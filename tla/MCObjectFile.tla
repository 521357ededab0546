---------------------------- MODULE MCObjectFile ----------------------------
(***************************************************************************)
(* Every small segment: up to two fields of either kind and two labels.    *)
(***************************************************************************)
EXTENDS ObjectFile

CONSTANTS MaxSize, MaxFields, MaxLabels

FieldsOf(size) ==
  {f \in [offset : 0 .. size, size : 1..3] : f.offset + f.size <= size}

UpTo(n, S) == {T \in SUBSET S : Cardinality(T) <= n}

MCPlans ==
  UNION {[size : {size}, labels : UpTo(MaxLabels, 0 .. size + 1),
          unresolved : UpTo(MaxFields, FieldsOf(size)),
          resolved : UpTo(MaxFields, FieldsOf(size))] : size \in 0 .. MaxSize}
=============================================================================
