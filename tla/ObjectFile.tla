----------------------------- MODULE ObjectFile -----------------------------
(***************************************************************************)
(* finish3(): a segment becomes the body of an OMF object file.  The loop  *)
(* walks the data from one break to the next; it copies the bytes up to    *)
(* the break and puts the labels and the fields that stand there.          *)
(*                                                                         *)
(* The sorted vectors and their iterators are the sets of what is left: an *)
(* iterator stands at an element of least offset.                          *)
(***************************************************************************)
EXTENDS Placement, Sums, FiniteSets

CONSTANT Plans   \* segments: [size, labels, unresolved, resolved]

VARIABLES
  plan,         \* the segment
  globals,      \* labels from iter1 on
  unresolved,   \* fields from iter2 on
  resolved,     \* fields from iter3 on
  breaks,       \* offsets where the copy stops
  offset,       \* bytes of the segment done
  pc,           \* length of the body
  delta,        \* has this round of the inner loop placed a field?
  records,      \* the body
  step,         \* where the loop is
  outcome       \* "none", then "saved" or "thrown"

vars == <<plan, globals, unresolved, resolved, breaks, offset, pc, delta,
          records, step, outcome>>

(* Fields have their bytes in the data (process_reloc asserts it).         *)
Field(size, f) ==
  f.offset \in Nat /\ f.size \in Nat \ {0} /\ f.offset + f.size <= size

ASSUME PlanAssumption ==
  \A p \in Plans :
    /\ p.size \in Nat
    /\ p.labels \subseteq Nat
    /\ \A f \in p.unresolved \cup p.resolved : Field(p.size, f)

Offsets(fields) == {f.offset : f \in fields}

Init ==
  /\ plan \in Plans
  /\ globals = plan.labels
  /\ unresolved = plan.unresolved
  /\ resolved = plan.resolved
  /\ breaks = plan.labels \cup Offsets(plan.unresolved) \cup Offsets(plan.resolved)
  /\ offset = 0
  /\ pc = 0
  /\ delta = FALSE
  /\ records = <<>>
  /\ step = "copy"
  /\ outcome = "none"
-----------------------------------------------------------------------------
Least(S) == CHOOSE x \in S : \A y \in S : x <= y

(* The breaks not yet passed, and where the copy stops.                    *)
AheadAll == breaks   \* variant: none is dropped
Ahead == {b \in breaks : b >= offset}

Stop(size) ==
  IF Ahead = {} THEN size
  ELSE IF Least(Ahead) < size THEN Least(Ahead) ELSE size

Body(kind, size, what) == [kind |-> kind, size |-> size, what |-> what]

GapSwapped(next) == offset - next   \* variant
Gap(next) == next - offset

(* CONST or LCONST up to the next break.                                   *)
Copy ==
  LET next == Stop(plan.size) IN
  /\ step = "copy"
  /\ breaks' = IF Ahead = {} THEN {} ELSE Ahead \ {Least(Ahead)}
  /\ IF next < offset
     THEN /\ step' = "end"
          /\ outcome' = "thrown"
          /\ UNCHANGED <<offset, pc, delta, records>>
     ELSE /\ offset' = next
          /\ pc' = pc + Gap(next)
          /\ records' = IF next = offset THEN records
                        ELSE Append(records, Body("const", Gap(next), {offset}))
          /\ step' = "globals"
          /\ UNCHANGED <<delta, outcome>>
  /\ UNCHANGED <<plan, globals, unresolved, resolved>>

HereOrBefore(labels) == {label \in labels : label <= offset}   \* variant

(* iter1: the labels at offset, unless one before it was passed over.      *)
Here(labels) ==
  IF \E label \in labels : label < offset THEN {}
  ELSE {label \in labels : label = offset}

Globals ==
  /\ step = "globals"
  /\ globals' = globals \ Here(globals)
  /\ records' = IF Here(globals) = {} THEN records
                ELSE Append(records, Body("global", 0, Here(globals)))
  /\ delta' = FALSE
  /\ step' = "unresolved"
  /\ UNCHANGED <<plan, unresolved, resolved, breaks, offset, pc, outcome>>

(* iter2, iter3: of the fields left, one with the least offset, if that is *)
(* where the loop stands.                                                  *)
Front(fields) ==
  {f \in fields : f.offset = offset /\ \A g \in fields : f.offset <= g.offset}

PutUncounted(f) ==   \* variant: pc is not advanced
  /\ offset' = offset + f.size
  /\ pc' = pc
  /\ records' = Append(records, Body("expr", f.size, {f}))
  /\ delta' = TRUE

Put(f) ==
  /\ offset' = offset + f.size
  /\ pc' = pc + f.size
  /\ records' = Append(records, Body("expr", f.size, {f}))
  /\ delta' = TRUE

Unresolved ==
  /\ step = "unresolved"
  /\ \/ \E f \in Front(unresolved) : Put(f) /\ unresolved' = unresolved \ {f}
     \/ /\ Front(unresolved) = {}
        /\ UNCHANGED <<unresolved, offset, pc, delta, records>>
  /\ step' = "resolved"
  /\ UNCHANGED <<plan, globals, resolved, breaks, outcome>>

(* The inner loop ends with a round that placed no field, the outer loop   *)
(* at the end of the data.                                                 *)
Resolved ==
  /\ step = "resolved"
  /\ \/ \E f \in Front(resolved) : Put(f) /\ resolved' = resolved \ {f}
     \/ /\ Front(resolved) = {}
        /\ UNCHANGED <<resolved, offset, pc, delta, records>>
  /\ step' = IF delta' THEN "globals" ELSE IF offset' >= plan.size THEN "check" ELSE "copy"
  /\ UNCHANGED <<plan, globals, unresolved, breaks, outcome>>

CheckLabels ==   \* variant: the fields left over are not looked at
  /\ step = "check"
  /\ outcome' = IF globals = {} THEN "saved" ELSE "thrown"
  /\ step' = "end"
  /\ UNCHANGED <<plan, globals, unresolved, resolved, breaks, offset, pc,
                 delta, records>>

(* What is left over has no place.                                         *)
Check ==
  /\ step = "check"
  /\ outcome' = IF globals = {} /\ unresolved = {} /\ resolved = {}
                THEN "saved" ELSE "thrown"
  /\ step' = "end"
  /\ UNCHANGED <<plan, globals, unresolved, resolved, breaks, offset, pc,
                 delta, records>>
-----------------------------------------------------------------------------
Next == Copy \/ Globals \/ Unresolved \/ Resolved \/ Check

(* One thread runs the loop to its end.                                    *)
Spec == Init /\ [][Next]_vars /\ WF_vars(Next)
-----------------------------------------------------------------------------
TypeOK ==
  /\ globals \subseteq plan.labels
  /\ unresolved \subseteq plan.unresolved
  /\ resolved \subseteq plan.resolved
  /\ breaks \subseteq Nat
  /\ offset \in Nat
  /\ pc \in Nat
  /\ delta \in BOOLEAN
  /\ step \in {"copy", "globals", "unresolved", "resolved", "check", "end"}
  /\ outcome \in {"none", "saved", "thrown"}
  /\ step = "end" <=> outcome # "none"

(* finish3() saves exactly the segments whose labels and fields have a     *)
(* place of their own; any other one is thrown out, never half laid out.   *)
PlacedIffFits ==
  LET fits == Fits(plan.size, plan.labels, plan.unresolved, plan.resolved) IN
  /\ outcome = "saved" => fits
  /\ outcome = "thrown" => ~fits

(* The copy never goes backwards: the break behind the loop that the first *)
(* "relocation offset error" guards against (link.cpp:953) does not occur, *)
(* so a segment is thrown out only for a label or a field left over.       *)
NeverBehind ==
  outcome = "thrown" => globals # {} \/ unresolved # {} \/ resolved # {}

(* Reading the body: a record stands behind the bytes of those before it.  *)
Position(i) == Sums([k \in DOMAIN records |-> records[k].size])[i - 1]

(* A loader that reads the body finds at every offset what the segment had *)
(* there: copied bytes, labels and fields stand where they stood, and the  *)
(* length in the header is the length of the body.                         *)
ReadsBack ==
  /\ pc = Position(Len(records) + 1)
  /\ \A i \in DOMAIN records :
       \A x \in records[i].what :
         IF records[i].kind = "expr" THEN x.offset = Position(i) /\ x.size = records[i].size
         ELSE x = Position(i)
  /\ outcome = "saved" =>
       /\ pc = plan.size
       /\ UNION {records[i].what : i \in {k \in DOMAIN records : records[k].kind = "global"}}
            = plan.labels
       /\ UNION {records[i].what : i \in {k \in DOMAIN records : records[k].kind = "expr"}}
            = plan.unresolved \cup plan.resolved

(* The loop is the one decision of ObjectPromise, and it comes.            *)
Promise == INSTANCE ObjectPromise
PromiseKept == Promise!PromiseSpec
-----------------------------------------------------------------------------
(* "global expr global expr" (link.cpp:969): the labels at an offset come  *)
(* before the field there, so a segment whose labels stand between its     *)
(* fields is laid out.                                                     *)
GlobalsBetweenFields ==
  Separate(plan.unresolved, plan.resolved)
  /\ LabelsClear(plan.size, plan.labels, plan.unresolved, plan.resolved)
  => outcome # "thrown"
=============================================================================
