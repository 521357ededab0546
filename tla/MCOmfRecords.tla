---------------------------- MODULE MCOmfRecords ----------------------------
(***************************************************************************)
(* A byte of 8 values: pages of 8 bytes, skips of up to 3 pages a byte,    *)
(* 16-bit offsets up to 63.                                                *)
(***************************************************************************)
EXTENDS OmfRecords

R(offset, size, shift, value) ==
  [offset |-> offset, size |-> size, shift |-> shift, value |-> value]

I(offset, size, shift, value, segment) ==
  [offset |-> offset, size |-> size, shift |-> shift, value |-> value,
   segment |-> segment]

(* Fields of every kind near the start, across a page and a skip, at the   *)
(* last page and beyond 16 bits; values up to and beyond 16 bits; segments *)
(* with a list, without one, and too large for a byte.  The bytes of a DDB *)
(* may come twice.                                                         *)
MixedRelocs ==
  {R(offset, 2, 0, 63) : offset \in {0, 2, 7, 38, 62}}
  \cup {R(0, 3, 0, 10), R(22, 3, 0, 63), R(40, 3, 0, 64)}
  \cup {R(4, 2, 240, 9), R(60, 2, 240, 63)}
  \cup {R(11, 1, 248, 20), R(64, 2, 0, 3), R(10, 2, 0, 64)}

MixedIntersegs ==
  {I(12, 3, 0, 63, 1), I(50, 3, 0, 9, 7), I(24, 3, 0, 1, 8)}
  \cup {I(16, 2, 0, 8, 2), I(34, 2, 0, 9, 3), I(56, 2, 0, 64, 1)}
  \cup {I(14, 2, 240, 8, 1), I(46, 2, 240, 9, 2), I(30, 2, 240, 9, 3)}
  \cup {I(13, 1, 248, 9, 2)}

(* Pages filled to the last byte, and one far away.                        *)
DenseRelocs ==
  {R(offset, 2, 0, 7) : offset \in {0, 2, 4, 6, 8, 10, 12, 14, 48, 50, 52, 54}}
  \cup {R(offset, 2, 0, 7) : offset \in {5, 7}}

MCFixups ==
  {[relocs |-> MixedRelocs, intersegs |-> MixedIntersegs, most |-> 5],
   [relocs |-> DenseRelocs, intersegs |-> {}, most |-> 12]}
=============================================================================
