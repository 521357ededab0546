------------------------------ MODULE Holding ------------------------------
(***************************************************************************)
(* What mapped_file promises: an object holds nothing or one mapping of    *)
(* some length.  A mapping is acquired whole or not at all, moves from one *)
(* object to another, and is dropped by the object that holds it.          *)
(***************************************************************************)
CONSTANTS Objects, Nothing, Lengths

VARIABLE held

Acquire(o, length) ==
  /\ held[o] = Nothing
  /\ held' = [held EXCEPT ![o] = length]

Drop(o) == held' = [held EXCEPT ![o] = Nothing]

Exchange(a, b) == held' = [held EXCEPT ![a] = held[b], ![b] = held[a]]

(* The target gets the mapping of the source, its own is dropped.          *)
Move(a, b) == held' = [held EXCEPT ![a] = held[b], ![b] = Nothing]

HoldingInit == held = [o \in Objects |-> Nothing]

HoldingNext ==
  \/ \E o \in Objects : Drop(o) \/ \E length \in Lengths : Acquire(o, length)
  \/ \E a, b \in Objects : a # b /\ (Exchange(a, b) \/ Move(a, b))

HoldingSpec == HoldingInit /\ [][HoldingNext]_held
=============================================================================
