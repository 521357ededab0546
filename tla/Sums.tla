-------------------------------- MODULE Sums --------------------------------
(***************************************************************************)
(* What a vector's elements, pushed one after the other, take up.          *)
(***************************************************************************)
EXTENDS Integers, Sequences

(* Sums(bytes)[k]: the first k of the sequence bytes together.             *)
Sums(bytes) ==
  LET upto[k \in 0 .. Len(bytes)] == IF k = 0 THEN 0 ELSE upto[k - 1] + bytes[k]
  IN upto
=============================================================================
