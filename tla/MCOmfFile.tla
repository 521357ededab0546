----------------------------- MODULE MCOmfFile -----------------------------
(***************************************************************************)
(* Files of up to three segments, with the sizes of the program.           *)
(***************************************************************************)
EXTENDS OmfFile

CONSTANTS Names, Sizes, Reserved, Relocs, MaxSegments, Versions, Objects

(* Segments are numbered from 1, refer to each other, and to a segment of  *)
(* another file.                                                           *)
MCSegments(n) ==
  [1 .. n -> [name : Names, size : Sizes, reserved : Reserved, relocs : Relocs]]

Numbered(segs) ==
  [i \in DOMAIN segs |->
     [name |-> segs[i].name, size |-> segs[i].size, reserved |-> segs[i].reserved,
      relocs |-> segs[i].relocs, segnum |-> i,
      targets |-> (1 .. Len(segs) + 1) \ {i}]]

MCFiles ==
  {[segments |-> Numbered(segs), express |-> express, version |-> version,
    object |-> object] :
      segs \in UNION {MCSegments(n) : n \in 1 .. MaxSegments},
      express \in BOOLEAN, version \in Versions, object \in {FALSE}}
  \cup {[segments |-> Numbered(segs), express |-> FALSE, version |-> version,
         object |-> object] :
          segs \in MCSegments(1), version \in Versions, object \in Objects}
=============================================================================
