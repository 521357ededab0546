------------------------------ MODULE CondNest -----------------------------
(***************************************************************************)
(* What DO / ELS / FIN promise a command file: blocks nest, and a line is  *)
(* evaluated exactly when every block around it stands in its chosen half. *)
(* Two things the linker does not promise: after a DO whose operand is bad *)
(* lines are still evaluated, up to the next of the three opcodes, and     *)
(* after a FIN without DO nothing is known of the blocks any more.         *)
(***************************************************************************)
EXTENDS Naturals, Sequences

CONSTANT MaxDepth

VARIABLES
  nest,       \* for each open block, outermost first: 1 in its chosen half, else 0
  active,
  strayFin

nestVars == <<nest, active, strayFin>>

AllChosen(blocks) == \A j \in DOMAIN blocks : blocks[j] = 1

NestInit == nest = <<>> /\ active = TRUE /\ strayFin = FALSE

Open(chosen) ==
  /\ Len(nest) < MaxDepth
  /\ nest' = Append(nest, chosen)
  /\ active' = AllChosen(nest')

OpenBad ==
  /\ active
  /\ Len(nest) < MaxDepth
  /\ nest' = Append(nest, 0)
  /\ active' = TRUE

Turn ==
  /\ nest # <<>>
  /\ nest' = [nest EXCEPT ![Len(nest)] = 1 - @]
  /\ active' = AllChosen(nest')

Close ==
  /\ nest # <<>>
  /\ nest' = SubSeq(nest, 1, Len(nest) - 1)
  /\ active' = AllChosen(nest')

CloseNothing ==
  /\ nest = <<>>
  /\ nest' = <<>>
  /\ active' = TRUE

NestNext ==
  \/ /\ ~strayFin
     /\ \/ \E chosen \in 0..1 : (chosen = 1 => active) /\ Open(chosen)
        \/ OpenBad
        \/ Turn
        \/ Close
     /\ strayFin' = FALSE
  \/ CloseNothing /\ strayFin' = TRUE
  \/ strayFin /\ strayFin' /\ nest' = nest /\ active' \in BOOLEAN

NestSpec == NestInit /\ [][NestNext]_nestVars
=============================================================================
