--------------------------- MODULE ObjectPromise ---------------------------
(***************************************************************************)
(* What finish3() promises of a segment: one decision, which comes, and is *)
(* to save exactly the segments that can be laid out.                      *)
(***************************************************************************)
EXTENDS Placement

VARIABLES plan, outcome

promiseVars == <<plan, outcome>>

Possible == Fits(plan.size, plan.labels, plan.unresolved, plan.resolved)

Decide ==
  /\ outcome = "none"
  /\ outcome' = IF Possible THEN "saved" ELSE "thrown"
  /\ UNCHANGED plan

PromiseSafe == outcome = "none" /\ [][Decide]_promiseVars

PromiseSpec == PromiseSafe /\ WF_promiseVars(Decide)
=============================================================================
