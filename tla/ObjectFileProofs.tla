-------------------------- MODULE ObjectFileProofs --------------------------
(***************************************************************************)
(* finish3() saves exactly the segments that can be laid out, for segments *)
(* of every size.  The invariant has two halves: what has been placed fits *)
(* (so a segment that is saved fits), and if the whole segment fits, the   *)
(* loop has passed over nothing (so it is not thrown out).  BodyInv says   *)
(* that the body holds what was done, at the place it was in the segment.  *)
(***************************************************************************)
EXTENDS ObjectFile, SumsProofs

GlobalsDone == plan.labels \ globals
UnresolvedDone == plan.unresolved \ unresolved
ResolvedDone == plan.resolved \ resolved

(* What was placed is behind the loop and fits.  An unresolved field that  *)
(* ends where the loop stands has no resolved one behind it, unless it was *)
(* placed in this round.                                                   *)
DoneFits ==
  /\ offset <= plan.size
  /\ \A l \in GlobalsDone : l <= offset
  /\ \A f \in UnresolvedDone \cup ResolvedDone : End(f) <= offset
  /\ Fits(plan.size, GlobalsDone, UnresolvedDone, ResolvedDone)

NotSkipping ==
  \A f \in UnresolvedDone :
    End(f) = offset =>
      \/ Front(resolved) = {}
      \/ /\ step = "resolved"
         /\ offset \notin GlobalsDone

(* What is left is ahead of the loop, and a break ahead of it.             *)
LeftAhead ==
  /\ \A l \in globals : l >= offset
  /\ \A f \in unresolved \cup resolved : f.offset >= offset
  /\ \A l \in globals : l = offset \/ l \in breaks
  /\ \A f \in unresolved \cup resolved : f.offset = offset \/ f.offset \in breaks
  /\ step = "copy" => /\ globals \subseteq breaks
                      /\ Offsets(unresolved) \subseteq breaks
                      /\ Offsets(resolved) \subseteq breaks
  /\ step = "check" => /\ offset >= plan.size
                       /\ offset \notin globals
                       /\ offset \notin Offsets(unresolved)
                       /\ offset \notin Offsets(resolved)
  /\ step = "unresolved" => ~delta /\ offset \notin globals
  /\ step = "resolved" => \/ /\ ~delta
                             /\ offset \notin globals
                             /\ offset \notin Offsets(unresolved)
                          \/ delta /\ \E f \in plan.unresolved : End(f) = offset

Whole == Fits(plan.size, plan.labels, plan.unresolved, plan.resolved)

Leftover == globals # {} \/ unresolved # {} \/ resolved # {}

LayoutInv ==
  /\ TypeOK
  /\ plan \in Plans
  /\ DoneFits
  /\ NotSkipping
  /\ Whole => outcome # "thrown" /\ (outcome = "none" => LeftAhead)
  /\ outcome = "saved" => ~Leftover
  /\ outcome = "thrown" => Leftover
-----------------------------------------------------------------------------
(* The plan, without Plans.                                                *)
LEMMA PlanType ==
  ASSUME plan \in Plans
  PROVE  /\ plan.size \in Nat
         /\ plan.labels \subseteq Nat
         /\ \A f \in plan.unresolved \cup plan.resolved :
              /\ f.offset \in Nat /\ f.size \in Nat /\ f.size # 0
              /\ f.offset + f.size <= plan.size
  BY PlanAssumption DEF Field

LEMMA LeastIsLeast ==
  ASSUME NEW S \in SUBSET Nat, S # {}
  PROVE  Least(S) \in S /\ \A y \in S : Least(S) <= y
  <1> DEFINE R == OpToRel(<, Nat)
  <1>3. \E x \in S : \A y \in S : ~(<<y, x>> \in R)
    <2>1. IsWellFoundedOn(R, Nat)
      BY NatLessThanWellFounded
    <2> HIDE DEF R
    <2>2. QED
      BY <2>1, WFMin
  <1>4. \A x, y \in Nat : <<y, x>> \in R <=> y < x
    BY DEF OpToRel
  <1> HIDE DEF R
  <1>1. \E x \in S : \A y \in S : x <= y
    <2>1. PICK x \in S : \A y \in S : ~(<<y, x>> \in R)
      BY <1>3
    <2>2. \A y \in S : ~(y < x)
      BY <1>4, <2>1
    <2>3. \A y \in S : x <= y
      BY <2>2
    <2>4. QED
      BY <2>3
  <1>2. QED
    BY <1>1 DEF Least

(* Where the copy stops: never behind the loop, never beyond the data, and *)
(* not beyond a break ahead.                                               *)
LEMMA StopBounds ==
  ASSUME LayoutInv
  PROVE  /\ Stop(plan.size) \in Nat
         /\ Stop(plan.size) >= offset
         /\ Stop(plan.size) <= plan.size
         /\ \A b \in breaks : b >= offset => Stop(plan.size) <= b
         /\ \A b \in breaks : b >= offset /\ b # Stop(plan.size) /\ b <= plan.size
              => b \in Ahead \ {Least(Ahead)}
  <1>1. /\ plan.size \in Nat /\ offset \in Nat /\ offset <= plan.size
        /\ breaks \subseteq Nat /\ Ahead \subseteq Nat
    BY PlanType DEF LayoutInv, TypeOK, DoneFits, Ahead
  <1>2. CASE Ahead = {}
    BY <1>1, <1>2 DEF Stop, Ahead
  <1>3. CASE Ahead # {}
    <2>1. Least(Ahead) \in Ahead /\ \A y \in Ahead : Least(Ahead) <= y
      BY <1>1, <1>3, LeastIsLeast
    <2> DEFINE least == Least(Ahead)
    <2>2. least \in Nat /\ least >= offset /\ \A b \in breaks : b >= offset => least <= b
      BY <1>1, <2>1 DEF Ahead
    <2>3. Stop(plan.size) = IF least < plan.size THEN least ELSE plan.size
      BY <1>3 DEF Stop
    <2>4. \A b \in breaks : b >= offset => b \in Ahead
      BY DEF Ahead
    <2> HIDE DEF least
    <2>5. \A b \in breaks : b >= offset /\ b # Stop(plan.size) /\ b <= plan.size
            => b \in Ahead \ {least}
      BY <1>1, <2>2, <2>3, <2>4
    <2>6. QED
      BY <1>1, <2>2, <2>3, <2>5 DEF least
  <1>4. QED
    BY <1>2, <1>3
-----------------------------------------------------------------------------
LEMMA LayoutInit == Init => LayoutInv
  <1> SUFFICES ASSUME Init PROVE LayoutInv
    OBVIOUS
  <1>1. plan \in Plans /\ outcome = "none" /\ step = "copy" /\ offset = 0
    BY DEF Init
  <1>2. TypeOK
    BY PlanType DEF Init, TypeOK, Offsets
  <1>3. GlobalsDone = {} /\ UnresolvedDone = {} /\ ResolvedDone = {}
    BY DEF Init, GlobalsDone, UnresolvedDone, ResolvedDone
  <1>4. DoneFits
    BY <1>1, <1>3, PlanType DEF DoneFits, Fits, Separate, LabelsClear, Skipped
  <1>5. NotSkipping
    BY <1>3 DEF NotSkipping
  <1>6. LeftAhead
    BY <1>1, PlanType DEF Init, LeftAhead, Offsets
  <1>7. QED
    BY <1>1, <1>2, <1>4, <1>5, <1>6 DEF LayoutInv
-----------------------------------------------------------------------------
LEMMA CopyKeeps ==
  ASSUME LayoutInv, Copy
  PROVE  LayoutInv'
  <1> DEFINE next == Stop(plan.size)
  <1>1. /\ next \in Nat /\ next >= offset /\ next <= plan.size
        /\ \A b \in breaks : b >= offset => next <= b
        /\ \A b \in breaks : b >= offset /\ b # next /\ b <= plan.size
             => b \in Ahead \ {Least(Ahead)}
    BY StopBounds
  <1>2. offset \in Nat /\ plan.size \in Nat /\ pc \in Nat
    BY PlanType DEF LayoutInv, TypeOK
  <1> HIDE DEF next
  <1>3. /\ step = "copy" /\ outcome = "none"
        /\ offset' = next /\ pc' = pc + (next - offset)
        /\ breaks' = (IF Ahead = {} THEN {} ELSE Ahead \ {Least(Ahead)})
        /\ step' = "globals"
        /\ UNCHANGED <<delta, outcome, plan, globals, unresolved, resolved>>
    BY <1>1, <1>2 DEF Copy, next, LayoutInv, TypeOK, Gap
  <1>4. TypeOK'
    <2>1. breaks' \subseteq Nat
      BY <1>3 DEF LayoutInv, TypeOK, Ahead
    <2>2. offset' \in Nat /\ pc' \in Nat
      BY <1>1, <1>2, <1>3
    <2>3. QED
      BY <1>3, <2>1, <2>2 DEF LayoutInv, TypeOK
  <1>5. /\ GlobalsDone' = GlobalsDone
        /\ UnresolvedDone' = UnresolvedDone
        /\ ResolvedDone' = ResolvedDone
    BY <1>3 DEF GlobalsDone, UnresolvedDone, ResolvedDone
  <1>6. DoneFits'
    <2>1. \A l \in GlobalsDone : l \in Nat /\ l <= next
      BY <1>1, <1>2, PlanType DEF LayoutInv, DoneFits, GlobalsDone
    <2>2. \A f \in UnresolvedDone \cup ResolvedDone : End(f) <= next
      BY <1>1, <1>2, PlanType DEF LayoutInv, DoneFits, UnresolvedDone, ResolvedDone, End
    <2>3. Fits(plan.size, GlobalsDone, UnresolvedDone, ResolvedDone)
      BY DEF LayoutInv, DoneFits
    <2>4. QED
      BY <1>1, <1>3, <1>5, <2>1, <2>2, <2>3 DEF DoneFits
  <1>7. NotSkipping'
    <2>1. CASE next = offset
      BY <1>3, <1>5, <2>1 DEF LayoutInv, NotSkipping, Front
    <2>2. CASE next # offset
      <3>1. \A f \in UnresolvedDone : End(f) \in Nat /\ End(f) <= offset
        BY PlanType DEF LayoutInv, DoneFits, UnresolvedDone, End
      <3>2. \A f \in UnresolvedDone : End(f) # next
        BY <1>1, <1>2, <2>2, <3>1
      <3>3. QED
        BY <1>3, <1>5, <3>2 DEF NotSkipping
    <2>3. QED
      BY <2>1, <2>2
  <1>8. ASSUME Whole, LeftAhead PROVE LeftAhead'
    <2>1. \A l \in globals : /\ l \in breaks /\ l >= offset /\ l <= plan.size
      BY <1>3, <1>8 DEF LeftAhead, Whole, Fits, LabelsClear, LayoutInv, TypeOK
    <2>2. \A l \in globals : l >= next /\ (l = next \/ l \in breaks')
      BY <1>1, <1>3, <2>1
    <2>3. \A f \in unresolved \cup resolved :
            f.offset \in breaks /\ f.offset >= offset /\ f.offset <= plan.size
      <3>1. \A f \in unresolved \cup resolved : f.offset \in breaks /\ f.offset >= offset
        BY <1>3, <1>8 DEF LeftAhead, Offsets
      <3>2. \A f \in unresolved \cup resolved : f.offset <= plan.size
        BY PlanType DEF LayoutInv, TypeOK
      <3>3. QED
        BY <3>1, <3>2
    <2>4. \A f \in unresolved \cup resolved :
            f.offset >= next /\ (f.offset = next \/ f.offset \in breaks')
      BY <1>1, <1>3, <2>3
    <2>5. QED
      BY <1>3, <2>2, <2>4 DEF LeftAhead
  <1>9. QED
    BY <1>3, <1>4, <1>6, <1>7, <1>8 DEF LayoutInv, Whole, Leftover
-----------------------------------------------------------------------------
LEMMA GlobalsKeeps ==
  ASSUME LayoutInv, Globals
  PROVE  LayoutInv'
  <1>1. /\ step = "globals" /\ step' = "unresolved" /\ outcome = "none" /\ delta' = FALSE
        /\ globals' = globals \ Here(globals)
        /\ UNCHANGED <<plan, unresolved, resolved, breaks, offset, pc, outcome>>
    BY DEF Globals, LayoutInv, TypeOK
  <1>2. TypeOK'
    BY <1>1 DEF LayoutInv, TypeOK
  <1>3. offset \in Nat /\ plan.size \in Nat /\ globals \subseteq Nat
    BY PlanType DEF LayoutInv, TypeOK
  <1>4. /\ GlobalsDone' \subseteq GlobalsDone \cup {offset}
        /\ UnresolvedDone' = UnresolvedDone
        /\ ResolvedDone' = ResolvedDone
    BY <1>1 DEF GlobalsDone, UnresolvedDone, ResolvedDone, Here
  <1>5. \A f \in UnresolvedDone \cup ResolvedDone :
          /\ End(f) \in Nat /\ f.offset \in Nat /\ f.offset < End(f) /\ End(f) <= offset
    BY PlanType DEF LayoutInv, DoneFits, UnresolvedDone, ResolvedDone, End
  <1>6. DoneFits'
    <2>1. LabelsClear(plan.size, GlobalsDone', UnresolvedDone, ResolvedDone)
      BY <1>3, <1>4, <1>5 DEF LayoutInv, DoneFits, Fits, LabelsClear, Inside
    <2>2. ~Skipped(GlobalsDone', UnresolvedDone, ResolvedDone)
      BY <1>3, <1>4, <1>5 DEF LayoutInv, DoneFits, Fits, Skipped
    <2>3. QED
      BY <1>1, <1>3, <1>4, <1>5, <2>1, <2>2 DEF LayoutInv, DoneFits, Fits
  <1>7. NotSkipping'
    BY <1>1, <1>4 DEF LayoutInv, NotSkipping, Front
  <1>8. ASSUME Whole, LeftAhead PROVE LeftAhead'
    <2>1. offset \notin globals'
      BY <1>1, <1>3, <1>8 DEF LeftAhead, Here
    <2>2. QED
      BY <1>1, <1>8, <2>1 DEF LeftAhead
  <1>9. QED
    BY <1>1, <1>2, <1>6, <1>7, <1>8 DEF LayoutInv, Whole
-----------------------------------------------------------------------------
(* A field that is put in its place at the loop fits what is there.        *)
LEMMA PutFits ==
  ASSUME LayoutInv, NEW fields, fields = unresolved \/ fields = resolved,
         NEW f \in Front(fields)
  PROVE  /\ f.offset = offset /\ End(f) = offset + f.size
         /\ f.size \in Nat /\ f.size # 0
         /\ End(f) \in Nat /\ End(f) > offset /\ End(f) <= plan.size
         /\ \A g \in UnresolvedDone \cup ResolvedDone : Apart(f, g) /\ Apart(g, f)
         /\ \A l \in GlobalsDone : ~Inside(l, f)
  <1>1. f \in plan.unresolved \cup plan.resolved /\ f.offset = offset
    BY DEF LayoutInv, TypeOK, Front
  <1>2. /\ f.offset \in Nat /\ f.size \in Nat /\ f.size # 0
        /\ f.offset + f.size <= plan.size /\ plan.size \in Nat
    BY <1>1, PlanType DEF LayoutInv
  <1>3. \A g \in UnresolvedDone \cup ResolvedDone : End(g) <= offset
    BY DEF LayoutInv, DoneFits
  <1>4. \A l \in GlobalsDone : l \in Nat /\ l <= offset
    BY PlanType DEF LayoutInv, DoneFits, GlobalsDone
  <1>5. End(f) = offset + f.size
    BY <1>1 DEF End
  <1>6. QED
    BY <1>1, <1>2, <1>3, <1>4, <1>5 DEF Apart, Inside

(* If all fits, what is left is clear of the field.                        *)
LEMMA PutClears ==
  ASSUME LayoutInv, Whole, LeftAhead,
         NEW fields, fields = unresolved \/ fields = resolved,
         NEW f \in Front(fields)
  PROVE  /\ \A g \in (unresolved \cup resolved) : g # f => g.offset >= End(f)
         /\ unresolved \cap resolved = {}
         /\ \A l \in globals : l = offset \/ l >= End(f)
  <1>1. f \in unresolved \cup resolved /\ f.offset = offset
    BY DEF Front
  <1>2. \A g \in unresolved \cup resolved :
          /\ g.offset \in Nat /\ g.size \in Nat /\ g.size # 0 /\ g.offset >= offset
    BY PlanType DEF LayoutInv, TypeOK, LeftAhead
  <1>3. globals \subseteq Nat /\ \A l \in globals : l >= offset /\ ~Inside(l, f)
    BY <1>1, PlanType DEF LayoutInv, TypeOK, LeftAhead, Whole, Fits, LabelsClear
  <1>4. \A g \in unresolved \cup resolved : g # f => Apart(f, g) \/ Apart(g, f)
    BY <1>1 DEF LayoutInv, TypeOK, Whole, Fits, Separate
  <1>5. \A g \in (unresolved \cup resolved) : g # f => g.offset >= End(f)
    BY <1>1, <1>2, <1>4 DEF Apart, End
  <1>6. unresolved \cap resolved = {}
    <2>1. ASSUME NEW g \in unresolved \cap resolved PROVE FALSE
      <3>1. Apart(g, g)
        BY DEF LayoutInv, TypeOK, Whole, Fits, Separate
      <3>2. QED
        BY <1>2, <3>1 DEF Apart, End
    <2>2. QED
      BY <2>1
  <1>7. \A l \in globals : l = offset \/ l >= End(f)
    <2>1. End(f) \in Nat /\ offset \in Nat
      BY <1>1, <1>2 DEF End
    <2>2. QED
      BY <1>1, <1>3, <2>1 DEF Inside
  <1>8. QED
    BY <1>5, <1>6, <1>7
-----------------------------------------------------------------------------
LEMMA UnresolvedKeeps ==
  ASSUME LayoutInv, Unresolved
  PROVE  LayoutInv'
  <1>1. /\ step = "unresolved" /\ step' = "resolved" /\ outcome = "none"
        /\ UNCHANGED <<plan, globals, resolved, breaks, outcome>>
    BY DEF Unresolved, LayoutInv, TypeOK
  <1>2. offset \in Nat /\ pc \in Nat /\ plan.size \in Nat /\ globals \subseteq Nat
    BY PlanType DEF LayoutInv, TypeOK
  <1>3. /\ GlobalsDone' = GlobalsDone /\ ResolvedDone' = ResolvedDone
        /\ \A l \in GlobalsDone : l \in Nat /\ l <= offset
        /\ \A g \in UnresolvedDone \cup ResolvedDone :
             /\ End(g) \in Nat /\ g.offset \in Nat /\ g.offset < End(g) /\ End(g) <= offset
    BY <1>1, PlanType DEF LayoutInv, DoneFits, GlobalsDone, UnresolvedDone, ResolvedDone, End
  <1>4. CASE \E f \in Front(unresolved) : Put(f) /\ unresolved' = unresolved \ {f}
    <2>1. PICK f \in Front(unresolved) : Put(f) /\ unresolved' = unresolved \ {f}
      BY <1>4
    <2>2. /\ f.offset = offset /\ End(f) = offset + f.size
          /\ f.size \in Nat /\ f.size # 0
          /\ End(f) \in Nat /\ End(f) > offset /\ End(f) <= plan.size
          /\ \A g \in UnresolvedDone \cup ResolvedDone : Apart(f, g) /\ Apart(g, f)
          /\ \A l \in GlobalsDone : ~Inside(l, f)
      BY PutFits
    <2>3. /\ offset' = End(f) /\ pc' = pc + f.size /\ delta' = TRUE
          /\ f \in unresolved /\ f \in plan.unresolved
      BY <2>1, <2>2 DEF Put, Front, LayoutInv, TypeOK
    <2>4. TypeOK'
      BY <1>1, <1>2, <2>1, <2>2, <2>3 DEF LayoutInv, TypeOK
    <2>5. UnresolvedDone' = UnresolvedDone \cup {f}
      BY <1>1, <2>1, <2>3 DEF UnresolvedDone
    <2>6. DoneFits'
      <3>1. Separate(UnresolvedDone \cup {f}, ResolvedDone)
        BY <2>2 DEF LayoutInv, DoneFits, Fits, Separate
      <3>2. LabelsClear(plan.size, GlobalsDone, UnresolvedDone \cup {f}, ResolvedDone)
        BY <2>2 DEF LayoutInv, DoneFits, Fits, LabelsClear
      <3>3. ~Skipped(GlobalsDone, UnresolvedDone \cup {f}, ResolvedDone)
        BY <1>2, <1>3, <2>2 DEF LayoutInv, DoneFits, Fits, Skipped
      <3>4. Fits(plan.size, GlobalsDone, UnresolvedDone \cup {f}, ResolvedDone)
        BY <3>1, <3>2, <3>3 DEF Fits
      <3>5. /\ \A l \in GlobalsDone : l <= End(f)
            /\ \A g \in UnresolvedDone \cup {f} \cup ResolvedDone : End(g) <= End(f)
        BY <1>2, <1>3, <2>2
      <3>6. QED
        BY <1>1, <1>3, <2>2, <2>3, <2>5, <3>4, <3>5 DEF DoneFits
    <2>7. NotSkipping'
      <3>1. offset' \notin GlobalsDone'
        BY <1>2, <1>3, <2>2, <2>3
      <3>2. QED
        BY <1>1, <3>1 DEF NotSkipping
    <2>8. ASSUME Whole, LeftAhead PROVE LeftAhead'
      <3>1. /\ \A g \in (unresolved \cup resolved) : g # f => g.offset >= End(f)
            /\ unresolved \cap resolved = {}
            /\ \A l \in globals : l = offset \/ l >= End(f)
        BY <2>8, PutClears
      <3>2. \A l \in globals : l >= End(f) /\ l \in breaks
        BY <1>1, <1>2, <2>8, <3>1 DEF LeftAhead
      <3>3. \A g \in unresolved' \cup resolved' :
              g.offset \in Nat /\ g.offset >= End(f) /\ g \in unresolved \cup resolved
        BY <1>1, <2>1, <2>3, <3>1, PlanType DEF LayoutInv, TypeOK
      <3>4. \A g \in unresolved' \cup resolved' : g.offset \in breaks
        BY <1>2, <2>2, <2>8, <3>3 DEF LeftAhead
      <3>5. \E g \in plan'.unresolved : End(g) = offset'
        BY <1>1, <2>3
      <3>6. QED
        BY <1>1, <2>3, <3>2, <3>3, <3>4, <3>5 DEF LeftAhead
    <2>9. QED
      BY <1>1, <2>4, <2>6, <2>7, <2>8 DEF LayoutInv, Whole
  <1>5. CASE Front(unresolved) = {} /\ UNCHANGED <<unresolved, offset, pc, delta>>
    <2>1. TypeOK'
      BY <1>1, <1>5 DEF LayoutInv, TypeOK
    <2>2. UnresolvedDone' = UnresolvedDone
      BY <1>1, <1>5 DEF UnresolvedDone
    <2>3. DoneFits'
      BY <1>1, <1>3, <1>5, <2>2 DEF LayoutInv, DoneFits
    <2>4. NotSkipping'
      BY <1>1, <1>3, <1>5, <2>2 DEF LayoutInv, NotSkipping, Front
    <2>5. ASSUME Whole, LeftAhead PROVE LeftAhead'
      <3>1. offset \notin Offsets(unresolved)
        BY <1>5, <2>5 DEF LeftAhead, Front, Offsets
      <3>2. QED
        BY <1>1, <1>5, <2>5, <3>1 DEF LeftAhead, LayoutInv, TypeOK
    <2>6. QED
      BY <1>1, <2>1, <2>3, <2>4, <2>5 DEF LayoutInv, Whole
  <1>6. QED
    BY <1>4, <1>5 DEF Unresolved
-----------------------------------------------------------------------------
LEMMA ResolvedKeeps ==
  ASSUME LayoutInv, Resolved
  PROVE  LayoutInv'
  <1>1. /\ step = "resolved" /\ outcome = "none"
        /\ step' = (IF delta' THEN "globals"
                    ELSE IF offset' >= plan.size THEN "check" ELSE "copy")
        /\ UNCHANGED <<plan, globals, unresolved, breaks, outcome>>
    BY DEF Resolved, LayoutInv, TypeOK
  <1>2. /\ offset \in Nat /\ pc \in Nat /\ plan.size \in Nat /\ globals \subseteq Nat
        /\ delta \in BOOLEAN
    BY PlanType DEF LayoutInv, TypeOK
  <1>3. /\ GlobalsDone' = GlobalsDone /\ UnresolvedDone' = UnresolvedDone
        /\ \A l \in GlobalsDone : l \in Nat /\ l <= offset
        /\ \A g \in UnresolvedDone \cup ResolvedDone :
             /\ End(g) \in Nat /\ g.offset \in Nat /\ g.offset < End(g) /\ End(g) <= offset
    BY <1>1, PlanType DEF LayoutInv, DoneFits, GlobalsDone, UnresolvedDone, ResolvedDone, End
  <1>4. CASE \E f \in Front(resolved) : Put(f) /\ resolved' = resolved \ {f}
    <2>1. PICK f \in Front(resolved) : Put(f) /\ resolved' = resolved \ {f}
      BY <1>4
    <2>2. /\ f.offset = offset /\ End(f) = offset + f.size
          /\ f.size \in Nat /\ f.size # 0
          /\ End(f) \in Nat /\ End(f) > offset /\ End(f) <= plan.size
          /\ \A g \in UnresolvedDone \cup ResolvedDone : Apart(f, g) /\ Apart(g, f)
          /\ \A l \in GlobalsDone : ~Inside(l, f)
      BY PutFits
    <2>3. /\ offset' = End(f) /\ pc' = pc + f.size /\ delta' = TRUE /\ step' = "globals"
          /\ f \in resolved /\ f \in plan.resolved
      BY <1>1, <2>1, <2>2 DEF Put, Front, LayoutInv, TypeOK
    <2>4. TypeOK'
      BY <1>1, <1>2, <2>1, <2>2, <2>3 DEF LayoutInv, TypeOK
    <2>5. ResolvedDone' = ResolvedDone \cup {f}
      BY <1>1, <2>1, <2>3 DEF ResolvedDone
    <2>6. DoneFits'
      <3>1. Separate(UnresolvedDone, ResolvedDone \cup {f})
        BY <2>2 DEF LayoutInv, DoneFits, Fits, Separate
      <3>2. LabelsClear(plan.size, GlobalsDone, UnresolvedDone, ResolvedDone \cup {f})
        BY <2>2 DEF LayoutInv, DoneFits, Fits, LabelsClear
      <3>3. ~Skipped(GlobalsDone, UnresolvedDone, ResolvedDone \cup {f})
        <4>1. \A g \in UnresolvedDone : End(g) = offset => offset \notin GlobalsDone
          BY <2>1 DEF LayoutInv, NotSkipping
        <4>2. QED
          BY <2>2, <4>1 DEF LayoutInv, DoneFits, Fits, Skipped
      <3>4. Fits(plan.size, GlobalsDone, UnresolvedDone, ResolvedDone \cup {f})
        BY <3>1, <3>2, <3>3 DEF Fits
      <3>5. /\ \A l \in GlobalsDone : l <= End(f)
            /\ \A g \in UnresolvedDone \cup ResolvedDone \cup {f} : End(g) <= End(f)
        BY <1>2, <1>3, <2>2
      <3>6. QED
        BY <1>1, <1>3, <2>2, <2>3, <2>5, <3>4, <3>5 DEF DoneFits
    <2>7. NotSkipping'
      <3>1. \A g \in UnresolvedDone : End(g) # offset'
        BY <1>2, <1>3, <2>2, <2>3
      <3>2. QED
        BY <1>3, <3>1 DEF NotSkipping, End
    <2>8. ASSUME Whole, LeftAhead PROVE LeftAhead'
      <3>1. /\ \A g \in (unresolved \cup resolved) : g # f => g.offset >= End(f)
            /\ unresolved \cap resolved = {}
            /\ \A l \in globals : l = offset \/ l >= End(f)
        BY <2>8, PutClears
      <3>2. offset \notin globals
        <4>1. CASE delta
          <5>1. PICK g \in plan.unresolved : End(g) = offset
            BY <1>1, <2>8, <4>1 DEF LeftAhead
          <5>2. offset \notin plan.labels
            BY <2>2, <2>3, <2>8, <5>1 DEF Whole, Fits, Skipped
          <5>3. QED
            BY <5>2 DEF LayoutInv, TypeOK
        <4>2. CASE ~delta
          BY <1>1, <2>8, <4>2 DEF LeftAhead
        <4>3. QED
          BY <1>2, <4>1, <4>2
      <3>3. \A l \in globals : l >= End(f) /\ l \in breaks
        BY <1>1, <1>2, <2>8, <3>1, <3>2 DEF LeftAhead
      <3>4. \A g \in unresolved' \cup resolved' :
              g.offset \in Nat /\ g.offset >= End(f) /\ g \in unresolved \cup resolved
        BY <1>1, <2>1, <2>3, <3>1, PlanType DEF LayoutInv, TypeOK
      <3>5. \A g \in unresolved' \cup resolved' : g.offset \in breaks
        BY <1>2, <2>2, <2>8, <3>4 DEF LeftAhead
      <3>6. QED
        BY <1>1, <2>3, <3>3, <3>4, <3>5 DEF LeftAhead
    <2>9. QED
      BY <1>1, <2>4, <2>6, <2>7, <2>8 DEF LayoutInv, Whole
  <1>5. CASE Front(resolved) = {} /\ UNCHANGED <<resolved, offset, pc, delta>>
    <2>1. TypeOK'
      BY <1>1, <1>2, <1>5 DEF LayoutInv, TypeOK
    <2>2. ResolvedDone' = ResolvedDone
      BY <1>1, <1>5 DEF ResolvedDone
    <2>3. DoneFits'
      BY <1>1, <1>3, <1>5, <2>2 DEF LayoutInv, DoneFits
    <2>4. NotSkipping'
      BY <1>3, <1>5 DEF NotSkipping, Front
    <2>5. ASSUME Whole, LeftAhead PROVE LeftAhead'
      <3>1. offset \notin Offsets(resolved)
        BY <1>5, <2>5 DEF LeftAhead, Front, Offsets
      <3>2. CASE delta
        BY <1>1, <1>5, <2>5, <3>2 DEF LeftAhead
      <3>3. CASE ~delta
        <4>1. offset \notin globals /\ offset \notin Offsets(unresolved)
          BY <1>1, <2>5, <3>3 DEF LeftAhead
        <4>2. /\ globals \subseteq breaks
              /\ Offsets(unresolved) \subseteq breaks
              /\ Offsets(resolved) \subseteq breaks
          BY <2>5, <3>1, <4>1 DEF LeftAhead, Offsets
        <4>3. step' \in {"check", "copy"} /\ (step' = "check" => offset >= plan.size)
          BY <1>1, <1>5, <3>3
        <4>4. QED
          BY <1>1, <1>5, <2>5, <3>1, <4>1, <4>2, <4>3 DEF LeftAhead
      <3>4. QED
        BY <1>2, <3>2, <3>3
    <2>6. QED
      BY <1>1, <2>1, <2>3, <2>4, <2>5 DEF LayoutInv, Whole
  <1>6. QED
    BY <1>4, <1>5 DEF Resolved
-----------------------------------------------------------------------------
LEMMA CheckKeeps ==
  ASSUME LayoutInv, Check
  PROVE  LayoutInv'
  <1>1. /\ step = "check" /\ step' = "end" /\ outcome = "none"
        /\ outcome' = (IF Leftover THEN "thrown" ELSE "saved")
        /\ UNCHANGED <<plan, globals, unresolved, resolved, breaks, offset, pc, delta>>
    BY DEF Check, Leftover, LayoutInv, TypeOK
  <1>2. TypeOK'
    BY <1>1 DEF LayoutInv, TypeOK
  <1>3. /\ GlobalsDone' = GlobalsDone
        /\ UnresolvedDone' = UnresolvedDone
        /\ ResolvedDone' = ResolvedDone
        /\ Leftover' = Leftover
        /\ Front(resolved)' = Front(resolved)
    BY <1>1 DEF GlobalsDone, UnresolvedDone, ResolvedDone, Leftover, Front
  <1>4. DoneFits'
    BY <1>1, <1>3 DEF LayoutInv, DoneFits
  <1>5. NotSkipping'
    BY <1>1, <1>3 DEF LayoutInv, NotSkipping
  <1>6. ASSUME Whole, LeftAhead PROVE ~Leftover
    <2>1. globals = {}
      <3>1. \A l \in globals : l \in Nat /\ l <= plan.size
        BY PlanType, <1>6 DEF LayoutInv, TypeOK, Whole, Fits, LabelsClear
      <3>2. \A l \in globals : l >= offset /\ l # offset
        BY <1>1, <1>6 DEF LeftAhead
      <3>3. offset >= plan.size /\ offset \in Nat /\ plan.size \in Nat
        BY <1>1, <1>6, PlanType DEF LeftAhead, LayoutInv, TypeOK
      <3>4. QED
        BY <3>1, <3>2, <3>3
    <2>2. unresolved = {} /\ resolved = {}
      <3>1. \A f \in unresolved \cup resolved : f.offset \in Nat /\ f.offset < plan.size
        BY PlanType DEF LayoutInv, TypeOK
      <3>2. \A f \in unresolved \cup resolved : f.offset >= plan.size
        BY <1>1, <1>6, <3>1, PlanType DEF LeftAhead, LayoutInv, TypeOK
      <3>3. \A f \in unresolved \cup resolved : FALSE
        BY <3>1, <3>2, PlanType DEF LayoutInv
      <3>4. QED
        BY <3>3
    <2>3. QED
      BY <2>1, <2>2 DEF Leftover
  <1>7. QED
    BY <1>1, <1>2, <1>3, <1>4, <1>5, <1>6 DEF LayoutInv, Whole

LEMMA LayoutNext ==
  ASSUME LayoutInv, [Next]_vars
  PROVE  LayoutInv'
  <1>1. CASE Copy
    BY <1>1, CopyKeeps
  <1>2. CASE Globals
    BY <1>2, GlobalsKeeps
  <1>3. CASE Unresolved
    BY <1>3, UnresolvedKeeps
  <1>4. CASE Resolved
    BY <1>4, ResolvedKeeps
  <1>5. CASE Check
    BY <1>5, CheckKeeps
  <1>6. CASE UNCHANGED vars
    BY <1>6 DEF vars, LayoutInv, TypeOK, DoneFits, NotSkipping, LeftAhead, Whole, Leftover,
       GlobalsDone, UnresolvedDone, ResolvedDone, Front
  <1>7. QED
    BY <1>1, <1>2, <1>3, <1>4, <1>5, <1>6 DEF Next

LEMMA LayoutHolds == Spec => []LayoutInv
  BY LayoutInit, LayoutNext, PTL DEF Spec

LEMMA InvFits == LayoutInv => PlacedIffFits
  <1> SUFFICES ASSUME LayoutInv PROVE PlacedIffFits
    OBVIOUS
  <1>1. ASSUME outcome = "saved" PROVE Whole
    <2>1. ~Leftover
      BY <1>1 DEF LayoutInv
    <2>2. /\ GlobalsDone = plan.labels
          /\ UnresolvedDone = plan.unresolved
          /\ ResolvedDone = plan.resolved
      BY <2>1 DEF Leftover, GlobalsDone, UnresolvedDone, ResolvedDone
    <2>3. QED
      BY <2>2 DEF LayoutInv, DoneFits, Whole
  <1>2. QED
    BY <1>1 DEF LayoutInv, PlacedIffFits, Whole
-----------------------------------------------------------------------------
(* The records recs stand one behind the other up to end, and everything   *)
(* in them where it was.                                                   *)
Laid(recs, end) ==
  LET at == Sums([k \in DOMAIN recs |-> recs[k].size]) IN
  /\ Len(recs) \in Nat /\ recs = [i \in 1 .. Len(recs) |-> recs[i]]
  /\ \A i \in DOMAIN recs : recs[i].size \in Nat
  /\ end = at[Len(recs)]
  /\ \A i \in DOMAIN recs :
       \A x \in recs[i].what :
         IF recs[i].kind = "expr" THEN x.offset = at[i - 1] /\ x.size = recs[i].size
         ELSE x = at[i - 1]

(* What the records of a kind hold.                                        *)
Held(recs, kind) == UNION {recs[i].what : i \in {k \in DOMAIN recs : recs[k].kind = kind}}

(* The body is what was done.                                              *)
BodyInv ==
  /\ Laid(records, pc)
  /\ pc = offset
  /\ Held(records, "global") = GlobalsDone
  /\ Held(records, "expr") = UnresolvedDone \cup ResolvedDone
  /\ step = "check" \/ outcome = "saved" => offset >= plan.size

(* One more record, with what stands at the end of the body.               *)
LEMMA LaidBehind ==
  ASSUME NEW recs, NEW end, Laid(recs, end), NEW r, r.size \in Nat,
         \A x \in r.what : IF r.kind = "expr" THEN x.offset = end /\ x.size = r.size
                           ELSE x = end
  PROVE  /\ Laid(Append(recs, r), end + r.size)
         /\ \A kind : Held(Append(recs, r), kind) =
                        Held(recs, kind) \cup IF r.kind = kind THEN r.what ELSE {}
  <1> DEFINE n == Len(recs)
             more == Append(recs, r)
             sizes == [k \in DOMAIN recs |-> recs[k].size]
             at == Sums(sizes)
             moreSizes == [k \in DOMAIN more |-> more[k].size]
             upto == Sums(moreSizes)
  <1>1. n \in Nat /\ recs = [i \in 1 .. n |-> recs[i]] /\ DOMAIN recs = 1 .. n
    BY DEF Laid
  <1>2. /\ \A i \in 1 .. n : recs[i].size \in Nat
        /\ end = at[n]
        /\ \A i \in 1 .. n :
             \A x \in recs[i].what :
               IF recs[i].kind = "expr" THEN x.offset = at[i - 1] /\ x.size = recs[i].size
               ELSE x = at[i - 1]
    BY <1>1 DEF Laid
  <1>3. more = [i \in 1 .. n + 1 |-> IF i <= n THEN recs[i] ELSE r] /\ Len(more) = n + 1
    <2> HIDE DEF n
    <2>1. QED
      BY <1>1, AppendIs
  <1>4. sizes \in Seq(Nat) /\ Len(sizes) = n
    <2>1. sizes = [i \in 1 .. n |-> recs[i].size]
      BY <1>1
    <2> HIDE DEF sizes, n
    <2>2. sizes \in [1 .. n -> Nat]
      BY <1>2, <2>1
    <2>3. QED
      BY <1>1, <2>1, <2>2
  <1> HIDE DEF n, more
  <1>5. moreSizes = Append(sizes, r.size)
    <2>1. moreSizes = [i \in 1 .. n + 1 |-> IF i <= n THEN sizes[i] ELSE r.size]
      BY <1>1, <1>3
    <2> HIDE DEF moreSizes, sizes
    <2>2. QED
      BY <1>1, <1>4, <2>1
  <1> HIDE DEF moreSizes, sizes
  <1>6. upto[n + 1] = at[n] + r.size /\ \A k \in 0 .. n : upto[k] = at[k]
    BY <1>4, <1>5, SumsAppend
  <1> HIDE DEF at, upto
  <1>7. /\ \A i \in 1 .. n : more[i] = recs[i] /\ i \in 1 .. n + 1 /\ i - 1 \in 0 .. n
        /\ more[n + 1] = r /\ n + 1 \in 1 .. n + 1
        /\ \A i \in 1 .. n + 1 : i \in 1 .. n \/ i = n + 1
    <2>1. ASSUME NEW i \in 1 .. n PROVE i \in 1 .. n + 1 /\ i <= n /\ i - 1 \in 0 .. n
      BY <1>1
    <2>2. \A i \in 1 .. n + 1 : more[i] = IF i <= n THEN recs[i] ELSE r
      BY <1>3
    <2>3. n + 1 \in 1 .. n + 1 /\ ~(n + 1 <= n)
      BY <1>1
    <2>4. \A i \in 1 .. n + 1 : i \in 1 .. n \/ i = n + 1
      BY <1>1
    <2>5. QED
      BY <2>1, <2>2, <2>3, <2>4
  <1>8. \A i \in 1 .. n + 1 : \A x \in more[i].what :
          IF more[i].kind = "expr" THEN x.offset = upto[i - 1] /\ x.size = more[i].size
          ELSE x = upto[i - 1]
    <2>1. ASSUME NEW i \in 1 .. n, NEW x \in more[i].what
          PROVE  IF more[i].kind = "expr" THEN x.offset = upto[i - 1] /\ x.size = more[i].size
                 ELSE x = upto[i - 1]
      <3>1. more[i] = recs[i] /\ upto[i - 1] = at[i - 1]
        BY <1>6, <1>7
      <3>2. QED
        BY <1>2, <2>1, <3>1
    <2>2. ASSUME NEW x \in more[n + 1].what
          PROVE  IF more[n + 1].kind = "expr"
                 THEN x.offset = upto[(n + 1) - 1] /\ x.size = more[n + 1].size
                 ELSE x = upto[(n + 1) - 1]
      <3>1. more[n + 1] = r
        BY <1>7
      <3>2. (n + 1) - 1 = n /\ n \in 0 .. n
        BY <1>1
      <3>3. upto[n] = end
        BY <1>2, <1>6, <3>2
      <3>4. QED
        BY <2>2, <3>1, <3>2, <3>3
    <2>3. QED
      BY <1>7, <2>1, <2>2
  <1>9. Laid(more, end + r.size)
    <2>1. DOMAIN more = 1 .. n + 1 /\ more = [i \in 1 .. Len(more) |-> more[i]]
      BY <1>3
    <2>2. \A i \in DOMAIN more : more[i].size \in Nat
      BY <1>2, <1>7, <2>1
    <2>3. Len(more) \in Nat /\ end + r.size = upto[Len(more)]
      <3>1. n \in 0 .. n
        BY <1>1
      <3>2. QED
        BY <1>1, <1>2, <1>3, <1>6, <3>1
    <2>4. \A i \in DOMAIN more : \A x \in more[i].what :
            IF more[i].kind = "expr" THEN x.offset = upto[i - 1] /\ x.size = more[i].size
            ELSE x = upto[i - 1]
      BY <1>8, <2>1
    <2>5. upto = Sums([k \in DOMAIN more |-> more[k].size])
      BY DEF upto, moreSizes
    <2> HIDE DEF upto, more
    <2>6. QED
      BY <2>1, <2>2, <2>3, <2>4, <2>5 DEF Laid
  <1>10. ASSUME NEW kind
        PROVE  Held(more, kind) = Held(recs, kind) \cup IF r.kind = kind THEN r.what ELSE {}
    <2>1. \A i \in 1 .. n : more[i] = recs[i]
      BY <1>7
    <2>2. more[n + 1] = r /\ DOMAIN more = 1 .. n \cup {n + 1}
      BY <1>1, <1>3, <1>7
    <2>3. ASSUME NEW x \in Held(more, kind)
          PROVE  x \in Held(recs, kind) \cup IF r.kind = kind THEN r.what ELSE {}
      <3>1. PICK i \in DOMAIN more : more[i].kind = kind /\ x \in more[i].what
        BY <2>3 DEF Held
      <3>2. QED
        BY <1>1, <2>1, <2>2, <3>1 DEF Held
    <2>4. Held(recs, kind) \subseteq Held(more, kind)
      BY <1>1, <2>1, <2>2 DEF Held
    <2>5. r.kind = kind => r.what \subseteq Held(more, kind)
      BY <2>2 DEF Held
    <2>6. QED
      BY <2>3, <2>4, <2>5
  <1>11. QED
    BY <1>9, <1>10 DEF more

LEMMA BodyStays ==
  ASSUME BodyInv, UNCHANGED <<records, pc>>
  PROVE  /\ Laid(records, pc)'
         /\ Held(records, "global")' = Held(records, "global")
         /\ Held(records, "expr")' = Held(records, "expr")
  <1>1. Laid(records, pc)' = Laid(records', pc')
    BY DEF Laid
  <1>2. Held(records, "global")' = Held(records', "global")
        /\ Held(records, "expr")' = Held(records', "expr")
    BY DEF Held
  <1>3. QED
    BY <1>1, <1>2 DEF BodyInv

LEMMA BodyInit == Init => BodyInv
  <1> SUFFICES ASSUME Init PROVE BodyInv
    OBVIOUS
  <1>1. records = <<>> /\ pc = 0 /\ offset = 0 /\ step = "copy" /\ outcome = "none"
    BY DEF Init
  <1> DEFINE sizes == [k \in DOMAIN records |-> records[k].size]
  <1>2. sizes \in Seq(Nat) /\ Len(sizes) = 0
    BY <1>1
  <1>3. Sums(sizes)[0] = 0
    <2> HIDE DEF sizes
    <2>1. QED
      BY <1>2, SumsAre
  <1>4. Laid(records, pc)
    BY <1>1, <1>3 DEF Laid
  <1>5. Held(records, "global") = {} /\ Held(records, "expr") = {}
    BY <1>1 DEF Held
  <1>6. GlobalsDone = {} /\ UnresolvedDone = {} /\ ResolvedDone = {}
    BY DEF Init, GlobalsDone, UnresolvedDone, ResolvedDone
  <1>7. QED
    BY <1>1, <1>4, <1>5, <1>6 DEF BodyInv

LEMMA CopyReads ==
  ASSUME LayoutInv, BodyInv, Copy
  PROVE  BodyInv'
  <1> DEFINE next == Stop(plan.size)
             r == Body("const", next - offset, {offset})
  <1>1. next \in Nat /\ next >= offset /\ offset \in Nat /\ outcome = "none"
    BY StopBounds DEF LayoutInv, TypeOK, Copy
  <1>2. /\ offset' = next /\ pc' = pc + (next - offset) /\ step' = "globals"
        /\ records' = (IF next = offset THEN records ELSE Append(records, r))
        /\ UNCHANGED <<plan, globals, unresolved, resolved, outcome>>
    <2>1. ~(next < offset)
      BY <1>1
    <2>2. QED
      BY <2>1 DEF Copy, Gap
  <1> HIDE DEF next
  <1>3. r.size = next - offset /\ r.size \in Nat /\ r.kind = "const" /\ r.what = {offset}
    BY <1>1 DEF Body
  <1> HIDE DEF r
  <1>4. pc' = offset' /\ pc = offset
    BY <1>1, <1>2 DEF BodyInv
  <1>5. Laid(records', pc') /\ Held(records', "global") = Held(records, "global")
        /\ Held(records', "expr") = Held(records, "expr")
    <2>1. CASE next = offset
      BY <1>1, <1>2, <1>4, <2>1 DEF BodyInv
    <2>2. CASE next # offset
      <3>1. /\ Laid(Append(records, r), pc + r.size)
            /\ \A kind : Held(Append(records, r), kind) =
                           Held(records, kind) \cup IF r.kind = kind THEN r.what ELSE {}
        BY <1>3, <1>4, LaidBehind DEF BodyInv
      <3>2. QED
        BY <1>2, <1>3, <2>2, <3>1
    <2>3. QED
      BY <2>1, <2>2
  <1>6. /\ GlobalsDone' = GlobalsDone /\ UnresolvedDone' = UnresolvedDone
        /\ ResolvedDone' = ResolvedDone
    BY <1>2 DEF GlobalsDone, UnresolvedDone, ResolvedDone
  <1>7. Held(records, "global")' = Held(records', "global")
        /\ Held(records, "expr")' = Held(records', "expr")
    BY DEF Held
  <1>8. Laid(records, pc)' = Laid(records', pc')
    BY DEF Laid
  <1>9. QED
    BY <1>1, <1>2, <1>4, <1>5, <1>6, <1>7, <1>8 DEF BodyInv

LEMMA GlobalsReads ==
  ASSUME LayoutInv, BodyInv, Globals
  PROVE  BodyInv'
  <1> DEFINE here == Here(globals)
             r == Body("global", 0, here)
  <1>1. /\ globals' = globals \ here /\ step' = "unresolved" /\ outcome = "none"
        /\ records' = (IF here = {} THEN records ELSE Append(records, r))
        /\ UNCHANGED <<plan, unresolved, resolved, offset, pc, outcome>>
    BY DEF Globals, LayoutInv, TypeOK
  <1>2. here \subseteq globals /\ here \subseteq {offset} /\ globals \subseteq plan.labels
    BY DEF Here, LayoutInv, TypeOK
  <1> HIDE DEF here
  <1>3. r.size = 0 /\ r.kind = "global" /\ r.what = here
    BY DEF Body
  <1> HIDE DEF r
  <1>4. pc = offset /\ offset \in Nat
    BY DEF BodyInv, LayoutInv, TypeOK
  <1>5. Laid(records', pc) /\ Held(records', "global") = Held(records, "global") \cup here
        /\ Held(records', "expr") = Held(records, "expr")
    <2>1. CASE here = {}
      BY <1>1, <2>1 DEF BodyInv
    <2>2. CASE here # {}
      <3>1. \A x \in r.what : x = pc
        BY <1>2, <1>3, <1>4
      <3>2. /\ Laid(Append(records, r), pc + r.size)
            /\ \A kind : Held(Append(records, r), kind) =
                           Held(records, kind) \cup IF r.kind = kind THEN r.what ELSE {}
        BY <1>3, <3>1, LaidBehind DEF BodyInv
      <3>3. pc + r.size = pc
        BY <1>3, <1>4
      <3>4. QED
        BY <1>1, <1>3, <2>2, <3>2, <3>3
    <2>3. QED
      BY <2>1, <2>2
  <1>6. /\ GlobalsDone' = GlobalsDone \cup here /\ UnresolvedDone' = UnresolvedDone
        /\ ResolvedDone' = ResolvedDone
    BY <1>1, <1>2 DEF GlobalsDone, UnresolvedDone, ResolvedDone
  <1>7. Held(records, "global")' = Held(records', "global")
        /\ Held(records, "expr")' = Held(records', "expr")
    BY DEF Held
  <1>8. Laid(records, pc)' = Laid(records', pc')
    BY DEF Laid
  <1>9. QED
    BY <1>1, <1>4, <1>5, <1>6, <1>7, <1>8 DEF BodyInv

(* A field in its place.                                                   *)
LEMMA PutReads ==
  ASSUME LayoutInv, BodyInv, NEW f, f.offset = offset, f.size \in Nat, Put(f)
  PROVE  /\ Laid(records, pc)'
         /\ pc' = offset'
         /\ Held(records, "global")' = Held(records, "global")
         /\ Held(records, "expr")' = Held(records, "expr") \cup {f}
  <1> DEFINE r == Body("expr", f.size, {f})
  <1>1. records' = Append(records, r) /\ pc' = pc + f.size /\ offset' = offset + f.size
    BY DEF Put
  <1>2. r.size = f.size /\ r.kind = "expr" /\ r.what = {f}
    BY DEF Body
  <1> HIDE DEF r
  <1>3. pc = offset
    BY DEF BodyInv
  <1>4. /\ Laid(Append(records, r), pc + r.size)
        /\ \A kind : Held(Append(records, r), kind) =
                       Held(records, kind) \cup IF r.kind = kind THEN r.what ELSE {}
    <2>1. r.size \in Nat /\ \A x \in r.what : x.offset = pc /\ x.size = r.size
      BY <1>2, <1>3
    <2>2. QED
      BY <1>2, <2>1, LaidBehind DEF BodyInv
  <1>5. Laid(records', pc') /\ Held(records', "global") = Held(records, "global")
        /\ Held(records', "expr") = Held(records, "expr") \cup {f}
    BY <1>1, <1>2, <1>4
  <1>6. Held(records, "global")' = Held(records', "global")
        /\ Held(records, "expr")' = Held(records', "expr")
    BY DEF Held
  <1>7. Laid(records, pc)' = Laid(records', pc')
    BY DEF Laid
  <1>8. QED
    BY <1>1, <1>3, <1>5, <1>6, <1>7

LEMMA UnresolvedReads ==
  ASSUME LayoutInv, BodyInv, Unresolved
  PROVE  BodyInv'
  <1>1. /\ step' = "resolved" /\ outcome = "none"
        /\ UNCHANGED <<plan, globals, resolved, outcome>>
    BY DEF Unresolved, LayoutInv, TypeOK
  <1>2. GlobalsDone' = GlobalsDone /\ ResolvedDone' = ResolvedDone
    BY <1>1 DEF GlobalsDone, ResolvedDone
  <1>3. CASE \E f \in Front(unresolved) : Put(f) /\ unresolved' = unresolved \ {f}
    <2>1. PICK f \in Front(unresolved) : Put(f) /\ unresolved' = unresolved \ {f}
      BY <1>3
    <2>2. f \in unresolved /\ f.offset = offset /\ f.size \in Nat
      BY PutFits DEF Front
    <2>3. UnresolvedDone' = UnresolvedDone \cup {f}
      BY <1>1, <2>1, <2>2 DEF UnresolvedDone, LayoutInv, TypeOK
    <2>4. QED
      BY <1>1, <1>2, <2>1, <2>2, <2>3, PutReads DEF BodyInv
  <1>4. CASE UNCHANGED <<unresolved, offset, pc, delta, records>>
    BY <1>1, <1>2, <1>4, BodyStays DEF BodyInv, UnresolvedDone
  <1>5. QED
    BY <1>3, <1>4 DEF Unresolved

LEMMA ResolvedReads ==
  ASSUME LayoutInv, BodyInv, Resolved
  PROVE  BodyInv'
  <1>1. /\ step' = (IF delta' THEN "globals"
                    ELSE IF offset' >= plan.size THEN "check" ELSE "copy")
        /\ outcome = "none" /\ UNCHANGED <<plan, globals, unresolved, outcome>>
    BY DEF Resolved, LayoutInv, TypeOK
  <1>2. GlobalsDone' = GlobalsDone /\ UnresolvedDone' = UnresolvedDone
        /\ (step' = "check" => offset' >= plan'.size)
    BY <1>1 DEF GlobalsDone, UnresolvedDone
  <1>3. CASE \E f \in Front(resolved) : Put(f) /\ resolved' = resolved \ {f}
    <2>1. PICK f \in Front(resolved) : Put(f) /\ resolved' = resolved \ {f}
      BY <1>3
    <2>2. f \in resolved /\ f.offset = offset /\ f.size \in Nat
      BY PutFits DEF Front
    <2>3. ResolvedDone' = ResolvedDone \cup {f}
      BY <1>1, <2>1, <2>2 DEF ResolvedDone, LayoutInv, TypeOK
    <2>4. QED
      BY <1>1, <1>2, <2>1, <2>2, <2>3, PutReads DEF BodyInv
  <1>4. CASE UNCHANGED <<resolved, offset, pc, delta, records>>
    BY <1>1, <1>2, <1>4, BodyStays DEF BodyInv, ResolvedDone
  <1>5. QED
    BY <1>3, <1>4 DEF Resolved

LEMMA BodyNext ==
  ASSUME LayoutInv, BodyInv, [Next]_vars
  PROVE  BodyInv'
  <1>1. CASE Check
    <2>1. /\ step = "check" /\ step' = "end"
          /\ UNCHANGED <<plan, globals, unresolved, resolved, offset, pc, records>>
      BY <1>1 DEF Check
    <2>2. QED
      BY <2>1, BodyStays DEF BodyInv, GlobalsDone, UnresolvedDone, ResolvedDone
  <1>2. CASE UNCHANGED vars
    BY <1>2, BodyStays DEF vars, BodyInv, GlobalsDone, UnresolvedDone, ResolvedDone
  <1>3. QED
    BY <1>1, <1>2, CopyReads, GlobalsReads, UnresolvedReads, ResolvedReads DEF Next

LEMMA BodyIsRead ==
  ASSUME LayoutInv, BodyInv
  PROVE  ReadsBack
  <1> DEFINE sizes == [k \in DOMAIN records |-> records[k].size]
  <1>1. Len(records) \in Nat /\ DOMAIN records = 1 .. Len(records)
    BY DEF BodyInv, Laid
  <1>2. (Len(records) + 1) - 1 = Len(records)
    BY <1>1
  <1>3. pc = Position(Len(records) + 1)
    BY <1>2 DEF BodyInv, Laid, Position
  <1>4. \A i \in DOMAIN records : \A x \in records[i].what :
          IF records[i].kind = "expr" THEN x.offset = Position(i) /\ x.size = records[i].size
          ELSE x = Position(i)
    BY DEF BodyInv, Laid, Position
  <1>5. ASSUME outcome = "saved"
        PROVE  /\ pc = plan.size
               /\ GlobalsDone = plan.labels
               /\ UnresolvedDone \cup ResolvedDone = plan.unresolved \cup plan.resolved
    <2>1. offset >= plan.size /\ offset <= plan.size /\ pc = offset
          /\ offset \in Nat /\ plan.size \in Nat
      BY <1>5, PlanType DEF BodyInv, LayoutInv, DoneFits, TypeOK
    <2>2. globals = {} /\ unresolved = {} /\ resolved = {}
      BY <1>5 DEF LayoutInv, Leftover
    <2>3. QED
      BY <2>1, <2>2 DEF GlobalsDone, UnresolvedDone, ResolvedDone
  <1>6. QED
    BY <1>3, <1>4, <1>5 DEF ReadsBack, BodyInv, Held
-----------------------------------------------------------------------------
(* Every variable of the layout loop has its type.                         *)
THEOREM LayoutTypes == Spec => []TypeOK
  <1>1. LayoutInv => TypeOK
    BY DEF LayoutInv
  <1>2. QED
    BY <1>1, LayoutHolds, PTL

(* finish3() saves a segment if and only if its labels and fields have a   *)
(* place of their own, for segments of any size.                           *)
THEOREM SavesWhatFits == Spec => []PlacedIffFits
  BY LayoutHolds, InvFits, PTL

(* The first of the "relocation offset error" exceptions is never thrown.  *)
THEOREM NeverThrownByCopy == Spec => []NeverBehind
  <1>1. LayoutInv => NeverBehind
    BY DEF LayoutInv, NeverBehind, Leftover
  <1>2. QED
    BY <1>1, LayoutHolds, PTL

(* Whatever the loop does in between, what it does to a segment is one     *)
(* decision: the right one.                                                *)
THEOREM OneDecision == Spec => Promise!PromiseSafe
  <1>1. Init => outcome = "none"
    BY DEF Init
  <1>2. ASSUME LayoutInv, LayoutInv', [Next]_vars
        PROVE  [Promise!Decide]_(Promise!promiseVars)
    <2>1. UNCHANGED plan
      BY <1>2 DEF Next, vars, Copy, Globals, Unresolved, Resolved, Check
    <2>2. outcome' = outcome \/ outcome = "none"
      BY <1>2 DEF Next, vars, Copy, Globals, Unresolved, Resolved, Check, LayoutInv, TypeOK
    <2>3. PlacedIffFits'
      BY <1>2, InvFits, PTL
    <2>4. CASE outcome' # outcome
      <3>1. outcome' = IF Whole THEN "saved" ELSE "thrown"
        BY <1>2, <2>1, <2>2, <2>3, <2>4 DEF PlacedIffFits, Whole, LayoutInv, TypeOK
      <3>2. QED
        BY <2>1, <2>2, <2>4, <3>1 DEF Promise!Decide, Promise!Possible, Whole, Promise!Fits,
           Promise!Separate, Promise!LabelsClear, Promise!Skipped, Promise!Apart, Promise!End,
           Promise!Inside, Fits, Separate, LabelsClear, Skipped, Apart, End, Inside
    <2>5. QED
      BY <2>1, <2>4 DEF Promise!promiseVars
  <1>3. QED
    BY <1>1, <1>2, LayoutHolds, PTL DEF Spec, Promise!PromiseSafe

(* A loader finds the bytes, the labels and the fields of the segment in   *)
(* the body where the segment has them, for segments of any size.          *)
THEOREM BodyReadsBack == Spec => []ReadsBack
  <1>1. Spec => []BodyInv
    BY BodyInit, BodyNext, LayoutHolds, PTL DEF Spec
  <1>2. QED
    BY <1>1, BodyIsRead, LayoutHolds, PTL
=============================================================================
