-------------------------- MODULE MappedFileProofs --------------------------
(***************************************************************************)
(* Proofs about mapped_file: whatever the kernel answers and however the   *)
(* objects are swapped, moved and reused, every handle and every mapping   *)
(* has one owner, and an object is open exactly if it owns its mapping.    *)
(***************************************************************************)
EXTENDS MappedFile, FiniteSetTheorems, TLAPS

(* EachHeldOnce, handle by handle and mapping by mapping.                  *)
HandlesOwned ==
  /\ Guarded \subseteq opened
  /\ \A o \in Objects : object[o].handles \subseteq opened
  /\ \A h \in opened : h \in Guarded \/ \E o \in Objects : h \in object[o].handles
  /\ \A o \in Objects : object[o].handles \cap Guarded = {}
  /\ \A o, p \in Objects : o # p => object[o].handles \cap object[p].handles = {}

ViewsOwned ==
  /\ \A o \in Objects : is_open(o) => object[o].data \in DOMAIN mapped
  /\ \A v \in DOMAIN mapped : \E o \in Objects : object[o].data = v
  /\ \A o, p \in Objects : o # p /\ is_open(o) => object[o].data # object[p].data

(* How many handles a call guards at a step, and an open object has.       *)
Count(handles, n) == IsFiniteSet(handles) /\ Cardinality(handles) = n

Needed == IF windows THEN 2 ELSE 1

GuardedAt(step) == IF step = "file" THEN 0 ELSE IF step = "view" THEN Needed ELSE 1

ObjectsWhole ==
  \A o \in Objects :
    IF is_open(o)
    THEN /\ object[o].size \in Lengths \ {0}
         /\ mapped[object[o].data] = object[o].size
         /\ Count(object[o].handles, Needed)
    ELSE object[o] = Closed

CallWhole ==
  call # NoCall =>
    /\ ~is_open(call.object)
    /\ call.length \in Lengths \cup {WholeFile}
    /\ call.step \in {"section", "view", "no view"} => call.length \in Lengths \ {0}
    /\ call.step = "section" => windows
    /\ Count(call.guarded, GuardedAt(call.step))

MapInv == MapTypeOK /\ HandlesOwned /\ ViewsOwned /\ ObjectsWhole /\ CallWhole
-----------------------------------------------------------------------------
(* Closed is an object like any other.                                     *)
LEMMA ClosedIsObject ==
  Closed \in [data : Views \cup {nullptr}, size : Nat, handles : SUBSET Handles]
BY DEF Closed

(* A step of close(), swap() or a move permutes what the objects hold, up  *)
(* to one that is dropped.                                                 *)
LEMMA Released ==
  ASSUME MapInv, call = NoCall, NEW o \in Objects, NEW others,
         Release(o, others),
         others \in [Objects -> [data : Views \cup {nullptr}, size : Nat,
                                 handles : SUBSET Handles]],
         \A p \in Objects : others[p] = Closed \/ \E q \in Objects \ {o} : others[p] = object[q],
         \A q \in Objects \ {o} : is_open(q) =>
            \E p \in Objects : others[p] = object[q],
         \A p1, p2 \in Objects : \A q \in Objects \ {o} :
            p1 # p2 /\ others[p1] = object[q] /\ others[p2] = object[q] => ~is_open(q),
         UNCHANGED windows,
         call' = NoCall \/ /\ call' \in Calls
                           /\ call'.guarded = {}
                           /\ others[call'.object] = Closed
                           /\ call'.step = "file"
                           /\ call'.length \in Lengths \cup {WholeFile},
         error' \in BOOLEAN
  PROVE  MapInv'
<1> USE NullAssumption, LengthsAssumption
<1>1. MapTypeOK'
  BY DEF MapInv, MapTypeOK, Release, Without
<1>2. Guarded' = {} /\ Guarded = {}
  BY DEF Guarded
<1>o. object' = others /\ opened' = opened \ object[o].handles
      /\ DOMAIN mapped' = DOMAIN mapped \ {object[o].data}
      /\ \A v \in DOMAIN mapped' : mapped'[v] = mapped[v]
  BY DEF Release, Without
<1>c. \A p \in Objects : others[p] = Closed => ~is_open(p)' /\ object'[p].handles = {}
  BY <1>o DEF is_open, Closed
<1>q. \A q \in Objects : is_open(q) \/ object[q] = Closed
  BY DEF MapInv, ObjectsWhole
<1>3. ObjectsWhole'
  <2> SUFFICES ASSUME NEW p \in Objects, is_open(p)'
               PROVE  /\ object'[p].size \in Lengths \ {0}
                      /\ mapped'[object'[p].data] = object'[p].size
                      /\ Count(object'[p].handles, Needed')
    <3>1. \A p \in Objects : ~is_open(p)' => others[p] = Closed
      BY <1>o, <1>q DEF is_open
    <3> QED
      BY <1>o, <3>1 DEF ObjectsWhole
  <2>1. PICK q \in Objects \ {o} : others[p] = object[q]
    BY <1>c
  <2>2. is_open(q)
    BY <1>o, <2>1 DEF is_open
  <2>3. object[q].data \in DOMAIN mapped /\ object[q].data # object[o].data
    BY <2>2 DEF MapInv, ViewsOwned
  <2>4. /\ object[q].size \in Lengths \ {0}
        /\ mapped[object[q].data] = object[q].size
        /\ Count(object[q].handles, Needed)
    BY <2>2 DEF MapInv, ObjectsWhole
  <2>5. Needed' = Needed
    BY DEF Needed
  <2> QED
    BY <1>o, <2>1, <2>3, <2>4, <2>5
<1>4. HandlesOwned'
  <2> USE <1>o
  <2>0. HandlesOwned
    BY DEF MapInv
  <2>1. \A p \in Objects : object'[p].handles \subseteq opened'
    BY <1>c, <2>0 DEF HandlesOwned
  <2>2. ASSUME NEW h \in opened'
        PROVE  \E p \in Objects : h \in object'[p].handles
    <3>1. PICK q \in Objects : h \in object[q].handles
      BY <1>2, <2>0 DEF HandlesOwned
    <3>2. q # o
      BY <3>1
    <3>3. is_open(q)
      BY <1>q, <3>1 DEF Closed, is_open
    <3> QED
      BY <3>1, <3>2, <3>3
  <2>3. ASSUME NEW p1 \in Objects, NEW p2 \in Objects, p1 # p2
        PROVE  object'[p1].handles \cap object'[p2].handles = {}
    <3>1. CASE others[p1] = Closed \/ others[p2] = Closed
      BY <1>c, <3>1
    <3>2. CASE others[p1] # Closed /\ others[p2] # Closed
      <4>1. PICK q1 \in Objects \ {o} : others[p1] = object[q1]
        BY <3>2
      <4>2. PICK q2 \in Objects \ {o} : others[p2] = object[q2]
        BY <3>2
      <4>3. is_open(q1)
        BY <1>q, <3>2, <4>1
      <4>4. q1 # q2
        BY <2>3, <4>1, <4>2, <4>3
      <4> QED
        BY <2>0, <4>1, <4>2, <4>4 DEF HandlesOwned
    <3> QED
      BY <3>1, <3>2
  <2> QED
    BY <1>2, <2>1, <2>2, <2>3 DEF HandlesOwned
<1>5. ViewsOwned'
  <2> USE <1>o
  <2>0. ViewsOwned
    BY DEF MapInv
  <2>1. ASSUME NEW p \in Objects, is_open(p)'
        PROVE  object'[p].data \in DOMAIN mapped'
    <3>1. PICK q \in Objects \ {o} : others[p] = object[q]
      BY <1>c, <2>1
    <3>2. is_open(q)
      BY <2>1, <3>1 DEF is_open
    <3> QED
      BY <2>0, <3>1, <3>2 DEF ViewsOwned
  <2>2. ASSUME NEW v \in DOMAIN mapped'
        PROVE  \E p \in Objects : object'[p].data = v
    <3>1. PICK q \in Objects : object[q].data = v
      BY <2>0 DEF ViewsOwned
    <3>2. q # o
      BY <3>1
    <3>3. v # nullptr
      BY DEF MapInv, MapTypeOK
    <3> QED
      BY <3>1, <3>2, <3>3 DEF is_open
  <2>3. ASSUME NEW p1 \in Objects, NEW p2 \in Objects, p1 # p2, is_open(p1)'
        PROVE  object'[p1].data # object'[p2].data
    <3>1. PICK q1 \in Objects \ {o} : others[p1] = object[q1]
      BY <1>c, <2>3
    <3>2. is_open(q1)
      BY <2>3, <3>1 DEF is_open
    <3>3. CASE others[p2] = Closed
      BY <3>1, <3>2, <3>3 DEF is_open, Closed
    <3>4. CASE others[p2] # Closed
      <4>1. PICK q2 \in Objects \ {o} : others[p2] = object[q2]
        BY <3>4
      <4>2. q1 # q2
        BY <2>3, <3>1, <3>2, <4>1
      <4> QED
        BY <2>0, <3>1, <3>2, <4>1, <4>2 DEF ViewsOwned
    <3> QED
      BY <3>3, <3>4
  <2> QED
    BY <2>1, <2>2, <2>3 DEF ViewsOwned, is_open
<1>6. CallWhole'
  <2>1. Count({}, 0)
    BY FS_EmptySet DEF Count
  <2> SUFFICES ASSUME call' # NoCall
               PROVE  /\ others[call'.object].data = nullptr
                      /\ call'.length \in Lengths \cup {WholeFile}
                      /\ call'.step = "file"
                      /\ Count(call'.guarded, 0)
    BY <1>o DEF CallWhole, is_open, GuardedAt
  <2>2. Closed.data = nullptr
    BY DEF Closed
  <2> QED
    BY <2>1, <2>2
<1> QED
  BY <1>1, <1>3, <1>4, <1>5, <1>6 DEF MapInv
-----------------------------------------------------------------------------
LEMMA InitHolds == MapInit => MapInv
<1> SUFFICES ASSUME MapInit PROVE MapInv
  OBVIOUS
<1>1. MapTypeOK /\ Guarded = {} /\ CallWhole
  BY ClosedIsObject DEF MapInit, MapTypeOK, Guarded, CallWhole
<1>2. \A o \in Objects : object[o] = Closed /\ ~is_open(o)
  BY DEF MapInit, Closed, is_open
<1> QED
  BY <1>1, <1>2 DEF MapInv, HandlesOwned, ViewsOwned, ObjectsWhole, MapInit, Closed

(* close(), and what open() and create() begin with.                       *)
LEMMA CloseKeeps == ASSUME MapInv, NEW o \in Objects, Close(o) PROVE MapInv'
<1> DEFINE others == [object EXCEPT ![o] = Closed]
<1>1. object \in [Objects -> [data : Views \cup {nullptr}, size : Nat, handles : SUBSET Handles]]
  BY DEF MapInv, MapTypeOK
<1>2. others \in [Objects -> [data : Views \cup {nullptr}, size : Nat, handles : SUBSET Handles]]
  BY <1>1, ClosedIsObject
<1>3. \A p \in Objects : others[p] = IF p = o THEN Closed ELSE object[p]
  BY <1>1
<1>4. /\ call = NoCall /\ Release(o, others) /\ UNCHANGED windows
      /\ call' = NoCall /\ error' \in BOOLEAN
  BY DEF Close, MapInv, MapTypeOK
<1>5. \A p1, p2 \in Objects : p1 # p2 /\ object[p1] = object[p2] => ~is_open(p1)
  BY DEF MapInv, ViewsOwned
<1>6. \A q \in Objects : is_open(q) => object[q] # Closed
  BY DEF is_open, Closed
<1> HIDE DEF others
<1>7. \A p \in Objects : others[p] = Closed \/ \E q \in Objects \ {o} : others[p] = object[q]
  BY <1>3
<1>8. \A q \in Objects \ {o} : is_open(q) => \E p \in Objects : others[p] = object[q]
  BY <1>3
<1>9. \A p1, p2 \in Objects : \A q \in Objects \ {o} :
        p1 # p2 /\ others[p1] = object[q] /\ others[p2] = object[q] => ~is_open(q)
  BY <1>3, <1>5, <1>6
<1> QED
  BY <1>2, <1>4, <1>7, <1>8, <1>9, Released

LEMMA BeginKeeps ==
  ASSUME MapInv, NEW o \in Objects, NEW kind \in {"open", "create"},
         NEW length \in Lengths \cup {WholeFile}, Begin(o, kind, length)
  PROVE  MapInv'
<1> DEFINE others == [object EXCEPT ![o] = Closed]
<1> USE LengthsAssumption, NullAssumption
<1>1. object \in [Objects -> [data : Views \cup {nullptr}, size : Nat, handles : SUBSET Handles]]
  BY DEF MapInv, MapTypeOK
<1>2. /\ call = NoCall /\ call' \in Calls /\ call' # NoCall /\ UNCHANGED windows /\ error' \in BOOLEAN
      /\ call'.guarded = {} /\ call'.step = "file" /\ call'.object = o
      /\ call'.length \in Lengths \cup {WholeFile}
  <2>1. /\ call = NoCall /\ UNCHANGED windows /\ error' \in BOOLEAN
        /\ call' = [object |-> o, kind |-> kind, length |-> length, step |-> "file",
                    guarded |-> {}]
    BY DEF Begin
  <2>2. length \in Nat \cup {WholeFile}
    OBVIOUS
  <2>3. call' \in Calls
    BY <2>1, <2>2 DEF Calls
  <2> QED
    BY <2>1, <2>3
<1>3. CASE is_open(o)
  <2>2. others \in [Objects -> [data : Views \cup {nullptr}, size : Nat, handles : SUBSET Handles]]
    BY <1>1, ClosedIsObject
  <2>3. \A p \in Objects : others[p] = IF p = o THEN Closed ELSE object[p]
    BY <1>1
  <2>4. Release(o, others)
    BY <1>3 DEF Begin
  <2>5. \A p1, p2 \in Objects : p1 # p2 /\ object[p1] = object[p2] => ~is_open(p1)
    BY DEF MapInv, ViewsOwned
  <2>6. \A q \in Objects : is_open(q) => object[q] # Closed
    BY DEF is_open, Closed
  <2> HIDE DEF others
  <2>7. \A p \in Objects : others[p] = Closed \/ \E q \in Objects \ {o} : others[p] = object[q]
    BY <2>3
  <2>8. \A q \in Objects \ {o} : is_open(q) => \E p \in Objects : others[p] = object[q]
    BY <2>3
  <2>9. \A p1, p2 \in Objects : \A q \in Objects \ {o} :
          p1 # p2 /\ others[p1] = object[q] /\ others[p2] = object[q] => ~is_open(q)
    BY <2>3, <2>5, <2>6
  <2>10. others[call'.object] = Closed
    BY <1>2, <2>3
  <2> QED
    BY <1>2, <2>2, <2>4, <2>7, <2>8, <2>9, <2>10, Released
<1>4. CASE ~is_open(o)
  <2>1. UNCHANGED <<object, opened, mapped, windows>>
    BY <1>4 DEF Begin
  <2>2. Guarded' = {} /\ Guarded = {}
    BY <1>2 DEF Guarded
  <2>3. MapTypeOK'
    BY <1>2, <2>1 DEF MapInv, MapTypeOK
  <2>4. HandlesOwned' /\ ViewsOwned'
    BY <2>1, <2>2 DEF MapInv, HandlesOwned, ViewsOwned, is_open
  <2>5. ObjectsWhole'
    BY <2>1 DEF MapInv, ObjectsWhole, is_open, Count, Needed
  <2>6. CallWhole'
    BY <1>2, <1>4, <2>1, FS_EmptySet DEF CallWhole, is_open, Count, GuardedAt
  <2> QED
    BY <2>3, <2>4, <2>5, <2>6 DEF MapInv
<1> QED
  BY <1>3, <1>4
(* A call that ends without a mapping.                                     *)
LEMMA EndsKeeps ==
  ASSUME MapInv, call # NoCall, NEW reported \in BOOLEAN, Ends(reported)
  PROVE  MapInv'
<1>1. /\ call' = NoCall /\ error' \in BOOLEAN /\ opened' = opened \ call.guarded
      /\ UNCHANGED <<windows, object, mapped>>
  BY DEF Ends
<1>2. Guarded = call.guarded /\ Guarded' = {}
  BY <1>1 DEF Guarded
<1>3. MapTypeOK'
  BY <1>1 DEF MapInv, MapTypeOK
<1>4. HandlesOwned'
  BY <1>1, <1>2 DEF MapInv, HandlesOwned
<1>5. ViewsOwned' /\ ObjectsWhole' /\ CallWhole'
  BY <1>1 DEF MapInv, ViewsOwned, ObjectsWhole, CallWhole, is_open, Count, Needed
<1> QED
  BY <1>3, <1>4, <1>5 DEF MapInv

Steps == {"file", "size", "section", "view", "no view"}

(* A call that goes on, with what it had or with one handle more.          *)
LEMMA GoesOnKeeps ==
  ASSUME MapInv, call # NoCall, NEW step \in Steps,
         NEW length \in Lengths \cup {WholeFile}, NEW handles,
         step \in {"section", "view", "no view"} => length \in Lengths \ {0},
         step = "section" => windows,
         call' = [call EXCEPT !.length = length, !.step = step, !.guarded = handles],
         handles \in SUBSET Handles,
         handles \cap opened = call.guarded,
         opened' = opened \cup handles,
         Count(handles, GuardedAt(step)),
         UNCHANGED <<windows, object, mapped, error>>
  PROVE  MapInv'
<1> USE LengthsAssumption, NullAssumption
<1>1. call \in Calls
  BY DEF MapInv, MapTypeOK
<1>2. /\ call' \in Calls /\ call' # NoCall /\ call'.guarded = handles /\ call'.step = step
      /\ call'.length = length /\ call'.object = call.object
  <2>1. length \in Nat \cup {WholeFile}
    OBVIOUS
  <2> QED
    BY <1>1, <2>1 DEF Calls, Steps
<1>3. Guarded = call.guarded /\ Guarded' = handles
  BY <1>2 DEF Guarded
<1>4. MapTypeOK'
  BY <1>2 DEF MapInv, MapTypeOK
<1>5. HandlesOwned'
  <2>0. HandlesOwned
    BY DEF MapInv
  <2>1. \A o \in Objects : object[o].handles \cap handles = {}
    BY <1>3, <2>0 DEF HandlesOwned
  <2> QED
    BY <1>3, <2>0, <2>1 DEF HandlesOwned
<1>6. ViewsOwned' /\ ObjectsWhole'
  BY DEF MapInv, ViewsOwned, ObjectsWhole, is_open, Count, Needed
<1>7. CallWhole'
  BY <1>2 DEF MapInv, CallWhole, is_open, Count, GuardedAt, Needed
<1> QED
  BY <1>4, <1>5, <1>6, <1>7 DEF MapInv

LEMMA ContinuesKeeps ==
  ASSUME MapInv, call # NoCall, NEW length \in Lengths \ {0},
         NEW step \in {"section", "view", "no view"},
         Continues(length, step), step = "section" => windows,
         GuardedAt(step) = GuardedAt(call.step)
  PROVE  MapInv'
<1>1. call \in Calls /\ Guarded = call.guarded
  BY DEF MapInv, MapTypeOK, Guarded
<1>2. call' = [call EXCEPT !.length = length, !.step = step, !.guarded = call.guarded]
  BY <1>1 DEF Continues, Calls
<1>3. /\ call.guarded \in SUBSET Handles
      /\ call.guarded \cap opened = call.guarded
      /\ opened' = opened \cup call.guarded
  BY <1>1 DEF MapInv, HandlesOwned, Continues, Calls
<1>4. Count(call.guarded, GuardedAt(step))
  BY DEF MapInv, CallWhole
<1>5. /\ UNCHANGED <<windows, object, mapped, error>>
      /\ length \in Lengths \cup {WholeFile}
      /\ step \in Steps
      /\ step \in {"section", "view", "no view"} => length \in Lengths \ {0}
  BY DEF Continues, Steps
<1> QED
  BY <1>2, <1>3, <1>4, <1>5, GoesOnKeeps

LEMMA GivesKeeps ==
  ASSUME MapInv, call # NoCall, NEW step \in Steps, Gives(step),
         step \in {"section", "view", "no view"} => call.length \in Lengths \ {0},
         step = "section" => windows,
         GuardedAt(step) = GuardedAt(call.step) + 1
  PROVE  MapInv'
<1>1. call \in Calls /\ Guarded = call.guarded
  BY DEF MapInv, MapTypeOK, Guarded
<1>2. PICK h \in Handles \ opened :
        /\ opened' = opened \cup {h}
        /\ call' = [call EXCEPT !.guarded = call.guarded \cup {h}, !.step = step]
        /\ UNCHANGED <<windows, object, mapped, error>>
  BY <1>1 DEF Gives, Calls
<1> DEFINE handles == call.guarded \cup {h}
<1>3. call' = [call EXCEPT !.length = call.length, !.step = step, !.guarded = handles]
  BY <1>1, <1>2 DEF Calls
<1>4. call.guarded \subseteq opened /\ opened \subseteq Handles
  BY <1>1 DEF MapInv, HandlesOwned, MapTypeOK
<1>5. /\ handles \in SUBSET Handles
      /\ handles \cap opened = call.guarded
      /\ opened' = opened \cup handles
  BY <1>2, <1>4
<1>6. Count(call.guarded, GuardedAt(call.step)) /\ call.length \in Lengths \cup {WholeFile}
  BY DEF MapInv, CallWhole
<1>7. h \notin call.guarded
  BY <1>4
<1>8. Count(handles, GuardedAt(step))
  <2>1. IsFiniteSet(handles) /\ Cardinality(handles) = Cardinality(call.guarded) + 1
    BY <1>6, <1>7, FS_AddElement DEF Count
  <2> QED
    BY <1>6, <2>1 DEF Count
<1> HIDE DEF handles
<1> QED
  BY <1>2, <1>3, <1>5, <1>6, <1>8, GoesOnKeeps
-----------------------------------------------------------------------------
(* The object takes the view, and the handles from the guards.             *)
LEMMA ViewKeeps == ASSUME MapInv, View PROVE MapInv'
<1> USE LengthsAssumption, NullAssumption
<1>0. /\ call # NoCall /\ call.step = "view" /\ call \in Calls
      /\ MapTypeOK /\ HandlesOwned /\ ViewsOwned /\ ObjectsWhole /\ CallWhole
  BY DEF View, At, MapInv, MapTypeOK
<1> DEFINE o == call.object
           new(v) == [data |-> v, size |-> call.length, handles |-> call.guarded]
<1>1. PICK v \in Views \ DOMAIN mapped :
        /\ mapped' = [w \in DOMAIN mapped \cup {v} |-> IF w = v THEN call.length ELSE mapped[w]]
        /\ object' = [object EXCEPT ![o] = new(v)]
  BY DEF View
<1>2. call' = NoCall /\ error' = FALSE /\ UNCHANGED <<windows, opened>>
  BY DEF View
<1>3. /\ o \in Objects /\ ~is_open(o) /\ object[o] = Closed
      /\ call.length \in Lengths \ {0} /\ call.guarded \in SUBSET Handles
      /\ Count(call.guarded, Needed)
  BY <1>0 DEF CallWhole, GuardedAt, ObjectsWhole, Calls
<1>4. /\ object'[o].data = v /\ object'[o].size = call.length /\ object'[o].handles = call.guarded
      /\ \A p \in Objects : p # o => object'[p] = object[p]
  BY <1>0, <1>1, <1>3 DEF MapTypeOK
<1>5. Guarded = call.guarded /\ Guarded' = {}
  BY <1>0, <1>2 DEF Guarded
<1>6. v # nullptr
  OBVIOUS
<1>7. MapTypeOK'
  <2>1. new(v) \in [data : Views \cup {nullptr}, size : Nat, handles : SUBSET Handles]
    BY <1>3
  <2>2. object' \in [Objects -> [data : Views \cup {nullptr}, size : Nat, handles : SUBSET Handles]]
    BY <1>0, <1>1, <2>1 DEF MapTypeOK
  <2>3. DOMAIN mapped' \subseteq Views /\ mapped' \in [DOMAIN mapped' -> Nat]
    BY <1>0, <1>1, <1>3 DEF MapTypeOK
  <2> QED
    BY <1>0, <1>2, <2>2, <2>3 DEF MapTypeOK
<1> HIDE DEF o, new
<1>8. HandlesOwned'
  <2>1. \A p \in Objects : object'[p].handles =
          IF p = o THEN call.guarded ELSE object[p].handles
    BY <1>4
  <2>2. \A p \in Objects : object[p].handles \cap call.guarded = {}
    BY <1>0, <1>5 DEF HandlesOwned
  <2>3. object[o].handles = {}
    BY <1>3 DEF Closed
  <2> QED
    BY <1>0, <1>2, <1>3, <1>5, <2>1, <2>2, <2>3 DEF HandlesOwned
<1>9. ViewsOwned'
  <2>1. DOMAIN mapped' = DOMAIN mapped \cup {v}
    BY <1>1
  <2>2. \A p \in Objects : is_open(p)' <=> p = o \/ is_open(p)
    BY <1>4, <1>6 DEF is_open
  <2>3. \A p \in Objects : object'[p].data = IF p = o THEN v ELSE object[p].data
    BY <1>4
  <2>4. object[o].data = nullptr
    BY <1>3 DEF Closed
  <2>5. nullptr \notin DOMAIN mapped
    BY <1>0 DEF MapTypeOK
  <2> QED
    BY <1>0, <1>3, <1>6, <2>1, <2>2, <2>3, <2>4, <2>5 DEF ViewsOwned, is_open
<1>10. ObjectsWhole'
  <2>1. \A p \in Objects : p # o /\ is_open(p) => mapped'[object[p].data] = mapped[object[p].data]
    BY <1>0, <1>1 DEF ViewsOwned
  <2>2. mapped'[v] = call.length
    BY <1>1
  <2>3. Needed' = Needed
    BY <1>2 DEF Needed
  <2> QED
    BY <1>0, <1>3, <1>4, <1>6, <2>1, <2>2, <2>3 DEF ObjectsWhole, is_open, Count
<1>11. CallWhole'
  BY <1>2 DEF CallWhole
<1> QED
  BY <1>7, <1>8, <1>9, <1>10, <1>11 DEF MapInv

LEMMA SwapKeeps ==
  ASSUME MapInv, NEW a \in Objects, NEW b \in Objects, Swap(a, b) PROVE MapInv'
<1>0. /\ a # b /\ call = NoCall
      /\ object' = [object EXCEPT ![a] = object[b], ![b] = object[a]]
      /\ UNCHANGED <<windows, opened, mapped, call, error>>
  BY DEF Swap
<1>1. object \in [Objects -> [data : Views \cup {nullptr}, size : Nat, handles : SUBSET Handles]]
  BY DEF MapInv, MapTypeOK
<1> DEFINE other(p) == IF p = a THEN b ELSE IF p = b THEN a ELSE p
<1>2. \A p \in Objects : object'[p] = object[other(p)] /\ other(p) \in Objects
  BY <1>0, <1>1
<1>3. \A p, q \in Objects : (p # q => other(p) # other(q)) /\ other(other(p)) = p
  BY <1>0
<1>4. MapTypeOK'
  BY <1>0, <1>1 DEF MapInv, MapTypeOK
<1> HIDE DEF other
<1>5. Guarded = {} /\ Guarded' = {}
  BY <1>0 DEF Guarded
<1>i. HandlesOwned /\ ViewsOwned /\ ObjectsWhole
  BY DEF MapInv
<1>6. HandlesOwned'
  <2>1. \A p \in Objects : object'[p].handles \subseteq opened'
    BY <1>0, <1>2, <1>i DEF HandlesOwned
  <2>2. ASSUME NEW h \in opened' PROVE \E p \in Objects : h \in object'[p].handles
    <3>1. PICK q \in Objects : h \in object[q].handles
      BY <1>0, <1>5, <1>i DEF HandlesOwned
    <3>2. other(q) \in Objects /\ object'[other(q)] = object[q]
      BY <1>2, <1>3
    <3> QED
      BY <3>1, <3>2
  <2>3. ASSUME NEW p \in Objects, NEW q \in Objects, p # q
        PROVE  object'[p].handles \cap object'[q].handles = {}
    <3>1. other(p) \in Objects /\ other(q) \in Objects /\ other(p) # other(q)
      BY <1>2, <1>3, <2>3
    <3>2. object[other(p)].handles \cap object[other(q)].handles = {}
      BY <1>i, <3>1 DEF HandlesOwned
    <3> QED
      BY <1>2, <3>2
  <2> QED
    BY <1>5, <2>1, <2>2, <2>3 DEF HandlesOwned
<1>7. ViewsOwned'
  <2>1. ASSUME NEW p \in Objects, is_open(p)' PROVE object'[p].data \in DOMAIN mapped'
    <3>1. is_open(other(p)) /\ other(p) \in Objects
      BY <1>2, <2>1 DEF is_open
    <3>2. object[other(p)].data \in DOMAIN mapped
      BY <1>i, <3>1 DEF ViewsOwned
    <3> QED
      BY <1>0, <1>2, <3>2
  <2>2. ASSUME NEW v \in DOMAIN mapped' PROVE \E p \in Objects : object'[p].data = v
    <3>1. PICK q \in Objects : object[q].data = v
      BY <1>0, <1>i DEF ViewsOwned
    <3>2. other(q) \in Objects /\ object'[other(q)] = object[q]
      BY <1>2, <1>3
    <3> QED
      BY <3>1, <3>2
  <2>3. ASSUME NEW p \in Objects, NEW q \in Objects, p # q, is_open(p)'
        PROVE  object'[p].data # object'[q].data
    <3>1. is_open(other(p)) /\ other(p) \in Objects /\ other(q) \in Objects /\ other(p) # other(q)
      BY <1>2, <1>3, <2>3 DEF is_open
    <3>2. object[other(p)].data # object[other(q)].data
      BY <1>i, <3>1 DEF ViewsOwned
    <3> QED
      BY <1>2, <3>2
  <2> QED
    BY <2>1, <2>2, <2>3 DEF ViewsOwned
<1>8. ObjectsWhole'
  <2> SUFFICES ASSUME NEW p \in Objects
               PROVE  IF is_open(p)'
                      THEN /\ object'[p].size \in Lengths \ {0}
                           /\ mapped'[object'[p].data] = object'[p].size
                           /\ Count(object'[p].handles, Needed')
                      ELSE object'[p] = Closed
    BY DEF ObjectsWhole
  <2>1. other(p) \in Objects /\ object'[p] = object[other(p)]
    BY <1>2
  <2>2. (is_open(p)' <=> is_open(other(p))) /\ Needed' = Needed
    BY <1>0, <2>1 DEF is_open, Needed
  <2>3. IF is_open(other(p))
        THEN /\ object[other(p)].size \in Lengths \ {0}
             /\ mapped[object[other(p)].data] = object[other(p)].size
             /\ Count(object[other(p)].handles, Needed)
        ELSE object[other(p)] = Closed
    BY <1>i, <2>1 DEF ObjectsWhole
  <2> QED
    BY <1>0, <2>1, <2>2, <2>3
<1>9. CallWhole'
  BY <1>0 DEF CallWhole
<1> QED
  BY <1>4, <1>6, <1>7, <1>8, <1>9 DEF MapInv

LEMMA MoveKeeps ==
  ASSUME MapInv, NEW a \in Objects, NEW b \in Objects, MoveAssign(a, b) PROVE MapInv'
<1> DEFINE others == [object EXCEPT ![a] = object[b], ![b] = Closed]
<1>0. /\ a # b /\ call = NoCall /\ Release(a, others)
      /\ UNCHANGED windows /\ call' = NoCall /\ error' \in BOOLEAN
  BY DEF MoveAssign, MapInv, MapTypeOK
<1>1. object \in [Objects -> [data : Views \cup {nullptr}, size : Nat, handles : SUBSET Handles]]
  BY DEF MapInv, MapTypeOK
<1>2. others \in [Objects -> [data : Views \cup {nullptr}, size : Nat, handles : SUBSET Handles]]
  BY <1>1, ClosedIsObject
<1>3. \A p \in Objects :
        others[p] = IF p = b THEN Closed ELSE IF p = a THEN object[b] ELSE object[p]
  BY <1>0, <1>1
<1>5. \A p1, p2 \in Objects : p1 # p2 /\ object[p1] = object[p2] => ~is_open(p1)
  BY DEF MapInv, ViewsOwned
<1>6. \A q \in Objects : is_open(q) => object[q] # Closed
  BY DEF is_open, Closed
<1> HIDE DEF others
<1>7. \A p \in Objects : others[p] = Closed \/ \E q \in Objects \ {a} : others[p] = object[q]
  BY <1>0, <1>3
<1>8. \A q \in Objects \ {a} : is_open(q) => \E p \in Objects : others[p] = object[q]
  BY <1>0, <1>3
<1>9. \A p1, p2 \in Objects : \A q \in Objects \ {a} :
        p1 # p2 /\ others[p1] = object[q] /\ others[p2] = object[q] => ~is_open(q)
  BY <1>0, <1>3, <1>5, <1>6
<1> QED
  BY <1>0, <1>2, <1>7, <1>8, <1>9, Released
-----------------------------------------------------------------------------
LEMMA StepKeeps == MapInv /\ [MapNext]_mapVars => MapInv'
<1> SUFFICES ASSUME MapInv, [MapNext]_mapVars PROVE MapInv'
  OBVIOUS
<1>0. /\ call # NoCall => call \in Calls
      /\ CallWhole
  BY DEF MapInv, MapTypeOK
<1>1. ASSUME NEW o \in Objects, Close(o) PROVE MapInv'
  BY <1>1, CloseKeeps
<1>2. ASSUME NEW o \in Objects, NEW length \in Lengths \cup {WholeFile},
             Begin(o, "open", length)
      PROVE  MapInv'
  BY <1>2, BeginKeeps
<1>3. ASSUME NEW o \in Objects, NEW length \in Lengths, Begin(o, "create", length)
      PROVE  MapInv'
  BY <1>3, BeginKeeps
<1>4. CASE File
  <2>1. call # NoCall /\ call.step = "file"
    BY <1>4 DEF File, At
  <2>2. CASE Gives("size")
    BY <2>1, <2>2, GivesKeeps DEF GuardedAt, Steps
  <2> QED
    BY <1>4, <2>1, <2>2, EndsKeeps DEF File
<1>5. CASE SizeKnown
  <2>1. call # NoCall /\ call.step = "size"
    BY <1>5 DEF SizeKnown, At
  <2>2. CASE call.length # 0 /\ Continues(call.length, AfterSize)
    <3>1. call.length \in Lengths \ {0}
      BY <1>0, <1>5, <2>1, <2>2 DEF CallWhole, SizeKnown
    <3> QED
      BY <2>1, <2>2, <3>1, ContinuesKeeps DEF GuardedAt, Needed, AfterSize, Steps
  <2> QED
    BY <1>5, <2>1, <2>2, EndsKeeps DEF SizeKnown
<1>6. CASE SizeAsked
  <2>1. call # NoCall /\ call.step = "size"
    BY <1>6 DEF SizeAsked, At
  <2>2. ASSUME NEW length \in Lengths, length # 0, Continues(length, AfterSize) PROVE MapInv'
    BY <2>1, <2>2, ContinuesKeeps DEF GuardedAt, Needed, AfterSize, Steps
  <2> QED
    BY <1>6, <2>1, <2>2, EndsKeeps DEF SizeAsked
<1>7. CASE Section
  <2>1. call # NoCall /\ call.step = "section"
    BY <1>7 DEF Section, At
  <2>2. call.length \in Lengths \ {0} /\ windows
    BY <1>0, <2>1 DEF CallWhole
  <2>3. CASE Gives("view")
    BY <2>1, <2>2, <2>3, GivesKeeps DEF GuardedAt, Needed, Steps
  <2>4. CASE Continues(call.length, "no view")
    BY <2>1, <2>2, <2>4, ContinuesKeeps DEF GuardedAt, Steps
  <2> QED
    BY <1>7, <2>3, <2>4 DEF Section
<1>8. CASE ViewFails
  BY <1>8, EndsKeeps DEF ViewFails, At
<1>9. ASSUME NEW a \in Objects, NEW b \in Objects, Swap(a, b) \/ MoveAssign(a, b)
      PROVE  MapInv'
  BY <1>9, SwapKeeps, MoveKeeps
<1>10. CASE UNCHANGED mapVars
  BY <1>10 DEF mapVars, MapInv, MapTypeOK, HandlesOwned, ViewsOwned, ObjectsWhole, CallWhole,
              Guarded, is_open, Count, Needed, GuardedAt
<1> QED
  BY <1>1, <1>2, <1>3, <1>4, <1>5, <1>6, <1>7, <1>8, <1>9, <1>10, ViewKeeps DEF MapNext

LEMMA InvHoldsOnce == MapInv => MapTypeOK /\ EachHeldOnce
<1> SUFFICES ASSUME MapInv PROVE EachHeldOnce
  BY DEF MapInv
<1>0. MapTypeOK /\ HandlesOwned /\ ViewsOwned
  BY DEF MapInv
<1>1. opened = Guarded \cup UNION {object[o].handles : o \in Objects}
  BY <1>0 DEF HandlesOwned
<1>2. DOMAIN mapped = {object[o].data : o \in Objects} \ {nullptr}
  <2>1. nullptr \notin DOMAIN mapped
    BY <1>0, NullAssumption DEF MapTypeOK
  <2>2. ASSUME NEW v \in DOMAIN mapped PROVE v \in {object[o].data : o \in Objects}
    BY <1>0 DEF ViewsOwned
  <2>3. ASSUME NEW o \in Objects, object[o].data # nullptr PROVE object[o].data \in DOMAIN mapped
    BY <1>0, <2>3 DEF ViewsOwned, is_open
  <2> QED
    BY <2>1, <2>2, <2>3
<1>3. ASSUME NEW o \in Objects, NEW p \in Objects \ {o}
      PROVE  /\ object[o].handles \cap object[p].handles = {}
             /\ object[o].data # object[p].data \/ object[o].data = nullptr
  BY <1>0 DEF HandlesOwned, ViewsOwned, is_open
<1>4. \A o \in Objects : object[o].handles \cap Guarded = {}
  BY <1>0 DEF HandlesOwned
<1> QED
  BY <1>1, <1>2, <1>3, <1>4 DEF EachHeldOnce

LEMMA InvIsWhole == MapInv => OpenIsWhole
<1> SUFFICES ASSUME MapInv, NEW o \in Objects
             PROVE  /\ is_open(o) <=> object[o].size > 0
                    /\ is_open(o) => mapped[object[o].data] = object[o].size
                    /\ Cardinality(object[o].handles) =
                         IF ~is_open(o) THEN 0 ELSE IF windows THEN 2 ELSE 1
                    /\ call # NoCall /\ call.object = o => ~is_open(o)
  BY DEF OpenIsWhole
<1>1. call # NoCall /\ call.object = o => ~is_open(o)
  BY DEF MapInv, CallWhole
<1>2. CASE is_open(o)
  <2>1. /\ object[o].size \in Lengths \ {0}
        /\ mapped[object[o].data] = object[o].size
        /\ Cardinality(object[o].handles) = Needed
    BY <1>2 DEF MapInv, ObjectsWhole, Count
  <2>2. object[o].size > 0
    BY <2>1, LengthsAssumption
  <2> QED
    BY <1>1, <1>2, <2>1, <2>2 DEF Needed
<1>3. CASE ~is_open(o)
  <2>1. object[o].size = 0 /\ object[o].handles = {}
    BY <1>3 DEF MapInv, ObjectsWhole, Closed
  <2>2. Cardinality(object[o].handles) = 0
    BY <2>1, FS_EmptySet
  <2> QED
    BY <1>1, <1>3, <2>1, <2>2
<1> QED
  BY <1>2, <1>3

LEMMA AlwaysOwned == MapSpec => []MapInv
BY InitHolds, StepKeeps, PTL DEF MapSpec

(* Whatever the kernel calls answer, and however objects are reused,       *)
(* swapped and moved, every open handle and every mapping has one owner.   *)
THEOREM HeldOnce == MapSpec => [](MapTypeOK /\ EachHeldOnce)
BY AlwaysOwned, InvHoldsOnce, PTL

(* An object says it is open exactly if it has a mapping of its size, and  *)
(* one that a call works on, or has failed to open, is closed.             *)
THEOREM WholeOrClosed == MapSpec => []OpenIsWhole
BY AlwaysOwned, InvIsWhole, PTL
-----------------------------------------------------------------------------
(* What an object holds is as long as it says: 0 for nothing.              *)
sizes == [o \in Objects |-> object[o].size]

LEMMA HeldIsSize == MapInv => held = sizes
<1> SUFFICES ASSUME MapInv, NEW o \in Objects
             PROVE  object[o].size = IF ~is_open(o) THEN 0
                                     ELSE IF object[o].data \in DOMAIN mapped
                                          THEN mapped[object[o].data] ELSE Dangling
  BY DEF held, sizes
<1>1. CASE is_open(o)
  BY <1>1 DEF MapInv, ObjectsWhole, ViewsOwned
<1>2. CASE ~is_open(o)
  BY <1>2 DEF MapInv, ObjectsWhole, Closed
<1> QED
  BY <1>1, <1>2

LEMMA StepHolds ==
  MapInv /\ held = sizes /\ (held = sizes)' /\ [MapNext]_mapVars => [Hold!HoldingNext]_held
<1> SUFFICES ASSUME MapInv, held = sizes, held' = sizes', [MapNext]_mapVars
             PROVE  Hold!HoldingNext \/ held' = held
  OBVIOUS
<1>1. held = sizes /\ held' = sizes'
  OBVIOUS
<1>2. object \in [Objects -> [data : Views \cup {nullptr}, size : Nat, handles : SUBSET Handles]]
  BY DEF MapInv, MapTypeOK
<1>3. ASSUME object' = object PROVE held' = held
  BY <1>1, <1>3 DEF sizes
<1>4. ASSUME NEW o \in Objects, object' = [object EXCEPT ![o] = Closed]
      PROVE  Hold!HoldingNext
  <2>1. held' = [held EXCEPT ![o] = 0]
    BY <1>1, <1>2, <1>4 DEF sizes, Closed
  <2> QED
    BY <2>1 DEF Hold!HoldingNext, Hold!Drop
<1>5. ASSUME NEW o \in Objects, NEW kind, NEW length, Begin(o, kind, length)
      PROVE  Hold!HoldingNext \/ held' = held
  BY <1>3, <1>4, <1>5 DEF Begin, Release
<1>6. CASE View
  <2> DEFINE o == call.object
  <2>1. PICK v \in Views \ DOMAIN mapped :
          object' = [object EXCEPT ![o] =
                       [data |-> v, size |-> call.length, handles |-> call.guarded]]
    BY <1>6 DEF View
  <2>2. /\ call # NoCall /\ call.step = "view" /\ call \in Calls /\ ~is_open(o)
        /\ call.length \in Lengths \ {0}
    BY <1>6 DEF View, At, MapInv, MapTypeOK, CallWhole
  <2>3. o \in Objects /\ object[o].size = 0
    <3>1. o \in Objects
      BY <2>2 DEF Calls
    <3>2. \A p \in Objects : object[p].data = nullptr => object[p] = Closed
      BY DEF MapInv, ObjectsWhole, is_open
    <3> QED
      BY <2>2, <3>1, <3>2 DEF is_open, Closed
  <2> HIDE DEF o
  <2>4. held[o] = 0 /\ held' = [held EXCEPT ![o] = call.length]
    BY <1>1, <1>2, <2>1, <2>3 DEF sizes
  <2> QED
    BY <2>2, <2>3, <2>4 DEF Hold!HoldingNext, Hold!Acquire
<1>7. ASSUME NEW a \in Objects, NEW b \in Objects, Swap(a, b) PROVE Hold!HoldingNext
  <2>1. a # b /\ object' = [object EXCEPT ![a] = object[b], ![b] = object[a]]
    BY <1>7 DEF Swap
  <2>2. held' = [held EXCEPT ![a] = held[b], ![b] = held[a]]
    BY <1>1, <1>2, <2>1 DEF sizes
  <2> QED
    BY <2>1, <2>2 DEF Hold!HoldingNext, Hold!Exchange
<1>8. ASSUME NEW a \in Objects, NEW b \in Objects, MoveAssign(a, b) PROVE Hold!HoldingNext
  <2>1. a # b /\ object' = [object EXCEPT ![a] = object[b], ![b] = Closed]
    BY <1>8 DEF MoveAssign, Release
  <2>2. held' = [held EXCEPT ![a] = held[b], ![b] = 0]
    BY <1>1, <1>2, <2>1 DEF sizes, Closed
  <2> QED
    BY <2>1, <2>2 DEF Hold!HoldingNext, Hold!Move
<1>9. ASSUME NEW o \in Objects, Close(o) PROVE Hold!HoldingNext
  BY <1>4, <1>9 DEF Close, Release
<1>10. ASSUME File \/ SizeKnown \/ SizeAsked \/ Section \/ ViewFails \/ UNCHANGED mapVars
       PROVE  held' = held
  BY <1>3, <1>10 DEF File, SizeKnown, SizeAsked, Section, ViewFails, mapVars,
                     Gives, Ends, Continues
<1> QED
  BY <1>5, <1>6, <1>7, <1>8, <1>9, <1>10 DEF MapNext

(* The kernel calls of mapped_file implement Holding: a mapping is         *)
(* acquired whole or not at all, and moved or dropped but never lost.      *)
THEOREM HoldsItsPromise == MapSpec => HoldsAsPromised
<1>1. MapInit => Hold!HoldingInit
  BY DEF MapInit, Hold!HoldingInit, held, is_open, Closed
<1> QED
  BY <1>1, AlwaysOwned, HeldIsSize, StepHolds, PTL DEF MapSpec, Hold!HoldingSpec, HoldsAsPromised
=============================================================================
