--------------------------- MODULE ReferenceProofs --------------------------
(***************************************************************************)
(* Every reference of every file that is linked is held in exactly one     *)
(* way, for every set of files and every order of the calls: a file is     *)
(* placed behind all the references that are there, and resolve() only     *)
(* moves a reference from the pending ones to one other set.  And a        *)
(* relocated reference designates the definition of its symbol, and one    *)
(* that is reported undefined has none in the file.                        *)
(***************************************************************************)
EXTENDS SegmentProofs

(* X is the union of the others, no two of which have an element in common.*)
Split(X, pending, near, far, patched, dropped) ==
  /\ \A r : r \in X <=> \/ r \in pending \/ r \in near \/ r \in far
                        \/ r \in patched \/ r \in dropped
  /\ \A r : /\ r \in pending => r \notin near /\ r \notin far
                                /\ r \notin patched /\ r \notin dropped
            /\ r \in near => r \notin far /\ r \notin patched /\ r \notin dropped
            /\ r \in far => r \notin patched /\ r \notin dropped
            /\ r \in patched => r \notin dropped

Near(seg) == {ref \in Refs(seg.relocs) : ref.sym # Itself}
Inner(seg) == {ref \in Refs(seg.relocs) : ref.sym = Itself}

(* Accounted, without the sequence.                                        *)
Held(seg, pending) ==
  /\ Split(ExternalsOf(seg), pending, Near(seg), Refs(seg.intersegs),
           Refs(seg.patches), seg.dropped)
  /\ Inner(seg) = InternalsOf(seg)

AllHeld(segs, rels) == \A ix \in 1 .. Len(segs) : Held(segs[ix], rels[ix])

LEMMA SplitTuple ==
  ASSUME NEW X, NEW a, NEW b, NEW c, NEW d, NEW e, NEW t, t = <<a, b, c, d, e>>
  PROVE  Split(X, a, b, c, d, e) <=>
           /\ UNION {t[i] : i \in DOMAIN t} = X
           /\ \A i, j \in DOMAIN t : i # j => t[i] \cap t[j] = {}
  <1>1. /\ DOMAIN t = 1..5
        /\ t[1] = a /\ t[2] = b /\ t[3] = c /\ t[4] = d /\ t[5] = e
    OBVIOUS
  <1>2. DOMAIN t = {1, 2, 3, 4, 5}
    BY <1>1
  <1>3. \A r : r \in UNION {t[i] : i \in DOMAIN t} <=>
               r \in a \/ r \in b \/ r \in c \/ r \in d \/ r \in e
    BY <1>1, <1>2
  <1>4. (UNION {t[i] : i \in DOMAIN t} = X) <=>
        \A r : r \in X <=> r \in a \/ r \in b \/ r \in c \/ r \in d \/ r \in e
    BY <1>3
  <1>5. (\A i, j \in DOMAIN t : i # j => t[i] \cap t[j] = {}) <=>
        /\ a \cap b = {} /\ a \cap c = {} /\ a \cap d = {} /\ a \cap e = {}
        /\ b \cap c = {} /\ b \cap d = {} /\ b \cap e = {}
        /\ c \cap d = {} /\ c \cap e = {} /\ d \cap e = {}
    <2>1. ASSUME \A i, j \in DOMAIN t : i # j => t[i] \cap t[j] = {}
          PROVE  /\ a \cap b = {} /\ a \cap c = {} /\ a \cap d = {} /\ a \cap e = {}
                 /\ b \cap c = {} /\ b \cap d = {} /\ b \cap e = {}
                 /\ c \cap d = {} /\ c \cap e = {} /\ d \cap e = {}
      BY <2>1, <1>1
    <2>2. ASSUME /\ a \cap b = {} /\ a \cap c = {} /\ a \cap d = {} /\ a \cap e = {}
                 /\ b \cap c = {} /\ b \cap d = {} /\ b \cap e = {}
                 /\ c \cap d = {} /\ c \cap e = {} /\ d \cap e = {},
                 NEW i \in DOMAIN t, NEW j \in DOMAIN t, i # j
          PROVE  t[i] \cap t[j] = {}
      BY <2>2, <1>1, <1>2
    <2>3. QED
      BY <2>1, <2>2
  <1>6. QED
    BY <1>4, <1>5 DEF Split

LEMMA HeldIsAccounted ==
  ASSUME NEW seg, NEW pending
  PROVE  Held(seg, pending) <=> Accounted(seg, pending)
  <1>1. Outcomes(seg, pending) =
          <<pending, Near(seg), Refs(seg.intersegs), Refs(seg.patches), seg.dropped>>
    BY DEF Outcomes, Near
  <1>2. Split(ExternalsOf(seg), pending, Near(seg), Refs(seg.intersegs),
              Refs(seg.patches), seg.dropped) <=>
          LET t == Outcomes(seg, pending) IN
          /\ UNION {t[i] : i \in DOMAIN t} = ExternalsOf(seg)
          /\ \A i, j \in DOMAIN t : i # j => t[i] \cap t[j] = {}
    <2> DEFINE near == Near(seg)
               far == Refs(seg.intersegs)
               patched == Refs(seg.patches)
               dropped == seg.dropped
               X == ExternalsOf(seg)
    <2> HIDE DEF near, far, patched, dropped, X
    <2>1. \A t : t = <<pending, near, far, patched, dropped>> =>
            (Split(X, pending, near, far, patched, dropped) <=>
               /\ UNION {t[i] : i \in DOMAIN t} = X
               /\ \A i, j \in DOMAIN t : i # j => t[i] \cap t[j] = {})
      BY SplitTuple
    <2>2. QED
      BY <1>1, <2>1 DEF near, far, patched, dropped, X
  <1>3. QED
    BY <1>2 DEF Held, Accounted, Inner

(* Only the files placed and the references count.                         *)
LEMMA HeldSame ==
  ASSUME NEW seg, NEW other, NEW pending, Held(seg, pending),
         other.placed = seg.placed, other.relocs = seg.relocs,
         other.intersegs = seg.intersegs, other.patches = seg.patches,
         other.dropped = seg.dropped
  PROVE  Held(other, pending)
  BY DEF Held, ExternalsOf, InternalsOf, Near, Inner
-----------------------------------------------------------------------------
(* The references of a file that is placed at begin.                       *)
LEMMA NewReferences ==
  ASSUME NEW u \in Units, NEW begin \in Nat, NEW external \in BOOLEAN,
         NEW ref \in ReferencesOf(Rel[u], begin, external)
  PROVE  /\ begin <= ref.offset /\ ref.size >= 1
         /\ ref.sym = Itself <=> ~external
  <1>1. WellFormed(Rel[u])
    BY RelAssumption
  <1>2. PICK i \in Processed(Rel[u]) :
          /\ Rel[u].records[i].external = external
          /\ ref \in References(Rel[u].records[i], begin)
    BY DEF ReferencesOf
  <1> DEFINE rec == Rel[u].records[i]
  <1>3. rec \in Record /\ rec.size \in 1..3
    BY <1>1, <1>2 DEF WellFormed, Processed, Fields
  <1>4. rec.sym \in Names /\ rec.offset \in Nat /\ rec.external = external
        /\ rec.shift \in Shifts
    BY <1>2, <1>3 DEF Record
  <1> HIDE DEF rec
  <1>5. \E at \in 0..1, size \in 1..3, shift \in Shifts, copy \in 1..2 :
          ref = Reference(rec, begin, at, size, shift, copy)
    <2>1. CASE rec.kind = "ddb"
      <3>1. \/ \E copy \in 1..2 : ref = Reference(rec, begin, 0, 1, 8, copy)
            \/ ref = Reference(rec, begin, 1, 1, 0, 1)
        BY <1>2, <2>1 DEF References, rec
      <3>2. 8 \in Shifts /\ 0 \in Shifts
        BY DEF Shifts
      <3>3. QED
        BY <3>1, <3>2
    <2>2. CASE rec.kind # "ddb"
      <3>1. ref = Reference(rec, begin, 0, rec.size, rec.shift, 1)
        BY <1>2, <2>2 DEF References, rec
      <3>2. QED
        BY <3>1, <1>3, <1>4
    <2>3. QED
      BY <2>1, <2>2
  <1>6. PICK at \in 0..1, size \in 1..3, shift \in Shifts, copy \in 1..2 :
          ref = Reference(rec, begin, at, size, shift, copy)
    BY <1>5
  <1>7. /\ ref.offset = begin + rec.offset + at /\ ref.size = size
        /\ ref.sym = IF rec.external THEN rec.sym ELSE Itself
    BY <1>6 DEF Reference
  <1>8. begin <= ref.offset /\ ref.size >= 1
    BY <1>4, <1>7
  <1>9. ref.sym = Itself <=> ~external
    BY <1>4, <1>7, ItselfAssumption
  <1>10. QED
    BY <1>8, <1>9

LEMMA ExternalSymbols ==
  ASSUME NEW seg \in Segments, NEW ref \in ExternalsOf(seg)
  PROVE  ref.sym # Itself
  <1>1. PICK p \in seg.placed : p.file \in Units /\ ref \in ReferencesOf(Rel[p.file], p.begin, TRUE)
    BY DEF ExternalsOf
  <1>2. p.begin \in Nat
    BY DEF Segments
  <1>3. QED
    BY <1>1, <1>2, NewReferences

(* A file placed in a segment adds its references.                         *)
LEMMA PlacedReferences ==
  ASSUME NEW seg, NEW u \in Units, NEW to,
         to.placed = seg.placed \cup {[file |-> u, begin |-> seg.size]}
  PROVE  /\ ExternalsOf(to) = ExternalsOf(seg) \cup ReferencesOf(Rel[u], seg.size, TRUE)
         /\ InternalsOf(to) = InternalsOf(seg) \cup ReferencesOf(Rel[u], seg.size, FALSE)
  <1> DEFINE place == [file |-> u, begin |-> seg.size]
  <1>1. to.placed = seg.placed \cup {place}
    OBVIOUS
  <1>2. place.file = u /\ place.begin = seg.size
    OBVIOUS
  <1> HIDE DEF place
  <1>3. {q \in to.placed : q.file \in Units} = {q \in seg.placed : q.file \in Units} \cup {place}
    BY <1>1, <1>2
  <1>4. ASSUME NEW r
        PROVE  r \in ExternalsOf(to) <=>
                 r \in ExternalsOf(seg) \/ r \in ReferencesOf(Rel[u], seg.size, TRUE)
    BY <1>2, <1>3 DEF ExternalsOf
  <1>5. ASSUME NEW r
        PROVE  r \in InternalsOf(to) <=>
                 r \in InternalsOf(seg) \/ r \in ReferencesOf(Rel[u], seg.size, FALSE)
    BY <1>2, <1>3 DEF InternalsOf
  <1>6. ExternalsOf(to) = ExternalsOf(seg) \cup ReferencesOf(Rel[u], seg.size, TRUE)
    BY <1>4
  <1>7. InternalsOf(to) = InternalsOf(seg) \cup ReferencesOf(Rel[u], seg.size, FALSE)
    BY <1>5
  <1>8. QED
    BY <1>6, <1>7

LEMMA PlacedBinary ==
  ASSUME NEW seg, NEW b \in Binaries, NEW to,
         to.placed = seg.placed \cup {[file |-> b, begin |-> seg.size]}
  PROVE  /\ ExternalsOf(to) = ExternalsOf(seg)
         /\ InternalsOf(to) = InternalsOf(seg)
  <1> DEFINE place == [file |-> b, begin |-> seg.size]
  <1>1. to.placed = seg.placed \cup {place}
    OBVIOUS
  <1>2. place.file \notin Units
    BY BinAssumption
  <1> HIDE DEF place
  <1>3. {q \in to.placed : q.file \in Units} = {q \in seg.placed : q.file \in Units}
    BY <1>1, <1>2
  <1>4. QED
    BY <1>3 DEF ExternalsOf, InternalsOf

(* References behind the data are none of those before.                    *)
LEMMA Behind ==
  ASSUME NEW seg \in Segments, NEW pending \in SUBSET RefRecords, RefInside(seg, pending),
         NEW u \in Units, NEW external \in BOOLEAN,
         NEW ref \in ReferencesOf(Rel[u], seg.size, external)
  PROVE  /\ ref \notin pending /\ ref \notin Refs(seg.relocs)
         /\ ref \notin Refs(seg.intersegs) /\ ref \notin Refs(seg.patches)
         /\ ref \notin seg.dropped
  <1>1. seg.size \in Nat
    BY DEF Segments
  <1>2. seg.size <= ref.offset /\ ref.size >= 1 /\ ref \in RefRecords
    BY <1>1, NewReferences, UnitReferences
  <1>3. ~(ref.offset + ref.size <= seg.size)
    BY <1>1, <1>2 DEF RefRecords
  <1>4. QED
    BY <1>3 DEF RefInside

LEMMA UnitHeld ==
  ASSUME NEW seg \in Segments, NEW pending \in SUBSET RefRecords, RefInside(seg, pending),
         Held(seg, pending), NEW u \in Units, NEW size, NEW links, NEW to,
         Refs(links) = ReferencesOf(Rel[u], seg.size, FALSE),
         to = Placed(seg, u, size, links)
  PROVE  Held(to, pending \cup ReferencesOf(Rel[u], seg.size, TRUE))
  <1>0. /\ ExternalsOf(to) = ExternalsOf(seg) \cup ReferencesOf(Rel[u], seg.size, TRUE)
        /\ InternalsOf(to) = InternalsOf(seg) \cup ReferencesOf(Rel[u], seg.size, FALSE)
    <2>1. to.placed = seg.placed \cup {[file |-> u, begin |-> seg.size]}
      BY DEF Placed, Segments
    <2>2. QED
      BY <2>1, PlacedReferences
  <1> DEFINE outer == ReferencesOf(Rel[u], seg.size, TRUE)
             inner == ReferencesOf(Rel[u], seg.size, FALSE)
  <1>1. /\ to.relocs = seg.relocs \cup links /\ to.intersegs = seg.intersegs
        /\ to.patches = seg.patches /\ to.dropped = seg.dropped
    BY DEF Placed, Segments
  <1>2. /\ ExternalsOf(to) = ExternalsOf(seg) \cup outer
        /\ InternalsOf(to) = InternalsOf(seg) \cup inner
    BY <1>0
  <1>3. seg.size \in Nat
    BY DEF Segments
  <1>4. /\ \A ref \in inner : ref.sym = Itself
        /\ \A ref \in outer : ref.sym # Itself
    BY <1>3, NewReferences
  <1>5. Refs(to.relocs) = Refs(seg.relocs) \cup inner
    BY <1>1 DEF Refs
  <1>6. \A ref \in outer : /\ ref \notin pending /\ ref \notin Refs(seg.relocs)
                           /\ ref \notin Refs(seg.intersegs)
                           /\ ref \notin Refs(seg.patches) /\ ref \notin seg.dropped
    BY Behind
  <1> HIDE DEF outer, inner
  <1>7. Near(to) = Near(seg) /\ Inner(to) = Inner(seg) \cup inner
    BY <1>4, <1>5 DEF Near, Inner
  <1>8. \A ref \in outer : ref \notin Near(seg)
    BY <1>6 DEF Near
  <1> DEFINE X == ExternalsOf(seg)
             near == Near(seg)
             far == Refs(seg.intersegs)
             patched == Refs(seg.patches)
             dropped == seg.dropped
  <1>9. Split(X, pending, near, far, patched, dropped)
    BY DEF Held
  <1>10. \A ref \in outer : /\ ref \notin pending /\ ref \notin near /\ ref \notin far
                           /\ ref \notin patched /\ ref \notin dropped
    BY <1>6, <1>8
  <1>11. Split(X \cup outer, pending \cup outer, near, far, patched, dropped)
    <2> HIDE DEF X, near, far, patched, dropped
    <2>1. QED
      BY <1>9, <1>10 DEF Split
  <1>12. Inner(to) = InternalsOf(to)
    BY <1>2, <1>7 DEF Held
  <1>13. QED
    BY <1>1, <1>2, <1>7, <1>11, <1>12 DEF Held, outer
-----------------------------------------------------------------------------
(* resolve() moves the pending references: near, far, patched, undefined.  *)
LEMMA Moved ==
  ASSUME NEW X, NEW pending, NEW near, NEW far, NEW patched, NEW dropped,
         Split(X, pending, near, far, patched, dropped),
         NEW N, NEW F, NEW A, NEW U,
         \A r : r \in pending <=> r \in N \/ r \in F \/ r \in A \/ r \in U,
         \A r : /\ r \in N => r \notin F /\ r \notin A /\ r \notin U
                /\ r \in F => r \notin A /\ r \notin U
                /\ r \in A => r \notin U
  PROVE  /\ Split(X, U, near \cup N, far \cup F, patched \cup A, dropped)
         /\ Split(X, {}, near \cup N, far \cup F, patched \cup A, dropped \cup U)
  <1> DEFINE n == near \cup N
             f == far \cup F
             p == patched \cup A
             d == dropped \cup U
  <1>1. /\ \A r : r \in n <=> r \in near \/ r \in N
        /\ \A r : r \in f <=> r \in far \/ r \in F
        /\ \A r : r \in p <=> r \in patched \/ r \in A
        /\ \A r : r \in d <=> r \in dropped \/ r \in U
    OBVIOUS
  <1> HIDE DEF n, f, p, d
  <1>2. ASSUME NEW r
        PROVE  /\ r \in X <=> \/ r \in U \/ r \in n \/ r \in f
                              \/ r \in p \/ r \in dropped
               /\ r \in X <=> \/ r \in {} \/ r \in n \/ r \in f
                              \/ r \in p \/ r \in d
               /\ r \in U => r \notin n /\ r \notin f /\ r \notin p /\ r \notin dropped
               /\ r \in n => r \notin f /\ r \notin p /\ r \notin dropped /\ r \notin d
               /\ r \in f => r \notin p /\ r \notin dropped /\ r \notin d
               /\ r \in p => r \notin dropped /\ r \notin d
    <2>1. /\ r \in X <=> \/ r \in pending \/ r \in near \/ r \in far
                          \/ r \in patched \/ r \in dropped
          /\ r \in pending => r \notin near /\ r \notin far /\ r \notin patched /\ r \notin dropped
          /\ r \in near => r \notin far /\ r \notin patched /\ r \notin dropped
          /\ r \in far => r \notin patched /\ r \notin dropped
          /\ r \in patched => r \notin dropped
      BY DEF Split
    <2>2. /\ r \in pending <=> r \in N \/ r \in F \/ r \in A \/ r \in U
          /\ r \in N => r \notin F /\ r \notin A /\ r \notin U
          /\ r \in F => r \notin A /\ r \notin U
          /\ r \in A => r \notin U
      OBVIOUS
    <2>3. /\ r \in n <=> r \in near \/ r \in N
          /\ r \in f <=> r \in far \/ r \in F
          /\ r \in p <=> r \in patched \/ r \in A
          /\ r \in d <=> r \in dropped \/ r \in U
      BY <1>1
    <2>4. r \notin {}
      OBVIOUS
    <2>5. QED
      BY <2>1, <2>2, <2>3, <2>4
  <1>3. Split(X, U, n, f, p, dropped)
    BY <1>2 DEF Split
  <1>4. Split(X, {}, n, f, p, d)
    BY <1>2 DEF Split
  <1>5. QED
    BY <1>3, <1>4 DEF n, f, p, d

(* The relocatable ones whose symbol is in the segment, or is not.         *)
Going(pending, segnum, same) ==
  {r \in Relocatable(pending) : (Lookup(r.sym).segment = segnum) = same}

LEMMA LinkRefs ==
  ASSUME NEW pending, NEW segnum, NEW same
  PROVE  Refs(LinksOf(pending, segnum, same)) = Going(pending, segnum, same)
  <1>1. \A ref : Link(ref).ref = ref
    BY RefOfBound
  <1>2. LinksOf(pending, segnum, same) = {Link(ref) : ref \in Going(pending, segnum, same)}
    BY DEF LinksOf, Going
  <1>3. QED
    BY <1>1, <1>2 DEF Refs

LEMMA ResolvedHeld ==
  ASSUME SymbolTypeOK, NEW seg \in Segments, NEW pending, Held(seg, pending),
         NEW allow \in BOOLEAN
  PROVE  Held(ResolvedSegment(seg, pending, allow), IF allow THEN Undefined(pending) ELSE {})
  <1> DEFINE done == ResolvedSegment(seg, pending, allow)
             left == IF allow THEN Undefined(pending) ELSE {}
             N == Going(pending, seg.segnum, TRUE)
             F == Going(pending, seg.segnum, FALSE)
             A == Absolute(pending)
             U == Undefined(pending)
             patches == {Patch(ref) : ref \in A}
  <1>1. /\ done.placed = seg.placed
        /\ done.relocs = seg.relocs \cup LinksOf(pending, seg.segnum, TRUE)
        /\ done.intersegs = seg.intersegs \cup LinksOf(pending, seg.segnum, FALSE)
        /\ done.patches = seg.patches \cup patches
        /\ done.dropped = seg.dropped \cup IF allow THEN {} ELSE U
    BY DEF ResolvedSegment, Segments
  <1>2. \A ref : Patch(ref).ref = ref
    BY RefOfBound
  <1>3. Refs(patches) = A
    BY <1>2 DEF Refs
  <1>4. /\ Refs(LinksOf(pending, seg.segnum, TRUE)) = N
        /\ Refs(LinksOf(pending, seg.segnum, FALSE)) = F
    BY LinkRefs
  <1>5. \A n : Lookup(n) \in Symbol
    BY LookupType
  <1>6. /\ \A r : r \in pending <=> r \in N \/ r \in F \/ r \in A \/ r \in U
        /\ \A r : /\ r \in N => r \notin F /\ r \notin A /\ r \notin U
                  /\ r \in F => r \notin A /\ r \notin U
                  /\ r \in A => r \notin U
    BY DEF Going, Relocatable, Absolute, Undefined
  <1>7. \A r \in N : r.sym # Itself
    <2>1. \A r \in pending : r \in ExternalsOf(seg)
      BY DEF Held, Split
    <2>2. QED
      BY <1>6, <2>1, ExternalSymbols
  <1> HIDE DEF done, left, N, F, A, U, patches
  <1>8. /\ Refs(done.relocs) = Refs(seg.relocs) \cup N
        /\ Refs(done.intersegs) = Refs(seg.intersegs) \cup F
        /\ Refs(done.patches) = Refs(seg.patches) \cup A
    BY <1>1, <1>3, <1>4 DEF Refs
  <1>9. Near(done) = Near(seg) \cup N /\ Inner(done) = Inner(seg)
    BY <1>7, <1>8 DEF Near, Inner
  <1>10. ExternalsOf(done) = ExternalsOf(seg) /\ InternalsOf(done) = InternalsOf(seg)
    BY <1>1 DEF ExternalsOf, InternalsOf
  <1> DEFINE X == ExternalsOf(seg)
             near == Near(seg)
             far == Refs(seg.intersegs)
             patched == Refs(seg.patches)
             dropped == seg.dropped
  <1>11. Split(X, pending, near, far, patched, dropped)
    BY DEF Held
  <1>12. /\ Split(X, U, near \cup N, far \cup F, patched \cup A, dropped)
         /\ Split(X, {}, near \cup N, far \cup F, patched \cup A, dropped \cup U)
    <2> HIDE DEF X, near, far, patched, dropped
    <2>1. QED
      BY <1>6, <1>11, Moved
  <1>13. Split(ExternalsOf(done), left, Near(done), Refs(done.intersegs),
               Refs(done.patches), done.dropped)
    <2>1. CASE allow
      <3>1. left = U /\ done.dropped = dropped
        BY <2>1, <1>1 DEF left, U
      <3>2. QED
        BY <3>1, <1>8, <1>9, <1>10, <1>12
    <2>2. CASE ~allow
      <3>1. left = {} /\ done.dropped = dropped \cup U
        BY <2>2, <1>1 DEF left
      <3>2. QED
        BY <3>1, <1>8, <1>9, <1>10, <1>12
    <2>3. QED
      BY <2>1, <2>2
  <1>14. Inner(done) = InternalsOf(done)
    BY <1>9, <1>10 DEF Held
  <1>15. Held(done, left)
    BY <1>13, <1>14 DEF Held
  <1>16. QED
    BY <1>15 DEF done, left

LEMMA ResolvedAllHeld ==
  ASSUME SymbolTypeOK, NEW segs, NEW rels, WellBuilt(segs, rels), AllHeld(segs, rels),
         NEW allow \in BOOLEAN
  PROVE  AllHeld(Resolved(segs, rels, allow), Unresolved(segs, rels, allow))
  <1> DEFINE t == Resolved(segs, rels, allow)
             r == Unresolved(segs, rels, allow)
  <1>1. /\ segs \in Seq(Segments) /\ DOMAIN segs = 1 .. Len(segs)
    BY DEF WellBuilt
  <1>2. Len(t) = Len(segs)
    BY ResolvedWellBuilt
  <1>3. ASSUME NEW ix \in 1 .. Len(segs)
        PROVE  Held(t[ix], r[ix])
    <2>1. segs[ix] \in Segments /\ Held(segs[ix], rels[ix])
      BY <1>1 DEF AllHeld
    <2>2. CASE ix \in Reached(segs)
      <3>1. /\ t[ix] = ResolvedSegment(segs[ix], rels[ix], allow)
            /\ r[ix] = IF allow THEN Undefined(rels[ix]) ELSE {}
        BY <1>1, <2>2 DEF Resolved, Unresolved
      <3>2. QED
        BY <2>1, <3>1, ResolvedHeld
    <2>3. CASE ix \notin Reached(segs)
      BY <1>1, <2>1, <2>3 DEF Resolved, Unresolved
    <2>4. QED
      BY <2>2, <2>3
  <1> HIDE DEF t, r
  <1>4. AllHeld(t, r)
    BY <1>2, <1>3 DEF AllHeld
  <1>5. QED
    BY <1>4 DEF t, r
-----------------------------------------------------------------------------
(* The vectors, through the operations on them.                            *)
LEMMA ReplaceHeld ==
  ASSUME NEW segs, NEW rels, WellBuilt(segs, rels), AllHeld(segs, rels),
         NEW k \in 1 .. Len(segs), NEW seg, NEW pending, Held(seg, pending)
  PROVE  AllHeld([segs EXCEPT ![k] = seg], [rels EXCEPT ![k] = pending])
  <1> DEFINE t == [segs EXCEPT ![k] = seg]
             r == [rels EXCEPT ![k] = pending]
  <1>1. /\ Len(segs) \in Nat /\ segs \in Seq(Segments)
        /\ rels \in Seq(SUBSET RefRecords) /\ Len(rels) = Len(segs)
    BY DEF WellBuilt
  <1>2. /\ Len(t) = Len(segs) /\ t[k] = seg
        /\ \A ix \in 1 .. Len(segs) : ix # k => t[ix] = segs[ix]
    BY <1>1
  <1>3. /\ r[k] = pending
        /\ \A ix \in 1 .. Len(segs) : ix # k => r[ix] = rels[ix]
    BY <1>1
  <1> HIDE DEF t, r
  <1>4. AllHeld(t, r)
    BY <1>2, <1>3 DEF AllHeld
  <1>5. QED
    BY <1>4 DEF t, r

LEMMA SetHeld ==
  ASSUME NEW segs, NEW rels, WellBuilt(segs, rels), AllHeld(segs, rels),
         NEW k \in 1 .. Len(segs), NEW seg, Held(seg, rels[k])
  PROVE  AllHeld([segs EXCEPT ![k] = seg], rels)
  <1>1. rels = [rels EXCEPT ![k] = rels[k]]
    BY DEF WellBuilt
  <1>2. AllHeld([segs EXCEPT ![k] = seg], [rels EXCEPT ![k] = rels[k]])
    BY ReplaceHeld
  <1>3. QED
    BY <1>1, <1>2

LEMMA NewSegmentHeld ==
  ASSUME NEW number, NEW index
  PROVE  Held(NewSegment(number, index), {})
  <1> DEFINE seg == NewSegment(number, index)
  <1>1. /\ seg.placed = {} /\ seg.relocs = {} /\ seg.intersegs = {}
        /\ seg.patches = {} /\ seg.dropped = {}
    BY DEF NewSegment
  <1> HIDE DEF seg
  <1>2. /\ ExternalsOf(seg) = {} /\ InternalsOf(seg) = {} /\ Near(seg) = {}
        /\ Inner(seg) = {} /\ Refs(seg.intersegs) = {} /\ Refs(seg.patches) = {}
    BY <1>1 DEF ExternalsOf, InternalsOf, Near, Inner, Refs
  <1>3. Held(seg, {})
    BY <1>1, <1>2 DEF Held, Split
  <1>4. QED
    BY <1>3 DEF seg

LEMMA AppendHeld ==
  ASSUME NEW segs, NEW rels, WellBuilt(segs, rels), AllHeld(segs, rels), made \in Nat,
         AppendSegment(segs, rels)
  PROVE  AllHeld(segments', relocations')
  <1> DEFINE seg == NewSegment(made + 1, Len(segs) + 1)
  <1>1. Len(segs) \in Nat /\ segs \in Seq(Segments) /\ rels \in Seq(SUBSET RefRecords)
        /\ Len(rels) = Len(segs)
    BY DEF WellBuilt
  <1>2. segments' = Append(segs, seg) /\ relocations' = Append(rels, {})
    BY DEF AppendSegment
  <1>3. seg \in Segments /\ Held(seg, {})
    BY <1>1, NewSegmentType, NewSegmentHeld
  <1> HIDE DEF seg
  <1>4. /\ Len(segments') = Len(segs) + 1 /\ segments'[Len(segs) + 1] = seg
        /\ \A ix \in 1 .. Len(segs) : segments'[ix] = segs[ix]
    BY <1>1, <1>2, <1>3
  <1>5. /\ relocations'[Len(segs) + 1] = {}
        /\ \A ix \in 1 .. Len(segs) : relocations'[ix] = rels[ix]
    BY <1>1, <1>2
  <1>6. \A ix \in 1 .. Len(segments') : ix = Len(segs) + 1 \/ ix \in 1 .. Len(segs)
    BY <1>1, <1>4
  <1>7. QED
    BY <1>3, <1>4, <1>5, <1>6 DEF AllHeld

LEMMA StartOverHeld ==
  ASSUME made \in Nat, StartOver
  PROVE  AllHeld(segments', relocations')
  <1>1. AllHeld(<<>>, <<>>)
    BY DEF AllHeld
  <1>2. QED
    BY <1>1, EmptyWellBuilt, AppendHeld DEF StartOver

LEMMA AllButLastHeld ==
  ASSUME NEW segs, NEW rels, WellBuilt(segs, rels), AllHeld(segs, rels), Len(segs) >= 1
  PROVE  AllHeld(AllButLast(segs), AllButLast(rels))
  <1>1. Len(segs) \in Nat /\ segs \in Seq(Segments) /\ rels \in Seq(SUBSET RefRecords)
        /\ Len(rels) = Len(segs)
    BY DEF WellBuilt
  <1>2. /\ Len(AllButLast(segs)) = Len(segs) - 1
        /\ \A ix \in 1 .. Len(segs) - 1 : /\ AllButLast(segs)[ix] = segs[ix]
                                          /\ AllButLast(rels)[ix] = rels[ix]
    BY <1>1 DEF AllButLast
  <1>3. \A ix \in 1 .. Len(segs) - 1 : ix \in 1 .. Len(segs)
    BY <1>1
  <1>4. QED
    BY <1>2, <1>3 DEF AllHeld

LEMMA NamedHeld ==
  ASSUME LinkerInv, AllHeld(segments, relocations), NEW path \in Outputs
  PROVE  AllHeld(Named(path), relocations)
  <1>1. /\ Current \in 1 .. Len(segments) /\ Seg \in Segments
        /\ WellBuilt(segments, relocations) /\ Seg = segments[Current]
    BY CurrentOK DEF Seg
  <1>2. CASE settings.lkv = 0
    BY <1>2 DEF Named
  <1>3. CASE settings.lkv # 0
    <2> DEFINE seg == [Seg EXCEPT !.segname = basename(path), !.loadname = LoadName(path)]
    <2>1. Named(path) = [segments EXCEPT ![Current] = seg]
      BY <1>3 DEF Named, Seg
    <2>2. /\ seg.placed = Seg.placed /\ seg.relocs = Seg.relocs
          /\ seg.intersegs = Seg.intersegs /\ seg.patches = Seg.patches
          /\ seg.dropped = Seg.dropped
      BY <1>1 DEF Segments
    <2> HIDE DEF seg
    <2>3. Held(Seg, relocations[Current])
      BY <1>1 DEF AllHeld
    <2>4. Held(seg, relocations[Current])
      BY <2>2, <2>3, HeldSame
    <2>5. AllHeld([segments EXCEPT ![Current] = seg], relocations)
      BY <1>1, <2>4, SetHeld
    <2>6. QED
      BY <2>1, <2>5
  <1>4. QED
    BY <1>2, <1>3
-----------------------------------------------------------------------------
(* A file that is written.                                                 *)
Sound(out) ==
  /\ \A ix \in DOMAIN out.segs : Accounted(out.segs[ix], out.unresolved)
  /\ IF out.form = "omf"
     THEN out.segs # <<>> /\ \A k \in DOMAIN out.segs : out.segs[k].segnum = k
     ELSE Len(out.segs) = 1
  /\ \A k \in DOMAIN out.segs :
       \A ref \in Refs(out.segs[k].relocs) \cup Refs(out.segs[k].intersegs)
                  \cup out.unresolved :
         ref.offset + ref.size <= out.segs[k].size

AccountStep ==
  /\ AllHeld(segments', relocations')
  /\ \/ written' = written
     \/ \E out : Sound(out) /\ written' = Append(written, out)

(* The last segment alone, with what is left of its references.            *)
LEMMA LastSound ==
  ASSUME NEW t, NEW r, WellBuilt(t, r), AllHeld(t, r), NEW k \in 1 .. Len(t),
         NEW out, out.segs = <<t[k]>>, out.unresolved = r[k], out.form # "omf"
  PROVE  Sound(out)
  <1>1. RefInside(t[k], r[k]) /\ Accounted(t[k], r[k])
    <2>1. RefInside(t[k], r[k]) /\ Held(t[k], r[k])
      BY DEF WellBuilt, AllHeld
    <2>2. QED
      BY <2>1, HeldIsAccounted
  <1>2. DOMAIN out.segs = {1} /\ out.segs[1] = t[k] /\ Len(out.segs) = 1
    OBVIOUS
  <1>3. \A ref \in Refs(t[k].relocs) \cup Refs(t[k].intersegs) \cup r[k] :
          ref.offset + ref.size <= t[k].size
    BY <1>1 DEF RefInside
  <1>4. QED
    BY <1>1, <1>2, <1>3 DEF Sound

(* All of them, with no reference left.                                    *)
LEMMA AllSound ==
  ASSUME NEW t, NEW r, WellBuilt(t, r), AllHeld(t, r), Len(t) >= 1,
         \A ix \in 1 .. Len(t) : r[ix] = {},
         NEW out, out.segs = t, out.unresolved = {}, out.form = "omf"
  PROVE  Sound(out)
  <1>1. DOMAIN t = 1 .. Len(t) /\ t # <<>>
    BY DEF WellBuilt
  <1>2. \A ix \in 1 .. Len(t) : RefInside(t[ix], {}) /\ Held(t[ix], {}) /\ t[ix].segnum = ix
    BY DEF WellBuilt, AllHeld
  <1>3. \A ix \in 1 .. Len(t) : Accounted(t[ix], {})
    BY <1>2, HeldIsAccounted
  <1>4. \A ix \in 1 .. Len(t) : \A ref \in Refs(t[ix].relocs) \cup Refs(t[ix].intersegs) :
          ref.offset + ref.size <= t[ix].size
    BY <1>2 DEF RefInside
  <1>5. QED
    BY <1>1, <1>2, <1>3, <1>4 DEF Sound
-----------------------------------------------------------------------------
(* finish() and finish3() over segs: what they write is sound.             *)
LEMMA FinishSound ==
  ASSUME SymbolTypeOK, NEW segs, NEW rels, WellBuilt(segs, rels), AllHeld(segs, rels),
         Len(segs) >= 1, AllReached(segs), NEW path,
         FinishWrites(path, segs, rels) \/ Finish3Writes(path, segs, rels)
  PROVE  \E out : Sound(out) /\ written' = Append(written, out)
  <1> DEFINE t(allow) == Resolved(segs, rels, allow)
             r(allow) == Unresolved(segs, rels, allow)
             last == Len(segs)
  <1>1. last \in Nat /\ DOMAIN segs = 1 .. last
    BY DEF WellBuilt
  <1>2. \A allow \in BOOLEAN :
          /\ WellBuilt(t(allow), r(allow)) /\ Len(t(allow)) = last
          /\ AllHeld(t(allow), r(allow))
    BY ResolvedWellBuilt, ResolvedAllHeld
  <1>3. \A ix \in 1 .. last : r(FALSE)[ix] = {}
    BY <1>1 DEF Unresolved, Reached, AllReached
  <1>4. last \in 1 .. last
    BY <1>1
  <1>5. CASE Finish3Writes(path, segs, rels)
    <2> DEFINE out == [path |-> OutputPath(path), form |-> "object",
                       segs |-> <<t(TRUE)[last]>>, unresolved |-> r(TRUE)[last],
                       ver |-> settings.ver, ftype |-> OBJ, atype |-> 0]
    <2>1. written' = Append(written, out)
      BY <1>5 DEF Finish3Writes, Writes
    <2>2. /\ out.segs = <<t(TRUE)[last]>> /\ out.unresolved = r(TRUE)[last]
          /\ out.form # "omf"
      OBVIOUS
    <2> HIDE DEF out, t, r, last
    <2>3. Sound(out)
      BY <1>2, <1>4, <2>2, LastSound
    <2>4. QED
      BY <2>1, <2>3
  <1>6. CASE FinishWrites(path, segs, rels) /\ settings.lkv = 0
    <2> DEFINE out == [path |-> OutputPath(path), form |-> "bin",
                       segs |-> <<t(FALSE)[last]>>, unresolved |-> {},
                       ver |-> settings.ver, ftype |-> settings.ftype,
                       atype |-> settings.atype]
    <2>1. written' = Append(written, out)
      BY <1>2, <1>6 DEF FinishWrites, Writes
    <2>2. /\ out.segs = <<t(FALSE)[last]>> /\ out.unresolved = {} /\ out.form # "omf"
      OBVIOUS
    <2> HIDE DEF out, t, r, last
    <2>3. Sound(out)
      BY <1>2, <1>3, <1>4, <2>2, LastSound
    <2>4. QED
      BY <2>1, <2>3
  <1>7. CASE FinishWrites(path, segs, rels) /\ settings.lkv # 0
    <2> DEFINE out == [path |-> OutputPath(path), form |-> "omf",
                       segs |-> t(FALSE), unresolved |-> {},
                       ver |-> settings.ver, ftype |-> settings.ftype,
                       atype |-> settings.atype]
    <2>1. written' = Append(written, out)
      BY <1>7 DEF FinishWrites, Writes
    <2>2. out.segs = t(FALSE) /\ out.unresolved = {} /\ out.form = "omf"
      OBVIOUS
    <2>3. last >= 1
      OBVIOUS
    <2> HIDE DEF out, t, r, last
    <2>4. Sound(out)
      BY <1>2, <1>3, <2>2, <2>3, AllSound
    <2>5. QED
      BY <2>1, <2>4
  <1>8. QED
    BY <1>5, <1>6, <1>7

LEMMA FinishAccount ==
  ASSUME LinkerInv, NEW segs, NEW rels, WellBuilt(segs, rels), AllHeld(segs, rels),
         AllHeld(segments, relocations), Len(segs) >= 1, NEW path,
         \/ Finish(path, segs, rels) /\ StartOver
         \/ Finish3(path, segs, rels) /\ StartOver
         \/ FinishFails(path, segs, rels)
         \/ Finish3Fails(path, segs, rels)
  PROVE  AccountStep
  <1>1. SymbolTypeOK /\ made \in Nat /\ AllReached(segs)
    BY DEF LinkerInv, RestTypeOK, Finish, Finish3, FinishFails, Finish3Fails
  <1>2. \/ written' = written
        \/ \E out : Sound(out) /\ written' = Append(written, out)
    BY <1>1, FinishSound DEF Finish, Finish3, FinishFails, Finish3Fails
  <1>3. CASE StartOver
    BY <1>1, <1>2, <1>3, StartOverHeld DEF AccountStep
  <1>4. CASE FinishFails(path, segs, rels) \/ Finish3Fails(path, segs, rels)
    BY <1>2, <1>4 DEF FinishFails, Finish3Fails, SaveFails, AccountStep
  <1>5. QED
    BY <1>3, <1>4

LEMMA ThrowAccount ==
  ASSUME LinkerInv, NEW segs, NEW rels, WellBuilt(segs, rels), AllHeld(segs, rels),
         Len(segs) >= 1, NEW allow \in BOOLEAN,
         ResolveThrows(segs, rels, allow) \/ Finish3Throws(segs, rels)
  PROVE  AccountStep
  <1>1. SymbolTypeOK
    BY DEF LinkerInv
  <1>2. CASE ResolveThrows(segs, rels, allow)
    BY <1>1, <1>2, ResolvedAllHeld DEF ResolveThrows, AccountStep
  <1>3. CASE Finish3Throws(segs, rels)
    <2> DEFINE t == Resolved(segs, rels, TRUE)
               r == Unresolved(segs, rels, TRUE)
               last == Len(segs)
    <2>1. /\ WellBuilt(t, r) /\ AllHeld(t, r) /\ Len(t) = last /\ last \in 1 .. Len(t)
      <3>1. last \in Nat
        BY DEF WellBuilt
      <3>2. WellBuilt(t, r) /\ AllHeld(t, r) /\ Len(t) = last
        BY <1>1, ResolvedWellBuilt, ResolvedAllHeld
      <3> HIDE DEF t, r
      <3>3. QED
        BY <3>1, <3>2
    <2>2. PICK size \in EncodedSizes :
            segments' = [t EXCEPT ![last] = [t[last] EXCEPT !.size = size, !.encoded = TRUE]]
      BY <1>3 DEF Finish3Throws
    <2>3. relocations' = r /\ written' = written
      BY <1>3 DEF Finish3Throws
    <2> DEFINE seg == [t[last] EXCEPT !.size = size, !.encoded = TRUE]
    <2> HIDE DEF t, r, last
    <2>4. t[last] \in Segments /\ Held(t[last], r[last])
      BY <2>1 DEF WellBuilt, AllHeld
    <2>5. /\ seg.placed = t[last].placed /\ seg.relocs = t[last].relocs
          /\ seg.intersegs = t[last].intersegs /\ seg.patches = t[last].patches
          /\ seg.dropped = t[last].dropped
      BY <2>4 DEF Segments
    <2>6. segments' = [t EXCEPT ![last] = seg]
      BY <2>2
    <2> HIDE DEF seg
    <2>7. Held(seg, r[last])
      BY <2>4, <2>5, HeldSame
    <2>8. AllHeld([t EXCEPT ![last] = seg], r)
      BY <2>1, <2>7, SetHeld
    <2>9. QED
      BY <2>3, <2>6, <2>8 DEF AccountStep
  <1>4. QED
    BY <1>2, <1>3
-----------------------------------------------------------------------------
(* The calls.                                                              *)
LEMMA SavAccount ==
  ASSUME LinkerInv, AllHeld(segments, relocations), NEW path \in Outputs, Sav(path)
  PROVE  AccountStep
  <1> DEFINE segs == Named(path)
  <1>1. /\ WellBuilt(segs, relocations) /\ Len(segs) >= 1 /\ made \in Nat
        /\ AllHeld(segs, relocations)
    BY NamedOK, NamedHeld DEF LinkerInv, RestTypeOK
  <1> HIDE DEF segs
  <1>2. CASE AppendSegment(segs, relocations) /\ written' = written
    BY <1>1, <1>2, AppendHeld DEF AccountStep
  <1>3. CASE \/ Finish(Target(path), segs, relocations) /\ StartOver
             \/ Finish3(Target(path), segs, relocations) /\ StartOver
             \/ FinishFails(Target(path), segs, relocations)
             \/ Finish3Fails(Target(path), segs, relocations)
    BY <1>1, <1>3, FinishAccount
  <1>4. CASE \E allow \in BOOLEAN : \/ ResolveThrows(segs, relocations, allow)
                                   \/ Finish3Throws(segs, relocations)
    BY <1>1, <1>4, ThrowAccount
  <1>5. QED
    BY <1>2, <1>3, <1>4 DEF Sav, segs

LEMMA EndLinkAccount ==
  ASSUME LinkerInv, AllHeld(segments, relocations), EndLink
  PROVE  AccountStep
  <1> DEFINE segs == AllButLast(segments)
             rels == AllButLast(relocations)
  <1>1. /\ WellBuilt(segs, rels) /\ segs \in Seq(Segments) /\ made \in Nat
        /\ AllHeld(segs, rels)
    BY AllButLastWellBuilt, AllButLastHeld DEF WellBuilt, LinkerInv, RestTypeOK
  <1> HIDE DEF segs, rels
  <1>2. CASE UNCHANGED <<segments, relocations, written>>
    BY <1>2 DEF AccountStep
  <1>3. CASE StartOver /\ written' = written
    BY <1>1, <1>3, StartOverHeld DEF AccountStep
  <1>4. CASE segs # <<>> /\ \/ Finish(save_file, segs, rels) /\ StartOver
                            \/ FinishFails(save_file, segs, rels)
                            \/ ResolveThrows(segs, rels, FALSE)
    <2>1. Len(segs) >= 1
      BY <1>1, <1>4
    <2>2. QED
      BY <1>1, <1>4, <2>1, FinishAccount, ThrowAccount
  <1>5. QED
    BY <1>2, <1>3, <1>4 DEF EndLink, segs, rels

LEMMA FinishFilesAccount ==
  ASSUME LinkerInv, AllHeld(segments, relocations), FinishFiles
  PROVE  AccountStep
  <1>1. /\ WellBuilt(segments, relocations) /\ Len(segments) >= 1 /\ SymbolTypeOK
    BY DEF LinkerInv
  <1>2. CASE FinishFails(save_file, segments, relocations)
    BY <1>1, <1>2, FinishAccount
  <1>3. CASE /\ AllReached(segments)
             /\ FinishWrites(save_file, segments, relocations)
             /\ UNCHANGED <<segments, relocations>>
    BY <1>1, <1>3, FinishSound DEF AccountStep
  <1>4. QED
    BY <1>2, <1>3 DEF FinishFiles

LEMMA LinkUnitAccount ==
  ASSUME LinkerInv, AllHeld(segments, relocations), NEW u \in Units, LinkUnit(u)
  PROVE  AccountStep
  <1> DEFINE begin == Seg.size
             inner == ReferencesOf(Rel[u], begin, FALSE)
             links == {Internal(ref, begin) : ref \in inner}
             size == SizeAfter(Rel[u], begin)
             seg == Placed(Seg, u, size, links)
             pending == relocations[Current] \cup ReferencesOf(Rel[u], begin, TRUE)
  <1>1. /\ Current \in 1 .. Len(segments) /\ Seg \in Segments
        /\ relocations[Current] \in SUBSET RefRecords
        /\ RefInside(Seg, relocations[Current])
        /\ WellBuilt(segments, relocations) /\ Seg = segments[Current]
    BY CurrentOK DEF Seg
  <1>2. segments' = [segments EXCEPT ![Current] = seg]
    BY DEF LinkUnit
  <1>3. relocations' = [relocations EXCEPT ![Current] = pending]
    BY DEF LinkUnit
  <1>4. written' = written
    BY DEF LinkUnit
  <1>5. Refs(links) = inner
    <2>1. \A ref \in inner : Internal(ref, begin).ref = ref
      BY DEF Internal, Bound
    <2>2. QED
      BY <2>1 DEF Refs
  <1>6. Held(Seg, relocations[Current])
    BY <1>1 DEF AllHeld
  <1> HIDE DEF links, size
  <1>7. Held(seg, pending)
    <2>1. Refs(links) = ReferencesOf(Rel[u], Seg.size, FALSE)
      BY <1>5
    <2>2. seg = Placed(Seg, u, size, links)
      OBVIOUS
    <2> HIDE DEF seg
    <2>3. Held(seg, relocations[Current] \cup ReferencesOf(Rel[u], Seg.size, TRUE))
      BY <1>1, <1>6, <2>1, <2>2, UnitHeld
    <2>4. QED
      BY <2>3
  <1> HIDE DEF seg, pending
  <1>8. AllHeld([segments EXCEPT ![Current] = seg], [relocations EXCEPT ![Current] = pending])
    BY <1>1, <1>7, ReplaceHeld
  <1>9. QED
    BY <1>2, <1>3, <1>4, <1>8 DEF AccountStep

(* The current segment replaced by one with the same references.           *)
LEMMA ChangeAccount ==
  ASSUME LinkerInv, AllHeld(segments, relocations), relocations' = relocations,
         written' = written,
         \/ segments' = segments
         \/ \E seg : /\ Held(seg, relocations[Current])
                     /\ segments' = [segments EXCEPT ![Current] = seg]
  PROVE  AccountStep
  <1>1. Current \in 1 .. Len(segments) /\ WellBuilt(segments, relocations)
    BY CurrentOK
  <1>2. CASE segments' = segments
    BY <1>2 DEF AccountStep
  <1>3. ASSUME NEW seg, Held(seg, relocations[Current]),
               segments' = [segments EXCEPT ![Current] = seg]
        PROVE  AccountStep
    <2>1. AllHeld([segments EXCEPT ![Current] = seg], relocations)
      BY <1>1, <1>3, SetHeld
    <2>2. QED
      BY <1>3, <2>1 DEF AccountStep
  <1>4. QED
    BY <1>2, <1>3

LEMMA SegHeld ==
  ASSUME LinkerInv, AllHeld(segments, relocations)
  PROVE  Seg \in Segments /\ Held(Seg, relocations[Current])
  BY CurrentOK DEF AllHeld, Seg

LEMMA ImportAccount ==
  ASSUME LinkerInv, AllHeld(segments, relocations), NEW b \in Binaries, Import(b)
  PROVE  AccountStep
  <1> DEFINE seg == Placed(Seg, b, Seg.size + Bin[b].len, {})
  <1>1. segments' = segments \/ segments' = [segments EXCEPT ![Current] = seg]
    BY DEF Import
  <1>2. relocations' = relocations /\ written' = written
    BY DEF Import
  <1>3. Seg \in Segments /\ Held(Seg, relocations[Current])
    BY SegHeld
  <1>4. /\ seg.placed = Seg.placed \cup {[file |-> b, begin |-> Seg.size]}
        /\ seg.relocs = Seg.relocs /\ seg.intersegs = Seg.intersegs
        /\ seg.patches = Seg.patches /\ seg.dropped = Seg.dropped
    BY <1>3 DEF Placed, Segments
  <1> HIDE DEF seg
  <1>5. ExternalsOf(seg) = ExternalsOf(Seg) /\ InternalsOf(seg) = InternalsOf(Seg)
    BY <1>4, PlacedBinary
  <1>6. Near(seg) = Near(Seg) /\ Inner(seg) = Inner(Seg)
    BY <1>4 DEF Near, Inner
  <1>7. Held(seg, relocations[Current])
    BY <1>3, <1>4, <1>5, <1>6 DEF Held
  <1>8. QED
    BY <1>1, <1>2, <1>7, ChangeAccount

LEMMA AttributeAccount ==
  ASSUME LinkerInv, AllHeld(segments, relocations), NEW value,
         Org(value) \/ Knd(value) \/ Ali(value) \/ Ds(value)
  PROVE  AccountStep
  <1>1. relocations' = relocations /\ written' = written
    BY DEF Org, Knd, Ali, Ds, Stores
  <1>2. Seg \in Segments /\ Held(Seg, relocations[Current])
    BY SegHeld
  <1> DEFINE org == [Seg EXCEPT !.org = value]
             kind == [Seg EXCEPT !.kind = value]
             alignment == [Seg EXCEPT !.alignment = value]
             space == [Seg EXCEPT !.reserved_space = value]
             Alike(seg) == /\ seg.placed = Seg.placed /\ seg.relocs = Seg.relocs
                           /\ seg.intersegs = Seg.intersegs /\ seg.patches = Seg.patches
                           /\ seg.dropped = Seg.dropped
  <1>3. \/ segments' = segments
        \/ segments' = [segments EXCEPT ![Current] = org]
        \/ segments' = [segments EXCEPT ![Current] = kind]
        \/ segments' = [segments EXCEPT ![Current] = alignment]
        \/ segments' = [segments EXCEPT ![Current] = space]
    BY DEF Org, Knd, Ali, Ds, Seg
  <1>4. Alike(org) /\ Alike(kind) /\ Alike(alignment) /\ Alike(space)
    BY <1>2 DEF Segments
  <1>5. ASSUME NEW seg, Alike(seg) PROVE Held(seg, relocations[Current])
    BY <1>2, <1>5, HeldSame
  <1> HIDE DEF org, kind, alignment, space, Alike
  <1>6. QED
    BY <1>1, <1>3, <1>4, <1>5, ChangeAccount

(* The calls that leave the segments and the files alone.                  *)
LEMMA OtherAccount ==
  ASSUME LinkerInv, AllHeld(segments, relocations),
         UNCHANGED <<segments, relocations, written>>
  PROVE  AccountStep
  BY DEF AccountStep

LEMMA CallAccount ==
  ASSUME LinkerInv, AllHeld(segments, relocations), Call
  PROVE  AccountStep
  <1>1. ASSUME NEW u \in Units, LinkUnit(u) \/ LinkFails(u) PROVE AccountStep
    BY <1>1, LinkUnitAccount, OtherAccount DEF LinkFails, progress
  <1>2. ASSUME NEW b \in Binaries, Import(b) \/ ImportFails(b) PROVE AccountStep
    BY <1>2, ImportAccount, OtherAccount DEF ImportFails, progress
  <1>3. ASSUME NEW path \in Outputs, Sav(path) PROVE AccountStep
    BY <1>3, SavAccount
  <1>4. ASSUME NEW value, Stored(value) PROVE AccountStep
    BY <1>4, OtherAccount DEF Stored, Lkv, Ver, Typ, Adr, Stores
  <1>5. ASSUME NEW value, Attributed(value) PROVE AccountStep
    BY <1>5, AttributeAccount DEF Attributed
  <1>6. ASSUME NEW name, Taken(name) PROVE AccountStep
    BY <1>6, OtherAccount DEF Taken, LenLabel, PosLabel, Ext, DefineLabel, progress
  <1>7. ASSUME NEW name, NEW value, Valued(name, value) PROVE AccountStep
    BY <1>7, OtherAccount DEF Valued, Equ, Eq, Geq, Kbd, DefineLabel, progress
  <1>8. CASE PosReset
    BY <1>8, OtherAccount DEF PosReset
  <1>9. QED
    BY <1>1, <1>2, <1>3, <1>4, <1>5, <1>6, <1>7, <1>8, EndLinkAccount DEF Call
-----------------------------------------------------------------------------
AccountInv ==
  /\ \E Files : written \in Seq(Files)
  /\ AllHeld(segments, relocations)
  /\ \A i \in DOMAIN written : Sound(written[i])

LEMMA StepAccount == LinkerInv /\ AccountInv /\ LinkerStep => AccountInv'
  <1> SUFFICES ASSUME LinkerInv, AccountInv, LinkerStep PROVE AccountInv'
    OBVIOUS
  <1>1. AccountStep
    <2>1. LinkerInv /\ AllHeld(segments, relocations)
      BY DEF AccountInv
    <2>2. QED
      BY <2>1, CallAccount, FinishFilesAccount, OtherAccount DEF LinkerStep, progress
  <1>2. CASE written' = written
    BY <1>1, <1>2 DEF AccountInv, AccountStep
  <1>3. ASSUME NEW out, Sound(out), written' = Append(written, out)
        PROVE  AccountInv'
    <2>1. PICK Files : written \in Seq(Files)
      BY DEF AccountInv
    <2>2. written \in Seq(Files \cup {out}) /\ Len(written) \in Nat
      BY <2>1
    <2>3. /\ written' \in Seq(Files \cup {out})
          /\ DOMAIN written = 1 .. Len(written) /\ DOMAIN written' = 1 .. Len(written) + 1
          /\ written'[Len(written) + 1] = out
          /\ \A i \in DOMAIN written : written'[i] = written[i]
      BY <1>3, <2>2
    <2>4. \A i \in DOMAIN written' : i = Len(written) + 1 \/ i \in DOMAIN written
      BY <2>2, <2>3
    <2>5. \A i \in DOMAIN written' : Sound(written'[i])
      BY <1>3, <2>3, <2>4 DEF AccountInv
    <2>6. QED
      BY <1>1, <2>3, <2>5 DEF AccountInv, AccountStep
  <1>4. QED
    BY <1>1, <1>2, <1>3 DEF AccountStep

LEMMA InitAccount == LinkerInit => AccountInv
  <1> SUFFICES ASSUME LinkerInit PROVE AccountInv
    OBVIOUS
  <1>1. written = <<>> /\ segments = <<NewSegment(1, 1)>> /\ relocations = <<{}>>
    BY DEF LinkerInit
  <1>2. /\ Len(segments) = 1 /\ segments[1] = NewSegment(1, 1) /\ relocations[1] = {}
        /\ written \in Seq({}) /\ DOMAIN written = {}
    BY <1>1
  <1>3. AllHeld(segments, relocations)
    <2>1. Held(NewSegment(1, 1), {})
      BY NewSegmentHeld
    <2>2. ASSUME NEW ix \in 1 .. Len(segments) PROVE Held(segments[ix], relocations[ix])
      <3>1. ix = 1
        BY <1>2
      <3>2. segments[ix] = NewSegment(1, 1) /\ relocations[ix] = {}
        BY <1>2, <3>1
      <3>3. QED
        BY <2>1, <3>2
    <2>3. QED
      BY <2>2 DEF AllHeld
  <1>4. QED
    BY <1>2, <1>3 DEF AccountInv

LEMMA InvAccount == LinkerInv /\ AccountInv => ReferencesAccounted /\ HandedOver
  <1> SUFFICES ASSUME LinkerInv, AccountInv PROVE ReferencesAccounted /\ HandedOver
    OBVIOUS
  <1>1. DOMAIN segments = 1 .. Len(segments)
    BY DEF LinkerInv, WellBuilt
  <1>2. ASSUME NEW ix \in DOMAIN segments PROVE Accounted(segments[ix], relocations[ix])
    <2>1. Held(segments[ix], relocations[ix])
      BY <1>1 DEF AccountInv, AllHeld
    <2>2. QED
      BY <2>1, HeldIsAccounted
  <1>3. ReferencesAccounted
    BY <1>2 DEF AccountInv, Sound, ReferencesAccounted
  <1>4. HandedOver
    BY DEF AccountInv, Sound, HandedOver
  <1>5. QED
    BY <1>3, <1>4

LEMMA AlwaysAccount == LinkerSpec => [](ReferencesAccounted /\ HandedOver)
  <1>1. LinkerInit => LinkerInv /\ AccountInv
    BY InitOK, InitAccount
  <1>2. (LinkerInv /\ AccountInv) /\ [LinkerNext]_linkerVars => (LinkerInv /\ AccountInv)'
    BY NextSteps, StepOK, StepAccount
  <1>3. QED
    BY <1>1, <1>2, InvAccount, PTL DEF LinkerSpec

(* Every reference of every file placed in a segment is pending,           *)
(* relocated, intersegment, patched or reported undefined, and only one of *)
(* these, in the segments and in the files, for every set of files and     *)
(* after every exception.  (process_unit, resolve)                         *)
THEOREM NoReferenceLost == LinkerSpec => []ReferencesAccounted
  BY AlwaysAccount, PTL

(* What the writers are given is in order and refers only to bytes that    *)
(* are there, for every set of files.  (finish, finish3)                   *)
THEOREM WritersGivenOrder == LinkerSpec => []HandedOver
  BY AlwaysAccount, PTL
-----------------------------------------------------------------------------
(* The references that seg has relocated carry the segment and the value   *)
(* of their symbol, and the symbols whose home seg is stand in its data.   *)
Bindings(seg) == {link \in seg.relocs \cup seg.intersegs : link.ref.sym # Itself}

Carries(table, link) ==
  /\ link.ref.sym \in DOMAIN table
  /\ table[link.ref.sym].defined
  /\ link.segment = table[link.ref.sym].segment
  /\ link.value - link.ref.addend = table[link.ref.sym].value

Stands(table, n, seg) ==
  table[n].home = seg.number => /\ table[n].segment = seg.segnum
                                /\ table[n].value \in PlacesOf(n, seg)

Grounded(table, seg) ==
  /\ seg.number # 0
  /\ \A link \in Bindings(seg) : Carries(table, link)
  /\ \A n \in DOMAIN table : Stands(table, n, seg)

AllGrounded(table, segs) == \A ix \in DOMAIN segs : Grounded(table, segs[ix])

(* A symbol without a definition in the data of a segment has home 0.      *)
Homes ==
  \A n \in DOMAIN symbol_table :
    /\ symbol_table[n].home <= made
    /\ ~symbol_table[n].defined => symbol_table[n].home = 0

BindInv ==
  /\ Homes
  /\ AllGrounded(symbol_table, segments)
  /\ \A i \in DOMAIN written : AllGrounded(symbol_table, written[i].segs)

LEMMA BindShows == BindInv => BindsToDefinition
  <1> SUFFICES ASSUME BindInv,
                      NEW i \in DOMAIN written,
                      NEW k \in DOMAIN written[i].segs, NEW h \in DOMAIN written[i].segs,
                      NEW link \in written[i].segs[k].relocs \cup written[i].segs[k].intersegs,
                      link.ref.sym # Itself,
                      symbol_table[link.ref.sym].home = written[i].segs[h].number
               PROVE  /\ link.segment = written[i].segs[h].segnum
                      /\ link.value - link.ref.addend
                           \in PlacesOf(link.ref.sym, written[i].segs[h])
    BY DEF BindsToDefinition
  <1>1. Grounded(symbol_table, written[i].segs[k]) /\ Grounded(symbol_table, written[i].segs[h])
    BY DEF BindInv, AllGrounded
  <1>2. Carries(symbol_table, link)
    BY <1>1 DEF Grounded, Bindings
  <1>3. Stands(symbol_table, link.ref.sym, written[i].segs[h])
    BY <1>1, <1>2 DEF Grounded, Carries
  <1>4. QED
    BY <1>2, <1>3 DEF Carries, Stands
-----------------------------------------------------------------------------
(* One segment through the operations on it.                               *)
LEMMA PlacesGrow ==
  ASSUME NEW n, NEW old, NEW seg, old.placed \subseteq seg.placed
  PROVE  PlacesOf(n, old) \subseteq PlacesOf(n, seg)
  BY DEF PlacesOf

LEMMA GroundedSame ==
  ASSUME NEW table, NEW old, Grounded(table, old),
         NEW seg, seg.number = old.number, seg.segnum = old.segnum,
         old.placed \subseteq seg.placed,
         \A link \in Bindings(seg) : link \in Bindings(old) \/ Carries(table, link)
  PROVE  Grounded(table, seg)
  <1>1. seg.number # 0 /\ \A link \in Bindings(seg) : Carries(table, link)
    BY DEF Grounded
  <1>2. ASSUME NEW n \in DOMAIN table PROVE Stands(table, n, seg)
    <2>1. Stands(table, n, old)
      BY DEF Grounded
    <2>2. QED
      BY <2>1, PlacesGrow DEF Stands
  <1>3. QED
    BY <1>1, <1>2 DEF Grounded

(* A reference to a relocatable symbol is given its segment and value.     *)
LEMMA LinkCarries ==
  ASSUME SymbolTypeOK, NEW pending \in SUBSET RefRecords, NEW ref \in Relocatable(pending)
  PROVE  Carries(symbol_table, Link(ref))
  <1>1. ref \in RefRecords /\ Lookup(ref.sym).defined
    BY DEF Relocatable, Undefined
  <1>2. Known(ref.sym) /\ Lookup(ref.sym) = symbol_table[ref.sym]
    BY <1>1 DEF Lookup, NewSymbol
  <1>3. Lookup(ref.sym) \in Symbol
    BY LookupType
  <1>4. ref.addend \in Int /\ Lookup(ref.sym).value \in Int
    BY <1>1, <1>3 DEF RefRecords, Symbol
  <1>5. /\ Link(ref).ref = ref /\ Link(ref).segment = Lookup(ref.sym).segment
        /\ Link(ref).value = ref.addend + Lookup(ref.sym).value
    BY DEF Link, Bound
  <1>6. QED
    BY <1>1, <1>2, <1>4, <1>5 DEF Carries, Known

LEMMA LinksCarry ==
  ASSUME SymbolTypeOK, NEW pending \in SUBSET RefRecords, NEW segnum, NEW same,
         NEW link \in LinksOf(pending, segnum, same)
  PROVE  Carries(symbol_table, link)
  <1>1. PICK ref \in Relocatable(pending) : link = Link(ref)
    BY DEF LinksOf
  <1>2. QED
    BY <1>1, LinkCarries

LEMMA ResolvedGrounded ==
  ASSUME SymbolTypeOK, NEW seg \in Segments, Grounded(symbol_table, seg),
         NEW pending \in SUBSET RefRecords, NEW allow
  PROVE  Grounded(symbol_table, ResolvedSegment(seg, pending, allow))
  <1> DEFINE done == ResolvedSegment(seg, pending, allow)
             near == LinksOf(pending, seg.segnum, TRUE)
             far == LinksOf(pending, seg.segnum, FALSE)
  <1>1. /\ done.number = seg.number /\ done.segnum = seg.segnum /\ done.placed = seg.placed
        /\ done.relocs = seg.relocs \cup near /\ done.intersegs = seg.intersegs \cup far
    BY DEF ResolvedSegment, Segments
  <1>2. \A link \in near \cup far : Carries(symbol_table, link)
    BY LinksCarry
  <1> HIDE DEF done, near, far
  <1>3. \A link \in Bindings(done) : link \in Bindings(seg) \/ Carries(symbol_table, link)
    BY <1>1, <1>2 DEF Bindings
  <1>4. Grounded(symbol_table, done)
    BY <1>1, <1>3, GroundedSame
  <1>5. QED
    BY <1>4 DEF done

LEMMA AllResolvedGrounded ==
  ASSUME SymbolTypeOK, NEW segs, NEW rels, WellBuilt(segs, rels),
         AllGrounded(symbol_table, segs), NEW allow
  PROVE  AllGrounded(symbol_table, Resolved(segs, rels, allow))
  <1> DEFINE t == Resolved(segs, rels, allow)
  <1>1. /\ segs \in Seq(Segments) /\ DOMAIN segs = 1 .. Len(segs)
        /\ rels \in Seq(SUBSET RefRecords) /\ Len(rels) = Len(segs)
    BY DEF WellBuilt
  <1>2. ASSUME NEW ix \in DOMAIN segs PROVE Grounded(symbol_table, t[ix])
    <2>1. segs[ix] \in Segments /\ Grounded(symbol_table, segs[ix])
          /\ rels[ix] \in SUBSET RefRecords
      BY <1>1 DEF AllGrounded
    <2>2. t[ix] = segs[ix] \/ t[ix] = ResolvedSegment(segs[ix], rels[ix], allow)
      BY DEF Resolved
    <2>3. QED
      BY <2>1, <2>2, ResolvedGrounded
  <1>3. DOMAIN t = DOMAIN segs
    BY DEF Resolved
  <1>4. QED
    BY <1>2, <1>3 DEF AllGrounded

(* The vectors.                                                            *)
LEMMA SetGrounded ==
  ASSUME NEW table, NEW segs \in Seq(Segments), AllGrounded(table, segs),
         NEW k \in 1 .. Len(segs), NEW seg, Grounded(table, seg)
  PROVE  AllGrounded(table, [segs EXCEPT ![k] = seg])
  BY DEF AllGrounded

(* A segment whose attributes were set.                                    *)
LEMMA AttributesGrounded ==
  ASSUME NEW table, NEW old, Grounded(table, old),
         NEW seg, seg.number = old.number, seg.segnum = old.segnum,
         seg.placed = old.placed, seg.relocs = old.relocs, seg.intersegs = old.intersegs
  PROVE  Grounded(table, seg)
  <1>1. \A link \in Bindings(seg) : link \in Bindings(old)
    BY DEF Bindings
  <1>2. QED
    BY <1>1, GroundedSame

LEMMA NamedGrounded ==
  ASSUME LinkerInv, NEW table, AllGrounded(table, segments), NEW path
  PROVE  AllGrounded(table, Named(path))
  <1>1. Seg \in Segments /\ Seg = segments[Current] /\ segments \in Seq(Segments)
        /\ Current \in 1 .. Len(segments) /\ Current \in DOMAIN segments
        /\ DOMAIN segments = 1 .. Len(segments) /\ Current = Len(segments)
    BY Segs
  <1> DEFINE seg == [Seg EXCEPT !.segname = basename(path), !.loadname = LoadName(path)]
  <1>2. Named(path) = segments \/ Named(path) = [segments EXCEPT ![Current] = seg]
    BY DEF Named, Seg
  <1>3. /\ seg.number = Seg.number /\ seg.segnum = Seg.segnum /\ seg.placed = Seg.placed
        /\ seg.relocs = Seg.relocs /\ seg.intersegs = Seg.intersegs
    BY <1>1 DEF Segments
  <1> HIDE DEF seg
  <1>4. Grounded(table, Seg)
    BY <1>1 DEF AllGrounded
  <1>5. Grounded(table, seg)
    BY <1>3, <1>4, AttributesGrounded
  <1>6. AllGrounded(table, [segments EXCEPT ![Current] = seg])
    BY <1>1, <1>5, SetGrounded
  <1>7. QED
    BY <1>2, <1>6

LEMMA AllButLastGrounded ==
  ASSUME NEW table, NEW segs \in Seq(Segments), Len(segs) >= 1, AllGrounded(table, segs)
  PROVE  AllGrounded(table, AllButLast(segs))
  <1>1. /\ DOMAIN AllButLast(segs) = 1 .. Len(segs) - 1
        /\ \A ix \in 1 .. Len(segs) - 1 : /\ AllButLast(segs)[ix] = segs[ix]
                                          /\ ix \in DOMAIN segs
    BY DEF AllButLast
  <1>2. QED
    BY <1>1 DEF AllGrounded

LEMMA AppendGrounded ==
  ASSUME made \in Nat, SymbolTypeOK, Homes, NEW segs \in Seq(Segments), NEW rels,
         AllGrounded(symbol_table, segs), AppendSegment(segs, rels)
  PROVE  AllGrounded(symbol_table, segments')
  <1> DEFINE seg == NewSegment(made + 1, Len(segs) + 1)
  <1>1. Len(segs) \in Nat /\ DOMAIN segs = 1 .. Len(segs) /\ seg \in Segments
    BY NewSegmentType
  <1>2. seg.number = made + 1 /\ seg.relocs = {} /\ seg.intersegs = {}
    BY DEF NewSegment
  <1>3. segments' = Append(segs, seg)
    BY DEF AppendSegment
  <1> HIDE DEF seg
  <1>4. /\ DOMAIN segments' = 1 .. Len(segs) + 1
        /\ segments'[Len(segs) + 1] = seg
        /\ \A k \in 1 .. Len(segs) : segments'[k] = segs[k]
    BY <1>1, <1>3
  <1>5. Grounded(symbol_table, seg)
    <2>1. Bindings(seg) = {} /\ seg.number # 0
      BY <1>2 DEF Bindings
    <2>2. \A n \in DOMAIN symbol_table : symbol_table[n].home # seg.number
      BY <1>2 DEF Homes, SymbolTypeOK, Symbol
    <2>3. QED
      BY <2>1, <2>2 DEF Grounded, Stands
  <1>6. QED
    BY <1>1, <1>4, <1>5 DEF AllGrounded

LEMMA StartOverGrounded ==
  ASSUME made \in Nat, SymbolTypeOK, Homes, StartOver
  PROVE  AllGrounded(symbol_table, segments')
  <1>1. <<>> \in Seq(Segments) /\ AllGrounded(symbol_table, <<>>)
    BY DEF AllGrounded
  <1>2. QED
    BY <1>1, AppendGrounded DEF StartOver

LEMMA ThrowGrounded ==
  ASSUME LinkerInv, NEW segs, NEW rels, WellBuilt(segs, rels), Len(segs) >= 1,
         AllGrounded(symbol_table, segs), NEW allow \in BOOLEAN,
         ResolveThrows(segs, rels, allow) \/ Finish3Throws(segs, rels)
  PROVE  AllGrounded(symbol_table, segments')
  <1>1. segs \in Seq(Segments) /\ SymbolTypeOK
    BY DEF WellBuilt, LinkerInv
  <1>2. CASE ResolveThrows(segs, rels, allow)
    BY <1>1, <1>2, AllResolvedGrounded DEF ResolveThrows
  <1>3. CASE Finish3Throws(segs, rels)
    <2> DEFINE t == Resolved(segs, rels, TRUE)
               last == Len(segs)
    <2>1. AllGrounded(symbol_table, t)
      BY <1>1, AllResolvedGrounded
    <2>2. PICK size \in EncodedSizes :
            segments' = [t EXCEPT ![last] = [t[last] EXCEPT !.size = size, !.encoded = TRUE]]
      BY <1>3 DEF Finish3Throws
    <2>3. t \in Seq(Segments) /\ Len(t) = last
      BY <1>1, ResolvedWellBuilt DEF WellBuilt
    <2>4. last \in Nat /\ last >= 1
      BY <1>1
    <2> DEFINE seg == [t[last] EXCEPT !.size = size, !.encoded = TRUE]
    <2> HIDE DEF t, last
    <2>5. last \in 1 .. Len(t) /\ last \in DOMAIN t /\ t[last] \in Segments
      BY <2>3, <2>4
    <2>6. /\ seg.number = t[last].number /\ seg.segnum = t[last].segnum
          /\ seg.placed = t[last].placed /\ seg.relocs = t[last].relocs
          /\ seg.intersegs = t[last].intersegs
      BY <2>5 DEF Segments
    <2>7. segments' = [t EXCEPT ![last] = seg]
      BY <2>2
    <2> HIDE DEF seg
    <2>8. Grounded(symbol_table, t[last])
      BY <2>1, <2>5 DEF AllGrounded
    <2>9. Grounded(symbol_table, seg)
      BY <2>6, <2>8, AttributesGrounded
    <2>10. QED
      BY <2>1, <2>3, <2>5, <2>7, <2>9, SetGrounded
  <1>4. QED
    BY <1>2, <1>3

(* What finish() and finish3() write.                                      *)
LEMMA FinishGrounded ==
  ASSUME SymbolTypeOK, NEW segs, NEW rels, WellBuilt(segs, rels), Len(segs) >= 1,
         AllGrounded(symbol_table, segs), NEW path,
         FinishWrites(path, segs, rels) \/ Finish3Writes(path, segs, rels)
  PROVE  \E out : AllGrounded(symbol_table, out.segs) /\ written' = Append(written, out)
  <1> DEFINE t(allow) == Resolved(segs, rels, allow)
             last == Len(segs)
  <1>1. segs \in Seq(Segments)
    BY DEF WellBuilt
  <1>2. /\ last \in DOMAIN segs
        /\ \A allow : /\ DOMAIN t(allow) = DOMAIN segs /\ Len(t(allow)) = last
                      /\ AllGrounded(symbol_table, t(allow))
    BY <1>1, ResolvedNumbers, AllResolvedGrounded
  <1>3. ASSUME NEW allow PROVE AllGrounded(symbol_table, <<t(allow)[last]>>)
    <2> DEFINE held == <<t(allow)[last]>>
    <2>1. DOMAIN held = {1} /\ held[1] = t(allow)[last]
      OBVIOUS
    <2>2. Grounded(symbol_table, t(allow)[last])
      BY <1>2 DEF AllGrounded
    <2> HIDE DEF held, t, last
    <2>3. AllGrounded(symbol_table, held)
      BY <2>1, <2>2 DEF AllGrounded
    <2>4. QED
      BY <2>3 DEF held
  <1>4. \E segs2, form, unresolved, ftype, atype :
          /\ AllGrounded(symbol_table, segs2)
          /\ Writes(path, form, segs2, unresolved, ftype, atype)
    BY <1>2, <1>3 DEF FinishWrites, Finish3Writes
  <1>5. QED
    BY <1>4 DEF Writes
-----------------------------------------------------------------------------
(* A step that leaves the symbols alone.                                   *)
FilesGrounded(t) == \/ written' = written
            \/ \E out : AllGrounded(t, out.segs) /\ written' = Append(written, out)

QuietStep ==
  /\ symbol_table' = symbol_table
  /\ made' = made \/ made' = made + 1
  /\ AllGrounded(symbol_table, segments')
  /\ FilesGrounded(symbol_table)

LEMMA QuietBinds ==
  ASSUME LinkerInv, OnceInv, BindInv, QuietStep
  PROVE  BindInv'
  <1>1. made \in Nat /\ SymbolTypeOK
    BY DEF LinkerInv, RestTypeOK
  <1>2. Homes'
    <2>1. \A n \in DOMAIN symbol_table : symbol_table[n].home \in Nat
      BY <1>1 DEF SymbolTypeOK, Symbol
    <2>2. \A n \in DOMAIN symbol_table : symbol_table[n].home <= made'
      BY <1>1, <2>1 DEF QuietStep, BindInv, Homes
    <2>3. QED
      BY <2>2 DEF QuietStep, BindInv, Homes
  <1>3. AllGrounded(symbol_table', segments')
    BY DEF QuietStep
  <1>4. ASSUME NEW i \in DOMAIN written' PROVE AllGrounded(symbol_table', written'[i].segs)
    <2>1. CASE written' = written
      BY <2>1 DEF BindInv, QuietStep
    <2>2. ASSUME NEW out, AllGrounded(symbol_table, out.segs), written' = Append(written, out)
          PROVE  AllGrounded(symbol_table', written'[i].segs)
      <3>1. PICK Earlier : written \in Seq(Earlier)
        BY DEF OnceInv
      <3>2. written \in Seq(Earlier \cup {out})
        BY <3>1
      <3>3. (i \in DOMAIN written /\ written'[i] = written[i]) \/ written'[i] = out
        BY <2>2, <3>2
      <3>4. QED
        BY <2>2, <3>3 DEF BindInv, QuietStep
    <2>3. QED
      BY <2>1, <2>2 DEF QuietStep, FilesGrounded
  <1>5. QED
    BY <1>2, <1>3, <1>4 DEF BindInv, AllGrounded

(* A step that gives the current segment more, and symbols definitions:    *)
(* absolute ones, and ones at a place in the current segment.              *)
Enters(table, n, seg) ==
  \/ table[n].home = 0
  \/ n \in DOMAIN symbol_table /\ table[n] = symbol_table[n]
  \/ /\ table[n].defined
     /\ table[n].home = Seg.number
     /\ table[n].segment = Seg.segnum
     /\ table[n].value \in PlacesOf(n, seg)

TableStep(seg) ==
  /\ \A n \in DOMAIN symbol_table :
       symbol_table[n].defined => /\ n \in DOMAIN symbol_table'
                                  /\ symbol_table'[n] = symbol_table[n]
  /\ \A n \in DOMAIN symbol_table' : Enters(symbol_table', n, seg)

LEMMA CarriesStay ==
  ASSUME NEW table, NEW link, Carries(symbol_table, link),
         \A n \in DOMAIN symbol_table :
           symbol_table[n].defined => n \in DOMAIN table /\ table[n] = symbol_table[n]
  PROVE  Carries(table, link)
  BY DEF Carries

LEMMA OthersGrounded ==
  ASSUME NEW now, TableStep(now), NEW seg, Grounded(symbol_table, seg),
         seg.number # Seg.number
  PROVE  Grounded(symbol_table', seg)
  <1>1. \A link \in Bindings(seg) : Carries(symbol_table', link)
    BY CarriesStay DEF Grounded, TableStep
  <1>2. ASSUME NEW n \in DOMAIN symbol_table' PROVE Stands(symbol_table', n, seg)
    <2>1. seg.number # 0 /\ Enters(symbol_table', n, now)
      BY DEF Grounded, TableStep
    <2>2. CASE n \in DOMAIN symbol_table /\ symbol_table'[n] = symbol_table[n]
      BY <2>2 DEF Grounded, Stands
    <2>3. CASE symbol_table'[n].home # seg.number
      BY <2>3 DEF Stands
    <2>4. QED
      BY <2>1, <2>2, <2>3 DEF Enters
  <1>3. QED
    BY <1>1, <1>2 DEF Grounded

LEMMA CurrentGrounded ==
  ASSUME Grounded(symbol_table, Seg), NEW seg, TableStep(seg),
         seg.number = Seg.number, seg.segnum = Seg.segnum, Seg.placed \subseteq seg.placed,
         Bindings(seg) \subseteq Bindings(Seg)
  PROVE  Grounded(symbol_table', seg)
  <1>1. \A link \in Bindings(seg) : Carries(symbol_table', link)
    BY CarriesStay DEF Grounded, TableStep
  <1>2. ASSUME NEW n \in DOMAIN symbol_table' PROVE Stands(symbol_table', n, seg)
    <2>1. seg.number # 0 /\ Enters(symbol_table', n, seg)
      BY DEF Grounded, TableStep
    <2>2. CASE n \in DOMAIN symbol_table /\ symbol_table'[n] = symbol_table[n]
      <3>1. Stands(symbol_table, n, Seg)
        BY <2>2 DEF Grounded
      <3>2. PlacesOf(n, Seg) \subseteq PlacesOf(n, seg)
        BY PlacesGrow
      <3>3. QED
        BY <2>2, <3>1, <3>2 DEF Stands
    <2>3. CASE symbol_table'[n].home # seg.number
      BY <2>3 DEF Stands
    <2>4. QED
      BY <2>1, <2>2, <2>3 DEF Enters, Stands
  <1>3. QED
    BY <1>1, <1>2 DEF Grounded

LEMMA ChangeBinds ==
  ASSUME LinkerInv, SymbolTypeOK', OnceInv, Distinct(segments), BindInv, exited = Running,
         NEW seg, TableStep(seg),
         seg.number = Seg.number, seg.segnum = Seg.segnum, Seg.placed \subseteq seg.placed,
         Bindings(seg) \subseteq Bindings(Seg),
         segments' = [segments EXCEPT ![Current] = seg],
         written' = written, made' = made
  PROVE  BindInv'
  <1>1. /\ DOMAIN segments = 1 .. Len(segments) /\ Current \in DOMAIN segments
        /\ Seg = segments[Current] /\ made \in Nat /\ Seg.number \in Nat
    BY Segs, CurrentOK
  <1>2. Seg.number <= made
    BY <1>1 DEF OnceInv, Below, Numbers
  <1>3. Homes'
    <2>1. ASSUME NEW n \in DOMAIN symbol_table'
          PROVE  /\ symbol_table'[n].home <= made'
                 /\ ~symbol_table'[n].defined => symbol_table'[n].home = 0
      <3>1. Enters(symbol_table', n, seg)
        BY DEF TableStep
      <3>2. QED
        BY <1>1, <1>2, <3>1 DEF Enters, BindInv, Homes
    <2>2. QED
      BY <2>1 DEF Homes
  <1>4. AllGrounded(symbol_table', segments')
    <2>1. ASSUME NEW ix \in DOMAIN segments' PROVE Grounded(symbol_table', segments'[ix])
      <3>1. ix \in DOMAIN segments /\ Grounded(symbol_table, segments[ix])
        BY DEF BindInv, AllGrounded
      <3>2. CASE ix = Current
        BY <1>1, <3>1, <3>2, CurrentGrounded
      <3>3. CASE ix # Current
        <4>1. segments'[ix] = segments[ix] /\ segments[ix].number # Seg.number
          BY <1>1, <3>1, <3>3 DEF Distinct
        <4>2. QED
          BY <3>1, <4>1, OthersGrounded
      <3>4. QED
        BY <3>2, <3>3
    <2>2. QED
      BY <2>1 DEF AllGrounded
  <1>5. ASSUME NEW i \in DOMAIN written' PROVE AllGrounded(symbol_table', written'[i].segs)
    <2>1. /\ i \in DOMAIN written /\ AllGrounded(symbol_table, written[i].segs)
          /\ Numbers(written[i].segs) \cap Numbers(segments) = {}
      BY DEF BindInv, OnceInv, WrittenOnce
    <2>2. ASSUME NEW k \in DOMAIN written[i].segs
          PROVE  Grounded(symbol_table', written[i].segs[k])
      <3>1. written[i].segs[k].number # Seg.number
        BY <1>1, <2>1 DEF Numbers
      <3>2. QED
        BY <2>1, <3>1, OthersGrounded DEF AllGrounded
    <2>3. QED
      BY <2>2 DEF AllGrounded
  <1>6. QED
    BY <1>3, <1>4, <1>5 DEF BindInv, AllGrounded
-----------------------------------------------------------------------------
(* The calls that define symbols.                                          *)
LEMMA InsertedSteps ==
  ASSUME NEW E, NEW entries, DOMAIN entries = E, NEW seg,
         \A n \in E : \/ entries[n] = Lookup(n) /\ (Known(n) \/ entries[n].home = 0)
                      \/ ~Lookup(n).defined /\ Enters(entries, n, seg),
         symbol_table' = Inserted(entries)
  PROVE  TableStep(seg)
  <1>1. \A n \in E : Lookup(n).defined => entries[n] = Lookup(n)
    OBVIOUS
  <1>2. \A n \in DOMAIN symbol_table :
          symbol_table[n].defined => /\ n \in DOMAIN symbol_table'
                                     /\ symbol_table'[n] = symbol_table[n]
    BY <1>1, InsertedKeeps
  <1>3. ASSUME NEW n \in DOMAIN symbol_table' PROVE Enters(symbol_table', n, seg)
    <2>1. CASE n \in E
      <3>1. symbol_table'[n] = entries[n]
        BY <2>1 DEF Inserted
      <3>2. CASE entries[n] = Lookup(n) /\ (Known(n) \/ entries[n].home = 0)
        BY <3>1, <3>2 DEF Enters, Lookup, Known
      <3>3. CASE Enters(entries, n, seg)
        BY <3>1, <3>3 DEF Enters
      <3>4. QED
        BY <2>1, <3>2, <3>3
    <2>2. CASE n \notin E
      <3>1. n \in DOMAIN symbol_table /\ symbol_table'[n] = symbol_table[n]
        BY <2>2 DEF Inserted
      <3>2. QED
        BY <3>1 DEF Enters
    <2>3. QED
      BY <2>1, <2>2
  <1>4. QED
    BY <1>2, <1>3 DEF TableStep

LEMMA LinkUnitBinds ==
  ASSUME LinkerInv, LinkerInv', OnceInv, Distinct(segments), BindInv, exited = Running,
         NEW u \in Units, LinkUnit(u)
  PROVE  BindInv'
  <1> DEFINE unit == Rel[u]
             begin == Seg.size
             inner == {Internal(ref, begin) : ref \in ReferencesOf(unit, begin, FALSE)}
             seg == Placed(Seg, u, SizeAfter(unit, begin), inner)
             entries == [n \in DOMAIN unit.labels |->
                           Labelled(Lookup(n), unit.labels[n], begin)]
  <1>1. /\ Seg \in Segments /\ begin \in Nat /\ SymbolTypeOK /\ SymbolTypeOK'
        /\ unit.labels \in [DOMAIN unit.labels -> Label]
    BY CurrentOK, RelAssumption DEF LinkerInv, WellFormed
  <1>2. /\ seg.number = Seg.number /\ seg.segnum = Seg.segnum
        /\ seg.placed = Seg.placed \cup {[file |-> u, begin |-> begin]}
        /\ seg.relocs = Seg.relocs \cup inner /\ seg.intersegs = Seg.intersegs
    BY <1>1 DEF Placed, Segments
  <1>3. \A link \in inner : link.ref.sym = Itself
    <2>1. ASSUME NEW ref \in ReferencesOf(unit, begin, FALSE) PROVE ref.sym = Itself
      <3>1. PICK i \in Processed(unit) : /\ unit.records[i].external = FALSE
                                        /\ ref \in References(unit.records[i], begin)
        BY DEF ReferencesOf
      <3>2. QED
        BY <3>1 DEF References, Reference
    <2>2. ASSUME NEW link \in inner PROVE link.ref.sym = Itself
      <3>1. PICK ref \in ReferencesOf(unit, begin, FALSE) : link = Internal(ref, begin)
        BY <2>2
      <3>2. link.ref = ref
        BY <3>1 DEF Internal, Bound
      <3>3. QED
        BY <2>1, <3>2
    <2>3. QED
      BY <2>2
  <1>4. Bindings(seg) \subseteq Bindings(Seg)
    <2> HIDE DEF inner, seg
    <2>1. QED
      BY <1>2, <1>3 DEF Bindings
  <1>5. /\ symbol_table' = Inserted(entries)
        /\ segments' = [segments EXCEPT ![Current] = seg]
        /\ written' = written /\ made' = made
    BY DEF LinkUnit
  <1>6. ASSUME NEW n \in DOMAIN unit.labels
        PROVE  \/ entries[n] = Lookup(n) /\ (Known(n) \/ entries[n].home = 0)
               \/ ~Lookup(n).defined /\ Enters(entries, n, seg)
    <2> DEFINE label == unit.labels[n]
    <2>1. label \in Label /\ Lookup(n) \in Symbol /\ entries[n] = Labelled(Lookup(n), label, begin)
      BY <1>1, LookupType
    <2>2. Known(n) \/ Lookup(n).home = 0
      BY DEF Lookup, NewSymbol
    <2>3. ~Lookup(n).defined => Lookup(n).home = 0
      BY DEF BindInv, Homes, Lookup, Known, NewSymbol
    <2> HIDE DEF entries
    <2>4. CASE label.kind = "external" \/ Lookup(n).defined
      BY <2>1, <2>2, <2>4 DEF Labelled
    <2>5. CASE ~(label.kind = "external" \/ Lookup(n).defined) /\ label.kind = "absolute"
      <3>1. entries[n].home = Lookup(n).home
        BY <2>1, <2>5 DEF Labelled, Symbol
      <3>2. QED
        BY <2>3, <2>5, <3>1 DEF Enters
    <2>6. CASE ~(label.kind = "external" \/ Lookup(n).defined) /\ label.kind # "absolute"
      <3>1. label.kind = "entry"
        BY <2>1, <2>6 DEF Label, LabelKinds
      <3>2. /\ entries[n].defined /\ entries[n].home = Seg.number
            /\ entries[n].segment = Seg.segnum
            /\ entries[n].value = label.value + begin
        BY <2>1, <2>6 DEF Labelled, Symbol
      <3>3. begin + label.value \in PlacesOf(n, seg)
        <4> DEFINE p == [file |-> u, begin |-> begin]
        <4>1. p \in seg.placed /\ p.file = u /\ p.begin = begin
          BY <1>2
        <4> HIDE DEF p, seg, begin
        <4>2. p \in {q \in seg.placed : /\ q.file \in Units
                                        /\ n \in LabelsOf(q.file)
                                        /\ Rel[q.file].labels[n].kind = "entry"}
          BY <3>1, <4>1 DEF LabelsOf
        <4>3. p.begin + Rel[p.file].labels[n].value \in PlacesOf(n, seg)
          BY <4>2 DEF PlacesOf
        <4>4. QED
          BY <4>1, <4>3
      <3>4. label.value + begin = begin + label.value
        BY <1>1, <2>1 DEF Label
      <3>5. QED
        BY <2>6, <3>2, <3>3, <3>4 DEF Enters
    <2>7. QED
      BY <2>4, <2>5, <2>6
  <1>7. TableStep(seg)
    <2>1. DOMAIN entries = DOMAIN unit.labels
      OBVIOUS
    <2> HIDE DEF entries, seg
    <2>2. QED
      BY <1>5, <1>6, <2>1, InsertedSteps
  <1>8. Seg.placed \subseteq seg.placed
    BY <1>2
  <1> HIDE DEF seg
  <1>9. QED
    BY <1>1, <1>2, <1>4, <1>5, <1>7, <1>8, ChangeBinds

LEMMA ImportBinds ==
  ASSUME LinkerInv, LinkerInv', OnceInv, Distinct(segments), BindInv, exited = Running,
         NEW b \in Binaries, Import(b)
  PROVE  BindInv'
  <1> DEFINE name == EntryName[basename(b)]
             begin == Seg.size
             seg == Placed(Seg, b, begin + Bin[b].len, {})
             entry == [n \in {name} |->
                         [Lookup(n) EXCEPT !.defined = TRUE, !.value = Seg.size,
                                           !.segment = Seg.segnum, !.home = Seg.number]]
  <1>1. Seg \in Segments /\ SymbolTypeOK /\ SymbolTypeOK' /\ Lookup(name) \in Symbol
    BY CurrentOK, LookupType DEF LinkerInv
  <1>2. CASE Lookup(name).defined
    BY <1>2 DEF Import, BindInv, Homes
  <1>3. CASE ~Lookup(name).defined
    <2>1. /\ symbol_table' = Inserted(entry)
          /\ segments' = [segments EXCEPT ![Current] = seg]
          /\ written' = written /\ made' = made
      BY <1>3 DEF Import
    <2>2. /\ seg.number = Seg.number /\ seg.segnum = Seg.segnum
          /\ seg.placed = Seg.placed \cup {[file |-> b, begin |-> begin]}
          /\ seg.relocs = Seg.relocs /\ seg.intersegs = Seg.intersegs
      BY <1>1 DEF Placed, Segments
    <2>3. /\ entry[name].defined /\ entry[name].home = Seg.number
          /\ entry[name].segment = Seg.segnum /\ entry[name].value = begin
      BY <1>1 DEF Symbol
    <2>4. DOMAIN entry = {name}
      OBVIOUS
    <2> HIDE DEF entry, seg
    <2>5. begin \in PlacesOf(name, seg)
      <3> DEFINE p == [file |-> b, begin |-> begin]
      <3>1. p \in seg.placed /\ p.file = b /\ p.begin = begin
        BY <2>2
      <3> HIDE DEF p, begin
      <3>2. QED
        BY <3>1 DEF PlacesOf
    <2>6. \A n \in {name} : ~Lookup(n).defined /\ Enters(entry, n, seg)
      BY <1>3, <2>3, <2>5 DEF Enters
    <2>7. TableStep(seg)
      BY <2>1, <2>4, <2>6, InsertedSteps
    <2>8. Seg.placed \subseteq seg.placed /\ Bindings(seg) \subseteq Bindings(Seg)
      BY <2>2 DEF Bindings
    <2>9. QED
      BY <1>1, <2>1, <2>2, <2>7, <2>8, ChangeBinds
  <1>4. QED
    BY <1>2, <1>3

LEMMA DefineBinds ==
  ASSUME LinkerInv, LinkerInv', OnceInv, Distinct(segments), BindInv, exited = Running,
         NEW name, NEW value, NEW type, DefineLabel(name, value, type)
  PROVE  BindInv'
  <1>1. /\ segments \in Seq(Segments) /\ Current \in DOMAIN segments /\ Seg = segments[Current]
        /\ SymbolTypeOK /\ SymbolTypeOK'
    BY Segs DEF LinkerInv
  <1>2. segments' = segments /\ written' = written /\ made' = made
    BY DEF DefineLabel, progress
  <1>3. segments' = [segments EXCEPT ![Current] = Seg]
    BY <1>1, <1>2
  <1> DEFINE entry == [n \in {name} |-> Equate(Lookup(n), value)]
  <1>4. symbol_table' = symbol_table \/ symbol_table' = Inserted(entry)
    BY DEF DefineLabel, Define
  <1>5. \/ entry[name] = Lookup(name) /\ (Known(name) \/ entry[name].home = 0)
        \/ ~Lookup(name).defined /\ Enters(entry, name, Seg)
    <2>1. Lookup(name) \in Symbol /\ entry[name] = Equate(Lookup(name), value)
      BY <1>1, LookupType
    <2>2. Known(name) \/ Lookup(name).home = 0
      BY DEF Lookup, NewSymbol
    <2>3. ~Lookup(name).defined => Lookup(name).home = 0
      BY DEF BindInv, Homes, Lookup, Known, NewSymbol
    <2> HIDE DEF entry
    <2>4. CASE Lookup(name).defined
      BY <2>1, <2>2, <2>4 DEF Equate
    <2>5. CASE ~Lookup(name).defined
      <3>1. entry[name].home = Lookup(name).home
        BY <2>1, <2>5 DEF Equate, Symbol
      <3>2. QED
        BY <2>3, <2>5, <3>1 DEF Enters
    <2>6. QED
      BY <2>4, <2>5
  <1>6. DOMAIN entry = {name}
    OBVIOUS
  <1> HIDE DEF entry
  <1>7. TableStep(Seg)
    <2>1. CASE symbol_table' = symbol_table
      BY <2>1 DEF TableStep, Enters
    <2>2. CASE symbol_table' = Inserted(entry)
      BY <1>5, <1>6, <2>2, InsertedSteps
    <2>3. QED
      BY <1>4, <2>1, <2>2
  <1>8. QED
    BY <1>1, <1>2, <1>3, <1>7, ChangeBinds
-----------------------------------------------------------------------------
(* The calls that leave the symbols alone.                                 *)
LEMMA OtherBinds ==
  ASSUME BindInv, UNCHANGED <<segments, made, written, symbolVars>>
  PROVE  BindInv'
  BY DEF BindInv, Homes, AllGrounded, symbolVars

LEMMA FinishBinds ==
  ASSUME LinkerInv, BindInv, NEW segs, NEW rels, WellBuilt(segs, rels), Len(segs) >= 1,
         AllGrounded(symbol_table, segs), NEW path, symbol_table' = symbol_table,
         \/ Finish(path, segs, rels) /\ StartOver
         \/ Finish3(path, segs, rels) /\ StartOver
         \/ FinishFails(path, segs, rels)
         \/ Finish3Fails(path, segs, rels)
  PROVE  QuietStep
  <1>1. made \in Nat /\ SymbolTypeOK /\ Homes
    BY DEF LinkerInv, RestTypeOK, BindInv
  <1>2. FilesGrounded(symbol_table)
    BY <1>1, FinishGrounded
       DEF FilesGrounded, Finish, Finish3, FinishFails, Finish3Fails
  <1>3. CASE StartOver
    <2>1. made' = made + 1
      BY <1>3 DEF StartOver, AppendSegment
    <2>2. QED
      BY <1>1, <1>2, <1>3, <2>1, StartOverGrounded DEF QuietStep
  <1>4. CASE SaveFails
    BY <1>2, <1>4 DEF SaveFails, QuietStep, BindInv, AllGrounded
  <1>5. QED
    BY <1>3, <1>4 DEF FinishFails, Finish3Fails

LEMMA ThrowBinds ==
  ASSUME LinkerInv, NEW segs, NEW rels, WellBuilt(segs, rels), Len(segs) >= 1,
         AllGrounded(symbol_table, segs), NEW allow \in BOOLEAN, symbol_table' = symbol_table,
         ResolveThrows(segs, rels, allow) \/ Finish3Throws(segs, rels)
  PROVE  QuietStep
  <1>1. made' = made /\ written' = written
    BY DEF ResolveThrows, Finish3Throws
  <1>2. QED
    BY <1>1, ThrowGrounded DEF QuietStep, FilesGrounded

LEMMA SavBinds ==
  ASSUME LinkerInv, OnceInv, BindInv, NEW path \in Outputs, Sav(path)
  PROVE  BindInv'
  <1> DEFINE segs == Named(path)
  <1>1. /\ WellBuilt(segs, relocations) /\ Len(segs) >= 1 /\ segs \in Seq(Segments)
        /\ made \in Nat /\ SymbolTypeOK /\ Homes
    BY NamedOK DEF WellBuilt, LinkerInv, RestTypeOK, BindInv
  <1>2. AllGrounded(symbol_table, segs)
    BY NamedGrounded DEF BindInv
  <1>3. symbol_table' = symbol_table
    BY DEF Sav, symbolVars
  <1> HIDE DEF segs
  <1>4. CASE AppendSegment(segs, relocations) /\ written' = written
    <2>1. AllGrounded(symbol_table, segments')
      BY <1>1, <1>2, <1>4, AppendGrounded
    <2>2. QuietStep
      BY <1>3, <1>4, <2>1 DEF QuietStep, FilesGrounded, AppendSegment
    <2>3. QED
      BY <2>2, QuietBinds
  <1>5. CASE \/ Finish(Target(path), segs, relocations) /\ StartOver
             \/ Finish3(Target(path), segs, relocations) /\ StartOver
             \/ FinishFails(Target(path), segs, relocations)
             \/ Finish3Fails(Target(path), segs, relocations)
    BY <1>1, <1>2, <1>3, <1>5, FinishBinds, QuietBinds
  <1>6. CASE \E allow \in BOOLEAN : \/ ResolveThrows(segs, relocations, allow)
                                   \/ Finish3Throws(segs, relocations)
    BY <1>1, <1>2, <1>3, <1>6, ThrowBinds, QuietBinds
  <1>7. QED
    BY <1>4, <1>5, <1>6 DEF Sav, segs

LEMMA EndLinkBinds ==
  ASSUME LinkerInv, OnceInv, BindInv, EndLink
  PROVE  BindInv'
  <1> DEFINE segs == AllButLast(segments)
             rels == AllButLast(relocations)
  <1>1. /\ WellBuilt(segs, rels) /\ segs \in Seq(Segments) /\ made \in Nat
        /\ SymbolTypeOK /\ Homes
    BY AllButLastWellBuilt DEF WellBuilt, LinkerInv, RestTypeOK, BindInv
  <1>2. AllGrounded(symbol_table, segs)
    BY Segs, AllButLastGrounded DEF BindInv
  <1>3. symbol_table' = symbol_table
    BY DEF EndLink, symbolVars
  <1> HIDE DEF segs, rels
  <1>4. CASE UNCHANGED <<segments, made, written>>
    BY <1>3, <1>4, QuietBinds DEF QuietStep, FilesGrounded, BindInv
  <1>5. CASE StartOver /\ written' = written
    <2>1. AllGrounded(symbol_table, segments')
      BY <1>1, <1>5, StartOverGrounded
    <2>2. QuietStep
      BY <1>3, <1>5, <2>1 DEF QuietStep, FilesGrounded, StartOver, AppendSegment
    <2>3. QED
      BY <2>2, QuietBinds
  <1>6. CASE segs # <<>> /\ \/ Finish(save_file, segs, rels) /\ StartOver
                            \/ FinishFails(save_file, segs, rels)
                            \/ ResolveThrows(segs, rels, FALSE)
    <2>1. Len(segs) >= 1
      BY <1>1, <1>6
    <2>2. QED
      BY <1>1, <1>2, <1>3, <1>6, <2>1, FinishBinds, ThrowBinds, QuietBinds
  <1>7. QED
    BY <1>4, <1>5, <1>6 DEF EndLink, segs, rels

LEMMA FinishFilesBinds ==
  ASSUME LinkerInv, OnceInv, BindInv, FinishFiles
  PROVE  BindInv'
  <1>1. /\ WellBuilt(segments, relocations) /\ Len(segments) >= 1 /\ SymbolTypeOK
        /\ symbol_table' = symbol_table /\ AllGrounded(symbol_table, segments)
    BY DEF LinkerInv, FinishFiles, symbolVars, BindInv
  <1>2. CASE FinishFails(save_file, segments, relocations)
    BY <1>1, <1>2, FinishBinds, QuietBinds
  <1>3. CASE /\ FinishWrites(save_file, segments, relocations)
             /\ UNCHANGED <<segments, made>>
    <2>1. FilesGrounded(symbol_table)
      BY <1>1, <1>3, FinishGrounded DEF FilesGrounded
    <2>2. QuietStep
      BY <1>1, <1>3, <2>1 DEF QuietStep
    <2>3. QED
      BY <2>2, QuietBinds
  <1>4. QED
    BY <1>2, <1>3 DEF FinishFiles

LEMMA AttributeBinds ==
  ASSUME LinkerInv, OnceInv, BindInv, NEW value,
         Org(value) \/ Knd(value) \/ Ali(value) \/ Ds(value)
  PROVE  BindInv'
  <1>1. /\ made' = made /\ written' = written /\ symbol_table' = symbol_table
        /\ Seg \in Segments /\ segments \in Seq(Segments) /\ Seg = segments[Current]
        /\ Current \in 1 .. Len(segments) /\ Current \in DOMAIN segments
    BY Segs DEF Org, Knd, Ali, Ds, Stores, symbolVars
  <1> DEFINE org == [Seg EXCEPT !.org = value]
             kind == [Seg EXCEPT !.kind = value]
             alignment == [Seg EXCEPT !.alignment = value]
             space == [Seg EXCEPT !.reserved_space = value]
             SameFields(seg) == /\ seg.number = Seg.number /\ seg.segnum = Seg.segnum
                                /\ seg.placed = Seg.placed /\ seg.relocs = Seg.relocs
                                /\ seg.intersegs = Seg.intersegs
  <1>2. \/ segments' = segments
        \/ segments' = [segments EXCEPT ![Current] = org]
        \/ segments' = [segments EXCEPT ![Current] = kind]
        \/ segments' = [segments EXCEPT ![Current] = alignment]
        \/ segments' = [segments EXCEPT ![Current] = space]
    BY DEF Org, Knd, Ali, Ds, Seg
  <1>3. SameFields(org) /\ SameFields(kind) /\ SameFields(alignment) /\ SameFields(space)
    BY <1>1 DEF Segments
  <1> HIDE DEF org, kind, alignment, space
  <1>4. ASSUME NEW seg, SameFields(seg)
        PROVE  AllGrounded(symbol_table, [segments EXCEPT ![Current] = seg])
    <2>1. Grounded(symbol_table, Seg)
      BY <1>1 DEF BindInv, AllGrounded
    <2>2. Grounded(symbol_table, seg)
      BY <1>4, <2>1, AttributesGrounded
    <2>3. QED
      BY <1>1, <2>2, SetGrounded DEF BindInv
  <1>5. AllGrounded(symbol_table, segments')
    BY <1>2, <1>3, <1>4 DEF BindInv
  <1>6. QED
    BY <1>1, <1>5, QuietBinds DEF QuietStep, FilesGrounded

LEMMA CallBinds ==
  ASSUME LinkerInv, LinkerInv', OnceInv, Distinct(segments), BindInv, exited = Running, Call
  PROVE  BindInv'
  <1>1. ASSUME NEW u \in Units, LinkUnit(u) \/ LinkFails(u) PROVE BindInv'
    BY <1>1, LinkUnitBinds, OtherBinds DEF LinkFails, progress
  <1>2. ASSUME NEW b \in Binaries, Import(b) \/ ImportFails(b) PROVE BindInv'
    BY <1>2, ImportBinds, OtherBinds DEF ImportFails, progress
  <1>3. ASSUME NEW path \in Outputs, Sav(path) PROVE BindInv'
    BY <1>3, SavBinds
  <1>4. ASSUME NEW value, Stored(value) PROVE BindInv'
    BY <1>4, OtherBinds DEF Stored, Lkv, Ver, Typ, Adr, Stores
  <1>5. ASSUME NEW value, Attributed(value) PROVE BindInv'
    BY <1>5, AttributeBinds DEF Attributed
  <1>6. ASSUME NEW name, Taken(name) PROVE BindInv'
    <2>1. \/ \E value, type : DefineLabel(name, value, type)
          \/ UNCHANGED <<progress, symbolVars>>
      BY <1>6 DEF Taken, LenLabel, PosLabel, Ext
    <2>2. QED
      BY <2>1, DefineBinds, OtherBinds DEF progress
  <1>7. ASSUME NEW name, NEW value, Valued(name, value) PROVE BindInv'
    <2>1. \/ \E type : DefineLabel(name, value, type)
          \/ UNCHANGED <<progress, symbolVars>>
      BY <1>7 DEF Valued, Equ, Eq, Geq, Kbd
    <2>2. QED
      BY <2>1, DefineBinds, OtherBinds DEF progress
  <1>8. CASE PosReset
    BY <1>8, OtherBinds DEF PosReset
  <1>9. QED
    BY <1>1, <1>2, <1>3, <1>4, <1>5, <1>6, <1>7, <1>8, EndLinkBinds DEF Call

LEMMA StepBinds ==
  ASSUME LinkerInv, OnceInv, Distinct(segments), BindInv, LinkerStep
  PROVE  BindInv'
  <1>1. LinkerInv'
    BY StepOK
  <1>2. QED
    BY <1>1, CallBinds, FinishFilesBinds, OtherBinds DEF LinkerStep, progress

LEMMA InitBinds == LinkerInit => BindInv
  <1> SUFFICES ASSUME LinkerInit PROVE BindInv
    OBVIOUS
  <1>1. segments = <<NewSegment(1, 1)>> /\ written = <<>> /\ made = 1
    BY DEF LinkerInit
  <1>2. \A n \in DOMAIN symbol_table : symbol_table[n].home = 0
    <2>1. PICK D \in Defines : symbol_table = [n \in DOMAIN D |-> Equate(NewSymbol, D[n])]
      BY DEF LinkerInit, SymbolInit
    <2>2. \A value : Equate(NewSymbol, value).home = 0
      BY DEF Equate, NewSymbol
    <2>3. QED
      BY <2>1, <2>2
  <1>3. Homes
    BY <1>1, <1>2 DEF Homes
  <1>4. Grounded(symbol_table, NewSegment(1, 1))
    <2> DEFINE seg == NewSegment(1, 1)
    <2>1. seg.number = 1 /\ seg.relocs = {} /\ seg.intersegs = {}
      BY DEF NewSegment
    <2> HIDE DEF seg
    <2>2. Grounded(symbol_table, seg)
      BY <1>2, <2>1 DEF Grounded, Bindings, Stands
    <2>3. QED
      BY <2>2 DEF seg
  <1>5. AllGrounded(symbol_table, segments)
    <2>1. DOMAIN segments = {1} /\ segments[1] = NewSegment(1, 1)
      BY <1>1
    <2>2. QED
      BY <1>4, <2>1 DEF AllGrounded
  <1>6. DOMAIN written = {}
    BY <1>1
  <1>7. QED
    BY <1>3, <1>5, <1>6 DEF BindInv

(* A relocated reference in a written file designates the place where its  *)
(* symbol is defined, whenever the defining segment is in that file, for   *)
(* every input.  (process_labels, import, resolve)                         *)
THEOREM RightDefinition == LinkerSpec => []BindsToDefinition
  <1>1. LinkerInit => BindInv
    BY InitBinds
  <1>2. (LinkerInv /\ OnceInv /\ Distinct(segments)) /\ BindInv /\ [LinkerNext]_linkerVars
          => BindInv'
    BY NextSteps, StepBinds
  <1>3. BindInv => BindsToDefinition
    BY BindShows
  <1>4. QED
    BY <1>1, <1>2, <1>3, AlwaysSegments, PTL DEF LinkerSpec
-----------------------------------------------------------------------------
(* A name that a file of the segment defines is a defined symbol.          *)
Covers(table, seg) ==
  \A n : PlacesOf(n, seg) # {} => n \in DOMAIN table /\ table[n].defined

AllCovered(table, segs) == \A k \in DOMAIN segs : Covers(table, segs[k])

CoverInv == AllCovered(symbol_table, segments)

(* A file that is written, as UndefinedIsUndefined wants it.               *)
Reports(out) ==
  \A k, h \in DOMAIN out.segs :
    \A ref \in out.unresolved
                 \cup (out.segs[k].dropped \ DroppedBefore(out.segs[k].number)) :
      PlacesOf(ref.sym, out.segs[h]) = {}

FilesReport ==
  \/ written' = written
  \/ \E out : Reports(out) /\ written' = Append(written, out)

LEMMA SamePlaces ==
  ASSUME NEW table, NEW old, Covers(table, old), NEW seg, seg.placed = old.placed
  PROVE  Covers(table, seg)
  BY DEF Covers, PlacesOf

LEMMA NoPlaces ==
  ASSUME NEW table, NEW seg, seg.placed = {}
  PROVE  Covers(table, seg)
  BY DEF Covers, PlacesOf

LEMMA SetCovered ==
  ASSUME NEW table, NEW segs \in Seq(Segments), AllCovered(table, segs),
         NEW k \in 1 .. Len(segs), NEW seg, Covers(table, seg)
  PROVE  AllCovered(table, [segs EXCEPT ![k] = seg])
  BY DEF AllCovered

(* A file is placed, and its names are defined symbols.                    *)
LEMMA PlacedCovered ==
  ASSUME NEW table, NEW old, Covers(table, old), NEW file, NEW begin,
         NEW seg, seg.placed = old.placed \cup {[file |-> file, begin |-> begin]},
         \A n : \/ /\ file \in Units /\ n \in LabelsOf(file)
                   /\ Rel[file].labels[n].kind = "entry"
                \/ file \in Binaries /\ EntryName[basename(file)] = n
                => n \in DOMAIN table /\ table[n].defined
  PROVE  Covers(table, seg)
  <1> SUFFICES ASSUME NEW n, PlacesOf(n, seg) # {}
               PROVE  n \in DOMAIN table /\ table[n].defined
    BY DEF Covers
  <1>1. PICK p \in seg.placed :
          \/ p.file \in Units /\ n \in LabelsOf(p.file) /\ Rel[p.file].labels[n].kind = "entry"
          \/ p.file \in Binaries /\ EntryName[basename(p.file)] = n
    BY DEF PlacesOf
  <1>2. CASE p \in old.placed
    <2>1. CASE /\ p.file \in Units /\ n \in LabelsOf(p.file)
               /\ Rel[p.file].labels[n].kind = "entry"
      <3>1. p.begin + Rel[p.file].labels[n].value \in PlacesOf(n, old)
        BY <1>2, <2>1 DEF PlacesOf
      <3>2. QED
        BY <3>1 DEF Covers
    <2>2. CASE p.file \in Binaries /\ EntryName[basename(p.file)] = n
      <3>1. p.begin \in PlacesOf(n, old)
        BY <1>2, <2>2 DEF PlacesOf
      <3>2. QED
        BY <3>1 DEF Covers
    <2>3. QED
      BY <1>1, <2>1, <2>2
  <1>3. CASE p \notin old.placed
    <2>1. p.file = file
      BY <1>3
    <2>2. QED
      BY <1>1, <2>1
  <1>4. QED
    BY <1>2, <1>3

(* A symbol that is defined stays so.                                      *)
LEMMA CoveredStay ==
  ASSUME SymbolsKeep, NEW segs, AllCovered(symbol_table, segs)
  PROVE  AllCovered(symbol_table', segs)
  BY DEF SymbolsKeep, AllCovered, Covers

(* The segments of t have the files of those being built, or none.         *)
Built(t) ==
  \A k \in DOMAIN t :
    t[k].placed = {} \/ \E j \in DOMAIN segments : t[k].placed = segments[j].placed

LEMMA BuiltCovered ==
  ASSUME CoverInv, NEW t, Built(t)
  PROVE  AllCovered(symbol_table, t)
  <1>1. ASSUME NEW k \in DOMAIN t PROVE Covers(symbol_table, t[k])
    <2>1. CASE t[k].placed = {}
      BY <2>1, NoPlaces
    <2>2. ASSUME NEW j \in DOMAIN segments, t[k].placed = segments[j].placed
          PROVE  Covers(symbol_table, t[k])
      BY <2>2, SamePlaces DEF CoverInv, AllCovered
    <2>3. QED
      BY <2>1, <2>2 DEF Built
  <1>2. QED
    BY <1>1 DEF AllCovered

(* Those that finish() is given are the ones being built, but for names.   *)
Alike(t) ==
  \A k \in DOMAIN t :
    /\ k \in DOMAIN segments
    /\ t[k].number = segments[k].number
    /\ t[k].placed = segments[k].placed
    /\ t[k].dropped = segments[k].dropped

LEMMA NamedAlike == ASSUME LinkerInv, NEW path PROVE Alike(Named(path))
  <1>1. Seg \in Segments /\ Seg = segments[Current] /\ segments \in Seq(Segments)
        /\ Current \in DOMAIN segments
    BY Segs
  <1> DEFINE seg == [Seg EXCEPT !.segname = basename(path), !.loadname = LoadName(path)]
  <1>2. Named(path) = segments \/ Named(path) = [segments EXCEPT ![Current] = seg]
    BY DEF Named, Seg
  <1>3. seg.number = Seg.number /\ seg.placed = Seg.placed /\ seg.dropped = Seg.dropped
    BY <1>1 DEF Segments
  <1> HIDE DEF seg
  <1>4. QED
    BY <1>1, <1>2, <1>3 DEF Alike

LEMMA AllButLastAlike == ASSUME LinkerInv PROVE Alike(AllButLast(segments))
  <1>1. /\ segments \in Seq(Segments) /\ Len(segments) >= 1
        /\ DOMAIN segments = 1 .. Len(segments) /\ Len(segments) \in Nat
    BY Segs
  <1>2. /\ DOMAIN AllButLast(segments) = 1 .. Len(segments) - 1
        /\ \A k \in 1 .. Len(segments) - 1 : AllButLast(segments)[k] = segments[k]
    BY <1>1 DEF AllButLast
  <1>3. QED
    BY <1>1, <1>2 DEF Alike

LEMMA AlikeBuilt == ASSUME NEW t, Alike(t) PROVE Built(t)
  BY DEF Alike, Built

(* resolve() places nothing, and drops what it finds undefined.            *)
LEMMA ResolvedPlaces ==
  ASSUME NEW segs \in Seq(Segments), NEW rels, NEW allow, NEW k \in DOMAIN segs
  PROVE  /\ Resolved(segs, rels, allow)[k].placed = segs[k].placed
         /\ Resolved(segs, rels, allow)[k].number = segs[k].number
         /\ Resolved(segs, rels, allow)[k].dropped
              \subseteq segs[k].dropped \cup Undefined(rels[k])
  <1>1. segs[k] \in Segments
    OBVIOUS
  <1>2. ASSUME NEW seg \in Segments, NEW pending
        PROVE  /\ ResolvedSegment(seg, pending, allow).placed = seg.placed
               /\ ResolvedSegment(seg, pending, allow).number = seg.number
               /\ ResolvedSegment(seg, pending, allow).dropped
                    \subseteq seg.dropped \cup Undefined(pending)
    BY DEF ResolvedSegment, Segments
  <1>3. \/ Resolved(segs, rels, allow)[k] = segs[k]
        \/ Resolved(segs, rels, allow)[k] = ResolvedSegment(segs[k], rels[k], allow)
    BY DEF Resolved
  <1>4. QED
    BY <1>1, <1>2, <1>3

LEMMA ResolvedBuilt ==
  ASSUME NEW segs \in Seq(Segments), Built(segs), NEW rels, NEW allow
  PROVE  Built(Resolved(segs, rels, allow))
  <1>1. DOMAIN Resolved(segs, rels, allow) = DOMAIN segs
    BY DEF Resolved
  <1>2. QED
    BY <1>1, ResolvedPlaces DEF Built

LEMMA AppendBuilt ==
  ASSUME NEW segs \in Seq(Segments), Built(segs), NEW rels, made \in Nat,
         AppendSegment(segs, rels)
  PROVE  Built(segments')
  <1> DEFINE seg == NewSegment(made + 1, Len(segs) + 1)
  <1>1. Len(segs) \in Nat /\ DOMAIN segs = 1 .. Len(segs) /\ seg \in Segments
    BY NewSegmentType
  <1>2. seg.placed = {}
    BY DEF NewSegment
  <1>3. segments' = Append(segs, seg)
    BY DEF AppendSegment
  <1> HIDE DEF seg
  <1>4. /\ DOMAIN segments' = 1 .. Len(segs) + 1
        /\ segments'[Len(segs) + 1] = seg
        /\ \A k \in 1 .. Len(segs) : segments'[k] = segs[k]
    BY <1>1, <1>3
  <1>5. \A k \in DOMAIN segments' : k = Len(segs) + 1 \/ k \in DOMAIN segs
    BY <1>1, <1>4
  <1>6. QED
    BY <1>1, <1>2, <1>4, <1>5 DEF Built

LEMMA StartOverBuilt == ASSUME made \in Nat, StartOver PROVE Built(segments')
  <1>1. <<>> \in Seq(Segments) /\ Built(<<>>)
    BY DEF Built
  <1>2. QED
    BY <1>1, AppendBuilt DEF StartOver

LEMMA ThrowBuilt ==
  ASSUME LinkerInv, NEW segs, NEW rels, WellBuilt(segs, rels), Len(segs) >= 1,
         Built(segs), NEW allow \in BOOLEAN,
         ResolveThrows(segs, rels, allow) \/ Finish3Throws(segs, rels)
  PROVE  Built(segments')
  <1>1. segs \in Seq(Segments) /\ SymbolTypeOK
    BY DEF WellBuilt, LinkerInv
  <1>2. CASE ResolveThrows(segs, rels, allow)
    BY <1>1, <1>2, ResolvedBuilt DEF ResolveThrows
  <1>3. CASE Finish3Throws(segs, rels)
    <2> DEFINE t == Resolved(segs, rels, TRUE)
               last == Len(segs)
    <2>1. Built(t)
      BY <1>1, ResolvedBuilt
    <2>2. PICK size \in EncodedSizes :
            segments' = [t EXCEPT ![last] = [t[last] EXCEPT !.size = size, !.encoded = TRUE]]
      BY <1>3 DEF Finish3Throws
    <2>3. t \in Seq(Segments) /\ Len(t) = last
      BY <1>1, ResolvedWellBuilt DEF WellBuilt
    <2>4. last \in Nat /\ last >= 1
      BY <1>1
    <2> DEFINE seg == [t[last] EXCEPT !.size = size, !.encoded = TRUE]
    <2> HIDE DEF t, last
    <2>5. last \in DOMAIN t /\ t[last] \in Segments
      BY <2>3, <2>4
    <2>6. seg.placed = t[last].placed
      BY <2>5 DEF Segments
    <2>7. segments' = [t EXCEPT ![last] = seg]
      BY <2>2
    <2> HIDE DEF seg
    <2>8. QED
      BY <2>1, <2>5, <2>6, <2>7 DEF Built
  <1>4. QED
    BY <1>2, <1>3

(* What finish() and finish3() say undefined.                              *)
Missing(ref) == ~Lookup(ref.sym).defined

Reported(segs, unresolved) ==
  \A k \in DOMAIN segs :
    /\ Covers(symbol_table, segs[k])
    /\ \A ref \in unresolved \cup (segs[k].dropped \ DroppedBefore(segs[k].number)) :
         Missing(ref)

LEMMA ReportedReports ==
  ASSUME NEW out, Reported(out.segs, out.unresolved)
  PROVE  Reports(out)
  <1>1. ASSUME NEW ref, Missing(ref), NEW h \in DOMAIN out.segs
        PROVE  PlacesOf(ref.sym, out.segs[h]) = {}
    BY <1>1 DEF Reported, Missing, Covers, Lookup, Known
  <1>2. QED
    BY <1>1 DEF Reports, Reported

LEMMA ResolvedReported ==
  ASSUME CoverInv, NEW segs \in Seq(Segments), Alike(segs), NEW rels, AllReached(segs),
         NEW allow, NEW k \in DOMAIN segs
  PROVE  /\ Covers(symbol_table, Resolved(segs, rels, allow)[k])
         /\ \A ref \in Resolved(segs, rels, allow)[k].dropped
                         \ DroppedBefore(Resolved(segs, rels, allow)[k].number) : Missing(ref)
         /\ \A ref \in Unresolved(segs, rels, allow)[k] : Missing(ref)
  <1> DEFINE seg == Resolved(segs, rels, allow)[k]
  <1>1. /\ seg.placed = segs[k].placed /\ seg.number = segs[k].number
        /\ seg.dropped \subseteq segs[k].dropped \cup Undefined(rels[k])
    BY ResolvedPlaces
  <1>2. /\ k \in DOMAIN segments /\ segs[k].number = segments[k].number
        /\ segs[k].placed = segments[k].placed /\ segs[k].dropped = segments[k].dropped
    BY DEF Alike
  <1>3. \A ref \in Undefined(rels[k]) : Missing(ref)
    BY DEF Undefined, Missing
  <1>4. \A ref \in Unresolved(segs, rels, allow)[k] : Missing(ref)
    <2>1. k \in Reached(segs)
      BY DEF Reached, AllReached
    <2>2. Unresolved(segs, rels, allow)[k] \subseteq Undefined(rels[k])
      BY <2>1 DEF Unresolved
    <2>3. QED
      BY <1>3, <2>2
  <1> HIDE DEF seg
  <1>5. Covers(symbol_table, seg)
    BY <1>1, <1>2, SamePlaces DEF CoverInv, AllCovered
  <1>6. segments[k].dropped \subseteq DroppedBefore(segments[k].number)
    BY <1>2 DEF DroppedBefore
  <1>7. \A ref \in seg.dropped \ DroppedBefore(seg.number) : Missing(ref)
    BY <1>1, <1>2, <1>3, <1>6
  <1>8. QED
    BY <1>4, <1>5, <1>7 DEF seg

LEMMA WritesReported ==
  ASSUME NEW path, NEW form, NEW segs, NEW unresolved, NEW ftype, NEW atype,
         Reported(segs, unresolved), Writes(path, form, segs, unresolved, ftype, atype)
  PROVE  FilesReport
  <1> DEFINE out == [path |-> OutputPath(path), form |-> form, segs |-> segs,
                     unresolved |-> unresolved, ver |-> settings.ver,
                     ftype |-> ftype, atype |-> atype]
  <1>1. written' = Append(written, out) /\ out.segs = segs /\ out.unresolved = unresolved
    BY DEF Writes
  <1> HIDE DEF out
  <1>2. Reports(out)
    BY <1>1, ReportedReports
  <1>3. QED
    BY <1>1, <1>2 DEF FilesReport

LEMMA FinishReports ==
  ASSUME CoverInv, NEW segs \in Seq(Segments), Len(segs) >= 1, Alike(segs), NEW rels,
         AllReached(segs), NEW path,
         FinishWrites(path, segs, rels) \/ Finish3Writes(path, segs, rels)
  PROVE  FilesReport
  <1> DEFINE t(allow) == Resolved(segs, rels, allow)
             left == Unresolved(segs, rels, TRUE)
             last == Len(segs)
  <1>1. /\ last \in DOMAIN segs
        /\ \A allow : DOMAIN t(allow) = DOMAIN segs /\ Len(t(allow)) = last
    BY ResolvedNumbers
  <1>2. \A allow : \A k \in DOMAIN segs :
          /\ Covers(symbol_table, t(allow)[k])
          /\ \A ref \in t(allow)[k].dropped \ DroppedBefore(t(allow)[k].number) : Missing(ref)
    BY ResolvedReported
  <1>3. \A ref \in left[last] : Missing(ref)
    BY <1>1, ResolvedReported
  <1>4. ASSUME NEW allow, NEW unresolved, \A ref \in unresolved : Missing(ref)
        PROVE  Reported(<<t(allow)[last]>>, unresolved)
    <2> DEFINE held == <<t(allow)[last]>>
    <2>1. DOMAIN held = {1} /\ held[1] = t(allow)[last]
      OBVIOUS
    <2> HIDE DEF held, t, last
    <2>2. Reported(held, unresolved)
      BY <1>1, <1>2, <1>4, <2>1 DEF Reported
    <2>3. QED
      BY <2>2 DEF held
  <1>5. Reported(t(FALSE), {})
    <2> HIDE DEF t
    <2>1. QED
      BY <1>1, <1>2 DEF Reported
  <1>6. CASE Finish3Writes(path, segs, rels)
    <2>1. Writes(path, "object", <<t(TRUE)[last]>>, left[last], OBJ, 0)
      BY <1>6 DEF Finish3Writes
    <2>2. Reported(<<t(TRUE)[last]>>, left[last])
      BY <1>3, <1>4
    <2> HIDE DEF t, left, last
    <2>3. QED
      BY <2>1, <2>2, WritesReported
  <1>7. CASE FinishWrites(path, segs, rels) /\ settings.lkv = 0
    <2>1. Writes(path, "bin", <<t(FALSE)[last]>>, {}, settings.ftype, settings.atype)
      BY <1>1, <1>7 DEF FinishWrites
    <2> HIDE DEF t, last
    <2>2. Reported(<<t(FALSE)[last]>>, {})
      <3>1. ASSUME NEW none, none = {} PROVE Reported(<<t(FALSE)[last]>>, none)
        <4>1. \A ref \in none : Missing(ref)
          BY <3>1
        <4>2. QED
          BY <1>4, <4>1
      <3>2. QED
        BY <3>1
    <2>3. QED
      BY <2>1, <2>2, WritesReported
  <1>8. CASE FinishWrites(path, segs, rels) /\ settings.lkv # 0
    <2>1. Writes(path, "omf", t(FALSE), {}, settings.ftype, settings.atype)
      BY <1>8 DEF FinishWrites
    <2> HIDE DEF t
    <2>2. QED
      BY <1>5, <2>1, WritesReported
  <1>9. QED
    BY <1>6, <1>7, <1>8
-----------------------------------------------------------------------------
(* The calls.  Those that define nothing build what was there.             *)
CoverStep == AllCovered(symbol_table', segments') /\ FilesReport

LEMMA BuiltStep ==
  ASSUME CoverInv, SymbolsKeep, Built(segments'), FilesReport
  PROVE  CoverStep
  BY BuiltCovered, CoveredStay DEF CoverStep

LEMMA OtherCovers ==
  ASSUME CoverInv, SymbolsKeep, UNCHANGED <<segments, written>>
  PROVE  CoverStep
  BY BuiltStep DEF Built, FilesReport

LEMMA LinkUnitCovers ==
  ASSUME LinkerInv, CoverInv, SymbolsKeep, NEW u \in Units, LinkUnit(u)
  PROVE  CoverStep
  <1> DEFINE unit == Rel[u]
             begin == Seg.size
             links == {Internal(ref, begin) : ref \in ReferencesOf(unit, begin, FALSE)}
             seg == Placed(Seg, u, SizeAfter(unit, begin), links)
             entries == [n \in DOMAIN unit.labels |->
                           Labelled(Lookup(n), unit.labels[n], begin)]
  <1>1. /\ Seg \in Segments /\ SymbolTypeOK /\ segments \in Seq(Segments)
        /\ Current \in 1 .. Len(segments) /\ Current \in DOMAIN segments
        /\ Seg = segments[Current]
    BY Segs DEF LinkerInv
  <1>2. seg.placed = Seg.placed \cup {[file |-> u, begin |-> begin]}
    BY <1>1 DEF Placed, Segments
  <1>3. /\ symbol_table' = Inserted(entries)
        /\ segments' = [segments EXCEPT ![Current] = seg]
        /\ written' = written
    BY DEF LinkUnit
  <1>4. ASSUME NEW n, n \in LabelsOf(u), Rel[u].labels[n].kind = "entry"
        PROVE  n \in DOMAIN symbol_table' /\ symbol_table'[n].defined
    <2>1. Lookup(n) \in Symbol /\ n \in DOMAIN unit.labels
      BY <1>1, <1>4, LookupType DEF LabelsOf
    <2>2. Labelled(Lookup(n), unit.labels[n], begin).defined
      BY <1>4, <2>1 DEF Labelled, Symbol
    <2>3. n \in DOMAIN entries /\ entries[n].defined
      BY <2>1, <2>2
    <2> HIDE DEF entries
    <2>4. QED
      BY <1>3, <2>3 DEF Inserted
  <1>5. u \notin Binaries
    BY BinAssumption
  <1>6. AllCovered(symbol_table', segments)
    BY CoveredStay DEF CoverInv
  <1> HIDE DEF seg, entries, begin
  <1>7. Covers(symbol_table', seg)
    BY <1>1, <1>2, <1>4, <1>5, <1>6, PlacedCovered DEF AllCovered
  <1>8. AllCovered(symbol_table', [segments EXCEPT ![Current] = seg])
    BY <1>1, <1>6, <1>7, SetCovered
  <1>9. QED
    BY <1>3, <1>8 DEF CoverStep, FilesReport

LEMMA ImportCovers ==
  ASSUME LinkerInv, CoverInv, SymbolsKeep, NEW b \in Binaries, Import(b)
  PROVE  CoverStep
  <1> DEFINE name == EntryName[basename(b)]
             begin == Seg.size
             seg == Placed(Seg, b, begin + Bin[b].len, {})
             entry == [n \in {name} |->
                         [Lookup(n) EXCEPT !.defined = TRUE, !.value = Seg.size,
                                           !.segment = Seg.segnum, !.home = Seg.number]]
  <1>1. /\ Seg \in Segments /\ SymbolTypeOK /\ segments \in Seq(Segments)
        /\ Current \in 1 .. Len(segments) /\ Current \in DOMAIN segments
        /\ Seg = segments[Current] /\ Lookup(name) \in Symbol
    BY Segs, LookupType DEF LinkerInv
  <1>2. CASE Lookup(name).defined
    BY <1>2, OtherCovers DEF Import
  <1>3. CASE ~Lookup(name).defined
    <2>1. /\ symbol_table' = Inserted(entry)
          /\ segments' = [segments EXCEPT ![Current] = seg]
          /\ written' = written
      BY <1>3 DEF Import
    <2>2. seg.placed = Seg.placed \cup {[file |-> b, begin |-> begin]}
      BY <1>1 DEF Placed, Segments
    <2>3. name \in DOMAIN entry /\ entry[name].defined
      BY <1>1 DEF Symbol
    <2> HIDE DEF entry, seg, begin
    <2>4. name \in DOMAIN symbol_table' /\ symbol_table'[name].defined
      BY <2>1, <2>3 DEF Inserted
    <2>5. b \notin Units
      BY BinAssumption
    <2>6. AllCovered(symbol_table', segments)
      BY CoveredStay DEF CoverInv
    <2>7. \A n : \/ /\ b \in Units /\ n \in LabelsOf(b)
                    /\ Rel[b].labels[n].kind = "entry"
                 \/ b \in Binaries /\ EntryName[basename(b)] = n
                 => n \in DOMAIN symbol_table' /\ symbol_table'[n].defined
      BY <2>4, <2>5
    <2>8. Covers(symbol_table', Seg)
      BY <1>1, <2>6 DEF AllCovered
    <2> HIDE DEF name
    <2>9. Covers(symbol_table', seg)
      BY <2>2, <2>7, <2>8, PlacedCovered
    <2>10. AllCovered(symbol_table', [segments EXCEPT ![Current] = seg])
      BY <1>1, <2>6, <2>9, SetCovered
    <2>11. QED
      BY <2>1, <2>10 DEF CoverStep, FilesReport
  <1>4. QED
    BY <1>2, <1>3

LEMMA FinishCovers ==
  ASSUME LinkerInv, CoverInv, SymbolsKeep, NEW segs \in Seq(Segments), Len(segs) >= 1,
         Alike(segs), NEW rels, NEW path,
         \/ Finish(path, segs, rels) /\ StartOver
         \/ Finish3(path, segs, rels) /\ StartOver
         \/ FinishFails(path, segs, rels)
         \/ Finish3Fails(path, segs, rels)
  PROVE  CoverStep
  <1>1. made \in Nat /\ AllReached(segs)
    BY DEF LinkerInv, RestTypeOK, Finish, Finish3, FinishFails, Finish3Fails
  <1>2. \/ FinishWrites(path, segs, rels) \/ Finish3Writes(path, segs, rels)
        \/ written' = written
    BY DEF Finish, Finish3, FinishFails, Finish3Fails
  <1>3. FilesReport
    BY <1>1, <1>2, FinishReports DEF FilesReport
  <1>4. Built(segments')
    <2>1. CASE StartOver
      BY <1>1, <2>1, StartOverBuilt
    <2>2. CASE segments' = segments
      BY <2>2 DEF Built
    <2>3. QED
      BY <2>1, <2>2 DEF FinishFails, Finish3Fails, SaveFails
  <1>5. QED
    BY <1>3, <1>4, BuiltStep

LEMMA ThrowCovers ==
  ASSUME LinkerInv, CoverInv, SymbolsKeep, NEW segs, NEW rels, WellBuilt(segs, rels),
         Len(segs) >= 1, Alike(segs), NEW allow \in BOOLEAN,
         ResolveThrows(segs, rels, allow) \/ Finish3Throws(segs, rels)
  PROVE  CoverStep
  <1>1. Built(segments')
    BY AlikeBuilt, ThrowBuilt
  <1>2. FilesReport
    BY DEF ResolveThrows, Finish3Throws, FilesReport
  <1>3. QED
    BY <1>1, <1>2, BuiltStep

LEMMA SavCovers ==
  ASSUME LinkerInv, CoverInv, SymbolsKeep, NEW path \in Outputs, Sav(path)
  PROVE  CoverStep
  <1> DEFINE segs == Named(path)
  <1>1. /\ WellBuilt(segs, relocations) /\ Len(segs) >= 1 /\ segs \in Seq(Segments)
        /\ made \in Nat /\ Alike(segs)
    BY NamedOK, NamedAlike DEF WellBuilt, LinkerInv, RestTypeOK
  <1> HIDE DEF segs
  <1>2. CASE AppendSegment(segs, relocations) /\ written' = written
    <2>1. Built(segments')
      BY <1>1, <1>2, AlikeBuilt, AppendBuilt
    <2>2. QED
      BY <1>2, <2>1, BuiltStep DEF FilesReport
  <1>3. CASE \/ Finish(Target(path), segs, relocations) /\ StartOver
             \/ Finish3(Target(path), segs, relocations) /\ StartOver
             \/ FinishFails(Target(path), segs, relocations)
             \/ Finish3Fails(Target(path), segs, relocations)
    BY <1>1, <1>3, FinishCovers
  <1>4. CASE \E allow \in BOOLEAN : \/ ResolveThrows(segs, relocations, allow)
                                   \/ Finish3Throws(segs, relocations)
    BY <1>1, <1>4, ThrowCovers
  <1>5. QED
    BY <1>2, <1>3, <1>4 DEF Sav, segs

LEMMA EndLinkCovers ==
  ASSUME LinkerInv, CoverInv, SymbolsKeep, EndLink
  PROVE  CoverStep
  <1> DEFINE segs == AllButLast(segments)
             rels == AllButLast(relocations)
  <1>1. /\ WellBuilt(segs, rels) /\ segs \in Seq(Segments) /\ made \in Nat /\ Alike(segs)
    BY AllButLastWellBuilt, AllButLastAlike DEF WellBuilt, LinkerInv, RestTypeOK
  <1> HIDE DEF segs, rels
  <1>2. CASE UNCHANGED <<segments, written>>
    BY <1>2, OtherCovers
  <1>3. CASE StartOver /\ written' = written
    BY <1>1, <1>3, StartOverBuilt, BuiltStep DEF FilesReport
  <1>4. CASE segs # <<>> /\ \/ Finish(save_file, segs, rels) /\ StartOver
                            \/ FinishFails(save_file, segs, rels)
                            \/ ResolveThrows(segs, rels, FALSE)
    <2>1. Len(segs) >= 1
      BY <1>1, <1>4
    <2>2. QED
      BY <1>1, <1>4, <2>1, FinishCovers, ThrowCovers
  <1>5. QED
    BY <1>2, <1>3, <1>4 DEF EndLink, segs, rels

LEMMA FinishFilesCovers ==
  ASSUME LinkerInv, CoverInv, SymbolsKeep, FinishFiles
  PROVE  CoverStep
  <1>1. segments \in Seq(Segments) /\ Len(segments) >= 1 /\ Alike(segments)
    BY Segs DEF Alike
  <1>2. CASE FinishFails(save_file, segments, relocations)
    BY <1>1, <1>2, FinishCovers
  <1>3. CASE /\ AllReached(segments)
             /\ FinishWrites(save_file, segments, relocations)
             /\ UNCHANGED segments
    BY <1>1, <1>3, FinishReports, BuiltStep DEF Built
  <1>4. QED
    BY <1>2, <1>3 DEF FinishFiles

LEMMA AttributeCovers ==
  ASSUME LinkerInv, CoverInv, SymbolsKeep, NEW value,
         Org(value) \/ Knd(value) \/ Ali(value) \/ Ds(value)
  PROVE  CoverStep
  <1>1. /\ written' = written /\ Seg \in Segments /\ segments \in Seq(Segments)
        /\ Seg = segments[Current] /\ Current \in DOMAIN segments
    BY Segs DEF Org, Knd, Ali, Ds, Stores
  <1> DEFINE org == [Seg EXCEPT !.org = value]
             kind == [Seg EXCEPT !.kind = value]
             alignment == [Seg EXCEPT !.alignment = value]
             space == [Seg EXCEPT !.reserved_space = value]
  <1>2. \/ segments' = segments
        \/ segments' = [segments EXCEPT ![Current] = org]
        \/ segments' = [segments EXCEPT ![Current] = kind]
        \/ segments' = [segments EXCEPT ![Current] = alignment]
        \/ segments' = [segments EXCEPT ![Current] = space]
    BY DEF Org, Knd, Ali, Ds, Seg
  <1>3. /\ org.placed = Seg.placed /\ kind.placed = Seg.placed
        /\ alignment.placed = Seg.placed /\ space.placed = Seg.placed
    BY <1>1 DEF Segments
  <1> HIDE DEF org, kind, alignment, space
  <1>4. Built(segments')
    BY <1>1, <1>2, <1>3 DEF Built
  <1>5. QED
    BY <1>1, <1>4, BuiltStep DEF FilesReport

LEMMA CallCovers ==
  ASSUME LinkerInv, CoverInv, SymbolsKeep, Call
  PROVE  CoverStep
  <1>1. ASSUME NEW u \in Units, LinkUnit(u) \/ LinkFails(u) PROVE CoverStep
    BY <1>1, LinkUnitCovers, OtherCovers DEF LinkFails, progress
  <1>2. ASSUME NEW b \in Binaries, Import(b) \/ ImportFails(b) PROVE CoverStep
    BY <1>2, ImportCovers, OtherCovers DEF ImportFails, progress
  <1>3. ASSUME NEW path \in Outputs, Sav(path) PROVE CoverStep
    BY <1>3, SavCovers
  <1>4. ASSUME NEW value, Stored(value) PROVE CoverStep
    BY <1>4, OtherCovers DEF Stored, Lkv, Ver, Typ, Adr, Stores
  <1>5. ASSUME NEW value, Attributed(value) PROVE CoverStep
    BY <1>5, AttributeCovers DEF Attributed
  <1>6. ASSUME NEW name, Taken(name) PROVE CoverStep
    BY <1>6, OtherCovers DEF Taken, LenLabel, PosLabel, Ext, DefineLabel, progress
  <1>7. ASSUME NEW name, NEW value, Valued(name, value) PROVE CoverStep
    BY <1>7, OtherCovers DEF Valued, Equ, Eq, Geq, Kbd, DefineLabel, progress
  <1>8. CASE PosReset
    BY <1>8, OtherCovers DEF PosReset
  <1>9. QED
    BY <1>1, <1>2, <1>3, <1>4, <1>5, <1>6, <1>7, <1>8, EndLinkCovers DEF Call

LEMMA StepCovers == ASSUME LinkerInv, CoverInv, LinkerStep PROVE CoverStep
  BY StepKeeps, CallCovers, FinishFilesCovers, OtherCovers DEF LinkerStep, progress

LEMMA InitCovers == LinkerInit => CoverInv
  <1> SUFFICES ASSUME LinkerInit PROVE CoverInv
    OBVIOUS
  <1>1. segments = <<NewSegment(1, 1)>>
    BY DEF LinkerInit
  <1>2. DOMAIN segments = {1} /\ segments[1] = NewSegment(1, 1)
    BY <1>1
  <1>3. NewSegment(1, 1).placed = {}
    BY DEF NewSegment
  <1>4. QED
    BY <1>2, <1>3, NoPlaces DEF CoverInv, AllCovered

(* The step of UndefinedIsUndefined.                                       *)
ReportsStep == \A i \in DOMAIN written' \ DOMAIN written : Reports(written'[i])

LEMMA FilesReported ==
  ASSUME OnceInv, FilesReport
  PROVE  ReportsStep
  <1>1. CASE written' = written
    BY <1>1 DEF ReportsStep
  <1>2. ASSUME NEW out, Reports(out), written' = Append(written, out) PROVE ReportsStep
    <2>1. PICK Earlier : written \in Seq(Earlier)
      BY DEF OnceInv
    <2>2. written \in Seq(Earlier \cup {out})
      BY <2>1
    <2>3. \A i \in DOMAIN written' : i \in DOMAIN written \/ written'[i] = out
      BY <1>2, <2>2
    <2>4. QED
      BY <1>2, <2>3 DEF ReportsStep
  <1>3. QED
    BY <1>1, <1>2 DEF FilesReport

(* A symbol that an output reports undefined is defined by no file placed  *)
(* in it, for every input.  (process_labels, import, resolve)              *)
THEOREM NoneFalselyReported == LinkerSpec => UndefinedIsUndefined
  <1>1. LinkerInit => CoverInv
    BY InitCovers
  <1>2. (LinkerInv /\ OnceInv /\ Distinct(segments)) /\ CoverInv /\ [LinkerNext]_linkerVars
          => CoverInv'
    BY NextSteps, StepCovers DEF CoverStep, CoverInv, AllCovered
  <1>3. (LinkerInv /\ OnceInv /\ Distinct(segments)) /\ CoverInv /\ [LinkerNext]_linkerVars
          => [ReportsStep]_linkerVars
    BY NextSteps, StepCovers, FilesReported DEF CoverStep
  <1>4. QED
    BY <1>1, <1>2, <1>3, AlwaysSegments, PTL
       DEF LinkerSpec, UndefinedIsUndefined, ReportsStep, Reports
-----------------------------------------------------------------------------
(* What is kept of the segments, the symbols and the files, and the steps  *)
(* that keep it, whoever drives the linker.                                *)
PartsInv ==
  /\ LinkerInv
  /\ OnceInv
  /\ Distinct(segments)
  /\ AccountInv
  /\ BindInv
  /\ CoverInv

LEMMA PartsStart == LinkerInit => PartsInv
  BY InitOK, InitOnce, InitApart, InitAccount, InitBinds, InitCovers DEF PartsInv

LEMMA PartsSteps ==
  ASSUME PartsInv, LinkerStep
  PROVE  PartsInv' /\ SymbolsKeep /\ ClosedKeep /\ LeavesStep /\ ReportsStep
  <1>1. LinkerInv' /\ OnceInv' /\ SymbolsKeep
    BY StepOK, StepOnce, StepKeeps DEF PartsInv
  <1>2. Distinct(segments') /\ ClosedKeep /\ LeavesStep
    BY StepApart, StepGoes DEF PartsInv, Goes
  <1>3. AccountInv' /\ BindInv'
    BY StepAccount, StepBinds DEF PartsInv
  <1>4. CoverInv' /\ ReportsStep
    BY StepCovers, FilesReported DEF PartsInv, CoverStep, CoverInv, AllCovered
  <1>5. QED
    BY <1>1, <1>2, <1>3, <1>4 DEF PartsInv, Distinct
=============================================================================
