---------------------------- MODULE LinkerProofs ----------------------------
(***************************************************************************)
(* The linker, for every set of files, paths and operands: its variables   *)
(* are well-typed, segments and relocations run in parallel and are never  *)
(* empty, and no reference reaches beyond the data of its segment.         *)
(***************************************************************************)
EXTENDS LinkerSafety, TLAPS

(* The references of a segment and its pending ones lie inside its data.   *)
RefInside(seg, pending) ==
  \A ref \in pending \cup Refs(seg.relocs) \cup Refs(seg.intersegs)
             \cup Refs(seg.patches) \cup seg.dropped :
    ref.offset + ref.size <= seg.size

(* A pair of vectors as the linker builds them; it may still be empty.     *)
WellBuilt(segs, rels) ==
  /\ segs \in Seq(Segments)
  /\ rels \in Seq(SUBSET RefRecords)
  /\ Len(rels) = Len(segs)
  /\ \A ix \in 1 .. Len(segs) : segs[ix].segnum = ix /\ RefInside(segs[ix], rels[ix])

(* The rest of the state.                                                  *)
SettingsType == [lkv : 0..3, ver : 1..2, ftype : Int, atype : Int, org : Int]

RestTypeOK ==
  /\ script \in BOOLEAN
  /\ save_file \in Outputs \cup OutputOption \cup {NoPath}
  /\ loadname \in SegmentNames
  /\ len_var \in Nat
  /\ pos_var \in Nat
  /\ settings \in SettingsType
  /\ lnk \in Nat
  /\ made \in Nat
  /\ exited \in Statuses

LinkerInv ==
  /\ RestTypeOK
  /\ SymbolTypeOK
  /\ Len(segments) >= 1
  /\ WellBuilt(segments, relocations)
-----------------------------------------------------------------------------
(* The symbol tables.                                                      *)
LEMMA LookupType ==
  ASSUME SymbolTypeOK, NEW n
  PROVE  Lookup(n) \in Symbol
  BY DEF SymbolTypeOK, Lookup, Known, NewSymbol, Symbol

LEMMA InsertedType ==
  ASSUME SymbolTypeOK, NEW E \in SUBSET Names, NEW entries \in [E -> Symbol]
  PROVE  /\ DOMAIN Inserted(entries) \subseteq Names
         /\ Inserted(entries) \in [DOMAIN Inserted(entries) -> Symbol]
  BY DEF SymbolTypeOK, Inserted

LEMMA DefineType ==
  ASSUME SymbolTypeOK, NEW name \in Names, NEW value \in Int, NEW type,
         Define(name, value, type)
  PROVE  SymbolTypeOK'
  <1>1. Equate(Lookup(name), value) \in Symbol
    BY LookupType DEF Equate, Symbol
  <1> DEFINE entry == [n \in {name} |-> Equate(Lookup(n), value)]
  <1>2. entry \in [{name} -> Symbol] /\ {name} \in SUBSET Names
    BY <1>1
  <1> HIDE DEF entry
  <1>3. /\ DOMAIN Inserted(entry) \subseteq Names
        /\ Inserted(entry) \in [DOMAIN Inserted(entry) -> Symbol]
    BY <1>2, InsertedType
  <1>4. symbol_table' = Inserted(entry) \/ symbol_table' = symbol_table
    BY DEF Define, entry
  <1>5. DOMAIN symbol_table' \subseteq Names
        /\ symbol_table' \in [DOMAIN symbol_table' -> Symbol]
    BY <1>3, <1>4 DEF SymbolTypeOK
  <1>6. DOMAIN local_symbol_table' \subseteq Names
        /\ local_symbol_table' \in [DOMAIN local_symbol_table' -> Int]
    BY DEF Define, SymbolTypeOK
  <1>7. QED
    BY <1>5, <1>6 DEF SymbolTypeOK

LEMMA SymbolInitType == SymbolInit => SymbolTypeOK
  <1> SUFFICES ASSUME NEW D \in Defines,
                      local_symbol_table = D,
                      symbol_table = [n \in DOMAIN D |-> Equate(NewSymbol, D[n])]
               PROVE  SymbolTypeOK
    BY DEF SymbolInit
  <1>1. DOMAIN D \subseteq Names /\ D \in [DOMAIN D -> Int]
    BY DefinesAssumption
  <1>2. \A n \in DOMAIN D : Equate(NewSymbol, D[n]) \in Symbol
    BY <1>1 DEF Equate, NewSymbol, Symbol
  <1>3. QED
    BY <1>1, <1>2 DEF SymbolTypeOK
-----------------------------------------------------------------------------
(* The vectors.                                                            *)
LEMMA NewSegmentType ==
  ASSUME NEW number \in Nat, NEW index \in Nat
  PROVE  /\ NewSegment(number, index) \in Segments
         /\ NewSegment(number, index).segnum = index
         /\ RefInside(NewSegment(number, index), {})
  <1>1. NewSegment(number, index) \in Segments
    BY DEF NewSegment, Segments, SegmentNames
  <1>2. NewSegment(number, index).segnum = index
    BY DEF NewSegment
  <1>3. RefInside(NewSegment(number, index), {})
    BY DEF NewSegment, RefInside, Refs
  <1>4. QED
    BY <1>1, <1>2, <1>3

LEMMA AppendWellBuilt ==
  ASSUME NEW segs, NEW rels, WellBuilt(segs, rels), NEW number \in Nat
  PROVE  /\ WellBuilt(Append(segs, NewSegment(number, Len(segs) + 1)), Append(rels, {}))
         /\ Len(Append(segs, NewSegment(number, Len(segs) + 1))) >= 1
  <1> DEFINE seg == NewSegment(number, Len(segs) + 1)
             t == Append(segs, seg)
             r == Append(rels, {})
  <1>1. Len(segs) \in Nat /\ segs \in Seq(Segments) /\ rels \in Seq(SUBSET RefRecords)
        /\ Len(rels) = Len(segs)
    BY DEF WellBuilt
  <1>2. seg \in Segments /\ seg.segnum = Len(segs) + 1 /\ RefInside(seg, {})
    BY <1>1, NewSegmentType
  <1> HIDE DEF seg
  <1>3. /\ t \in Seq(Segments) /\ Len(t) = Len(segs) + 1 /\ t[Len(segs) + 1] = seg
        /\ \A ix \in 1 .. Len(segs) : t[ix] = segs[ix]
    BY <1>1, <1>2
  <1>4. /\ r \in Seq(SUBSET RefRecords) /\ Len(r) = Len(segs) + 1 /\ r[Len(segs) + 1] = {}
        /\ \A ix \in 1 .. Len(segs) : r[ix] = rels[ix]
    BY <1>1
  <1> HIDE DEF t, r
  <1>5. ASSUME NEW ix \in 1 .. Len(t) PROVE t[ix].segnum = ix /\ RefInside(t[ix], r[ix])
    <2>1. CASE ix = Len(segs) + 1
      BY <2>1, <1>2, <1>3, <1>4
    <2>2. CASE ix # Len(segs) + 1
      <3>1. ix \in 1 .. Len(segs)
        BY <2>2, <1>1, <1>3
      <3>2. QED
        BY <3>1, <1>3, <1>4 DEF WellBuilt
    <2>3. QED
      BY <2>1, <2>2
  <1>6. WellBuilt(t, r) /\ Len(t) >= 1
    BY <1>1, <1>3, <1>4, <1>5 DEF WellBuilt
  <1>7. QED
    BY <1>6 DEF t, r, seg

LEMMA EmptyWellBuilt == WellBuilt(<<>>, <<>>)
  BY DEF WellBuilt

LEMMA ReplaceWellBuilt ==
  ASSUME NEW segs, NEW rels, WellBuilt(segs, rels), NEW k \in 1 .. Len(segs),
         NEW seg \in Segments, seg.segnum = k,
         NEW pending \in SUBSET RefRecords, RefInside(seg, pending)
  PROVE  /\ WellBuilt([segs EXCEPT ![k] = seg], [rels EXCEPT ![k] = pending])
         /\ Len([segs EXCEPT ![k] = seg]) = Len(segs)
  <1> DEFINE t == [segs EXCEPT ![k] = seg]
             r == [rels EXCEPT ![k] = pending]
  <1>1. Len(segs) \in Nat /\ segs \in Seq(Segments) /\ rels \in Seq(SUBSET RefRecords)
        /\ Len(rels) = Len(segs)
    BY DEF WellBuilt
  <1>2. /\ t \in Seq(Segments) /\ Len(t) = Len(segs) /\ t[k] = seg
        /\ \A ix \in 1 .. Len(segs) : ix # k => t[ix] = segs[ix]
    BY <1>1
  <1>3. /\ r \in Seq(SUBSET RefRecords) /\ Len(r) = Len(segs) /\ r[k] = pending
        /\ \A ix \in 1 .. Len(segs) : ix # k => r[ix] = rels[ix]
    BY <1>1
  <1> HIDE DEF t, r
  <1>4. ASSUME NEW ix \in 1 .. Len(t) PROVE t[ix].segnum = ix /\ RefInside(t[ix], r[ix])
    BY <1>2, <1>3 DEF WellBuilt
  <1>5. WellBuilt(t, r) /\ Len(t) = Len(segs)
    BY <1>1, <1>2, <1>3, <1>4 DEF WellBuilt
  <1>6. QED
    BY <1>5 DEF t, r

LEMMA AllButLastWellBuilt ==
  ASSUME NEW segs, NEW rels, WellBuilt(segs, rels), Len(segs) >= 1
  PROVE  WellBuilt(AllButLast(segs), AllButLast(rels))
  <1> DEFINE t == AllButLast(segs)
             r == AllButLast(rels)
  <1>1. Len(segs) \in Nat /\ segs \in Seq(Segments) /\ rels \in Seq(SUBSET RefRecords)
        /\ Len(rels) = Len(segs)
    BY DEF WellBuilt
  <1>2. /\ t \in Seq(Segments) /\ Len(t) = Len(segs) - 1
        /\ \A ix \in 1 .. Len(segs) - 1 : t[ix] = segs[ix]
    BY <1>1 DEF AllButLast
  <1>3. /\ r \in Seq(SUBSET RefRecords) /\ Len(r) = Len(segs) - 1
        /\ \A ix \in 1 .. Len(segs) - 1 : r[ix] = rels[ix]
    BY <1>1 DEF AllButLast
  <1> HIDE DEF t, r
  <1>4. ASSUME NEW ix \in 1 .. Len(t) PROVE t[ix].segnum = ix /\ RefInside(t[ix], r[ix])
    <2>1. ix \in 1 .. Len(segs) /\ ix \in 1 .. Len(segs) - 1
      BY <1>1, <1>2
    <2>2. QED
      BY <2>1, <1>2, <1>3 DEF WellBuilt
  <1>5. WellBuilt(t, r)
    BY <1>1, <1>2, <1>3, <1>4 DEF WellBuilt
  <1>6. QED
    BY <1>5 DEF t, r
-----------------------------------------------------------------------------
(* resolve(): what it makes of the pending references stays in the segment *)
(* and keeps the place it had.                                             *)
LEMMA ReferencesType ==
  ASSUME SymbolTypeOK, NEW pending \in SUBSET RefRecords
  PROVE  \A ref \in pending : Link(ref) \in Links /\ Patch(ref) \in Links
  <1> SUFFICES ASSUME NEW ref \in pending
               PROVE  Link(ref) \in Links /\ Patch(ref) \in Links
    OBVIOUS
  <1>1. /\ ref \in RefRecords /\ ref.addend \in Int
        /\ ref.shift \in Shifts
    BY DEF RefRecords
  <1>2. /\ Lookup(ref.sym) \in Symbol
        /\ Lookup(ref.sym).segment \in Nat /\ Lookup(ref.sym).value \in Int
    BY LookupType DEF Symbol
  <1>3. Link(ref) \in Links
    BY <1>1, <1>2 DEF Link, Bound, Links
  <1> DEFINE sum == ref.addend + Lookup(ref.sym).value
  <1>4. sum \in Int
    BY <1>1, <1>2
  <1>5. sum \div 2 ^ ref.shift \in Int
    <2> HIDE DEF sum
    <2>1. CASE ref.shift = 0
      BY <2>1, <1>4
    <2>2. CASE ref.shift = 8
      BY <2>2, <1>4
    <2>3. CASE ref.shift = 16
      BY <2>3, <1>4
    <2>4. QED
      BY <2>1, <2>2, <2>3, <1>1 DEF Shifts
  <1>6. Patch(ref) \in Links
    BY <1>1, <1>5 DEF Patch, Bound, Links
  <1>7. QED
    BY <1>3, <1>6

LEMMA RefOfBound ==
  ASSUME NEW ref
  PROVE  Link(ref).ref = ref /\ Patch(ref).ref = ref
  BY DEF Link, Patch, Bound

LEMMA ResolvedSegmentOK ==
  ASSUME SymbolTypeOK, NEW seg \in Segments, NEW pending \in SUBSET RefRecords,
         RefInside(seg, pending), NEW allow \in BOOLEAN
  PROVE  LET done == ResolvedSegment(seg, pending, allow)
             left == IF allow THEN Undefined(pending) ELSE {}
         IN  /\ done \in Segments /\ done.segnum = seg.segnum /\ done.size = seg.size
             /\ left \in SUBSET RefRecords
             /\ RefInside(done, left)
  <1> DEFINE done == ResolvedSegment(seg, pending, allow)
             left == IF allow THEN Undefined(pending) ELSE {}
             patched == {Patch(ref) : ref \in Absolute(pending)}
             near == LinksOf(pending, seg.segnum, TRUE)
             far == LinksOf(pending, seg.segnum, FALSE)
             gone == IF allow THEN {} ELSE Undefined(pending)
  <1>1. /\ Undefined(pending) \subseteq pending /\ Absolute(pending) \subseteq pending
        /\ Relocatable(pending) \subseteq pending
    BY DEF Undefined, Absolute, Relocatable
  <1>2. /\ patched \in SUBSET Links /\ near \in SUBSET Links /\ far \in SUBSET Links
        /\ gone \in SUBSET RefRecords /\ left \in SUBSET RefRecords
    BY <1>1, ReferencesType DEF LinksOf
  <1>3. Refs(patched) \subseteq pending /\ Refs(near) \subseteq pending
        /\ Refs(far) \subseteq pending /\ gone \subseteq pending /\ left \subseteq pending
    BY <1>1, RefOfBound DEF LinksOf, Refs
  <1>4. done = [seg EXCEPT !.patches = @ \cup patched, !.relocs = @ \cup near,
                           !.intersegs = @ \cup far, !.dropped = @ \cup gone]
    BY DEF ResolvedSegment
  <1> HIDE DEF done, left, patched, near, far, gone
  <1>5. /\ done.size = seg.size /\ done.segnum = seg.segnum
        /\ done.patches = seg.patches \cup patched /\ done.relocs = seg.relocs \cup near
        /\ done.intersegs = seg.intersegs \cup far /\ done.dropped = seg.dropped \cup gone
    BY <1>4 DEF Segments
  <1>6. done \in Segments
    BY <1>2, <1>4 DEF Segments
  <1>7. RefInside(done, left)
    <2>1. Refs(done.relocs) = Refs(seg.relocs) \cup Refs(near)
          /\ Refs(done.intersegs) = Refs(seg.intersegs) \cup Refs(far)
          /\ Refs(done.patches) = Refs(seg.patches) \cup Refs(patched)
      BY <1>5 DEF Refs
    <2>2. QED
      BY <2>1, <1>3, <1>5 DEF RefInside
  <1>8. QED
    BY <1>2, <1>5, <1>6, <1>7 DEF done, left

LEMMA ResolvedWellBuilt ==
  ASSUME SymbolTypeOK, NEW segs, NEW rels, WellBuilt(segs, rels), NEW allow \in BOOLEAN
  PROVE  /\ WellBuilt(Resolved(segs, rels, allow), Unresolved(segs, rels, allow))
         /\ Len(Resolved(segs, rels, allow)) = Len(segs)
         /\ \A ix \in 1 .. Len(segs) : Resolved(segs, rels, allow)[ix].size = segs[ix].size
  <1> DEFINE t == Resolved(segs, rels, allow)
             r == Unresolved(segs, rels, allow)
  <1>1. /\ Len(segs) \in Nat /\ segs \in Seq(Segments) /\ rels \in Seq(SUBSET RefRecords)
        /\ Len(rels) = Len(segs) /\ DOMAIN segs = 1 .. Len(segs)
    BY DEF WellBuilt
  <1>2. ASSUME NEW ix \in 1 .. Len(segs)
        PROVE  /\ t[ix] \in Segments /\ t[ix].segnum = ix /\ t[ix].size = segs[ix].size
               /\ r[ix] \in SUBSET RefRecords /\ RefInside(t[ix], r[ix])
    <2>1. /\ segs[ix] \in Segments /\ rels[ix] \in SUBSET RefRecords
          /\ segs[ix].segnum = ix /\ RefInside(segs[ix], rels[ix])
      BY <1>1 DEF WellBuilt
    <2>2. CASE ix \in Reached(segs)
      <3>1. /\ t[ix] = ResolvedSegment(segs[ix], rels[ix], allow)
            /\ r[ix] = IF allow THEN Undefined(rels[ix]) ELSE {}
        BY <2>2, <1>1 DEF Resolved, Unresolved
      <3>2. QED
        BY <2>1, <3>1, ResolvedSegmentOK
    <2>3. CASE ix \notin Reached(segs)
      BY <2>1, <2>3, <1>1 DEF Resolved, Unresolved
    <2>4. QED
      BY <2>2, <2>3
  <1>3. t = [ix \in 1 .. Len(segs) |-> t[ix]] /\ r = [ix \in 1 .. Len(segs) |-> r[ix]]
    BY <1>1 DEF Resolved, Unresolved
  <1> HIDE DEF t, r
  <1>4. /\ t \in Seq(Segments) /\ Len(t) = Len(segs)
        /\ r \in Seq(SUBSET RefRecords) /\ Len(r) = Len(segs)
    BY <1>1, <1>2, <1>3
  <1>5. WellBuilt(t, r)
    BY <1>2, <1>4 DEF WellBuilt
  <1>6. QED
    BY <1>2, <1>4, <1>5 DEF t, r
-----------------------------------------------------------------------------
(* process_unit(): the references of a unit lie inside the unit.           *)
LEMMA RecordReferences ==
  ASSUME NEW rec \in Record, rec.kind = "ddb" => rec.size = 2, NEW begin \in Nat
  PROVE  \A ref \in References(rec, begin) :
           /\ ref \in RefRecords
           /\ ref.offset + ref.size <= begin + rec.offset + rec.size
  <1>1. /\ rec.offset \in Nat /\ rec.size \in Nat /\ rec.shift \in Shifts
        /\ rec.value \in Int /\ rec.sym \in Names
    BY DEF Record
  <1>2. ASSUME NEW at \in 0..1, NEW size \in Nat, NEW shift \in Shifts, NEW copy \in 1..2
        PROVE  /\ Reference(rec, begin, at, size, shift, copy) \in RefRecords
               /\ Reference(rec, begin, at, size, shift, copy).offset
                    = begin + rec.offset + at
               /\ Reference(rec, begin, at, size, shift, copy).size = size
    BY <1>1 DEF Reference, RefRecords
  <1>3. CASE rec.kind = "ddb"
    <2>1. \A ref \in References(rec, begin) :
            \/ \E copy \in 1..2 : ref = Reference(rec, begin, 0, 1, 8, copy)
            \/ ref = Reference(rec, begin, 1, 1, 0, 1)
      BY <1>3 DEF References
    <2>2. 8 \in Shifts /\ 0 \in Shifts
      BY DEF Shifts
    <2>3. QED
      BY <1>1, <1>2, <1>3, <2>1, <2>2
  <1>4. CASE rec.kind # "ddb"
    <2>1. \A ref \in References(rec, begin) :
            ref = Reference(rec, begin, 0, rec.size, rec.shift, 1)
      BY <1>4 DEF References
    <2>2. QED
      BY <1>1, <1>2, <2>1
  <1>5. QED
    BY <1>3, <1>4

LEMMA UnitReferences ==
  ASSUME NEW u \in Units, NEW begin \in Nat, NEW external
  PROVE  /\ ReferencesOf(Rel[u], begin, external) \in SUBSET RefRecords
         /\ \A ref \in ReferencesOf(Rel[u], begin, external) :
              ref.offset + ref.size <= begin + Rel[u].len
  <1>1. /\ WellFormed(Rel[u]) /\ Rel[u].records \in Seq(Record) /\ Rel[u].len \in Nat
    BY RelAssumption DEF WellFormed
  <1>2. SUFFICES ASSUME NEW i \in Processed(Rel[u]),
                        NEW ref \in References(Rel[u].records[i], begin)
                 PROVE  /\ ref \in RefRecords
                        /\ ref.offset + ref.size <= begin + Rel[u].len
    BY DEF ReferencesOf
  <1>3. i \in Fields(Rel[u].records) /\ i \in DOMAIN Rel[u].records
    BY DEF Processed, Fields
  <1>4. Rel[u].records[i] \in Record
    BY <1>1, <1>3
  <1>5. /\ Rel[u].records[i].offset + Rel[u].records[i].size <= Rel[u].len
        /\ Rel[u].records[i].kind = "ddb" => Rel[u].records[i].size = 2
    BY <1>1, <1>3 DEF WellFormed
  <1> DEFINE rec == Rel[u].records[i]
  <1>6. /\ ref \in RefRecords /\ ref.offset + ref.size <= begin + rec.offset + rec.size
    BY <1>4, <1>5, RecordReferences
  <1>7. rec.offset \in Nat /\ rec.size \in Nat /\ ref.offset \in Nat /\ ref.size \in Nat
    BY <1>4, <1>6 DEF Record, RefRecords
  <1> HIDE DEF rec
  <1>8. rec.offset + rec.size <= Rel[u].len
    BY <1>5 DEF rec
  <1>9. ASSUME NEW a \in Nat, NEW b \in Nat, NEW c \in Nat, NEW d \in Nat, NEW len \in Nat,
               a + b <= begin + c + d, c + d <= len
        PROVE  a + b <= begin + len
    BY <1>9
  <1>10. QED
    BY <1>1, <1>6, <1>7, <1>8, <1>9

LEMMA SizeGrows ==
  ASSUME NEW u \in Units, NEW begin \in Nat
  PROVE  /\ SizeAfter(Rel[u], begin) \in Nat
         /\ begin + Rel[u].len <= SizeAfter(Rel[u], begin)
  <1>1. Rel[u].len \in Nat
    BY RelAssumption DEF WellFormed
  <1> DEFINE size == begin + Rel[u].len
  <1>2. size \in Nat
    BY <1>1
  <1> HIDE DEF size
  <1>3. size % Page \in 0 .. Page - 1
    BY <1>2, PageAssumption
  <1>4. PadTo(size) \in Nat /\ size <= PadTo(size)
    BY <1>2, <1>3, PageAssumption DEF PadTo
  <1>5. SizeAfter(Rel[u], begin) = size \/ SizeAfter(Rel[u], begin) = PadTo(size)
    BY DEF SizeAfter, size
  <1>6. SizeAfter(Rel[u], begin) \in Nat /\ size <= SizeAfter(Rel[u], begin)
    BY <1>2, <1>4, <1>5
  <1>7. QED
    BY <1>6 DEF size

(* The data of a segment only grows, so what was inside stays inside.      *)
LEMMA InsideGrows ==
  ASSUME NEW seg \in Segments, NEW pending \in SUBSET RefRecords, RefInside(seg, pending),
         NEW size \in Nat, seg.size <= size
  PROVE  \A ref \in pending \cup Refs(seg.relocs) \cup Refs(seg.intersegs)
                    \cup Refs(seg.patches) \cup seg.dropped :
           ref.offset + ref.size <= size
  <1>1. \A ref \in pending \cup Refs(seg.relocs) \cup Refs(seg.intersegs)
                    \cup Refs(seg.patches) \cup seg.dropped : ref \in RefRecords
    BY DEF Segments, Refs, Links
  <1>2. \A ref \in RefRecords : ref.offset + ref.size \in Nat
    BY DEF RefRecords
  <1>3. seg.size \in Nat
    BY DEF Segments
  <1>4. QED
    BY <1>1, <1>2, <1>3 DEF RefInside
-----------------------------------------------------------------------------
(* The operations.                                                         *)
LEMMA SetWellBuilt ==
  ASSUME NEW segs, NEW rels, WellBuilt(segs, rels), NEW k \in 1 .. Len(segs),
         NEW seg \in Segments, seg.segnum = k, RefInside(seg, rels[k])
  PROVE  /\ WellBuilt([segs EXCEPT ![k] = seg], rels)
         /\ Len([segs EXCEPT ![k] = seg]) = Len(segs)
  <1>1. /\ rels \in Seq(SUBSET RefRecords) /\ Len(rels) = Len(segs)
    BY DEF WellBuilt
  <1>2. rels[k] \in SUBSET RefRecords /\ rels = [rels EXCEPT ![k] = rels[k]]
    BY <1>1
  <1>3. QED
    BY <1>2, ReplaceWellBuilt

LEMMA CurrentOK ==
  ASSUME LinkerInv
  PROVE  /\ Current \in 1 .. Len(segments) /\ Seg \in Segments /\ Seg.segnum = Current
         /\ Seg.size \in Nat /\ Seg.segnum \in Nat /\ Seg.number \in Nat
         /\ relocations[Current] \in SUBSET RefRecords
         /\ RefInside(Seg, relocations[Current])
         /\ WellBuilt(segments, relocations)
  <1>1. /\ segments \in Seq(Segments) /\ relocations \in Seq(SUBSET RefRecords)
        /\ Len(relocations) = Len(segments) /\ Len(segments) >= 1
        /\ WellBuilt(segments, relocations)
    BY DEF LinkerInv, WellBuilt
  <1>2. Current \in 1 .. Len(segments)
    BY <1>1 DEF Current
  <1>3. Seg \in Segments /\ relocations[Current] \in SUBSET RefRecords
    BY <1>1, <1>2 DEF Seg
  <1>4. Seg.segnum = Current /\ RefInside(Seg, relocations[Current])
    BY <1>1, <1>2 DEF Seg, WellBuilt
  <1>5. Seg.size \in Nat /\ Seg.segnum \in Nat /\ Seg.number \in Nat
    BY <1>3 DEF Segments
  <1>6. QED
    BY <1>1, <1>2, <1>3, <1>4, <1>5

LEMMA InitOK == LinkerInit => LinkerInv
  <1> SUFFICES ASSUME LinkerInit PROVE LinkerInv
    OBVIOUS
  <1>1. SymbolTypeOK
    BY SymbolInitType DEF LinkerInit
  <1>2. RestTypeOK
    <2>1. settings \in SettingsType
      <3>1. settings = [lkv |-> 1, ver |-> 2, ftype |-> 179, atype |-> 0, org |-> 0]
        BY DEF LinkerInit
      <3>2. QED
        BY <3>1 DEF SettingsType
    <2>2. loadname \in SegmentNames /\ exited \in Statuses
      BY DEF LinkerInit, ProcessInit, Statuses, SegmentNames
    <2>3. QED
      BY <2>1, <2>2 DEF LinkerInit, RestTypeOK
  <1>3. /\ segments = Append(<<>>, NewSegment(1, Len(<<>>) + 1))
        /\ relocations = Append(<<>>, {})
    <2>1. Len(<<>>) + 1 = 1 /\ \A x : Append(<<>>, x) = <<x>>
      OBVIOUS
    <2>2. segments = <<NewSegment(1, 1)>> /\ relocations = <<{}>>
      BY DEF LinkerInit
    <2>3. QED
      BY <2>1, <2>2
  <1>4. WellBuilt(segments, relocations) /\ Len(segments) >= 1
    BY <1>3, EmptyWellBuilt, AppendWellBuilt
  <1>5. QED
    BY <1>1, <1>2, <1>4 DEF LinkerInv

LEMMA AppendSegmentOK ==
  ASSUME LinkerInv, NEW segs, NEW rels, WellBuilt(segs, rels), AppendSegment(segs, rels)
  PROVE  /\ WellBuilt(segments', relocations') /\ Len(segments') >= 1
         /\ made' \in Nat /\ len_var' \in Nat /\ pos_var' \in Nat
  <1>1. made + 1 \in Nat
    BY DEF LinkerInv, RestTypeOK
  <1>2. QED
    BY <1>1, AppendWellBuilt DEF AppendSegment

LEMMA StartOverOK ==
  ASSUME LinkerInv, StartOver
  PROVE  /\ WellBuilt(segments', relocations') /\ Len(segments') >= 1
         /\ made' \in Nat /\ len_var' \in Nat /\ pos_var' \in Nat
         /\ save_file' = NoPath
  BY AppendSegmentOK, EmptyWellBuilt DEF StartOver

LEMMA LabelledType ==
  ASSUME LinkerInv, NEW symbol \in Symbol, NEW label \in Label, NEW begin \in Nat
  PROVE  Labelled(symbol, label, begin) \in Symbol
  <1>1. /\ Seg.segnum \in Nat /\ Seg.number \in Nat
        /\ label.value \in Int /\ label.value + begin \in Int
    BY CurrentOK DEF Label
  <1>2. CASE label.kind = "external" \/ symbol.defined
    BY <1>2 DEF Labelled
  <1>3. CASE ~(label.kind = "external" \/ symbol.defined) /\ label.kind = "absolute"
    BY <1>1, <1>3 DEF Labelled, Symbol
  <1>4. CASE ~(label.kind = "external" \/ symbol.defined) /\ label.kind # "absolute"
    BY <1>1, <1>4 DEF Labelled, Symbol
  <1>5. QED
    BY <1>2, <1>3, <1>4

LEMMA PlacedOK ==
  ASSUME NEW old \in Segments, NEW file \in Units \cup Binaries, NEW size \in Nat,
         NEW links \in SUBSET Links, NEW seg, seg = Placed(old, file, size, links)
  PROVE  /\ seg \in Segments /\ seg.segnum = old.segnum /\ seg.size = size
         /\ seg.relocs = old.relocs \cup links /\ seg.intersegs = old.intersegs
         /\ seg.patches = old.patches /\ seg.dropped = old.dropped
  <1> DEFINE place == {[file |-> file, begin |-> old.size]}
  <1>1. place \in SUBSET [file : Units \cup Binaries, begin : Nat]
    BY DEF Segments
  <1>2. seg = [old EXCEPT !.size = size, !.placed = @ \cup place, !.relocs = @ \cup links]
    BY DEF Placed
  <1> HIDE DEF place
  <1>3. QED
    BY <1>1, <1>2 DEF Segments

LEMMA LinkUnitOK ==
  ASSUME LinkerInv, NEW u \in Units, LinkUnit(u)
  PROVE  LinkerInv'
  <1> DEFINE unit == Rel[u]
             begin == Seg.size
             inner == ReferencesOf(unit, begin, FALSE)
             outer == ReferencesOf(unit, begin, TRUE)
             links == {Internal(ref, begin) : ref \in inner}
             size == SizeAfter(unit, begin)
             seg == Placed(Seg, u, size, links)
             pending == relocations[Current] \cup outer
  <1>1. /\ Current \in 1 .. Len(segments) /\ Seg \in Segments /\ Seg.segnum = Current
        /\ begin \in Nat /\ Seg.segnum \in Nat
        /\ relocations[Current] \in SUBSET RefRecords
        /\ RefInside(Seg, relocations[Current])
        /\ WellBuilt(segments, relocations)
    BY CurrentOK
  <1>2. /\ WellFormed(unit) /\ unit.len \in Nat
        /\ DOMAIN unit.labels \subseteq Names
        /\ unit.labels \in [DOMAIN unit.labels -> Label]
    BY RelAssumption DEF WellFormed
  <1>3. SymbolTypeOK'
    <2> DEFINE entries == [n \in DOMAIN unit.labels |->
                             Labelled(Lookup(n), unit.labels[n], begin)]
    <2>1. SymbolTypeOK
      BY DEF LinkerInv
    <2>2. \A n \in DOMAIN unit.labels :
            Labelled(Lookup(n), unit.labels[n], begin) \in Symbol
      BY <2>1, <1>1, <1>2, LookupType, LabelledType
    <2>3. entries \in [DOMAIN unit.labels -> Symbol]
      BY <2>2
    <2>4. symbol_table' = Inserted(entries) /\ local_symbol_table' = local_symbol_table
      BY DEF LinkUnit
    <2> HIDE DEF entries
    <2>5. /\ DOMAIN Inserted(entries) \subseteq Names
          /\ Inserted(entries) \in [DOMAIN Inserted(entries) -> Symbol]
      BY <2>1, <2>3, <1>2, InsertedType
    <2>6. QED
      BY <2>1, <2>4, <2>5 DEF SymbolTypeOK
  <1>4. /\ inner \in SUBSET RefRecords /\ outer \in SUBSET RefRecords
        /\ \A ref \in inner \cup outer : ref.offset + ref.size <= begin + unit.len
    BY <1>1, UnitReferences
  <1>5. size \in Nat /\ begin + unit.len <= size
    BY <1>1, SizeGrows
  <1>6. begin <= size
    BY <1>1, <1>2, <1>5
  <1>7. links \in SUBSET Links /\ Refs(links) = inner
    <2>1. \A ref \in inner : Internal(ref, begin) \in Links
      <3> HIDE DEF begin, inner
      <3>1. \A ref \in inner : ref \in RefRecords /\ ref.addend + begin \in Int
        BY <1>1, <1>4 DEF RefRecords
      <3>2. QED
        BY <1>1, <3>1 DEF Internal, Bound, Links
    <2>2. \A ref \in inner : Internal(ref, begin).ref = ref
      BY DEF Internal, Bound
    <2>3. QED
      BY <2>1, <2>2 DEF Refs
  <1>9. /\ segments' = [segments EXCEPT ![Current] = seg]
        /\ relocations' = [relocations EXCEPT ![Current] = pending]
    <2>1. segments' = [segments EXCEPT ![Current] = seg]
      BY DEF LinkUnit
    <2>2. relocations' = [relocations EXCEPT ![Current] = pending]
      BY DEF LinkUnit
    <2>3. QED
      BY <2>1, <2>2
  <1>10. pending \in SUBSET RefRecords
    BY <1>1, <1>4
  <1> HIDE DEF unit, begin, inner, outer, links, size
  <1>11. /\ seg \in Segments /\ seg.segnum = Current /\ seg.size = size
         /\ seg.relocs = Seg.relocs \cup links /\ seg.intersegs = Seg.intersegs
         /\ seg.patches = Seg.patches /\ seg.dropped = Seg.dropped
    <2>1. /\ seg \in Segments /\ seg.segnum = Seg.segnum /\ seg.size = size
          /\ seg.relocs = Seg.relocs \cup links /\ seg.intersegs = Seg.intersegs
          /\ seg.patches = Seg.patches /\ seg.dropped = Seg.dropped
      <3>1. u \in Units \cup Binaries /\ seg = Placed(Seg, u, size, links)
        OBVIOUS
      <3> HIDE DEF seg
      <3>2. Seg \in Segments /\ size \in Nat /\ links \in SUBSET Links
        BY <1>1, <1>5, <1>7
      <3>3. QED
        BY <3>1, <3>2, PlacedOK
    <2> HIDE DEF seg
    <2>2. QED
      BY <1>1, <2>1
  <1> HIDE DEF seg
  <1>12. RefInside(seg, pending)
    <2>1. \A ref \in relocations[Current] \cup Refs(Seg.relocs) \cup Refs(Seg.intersegs)
                     \cup Refs(Seg.patches) \cup Seg.dropped :
            ref.offset + ref.size <= size
      BY <1>1, <1>5, <1>6, InsideGrows DEF begin
    <2>2. \A ref \in inner \cup outer : ref.offset + ref.size <= size
      <3>1. \A ref \in inner \cup outer : ref.offset \in Nat /\ ref.size \in Nat
        BY <1>4 DEF RefRecords
      <3>2. begin + unit.len \in Nat
        BY <1>1, <1>2
      <3>3. QED
        BY <1>4, <1>5, <3>1, <3>2
    <2>3. Refs(seg.relocs) = Refs(Seg.relocs) \cup inner
      BY <1>7, <1>11 DEF Refs
    <2>4. QED
      BY <2>1, <2>2, <2>3, <1>11 DEF RefInside
  <1>13. WellBuilt(segments', relocations') /\ Len(segments') >= 1
    BY <1>1, <1>9, <1>10, <1>11, <1>12, ReplaceWellBuilt DEF LinkerInv
  <1>14. RestTypeOK'
    BY <1>2 DEF LinkerInv, RestTypeOK, LinkUnit, Returns, unit
  <1>15. QED
    BY <1>3, <1>13, <1>14 DEF LinkerInv

LEMMA ImportedType ==
  ASSUME NEW symbol \in Symbol, NEW value \in Nat, NEW segment \in Nat, NEW home \in Nat
  PROVE  [symbol EXCEPT !.defined = TRUE, !.value = value, !.segment = segment,
                        !.home = home] \in Symbol
  <1>1. value \in Int /\ symbol.absolute \in BOOLEAN
    BY DEF Symbol
  <1>2. CASE symbol.absolute = TRUE
    BY <1>1, <1>2 DEF Symbol
  <1>3. CASE symbol.absolute = FALSE
    BY <1>1, <1>3 DEF Symbol
  <1>4. QED
    BY <1>1, <1>2, <1>3

LEMMA ImportOK ==
  ASSUME LinkerInv, NEW b \in Binaries, Import(b)
  PROVE  LinkerInv'
  <1> DEFINE name == EntryName[basename(b)]
             size == Seg.size + Bin[b].len
             none == {}
             seg == Placed(Seg, b, size, none)
             entry == [n \in {name} |->
                         [Lookup(n) EXCEPT !.defined = TRUE, !.value = Seg.size,
                                           !.segment = Seg.segnum, !.home = Seg.number]]
  <1>1. /\ Current \in 1 .. Len(segments) /\ Seg \in Segments /\ Seg.segnum = Current
        /\ Seg.size \in Nat /\ Seg.segnum \in Nat /\ Seg.number \in Nat
        /\ relocations[Current] \in SUBSET RefRecords
        /\ RefInside(Seg, relocations[Current])
        /\ WellBuilt(segments, relocations)
    BY CurrentOK
  <1>2. Bin[b].len \in Nat /\ name \in Names
    BY BinAssumption
  <1>3. RestTypeOK'
    <2>1. len_var' \in Nat /\ pos_var' \in Nat /\ lnk' \in Nat
      BY <1>2 DEF Import, LinkerInv, RestTypeOK
    <2>2. QED
      BY <2>1 DEF Import, LinkerInv, RestTypeOK, Returns
  <1>4. CASE Lookup(name).defined
    BY <1>3, <1>4 DEF Import, LinkerInv, SymbolTypeOK
  <1>5. CASE ~Lookup(name).defined
    <2>1. /\ segments' = [segments EXCEPT ![Current] = seg] /\ relocations' = relocations
          /\ symbol_table' = Inserted(entry) /\ local_symbol_table' = local_symbol_table
      BY <1>5 DEF Import
    <2>2. SymbolTypeOK'
      <3>1. Lookup(name) \in Symbol /\ SymbolTypeOK
        BY LookupType DEF LinkerInv
      <3>2. entry \in [{name} -> Symbol] /\ {name} \in SUBSET Names
        <4>1. [Lookup(name) EXCEPT !.defined = TRUE, !.value = Seg.size,
                 !.segment = Seg.segnum, !.home = Seg.number] \in Symbol
          BY <1>1, <3>1, ImportedType
        <4>2. QED
          BY <4>1, <1>2
      <3> HIDE DEF entry
      <3>3. /\ DOMAIN Inserted(entry) \subseteq Names
            /\ Inserted(entry) \in [DOMAIN Inserted(entry) -> Symbol]
        BY <3>1, <3>2, InsertedType
      <3>4. QED
        BY <2>1, <3>1, <3>3 DEF SymbolTypeOK
    <2>3. size \in Nat /\ Seg.size <= size
      BY <1>1, <1>2
    <2>4. \A ref \in relocations[Current] \cup Refs(Seg.relocs) \cup Refs(Seg.intersegs)
                     \cup Refs(Seg.patches) \cup Seg.dropped :
            ref.offset + ref.size <= size
      BY <1>1, <2>3, InsideGrows
    <2>5. none \in SUBSET Links /\ b \in Units \cup Binaries
          /\ seg = Placed(Seg, b, size, none) /\ Seg \in Segments
      BY <1>1
    <2> HIDE DEF seg, size, none
    <2>6. /\ seg \in Segments /\ seg.segnum = Seg.segnum /\ seg.size = size
          /\ seg.relocs = Seg.relocs \cup none /\ seg.intersegs = Seg.intersegs
          /\ seg.patches = Seg.patches /\ seg.dropped = Seg.dropped
      BY <2>3, <2>5, PlacedOK
    <2>7. RefInside(seg, relocations[Current])
      BY <2>4, <2>6 DEF RefInside, Refs, none
    <2>8. WellBuilt(segments', relocations') /\ Len(segments') >= 1
      <3>1. /\ WellBuilt([segments EXCEPT ![Current] = seg], relocations)
            /\ Len([segments EXCEPT ![Current] = seg]) = Len(segments)
        BY <1>1, <2>6, <2>7, SetWellBuilt
      <3>2. QED
        BY <2>1, <3>1 DEF LinkerInv
    <2>9. QED
      BY <1>3, <2>2, <2>8 DEF LinkerInv
  <1>6. QED
    BY <1>4, <1>5

(* What resolve() leaves behind when it throws.                            *)
LEMMA ResolveThrowsOK ==
  ASSUME LinkerInv, NEW segs, NEW rels, WellBuilt(segs, rels), Len(segs) >= 1,
         NEW allow \in BOOLEAN, ResolveThrows(segs, rels, allow)
  PROVE  /\ WellBuilt(segments', relocations') /\ Len(segments') >= 1
         /\ len_var' = len_var /\ pos_var' = pos_var /\ made' = made /\ exited' = exited
  <1>1. SymbolTypeOK
    BY DEF LinkerInv
  <1>2. QED
    BY <1>1, ResolvedWellBuilt DEF ResolveThrows, Throws

(* What finish3() leaves behind when it throws: longer data.               *)
LEMMA Finish3ThrowsOK ==
  ASSUME LinkerInv, NEW segs, NEW rels, WellBuilt(segs, rels), Len(segs) >= 1,
         Finish3Throws(segs, rels)
  PROVE  /\ WellBuilt(segments', relocations') /\ Len(segments') >= 1
         /\ len_var' = len_var /\ pos_var' = pos_var /\ made' = made /\ exited' = exited
  <1> DEFINE t == Resolved(segs, rels, TRUE)
             r == Unresolved(segs, rels, TRUE)
             last == Len(segs)
  <1>1. SymbolTypeOK
    BY DEF LinkerInv
  <1>2. /\ WellBuilt(t, r) /\ Len(t) = last /\ last \in 1 .. Len(t)
        /\ t[last].size = segs[last].size
    <2>1. Len(segs) \in Nat
      BY DEF WellBuilt
    <2>2. /\ WellBuilt(t, r) /\ Len(t) = Len(segs)
          /\ \A ix \in 1 .. Len(segs) : t[ix].size = segs[ix].size
      BY <1>1, ResolvedWellBuilt
    <2> HIDE DEF t, r
    <2>3. QED
      BY <2>1, <2>2
  <1>3. PICK size \in EncodedSizes :
          /\ size > segs[last].size
          /\ segments' = [t EXCEPT ![last] = [t[last] EXCEPT !.size = size, !.encoded = TRUE]]
    BY DEF Finish3Throws
  <1>4. relocations' = r /\ len_var' = len_var /\ pos_var' = pos_var /\ made' = made
        /\ exited' = exited
    BY DEF Finish3Throws, Throws
  <1> DEFINE seg == [t[last] EXCEPT !.size = size, !.encoded = TRUE]
  <1> HIDE DEF t, r, last
  <1>5. /\ t[last] \in Segments /\ r[last] \in SUBSET RefRecords
        /\ t[last].segnum = last /\ RefInside(t[last], r[last])
    BY <1>2 DEF WellBuilt
  <1>6. size \in Nat /\ t[last].size <= size
    BY <1>2, <1>3, <1>5, BankAssumption DEF Segments
  <1>7. \A ref \in r[last] \cup Refs(t[last].relocs) \cup Refs(t[last].intersegs)
                   \cup Refs(t[last].patches) \cup t[last].dropped :
          ref.offset + ref.size <= size
    BY <1>5, <1>6, InsideGrows
  <1>8. /\ seg \in Segments /\ seg.segnum = last /\ seg.size = size
        /\ seg.relocs = t[last].relocs /\ seg.intersegs = t[last].intersegs
        /\ seg.patches = t[last].patches /\ seg.dropped = t[last].dropped
    BY <1>5, <1>6 DEF Segments
  <1>9. segments' = [t EXCEPT ![last] = seg]
    BY <1>3
  <1> HIDE DEF seg
  <1>10. RefInside(seg, r[last])
    BY <1>7, <1>8 DEF RefInside
  <1>11. WellBuilt(segments', relocations') /\ Len(segments') >= 1
    <2>1. /\ WellBuilt([t EXCEPT ![last] = seg], r)
          /\ Len([t EXCEPT ![last] = seg]) = Len(t)
      BY <1>2, <1>8, <1>10, SetWellBuilt
    <2>2. QED
      BY <1>2, <1>4, <1>9, <2>1 DEF last
  <1>12. QED
    BY <1>4, <1>11

LEMMA LoadNameType ==
  ASSUME LinkerInv, NEW path \in Outputs
  PROVE  LoadName(path) \in SegmentNames /\ basename(path) \in SegmentNames
  BY DEF LinkerInv, RestTypeOK, LoadName, SegmentNames

LEMMA NamedOK ==
  ASSUME LinkerInv, NEW path \in Outputs
  PROVE  WellBuilt(Named(path), relocations) /\ Len(Named(path)) >= 1
  <1>1. /\ Current \in 1 .. Len(segments) /\ Seg \in Segments /\ Seg.segnum = Current
        /\ RefInside(Seg, relocations[Current])
        /\ WellBuilt(segments, relocations) /\ Len(segments) >= 1
    BY CurrentOK DEF LinkerInv
  <1>2. CASE settings.lkv = 0
    BY <1>1, <1>2 DEF Named
  <1>3. CASE settings.lkv # 0
    <2> DEFINE seg == [Seg EXCEPT !.segname = basename(path), !.loadname = LoadName(path)]
    <2>1. Named(path) = [segments EXCEPT ![Current] = seg]
      BY <1>3 DEF Named, Seg
    <2>2. /\ seg \in Segments /\ seg.segnum = Current /\ seg.size = Seg.size
          /\ seg.relocs = Seg.relocs /\ seg.intersegs = Seg.intersegs
          /\ seg.patches = Seg.patches /\ seg.dropped = Seg.dropped
      BY <1>1, LoadNameType DEF Segments
    <2> HIDE DEF seg
    <2>3. RefInside(seg, relocations[Current])
      BY <1>1, <2>2 DEF RefInside
    <2>4. /\ WellBuilt([segments EXCEPT ![Current] = seg], relocations)
          /\ Len([segments EXCEPT ![Current] = seg]) = Len(segments)
      BY <1>1, <2>2, <2>3, SetWellBuilt
    <2>5. QED
      BY <1>1, <2>1, <2>4
  <1>4. QED
    BY <1>2, <1>3

(* Every way that SAV and END leave the vectors.                           *)
LEMMA SaveFailsOK ==
  ASSUME LinkerInv, SaveFails
  PROVE  /\ WellBuilt(segments', relocations') /\ Len(segments') >= 1
         /\ made' \in Nat /\ len_var' \in Nat /\ pos_var' \in Nat
         /\ exited' \in Statuses
  BY DEF SaveFails, LinkerInv, RestTypeOK, Statuses

LEMMA WrittenOK ==
  ASSUME LinkerInv, StartOver, Returns
  PROVE  /\ WellBuilt(segments', relocations') /\ Len(segments') >= 1
         /\ made' \in Nat /\ len_var' \in Nat /\ pos_var' \in Nat
         /\ exited' \in Statuses /\ save_file' = NoPath
  BY StartOverOK DEF Returns, LinkerInv, RestTypeOK

LEMMA ThrownOK ==
  ASSUME LinkerInv, NEW segs, NEW rels, WellBuilt(segs, rels), Len(segs) >= 1,
         NEW allow \in BOOLEAN,
         ResolveThrows(segs, rels, allow) \/ Finish3Throws(segs, rels)
  PROVE  /\ WellBuilt(segments', relocations') /\ Len(segments') >= 1
         /\ made' \in Nat /\ len_var' \in Nat /\ pos_var' \in Nat
         /\ exited' \in Statuses
  <1>1. made \in Nat /\ len_var \in Nat /\ pos_var \in Nat /\ exited \in Statuses
    BY DEF LinkerInv, RestTypeOK
  <1>2. CASE ResolveThrows(segs, rels, allow)
    BY <1>1, <1>2, ResolveThrowsOK
  <1>3. CASE Finish3Throws(segs, rels)
    BY <1>1, <1>3, Finish3ThrowsOK
  <1>4. QED
    BY <1>2, <1>3

LEMMA SavOK ==
  ASSUME LinkerInv, NEW path \in Outputs, Sav(path)
  PROVE  LinkerInv'
  <1> DEFINE segs == Named(path)
             Vectors == /\ WellBuilt(segments', relocations') /\ Len(segments') >= 1
                        /\ made' \in Nat /\ len_var' \in Nat /\ pos_var' \in Nat
                        /\ exited' \in Statuses
                        /\ save_file' \in Outputs \cup OutputOption \cup {NoPath}
  <1>1. WellBuilt(segs, relocations) /\ Len(segs) >= 1
    BY NamedOK
  <1>2. /\ NoPath \in Outputs \cup OutputOption \cup {NoPath}
        /\ Target(path) \in Outputs \cup OutputOption \cup {NoPath}
    BY DEF Target, LinkerInv, RestTypeOK
  <1> HIDE DEF segs
  <1>3. Vectors
    <2>1. CASE /\ settings.lkv = 2
               /\ AppendSegment(segs, relocations)
               /\ save_file' = Target(path)
               /\ Returns
      <3>1. exited' \in Statuses
        BY <2>1 DEF Returns, LinkerInv, RestTypeOK
      <3>2. /\ WellBuilt(segments', relocations') /\ Len(segments') >= 1
            /\ made' \in Nat /\ len_var' \in Nat /\ pos_var' \in Nat
        BY <1>1, <2>1, AppendSegmentOK
      <3>3. QED
        BY <1>2, <2>1, <3>1, <3>2
    <2>2. CASE StartOver /\ Returns
      BY <1>2, <2>2, WrittenOK
    <2>3. CASE SaveFails /\ save_file' = Target(path)
      BY <1>2, <2>3, SaveFailsOK
    <2>4. CASE /\ \E allow \in BOOLEAN : \/ ResolveThrows(segs, relocations, allow)
                                         \/ Finish3Throws(segs, relocations)
               /\ save_file' = Target(path)
      BY <1>1, <1>2, <2>4, ThrownOK
    <2>5. QED
      BY <2>1, <2>2, <2>3, <2>4
      DEF Sav, Finish, FinishFails, Finish3, Finish3Fails, segs
  <1>4. loadname' \in SegmentNames /\ script' = script /\ settings' = settings
        /\ lnk' = lnk /\ symbol_table' = symbol_table
        /\ local_symbol_table' = local_symbol_table
    BY LoadNameType DEF Sav, symbolVars
  <1>5. RestTypeOK'
    BY <1>3, <1>4 DEF LinkerInv, RestTypeOK
  <1>6. SymbolTypeOK'
    BY <1>4 DEF LinkerInv, SymbolTypeOK
  <1>7. QED
    BY <1>3, <1>5, <1>6 DEF LinkerInv

LEMMA EndLinkOK ==
  ASSUME LinkerInv, EndLink
  PROVE  LinkerInv'
  <1> DEFINE segs == AllButLast(segments)
             rels == AllButLast(relocations)
             Vectors == /\ WellBuilt(segments', relocations') /\ Len(segments') >= 1
                        /\ made' \in Nat /\ len_var' \in Nat /\ pos_var' \in Nat
                        /\ exited' \in Statuses
                        /\ save_file' \in Outputs \cup OutputOption \cup {NoPath}
  <1>1. WellBuilt(segs, rels)
    BY AllButLastWellBuilt DEF LinkerInv
  <1>2. save_file \in Outputs \cup OutputOption \cup {NoPath}
    BY DEF LinkerInv, RestTypeOK
  <1> HIDE DEF segs, rels
  <1>3. Vectors
    <2>1. CASE /\ Returns
               /\ UNCHANGED <<segments, relocations, save_file, len_var, pos_var, made, written>>
      BY <2>1 DEF LinkerInv, RestTypeOK, Returns
    <2>2. CASE StartOver /\ Returns
      BY <2>2, WrittenOK
    <2>3. CASE SaveFails /\ UNCHANGED save_file
      BY <1>2, <2>3, SaveFailsOK
    <2>4. CASE segs # <<>> /\ ResolveThrows(segs, rels, FALSE) /\ UNCHANGED save_file
      <3>1. segs \in Seq(Segments)
        BY <1>1 DEF WellBuilt
      <3>2. Len(segs) >= 1
        BY <2>4, <3>1
      <3>3. QED
        BY <1>1, <1>2, <2>4, <3>2, ThrownOK
    <2>5. QED
      BY <2>1, <2>2, <2>3, <2>4 DEF EndLink, Finish, FinishFails, segs, rels
  <1>4. loadname' = loadname /\ script' = script /\ settings' = settings
        /\ lnk' = lnk /\ symbol_table' = symbol_table
        /\ local_symbol_table' = local_symbol_table
    BY DEF EndLink, symbolVars
  <1>5. RestTypeOK'
    BY <1>3, <1>4 DEF LinkerInv, RestTypeOK
  <1>6. SymbolTypeOK'
    BY <1>4 DEF LinkerInv, SymbolTypeOK
  <1>7. QED
    BY <1>3, <1>5, <1>6 DEF LinkerInv

LEMMA FinishFilesOK ==
  ASSUME LinkerInv, FinishFiles
  PROVE  LinkerInv'
  <1>1. /\ script' = script /\ save_file' = save_file /\ loadname' = loadname
        /\ settings' = settings /\ lnk' = lnk /\ symbol_table' = symbol_table
        /\ local_symbol_table' = local_symbol_table
    BY DEF FinishFiles, symbolVars
  <1>2. /\ segments' = segments /\ relocations' = relocations /\ len_var' = len_var
        /\ pos_var' = pos_var /\ made' = made
    BY DEF FinishFiles, FinishFails, SaveFails
  <1>3. exited' \in Statuses
    BY DEF FinishFiles, FinishFails, SaveFails, Exits, Statuses
  <1>4. QED
    BY <1>1, <1>2, <1>3 DEF LinkerInv, RestTypeOK, SymbolTypeOK

LEMMA ExitsOK ==
  ASSUME LinkerInv, Exits(EX_FATAL), UNCHANGED <<progress, symbolVars>>
  PROVE  LinkerInv'
  BY DEF LinkerInv, RestTypeOK, SymbolTypeOK, Exits, Statuses, progress, symbolVars

(* The opcodes that store their operand: in settings or in the segment.    *)
LEMMA StoresOK ==
  ASSUME LinkerInv, NEW changes \in SettingsType, Stores(changes), exited' = exited,
         \/ segments' = segments
         \/ \E seg \in Segments :
              /\ segments' = [segments EXCEPT ![Current] = seg]
              /\ seg.segnum = Seg.segnum /\ seg.size = Seg.size
              /\ seg.relocs = Seg.relocs /\ seg.intersegs = Seg.intersegs
              /\ seg.patches = Seg.patches /\ seg.dropped = Seg.dropped
  PROVE  LinkerInv'
  <1>1. RestTypeOK' /\ SymbolTypeOK' /\ relocations' = relocations
    BY DEF Stores, LinkerInv, RestTypeOK, SymbolTypeOK, symbolVars
  <1>2. CASE segments' = segments
    BY <1>1, <1>2 DEF LinkerInv
  <1>3. ASSUME NEW seg \in Segments,
               segments' = [segments EXCEPT ![Current] = seg],
               seg.segnum = Seg.segnum /\ seg.size = Seg.size,
               seg.relocs = Seg.relocs /\ seg.intersegs = Seg.intersegs,
               seg.patches = Seg.patches /\ seg.dropped = Seg.dropped
        PROVE  LinkerInv'
    <2>1. /\ Current \in 1 .. Len(segments) /\ Seg.segnum = Current
          /\ RefInside(Seg, relocations[Current]) /\ WellBuilt(segments, relocations)
      BY CurrentOK
    <2>2. RefInside(seg, relocations[Current])
      BY <1>3, <2>1 DEF RefInside
    <2>3. seg.segnum = Current
      BY <1>3, <2>1
    <2>4. /\ WellBuilt([segments EXCEPT ![Current] = seg], relocations)
          /\ Len([segments EXCEPT ![Current] = seg]) = Len(segments)
      BY <2>1, <2>2, <2>3, SetWellBuilt
    <2>5. WellBuilt(segments', relocations') /\ Len(segments') >= 1
      BY <1>1, <1>3, <2>4 DEF LinkerInv
    <2>6. QED
      BY <1>1, <2>5 DEF LinkerInv
  <1>4. QED
    BY <1>2, <1>3

LEMMA SettingOK ==
  ASSUME LinkerInv, NEW value \in Int,
         \/ Lkv(value) \/ Ver(value) \/ Typ(value) \/ Adr(value)
  PROVE  LinkerInv'
  <1>1. settings \in SettingsType
    BY DEF LinkerInv, RestTypeOK
  <1>2. /\ value \in 0..3 => [settings EXCEPT !.lkv = value] \in SettingsType
        /\ value \in 1..2 => [settings EXCEPT !.ver = value] \in SettingsType
        /\ [settings EXCEPT !.ftype = value] \in SettingsType
        /\ [settings EXCEPT !.atype = value] \in SettingsType
    BY <1>1 DEF SettingsType
  <1>3. segments' = segments /\ exited' = exited
    BY DEF Lkv, Ver, Typ, Adr, Returns, Throws
  <1>4. \E changes \in SettingsType : Stores(changes)
    BY <1>1, <1>2 DEF Lkv, Ver, Typ, Adr
  <1>5. QED
    BY <1>3, <1>4, StoresOK

LEMMA AttributeOK ==
  ASSUME LinkerInv, NEW value \in Int,
         \/ Org(value) \/ Knd(value) \/ Ali(value) \/ Ds(value)
  PROVE  LinkerInv'
  <1>1. settings \in SettingsType /\ Seg \in Segments
    BY CurrentOK DEF LinkerInv, RestTypeOK
  <1>2. [settings EXCEPT !.org = value, !.atype = value] \in SettingsType
    BY <1>1 DEF SettingsType
  <1>3. exited' = exited
    BY DEF Org, Knd, Ali, Ds, Returns, Throws
  <1>4. \E changes \in SettingsType : Stores(changes)
    BY <1>1, <1>2 DEF Org, Knd, Ali, Ds
  <1> DEFINE Kept(seg) == /\ seg.segnum = Seg.segnum /\ seg.size = Seg.size
                          /\ seg.relocs = Seg.relocs /\ seg.intersegs = Seg.intersegs
                          /\ seg.patches = Seg.patches /\ seg.dropped = Seg.dropped
  <1>5. /\ [Seg EXCEPT !.org = value] \in Segments /\ Kept([Seg EXCEPT !.org = value])
        /\ [Seg EXCEPT !.kind = value] \in Segments /\ Kept([Seg EXCEPT !.kind = value])
    BY <1>1 DEF Segments
  <1>6. /\ [Seg EXCEPT !.alignment = value] \in Segments
        /\ Kept([Seg EXCEPT !.alignment = value])
        /\ [Seg EXCEPT !.reserved_space = value] \in Segments
        /\ Kept([Seg EXCEPT !.reserved_space = value])
    BY <1>1 DEF Segments
  <1>7. \/ segments' = segments
        \/ segments' = [segments EXCEPT ![Current] = [Seg EXCEPT !.org = value]]
        \/ segments' = [segments EXCEPT ![Current] = [Seg EXCEPT !.kind = value]]
        \/ segments' = [segments EXCEPT ![Current] = [Seg EXCEPT !.alignment = value]]
        \/ segments' = [segments EXCEPT ![Current] = [Seg EXCEPT !.reserved_space = value]]
    BY DEF Org, Knd, Ali, Ds, Seg
  <1> HIDE DEF Kept
  <1>8. segments' = segments \/ \E seg \in Segments :
                                   /\ segments' = [segments EXCEPT ![Current] = seg]
                                   /\ Kept(seg)
    BY <1>5, <1>6, <1>7
  <1>9. QED
    BY <1>3, <1>4, <1>8, StoresOK DEF Kept

(* The opcodes that define a name.                                         *)
LEMMA DefineLabelOK ==
  ASSUME LinkerInv, NEW name \in Names, NEW value \in Int, NEW type,
         DefineLabel(name, value, type)
  PROVE  LinkerInv'
  <1>1. SymbolTypeOK'
    BY DefineType DEF DefineLabel, LinkerInv
  <1>2. QED
    BY <1>1 DEF LinkerInv, RestTypeOK, DefineLabel, Returns, progress

LEMMA NothingOK ==
  ASSUME LinkerInv, exited' = exited, UNCHANGED <<progress, symbolVars>>
  PROVE  LinkerInv'
  BY DEF LinkerInv, RestTypeOK, SymbolTypeOK, progress, symbolVars

LEMMA NameOK ==
  ASSUME LinkerInv, NEW name \in Names, LenLabel(name) \/ PosLabel(name) \/ Ext(name)
  PROVE  LinkerInv'
  <1>1. len_var \in Int /\ pos_var \in Int
    BY DEF LinkerInv, RestTypeOK
  <1>2. CASE LenLabel(name) \/ PosLabel(name)
    BY <1>1, <1>2, DefineLabelOK DEF LenLabel, PosLabel
  <1>3. CASE Ext(name) /\ Known(name) /\ symbol_table[name].absolute
    <2>1. symbol_table[name].value \in Int
      BY <1>3 DEF LinkerInv, SymbolTypeOK, Known, Symbol
    <2>2. QED
      BY <1>1, <1>3, <2>1, DefineLabelOK DEF Ext
  <1>4. CASE Ext(name) /\ ~(Known(name) /\ symbol_table[name].absolute)
    BY <1>4, NothingOK DEF Ext, Throws
  <1>5. QED
    BY <1>2, <1>3, <1>4

LEMMA ValueOK ==
  ASSUME LinkerInv, NEW name \in Names, NEW value \in Int,
         Equ(name, value) \/ Eq(name, value) \/ Geq(name, value) \/ Kbd(name, value)
  PROVE  LinkerInv'
  <1>1. CASE \E type : DefineLabel(name, value, type)
    BY <1>1, DefineLabelOK
  <1>2. CASE exited' = exited /\ UNCHANGED <<progress, symbolVars>>
    BY <1>2, NothingOK
  <1>3. QED
    BY <1>1, <1>2 DEF Equ, Eq, Geq, Kbd, Returns

LEMMA PosResetOK ==
  ASSUME LinkerInv, PosReset
  PROVE  LinkerInv'
  BY DEF LinkerInv, RestTypeOK, SymbolTypeOK, PosReset, Returns, symbolVars
-----------------------------------------------------------------------------
(* The calls of the linker that a line or a path of the command line makes,*)
(* with any operand.                                                       *)
Stored(value) ==
  \/ Lkv(value) \/ Ver(value) \/ Typ(value) \/ Adr(value)
Attributed(value) ==
  \/ Org(value) \/ Knd(value) \/ Ali(value) \/ Ds(value)
Valued(name, value) ==
  \/ Equ(name, value) \/ Eq(name, value) \/ Geq(name, value) \/ Kbd(name, value)
Taken(name) ==
  \/ LenLabel(name) \/ PosLabel(name) \/ Ext(name)

Call ==
  \/ \E u \in Units : LinkUnit(u) \/ LinkFails(u)
  \/ \E b \in Binaries : Import(b) \/ ImportFails(b)
  \/ \E path \in Outputs : Sav(path)
  \/ EndLink
  \/ \E value \in Int : Stored(value) \/ Attributed(value)
  \/ \E name \in Names : Taken(name)
  \/ \E name \in Names, value \in Int : Valued(name, value)
  \/ PosReset

(* What a step is to the linker, whoever drives it: a call, the end of the *)
(* list of files, or something that leaves it alone, exit() included.      *)
LinkerStep ==
  \/ /\ exited' \in {exited} \cup (Statuses \ {Running})
     /\ UNCHANGED <<progress, symbolVars>>
  \/ exited = Running /\ (Call \/ FinishFiles)

(* The linker alone makes such steps, with the operands of the model.      *)
LEMMA ScriptCalls == ASSUME ScriptCall PROVE Call
  <1>1. Operands["LKV"] \subseteq Int /\ Operands["VER"] \subseteq Int
        /\ Operands["TYP"] \subseteq Int /\ Operands["ADR"] \subseteq Int
    BY ScriptAssumption
  <1>2. Operands["ORG"] \subseteq Int /\ Operands["KND"] \subseteq Int
        /\ Operands["ALI"] \subseteq Int /\ Operands["DS"] \subseteq Int
    BY ScriptAssumption
  <1>3. Operands["GEQ"] \subseteq Int /\ Defined \subseteq Names
    BY ScriptAssumption
  <1>4. CASE \E value \in Int : Stored(value) \/ Attributed(value)
    BY <1>4 DEF Call
  <1>5. CASE \E name \in Names : Taken(name)
    BY <1>5 DEF Call
  <1>6. CASE \E name \in Names, value \in Int : Valued(name, value)
    BY <1>6 DEF Call
  <1>7. CASE \/ \E b \in Binaries : Import(b) \/ ImportFails(b)
             \/ \E path \in Outputs : Sav(path)
             \/ EndLink \/ PosReset
    BY <1>7 DEF Call
  <1>8. QED
    BY <1>1, <1>2, <1>3, <1>4, <1>5, <1>6, <1>7
       DEF ScriptCall, Stored, Attributed, Taken, Valued

LEMMA NextSteps == [LinkerNext]_linkerVars => LinkerStep
  <1> SUFFICES ASSUME [LinkerNext]_linkerVars PROVE LinkerStep
    OBVIOUS
  <1>1. CASE UNCHANGED linkerVars
    BY <1>1 DEF LinkerStep, linkerVars, core
  <1>2. CASE LinkerNext
    <2>1. LinkAny => Call
      BY DEF LinkAny, Call
    <2>2. QED
      BY <1>2, <2>1, ScriptCalls DEF LinkerNext, LinkerStep
  <1>3. QED
    BY <1>1, <1>2

LEMMA CallOK == ASSUME LinkerInv, Call PROVE LinkerInv'
  <1>1. ASSUME NEW u \in Units, LinkUnit(u) \/ LinkFails(u) PROVE LinkerInv'
    BY <1>1, LinkUnitOK, ExitsOK DEF LinkFails
  <1>2. ASSUME NEW b \in Binaries, Import(b) \/ ImportFails(b) PROVE LinkerInv'
    BY <1>2, ImportOK, ExitsOK DEF ImportFails
  <1>3. ASSUME NEW path \in Outputs, Sav(path) PROVE LinkerInv'
    BY <1>3, SavOK
  <1>4. ASSUME NEW value \in Int, Stored(value) \/ Attributed(value) PROVE LinkerInv'
    BY <1>4, SettingOK, AttributeOK DEF Stored, Attributed
  <1>5. ASSUME NEW name \in Names, Taken(name) PROVE LinkerInv'
    BY <1>5, NameOK DEF Taken
  <1>6. ASSUME NEW name \in Names, NEW value \in Int, Valued(name, value) PROVE LinkerInv'
    BY <1>6, ValueOK DEF Valued
  <1>7. QED
    BY <1>1, <1>2, <1>3, <1>4, <1>5, <1>6, EndLinkOK, PosResetOK DEF Call

LEMMA StepOK == LinkerInv /\ LinkerStep => LinkerInv'
  <1> SUFFICES ASSUME LinkerInv, LinkerStep PROVE LinkerInv'
    OBVIOUS
  <1>1. ASSUME exited' \in {exited} \cup (Statuses \ {Running}), UNCHANGED <<progress, symbolVars>>
        PROVE  LinkerInv'
    BY <1>1 DEF LinkerInv, RestTypeOK, SymbolTypeOK, progress, symbolVars
  <1>2. QED
    BY <1>1, CallOK, FinishFilesOK DEF LinkerStep

LEMMA ShapeOfInv == LinkerInv => LinkerTypeOK /\ VectorsParallel /\ FieldsInside
  <1> SUFFICES ASSUME LinkerInv PROVE LinkerTypeOK /\ VectorsParallel /\ FieldsInside
    OBVIOUS
  <1>1. /\ segments \in Seq(Segments) /\ relocations \in Seq(SUBSET RefRecords)
        /\ Len(relocations) = Len(segments) /\ DOMAIN segments = 1 .. Len(segments)
    BY DEF LinkerInv, WellBuilt
  <1>2. LinkerTypeOK
    BY <1>1 DEF LinkerInv, RestTypeOK, SettingsType, LinkerTypeOK
  <1>3. VectorsParallel
    BY <1>1 DEF LinkerInv, WellBuilt, VectorsParallel
  <1>4. FieldsInside
    BY <1>1 DEF LinkerInv, WellBuilt, RefInside, FieldsInside
  <1>5. QED
    BY <1>2, <1>3, <1>4

(* Types, parallel vectors and fields inside the data, in every state.     *)
THEOREM LinkerShape ==
  LinkerSpec => [](LinkerTypeOK /\ VectorsParallel /\ FieldsInside)
  BY ShapeOfInv, InitOK, NextSteps, StepOK, PTL DEF LinkerSpec
-----------------------------------------------------------------------------
(* The symbol tables again: what a step may not do to a definition.        *)
SymbolsKeep ==
  /\ \A n \in DOMAIN symbol_table :
       symbol_table[n].defined => /\ n \in DOMAIN symbol_table'
                                  /\ symbol_table'[n] = symbol_table[n]
  /\ \A n \in DOMAIN local_symbol_table :
       /\ n \in DOMAIN local_symbol_table'
       /\ local_symbol_table'[n] = local_symbol_table[n]

LEMMA InsertedKeeps ==
  ASSUME NEW E, NEW entries, DOMAIN entries = E,
         \A n \in E : Lookup(n).defined => entries[n] = Lookup(n)
  PROVE  \A n \in DOMAIN symbol_table :
           symbol_table[n].defined => /\ n \in DOMAIN Inserted(entries)
                                      /\ Inserted(entries)[n] = symbol_table[n]
  BY DEF Inserted, Lookup, Known

LEMMA LinkUnitKeeps == ASSUME NEW u \in Units, LinkUnit(u) PROVE SymbolsKeep
  <1> DEFINE E == DOMAIN Rel[u].labels
             entries == [n \in E |-> Labelled(Lookup(n), Rel[u].labels[n], Seg.size)]
  <1>1. symbol_table' = Inserted(entries) /\ local_symbol_table' = local_symbol_table
    BY DEF LinkUnit
  <1>2. /\ DOMAIN entries = E
        /\ \A n \in E : Lookup(n).defined => entries[n] = Lookup(n)
    BY DEF Labelled
  <1> HIDE DEF entries, E
  <1>3. QED
    BY <1>1, <1>2, InsertedKeeps DEF SymbolsKeep

LEMMA ImportKeeps == ASSUME NEW b \in Binaries, Import(b) PROVE SymbolsKeep
  <1> DEFINE name == EntryName[basename(b)]
             entry == [n \in {name} |->
                         [Lookup(n) EXCEPT !.defined = TRUE, !.value = Seg.size,
                                           !.segment = Seg.segnum, !.home = Seg.number]]
  <1>1. local_symbol_table' = local_symbol_table
    BY DEF Import
  <1>2. CASE Lookup(name).defined
    BY <1>1, <1>2 DEF Import, SymbolsKeep
  <1>3. CASE ~Lookup(name).defined
    <2>1. symbol_table' = Inserted(entry)
      BY <1>3 DEF Import
    <2>2. /\ DOMAIN entry = {name}
          /\ \A n \in {name} : Lookup(n).defined => entry[n] = Lookup(n)
      BY <1>3
    <2> HIDE DEF entry
    <2>3. QED
      BY <1>1, <2>1, <2>2, InsertedKeeps DEF SymbolsKeep
  <1>4. QED
    BY <1>2, <1>3

LEMMA DefineKeeps ==
  ASSUME NEW name, NEW value, NEW type, Define(name, value, type)
  PROVE  SymbolsKeep
  <1> DEFINE entry == [n \in {name} |-> Equate(Lookup(n), value)]
  <1>1. /\ DOMAIN entry = {name}
        /\ \A n \in {name} : Lookup(n).defined => entry[n] = Lookup(n)
    BY DEF Equate
  <1>2. symbol_table' = Inserted(entry) \/ symbol_table' = symbol_table
    BY DEF Define
  <1> HIDE DEF entry
  <1>3. \A n \in DOMAIN symbol_table :
          symbol_table[n].defined => /\ n \in DOMAIN symbol_table'
                                     /\ symbol_table'[n] = symbol_table[n]
    BY <1>1, <1>2, InsertedKeeps
  <1>4. \A n \in DOMAIN local_symbol_table :
          /\ n \in DOMAIN local_symbol_table'
          /\ local_symbol_table'[n] = local_symbol_table[n]
    BY DEF Define
  <1>5. QED
    BY <1>3, <1>4 DEF SymbolsKeep

LEMMA UnchangedKeeps == ASSUME UNCHANGED symbolVars PROVE SymbolsKeep
  BY DEF SymbolsKeep, symbolVars

LEMMA StepKeeps == LinkerStep => SymbolsKeep
  <1> SUFFICES ASSUME LinkerStep PROVE SymbolsKeep
    OBVIOUS
  <1>1. ASSUME NEW u \in Units, LinkUnit(u) \/ LinkFails(u) PROVE SymbolsKeep
    BY <1>1, LinkUnitKeeps, UnchangedKeeps DEF LinkFails
  <1>2. ASSUME NEW b \in Binaries, Import(b) \/ ImportFails(b) PROVE SymbolsKeep
    BY <1>2, ImportKeeps, UnchangedKeeps DEF ImportFails
  <1>3. CASE \E name, value, type : DefineLabel(name, value, type)
    BY <1>3, DefineKeeps DEF DefineLabel
  <1>4. CASE UNCHANGED symbolVars
    BY <1>4, UnchangedKeeps
  <1>5. ASSUME NEW path \in Outputs, Sav(path) PROVE SymbolsKeep
    BY <1>4, <1>5 DEF Sav
  <1>6. CASE EndLink \/ FinishFiles \/ PosReset
    BY <1>4, <1>6 DEF EndLink, FinishFiles, PosReset
  <1>7. ASSUME NEW value, Stored(value) \/ Attributed(value) PROVE SymbolsKeep
    <2>1. \E changes : Stores(changes)
      BY <1>7 DEF Stored, Attributed, Lkv, Ver, Typ, Adr, Org, Knd, Ali, Ds
    <2>2. QED
      BY <1>4, <2>1 DEF Stores
  <1>8. ASSUME NEW name, Taken(name) PROVE SymbolsKeep
    BY <1>3, <1>4, <1>8 DEF Taken, LenLabel, PosLabel, Ext
  <1>9. ASSUME NEW name, NEW value, Valued(name, value) PROVE SymbolsKeep
    BY <1>3, <1>4, <1>9 DEF Valued, Equ, Eq, Geq, Kbd
  <1>10. Call => SymbolsKeep
    BY <1>1, <1>2, <1>5, <1>6, <1>7, <1>8, <1>9 DEF Call
  <1>11. QED
    BY <1>4, <1>6, <1>10 DEF LinkerStep

(* The first definition of a symbol stays, for every input.                *)
THEOREM FirstDefinition == LinkerSpec => FirstDefinitionStays
  <1>1. [LinkerNext]_linkerVars => [SymbolsKeep]_linkerVars
    BY NextSteps, StepKeeps
  <1>2. QED
    BY <1>1, PTL DEF LinkerSpec, FirstDefinitionStays, SymbolsKeep
=============================================================================
