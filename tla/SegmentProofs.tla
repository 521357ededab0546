---------------------------- MODULE SegmentProofs ---------------------------
(***************************************************************************)
(* What becomes of the segments, step by step: their numbers tell apart    *)
(* those being built and those written, a closed one keeps its files and   *)
(* attributes, and one that holds a file leaves the linker in a written    *)
(* file.                                                                   *)
(***************************************************************************)
EXTENDS LinkerProofs

Below(numbers, top) == \A n \in numbers : n \in Nat /\ n <= top

OnceInv ==
  /\ \E Files : written \in Seq(Files)
  /\ Below(Numbers(segments), made)
  /\ \A i \in DOMAIN written : Below(Numbers(written[i].segs), made)
  /\ WrittenOnce

(* A step that writes nothing keeps the segments or makes one more.        *)
Builds ==
  /\ written' = written
  /\ \/ made' = made /\ Numbers(segments') \subseteq Numbers(segments)
     \/ /\ made' = made + 1
        /\ Numbers(segments') \subseteq Numbers(segments) \cup {made + 1}

(* A step that writes a file out of the segments clears them or exits.     *)
WritesOut(out) ==
  /\ Numbers(out.segs) \subseteq Numbers(segments)
  /\ written' = Append(written, out)
  /\ \/ made' = made + 1 /\ Numbers(segments') = {made + 1}
     \/ exited' # Running /\ made' = made /\ segments' = segments

LEMMA BuildsOnce ==
  ASSUME OnceInv, made \in Nat, exited = Running, Builds
  PROVE  OnceInv'
  <1>1. /\ \E Files : written' \in Seq(Files)
        /\ made' \in Nat /\ made <= made'
    BY DEF OnceInv, Builds
  <1>2. Below(Numbers(segments'), made')
    BY <1>1 DEF OnceInv, Builds, Below
  <1>3. \A i \in DOMAIN written' : Below(Numbers(written'[i].segs), made')
    BY <1>1 DEF OnceInv, Builds, Below
  <1>4. \A i, j \in DOMAIN written' :
          i # j => Numbers(written'[i].segs) \cap Numbers(written'[j].segs) = {}
    BY DEF OnceInv, Builds, WrittenOnce
  <1>5. ASSUME NEW i \in DOMAIN written'
        PROVE  Numbers(written'[i].segs) \cap Numbers(segments') = {}
    <2>1. /\ i \in DOMAIN written /\ written'[i] = written[i]
          /\ Numbers(written[i].segs) \cap Numbers(segments) = {}
          /\ Below(Numbers(written[i].segs), made)
      BY DEF OnceInv, Builds, WrittenOnce
    <2>2. made + 1 \notin Numbers(written[i].segs)
      BY <2>1 DEF Below
    <2>3. QED
      BY <2>1, <2>2 DEF Builds
  <1>6. WrittenOnce'
    BY <1>4, <1>5 DEF WrittenOnce
  <1>7. QED
    BY <1>1, <1>2, <1>3, <1>6 DEF OnceInv

LEMMA OutputsOnce ==
  ASSUME OnceInv, made \in Nat, exited = Running, NEW out, WritesOut(out)
  PROVE  OnceInv'
  <1>1. PICK Files : written \in Seq(Files)
    BY DEF OnceInv
  <1> DEFINE last == Len(written) + 1
  <1>2. /\ written \in Seq(Files \cup {out}) /\ Len(written) \in Nat
        /\ written' = Append(written, out)
    BY <1>1 DEF WritesOut
  <1>3. /\ written' \in Seq(Files \cup {out})
        /\ DOMAIN written = 1 .. Len(written) /\ DOMAIN written' = 1 .. last
        /\ written'[last] = out
        /\ \A i \in DOMAIN written : written'[i] = written[i]
    BY <1>2
  <1>4. \A i \in DOMAIN written' : i = last \/ i \in DOMAIN written
    BY <1>2, <1>3
  <1>5. made' \in Nat /\ made <= made'
    BY DEF WritesOut
  <1>6. Below(Numbers(out.segs), made)
    BY DEF OnceInv, WritesOut, Below
  <1>7. \A i \in DOMAIN written' : Below(Numbers(written'[i].segs), made)
    BY <1>3, <1>4, <1>6 DEF OnceInv
  <1>8. \A i \in DOMAIN written' : Below(Numbers(written'[i].segs), made')
    BY <1>5, <1>7 DEF Below
  <1>9. Below(Numbers(segments'), made')
    BY <1>5 DEF WritesOut, OnceInv, Below
  <1>10. \A i \in DOMAIN written : Numbers(written[i].segs) \cap Numbers(out.segs) = {}
    BY DEF OnceInv, WrittenOnce, WritesOut
  <1>11. \A i, j \in DOMAIN written' :
           i # j => Numbers(written'[i].segs) \cap Numbers(written'[j].segs) = {}
    <2> SUFFICES ASSUME NEW i \in DOMAIN written', NEW j \in DOMAIN written', i # j
                 PROVE  Numbers(written'[i].segs) \cap Numbers(written'[j].segs) = {}
      OBVIOUS
    <2> HIDE DEF last
    <2>1. CASE i \in DOMAIN written /\ j \in DOMAIN written
      BY <2>1, <1>3 DEF OnceInv, WrittenOnce
    <2>2. CASE i \in DOMAIN written /\ j = last
      BY <2>2, <1>3, <1>10
    <2>3. CASE i = last /\ j \in DOMAIN written
      BY <2>3, <1>3, <1>10
    <2>4. QED
      BY <2>1, <2>2, <2>3, <1>4
  <1>12. ASSUME exited' = Running, NEW i \in DOMAIN written'
         PROVE  Numbers(written'[i].segs) \cap Numbers(segments') = {}
    <2>1. Numbers(segments') = {made + 1}
      BY <1>12 DEF WritesOut
    <2>2. made + 1 \notin Numbers(written'[i].segs)
      BY <1>7 DEF Below
    <2>3. QED
      BY <2>1, <2>2
  <1>13. WrittenOnce'
    BY <1>11, <1>12 DEF WrittenOnce
  <1>14. QED
    BY <1>3, <1>8, <1>9, <1>13 DEF OnceInv
-----------------------------------------------------------------------------
(* The numbers of a vector through the operations on it.                   *)
LEMMA SetNumbers ==
  ASSUME NEW segs \in Seq(Segments), NEW k \in 1 .. Len(segs), NEW seg,
         seg.number = segs[k].number
  PROVE  Numbers([segs EXCEPT ![k] = seg]) = Numbers(segs)
  BY DEF Numbers

LEMMA ResolvedNumbers ==
  ASSUME NEW segs \in Seq(Segments), NEW rels, NEW allow
  PROVE  /\ Numbers(Resolved(segs, rels, allow)) = Numbers(segs)
         /\ DOMAIN Resolved(segs, rels, allow) = DOMAIN segs
         /\ Len(Resolved(segs, rels, allow)) = Len(segs)
         /\ \A ix \in DOMAIN segs : Resolved(segs, rels, allow)[ix].number = segs[ix].number
  <1> DEFINE t == Resolved(segs, rels, allow)
  <1>1. ASSUME NEW ix \in DOMAIN segs PROVE t[ix].number = segs[ix].number
    <2>1. segs[ix] \in Segments
      OBVIOUS
    <2>2. ResolvedSegment(segs[ix], rels[ix], allow).number = segs[ix].number
      BY <2>1 DEF ResolvedSegment, Segments
    <2>3. QED
      BY <2>2 DEF Resolved
  <1>2. t = [ix \in 1 .. Len(segs) |-> t[ix]] /\ DOMAIN t = DOMAIN segs
    BY DEF Resolved
  <1> HIDE DEF t
  <1>3. Len(t) = Len(segs)
    BY <1>2
  <1>4. Numbers(t) = Numbers(segs)
    BY <1>1, <1>2 DEF Numbers
  <1>5. QED
    BY <1>1, <1>2, <1>3, <1>4 DEF t

(* The last segment, alone, or all of them go into a file.                 *)
LEMMA FileNumbers ==
  ASSUME NEW segs \in Seq(Segments), Len(segs) >= 1, NEW rels,
         NEW path, NEW form, NEW whole \in BOOLEAN, NEW allow, NEW unresolved,
         NEW ftype, NEW atype,
         LET done == Resolved(segs, rels, allow) IN
         Writes(path, form, IF whole THEN done ELSE <<done[Len(segs)]>>,
                unresolved, ftype, atype)
  PROVE  \E out : Numbers(out.segs) \subseteq Numbers(segs) /\ written' = Append(written, out)
  <1> DEFINE done == Resolved(segs, rels, allow)
             held == IF whole THEN done ELSE <<done[Len(segs)]>>
             out == [path |-> OutputPath(path), form |-> form, segs |-> held,
                     unresolved |-> unresolved, ver |-> settings.ver,
                     ftype |-> ftype, atype |-> atype]
  <1>1. written' = Append(written, out)
    BY DEF Writes
  <1>2. Numbers(done) = Numbers(segs) /\ DOMAIN done = DOMAIN segs
    BY ResolvedNumbers
  <1>3. Len(segs) \in DOMAIN segs
    OBVIOUS
  <1> HIDE DEF done
  <1>4. Numbers(held) \subseteq Numbers(segs)
    <2>1. CASE whole
      BY <2>1, <1>2
    <2>2. CASE ~whole
      <3>1. Numbers(held) = {done[Len(segs)].number}
        BY <2>2 DEF Numbers
      <3>2. done[Len(segs)].number \in Numbers(done)
        BY <1>2, <1>3 DEF Numbers
      <3>3. QED
        BY <3>1, <3>2, <1>2
    <2>3. QED
      BY <2>1, <2>2
  <1>5. out.segs = held
    OBVIOUS
  <1> HIDE DEF out, held
  <1>6. QED
    BY <1>1, <1>4, <1>5

LEMMA FinishNumbers ==
  ASSUME NEW segs \in Seq(Segments), Len(segs) >= 1, NEW rels, NEW path,
         FinishWrites(path, segs, rels) \/ Finish3Writes(path, segs, rels)
  PROVE  \E out : Numbers(out.segs) \subseteq Numbers(segs) /\ written' = Append(written, out)
  <1>1. \A allow : Len(Resolved(segs, rels, allow)) = Len(segs)
    BY ResolvedNumbers
  <1>2. CASE Finish3Writes(path, segs, rels)
    <2>1. LET done == Resolved(segs, rels, TRUE) IN
          Writes(path, "object", IF FALSE THEN done ELSE <<done[Len(segs)]>>,
                 Unresolved(segs, rels, TRUE)[Len(segs)], OBJ, 0)
      BY <1>2 DEF Finish3Writes
    <2>2. QED
      BY <2>1, FileNumbers
  <1>3. CASE FinishWrites(path, segs, rels) /\ settings.lkv = 0
    <2>1. LET done == Resolved(segs, rels, FALSE) IN
          Writes(path, "bin", IF FALSE THEN done ELSE <<done[Len(segs)]>>,
                 {}, settings.ftype, settings.atype)
      BY <1>1, <1>3 DEF FinishWrites
    <2>2. QED
      BY <2>1, FileNumbers
  <1>4. CASE FinishWrites(path, segs, rels) /\ settings.lkv # 0
    <2>1. LET done == Resolved(segs, rels, FALSE) IN
          Writes(path, "omf", IF TRUE THEN done ELSE <<done[Len(segs)]>>,
                 {}, settings.ftype, settings.atype)
      BY <1>4 DEF FinishWrites
    <2>2. QED
      BY <2>1, FileNumbers
  <1>5. QED
    BY <1>2, <1>3, <1>4

LEMMA AppendNumbers ==
  ASSUME NEW segs \in Seq(Segments), NEW rels, made \in Nat, AppendSegment(segs, rels)
  PROVE  /\ made' = made + 1
         /\ Numbers(segments') = Numbers(segs) \cup {made + 1}
  <1> DEFINE seg == NewSegment(made + 1, Len(segs) + 1)
  <1>1. seg \in Segments
    BY NewSegmentType
  <1>2. seg.number = made + 1
    BY DEF NewSegment
  <1>3. segments' = Append(segs, seg) /\ made' = made + 1
    BY DEF AppendSegment
  <1> HIDE DEF seg
  <1>4. /\ DOMAIN segments' = 1 .. Len(segs) + 1 /\ segments'[Len(segs) + 1] = seg
        /\ \A ix \in 1 .. Len(segs) : segments'[ix] = segs[ix]
        /\ Len(segs) \in Nat /\ DOMAIN segs = 1 .. Len(segs)
    BY <1>1, <1>3
  <1>5. QED
    BY <1>2, <1>3, <1>4 DEF Numbers

LEMMA StartOverNumbers ==
  ASSUME made \in Nat, StartOver
  PROVE  made' = made + 1 /\ Numbers(segments') = {made + 1}
  <1>1. Numbers(<<>>) = {} /\ <<>> \in Seq(Segments)
    BY DEF Numbers
  <1>2. QED
    BY <1>1, AppendNumbers DEF StartOver

LEMMA NamedNumbers ==
  ASSUME LinkerInv, NEW path
  PROVE  Numbers(Named(path)) = Numbers(segments)
  <1>1. /\ segments \in Seq(Segments) /\ Current \in 1 .. Len(segments)
        /\ Seg \in Segments /\ Seg = segments[Current]
    BY CurrentOK DEF LinkerInv, WellBuilt, Seg
  <1> DEFINE seg == [Seg EXCEPT !.segname = basename(path), !.loadname = LoadName(path)]
  <1>2. Named(path) = segments \/ Named(path) = [segments EXCEPT ![Current] = seg]
    BY DEF Named, Seg
  <1>3. seg.number = segments[Current].number
    BY <1>1 DEF Segments
  <1> HIDE DEF seg
  <1>4. QED
    BY <1>1, <1>2, <1>3, SetNumbers

LEMMA AllButLastNumbers ==
  ASSUME NEW segs \in Seq(Segments), Len(segs) >= 1
  PROVE  Numbers(AllButLast(segs)) \subseteq Numbers(segs)
  <1>1. /\ DOMAIN AllButLast(segs) = 1 .. Len(segs) - 1
        /\ \A ix \in 1 .. Len(segs) - 1 : AllButLast(segs)[ix] = segs[ix]
    BY DEF AllButLast
  <1>2. QED
    BY <1>1 DEF Numbers
-----------------------------------------------------------------------------
(* Every step builds or writes.                                            *)
OnceStep == Builds \/ \E out : WritesOut(out)

LEMMA ThrowBuilds ==
  ASSUME LinkerInv, NEW segs, NEW rels, WellBuilt(segs, rels), Len(segs) >= 1,
         Numbers(segs) \subseteq Numbers(segments), NEW allow \in BOOLEAN,
         ResolveThrows(segs, rels, allow) \/ Finish3Throws(segs, rels)
  PROVE  OnceStep
  <1>1. SymbolTypeOK /\ segs \in Seq(Segments)
    BY DEF LinkerInv, WellBuilt
  <1>2. CASE ResolveThrows(segs, rels, allow)
    BY <1>1, <1>2, ResolvedNumbers DEF ResolveThrows, OnceStep, Builds
  <1>3. CASE Finish3Throws(segs, rels)
    <2> DEFINE t == Resolved(segs, rels, TRUE)
    <2>0. /\ WellBuilt(t, Unresolved(segs, rels, TRUE)) /\ Len(t) = Len(segs)
          /\ Numbers(t) = Numbers(segs)
      <3>1. WellBuilt(t, Unresolved(segs, rels, TRUE)) /\ Len(t) = Len(segs)
        BY <1>1, ResolvedWellBuilt
      <3>2. Numbers(t) = Numbers(segs)
        BY <1>1, ResolvedNumbers
      <3>3. QED
        BY <3>1, <3>2
    <2>2. PICK size \in EncodedSizes :
            segments' = [t EXCEPT ![Len(segs)] =
                           [t[Len(segs)] EXCEPT !.size = size, !.encoded = TRUE]]
      BY <1>3 DEF Finish3Throws
    <2>3. made' = made /\ written' = written
      BY <1>3 DEF Finish3Throws
    <2> HIDE DEF t
    <2>1. t \in Seq(Segments) /\ Len(segs) \in 1 .. Len(t) /\ Numbers(t) = Numbers(segs)
      BY <1>1, <2>0 DEF WellBuilt
    <2> DEFINE seg == [t[Len(segs)] EXCEPT !.size = size, !.encoded = TRUE]
    <2>4. t[Len(segs)] \in Segments
      BY <2>1
    <2>5. seg.number = t[Len(segs)].number
      BY <2>4 DEF Segments
    <2>6. segments' = [t EXCEPT ![Len(segs)] = seg]
      BY <2>2
    <2> HIDE DEF seg
    <2>7. Numbers(segments') = Numbers(t)
      BY <2>1, <2>5, <2>6, SetNumbers
    <2>8. QED
      BY <2>1, <2>3, <2>7 DEF OnceStep, Builds
  <1>4. QED
    BY <1>2, <1>3

LEMMA FinishOnce ==
  ASSUME made \in Nat, NEW segs \in Seq(Segments), Len(segs) >= 1, NEW rels, NEW path,
         Numbers(segs) \subseteq Numbers(segments),
         \/ Finish(path, segs, rels) /\ StartOver
         \/ Finish3(path, segs, rels) /\ StartOver
         \/ FinishFails(path, segs, rels)
         \/ Finish3Fails(path, segs, rels)
  PROVE  OnceStep
  <1>1. CASE (FinishWrites(path, segs, rels) \/ Finish3Writes(path, segs, rels)) /\ StartOver
    BY <1>1, FinishNumbers, StartOverNumbers DEF OnceStep, WritesOut
  <1>2. CASE /\ FinishWrites(path, segs, rels) \/ Finish3Writes(path, segs, rels)
             /\ SaveFails
    <2>1. exited' # Running /\ made' = made /\ segments' = segments
      BY <1>2 DEF SaveFails, Running, EX_CANTCREAT, EX_OSERR
    <2>2. QED
      BY <1>2, <2>1, FinishNumbers DEF OnceStep, WritesOut
  <1>3. CASE SaveFails /\ written' = written
    BY <1>3 DEF SaveFails, OnceStep, Builds
  <1>4. QED
    BY <1>1, <1>2, <1>3 DEF Finish, Finish3, FinishFails, Finish3Fails

LEMMA SavOnce ==
  ASSUME LinkerInv, NEW path \in Outputs, Sav(path)
  PROVE  OnceStep
  <1> DEFINE segs == Named(path)
  <1>1. /\ WellBuilt(segs, relocations) /\ Len(segs) >= 1 /\ segs \in Seq(Segments)
        /\ Numbers(segs) = Numbers(segments) /\ made \in Nat
    BY NamedOK, NamedNumbers DEF WellBuilt, LinkerInv, RestTypeOK
  <1> HIDE DEF segs
  <1>2. CASE AppendSegment(segs, relocations) /\ written' = written
    BY <1>1, <1>2, AppendNumbers DEF OnceStep, Builds
  <1>3. CASE \/ Finish(Target(path), segs, relocations) /\ StartOver
             \/ Finish3(Target(path), segs, relocations) /\ StartOver
             \/ FinishFails(Target(path), segs, relocations)
             \/ Finish3Fails(Target(path), segs, relocations)
    BY <1>1, <1>3, FinishOnce
  <1>4. CASE \E allow \in BOOLEAN : \/ ResolveThrows(segs, relocations, allow)
                                   \/ Finish3Throws(segs, relocations)
    BY <1>1, <1>4, ThrowBuilds
  <1>5. QED
    BY <1>2, <1>3, <1>4 DEF Sav, segs

LEMMA EndLinkOnce ==
  ASSUME LinkerInv, EndLink
  PROVE  OnceStep
  <1> DEFINE segs == AllButLast(segments)
             rels == AllButLast(relocations)
  <1>1. /\ WellBuilt(segs, rels) /\ segs \in Seq(Segments) /\ made \in Nat
        /\ Numbers(segs) \subseteq Numbers(segments)
    BY AllButLastWellBuilt, AllButLastNumbers DEF WellBuilt, LinkerInv, RestTypeOK
  <1> HIDE DEF segs, rels
  <1>2. CASE UNCHANGED <<segments, made, written>>
    BY <1>2 DEF OnceStep, Builds
  <1>3. CASE StartOver /\ written' = written
    BY <1>1, <1>3, StartOverNumbers DEF OnceStep, Builds
  <1>4. CASE segs # <<>> /\ \/ Finish(save_file, segs, rels) /\ StartOver
                            \/ FinishFails(save_file, segs, rels)
                            \/ ResolveThrows(segs, rels, FALSE)
    <2>1. Len(segs) >= 1
      BY <1>1, <1>4
    <2>2. QED
      BY <1>1, <1>4, <2>1, FinishOnce, ThrowBuilds
  <1>5. QED
    BY <1>2, <1>3, <1>4 DEF EndLink, segs, rels

LEMMA FinishFilesOnce ==
  ASSUME LinkerInv, FinishFiles
  PROVE  OnceStep
  <1>1. segments \in Seq(Segments) /\ Len(segments) >= 1 /\ made \in Nat
    BY DEF LinkerInv, WellBuilt, RestTypeOK
  <1>2. CASE FinishFails(save_file, segments, relocations)
    BY <1>1, <1>2, FinishOnce
  <1>3. CASE /\ FinishWrites(save_file, segments, relocations)
             /\ Exits(0) /\ UNCHANGED <<segments, made>>
    BY <1>1, <1>3, FinishNumbers DEF OnceStep, WritesOut, Exits, Running
  <1>4. QED
    BY <1>2, <1>3 DEF FinishFiles

(* A file placed in the current segment, or an attribute of it set.        *)
LEMMA ChangeBuilds ==
  ASSUME LinkerInv, made' = made, written' = written,
         \/ segments' = segments
         \/ \E seg : seg.number = Seg.number /\ segments' = [segments EXCEPT ![Current] = seg]
  PROVE  OnceStep
  <1>1. segments \in Seq(Segments) /\ Current \in 1 .. Len(segments)
        /\ Seg = segments[Current]
    BY CurrentOK DEF LinkerInv, WellBuilt, Seg
  <1>2. Numbers(segments') = Numbers(segments)
    BY <1>1, SetNumbers
  <1>3. QED
    BY <1>2 DEF OnceStep, Builds

LEMMA LinkUnitOnce == ASSUME LinkerInv, NEW u \in Units, LinkUnit(u) PROVE OnceStep
  <1> DEFINE begin == Seg.size
             links == {Internal(ref, begin) : ref \in ReferencesOf(Rel[u], begin, FALSE)}
             seg == Placed(Seg, u, SizeAfter(Rel[u], begin), links)
  <1>1. segments' = [segments EXCEPT ![Current] = seg]
    BY DEF LinkUnit
  <1>2. made' = made /\ written' = written
    BY DEF LinkUnit
  <1>3. Seg \in Segments
    BY CurrentOK
  <1>4. seg.number = Seg.number
    BY <1>3 DEF Placed, Segments
  <1> HIDE DEF seg
  <1>5. QED
    BY <1>1, <1>2, <1>4, ChangeBuilds

LEMMA ImportOnce == ASSUME LinkerInv, NEW b \in Binaries, Import(b) PROVE OnceStep
  <1> DEFINE seg == Placed(Seg, b, Seg.size + Bin[b].len, {})
  <1>1. segments' = segments \/ segments' = [segments EXCEPT ![Current] = seg]
    BY DEF Import
  <1>2. made' = made /\ written' = written
    BY DEF Import
  <1>3. Seg \in Segments
    BY CurrentOK
  <1>4. seg.number = Seg.number
    BY <1>3 DEF Placed, Segments
  <1> HIDE DEF seg
  <1>5. QED
    BY <1>1, <1>2, <1>4, ChangeBuilds

LEMMA AttributeOnce ==
  ASSUME LinkerInv, NEW value, Org(value) \/ Knd(value) \/ Ali(value) \/ Ds(value)
  PROVE  OnceStep
  <1>1. made' = made /\ written' = written
    BY DEF Org, Knd, Ali, Ds, Stores
  <1>2. Seg \in Segments
    BY CurrentOK
  <1> DEFINE org == [Seg EXCEPT !.org = value]
             kind == [Seg EXCEPT !.kind = value]
             alignment == [Seg EXCEPT !.alignment = value]
             space == [Seg EXCEPT !.reserved_space = value]
  <1>3. \/ segments' = segments
        \/ segments' = [segments EXCEPT ![Current] = org]
        \/ segments' = [segments EXCEPT ![Current] = kind]
        \/ segments' = [segments EXCEPT ![Current] = alignment]
        \/ segments' = [segments EXCEPT ![Current] = space]
    BY DEF Org, Knd, Ali, Ds, Seg
  <1>4. /\ org.number = Seg.number /\ kind.number = Seg.number
        /\ alignment.number = Seg.number /\ space.number = Seg.number
    BY <1>2 DEF Segments
  <1> HIDE DEF org, kind, alignment, space
  <1>5. QED
    BY <1>1, <1>3, <1>4, ChangeBuilds

(* The calls that leave the segments and the files alone.                  *)
LEMMA OtherOnce ==
  ASSUME LinkerInv, UNCHANGED <<segments, made, written>>
  PROVE  OnceStep
  BY ChangeBuilds

LEMMA CallOnce ==
  ASSUME LinkerInv, Call
  PROVE  OnceStep
  <1>1. ASSUME NEW u \in Units, LinkUnit(u) \/ LinkFails(u) PROVE OnceStep
    BY <1>1, LinkUnitOnce, OtherOnce DEF LinkFails, progress
  <1>2. ASSUME NEW b \in Binaries, Import(b) \/ ImportFails(b) PROVE OnceStep
    BY <1>2, ImportOnce, OtherOnce DEF ImportFails, progress
  <1>3. ASSUME NEW path \in Outputs, Sav(path) PROVE OnceStep
    BY <1>3, SavOnce
  <1>4. ASSUME NEW value, Stored(value) PROVE OnceStep
    BY <1>4, OtherOnce DEF Stored, Lkv, Ver, Typ, Adr, Stores
  <1>5. ASSUME NEW value, Attributed(value) PROVE OnceStep
    BY <1>5, AttributeOnce DEF Attributed
  <1>6. ASSUME NEW name, Taken(name) PROVE OnceStep
    BY <1>6, OtherOnce DEF Taken, LenLabel, PosLabel, Ext, DefineLabel, progress
  <1>7. ASSUME NEW name, NEW value, Valued(name, value) PROVE OnceStep
    BY <1>7, OtherOnce DEF Valued, Equ, Eq, Geq, Kbd, DefineLabel, progress
  <1>8. CASE PosReset
    BY <1>8, OtherOnce DEF PosReset
  <1>9. QED
    BY <1>1, <1>2, <1>3, <1>4, <1>5, <1>6, <1>7, <1>8, EndLinkOnce DEF Call

LEMMA StepOnce == LinkerInv /\ OnceInv /\ LinkerStep => OnceInv'
  <1> SUFFICES ASSUME LinkerInv, OnceInv, LinkerStep PROVE OnceInv'
    OBVIOUS
  <1>1. ASSUME exited' = Running => exited = Running, UNCHANGED <<progress, symbolVars>>
        PROVE  OnceInv'
    <2>1. made' = made /\ segments' = segments /\ written' = written
      BY <1>1 DEF progress
    <2>2. /\ \E Files : written' \in Seq(Files)
          /\ Below(Numbers(segments'), made')
          /\ \A i \in DOMAIN written' : Below(Numbers(written'[i].segs), made')
      BY <2>1 DEF OnceInv
    <2>3. WrittenOnce'
      BY <1>1, <2>1 DEF OnceInv, WrittenOnce
    <2>4. QED
      BY <2>2, <2>3 DEF OnceInv
  <1>2. CASE exited = Running /\ (Call \/ FinishFiles)
    <2>1. made \in Nat /\ OnceStep
      BY <1>2, CallOnce, FinishFilesOnce DEF LinkerInv, RestTypeOK
    <2>2. QED
      BY <1>2, <2>1, BuildsOnce, OutputsOnce DEF OnceStep
  <1>3. QED
    BY <1>1, <1>2 DEF LinkerStep

LEMMA InitOnce == LinkerInit => OnceInv
  <1> SUFFICES ASSUME LinkerInit PROVE OnceInv
    OBVIOUS
  <1>1. written = <<>> /\ segments = <<NewSegment(1, 1)>> /\ made = 1
    BY DEF LinkerInit
  <1>2. Numbers(segments) = {1}
    <2>1. DOMAIN segments = {1} /\ segments[1] = NewSegment(1, 1)
      BY <1>1
    <2>2. NewSegment(1, 1).number = 1
      BY DEF NewSegment
    <2>3. QED
      BY <2>1, <2>2 DEF Numbers
  <1>3. written \in Seq({}) /\ DOMAIN written = {}
    BY <1>1
  <1>4. QED
    BY <1>1, <1>2, <1>3 DEF OnceInv, Below, WrittenOnce

(* No segment goes into two files, and none that was written is still      *)
(* being built, for every input.  (finish, finish3, new_segment)           *)
THEOREM WrittenApart == LinkerSpec => []WrittenOnce
  <1>1. LinkerInit => LinkerInv /\ OnceInv
    BY InitOK, InitOnce
  <1>2. (LinkerInv /\ OnceInv) /\ [LinkerNext]_linkerVars => (LinkerInv /\ OnceInv)'
    BY NextSteps, StepOK, StepOnce
  <1>3. OnceInv => WrittenOnce
    BY DEF OnceInv
  <1>4. QED
    BY <1>1, <1>2, <1>3, PTL DEF LinkerSpec
-----------------------------------------------------------------------------
(* The k-th segment of t is that of the linker, unless it is the last, to  *)
(* which a line may add.                                                   *)
Same(t, k) ==
  /\ k \in DOMAIN segments
  /\ t[k].number = segments[k].number
  /\ k < Len(segments) => Attributes(t[k]) = Attributes(segments[k])

Follow(t) == \A k \in DOMAIN t : Same(t, k)

(* What a step does: at most one new segment, behind the others.           *)
FollowStep ==
  \/ made' = made /\ Follow(segments')
  \/ /\ made' = made + 1
     /\ \A k \in DOMAIN segments' :
          \/ Same(segments', k)
          \/ k = Len(segments') /\ segments'[k].number = made + 1

Distinct(segs) == \A i, j \in DOMAIN segs : segs[i].number = segs[j].number => i = j

(* The step of ClosedSegmentsKeep.                                         *)
ClosedKeep ==
  \A ix \in DOMAIN segments : \A k \in DOMAIN segments' :
    ix < Len(segments) /\ segments'[k].number = segments[ix].number
      => Attributes(segments'[k]) = Attributes(segments[ix])

LEMMA FollowKeeps ==
  ASSUME OnceInv, Distinct(segments), made \in Nat, FollowStep
  PROVE  Distinct(segments') /\ ClosedKeep
  <1>1. \A k \in DOMAIN segments : segments[k].number \in Nat /\ segments[k].number <= made
    BY DEF OnceInv, Below, Numbers
  <1>2. \A k \in DOMAIN segments : segments[k].number # made + 1
    BY <1>1
  <1>3. ASSUME NEW i \in DOMAIN segments', NEW j \in DOMAIN segments',
               segments'[i].number = segments'[j].number
        PROVE  i = j
    <2>1. CASE Same(segments', i) /\ Same(segments', j)
      BY <1>3, <2>1 DEF Same, Distinct
    <2>2. CASE ~(Same(segments', i) /\ Same(segments', j))
      BY <1>2, <1>3, <2>2 DEF FollowStep, Follow, Same
    <2>3. QED
      BY <2>1, <2>2
  <1>4. ASSUME NEW ix \in DOMAIN segments, NEW k \in DOMAIN segments',
               ix < Len(segments), segments'[k].number = segments[ix].number
        PROVE  Attributes(segments'[k]) = Attributes(segments[ix])
    <2>1. Same(segments', k)
      BY <1>2, <1>4 DEF FollowStep, Follow
    <2>2. k = ix
      BY <1>4, <2>1 DEF Same, Distinct
    <2>3. QED
      BY <1>4, <2>1, <2>2 DEF Same
  <1>5. QED
    BY <1>3, <1>4 DEF Distinct, ClosedKeep
-----------------------------------------------------------------------------
(* The vectors.                                                            *)
LEMMA Segs ==
  ASSUME LinkerInv
  PROVE  /\ segments \in Seq(Segments) /\ Len(segments) >= 1 /\ made \in Nat
         /\ DOMAIN segments = 1 .. Len(segments) /\ Len(segments) \in Nat
         /\ Current = Len(segments) /\ Current \in DOMAIN segments
         /\ Seg = segments[Current] /\ Seg \in Segments
         /\ WellBuilt(segments, relocations)
  <1>1. segments \in Seq(Segments) /\ Len(segments) >= 1 /\ made \in Nat
    BY DEF LinkerInv, WellBuilt, RestTypeOK
  <1>2. QED
    BY <1>1, CurrentOK DEF Current, Seg

LEMMA Unchanged == ASSUME LinkerInv PROVE Follow(segments)
  BY DEF Follow, Same

(* The last segment replaced.                                              *)
LEMMA LastFollows ==
  ASSUME LinkerInv, NEW seg, seg.number = Seg.number
  PROVE  Follow([segments EXCEPT ![Current] = seg])
  <1>1. /\ DOMAIN segments = 1 .. Len(segments) /\ Len(segments) \in Nat
        /\ Current = Len(segments) /\ Current \in DOMAIN segments /\ Seg = segments[Current]
    BY Segs
  <1> DEFINE t == [segments EXCEPT ![Current] = seg]
  <1>2. /\ DOMAIN t = DOMAIN segments /\ t[Current] = seg
        /\ \A k \in DOMAIN segments : k # Current => t[k] = segments[k]
    BY <1>1
  <1> HIDE DEF t
  <1>3. ASSUME NEW k \in DOMAIN t PROVE Same(t, k)
    <2>1. CASE k = Current
      <3>1. ~(k < Len(segments))
        BY <1>1, <2>1
      <3>2. QED
        BY <1>1, <1>2, <2>1, <3>1 DEF Same
    <2>2. CASE k # Current
      BY <1>2, <2>2 DEF Same
    <2>3. QED
      BY <2>1, <2>2
  <1>4. QED
    BY <1>3 DEF Follow, t

LEMMA NamedFollows ==
  ASSUME LinkerInv, NEW path
  PROVE  Follow(Named(path)) /\ Len(Named(path)) = Len(segments)
  <1>1. Seg \in Segments /\ Seg = segments[Current] /\ segments \in Seq(Segments)
    BY Segs
  <1> DEFINE seg == [Seg EXCEPT !.segname = basename(path), !.loadname = LoadName(path)]
  <1>2. Named(path) = segments \/ Named(path) = [segments EXCEPT ![Current] = seg]
    BY DEF Named, Seg
  <1>3. seg.number = Seg.number
    BY <1>1 DEF Segments
  <1> HIDE DEF seg
  <1>4. Follow(segments) /\ Follow([segments EXCEPT ![Current] = seg])
    BY <1>3, Unchanged, LastFollows
  <1>5. Len([segments EXCEPT ![Current] = seg]) = Len(segments)
    BY <1>1
  <1>6. QED
    BY <1>2, <1>4, <1>5

LEMMA AllButLastFollows ==
  ASSUME LinkerInv
  PROVE  Follow(AllButLast(segments)) /\ AllButLast(segments) \in Seq(Segments)
  <1>1. segments \in Seq(Segments) /\ DOMAIN segments = 1 .. Len(segments)
        /\ Len(segments) \in Nat /\ Len(segments) >= 1
    BY Segs
  <1>2. /\ AllButLast(segments) \in Seq(Segments)
        /\ DOMAIN AllButLast(segments) = 1 .. Len(segments) - 1
        /\ \A k \in 1 .. Len(segments) - 1 : AllButLast(segments)[k] = segments[k]
    BY <1>1 DEF AllButLast
  <1>3. \A k \in 1 .. Len(segments) - 1 : k \in DOMAIN segments
    BY <1>1
  <1>4. QED
    BY <1>2, <1>3 DEF Follow, Same

(* resolve() leaves the attributes.                                        *)
LEMMA ResolvedFollows ==
  ASSUME NEW segs \in Seq(Segments), Follow(segs), NEW rels, NEW allow
  PROVE  Follow(Resolved(segs, rels, allow))
  <1> DEFINE t == Resolved(segs, rels, allow)
  <1>1. ASSUME NEW k \in DOMAIN segs
        PROVE  t[k].number = segs[k].number /\ Attributes(t[k]) = Attributes(segs[k])
    <2>1. segs[k] \in Segments
      OBVIOUS
    <2> DEFINE done == ResolvedSegment(segs[k], rels[k], allow)
    <2>2. /\ done.number = segs[k].number /\ done.kind = segs[k].kind
          /\ done.org = segs[k].org /\ done.alignment = segs[k].alignment
          /\ done.reserved_space = segs[k].reserved_space
          /\ done.segname = segs[k].segname /\ done.loadname = segs[k].loadname
          /\ done.placed = segs[k].placed /\ done.size = segs[k].size
      BY <2>1 DEF ResolvedSegment, Segments
    <2>3. t[k] = done \/ t[k] = segs[k]
      BY DEF Resolved
    <2> HIDE DEF done, t
    <2>4. Attributes(done) = Attributes(segs[k])
      BY <2>2 DEF Attributes
    <2>5. QED
      BY <2>2, <2>3, <2>4
  <1>2. DOMAIN t = DOMAIN segs
    BY DEF Resolved
  <1> HIDE DEF t
  <1>3. Follow(t)
    BY <1>1, <1>2 DEF Follow, Same
  <1>4. QED
    BY <1>3 DEF t

LEMMA AppendFollows ==
  ASSUME NEW segs \in Seq(Segments), Follow(segs), NEW rels, made \in Nat,
         AppendSegment(segs, rels)
  PROVE  FollowStep
  <1> DEFINE seg == NewSegment(made + 1, Len(segs) + 1)
  <1>1. Len(segs) \in Nat /\ DOMAIN segs = 1 .. Len(segs) /\ seg \in Segments
    BY NewSegmentType
  <1>2. seg.number = made + 1
    BY DEF NewSegment
  <1>3. segments' = Append(segs, seg) /\ made' = made + 1
    BY DEF AppendSegment
  <1> HIDE DEF seg
  <1>4. /\ Len(segments') = Len(segs) + 1 /\ DOMAIN segments' = 1 .. Len(segs) + 1
        /\ segments'[Len(segs) + 1] = seg
        /\ \A k \in 1 .. Len(segs) : segments'[k] = segs[k]
    BY <1>1, <1>3
  <1>5. ASSUME NEW k \in DOMAIN segments'
        PROVE  \/ Same(segments', k)
               \/ k = Len(segments') /\ segments'[k].number = made + 1
    <2>1. CASE k = Len(segs) + 1
      BY <2>1, <1>2, <1>4
    <2>2. CASE k # Len(segs) + 1
      <3>1. k \in DOMAIN segs /\ segments'[k] = segs[k]
        BY <2>2, <1>1, <1>4
      <3>2. QED
        BY <3>1 DEF Follow, Same
    <2>3. QED
      BY <2>1, <2>2
  <1>6. QED
    BY <1>3, <1>5 DEF FollowStep

LEMMA StartOverFollows ==
  ASSUME made \in Nat, StartOver
  PROVE  FollowStep
  <1>1. <<>> \in Seq(Segments) /\ Follow(<<>>)
    BY DEF Follow
  <1>2. QED
    BY <1>1, AppendFollows DEF StartOver

LEMMA ThrowFollows ==
  ASSUME LinkerInv, NEW segs, NEW rels, WellBuilt(segs, rels), Len(segs) >= 1,
         Follow(segs), NEW allow,
         \/ ResolveThrows(segs, rels, allow)
         \/ Finish3Throws(segs, rels) /\ Len(segs) = Len(segments)
  PROVE  FollowStep
  <1>1. segs \in Seq(Segments) /\ SymbolTypeOK
    BY DEF WellBuilt, LinkerInv
  <1>2. CASE ResolveThrows(segs, rels, allow)
    BY <1>1, <1>2, ResolvedFollows DEF ResolveThrows, FollowStep
  <1>3. CASE Finish3Throws(segs, rels) /\ Len(segs) = Len(segments)
    <2> DEFINE t == Resolved(segs, rels, TRUE)
               last == Len(segs)
    <2>1. Follow(t)
      BY <1>1, ResolvedFollows
    <2>2. PICK size \in EncodedSizes :
            segments' = [t EXCEPT ![last] = [t[last] EXCEPT !.size = size, !.encoded = TRUE]]
      BY <1>3 DEF Finish3Throws
    <2>3. made' = made
      BY <1>3 DEF Finish3Throws
    <2>4. t \in Seq(Segments) /\ Len(t) = last
      BY <1>1, ResolvedWellBuilt DEF WellBuilt
    <2>5. last \in Nat /\ last >= 1 /\ last = Len(segments)
      BY <1>1, <1>3
    <2> DEFINE seg == [t[last] EXCEPT !.size = size, !.encoded = TRUE]
    <2> HIDE DEF t, last
    <2>6. DOMAIN t = 1 .. last /\ last \in DOMAIN t /\ t[last] \in Segments
      BY <2>4, <2>5
    <2>7. seg.number = t[last].number
      BY <2>6 DEF Segments
    <2>8. segments' = [t EXCEPT ![last] = seg]
      BY <2>2
    <2> HIDE DEF seg
    <2>9. /\ DOMAIN segments' = 1 .. last /\ segments'[last] = seg
          /\ \A k \in 1 .. last : k # last => segments'[k] = t[k]
      BY <2>6, <2>8
    <2>10. ASSUME NEW k \in DOMAIN segments' PROVE Same(segments', k)
      <3>1. Same(t, k)
        BY <2>1, <2>6, <2>9 DEF Follow
      <3>2. CASE k = last
        <4>1. ~(k < Len(segments))
          BY <2>5, <3>2
        <4>2. QED
          BY <2>7, <2>9, <3>1, <3>2, <4>1 DEF Same
      <3>3. CASE k # last
        BY <2>9, <3>1, <3>3 DEF Same
      <3>4. QED
        BY <3>2, <3>3
    <2>11. QED
      BY <2>3, <2>10 DEF FollowStep, Follow
  <1>4. QED
    BY <1>2, <1>3
-----------------------------------------------------------------------------
(* What leaves the linker.                                                 *)
LeavesStep ==
  \A ix \in DOMAIN segments :
    segments[ix].placed # {} /\ segments[ix].number \notin Numbers(segments') =>
      \/ /\ Len(written') = Len(written) + 1
         /\ segments[ix].number \in Numbers(written'[Len(written')].segs)
      \/ settings.lkv = 2 /\ ix = Len(segments)
      \/ settings.lkv \in {0, 3} /\ ix < Len(segments)

LEMMA Stay ==
  ASSUME Numbers(segments) \subseteq Numbers(segments')
  PROVE  LeavesStep
  BY DEF LeavesStep, Numbers

(* finish() writes the last segment of segs, or all; finish3() the last.   *)
LEMMA FileHolds ==
  ASSUME LinkerInv, OnceInv, NEW segs \in Seq(Segments), Len(segs) >= 1, NEW rels, NEW path,
         FinishWrites(path, segs, rels) \/ Finish3Writes(path, segs, rels)
  PROVE  /\ Len(written') = Len(written) + 1
         /\ \A k \in DOMAIN segs :
              \/ FinishWrites(path, segs, rels) /\ settings.lkv # 0
              \/ k = Len(segs)
              => segs[k].number \in Numbers(written'[Len(written')].segs)
  <1>1. PICK Files : written \in Seq(Files)
    BY DEF OnceInv
  <1>2. ASSUME NEW out, written' = Append(written, out)
        PROVE  Len(written') = Len(written) + 1 /\ written'[Len(written')] = out
    <2>1. written \in Seq(Files \cup {out})
      BY <1>1
    <2>2. QED
      BY <1>2, <2>1
  <1>3. \E out : written' = Append(written, out)
    BY DEF FinishWrites, Finish3Writes, Writes
  <1>4. Len(written') = Len(written) + 1
    BY <1>2, <1>3
  <1> DEFINE t(allow) == Resolved(segs, rels, allow)
             last == Len(segs)
             held == written'[Len(written')].segs
  <1>5. /\ last \in Nat /\ DOMAIN segs = 1 .. last /\ last \in DOMAIN segs
        /\ \A allow : /\ DOMAIN t(allow) = DOMAIN segs /\ Len(t(allow)) = last
                      /\ \A k \in DOMAIN segs : t(allow)[k].number = segs[k].number
    BY ResolvedNumbers
  <1> DEFINE All == FinishWrites(path, segs, rels) /\ settings.lkv # 0
  <1>6. \/ \E allow : held = <<t(allow)[last]>> /\ ~All
        \/ held = t(FALSE)
    <2>1. CASE FinishWrites(path, segs, rels) /\ settings.lkv # 0
      <3> DEFINE out == [path |-> OutputPath(path), form |-> "omf",
                         segs |-> t(FALSE), unresolved |-> {},
                         ver |-> settings.ver, ftype |-> settings.ftype, atype |-> settings.atype]
      <3>1. written' = Append(written, out)
        BY <2>1 DEF FinishWrites, Writes
      <3>2. out.segs = t(FALSE)
        OBVIOUS
      <3> HIDE DEF out
      <3>3. written'[Len(written')] = out
        BY <1>2, <3>1
      <3>4. held = t(FALSE)
        BY <3>2, <3>3
      <3>5. QED
        BY <2>1, <3>4
    <2>2. CASE FinishWrites(path, segs, rels) /\ settings.lkv = 0
      <3> DEFINE out == [path |-> OutputPath(path), form |-> "bin",
                         segs |-> <<t(FALSE)[last]>>, unresolved |-> {},
                         ver |-> settings.ver, ftype |-> settings.ftype, atype |-> settings.atype]
      <3>1. written' = Append(written, out)
        BY <2>2, <1>5 DEF FinishWrites, Writes
      <3>2. out.segs = <<t(FALSE)[last]>>
        OBVIOUS
      <3> HIDE DEF out
      <3>3. written'[Len(written')] = out
        BY <1>2, <3>1
      <3>4. held = <<t(FALSE)[last]>>
        BY <3>2, <3>3
      <3>5. QED
        BY <2>2, <3>4
    <2>3. CASE Finish3Writes(path, segs, rels) /\ ~All
      <3> DEFINE out == [path |-> OutputPath(path), form |-> "object",
                         segs |-> <<t(TRUE)[last]>>, unresolved |-> Unresolved(segs, rels, TRUE)[Len(segs)],
                         ver |-> settings.ver, ftype |-> OBJ, atype |-> 0]
      <3>1. written' = Append(written, out)
        BY <2>3 DEF Finish3Writes, Writes
      <3>2. out.segs = <<t(TRUE)[last]>>
        OBVIOUS
      <3> HIDE DEF out
      <3>3. written'[Len(written')] = out
        BY <1>2, <3>1
      <3>4. held = <<t(TRUE)[last]>>
        BY <3>2, <3>3
      <3>5. QED
        BY <2>3, <3>4
    <2>4. QED
      BY <2>1, <2>2, <2>3
  <1>7. All => held = t(FALSE)
    BY <1>6
  <1> HIDE DEF t, held, last, All
  <1>8. ASSUME NEW k \in DOMAIN segs, held = t(FALSE) PROVE segs[k].number \in Numbers(held)
    BY <1>5, <1>8 DEF Numbers
  <1>9. segs[last].number \in Numbers(held)
    <2>1. CASE held = t(FALSE)
      BY <1>5, <1>8, <2>1
    <2>2. ASSUME NEW allow, held = <<t(allow)[last]>>
          PROVE  segs[last].number \in Numbers(held)
      <3>1. DOMAIN held = {1} /\ held[1] = t(allow)[last]
        BY <2>2
      <3>2. QED
        BY <1>5, <3>1 DEF Numbers
    <2>3. QED
      BY <1>6, <2>1, <2>2
  <1>10. QED
    BY <1>4, <1>7, <1>8, <1>9 DEF held, last, All

(* Both questions, of every call.                                          *)
Goes == FollowStep /\ LeavesStep

(* A step that keeps the segments, or replaces the last one.               *)
LEMMA ChangeGoes ==
  ASSUME LinkerInv, made' = made,
         \/ segments' = segments
         \/ \E seg : seg.number = Seg.number /\ segments' = [segments EXCEPT ![Current] = seg]
  PROVE  Goes
  <1>1. /\ segments \in Seq(Segments) /\ Current \in 1 .. Len(segments)
        /\ Seg = segments[Current]
    BY Segs
  <1>2. Numbers(segments') = Numbers(segments)
    BY <1>1, SetNumbers
  <1>3. Follow(segments')
    BY Unchanged, LastFollows
  <1>4. QED
    BY <1>2, <1>3, Stay DEF Goes, FollowStep

LEMMA OtherGoes == ASSUME LinkerInv, UNCHANGED <<segments, made>> PROVE Goes
  BY ChangeGoes

LEMMA ThrowGoes ==
  ASSUME LinkerInv, NEW segs, NEW rels, WellBuilt(segs, rels), Len(segs) >= 1,
         Follow(segs), Numbers(segs) = Numbers(segments), NEW allow \in BOOLEAN,
         \/ ResolveThrows(segs, rels, allow)
         \/ Finish3Throws(segs, rels) /\ Len(segs) = Len(segments)
  PROVE  Goes
  <1>1. FollowStep
    BY ThrowFollows
  <1>2. SymbolTypeOK /\ segs \in Seq(Segments)
    BY DEF LinkerInv, WellBuilt
  <1>3. Numbers(segments) \subseteq Numbers(segments')
    <2>1. CASE ResolveThrows(segs, rels, allow)
      BY <1>2, <2>1, ResolvedNumbers DEF ResolveThrows
    <2>2. CASE Finish3Throws(segs, rels)
      <3> DEFINE t == Resolved(segs, rels, TRUE)
                 last == Len(segs)
      <3>1. /\ WellBuilt(t, Unresolved(segs, rels, TRUE)) /\ Len(t) = last
        BY <1>2, ResolvedWellBuilt
      <3>2. Numbers(t) = Numbers(segs)
        BY <1>2, ResolvedNumbers
      <3>3. PICK size \in EncodedSizes :
              segments' = [t EXCEPT ![last] = [t[last] EXCEPT !.size = size, !.encoded = TRUE]]
        BY <2>2 DEF Finish3Throws
      <3> DEFINE seg == [t[last] EXCEPT !.size = size, !.encoded = TRUE]
      <3>4. last \in Nat /\ last >= 1
        BY <1>2
      <3> HIDE DEF t, last
      <3>5. t \in Seq(Segments) /\ last \in 1 .. Len(t) /\ t[last] \in Segments
        BY <3>1, <3>4 DEF WellBuilt
      <3>6. seg.number = t[last].number
        BY <3>5 DEF Segments
      <3>7. segments' = [t EXCEPT ![last] = seg]
        BY <3>3
      <3> HIDE DEF seg
      <3>8. QED
        BY <3>2, <3>5, <3>6, <3>7, SetNumbers
    <2>3. QED
      BY <2>1, <2>2
  <1>4. QED
    BY <1>1, <1>3, Stay DEF Goes

LEMMA FinishGoes ==
  ASSUME LinkerInv, OnceInv, NEW segs \in Seq(Segments), Len(segs) >= 1, Follow(segs),
         \/ Len(segs) = Len(segments)
         \/ Len(segs) = Len(segments) - 1 /\ settings.lkv = 2,
         NEW rels, NEW path,
         \/ Finish(path, segs, rels) /\ StartOver
         \/ Finish3(path, segs, rels) /\ StartOver /\ settings.lkv = 3
         \/ FinishFails(path, segs, rels)
         \/ Finish3Fails(path, segs, rels)
  PROVE  Goes
  <1>1. made \in Nat /\ Len(segments) \in Nat /\ DOMAIN segments = 1 .. Len(segments)
    BY Segs
  <1>2. Len(segs) \in Nat /\ DOMAIN segs = 1 .. Len(segs)
    OBVIOUS
  <1>3. CASE FinishFails(path, segs, rels) \/ Finish3Fails(path, segs, rels)
    BY <1>3, OtherGoes DEF FinishFails, Finish3Fails, SaveFails
  <1>4. CASE /\ \/ FinishWrites(path, segs, rels)
                \/ Finish3Writes(path, segs, rels) /\ settings.lkv = 3
             /\ StartOver
    <2> DEFINE held == Numbers(written'[Len(written')].segs)
    <2>1. /\ Len(written') = Len(written) + 1
          /\ \A k \in DOMAIN segs :
               \/ FinishWrites(path, segs, rels) /\ settings.lkv # 0
               \/ k = Len(segs)
               => segs[k].number \in held
      BY <1>4, FileHolds
    <2>2. \A k \in DOMAIN segs : segs[k].number = segments[k].number
      BY DEF Follow, Same
    <2> HIDE DEF held
    <2>3. ASSUME NEW ix \in DOMAIN segments
          PROVE  \/ segments[ix].number \in held
                 \/ settings.lkv = 2 /\ ix = Len(segments)
                 \/ settings.lkv \in {0, 3} /\ ix < Len(segments)
      <3>1. CASE ix \in DOMAIN segs /\ (settings.lkv \notin {0, 3} \/ ix = Len(segs))
        BY <1>4, <2>1, <2>2, <3>1
      <3>2. CASE ix \in DOMAIN segs /\ settings.lkv \in {0, 3} /\ ix # Len(segs)
        <4>1. Len(segs) = Len(segments)
          BY <3>2
        <4>2. ix < Len(segments)
          BY <1>1, <3>2, <4>1
        <4>3. QED
          BY <3>2, <4>2
      <3>3. CASE ix \notin DOMAIN segs
        <4>1. Len(segs) = Len(segments) - 1 /\ settings.lkv = 2
          BY <1>1, <1>2, <3>3
        <4>2. ix = Len(segments)
          BY <1>1, <1>2, <3>3, <4>1
        <4>3. QED
          BY <4>1, <4>2
      <3>4. QED
        BY <3>1, <3>2, <3>3
    <2>4. LeavesStep
      BY <2>1, <2>3 DEF LeavesStep, held
    <2>5. FollowStep
      BY <1>1, <1>4, StartOverFollows
    <2>6. QED
      BY <2>4, <2>5 DEF Goes
  <1>5. QED
    BY <1>3, <1>4 DEF Finish, Finish3
-----------------------------------------------------------------------------
(* The calls.                                                              *)
LEMMA SavGoes ==
  ASSUME LinkerInv, OnceInv, NEW path \in Outputs, Sav(path)
  PROVE  Goes
  <1> DEFINE segs == Named(path)
  <1>1. /\ WellBuilt(segs, relocations) /\ Len(segs) >= 1 /\ segs \in Seq(Segments)
        /\ Numbers(segs) = Numbers(segments) /\ made \in Nat
        /\ Follow(segs) /\ Len(segs) = Len(segments)
    BY NamedOK, NamedNumbers, NamedFollows DEF WellBuilt, LinkerInv, RestTypeOK
  <1> HIDE DEF segs
  <1>2. CASE AppendSegment(segs, relocations)
    <2>1. Numbers(segments) \subseteq Numbers(segments')
      BY <1>1, <1>2, AppendNumbers
    <2>2. QED
      BY <1>1, <1>2, <2>1, AppendFollows, Stay DEF Goes
  <1>3. CASE \/ Finish(Target(path), segs, relocations) /\ StartOver
             \/ Finish3(Target(path), segs, relocations) /\ StartOver /\ settings.lkv = 3
             \/ FinishFails(Target(path), segs, relocations)
             \/ Finish3Fails(Target(path), segs, relocations)
    BY <1>1, <1>3, FinishGoes
  <1>4. CASE \E allow \in BOOLEAN : \/ ResolveThrows(segs, relocations, allow)
                                   \/ Finish3Throws(segs, relocations)
    BY <1>1, <1>4, ThrowGoes
  <1>5. QED
    BY <1>2, <1>3, <1>4 DEF Sav, segs

LEMMA EndLinkGoes ==
  ASSUME LinkerInv, OnceInv, EndLink
  PROVE  Goes
  <1> DEFINE segs == AllButLast(segments)
             rels == AllButLast(relocations)
  <1>1. /\ WellBuilt(segs, rels) /\ segs \in Seq(Segments) /\ made \in Nat
        /\ Follow(segs) /\ Len(segs) = Len(segments) - 1
        /\ DOMAIN segments = 1 .. Len(segments) /\ Len(segments) \in Nat
        /\ segments \in Seq(Segments)
    BY AllButLastWellBuilt, AllButLastFollows, Segs DEF AllButLast
  <1>2. \A ix \in DOMAIN segments : ix # Len(segments) =>
          ix \in DOMAIN segs /\ segs[ix] = segments[ix]
    BY <1>1 DEF AllButLast
  <1> HIDE DEF segs, rels
  <1>3. CASE UNCHANGED <<segments, made>>
    BY <1>3, OtherGoes
  <1>4. CASE segs = <<>> /\ StartOver /\ settings.lkv = 2
    <2>1. \A ix \in DOMAIN segments : ix = Len(segments)
      BY <1>1, <1>4
    <2>2. LeavesStep
      BY <1>4, <2>1 DEF LeavesStep
    <2>3. QED
      BY <1>1, <1>4, <2>2, StartOverFollows DEF Goes
  <1>5. CASE segs # <<>> /\ settings.lkv = 2
             /\ \/ Finish(save_file, segs, rels) /\ StartOver
                \/ FinishFails(save_file, segs, rels)
    <2>1. Len(segs) >= 1
      BY <1>1, <1>5
    <2>2. QED
      BY <1>1, <1>5, <2>1, FinishGoes
  <1>6. CASE segs # <<>> /\ settings.lkv = 2 /\ ResolveThrows(segs, rels, FALSE)
    <2>1. Len(segs) >= 1
      BY <1>1, <1>6
    <2>2. FollowStep
      BY <1>1, <1>6, <2>1, ThrowFollows
    <2>3. Numbers(segments') = Numbers(segs)
      BY <1>1, <1>6, ResolvedNumbers DEF ResolveThrows
    <2>4. ASSUME NEW ix \in DOMAIN segments, ix # Len(segments)
          PROVE  segments[ix].number \in Numbers(segments')
      <3>1. ix \in DOMAIN segs /\ segs[ix] = segments[ix]
        BY <1>2, <2>4
      <3>2. QED
        BY <2>3, <3>1 DEF Numbers
    <2>5. LeavesStep
      BY <1>6, <2>4 DEF LeavesStep
    <2>6. QED
      BY <2>2, <2>5 DEF Goes
  <1>7. QED
    BY <1>3, <1>4, <1>5, <1>6 DEF EndLink, segs, rels

LEMMA FinishFilesGoes ==
  ASSUME LinkerInv, OnceInv, FinishFiles
  PROVE  Goes
  BY OtherGoes DEF FinishFiles, FinishFails, SaveFails

LEMMA LinkUnitGoes == ASSUME LinkerInv, NEW u \in Units, LinkUnit(u) PROVE Goes
  <1> DEFINE begin == Seg.size
             links == {Internal(ref, begin) : ref \in ReferencesOf(Rel[u], begin, FALSE)}
             seg == Placed(Seg, u, SizeAfter(Rel[u], begin), links)
  <1>1. segments' = [segments EXCEPT ![Current] = seg]
    BY DEF LinkUnit
  <1>2. made' = made /\ Seg \in Segments
    BY CurrentOK DEF LinkUnit
  <1>3. seg.number = Seg.number
    BY <1>2 DEF Placed, Segments
  <1> HIDE DEF seg
  <1>4. QED
    BY <1>1, <1>2, <1>3, ChangeGoes

LEMMA ImportGoes == ASSUME LinkerInv, NEW b \in Binaries, Import(b) PROVE Goes
  <1> DEFINE seg == Placed(Seg, b, Seg.size + Bin[b].len, {})
  <1>1. segments' = segments \/ segments' = [segments EXCEPT ![Current] = seg]
    BY DEF Import
  <1>2. made' = made /\ Seg \in Segments
    BY CurrentOK DEF Import
  <1>3. seg.number = Seg.number
    BY <1>2 DEF Placed, Segments
  <1> HIDE DEF seg
  <1>4. QED
    BY <1>1, <1>2, <1>3, ChangeGoes

LEMMA AttributeGoes ==
  ASSUME LinkerInv, NEW value, Org(value) \/ Knd(value) \/ Ali(value) \/ Ds(value)
  PROVE  Goes
  <1>1. made' = made /\ Seg \in Segments
    BY CurrentOK DEF Org, Knd, Ali, Ds, Stores
  <1> DEFINE org == [Seg EXCEPT !.org = value]
             kind == [Seg EXCEPT !.kind = value]
             alignment == [Seg EXCEPT !.alignment = value]
             space == [Seg EXCEPT !.reserved_space = value]
  <1>2. \/ segments' = segments
        \/ segments' = [segments EXCEPT ![Current] = org]
        \/ segments' = [segments EXCEPT ![Current] = kind]
        \/ segments' = [segments EXCEPT ![Current] = alignment]
        \/ segments' = [segments EXCEPT ![Current] = space]
    BY DEF Org, Knd, Ali, Ds, Seg
  <1>3. /\ org.number = Seg.number /\ kind.number = Seg.number
        /\ alignment.number = Seg.number /\ space.number = Seg.number
    BY <1>1 DEF Segments
  <1> HIDE DEF org, kind, alignment, space
  <1>4. QED
    BY <1>1, <1>2, <1>3, ChangeGoes

LEMMA CallGoes ==
  ASSUME LinkerInv, OnceInv, Call
  PROVE  Goes
  <1>1. ASSUME NEW u \in Units, LinkUnit(u) \/ LinkFails(u) PROVE Goes
    BY <1>1, LinkUnitGoes, OtherGoes DEF LinkFails, progress
  <1>2. ASSUME NEW b \in Binaries, Import(b) \/ ImportFails(b) PROVE Goes
    BY <1>2, ImportGoes, OtherGoes DEF ImportFails, progress
  <1>3. ASSUME NEW path \in Outputs, Sav(path) PROVE Goes
    BY <1>3, SavGoes
  <1>4. ASSUME NEW value, Stored(value) PROVE Goes
    BY <1>4, OtherGoes DEF Stored, Lkv, Ver, Typ, Adr, Stores
  <1>5. ASSUME NEW value, Attributed(value) PROVE Goes
    BY <1>5, AttributeGoes DEF Attributed
  <1>6. ASSUME NEW name, Taken(name) PROVE Goes
    BY <1>6, OtherGoes DEF Taken, LenLabel, PosLabel, Ext, DefineLabel, progress
  <1>7. ASSUME NEW name, NEW value, Valued(name, value) PROVE Goes
    BY <1>7, OtherGoes DEF Valued, Equ, Eq, Geq, Kbd, DefineLabel, progress
  <1>8. CASE PosReset
    BY <1>8, OtherGoes DEF PosReset
  <1>9. QED
    BY <1>1, <1>2, <1>3, <1>4, <1>5, <1>6, <1>7, <1>8, EndLinkGoes DEF Call

LEMMA StepGoes == ASSUME LinkerInv, OnceInv, LinkerStep PROVE Goes
  BY CallGoes, FinishFilesGoes, OtherGoes DEF LinkerStep, progress

LEMMA StepApart ==
  ASSUME LinkerInv, OnceInv, Distinct(segments), LinkerStep
  PROVE  Distinct(segments') /\ ClosedKeep
  BY StepGoes, FollowKeeps, Segs DEF Goes

LEMMA InitApart == LinkerInit => Distinct(segments)
  <1> SUFFICES ASSUME LinkerInit PROVE Distinct(segments)
    OBVIOUS
  <1>1. segments = <<NewSegment(1, 1)>>
    BY DEF LinkerInit
  <1>2. DOMAIN segments = {1}
    BY <1>1
  <1>3. QED
    BY <1>2 DEF Distinct

SegmentInv == LinkerInv /\ OnceInv /\ Distinct(segments)

LEMMA SegmentsKeep == SegmentInv /\ LinkerStep => SegmentInv'
  BY StepOK, StepOnce, StepApart DEF SegmentInv, Distinct

LEMMA AlwaysSegments == LinkerSpec => [](LinkerInv /\ OnceInv /\ Distinct(segments))
  <1>1. LinkerInit => SegmentInv
    BY InitOK, InitOnce, InitApart DEF SegmentInv
  <1>2. SegmentInv /\ [LinkerNext]_linkerVars => SegmentInv'
    BY NextSteps, SegmentsKeep
  <1>3. QED
    BY <1>1, <1>2, PTL DEF LinkerSpec, SegmentInv

(* A closed segment keeps its files and attributes until it leaves the     *)
(* linker, for every input.  (new_segment, back(), resolve)                *)
THEOREM ClosedSegments == LinkerSpec => ClosedSegmentsKeep
  <1>1. (LinkerInv /\ OnceInv /\ Distinct(segments)) /\ [LinkerNext]_linkerVars
          => [ClosedKeep]_linkerVars
    BY NextSteps, StepApart
  <1>2. QED
    BY <1>1, AlwaysSegments, PTL DEF LinkerSpec, ClosedSegmentsKeep, ClosedKeep

(* A segment that holds a file leaves the linker in a written file, but    *)
(* for the last one at END and the closed ones of another linker version.  *)
(* (finish, finish3, END)                                                  *)
THEOREM NoneLost == LinkerSpec => LeavesWritten
  <1>1. (LinkerInv /\ OnceInv /\ Distinct(segments)) /\ [LinkerNext]_linkerVars
          => [LeavesStep]_linkerVars
    BY NextSteps, StepGoes DEF Goes
  <1>2. QED
    BY <1>1, AlwaysSegments, PTL DEF LinkerSpec, LeavesWritten, LeavesStep
=============================================================================
