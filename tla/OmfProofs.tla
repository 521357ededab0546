----------------------------- MODULE OmfProofs -----------------------------
(***************************************************************************)
(* Where the parts of an OMF file stand, and what its relocation records   *)
(* take and say, for every set of segments and of relocations.             *)
(*                                                                         *)
(* FileInv: after k segments, the next goes where the blocks or bytes of   *)
(* the k-th header end, and entries 1..k tell of those segments.           *)
(* RecordsInv: a list is at a page no later than the last relocation that  *)
(* feeds it, and only relocations, or only intersegs, feed a list.         *)
(* LoadInv: a list being made, and a record, read byte by byte, say        *)
(* nothing but relocations that were asked for, and every relocation done  *)
(* is in a list or a record, with the bytes a SUPER needs in the data.     *)
(***************************************************************************)
EXTENDS OmfFile, OmfRecords, SumsProofs

(* The segments as they are written, and the header of one.                *)
Ready == IF Express THEN Renumbered(file.segments) ELSE file.segments

Start == IF Express THEN Room(file.segments) ELSE 0

Wrote(at, s) ==
  Header(at, s, 5 + Lconst(s) + s.relocs + 1, s.segnum, HeaderReserved(s))

(* Where the loop stands behind the k-th segment.                          *)
Behind(k) ==
  LET end == written[k].at + written[k].bytes IN
  IF file.version = 1 /\ k # Len(segments) THEN end + Padding(end) ELSE end

(* The segments written are headers of the segments passed, each behind    *)
(* the one before, and the express segment is told of them.                *)
Headers ==
  /\ Len(written) \in 0 .. Len(segments)
  /\ written = [i \in 1 .. Len(written) |-> Wrote(written[i].at, segments[i])]
  /\ entries = IF Express THEN [i \in 1 .. Len(written) |-> Entry(written[i].at, segments[i])]
               ELSE <<>>

Chain ==
  /\ \A i \in 1 .. Len(written) :
       /\ written[i].at \in Nat
       /\ written[i].at = IF i = 1 THEN Start ELSE Behind(i - 1)
       /\ file.version = 1 => written[i].at % Block = 0
  /\ offset \in Nat
  /\ offset = IF Len(written) = 0 THEN Start ELSE Behind(Len(written))
  /\ file.version = 1 /\ Len(written) # Len(segments) => offset % Block = 0

Ending ==
  IF step = "closed"
  THEN Len(written) = Len(segments) /\ lead = IF Express THEN <<ExpressSegment>> ELSE <<>>
  ELSE lead = <<>>

Object ==
  IF step = "closed"
  THEN LET s == segments[1] IN
       /\ written = <<Header(0, s, s.relocs, 0, s.reserved)>>
       /\ offset = written[1].bytes /\ entries = <<>> /\ lead = <<>>
  ELSE written = <<>> /\ entries = <<>> /\ lead = <<>>

FileInv ==
  /\ file \in Files
  /\ step \in {"open", "segments", "closed"}
  /\ exited = Running =>
       IF step = "open"
       THEN segments = file.segments /\ written = <<>> /\ entries = <<>> /\ lead = <<>>
       ELSE /\ segments = Ready
            /\ file.object => Object
            /\ ~file.object => Headers /\ Chain /\ Ending

LEMMA FileTypes ==
  ASSUME file \in Files
  PROVE  /\ file.segments \in Seq(Segment) /\ Len(file.segments) > 0
         /\ file.express \in BOOLEAN /\ file.version \in 1 .. 2 /\ file.object \in BOOLEAN
         /\ file.object => Len(file.segments) = 1
         /\ \A i \in DOMAIN file.segments : file.segments[i].segnum = i
         /\ Express \in BOOLEAN
         /\ Express => file.version = 2 /\ ~file.object
  BY FileAssumption DEF Express

LEMMA PushedType ==
  ASSUME NEW name \in Nat
  PROVE  Pushed(name) \in Nat /\ (name < 256 => Pushed(name) = name + 1)
  BY DEF Pushed

(* Renumbering moves each segment by one, and its targets with it.         *)
LEMMA ReadyTypes ==
  ASSUME file \in Files
  PROVE  /\ Ready \in Seq(Segment)
         /\ Len(Ready) = Len(file.segments)
         /\ \A i \in 1 .. Len(Ready) :
              /\ Ready[i] \in Segment
              /\ Ready[i].segnum = i + IF Express THEN 1 ELSE 0
              /\ Ready[i].name = file.segments[i].name
              /\ Express => Ready[i].targets = {t + 1 : t \in file.segments[i].targets}
              /\ ~Express => Ready[i].targets = file.segments[i].targets
  <1>1. /\ file.segments \in Seq(Segment)
        /\ \A i \in 1 .. Len(file.segments) : file.segments[i].segnum = i
    BY FileTypes
  <1>2. CASE ~Express
    <2>1. Ready = file.segments
      BY <1>2 DEF Ready
    <2>2. QED
      BY <1>1, <1>2, <2>1
  <1>3. CASE Express
    <2> DEFINE segs == file.segments
               moved(i) == [segs[i] EXCEPT !.segnum = segs[i].segnum + 1,
                                           !.targets = {t + 1 : t \in segs[i].targets}]
    <2>1. Ready = [i \in 1 .. Len(segs) |-> moved(i)]
      BY <1>1, <1>3 DEF Ready, Renumbered
    <2>2. ASSUME NEW i \in 1 .. Len(segs)
          PROVE  /\ moved(i) \in Segment /\ moved(i).segnum = i + 1
                 /\ moved(i).name = segs[i].name
                 /\ moved(i).targets = {t + 1 : t \in segs[i].targets}
      <3>1. segs[i] \in Segment /\ segs[i].segnum = i
        BY <1>1
      <3> DEFINE targets == {t + 1 : t \in segs[i].targets}
      <3>2. targets \in SUBSET Nat
        BY <3>1 DEF Segment
      <3> HIDE DEF targets
      <3>3. [segs[i] EXCEPT !.segnum = segs[i].segnum + 1, !.targets = targets] \in Segment
        <4>1. ASSUME NEW r \in Segment, NEW n \in Nat, NEW T \in SUBSET Nat
              PROVE  [r EXCEPT !.segnum = n, !.targets = T] \in Segment
          BY DEF Segment
        <4>2. segs[i].segnum + 1 \in Nat
          BY <3>1
        <4>3. QED
          BY <3>1, <3>2, <4>1, <4>2
      <3>4. /\ [segs[i] EXCEPT !.segnum = segs[i].segnum + 1, !.targets = targets].segnum = i + 1
            /\ [segs[i] EXCEPT !.segnum = segs[i].segnum + 1, !.targets = targets].name
                 = segs[i].name
            /\ [segs[i] EXCEPT !.segnum = segs[i].segnum + 1, !.targets = targets].targets
                 = targets
        BY <3>1 DEF Segment
      <3>5. QED
        BY <3>3, <3>4 DEF targets
    <2> HIDE DEF moved
    <2>3. Ready \in Seq(Segment) /\ Len(Ready) = Len(segs) /\ Len(segs) \in Nat
      BY <1>1, <2>1, <2>2
    <2>4. QED
      BY <1>3, <2>1, <2>2, <2>3
  <1>4. QED
    BY <1>2, <1>3

(* What is written of a segment, and how long it is.                       *)
LEMMA WroteIs ==
  ASSUME file \in Files, NEW s \in Segment, NEW at \in Nat
  PROVE  /\ Wrote(at, s).at = at
         /\ Wrote(at, s).bytes = HeaderSize + LoadNameSize + Pushed(s.name)
                                 + (5 + Lconst(s) + s.relocs + 1)
         /\ Wrote(at, s).bytes \in Nat
         /\ Wrote(at, s).bytecount = IF file.version = 1 THEN Blocks(Wrote(at, s).bytes)
                                     ELSE Wrote(at, s).bytes
         /\ Wrote(at, s).dispdata = HeaderSize + LoadNameSize + Pushed(s.name)
         /\ Wrote(at, s).segnum = s.segnum
         /\ Wrote(at, s).reserved = HeaderReserved(s)
         /\ Wrote(at, s).length = s.size + s.reserved
         /\ Wrote(at, s).targets = s.targets
         /\ Lconst(s) \in Nat
         /\ Pushed(s.name) \in Nat
  <1>1. s.size \in Nat /\ s.reserved \in Nat /\ s.relocs \in Nat /\ s.name \in Nat
    BY DEF Segment
  <1>2. Lconst(s) \in Nat /\ Pushed(s.name) \in Nat
    <2>1. Pushed(s.name) \in Nat
      BY <1>1, PushedType
    <2>2. Lconst(s) = s.size + s.reserved \/ Lconst(s) = s.size + 0
      BY DEF Lconst
    <2>3. QED
      BY <1>1, <2>1, <2>2
  <1> DEFINE rest == 5 + Lconst(s) + s.relocs + 1
             bytes == HeaderSize + LoadNameSize + Pushed(s.name) + rest
  <1>3. bytes \in Nat
    BY <1>1, <1>2 DEF HeaderSize, LoadNameSize
  <1>4. Wrote(at, s) =
          [at |-> at, bytes |-> bytes,
           bytecount |-> IF file.version = 1 THEN Blocks(bytes) ELSE bytes,
           dispdata |-> HeaderSize + LoadNameSize + Pushed(s.name),
           segnum |-> s.segnum, reserved |-> HeaderReserved(s),
           length |-> s.size + s.reserved, targets |-> s.targets]
    BY DEF Wrote, Header
  <1> HIDE DEF bytes
  <1>5. /\ Wrote(at, s).at = at /\ Wrote(at, s).bytes = bytes
        /\ Wrote(at, s).bytecount = IF file.version = 1 THEN Blocks(bytes) ELSE bytes
        /\ Wrote(at, s).dispdata = HeaderSize + LoadNameSize + Pushed(s.name)
        /\ Wrote(at, s).segnum = s.segnum /\ Wrote(at, s).reserved = HeaderReserved(s)
        /\ Wrote(at, s).length = s.size + s.reserved /\ Wrote(at, s).targets = s.targets
    BY <1>4
  <1>6. bytes = HeaderSize + LoadNameSize + Pushed(s.name) + (5 + Lconst(s) + s.relocs + 1)
    BY DEF bytes
  <1>7. QED
    BY <1>2, <1>3, <1>5, <1>6

(* A segment padded to the next block ends where its blocks do, or one     *)
(* block behind if it fills them.                                          *)
LEMMA BlockEnd ==
  ASSUME NEW at \in Nat, NEW bytes \in Nat, at % Block = 0
  PROVE  /\ at + bytes <= at + Block * Blocks(bytes)
         /\ at + bytes + Padding(at + bytes) \in Nat
         /\ (at + bytes + Padding(at + bytes)) % Block = 0
         /\ at + bytes + Padding(at + bytes) =
              at + Block * Blocks(bytes) + IF bytes % Block = 0 THEN Block ELSE 0
  <1> DEFINE q == bytes \div 512
             r == bytes % 512
             p == at \div 512
  <1>1. bytes = 512 * q + r /\ q \in Nat /\ r \in 0 .. 511
    OBVIOUS
  <1>2. at = 512 * p /\ p \in Nat
    BY DEF Block
  <1> HIDE DEF q, r, p
  <1>3. (at + bytes) % 512 = r
    BY <1>1, <1>2
  <1>4. Padding(at + bytes) = 512 - r
    BY <1>3 DEF Padding, Block
  <1>5. at + bytes + Padding(at + bytes) = 512 * (p + q + 1)
    BY <1>1, <1>2, <1>4
  <1>6. Blocks(bytes) = IF r = 0 THEN q ELSE q + 1
    BY <1>1 DEF Blocks, Block
  <1>7. (512 * (p + q + 1)) % 512 = 0
    BY <1>1, <1>2
  <1>8. bytes % Block = r
    BY DEF Block, r
  <1>9. 512 * Blocks(bytes) = 512 * q + IF r = 0 THEN 0 ELSE 512
    BY <1>1, <1>6
  <1>10. QED
    BY <1>1, <1>2, <1>5, <1>7, <1>8, <1>9 DEF Block

LEMMA InitFile == FileInit => FileInv
  BY DEF FileInit, FileInv, ProcessInit, Running

LEMMA StartType ==
  ASSUME file \in Files
  PROVE  Start \in Nat /\ (file.version = 1 => Start % Block = 0)
  <1>1. CASE ~Express
    BY <1>1 DEF Start, Block
  <1>2. CASE Express
    <2> DEFINE segs == file.segments
               sizes == [i \in DOMAIN segs |-> 8 + 2 + ExpressHeaderSize + LoadNameSize + segs[i].name + 1]
    <2>1. segs \in Seq(Segment) /\ file.version # 1 /\ Len(segs) \in Nat
      <3>1. file.segments \in Seq(Segment) /\ file.version = 2
        BY <1>2, FileTypes
      <3>2. QED
        BY <3>1
    <2>2. ASSUME NEW i \in 1 .. Len(segs) PROVE segs[i].name \in Nat
      <3>1. segs[i] \in Segment
        BY <2>1
      <3>2. QED
        BY <3>1 DEF Segment
    <2>3. sizes \in Seq(Nat) /\ Len(sizes) = Len(segs)
      <3>1. sizes \in [1 .. Len(segs) -> Nat]
        BY <2>1, <2>2 DEF ExpressHeaderSize, LoadNameSize
      <3>2. QED
        BY <2>1, <3>1
    <2> HIDE DEF sizes
    <2>4. Sums(sizes)[Len(segs)] \in Nat
      BY <2>1, <2>3, SumsAre
    <2>5. Start = HeaderSize + LoadNameSize + ExpressName + ExpressFixed + ExpressCount
                  + Sums(sizes)[Len(segs)]
      BY <1>2 DEF Start, Room, sizes
    <2>6. QED
      BY <2>1, <2>4, <2>5
         DEF HeaderSize, LoadNameSize, ExpressName, ExpressFixed, ExpressCount
  <1>3. QED
    BY <1>1, <1>2

LEMMA OpenKeeps ==
  ASSUME FileInv, exited = Running, Open
  PROVE  FileInv'
  <1>1. /\ step = "open" /\ step' = "segments" /\ exited' = Running /\ file' = file
        /\ UNCHANGED <<written, entries, lead>>
        /\ segments = file.segments /\ written = <<>> /\ entries = <<>> /\ lead = <<>>
        /\ file \in Files
    BY DEF Open, FileInv, Returns
  <1>2. segments' = Ready /\ offset' = Start
    BY <1>1 DEF Open, Ready, Start
  <1>3. Ready' = Ready /\ Start' = Start
    BY <1>1 DEF Ready, Start, Express, Room
  <1>4. Len(segments') \in Nat
    BY <1>1, <1>2, ReadyTypes
  <1>5. ASSUME ~file.object PROVE Headers' /\ Chain' /\ Ending'
    <2>1. Headers'
      BY <1>1, <1>4 DEF Headers
    <2>2. Chain'
      BY <1>1, <1>2, <1>3, StartType DEF Chain
    <2>3. QED
      BY <1>1, <2>1, <2>2 DEF Ending
  <1>6. Object'
    BY <1>1 DEF Object
  <1>7. QED
    BY <1>1, <1>2, <1>3, <1>5, <1>6 DEF FileInv

LEMMA WriteSegmentKeeps ==
  ASSUME FileInv, exited = Running, WriteSegment
  PROVE  FileInv'
  <1>0. PICK k : k = Len(written) + 1
    OBVIOUS
  <1> DEFINE header == Wrote(offset, segments[k])
             end == offset + header.bytes
  <1>1. /\ step = "segments" /\ step' = "segments" /\ exited' = Running /\ file' = file
        /\ segments' = segments /\ lead' = lead
        /\ ~file.object /\ Len(written) < Len(segments)
        /\ file \in Files /\ segments = Ready /\ Headers /\ Chain /\ Ending
    BY DEF WriteSegment, FileInv, Returns
  <1>2. /\ written' = Append(written, header)
        /\ entries' = IF Express THEN Append(entries, Entry(offset, segments[k])) ELSE entries
        /\ offset' = IF file.version = 1 /\ k # Len(segments) THEN end + Padding(end) ELSE end
    BY <1>0 DEF WriteSegment, Wrote
  <1>3. /\ Len(written) \in Nat /\ k = Len(written) + 1
        /\ k \in 1 .. Len(segments) /\ Len(segments) \in Nat
        /\ segments[k] \in Segment /\ offset \in Nat
    BY <1>0, <1>1, ReadyTypes DEF Headers, Chain
  <1>4. header.at = offset /\ header.bytes \in Nat
    BY <1>1, <1>3, WroteIs
  <1>5. /\ Len(written') = k
        /\ \A i \in 1 .. Len(written) : written'[i] = written[i]
        /\ written'[k] = header
        /\ written' = [i \in 1 .. k |-> written'[i]]
    <2> DEFINE S == {written[i] : i \in 1 .. Len(written)} \cup {header}
    <2>1. written = [i \in 1 .. Len(written) |-> written[i]]
      BY <1>1 DEF Headers
    <2>2. written \in Seq(S) /\ header \in S
      BY <1>3, <2>1
    <2> HIDE DEF S, header
    <2>3. /\ written' \in Seq(S) /\ Len(written') = k /\ written'[k] = header
          /\ \A i \in 1 .. Len(written) : written'[i] = written[i]
      BY <1>2, <1>3, <2>2
    <2>4. QED
      BY <1>3, <2>3
  <1> HIDE DEF header
  <1>6. written' = [i \in 1 .. Len(written') |-> Wrote(written'[i].at, segments[i])]
    <2>1. \A i \in 1 .. Len(written) : written[i] = Wrote(written[i].at, segments[i])
      BY <1>1 DEF Headers
    <2>2. written'[k] = Wrote(written'[k].at, segments[k])
      BY <1>4, <1>5 DEF header
    <2>3. \A i \in 1 .. k : written'[i] = Wrote(written'[i].at, segments[i])
      BY <1>3, <1>5, <2>1, <2>2
    <2>4. QED
      BY <1>5, <2>3
  <1>7. entries' = IF Express THEN [i \in 1 .. Len(written') |-> Entry(written'[i].at, segments[i])]
                   ELSE <<>>
    <2>1. CASE ~Express
      BY <1>1, <1>2, <2>1 DEF Headers
    <2>2. CASE Express
      <3> DEFINE told(i) == Entry(written'[i].at, segments[i])
      <3>1. entries = [i \in 1 .. Len(written) |-> Entry(written[i].at, segments[i])]
        BY <1>1, <2>2 DEF Headers
      <3>2. \A i \in 1 .. Len(written) : entries[i] = told(i)
        BY <1>5, <3>1
      <3>3. Entry(offset, segments[k]) = told(k)
        BY <1>4, <1>5
      <3>4. entries' = Append(entries, told(k))
        BY <1>2, <2>2, <3>3
      <3> HIDE DEF told
      <3>5. entries = [i \in 1 .. Len(written) |-> told(i)]
        BY <3>1, <3>2
      <3>6. entries' = [i \in 1 .. k |-> told(i)]
        BY <1>3, <3>4, <3>5
      <3>7. QED
        BY <1>5, <2>2, <3>6 DEF told
    <2>3. QED
      BY <2>1, <2>2
  <1>8. Headers'
    <2>1. Len(written') \in 0 .. Len(segments')
      BY <1>1, <1>3, <1>5
    <2>2. Express' = Express
      BY <1>1 DEF Express
    <2>3. ASSUME NEW i \in 1 .. Len(written')
          PROVE  /\ Wrote(written[i].at, segments[i])' = Wrote(written'[i].at, segments[i])
                 /\ Entry(written[i].at, segments[i])' = Entry(written'[i].at, segments[i])
      BY <1>1, <2>2 DEF Wrote, Header, Lconst, HeaderReserved, Entry
    <2>4. QED
      BY <1>6, <1>7, <2>1, <2>2, <2>3 DEF Headers
  <1>9. Chain'
    <2>1. Start' = Start
      BY <1>1 DEF Start, Express, Room
    <2>3. offset = IF k = 1 THEN Start ELSE Behind(k - 1)
      BY <1>1, <1>3 DEF Chain
    <2>4. ASSUME NEW i \in 1 .. Len(written)
          PROVE  Behind(i)' = Behind(i)
      BY <1>1, <1>5 DEF Behind, Padding
    <2>5. Behind(k)' = IF file.version = 1 /\ k # Len(segments) THEN end + Padding(end) ELSE end
      BY <1>1, <1>4, <1>5 DEF Behind, Padding
    <2>6. file.version = 1 => offset % Block = 0
      BY <1>1 DEF Chain
    <2>7. offset' \in Nat /\ (file.version = 1 /\ k # Len(segments) => offset' % Block = 0)
      <3>1. file.version = 1 => /\ end + Padding(end) \in Nat
                                /\ (end + Padding(end)) % Block = 0
        BY <1>3, <1>4, <2>6, BlockEnd
      <3>2. end \in Nat
        BY <1>3, <1>4
      <3>3. QED
        BY <1>2, <3>1, <3>2
    <2>8. ASSUME NEW i \in 1 .. k
          PROVE  /\ written'[i].at \in Nat
                 /\ written'[i].at = IF i = 1 THEN Start ELSE Behind(i - 1)'
                 /\ file.version = 1 => written'[i].at % Block = 0
      <3>1. CASE i = k
        <4>1. written'[i].at = offset
          BY <1>4, <1>5, <3>1
        <4>2. k # 1 => Behind(k - 1)' = Behind(k - 1)
          BY <1>3, <2>4
        <4>3. QED
          BY <1>3, <2>3, <2>6, <3>1, <4>1, <4>2
      <3>2. CASE i # k
        <4>1. i \in 1 .. Len(written) /\ written'[i] = written[i]
          BY <1>3, <1>5, <3>2
        <4>2. i # 1 => Behind(i - 1)' = Behind(i - 1)
          BY <1>3, <2>4, <3>2
        <4>3. QED
          BY <1>1, <4>1, <4>2 DEF Chain
      <3>3. QED
        BY <3>1, <3>2
    <2>9. offset' = Behind(k)'
      BY <1>2, <2>5
    <2>10. QED
      BY <1>1, <1>3, <1>5, <2>1, <2>7, <2>8, <2>9 DEF Chain
  <1>10. Ready' = Ready
    BY <1>1 DEF Ready, Express, Renumbered
  <1>11. Ending'
    BY <1>1 DEF Ending
  <1>12. QED
    BY <1>1, <1>8, <1>9, <1>10, <1>11 DEF FileInv

LEMMA WriteObjectKeeps ==
  ASSUME FileInv, exited = Running, WriteObject
  PROVE  FileInv'
  <1>1. /\ step = "segments" /\ step' = "closed" /\ exited' = Running /\ file' = file
        /\ UNCHANGED <<segments, entries, lead>>
        /\ file.object /\ file \in Files /\ segments = Ready
        /\ entries = <<>> /\ lead = <<>>
    BY DEF WriteObject, FileInv, Returns, Object
  <1> DEFINE s == segments[1]
             header == Header(0, s, s.relocs, 0, s.reserved)
  <1>2. written' = <<header>> /\ offset' = header.bytes
    BY DEF WriteObject
  <1>3. Header(0, s, s.relocs, 0, s.reserved)' = header
    BY <1>1 DEF Header
  <1>4. Object'
    BY <1>1, <1>2, <1>3 DEF Object
  <1>5. Ready' = Ready
    BY <1>1 DEF Ready, Express, Renumbered
  <1>6. QED
    BY <1>1, <1>4, <1>5 DEF FileInv

LEMMA WriteExpressKeeps ==
  ASSUME FileInv, exited = Running, WriteExpress
  PROVE  FileInv'
  <1>1. /\ step = "segments" /\ step' = "closed" /\ exited' = Running
        /\ UNCHANGED <<file, segments, offset, written, entries>>
        /\ lead' = IF Express THEN <<ExpressSegment>> ELSE <<>>
        /\ ~file.object /\ Len(written) = Len(segments)
        /\ file \in Files /\ segments = Ready /\ Headers /\ Chain
    BY DEF WriteExpress, FileInv, Returns
  <1>2. Ready' = Ready /\ Express' = Express
    BY <1>1 DEF Ready, Express, Renumbered
  <1>3. ExpressSegment' = ExpressSegment
    BY <1>1 DEF ExpressSegment, HeadersUpTo
  <1>4. Headers'
    BY <1>1, <1>2 DEF Headers, Wrote, Header, Lconst, HeaderReserved, Entry
  <1>5. Chain'
    BY <1>1, <1>2 DEF Chain, Start, Room, Behind
  <1>6. Ending'
    BY <1>1, <1>2, <1>3 DEF Ending
  <1>7. QED
    BY <1>1, <1>2, <1>4, <1>5, <1>6 DEF FileInv

LEMMA FileNextKeeps ==
  ASSUME FileInv, [FileNext]_fileVars
  PROVE  FileInv'
  <1>1. CASE exited = Running /\ Open
    BY <1>1, OpenKeeps
  <1>2. CASE OpenFails
    BY <1>2 DEF OpenFails, FileInv, Exits, EX_CANTCREAT, Running
  <1>3. CASE exited = Running /\ WriteSegment
    BY <1>3, WriteSegmentKeeps
  <1>4. CASE exited = Running /\ WriteObject
    BY <1>4, WriteObjectKeeps
  <1>5. CASE exited = Running /\ WriteExpress
    BY <1>5, WriteExpressKeeps
  <1>6. CASE UNCHANGED fileVars
    <2>1. Ready' = Ready /\ Object' = Object /\ Headers' = Headers /\ Chain' = Chain
          /\ Ending' = Ending
      BY <1>6 DEF fileVars, Ready, Object, Headers, Chain, Ending, Express, Renumbered,
                  Header, Wrote, Entry, Lconst, HeaderReserved, Start, Room, Behind,
                  ExpressSegment, HeadersUpTo
    <2>2. QED
      BY <1>6, <2>1 DEF fileVars, FileInv
  <1>7. QED
    BY <1>1, <1>2, <1>3, <1>4, <1>5, <1>6 DEF FileNext

LEMMA FileHolds == FileSpec => []FileInv
  BY InitFile, FileNextKeeps, PTL DEF FileSpec

(* A file that is complete: its parts, and the segments they are of.       *)
LEMMA CompleteFile ==
  ASSUME FileInv, Complete, ~file.object
  PROVE  /\ file \in Files /\ segments = Ready
         /\ Len(written) = Len(Ready) /\ Len(Ready) \in Nat
         /\ Len(file.segments) = Len(Ready) /\ Len(Ready) > 0
         /\ DOMAIN written = 1 .. Len(Ready)
         /\ Chain
         /\ lead = IF Express THEN <<ExpressSegment>> ELSE <<>>
         /\ \A i \in 1 .. Len(Ready) :
              /\ Ready[i] \in Segment /\ written[i].at \in Nat
              /\ written[i] = Wrote(written[i].at, Ready[i])
              /\ Express => entries[i] = Entry(written[i].at, Ready[i])
         /\ Express => DOMAIN entries = 1 .. Len(Ready)
  <1>1. /\ file \in Files /\ segments = Ready /\ Headers /\ Chain /\ Ending
        /\ step = "closed"
    BY DEF FileInv, Complete
  <1>2. Len(written) = Len(Ready)
    BY <1>1 DEF Ending
  <1>3. Len(Ready) \in Nat /\ Len(file.segments) = Len(Ready) /\ Len(Ready) > 0
        /\ \A i \in 1 .. Len(Ready) : Ready[i] \in Segment
    BY <1>1, ReadyTypes, FileTypes
  <1>4. /\ DOMAIN written = 1 .. Len(Ready)
        /\ \A i \in 1 .. Len(Ready) : written[i] = Wrote(written[i].at, Ready[i])
    BY <1>1, <1>2 DEF Headers
  <1>5. \A i \in 1 .. Len(Ready) : written[i].at \in Nat
    BY <1>1, <1>2 DEF Chain
  <1>6. Express => /\ DOMAIN entries = 1 .. Len(Ready)
                   /\ \A i \in 1 .. Len(Ready) : entries[i] = Entry(written[i].at, Ready[i])
    BY <1>1, <1>2 DEF Headers
  <1>7. lead = IF Express THEN <<ExpressSegment>> ELSE <<>>
    BY <1>1 DEF Ending
  <1>8. QED
    BY <1>1, <1>2, <1>3, <1>4, <1>5, <1>6, <1>7

LEMMA InFileIs ==
  ASSUME FileInv, Complete, ~file.object
  PROVE  /\ Len(lead) = IF Express THEN 1 ELSE 0
         /\ DOMAIN InFile = 1 .. Len(lead) + Len(Ready)
         /\ Len(InFile) = Len(lead) + Len(Ready)
         /\ Express => InFile[1] = ExpressSegment /\ lead[1] = ExpressSegment
         /\ \A i \in 1 .. Len(Ready) : InFile[Len(lead) + i] = written[i]
  <1> DEFINE S == {written[i] : i \in 1 .. Len(Ready)} \cup {ExpressSegment}
  <1>1. /\ Len(Ready) \in Nat /\ Len(written) = Len(Ready)
        /\ written = [i \in 1 .. Len(Ready) |-> written[i]]
    <2>1. written = [i \in 1 .. Len(written) |-> Wrote(written[i].at, segments[i])]
      BY CompleteFile DEF FileInv, Complete, Headers
    <2>2. QED
      BY <2>1, CompleteFile
  <1>2. written \in Seq(S)
    BY <1>1
  <1>3. /\ lead \in Seq(S) /\ Len(lead) = IF Express THEN 1 ELSE 0
        /\ Express => lead[1] = ExpressSegment
    <2>1. lead = IF Express THEN <<ExpressSegment>> ELSE <<>>
      BY CompleteFile
    <2>2. ExpressSegment \in S
      OBVIOUS
    <2> HIDE DEF S
    <2>3. QED
      BY <2>1, <2>2
  <1> HIDE DEF S
  <1>4. ASSUME NEW a \in Seq(S), NEW b \in Seq(S)
        PROVE  /\ Len(a \o b) = Len(a) + Len(b) /\ DOMAIN (a \o b) = 1 .. Len(a) + Len(b)
               /\ \A i \in 1 .. Len(b) : (a \o b)[Len(a) + i] = b[i]
               /\ Len(a) = 1 => (a \o b)[1] = a[1]
    OBVIOUS
  <1>5. /\ Len(InFile) = Len(lead) + Len(written)
        /\ DOMAIN InFile = 1 .. Len(lead) + Len(written)
        /\ \A i \in 1 .. Len(written) : InFile[Len(lead) + i] = written[i]
        /\ Len(lead) = 1 => InFile[1] = lead[1]
    BY <1>2, <1>3, <1>4 DEF InFile
  <1>6. QED
    BY <1>1, <1>3, <1>5

LEMMA PlacesNumbered == FileInv => NumbersArePlaces
  <1> SUFFICES ASSUME FileInv, Complete, ~file.object, NEW i \in DOMAIN written
               PROVE  /\ InFile[Len(lead) + i].segnum = Len(lead) + i
                      /\ \A t \in file.segments[i].targets \cap DOMAIN written :
                           \E u \in written[i].targets :
                             u \in DOMAIN InFile /\ InFile[u] = written[t]
                      /\ lead # <<>> => lead[1].map[i] = written[i].segnum
    BY DEF NumbersArePlaces
  <1>1. i \in 1 .. Len(Ready) /\ Len(Ready) \in Nat /\ DOMAIN written = 1 .. Len(Ready)
        /\ file \in Files
    BY CompleteFile
  <1>2. written[i].segnum = Ready[i].segnum /\ written[i].targets = Ready[i].targets
    BY <1>1, CompleteFile, WroteIs
  <1>3. Len(lead) = IF Express THEN 1 ELSE 0
    BY InFileIs
  <1>4. Ready[i].segnum = Len(lead) + i
    BY <1>1, <1>3, ReadyTypes
  <1>5. InFile[Len(lead) + i].segnum = Len(lead) + i
    BY <1>1, <1>2, <1>4, InFileIs
  <1>6. ASSUME NEW t \in file.segments[i].targets, t \in DOMAIN written
        PROVE  \E u \in written[i].targets : u \in DOMAIN InFile /\ InFile[u] = written[t]
    <2>1. t + Len(lead) \in DOMAIN InFile /\ InFile[Len(lead) + t] = written[t]
      BY <1>1, <1>3, <1>6, InFileIs
    <2>2. Len(lead) + t \in written[i].targets
      <3>1. CASE Express
        BY <1>1, <1>2, <1>3, <1>6, <3>1, ReadyTypes
      <3>2. CASE ~Express
        BY <1>1, <1>2, <1>3, <1>6, <3>2, ReadyTypes
      <3>3. QED
        BY <3>1, <3>2
    <2>3. QED
      BY <1>1, <1>3, <1>6, <2>1, <2>2
  <1>7. ASSUME lead # <<>> PROVE lead[1].map[i] = written[i].segnum
    <2>1. Express
      BY <1>7, CompleteFile
    <2>2. lead[1] = ExpressSegment /\ segments = Ready
      BY <2>1, InFileIs, CompleteFile
    <2>3. ExpressSegment.map = [k \in 1 .. Len(segments) |-> segments[k].segnum]
      BY DEF ExpressSegment
    <2>4. QED
      BY <1>1, <1>2, <2>2, <2>3
  <1>8. QED
    BY <1>5, <1>6, <1>7

(* Segments are known by their places, in every file.                      *)
THEOREM PlacesKnown == FileSpec => []NumbersArePlaces
  BY FileHolds, PlacesNumbered, PTL

(* The headers in the express segment and the room that was left for it.   *)
LEMMA HeadersAre ==
  ASSUME FileInv, Complete, ~file.object, Express
  PROVE  /\ \A k \in 0 .. Len(Ready) : HeadersUpTo(k) \in Nat
         /\ NamesFit => Start = HeaderSize + LoadNameSize + ExpressName + ExpressFixed
                                + ExpressCount + HeadersUpTo(Len(Ready)) + 10 * Len(Ready)
  <1> DEFINE n == Len(Ready)
             segs == file.segments
             heads == [i \in DOMAIN entries |-> entries[i].bytes]
             sizes == [i \in DOMAIN segs |-> 8 + 2 + ExpressHeaderSize + LoadNameSize + segs[i].name + 1]
  <1>1. /\ n \in Nat /\ Len(segs) = n /\ DOMAIN segs = 1 .. n /\ file \in Files
        /\ DOMAIN entries = 1 .. n /\ segments = Ready /\ DOMAIN segments = 1 .. n
    BY CompleteFile, ReadyTypes, FileTypes
  <1>2. ASSUME NEW i \in 1 .. n
        PROVE  /\ segs[i].name \in Nat /\ Ready[i].name = segs[i].name
               /\ entries[i].bytes = ExpressHeaderSize + LoadNameSize + Pushed(segs[i].name)
               /\ Pushed(segs[i].name) \in Nat
               /\ segs[i].name < 256 => Pushed(segs[i].name) = segs[i].name + 1
    <2>1. Ready[i] \in Segment /\ Ready[i].name = segs[i].name
      BY <1>1, <1>2, ReadyTypes
    <2>2. segs[i].name \in Nat
      BY <2>1 DEF Segment
    <2>3. entries[i].bytes = ExpressHeaderSize + LoadNameSize + Pushed(Ready[i].name)
      <3>1. entries[i] = Entry(written[i].at, Ready[i])
        BY <1>2, CompleteFile
      <3>2. QED
        BY <3>1 DEF Entry
    <2>4. QED
      BY <2>1, <2>2, <2>3, PushedType
  <1>3. heads \in Seq(Nat) /\ Len(heads) = n
    <2>1. heads \in [1 .. n -> Nat]
      BY <1>1, <1>2 DEF ExpressHeaderSize, LoadNameSize
    <2>2. QED
      BY <1>1, <2>1
  <1>4. sizes \in Seq(Nat) /\ Len(sizes) = n
    <2>1. sizes \in [1 .. n -> Nat]
      BY <1>1, <1>2 DEF ExpressHeaderSize, LoadNameSize
    <2>2. QED
      BY <1>1, <2>1
  <1>5. NamesFit => \A i \in 1 .. n : sizes[i] = heads[i] + 10
    <2> SUFFICES ASSUME NamesFit, NEW i \in 1 .. n PROVE sizes[i] = heads[i] + 10
      OBVIOUS
    <2>1. segs[i].name < 256
      BY <1>1, <1>2 DEF NamesFit
    <2>2. segs[i].name \in Nat
      BY <1>2
    <2>3. heads[i] = ExpressHeaderSize + LoadNameSize + (segs[i].name + 1)
      <3>1. Pushed(segs[i].name) = segs[i].name + 1
        BY <1>2, <2>1
      <3>2. heads[i] = entries[i].bytes
        BY <1>1
      <3>3. QED
        BY <1>2, <3>1, <3>2
    <2>4. sizes[i] = 8 + 2 + ExpressHeaderSize + LoadNameSize + segs[i].name + 1
      BY <1>1
    <2> HIDE DEF heads, sizes
    <2>5. QED
      BY <2>2, <2>3, <2>4 DEF ExpressHeaderSize, LoadNameSize
  <1>6. \A k : HeadersUpTo(k) = Sums(heads)[k]
    BY DEF HeadersUpTo
  <1>7. Start = HeaderSize + LoadNameSize + ExpressName + ExpressFixed + ExpressCount
                + Sums(sizes)[n]
    BY <1>1 DEF Start, Room
  <1> HIDE DEF heads, sizes
  <1>8. \A k \in 0 .. n : Sums(heads)[k] \in Nat
    BY <1>3, SumsAre
  <1>9. NamesFit => Sums(sizes)[n] = Sums(heads)[n] + 10 * n
    <2> SUFFICES ASSUME NamesFit PROVE Sums(sizes)[n] = Sums(heads)[n] + 10 * n
      OBVIOUS
    <2>1. /\ sizes \in Seq(Nat) /\ heads \in Seq(Nat) /\ Len(sizes) = Len(heads)
          /\ \A i \in 1 .. Len(sizes) : sizes[i] = heads[i] + 10
      BY <1>3, <1>4, <1>5
    <2>2. \A k \in 0 .. Len(sizes) : Sums(sizes)[k] = Sums(heads)[k] + 10 * k
      BY <2>1, SumsShift
    <2>3. QED
      BY <1>1, <1>4, <2>2
  <1>10. QED
    BY <1>1, <1>6, <1>7, <1>8, <1>9
       DEF HeaderSize, LoadNameSize, ExpressName, ExpressFixed, ExpressCount

LEMMA Uncut ==
  ASSUME NEW x \in Nat, NEW w \in Nat, x < w
  PROVE  x % w = x
  OBVIOUS

LEMMA ExpressKnows == FileInv => ExpressTells
  <1> DEFINE data(i) == written[i].at + written[i].dispdata + 5
             header(i) == 10 * Len(written) + HeadersUpTo(i - 1)
  <1> SUFFICES ASSUME FileInv, Complete, Express, NEW i \in DOMAIN written
               PROVE  /\ entries[i].lconst_size > 0 => entries[i].lconst_mark = data(i)
                      /\ entries[i].reloc_size > 0
                           => entries[i].reloc_mark = data(i) + entries[i].lconst_size
                      /\ entries[i].lconst_size + entries[i].reloc_size + 6
                           = Following(written[i]) - (data(i) - 5)
                      /\ header(i) < Word => 8 * (i - 1) + lead[1].table[i] = header(i)
                      /\ entries[i].lconst_size + written[i].reserved = written[i].length
    BY DEF ExpressTells
  <1>1. file \in Files /\ ~file.object /\ file.version = 2
    BY FileTypes DEF FileInv
  <1>2. /\ i \in 1 .. Len(Ready) /\ Len(Ready) \in Nat /\ Len(written) = Len(Ready)
        /\ segments = Ready
    BY <1>1, CompleteFile
  <1> DEFINE s == Ready[i]
             at == written[i].at
  <1>3. /\ s \in Segment /\ at \in Nat /\ written[i] = Wrote(at, s)
        /\ entries[i] = Entry(at, s)
    BY <1>1, <1>2, CompleteFile
  <1> HIDE DEF s, at
  <1>4. /\ written[i].at = at
        /\ written[i].bytes = HeaderSize + LoadNameSize + Pushed(s.name)
                              + (5 + Lconst(s) + s.relocs + 1)
        /\ written[i].bytecount = written[i].bytes
        /\ written[i].dispdata = HeaderSize + LoadNameSize + Pushed(s.name)
        /\ written[i].reserved = 0
        /\ written[i].length = s.size + s.reserved
        /\ Lconst(s) \in Nat /\ Lconst(s) = s.size + s.reserved
        /\ Pushed(s.name) \in Nat
    <2>1. HeaderReserved(s) = 0 /\ Lconst(s) = s.size + s.reserved
      BY DEF HeaderReserved, Lconst
    <2>2. QED
      BY <1>1, <1>3, <2>1, WroteIs
  <1>5. s.relocs \in Nat /\ s.size \in Nat /\ s.reserved \in Nat
    BY <1>3 DEF Segment
  <1> DEFINE mark == at + HeaderSize + LoadNameSize + Pushed(s.name) + 5
  <1>6. /\ entries[i].lconst_mark = IF Lconst(s) = 0 THEN 0 ELSE mark
        /\ entries[i].lconst_size = Lconst(s)
        /\ entries[i].reloc_mark = IF s.relocs = 0 THEN 0 ELSE mark + Lconst(s)
        /\ entries[i].reloc_size = s.relocs
    BY <1>3 DEF Entry
  <1>7. mark = data(i) /\ mark \in Nat
    BY <1>3, <1>4 DEF HeaderSize, LoadNameSize
  <1>8. entries[i].lconst_size + entries[i].reloc_size + 6 = Following(written[i]) - (data(i) - 5)
    <2>1. Following(written[i]) = at + written[i].bytes
      BY <1>1, <1>4 DEF Following
    <2>2. QED
      BY <1>3, <1>4, <1>5, <1>6, <2>1 DEF HeaderSize, LoadNameSize
  <1>9. header(i) < Word => 8 * (i - 1) + lead[1].table[i] = header(i)
    <2> DEFINE n == Len(Ready)
               behind == HeadersUpTo(i - 1)
               x == 10 * n - 8 * (i - 1) + behind
    <2>1. behind \in Nat
      BY <1>1, <1>2, HeadersAre
    <2>2. lead[1].table[i] = x % Word
      <3>1. lead[1] = ExpressSegment
        BY <1>1, InFileIs
      <3>2. ExpressSegment.table = [k \in 1 .. Len(segments) |->
                                      Table(Len(segments), k, HeadersUpTo(k - 1))]
        BY DEF ExpressSegment
      <3>3. QED
        BY <1>2, <3>1, <3>2 DEF Table
    <2> HIDE DEF behind
    <2>3. x \in Nat /\ x <= 10 * n + behind /\ 8 * (i - 1) + x = 10 * n + behind
      BY <1>2, <2>1
    <2>4. header(i) = 10 * n + behind
      BY <1>2 DEF behind
    <2> HIDE DEF x
    <2>5. 10 * n + behind < Word => x % Word = x
      BY <1>2, <2>1, <2>3, Uncut, FileAssumption
    <2>6. QED
      BY <2>2, <2>3, <2>4, <2>5
  <1> HIDE DEF mark, data, header
  <1>10. entries[i].lconst_size > 0 => entries[i].lconst_mark = data(i)
    BY <1>4, <1>6, <1>7
  <1>11. entries[i].reloc_size > 0
           => entries[i].reloc_mark = data(i) + entries[i].lconst_size
    BY <1>5, <1>6, <1>7
  <1>12. entries[i].lconst_size + written[i].reserved = written[i].length
    BY <1>4, <1>5, <1>6
  <1>13. QED
    BY <1>8, <1>9, <1>10, <1>11, <1>12

(* The express segment tells the loader where every segment is.            *)
THEOREM LoaderIsTold == FileSpec => []ExpressTells
  BY FileHolds, ExpressKnows, PTL

(* Where a segment ends for a loader, and where the next one is written.   *)
LEMMA BehindFollows ==
  ASSUME FileInv, Complete, ~file.object, NEW k \in 1 .. Len(Ready)
  PROVE  /\ k # Len(Ready) =>
              \/ Behind(k) = Following(written[k])
              \/ /\ file.version = 1 /\ written[k].bytes % Block = 0
                 /\ Behind(k) = Following(written[k]) + Block
         /\ k = Len(Ready) => Behind(k) <= Following(written[k])
  <1>1. /\ file \in Files /\ written[k].at \in Nat /\ Ready[k] \in Segment
        /\ written[k] = Wrote(written[k].at, Ready[k])
        /\ Len(segments) = Len(Ready)
    BY CompleteFile
  <1> DEFINE at == written[k].at
             bytes == written[k].bytes
  <1>2. /\ bytes \in Nat
        /\ written[k].bytecount = IF file.version = 1 THEN Blocks(bytes) ELSE bytes
    BY <1>1, WroteIs
  <1>3. file.version = 1 => at % Block = 0
    BY CompleteFile DEF Chain
  <1> HIDE DEF at, bytes
  <1>4. Behind(k) = IF file.version = 1 /\ k # Len(Ready)
                    THEN at + bytes + Padding(at + bytes) ELSE at + bytes
    BY <1>1 DEF Behind, at, bytes
  <1>5. Following(written[k]) = IF file.version = 1 THEN at + Block * Blocks(bytes)
                                ELSE at + bytes
    BY <1>2 DEF Following, at
  <1>6. CASE file.version = 1
    <2>1. /\ at + bytes <= at + Block * Blocks(bytes)
          /\ at + bytes + Padding(at + bytes) =
               at + Block * Blocks(bytes) + IF bytes % Block = 0 THEN Block ELSE 0
      BY <1>1, <1>2, <1>3, <1>6, BlockEnd DEF at
    <2>2. Blocks(bytes) \in Nat
      BY <1>2 DEF Blocks, Block
    <2> DEFINE stop == at + Block * Blocks(bytes)
    <2>3. stop \in Nat
      BY <1>1, <2>2 DEF Block, at
    <2> HIDE DEF stop
    <2>4. k # Len(Ready) => Behind(k) = stop + IF bytes % Block = 0 THEN Block ELSE 0
      BY <1>4, <1>6, <2>1 DEF stop
    <2>5. k = Len(Ready) => Behind(k) <= stop
      BY <1>4, <1>6, <2>1 DEF stop
    <2>6. Following(written[k]) = stop
      BY <1>5, <1>6 DEF stop
    <2>7. QED
      BY <1>6, <2>3, <2>4, <2>5, <2>6 DEF bytes
  <1>7. CASE file.version # 1
    BY <1>1, <1>2, <1>4, <1>5, <1>7 DEF at, bytes
  <1>8. QED
    BY <1>6, <1>7

LEMMA LoaderWalks == FileInv => SegmentsInSequence
  <1> SUFFICES ASSUME FileInv, Complete, NamesFit
               PROVE  /\ InFile[1].at = 0
                      /\ \A i \in 1 .. Len(InFile) - 1 :
                           \/ InFile[i + 1].at = Following(InFile[i])
                           \/ /\ file.version = 1 /\ InFile[i].bytes % Block = 0
                              /\ InFile[i + 1].at = Following(InFile[i]) + Block
                      /\ offset <= Following(InFile[Len(InFile)])
    BY DEF SegmentsInSequence
  <1>1. CASE file.object
    <2> DEFINE s == segments[1]
               header == Header(0, s, s.relocs, 0, s.reserved)
               bytes == HeaderSize + LoadNameSize + Pushed(s.name) + s.relocs
    <2>1. /\ file \in Files /\ written = <<header>> /\ lead = <<>>
          /\ offset = written[1].bytes /\ segments = Ready /\ ~Express
      BY <1>1, FileTypes DEF FileInv, Complete, Object
    <2>2. s \in Segment
      BY <1>1, <2>1, ReadyTypes, FileTypes
    <2>3. bytes \in Nat
      <3>1. s.name \in Nat /\ s.relocs \in Nat
        BY <2>2 DEF Segment
      <3>2. QED
        BY <3>1, PushedType DEF HeaderSize, LoadNameSize
    <2>4. /\ header.at = 0 /\ header.bytes = bytes
          /\ header.bytecount = IF file.version = 1 THEN Blocks(bytes) ELSE bytes
      BY DEF Header
    <2> HIDE DEF header, bytes
    <2>5. InFile = <<header>>
      BY <2>1 DEF InFile
    <2>6. InFile[1] = header /\ Len(InFile) = 1 /\ written[1] = header
      BY <2>1, <2>5
    <2>7. 0 + bytes <= 0 + Block * Blocks(bytes)
      BY <2>3, BlockEnd DEF Block
    <2>8. offset <= Following(header)
      BY <2>1, <2>3, <2>4, <2>6, <2>7 DEF Following
    <2>9. QED
      BY <2>4, <2>6, <2>8
  <1>2. CASE ~file.object
    <2> DEFINE n == Len(Ready)
               l == Len(lead)
    <2>1. /\ file \in Files /\ n \in Nat /\ n > 0 /\ Len(written) = n
          /\ l = IF Express THEN 1 ELSE 0
          /\ Len(InFile) = l + n
          /\ \A i \in 1 .. n : InFile[l + i] = written[i]
      BY <1>2, CompleteFile, InFileIs
    <2>2. /\ \A i \in 1 .. n : written[i].at = IF i = 1 THEN Start ELSE Behind(i - 1)
          /\ offset = Behind(n)
      BY <1>2, <2>1, CompleteFile DEF Chain
    <2> HIDE DEF n, l
    <2>3. Express => /\ InFile[1].at = 0
                     /\ InFile[2].at = Following(InFile[1])
      <3> SUFFICES ASSUME Express
                   PROVE  InFile[1].at = 0 /\ InFile[2].at = Following(InFile[1])
        OBVIOUS
      <3>1. InFile[1] = ExpressSegment /\ segments = Ready
        BY <1>2, InFileIs, CompleteFile
      <3> DEFINE length == ExpressCount + HeadersUpTo(n) + 10 * n
                 bytecount == HeaderSize + LoadNameSize + ExpressName + ExpressFixed + length
      <3>2. ExpressSegment.at = 0 /\ ExpressSegment.bytecount = bytecount
        BY <3>1 DEF ExpressSegment, n
      <3>3. HeadersUpTo(n) \in Nat
        BY <1>2, <2>1, HeadersAre DEF n
      <3>4. Start = HeaderSize + LoadNameSize + ExpressName + ExpressFixed
                    + ExpressCount + HeadersUpTo(n) + 10 * n
        BY <1>2, HeadersAre DEF n
      <3>5. Start = bytecount /\ bytecount \in Nat
        BY <2>1, <3>3, <3>4
           DEF HeaderSize, LoadNameSize, ExpressName, ExpressFixed, ExpressCount
      <3> HIDE DEF bytecount
      <3>6. file.version = 2
        BY <2>1, FileTypes
      <3>7. Following(ExpressSegment) = bytecount
        BY <3>2, <3>5, <3>6 DEF Following
      <3>8. InFile[2] = written[1] /\ written[1].at = Start
        BY <2>1, <2>2
      <3>9. QED
        BY <3>1, <3>2, <3>5, <3>7, <3>8
    <2>4. ~Express => InFile[1].at = 0
      <3> SUFFICES ASSUME ~Express PROVE InFile[1].at = 0
        OBVIOUS
      <3>1. InFile[1] = written[1] /\ written[1].at = Start
        BY <2>1, <2>2
      <3>2. QED
        BY <3>1 DEF Start
    <2>5. ASSUME NEW i \in 1 .. Len(InFile) - 1
          PROVE  \/ InFile[i + 1].at = Following(InFile[i])
                 \/ /\ file.version = 1 /\ InFile[i].bytes % Block = 0
                    /\ InFile[i + 1].at = Following(InFile[i]) + Block
      <3>1. CASE i <= l
        BY <2>1, <2>3, <3>1
      <3>2. CASE i > l
        <4> DEFINE k == i - l
        <4>1. k \in 1 .. n - 1 /\ i = l + k /\ i + 1 = l + (k + 1)
          BY <2>1, <3>2
        <4>2. InFile[i] = written[k] /\ InFile[i + 1] = written[k + 1]
          BY <2>1, <4>1
        <4> HIDE DEF k
        <4>3. written[k + 1].at = Behind(k)
          <5>1. k + 1 \in 1 .. n /\ k + 1 # 1 /\ (k + 1) - 1 = k
            BY <2>1, <4>1
          <5>2. written[k + 1].at = Behind((k + 1) - 1)
            BY <2>2, <5>1
          <5>3. QED
            BY <5>1, <5>2
        <4>4. k \in 1 .. Len(Ready) /\ k # Len(Ready)
          BY <2>1, <4>1 DEF n
        <4>5. \/ Behind(k) = Following(written[k])
              \/ /\ file.version = 1 /\ written[k].bytes % Block = 0
                 /\ Behind(k) = Following(written[k]) + Block
          BY <1>2, <4>4, BehindFollows
        <4>6. QED
          BY <4>2, <4>3, <4>5
      <3>3. QED
        BY <2>1, <2>5, <3>1, <3>2
    <2>6. offset <= Following(InFile[Len(InFile)])
      <3>1. n \in 1 .. Len(Ready) /\ n = Len(Ready)
        BY <2>1 DEF n
      <3>2. Behind(n) <= Following(written[n])
        BY <1>2, <3>1, BehindFollows
      <3>3. InFile[Len(InFile)] = written[n]
        BY <2>1
      <3>4. QED
        BY <2>2, <3>2, <3>3
    <2>7. QED
      BY <2>3, <2>4, <2>5, <2>6
  <1>3. QED
    BY <1>1, <1>2

(* A loader that walks the file by its byte counts finds every segment.    *)
THEOREM WalkFindsAll == FileSpec => []SegmentsInSequence
  BY FileHolds, LoaderWalks, PTL

(* Of a record pushed, its size is added.                                  *)
Sizes == [i \in DOMAIN body |-> Bytes(body[i])]

SizeInv ==
  /\ body = [i \in 1 .. Len(body) |-> body[i]]
  /\ Len(body) \in Nat
  /\ \A i \in 1 .. Len(body) : Bytes(body[i]) \in Nat
  /\ \A l \in DOMAIN helpers : helpers[l].data \in Seq(Int)
  /\ SizeIsWritten

LEMMA PushedRecord ==
  ASSUME SizeInv, NEW record, Bytes(record) \in Nat,
         body' = Append(body, record), reloc_size' = reloc_size + Bytes(record)
  PROVE  /\ body' = [i \in 1 .. Len(body') |-> body'[i]]
         /\ Len(body') \in Nat
         /\ \A i \in 1 .. Len(body') : Bytes(body'[i]) \in Nat
         /\ SizeIsWritten'
  <1> DEFINE n == Len(body)
             new == [i \in DOMAIN body' |-> Bytes(body'[i])]
  <1>1. n \in Nat /\ body = [i \in 1 .. n |-> body[i]]
    BY DEF SizeInv
  <1>2. /\ body' = [i \in 1 .. n + 1 |-> IF i <= n THEN body[i] ELSE record]
        /\ Len(body') = n + 1
    <2> HIDE DEF n, new
    <2>1. /\ Append(body, record) = [i \in 1 .. n + 1 |-> IF i <= n THEN body[i] ELSE record]
          /\ Len(Append(body, record)) = n + 1
      BY <1>1, AppendIs
    <2>2. QED
      BY <2>1
  <1>3. /\ DOMAIN body = 1 .. n /\ DOMAIN body' = 1 .. n + 1
        /\ \A i \in 1 .. n : body'[i] = body[i]
        /\ body'[n + 1] = record
    BY <1>1, <1>2
  <1>4. \A i \in 1 .. n + 1 : Bytes(body'[i]) \in Nat
    BY <1>1, <1>3 DEF SizeInv
  <1>5. Sizes = [i \in 1 .. n |-> Bytes(body[i])]
    BY <1>3 DEF Sizes
  <1>6. Sizes \in Seq(Nat) /\ Len(Sizes) = n /\ Sizes = [i \in 1 .. n |-> Sizes[i]]
    BY <1>1, <1>5 DEF SizeInv
  <1>7. new = Append(Sizes, Bytes(record))
    <2>1. new = [i \in 1 .. n + 1 |-> IF i <= n THEN Sizes[i] ELSE Bytes(record)]
      BY <1>1, <1>3, <1>5
    <2>2. Append(Sizes, Bytes(record))
            = [i \in 1 .. n + 1 |-> IF i <= n THEN Sizes[i] ELSE Bytes(record)]
      BY <1>1, <1>6, AppendIs
    <2>3. QED
      BY <2>1, <2>2
  <1>8. reloc_size = Sums(Sizes)[n]
    BY DEF SizeInv, SizeIsWritten, Sizes
  <1>9. Sums(Append(Sizes, Bytes(record)))[n + 1] = Sums(Sizes)[n] + Bytes(record)
    BY <1>6, SumsAppend
  <1>10. SizeIsWritten'
    BY <1>2, <1>7, <1>8, <1>9 DEF SizeIsWritten
  <1>11. body' = [i \in 1 .. Len(body') |-> body'[i]]
    BY <1>2
  <1>12. QED
    BY <1>1, <1>2, <1>4, <1>10, <1>11

(* A later offset is in no earlier page.                                   *)
LEMMA PageOrder ==
  ASSUME NEW x \in Nat, NEW y \in Nat, x <= y
  PROVE  x \div Radix \in Nat /\ y \div Radix \in Nat /\ x \div Radix <= y \div Radix
  <1> DEFINE p == x \div Radix
             q == y \div Radix
             m == x % Radix
             n == y % Radix
  <1>0. Radix \in Nat /\ Radix > 0
    BY RadixAssumption
  <1>1. /\ p \in Nat /\ x = Radix * p + m /\ m \in Nat
        /\ q \in Nat /\ y = Radix * q + n /\ n < Radix /\ n \in Nat
    BY <1>0, Division
  <1> HIDE DEF p, q, m, n
  <1>2. SUFFICES ASSUME q + 1 <= p PROVE FALSE
    BY <1>1 DEF p, q
  <1>3. Radix * (q + 1) <= Radix * p
    BY <1>0, <1>1, <1>2, TimesOrder
  <1>4. Radix * (q + 1) = Radix * q + Radix
    BY <1>0, <1>1
  <1> DEFINE a == Radix * p
             b == Radix * q
  <1>5. a \in Nat /\ b \in Nat
    BY <1>0, <1>1
  <1>6. x = a + m /\ y = b + n /\ b + Radix <= a
    BY <1>1, <1>3, <1>4
  <1> HIDE DEF a, b
  <1>7. QED
    BY <1>0, <1>1, <1>5, <1>6

Helper == [data : Seq(Nat), page : Nat, count : Nat]

(* The lists of the relocations; the intersegs have the others.            *)
OwnLists == {SUPER_RELOC2, SUPER_RELOC3, SUPER_INTERSEG24 + segnum}

Feeding(l) == IF l \in OwnLists THEN relocs ELSE intersegs

(* A list is at a page that what feeds it has come to.                     *)
Reached(l) == \E i \in DOMAIN Feeding(l) : helpers[l].page <= Feeding(l)[i].offset \div Radix

RecordsInv ==
  /\ segnum \in Segnums /\ fixups \in Fixups
  /\ relocs \in Seq(fixups.relocs) /\ intersegs \in Seq(fixups.intersegs)
  /\ \A l \in DOMAIN helpers : helpers[l] \in Helper /\ Reached(l)
  /\ SizeInv

LEMMA RadixIs ==
  /\ Radix \in Nat /\ Radix = 2 * SkipFlag /\ SkipFlag \in Nat /\ SkipFlag > 1
  /\ MaxSkip \in Nat /\ MaxSkip > 0 /\ SkipFlag = MaxSkip + 1
  BY RadixAssumption DEF SkipFlag, MaxSkip

LEMMA SkipsAre ==
  ASSUME NEW skip \in Nat, skip # 0
  PROVE  \E full \in Nat, last \in 1 .. MaxSkip :
           /\ skip = full * MaxSkip + last
           /\ Skips(skip) = [i \in 1 .. full + 1 |->
                               IF i <= full THEN SkipFlag + MaxSkip ELSE SkipFlag + last]
           /\ Skips(skip) \in Seq(Nat)
  <1> DEFINE full == (skip - 1) \div MaxSkip
             rest == (skip - 1) % MaxSkip
             last == rest + 1
             most == full * MaxSkip
  <1>1. MaxSkip \in Nat /\ MaxSkip > 0 /\ skip - 1 \in Nat /\ SkipFlag \in Nat
    BY RadixIs
  <1>2. full \in Nat /\ rest \in Nat /\ rest < MaxSkip /\ skip - 1 = MaxSkip * full + rest
    BY <1>1, Division
  <1> HIDE DEF full, rest
  <1>3. MaxSkip * full = most /\ most \in Nat
    BY <1>1, <1>2
  <1> HIDE DEF most
  <1>4. last \in 1 .. MaxSkip /\ skip = most + last /\ skip - most = last
    BY <1>1, <1>2, <1>3
  <1> HIDE DEF last
  <1>5. Skips(skip) = [i \in 1 .. full + 1 |->
                         IF i <= full THEN Radix - 1 ELSE SkipFlag + (skip - most)]
    BY DEF Skips, full, most
  <1>6. Radix - 1 = SkipFlag + MaxSkip
    BY RadixIs
  <1>7. Skips(skip) = [i \in 1 .. full + 1 |->
                         IF i <= full THEN SkipFlag + MaxSkip ELSE SkipFlag + last]
    BY <1>4, <1>5, <1>6
  <1>8. Skips(skip) \in Seq(Nat)
    <2>1. SkipFlag + MaxSkip \in Nat /\ SkipFlag + last \in Nat /\ full + 1 \in Nat
      BY <1>1, <1>2, <1>4
    <2>2. Skips(skip) \in [1 .. full + 1 -> Nat]
      BY <1>7, <2>1
    <2>3. QED
      BY <2>1, <2>2
  <1>9. skip = full * MaxSkip + last
    BY <1>4 DEF most
  <1>10. QED
    BY <1>2, <1>4, <1>7, <1>8, <1>9

(* append(): the pages ascend, so the skip is no negative number.          *)
LEMMA AddedIs ==
  ASSUME NEW h \in Helper, NEW at \in Nat, h.page <= at \div Radix
  PROVE  Added(h, at) \in Helper /\ Added(h, at).page = at \div Radix
  <1> DEFINE page == at \div Radix
             byte == at % Radix
             skip == page - h.page - IF h.count > 0 THEN 1 ELSE 0
  <1>1. page \in Nat /\ byte \in Nat /\ h.data \in Seq(Nat) /\ h.page \in Nat /\ h.count \in Nat
        /\ h.page <= page
    BY Division, RadixAssumption DEF Helper
  <1> HIDE DEF page, byte
  <1>2. CASE page = h.page /\ h.count > 0
    <2> DEFINE data == [h.data EXCEPT ![Len(h.data) - h.count] = h.count]
    <2>1. data \in Seq(Nat)
      <3> DEFINE n == Len(h.data)
      <3>1. h.data \in [1 .. n -> Nat] /\ n \in Nat
        BY <1>1
      <3> HIDE DEF n
      <3>2. [h.data EXCEPT ![n - h.count] = h.count] \in [1 .. n -> Nat]
        BY <1>1, <3>1
      <3>3. QED
        BY <3>1, <3>2 DEF n
    <2>2. Added(h, at) = [h EXCEPT !.data = Append(data, byte), !.count = h.count + 1]
      BY <1>2 DEF Added, page, byte
    <2>3. Append(data, byte) \in Seq(Nat) /\ h.count + 1 \in Nat
      BY <1>1, <2>1
    <2> HIDE DEF data
    <2>4. QED
      BY <1>2, <2>2, <2>3 DEF Helper, page
  <1>3. CASE ~(page = h.page /\ h.count > 0)
    <2> DEFINE data == h.data \o Skips(skip) \o <<0, byte>>
    <2>1. skip \in Nat
      <3>1. CASE h.count > 0
        <4>1. skip = page - h.page - 1 /\ page # h.page
          BY <1>3, <3>1
        <4>2. QED
          BY <1>1, <4>1
      <3>2. CASE ~(h.count > 0)
        BY <1>1, <3>2
      <3>3. QED
        BY <3>1, <3>2
    <2>2. Skips(skip) \in Seq(Nat)
      <3>1. CASE skip = 0
        BY <3>1 DEF Skips
      <3>2. CASE skip # 0
        BY <2>1, <3>2, SkipsAre
      <3>3. QED
        BY <3>1, <3>2
    <2> HIDE DEF skip
    <2>3. data \in Seq(Nat)
      BY <1>1, <2>2
    <2>4. Added(h, at) = [data |-> data, page |-> page, count |-> 1]
      BY <1>3 DEF Added, page, byte, skip
    <2> HIDE DEF data
    <2>5. QED
      BY <1>1, <2>3, <2>4 DEF Helper, page
  <1>4. QED
    BY <1>2, <1>3

LEMMA FixupTypes ==
  ASSUME RecordsInv
  PROVE  /\ segnum \in Nat \ {0}
         /\ \A r \in fixups.relocs : Field(r)
         /\ \A r \in fixups.intersegs : Field(r) /\ r.segment \in Nat \ {0}
  BY FixupAssumption DEF RecordsInv

(* Relocations and intersegs go to lists apart.                            *)
LEMMA ListsApart ==
  ASSUME RecordsInv
  PROVE  /\ \A r : RelocLists(r) \subseteq OwnLists
         /\ \A r \in fixups.intersegs :
              r.segment # segnum => IntersegLists(r) \cap OwnLists = {}
  <1>1. \A r : RelocLists(r) \subseteq OwnLists
    BY DEF RelocLists, OwnLists
  <1>2. ASSUME NEW r \in fixups.intersegs, r.segment # segnum, NEW l \in IntersegLists(r)
        PROVE  l \notin OwnLists
    <2>1. r.segment \in Nat /\ r.segment # 0 /\ segnum \in Nat /\ segnum # 0
          /\ SuperSegments <= 12 /\ SuperSegments \in Nat
      BY FixupTypes, FixupAssumption
    <2>2. \/ l = SUPER_INTERSEG1
          \/ l = SUPER_INTERSEG12 + r.segment /\ r.segment <= SuperSegments
          \/ l = SUPER_INTERSEG24 + r.segment
      BY <1>2 DEF IntersegLists
    <2>3. QED
      BY <1>2, <2>1, <2>2
         DEF OwnLists, SUPER_RELOC2, SUPER_RELOC3, SUPER_INTERSEG1, SUPER_INTERSEG12,
             SUPER_INTERSEG24
  <1>3. QED
    BY <1>1, <1>2

LEMMA InitRecords == Init => RecordsInv
  <1> SUFFICES ASSUME Init PROVE RecordsInv
    OBVIOUS
  <1>1. /\ body = <<>> /\ reloc_size = 0 /\ helpers = [l \in {} |-> NewHelper]
        /\ relocs = <<>> /\ intersegs = <<>> /\ segnum \in Segnums /\ fixups \in Fixups
    BY DEF Init
  <1> DEFINE sizes == [i \in DOMAIN body |-> Bytes(body[i])]
  <1>2. sizes \in Seq(Nat)
    BY <1>1
  <1>3. Sums(sizes)[0] = 0
    <2> HIDE DEF sizes
    <2>1. QED
      BY <1>2, SumsAre
  <1>4. SizeIsWritten
    BY <1>1, <1>3 DEF SizeIsWritten
  <1>5. SizeInv
    BY <1>1, <1>4 DEF SizeInv
  <1>6. QED
    BY <1>1, <1>5 DEF RecordsInv

(* A list that r feeds is at a page no later than r.                       *)
LEMMA AheadOfList ==
  ASSUME RecordsInv, NEW l \in DOMAIN helpers, NEW r, r.offset \in Nat,
         Follows(r, Feeding(l))
  PROVE  helpers[l].page <= r.offset \div Radix
  <1>1. PICK i \in DOMAIN Feeding(l) : helpers[l].page <= Feeding(l)[i].offset \div Radix
    BY DEF RecordsInv, Reached
  <1>2. Feeding(l)[i].offset \in Nat
    BY <1>1, FixupTypes DEF RecordsInv, Feeding, Field
  <1>3. Feeding(l)[i].offset <= r.offset
    BY <1>1 DEF Follows
  <1>4. /\ Feeding(l)[i].offset \div Radix <= r.offset \div Radix
        /\ Feeding(l)[i].offset \div Radix \in Nat /\ r.offset \div Radix \in Nat
    BY <1>2, <1>3, PageOrder
  <1>5. helpers[l].page \in Nat
    BY DEF RecordsInv, Helper
  <1>6. QED
    BY <1>1, <1>4, <1>5

(* The lists behind Gather; it and Emit are the two ways of a relocation.  *)
Fed(r, list) ==
  Added(IF list \in DOMAIN helpers THEN helpers[list] ELSE NewHelper, r.offset)

LEMMA GatherIs ==
  ASSUME RecordsInv, NEW r, r.offset \in Nat, NEW list,
         Follows(r, Feeding(list)), Gather(r, list)
  PROVE  /\ helpers'[list] \in Helper /\ helpers'[list].page = r.offset \div Radix
         /\ list \in DOMAIN helpers => helpers[list].page <= helpers'[list].page
  <1>1. helpers' = [l \in DOMAIN helpers \cup {list} |->
                      IF l = list THEN Fed(r, list) ELSE helpers[l]]
    BY DEF Gather, Fed
  <1> DEFINE h == IF list \in DOMAIN helpers THEN helpers[list] ELSE NewHelper
  <1>2. h \in Helper /\ h.page <= r.offset \div Radix
    <2>1. CASE list \in DOMAIN helpers
      BY <2>1, AheadOfList DEF RecordsInv
    <2>2. CASE list \notin DOMAIN helpers
      <3>1. r.offset \div Radix \in Nat
        BY PageOrder
      <3>2. QED
        BY <2>2, <3>1 DEF NewHelper, Helper
    <2>3. QED
      BY <2>1, <2>2
  <1> HIDE DEF h
  <1>3. Added(h, r.offset) \in Helper /\ Added(h, r.offset).page = r.offset \div Radix
    BY <1>2, AddedIs
  <1>4. Fed(r, list) = Added(h, r.offset)
    BY DEF Fed, h
  <1>5. list \in DOMAIN helpers => h = helpers[list]
    BY DEF h
  <1>6. QED
    BY <1>1, <1>2, <1>3, <1>4, <1>5

LEMMA EmitKeeps ==
  ASSUME RecordsInv, NEW record, NEW bytes, bytes = Bytes(record), bytes \in Nat,
         Emit(record, bytes)
  PROVE  SizeInv'
  <1>1. /\ body' = Append(body, record) /\ reloc_size' = reloc_size + Bytes(record)
        /\ helpers' = helpers /\ Bytes(record) \in Nat /\ SizeInv
    BY DEF Emit, RecordsInv
  <1>2. QED
    BY <1>1, PushedRecord DEF SizeInv

LEMMA GatherSize ==
  ASSUME RecordsInv, UNCHANGED <<body, reloc_size>>,
         \A l \in DOMAIN helpers' : helpers'[l] \in Helper
  PROVE  SizeInv'
  BY DEF RecordsInv, SizeInv, SizeIsWritten, Helper

LEMMA SizeType ==
  ASSUME SizeInv
  PROVE  reloc_size \in Nat
  <1>1. Sizes \in Seq(Nat) /\ Len(Sizes) = Len(body)
    <2>1. Sizes = [i \in 1 .. Len(body) |-> Bytes(body[i])]
      BY DEF SizeInv, Sizes
    <2>2. QED
      BY <2>1 DEF SizeInv
  <1>2. Sums(Sizes)[Len(body)] \in Nat
    BY <1>1, SumsAre
  <1>3. QED
    BY <1>2 DEF SizeInv, SizeIsWritten, Sizes

LEMMA FeedKeeps ==
  ASSUME RecordsInv, NEW list, NEW r, r.offset \in Nat,
         NEW seq, Feeding(list)' = Append(seq, r), seq \in Seq(fixups.relocs \cup fixups.intersegs),
         helpers'[list].page = r.offset \div Radix
  PROVE  Reached(list)'
  <1>1. /\ Len(seq) + 1 \in DOMAIN Append(seq, r)
        /\ Append(seq, r)[Len(seq) + 1] = r
    OBVIOUS
  <1>2. r.offset \div Radix \in Nat
    BY PageOrder
  <1>3. QED
    BY <1>1, <1>2 DEF Reached

LEMMA RelocKeeps ==
  ASSUME RecordsInv, NEW r \in fixups.relocs, NextReloc(r)
  PROVE  RecordsInv' /\ \A l \in DOMAIN helpers \cap DOMAIN helpers' :
                          helpers'[l].page >= helpers[l].page
  <1>1. /\ Follows(r, relocs) /\ relocs' = Append(relocs, r) /\ AddReloc(r)
        /\ UNCHANGED <<segnum, fixups, super, intersegs>>
    BY DEF NextReloc
  <1>2. /\ r.offset \in Nat /\ relocs' \in Seq(fixups.relocs) /\ Len(relocs') = Len(relocs) + 1
        /\ relocs'[Len(relocs) + 1] = r /\ Len(relocs) \in Nat
        /\ \A i \in DOMAIN relocs : i \in DOMAIN relocs' /\ relocs'[i] = relocs[i]
        /\ Len(relocs) + 1 \in DOMAIN relocs'
    BY <1>1, FixupTypes DEF RecordsInv, Field
  <1>3. OwnLists' = OwnLists
    BY <1>1 DEF OwnLists
  <1>4. ASSUME NEW l \in DOMAIN helpers, l \in DOMAIN helpers', helpers'[l] = helpers[l]
        PROVE  Reached(l)'
    <2>1. PICK i \in DOMAIN Feeding(l) : helpers[l].page <= Feeding(l)[i].offset \div Radix
      BY DEF RecordsInv, Reached
    <2>2. i \in DOMAIN Feeding(l)' /\ Feeding(l)'[i] = Feeding(l)[i]
      BY <1>1, <1>2, <1>3 DEF Feeding
    <2>3. QED
      BY <1>4, <2>1, <2>2 DEF Reached
  <1>5. CASE RelocLists(r) = {}
    <2>1. PICK record : \E bytes \in {7, 11} : bytes = Bytes(record) /\ Emit(record, bytes)
      <3> DEFINE record == [op |-> "RELOC", size |-> r.size, shift |-> r.shift,
                            offset |-> r.offset, value |-> r.value, segment |-> segnum]
      <3>1. \/ Emit([record EXCEPT !.op = "cRELOC"], 7)
            \/ Emit(record, 11)
        BY <1>1, <1>5 DEF AddReloc
      <3>2. Bytes([record EXCEPT !.op = "cRELOC"]) = 7 /\ Bytes(record) = 11
        BY DEF Bytes, FieldBytes
      <3>3. QED
        BY <3>1, <3>2
    <2>2. SizeInv'
      BY <2>1, EmitKeeps
    <2>3. helpers' = helpers
      BY <2>1 DEF Emit
    <2>4. \A l \in DOMAIN helpers : helpers[l] \in Helper /\ helpers[l].page \in Nat
      BY DEF RecordsInv, Helper
    <2>5. QED
      BY <1>1, <1>2, <1>4, <2>2, <2>3, <2>4 DEF RecordsInv
  <1>6. CASE RelocLists(r) # {}
    <2>1. PICK list \in RelocLists(r) : Gather(r, list)
      BY <1>1, <1>6 DEF AddReloc
    <2>2. list \in OwnLists /\ Feeding(list) = relocs /\ Feeding(list)' = Append(relocs, r)
      BY <1>1, <1>3, ListsApart DEF Feeding
    <2>3. /\ DOMAIN helpers' = DOMAIN helpers \cup {list}
          /\ \A l \in DOMAIN helpers : l # list => helpers'[l] = helpers[l]
          /\ helpers'[list] \in Helper /\ helpers'[list].page = r.offset \div Radix
          /\ list \in DOMAIN helpers => helpers[list].page <= helpers'[list].page
          /\ UNCHANGED <<body, reloc_size>>
      <3>1. Follows(r, Feeding(list)) /\ r.offset \in Nat
        BY <1>1, <1>2, <2>2
      <3>2. DOMAIN helpers' = DOMAIN helpers \cup {list}
        BY <2>1 DEF Gather
      <3>3. ASSUME NEW l \in DOMAIN helpers, l # list PROVE helpers'[l] = helpers[l]
        BY <2>1, <3>3 DEF Gather
      <3>4. helpers'[list] \in Helper /\ helpers'[list].page = r.offset \div Radix
        BY <2>1, <3>1, GatherIs
      <3>5. list \in DOMAIN helpers => helpers[list].page <= helpers'[list].page
        BY <2>1, <3>1, GatherIs
      <3>6. UNCHANGED <<body, reloc_size>>
        BY <2>1 DEF Gather
      <3>7. QED
        BY <3>2, <3>3, <3>4, <3>5, <3>6
    <2>4. Reached(list)'
      <3>1. relocs \in Seq(fixups.relocs \cup fixups.intersegs)
        BY DEF RecordsInv
      <3>2. QED
        BY <1>2, <2>2, <2>3, <3>1, FeedKeeps
    <2>5. \A l \in DOMAIN helpers' : helpers'[l] \in Helper /\ Reached(l)'
      BY <1>4, <2>3, <2>4 DEF RecordsInv
    <2>6. SizeInv'
      BY <2>3, <2>5, GatherSize
    <2>7. \A l \in DOMAIN helpers : helpers[l].page \in Nat
      BY DEF RecordsInv, Helper
    <2>8. QED
      BY <1>1, <1>2, <2>3, <2>5, <2>6, <2>7 DEF RecordsInv
  <1>7. QED
    BY <1>5, <1>6

LEMMA IntersegKeeps ==
  ASSUME RecordsInv, NEW r \in fixups.intersegs, NextInterseg(r)
  PROVE  RecordsInv' /\ \A l \in DOMAIN helpers \cap DOMAIN helpers' :
                          helpers'[l].page >= helpers[l].page
  <1>1. /\ Follows(r, intersegs) /\ intersegs' = Append(intersegs, r) /\ AddInterseg(r)
        /\ r.segment # segnum
        /\ UNCHANGED <<segnum, fixups, super, relocs>>
    BY DEF NextInterseg
  <1>2. /\ r.offset \in Nat /\ intersegs' \in Seq(fixups.intersegs)
        /\ Len(intersegs') = Len(intersegs) + 1
        /\ intersegs'[Len(intersegs) + 1] = r /\ Len(intersegs) \in Nat
        /\ \A i \in DOMAIN intersegs : i \in DOMAIN intersegs' /\ intersegs'[i] = intersegs[i]
        /\ Len(intersegs) + 1 \in DOMAIN intersegs'
    BY <1>1, FixupTypes DEF RecordsInv, Field
  <1>3. OwnLists' = OwnLists
    BY <1>1 DEF OwnLists
  <1>4. ASSUME NEW l \in DOMAIN helpers, l \in DOMAIN helpers', helpers'[l] = helpers[l]
        PROVE  Reached(l)'
    <2>1. PICK i \in DOMAIN Feeding(l) : helpers[l].page <= Feeding(l)[i].offset \div Radix
      BY DEF RecordsInv, Reached
    <2>2. i \in DOMAIN Feeding(l)' /\ Feeding(l)'[i] = Feeding(l)[i]
      BY <1>1, <1>2, <1>3 DEF Feeding
    <2>3. QED
      BY <1>4, <2>1, <2>2 DEF Reached
  <1>5. CASE IntersegLists(r) = {}
    <2>1. PICK record : \E bytes \in {8, 15} : bytes = Bytes(record) /\ Emit(record, bytes)
      <3> DEFINE record == [op |-> "INTERSEG", size |-> r.size, shift |-> r.shift,
                            offset |-> r.offset, value |-> r.value, segment |-> r.segment]
      <3>1. \/ Emit([record EXCEPT !.op = "cINTERSEG"], 8)
            \/ Emit(record, 15)
        BY <1>1, <1>5 DEF AddInterseg
      <3>2. Bytes([record EXCEPT !.op = "cINTERSEG"]) = 8 /\ Bytes(record) = 15
        BY DEF Bytes, FieldBytes
      <3>3. QED
        BY <3>1, <3>2
    <2>2. SizeInv'
      BY <2>1, EmitKeeps
    <2>3. helpers' = helpers
      BY <2>1 DEF Emit
    <2>4. \A l \in DOMAIN helpers : helpers[l] \in Helper /\ helpers[l].page \in Nat
      BY DEF RecordsInv, Helper
    <2>5. QED
      BY <1>1, <1>2, <1>4, <2>2, <2>3, <2>4 DEF RecordsInv
  <1>6. CASE IntersegLists(r) # {}
    <2>1. PICK list \in IntersegLists(r) : Gather(r, list)
      BY <1>1, <1>6 DEF AddInterseg
    <2>2. list \notin OwnLists /\ Feeding(list) = intersegs
          /\ Feeding(list)' = Append(intersegs, r)
      BY <1>1, <1>3, ListsApart DEF Feeding
    <2>3. /\ DOMAIN helpers' = DOMAIN helpers \cup {list}
          /\ \A l \in DOMAIN helpers : l # list => helpers'[l] = helpers[l]
          /\ helpers'[list] \in Helper /\ helpers'[list].page = r.offset \div Radix
          /\ list \in DOMAIN helpers => helpers[list].page <= helpers'[list].page
          /\ UNCHANGED <<body, reloc_size>>
      <3>1. Follows(r, Feeding(list)) /\ r.offset \in Nat
        BY <1>1, <1>2, <2>2
      <3>2. DOMAIN helpers' = DOMAIN helpers \cup {list}
        BY <2>1 DEF Gather
      <3>3. ASSUME NEW l \in DOMAIN helpers, l # list PROVE helpers'[l] = helpers[l]
        BY <2>1, <3>3 DEF Gather
      <3>4. helpers'[list] \in Helper /\ helpers'[list].page = r.offset \div Radix
        BY <2>1, <3>1, GatherIs
      <3>5. list \in DOMAIN helpers => helpers[list].page <= helpers'[list].page
        BY <2>1, <3>1, GatherIs
      <3>6. UNCHANGED <<body, reloc_size>>
        BY <2>1 DEF Gather
      <3>7. QED
        BY <3>2, <3>3, <3>4, <3>5, <3>6
    <2>4. Reached(list)'
      <3>1. intersegs \in Seq(fixups.relocs \cup fixups.intersegs)
        BY DEF RecordsInv
      <3>2. QED
        BY <1>2, <2>2, <2>3, <3>1, FeedKeeps
    <2>5. \A l \in DOMAIN helpers' : helpers'[l] \in Helper /\ Reached(l)'
      BY <1>4, <2>3, <2>4 DEF RecordsInv
    <2>6. SizeInv'
      BY <2>3, <2>5, GatherSize
    <2>7. \A l \in DOMAIN helpers : helpers[l].page \in Nat
      BY DEF RecordsInv, Helper
    <2>8. QED
      BY <1>1, <1>2, <2>3, <2>5, <2>6, <2>7 DEF RecordsInv
  <1>7. QED
    BY <1>5, <1>6

LEMMA FlushKeeps ==
  ASSUME RecordsInv, Flush
  PROVE  RecordsInv' /\ \A l \in DOMAIN helpers \cap DOMAIN helpers' : helpers'[l] = helpers[l]
  <1>1. PICK list \in DOMAIN helpers :
          /\ body' = Append(body, Super(list))
          /\ reloc_size' = reloc_size + Len(helpers[list].data) + 6
          /\ helpers' = [l \in DOMAIN helpers \ {list} |-> helpers[l]]
    BY DEF Flush
  <1>2. UNCHANGED <<segnum, fixups, relocs, intersegs>>
    BY DEF Flush
  <1>3. helpers[list].data \in Seq(Nat) /\ Len(helpers[list].data) \in Nat
    BY DEF RecordsInv, Helper
  <1>4. Bytes(Super(list)) = Len(helpers[list].data) + 6 /\ Bytes(Super(list)) \in Nat
    BY <1>3 DEF Bytes, Super
  <1>5. /\ body' = [i \in 1 .. Len(body') |-> body'[i]]
        /\ Len(body') \in Nat
        /\ \A i \in 1 .. Len(body') : Bytes(body'[i]) \in Nat
        /\ SizeIsWritten'
    <2>1. reloc_size' = reloc_size + Bytes(Super(list))
      <3>1. reloc_size \in Nat
        BY SizeType DEF RecordsInv
      <3>2. QED
        BY <1>1, <1>3, <1>4, <3>1
    <2>2. QED
      BY <1>1, <1>4, <2>1, PushedRecord DEF RecordsInv
  <1>6. ASSUME NEW l \in DOMAIN helpers'
        PROVE  l \in DOMAIN helpers /\ helpers'[l] = helpers[l]
    BY <1>1
  <1>7. \A l \in DOMAIN helpers' : helpers'[l] \in Helper /\ Reached(l)'
    BY <1>2, <1>6 DEF RecordsInv, Reached, Feeding, OwnLists
  <1>8. SizeInv'
    BY <1>5, <1>7 DEF SizeInv, Helper
  <1>9. QED
    BY <1>2, <1>6, <1>7, <1>8 DEF RecordsInv

LEMMA RecordsNext ==
  ASSUME RecordsInv, [Next]_vars
  PROVE  RecordsInv' /\ \A l \in DOMAIN helpers \cap DOMAIN helpers' :
                          helpers'[l].page >= helpers[l].page
  <1>1. CASE \E r \in fixups.relocs : NextReloc(r)
    BY <1>1, RelocKeeps
  <1>2. CASE \E r \in fixups.intersegs : NextInterseg(r)
    BY <1>2, IntersegKeeps
  <1>3. ASSUME NEW l \in DOMAIN helpers PROVE helpers[l].page \in Nat
    BY DEF RecordsInv, Helper
  <1>4. CASE Flush
    BY <1>3, <1>4, FlushKeeps
  <1>5. CASE Done \/ UNCHANGED vars
    <2>1. UNCHANGED <<segnum, fixups, relocs, intersegs, helpers, body, reloc_size>>
      BY <1>5 DEF Done, vars
    <2>2. SizeInv'
      BY <2>1 DEF RecordsInv, SizeInv, SizeIsWritten
    <2>3. \A l \in DOMAIN helpers' : Reached(l)'
      BY <2>1 DEF RecordsInv, Reached, Feeding, OwnLists
    <2>4. QED
      BY <1>3, <2>1, <2>2, <2>3 DEF RecordsInv
  <1>6. QED
    BY <1>1, <1>2, <1>4, <1>5 DEF Next

LEMMA RecordsHold == Spec => []RecordsInv
  BY InitRecords, RecordsNext, PTL DEF Spec

(* The size of the relocations is that of their records.                   *)
THEOREM SizeAdded == Spec => []SizeIsWritten
  <1>1. RecordsInv => SizeIsWritten
    BY DEF RecordsInv, SizeInv
  <1>2. QED
    BY <1>1, RecordsHold, PTL

(* The assertion of append() holds, whichever list it is for.              *)
THEOREM AscendingPages == Spec => PagesAscend
  <1>1. ASSUME RecordsInv, [Next]_vars
        PROVE  [\A l \in DOMAIN helpers \cap DOMAIN helpers' :
                  helpers'[l].page >= helpers[l].page]_vars
    BY <1>1, RecordsNext
  <1>2. QED
    BY <1>1, RecordsHold, PTL DEF Spec, PagesAscend
-----------------------------------------------------------------------------
(* Where a loader stands in a patch list.                                  *)
Standing == [left : Nat, page : Nat]

LEMMA ReadsType ==
  ASSUME NEW at \in Standing, NEW byte \in Nat
  PROVE  Reads(at, byte) \in Standing
  <1>1. at.left \in Nat /\ at.page \in Nat /\ SkipFlag \in Nat
    BY RadixIs DEF Standing
  <1>2. CASE at.left > 0
    <2>1. at.left - 1 \in Nat /\ (IF at.left = 1 THEN at.page + 1 ELSE at.page) \in Nat
      BY <1>1, <1>2
    <2>2. QED
      BY <1>2, <2>1 DEF Reads, Standing
  <1>3. CASE ~(at.left > 0) /\ byte >= SkipFlag
    <2>1. at.page + byte - SkipFlag \in Nat
      BY <1>1, <1>3
    <2>2. QED
      BY <1>3, <2>1 DEF Reads, Standing
  <1>4. CASE ~(at.left > 0) /\ ~(byte >= SkipFlag)
    BY <1>1, <1>4 DEF Reads, Standing
  <1>5. QED
    BY <1>2, <1>3, <1>4

(* The reader, without the recursion.                                      *)
LEMMA ReaderIs ==
  ASSUME NEW data \in Seq(Nat)
  PROVE  /\ Reader(data)[0] = [left |-> 0, page |-> 0]
         /\ \A k \in 0 .. Len(data) : Reader(data)[k] \in Standing
         /\ \A k \in 1 .. Len(data) : Reader(data)[k] = Reads(Reader(data)[k - 1], data[k])
  <1> DEFINE first == [left |-> 0, page |-> 0]
             Follow(g, n) == g = [k \in 0 .. n |-> IF k = 0 THEN first
                                                    ELSE Reads(g[k - 1], data[k])]
             Read(n) == n <= Len(data) => \E g : Follow(g, n)
             S == {n \in Nat : Read(n)}
  <1>0. Len(data) \in Nat /\ \A k \in 1 .. Len(data) : data[k] \in Nat
    OBVIOUS
  <1> HIDE DEF first
  <1>1. Read(0)
    <2>1. Follow([k \in 0 .. 0 |-> first], 0)
      OBVIOUS
    <2>2. QED
      BY <2>1
  <1>2. ASSUME NEW n \in Nat, Read(n) PROVE Read(n + 1)
    <2> SUFFICES ASSUME n + 1 <= Len(data) PROVE \E h : Follow(h, n + 1)
      OBVIOUS
    <2>1. n <= Len(data)
      BY <1>0
    <2>2. PICK g : Follow(g, n)
      BY <1>2, <2>1
    <2> DEFINE h == [k \in 0 .. n + 1 |-> IF k <= n THEN g[k] ELSE Reads(g[n], data[n + 1])]
    <2>3. ASSUME NEW k \in 0 .. n + 1
          PROVE  h[k] = IF k = 0 THEN first ELSE Reads(h[k - 1], data[k])
      <3>1. CASE k = 0
        BY <2>2, <3>1
      <3>2. CASE k \in 1 .. n
        <4>1. g[k] = Reads(g[k - 1], data[k])
          BY <2>2, <3>2
        <4>2. h[k] = g[k] /\ h[k - 1] = g[k - 1]
          BY <3>2
        <4>3. QED
          BY <3>2, <4>1, <4>2
      <3>3. CASE k = n + 1
        <4>1. h[k] = Reads(g[n], data[n + 1]) /\ h[k - 1] = g[n]
          BY <3>3
        <4>2. QED
          BY <3>3, <4>1
      <3>4. QED
        BY <3>1, <3>2, <3>3
    <2>4. Follow(h, n + 1)
      <3>1. h = [k \in 0 .. n + 1 |-> h[k]]
        OBVIOUS
      <3> HIDE DEF h
      <3>2. QED
        BY <2>3, <3>1
    <2>5. QED
      BY <2>4
  <1>3. \E g : Follow(g, Len(data))
    <2>1. Nat \subseteq S
      <3>1. 0 \in S
        BY <1>1
      <3>2. ASSUME NEW n \in Nat, n \in S PROVE n + 1 \in S
        <4>1. Read(n)
          BY <3>2
        <4>2. Read(n + 1)
          BY <1>2, <4>1
        <4>3. QED
          BY <4>2
      <3> HIDE DEF S
      <3>3. QED
        BY <3>1, <3>2, Inductive
    <2>2. Read(Len(data))
      BY <1>0, <2>1
    <2>3. QED
      BY <1>0, <2>2
  <1>4. Follow(Reader(data), Len(data))
    BY <1>3 DEF Reader, first
  <1> DEFINE at == Reader(data)
             T == {n \in Nat : n <= Len(data) => at[n] \in Standing}
  <1> HIDE DEF at
  <1>5. at[0] = first
    BY <1>0, <1>4 DEF at
  <1>6. ASSUME NEW k \in 1 .. Len(data) PROVE at[k] = Reads(at[k - 1], data[k])
    BY <1>0, <1>4 DEF at
  <1>7. 0 \in T
    BY <1>5 DEF first, Standing
  <1>8. ASSUME NEW n \in Nat, n \in T PROVE n + 1 \in T
    <2> SUFFICES ASSUME n + 1 <= Len(data) PROVE at[n + 1] \in Standing
      OBVIOUS
    <2>1. n + 1 \in 1 .. Len(data) /\ (n + 1) - 1 = n /\ data[n + 1] \in Nat
      BY <1>0
    <2>2. at[n + 1] = Reads(at[(n + 1) - 1], data[n + 1])
      BY <1>6, <2>1
    <2>3. at[n] \in Standing
      BY <1>0, <1>8
    <2>4. QED
      BY <2>1, <2>2, <2>3, ReadsType
  <1>9. \A k \in 0 .. Len(data) : at[k] \in Standing
    <2>1. Nat \subseteq T
      <3> HIDE DEF T
      <3>1. QED
        BY <1>7, <1>8, Inductive
    <2>2. QED
      BY <1>0, <2>1
  <1>10. QED
    BY <1>5, <1>6, <1>9 DEF at, first

(* What is behind does not change what was read.                           *)
LEMMA ReaderAlike ==
  ASSUME NEW a \in Seq(Nat), NEW b \in Seq(Nat), NEW n \in Nat, n <= Len(a), n <= Len(b),
         \A i \in 1 .. n : a[i] = b[i]
  PROVE  \A k \in 0 .. n : Reader(a)[k] = Reader(b)[k]
  <1> DEFINE Alike(k) == k <= n => Reader(a)[k] = Reader(b)[k]
             S == {k \in Nat : Alike(k)}
  <1>1. Alike(0)
    BY ReaderIs
  <1>2. ASSUME NEW k \in Nat, Alike(k) PROVE Alike(k + 1)
    <2> SUFFICES ASSUME k + 1 <= n PROVE Reader(a)[k + 1] = Reader(b)[k + 1]
      OBVIOUS
    <2>1. k + 1 \in 1 .. Len(a) /\ k + 1 \in 1 .. Len(b) /\ (k + 1) - 1 = k /\ k <= n
          /\ k + 1 \in 1 .. n
      OBVIOUS
    <2>2. Reader(a)[k + 1] = Reads(Reader(a)[(k + 1) - 1], a[k + 1])
      BY <2>1, ReaderIs
    <2>3. Reader(b)[k + 1] = Reads(Reader(b)[(k + 1) - 1], b[k + 1])
      BY <2>1, ReaderIs
    <2>4. QED
      BY <1>2, <2>1, <2>2, <2>3
  <1>3. Nat \subseteq S
    <2>1. 0 \in S
      BY <1>1
    <2>2. ASSUME NEW k \in Nat, k \in S PROVE k + 1 \in S
      <3>1. Alike(k)
        BY <2>2
      <3>2. Alike(k + 1)
        BY <1>2, <3>1
      <3>3. QED
        BY <3>2
    <2> HIDE DEF S
    <2>3. QED
      BY <2>1, <2>2, Inductive
  <1>4. QED
    BY <1>3

(* Behind the count c of a page, the reader takes as many offsets as it    *)
(* says and one, and is at the next page.                                  *)
LEMMA ReaderPage ==
  ASSUME NEW data \in Seq(Nat), NEW c \in 1 .. Len(data), NEW page \in Nat,
         Reader(data)[c - 1] = [left |-> 0, page |-> page],
         data[c] < SkipFlag, c + data[c] + 1 <= Len(data)
  PROVE  /\ \A j \in 0 .. data[c] :
              Reader(data)[c + j] = [left |-> data[c] + 1 - j, page |-> page]
         /\ Reader(data)[c + data[c] + 1] = [left |-> 0, page |-> page + 1]
  <1> DEFINE m == data[c]
             at == Reader(data)
             Taken(j) == j <= m => at[c + j] = [left |-> m + 1 - j, page |-> page]
             S == {j \in Nat : Taken(j)}
  <1>1. m \in Nat /\ c \in Nat /\ Len(data) \in Nat /\ SkipFlag \in Nat
    BY RadixIs
  <1>2. \A k \in 1 .. Len(data) : at[k] = Reads(at[k - 1], data[k])
    BY ReaderIs
  <1>3. c + m + 1 <= Len(data) /\ m < SkipFlag /\ at[c - 1] = [left |-> 0, page |-> page]
        /\ data[c] = m
    OBVIOUS
  <1> HIDE DEF m, at
  <1>4. Taken(0)
    <2>1. at[c] = Reads([left |-> 0, page |-> page], m)
      BY <1>2, <1>3
    <2>2. Reads([left |-> 0, page |-> page], m) = [left |-> m + 1, page |-> page]
      BY <1>1, <1>3 DEF Reads
    <2>3. c + 0 = c /\ m + 1 - 0 = m + 1
      BY <1>1
    <2>4. QED
      BY <2>1, <2>2, <2>3
  <1>5. ASSUME NEW j \in Nat, j <= m, at[c + j] = [left |-> m + 1 - j, page |-> page]
        PROVE  at[c + j + 1] = [left |-> m - j,
                                page |-> IF m = j THEN page + 1 ELSE page]
    <2>0. c \in Nat /\ j \in Nat /\ m \in Nat /\ j <= m /\ c + m + 1 <= Len(data)
      BY <1>1, <1>3, <1>5
    <2>1. c + j + 1 \in 1 .. Len(data) /\ (c + j + 1) - 1 = c + j
      BY <1>1, <2>0
    <2>2. at[c + j + 1] = Reads(at[(c + j + 1) - 1], data[c + j + 1])
      BY <1>2, <2>1
    <2>3. m + 1 - j > 0 /\ (m + 1 - j = 1 <=> m = j) /\ (m + 1 - j) - 1 = m - j
      BY <1>1, <1>5
    <2>4. QED
      BY <1>5, <2>1, <2>2, <2>3 DEF Reads
  <1>6. ASSUME NEW j \in Nat, Taken(j) PROVE Taken(j + 1)
    <2> SUFFICES ASSUME j + 1 <= m PROVE at[c + (j + 1)] = [left |-> m + 1 - (j + 1), page |-> page]
      OBVIOUS
    <2>1. j <= m /\ m # j /\ c + (j + 1) = c + j + 1 /\ m + 1 - (j + 1) = m - j
      BY <1>1
    <2>2. at[c + j] = [left |-> m + 1 - j, page |-> page]
      BY <1>6, <2>1
    <2>3. QED
      BY <1>5, <2>1, <2>2
  <1>7. Nat \subseteq S
    <2>1. 0 \in S
      BY <1>4
    <2>2. ASSUME NEW j \in Nat, j \in S PROVE j + 1 \in S
      <3>1. Taken(j)
        BY <2>2
      <3>2. Taken(j + 1)
        BY <1>6, <3>1
      <3>3. QED
        BY <3>2
    <2> HIDE DEF S
    <2>3. QED
      BY <2>1, <2>2, Inductive
  <1>8. \A j \in 0 .. m : at[c + j] = [left |-> m + 1 - j, page |-> page]
    BY <1>1, <1>7
  <1>9. at[c + m + 1] = [left |-> 0, page |-> page + 1]
    <2>0. m \in 0 .. m /\ m <= m
      BY <1>1
    <2>1. at[c + m] = [left |-> m + 1 - m, page |-> page]
      BY <1>8, <2>0
    <2>2. at[c + m + 1] = [left |-> m - m, page |-> page + 1]
      BY <1>1, <1>5, <2>0, <2>1
    <2>3. QED
      BY <1>1, <2>2
  <1>10. QED
    BY <1>8, <1>9 DEF at, m

(* Bytes that skip pages lead the reader to the page that they stand for.  *)
LEMMA ReaderSkips ==
  ASSUME NEW data \in Seq(Nat), NEW n \in Nat, NEW page \in Nat, NEW skip \in Nat,
         n + Len(Skips(skip)) <= Len(data),
         Reader(data)[n] = [left |-> 0, page |-> page],
         \A i \in 1 .. Len(Skips(skip)) : data[n + i] = Skips(skip)[i]
  PROVE  /\ \A i \in 0 .. Len(Skips(skip)) : Reader(data)[n + i].left = 0
         /\ Reader(data)[n + Len(Skips(skip))] = [left |-> 0, page |-> page + skip]
  <1> DEFINE at == Reader(data)
             bytes == Skips(skip)
  <1>1. CASE skip = 0
    <2>1. bytes = <<>> /\ Len(bytes) = 0
      BY <1>1 DEF Skips
    <2>2. n + Len(bytes) = n /\ page + skip = page /\ \A i \in 0 .. Len(bytes) : n + i = n
      BY <1>1, <2>1
    <2>3. QED
      BY <2>2
  <1>2. CASE skip # 0
    <2>1. PICK full \in Nat, last \in 1 .. MaxSkip :
             /\ skip = full * MaxSkip + last
             /\ bytes = [i \in 1 .. full + 1 |->
                           IF i <= full THEN SkipFlag + MaxSkip ELSE SkipFlag + last]
             /\ bytes \in Seq(Nat)
      BY <1>2, SkipsAre
    <2>2. Len(bytes) = full + 1
      BY <2>1
    <2>3. /\ n + full + 1 <= Len(data) /\ Len(data) \in Nat
          /\ \A i \in 1 .. full : data[n + i] = SkipFlag + MaxSkip
          /\ data[n + full + 1] = SkipFlag + last
      <3>1. n + full + 1 <= Len(data) /\ Len(data) \in Nat
        BY <2>2
      <3>2. \A i \in 1 .. full + 1 : data[n + i] = bytes[i]
        BY <2>2
      <3>3. ASSUME NEW i \in 1 .. full PROVE data[n + i] = SkipFlag + MaxSkip
        <4>1. i \in 1 .. full + 1 /\ i <= full
          BY <2>1
        <4>2. bytes[i] = SkipFlag + MaxSkip
          BY <2>1, <4>1
        <4>3. QED
          BY <3>2, <4>1, <4>2
      <3>4. full + 1 \in 1 .. full + 1 /\ n + (full + 1) = n + full + 1 /\ ~(full + 1 <= full)
        BY <2>1
      <3>5. data[n + full + 1] = SkipFlag + last
        BY <2>1, <3>2, <3>4
      <3>6. QED
        BY <3>1, <3>3, <3>5
    <2>4. SkipFlag \in Nat /\ MaxSkip \in Nat /\ last \in Nat
      BY <2>1, RadixIs
    <2>5. \A k \in 1 .. Len(data) : at[k] = Reads(at[k - 1], data[k])
      BY ReaderIs
    <2>6. at[n] = [left |-> 0, page |-> page]
      OBVIOUS
    <2> HIDE DEF at, bytes
    <2>7. ASSUME NEW k \in 1 .. Len(data), NEW p \in Nat, NEW s \in Nat,
                 at[k - 1] = [left |-> 0, page |-> p], data[k] = SkipFlag + s
          PROVE  at[k] = [left |-> 0, page |-> p + s]
      <3>1. at[k] = Reads([left |-> 0, page |-> p], SkipFlag + s)
        BY <2>5, <2>7
      <3>2. p + (SkipFlag + s) - SkipFlag = p + s /\ SkipFlag + s >= SkipFlag
        BY <2>4
      <3>3. QED
        BY <3>1, <3>2 DEF Reads
    <2> DEFINE Skipped(i) == i <= full => at[n + i] = [left |-> 0, page |-> page + i * MaxSkip]
               S == {i \in Nat : Skipped(i)}
    <2>8. Skipped(0)
      <3>1. n + 0 = n /\ page + 0 * MaxSkip = page
        BY <2>4
      <3>2. QED
        BY <2>6, <3>1
    <2>9. ASSUME NEW i \in Nat, Skipped(i) PROVE Skipped(i + 1)
      <3> SUFFICES ASSUME i + 1 <= full
                   PROVE  at[n + (i + 1)] = [left |-> 0, page |-> page + (i + 1) * MaxSkip]
        OBVIOUS
      <3>1. /\ n + (i + 1) \in 1 .. Len(data) /\ (n + (i + 1)) - 1 = n + i
            /\ i <= full /\ i + 1 \in 1 .. full
        BY <2>1, <2>3
      <3> DEFINE p == page + i * MaxSkip
      <3>2. p \in Nat /\ p + MaxSkip = page + (i + 1) * MaxSkip
        <4>1. \A x \in Nat : i * x \in Nat /\ (i + 1) * x = i * x + x
          OBVIOUS
        <4>2. i * MaxSkip \in Nat /\ (i + 1) * MaxSkip = i * MaxSkip + MaxSkip
          BY <2>4, <4>1
        <4> DEFINE most == i * MaxSkip
                   more == (i + 1) * MaxSkip
        <4>3. most \in Nat /\ more = most + MaxSkip /\ p = page + most
          BY <4>2
        <4> HIDE DEF most, more, p
        <4>4. p \in Nat /\ p + MaxSkip = page + more
          BY <2>4, <4>3
        <4>5. QED
          BY <4>4 DEF more
      <3>3. at[(n + (i + 1)) - 1] = [left |-> 0, page |-> p]
        BY <2>9, <3>1
      <3>4. data[n + (i + 1)] = SkipFlag + MaxSkip
        BY <2>3, <3>1
      <3> HIDE DEF p
      <3>5. at[n + (i + 1)] = [left |-> 0, page |-> p + MaxSkip]
        BY <2>4, <2>7, <3>1, <3>2, <3>3, <3>4
      <3>6. QED
        BY <3>2, <3>5
    <2>10. Nat \subseteq S
      <3>1. 0 \in S
        BY <2>8
      <3>2. ASSUME NEW i \in Nat, i \in S PROVE i + 1 \in S
        <4>1. Skipped(i)
          BY <3>2
        <4>2. Skipped(i + 1)
          BY <2>9, <4>1
        <4>3. QED
          BY <4>2
      <3> HIDE DEF S
      <3>3. QED
        BY <3>1, <3>2, Inductive
    <2>11. \A i \in 0 .. full : at[n + i] = [left |-> 0, page |-> page + i * MaxSkip]
      BY <2>1, <2>10
    <2>12. at[n + (full + 1)] = [left |-> 0, page |-> page + skip]
      <3> DEFINE most == full * MaxSkip
      <3>1. most \in Nat /\ skip = most + last
        BY <2>1, <2>4
      <3>2. at[n + full] = [left |-> 0, page |-> page + most]
        BY <2>1, <2>11
      <3> HIDE DEF most
      <3>3. n + full + 1 \in 1 .. Len(data) /\ (n + full + 1) - 1 = n + full
            /\ n + (full + 1) = n + full + 1
        BY <2>1, <2>3
      <3>4. page + most \in Nat /\ (page + most) + last = page + skip
        BY <2>4, <3>1
      <3> DEFINE p == page + most
      <3>5. at[(n + full + 1) - 1] = [left |-> 0, page |-> p] /\ p \in Nat
        BY <3>2, <3>3, <3>4
      <3> HIDE DEF p
      <3>6. at[n + full + 1] = [left |-> 0, page |-> p + last]
        BY <2>3, <2>4, <2>7, <3>3, <3>5
      <3>7. QED
        BY <3>3, <3>4, <3>6 DEF p
    <2>13. \A i \in 0 .. full + 1 : i \in 0 .. full \/ i = full + 1
      BY <2>1
    <2>14. ASSUME NEW i \in 0 .. full + 1 PROVE at[n + i].left = 0
      <3>1. CASE i \in 0 .. full
        <4>1. PICK p : at[n + i] = [left |-> 0, page |-> p]
          BY <2>11, <3>1
        <4>2. QED
          BY <4>1
      <3>2. CASE i = full + 1
        BY <2>12, <3>2
      <3>3. QED
        BY <2>13, <3>1, <3>2
    <2>15. QED
      BY <2>2, <2>12, <2>14 DEF at, bytes
  <1>3. QED
    BY <1>1, <1>2

(* The offsets among the first n bytes.                                    *)
Before(data, n) ==
  {Reader(data)[k - 1].page * Radix + data[k] :
     k \in {i \in 1 .. n : Reader(data)[i - 1].left > 0}}

LEMMA BeforeAll ==
  ASSUME NEW data \in Seq(Nat)
  PROVE  Offsets(data) = Before(data, Len(data))
  <1>1. DOMAIN data = 1 .. Len(data)
    OBVIOUS
  <1>2. QED
    BY <1>1 DEF Offsets, Before

LEMMA BeforeAlike ==
  ASSUME NEW a \in Seq(Nat), NEW b \in Seq(Nat), NEW n \in Nat, n <= Len(a), n <= Len(b),
         \A i \in 1 .. n : a[i] = b[i]
  PROVE  Before(a, n) = Before(b, n)
  <1>1. \A k \in 0 .. n : Reader(a)[k] = Reader(b)[k]
    BY ReaderAlike
  <1>2. ASSUME NEW i \in 1 .. n PROVE Reader(a)[i - 1] = Reader(b)[i - 1] /\ a[i] = b[i]
    <2>1. i - 1 \in 0 .. n
      OBVIOUS
    <2>2. QED
      BY <1>1, <2>1
  <1>3. QED
    BY <1>2 DEF Before

(* Bytes at which the reader expects no offset add none.                   *)
LEMMA BeforeIdle ==
  ASSUME NEW data \in Seq(Nat), NEW n \in Nat, NEW m \in Nat,
         \A i \in 0 .. m : Reader(data)[n + i].left = 0
  PROVE  Before(data, n + m) = Before(data, n)
  <1>1. ASSUME NEW k \in 1 .. n + m, Reader(data)[k - 1].left > 0 PROVE k \in 1 .. n
    <2> SUFFICES ASSUME k > n PROVE FALSE
      OBVIOUS
    <2>1. (k - 1) - n \in 0 .. m /\ n + ((k - 1) - n) = k - 1
      OBVIOUS
    <2>2. Reader(data)[k - 1].left = 0
      BY <2>1
    <2>3. QED
      BY <1>1, <2>2
  <1>2. ASSUME NEW k \in 1 .. n PROVE k \in 1 .. n + m
    OBVIOUS
  <1>3. {i \in 1 .. n + m : Reader(data)[i - 1].left > 0}
           = {i \in 1 .. n : Reader(data)[i - 1].left > 0}
    BY <1>1, <1>2
  <1>4. QED
    BY <1>3 DEF Before

LEMMA ElementNat ==
  ASSUME NEW data \in Seq(Nat), NEW c \in 1 .. Len(data)
  PROVE  data[c] \in Nat /\ c \in Nat /\ Len(data) \in Nat
  OBVIOUS

(* A list that ends with a page.                                           *)
OfPage(data, c, page) == {page * Radix + data[c + j] : j \in 1 .. data[c] + 1}

LEMMA PageOffsets ==
  ASSUME NEW data \in Seq(Nat), NEW c \in 1 .. Len(data), NEW page \in Nat,
         Reader(data)[c - 1] = [left |-> 0, page |-> page],
         data[c] < SkipFlag, c + data[c] + 1 = Len(data)
  PROVE  /\ Offsets(data) = Before(data, c - 1) \cup OfPage(data, c, page)
         /\ Reader(data)[Len(data)] = [left |-> 0, page |-> page + 1]
  <1> DEFINE m == data[c]
             at == Reader(data)
             later == {page * Radix + data[c + j] : j \in 1 .. m + 1}
  <1>1. m \in Nat /\ c \in Nat /\ Len(data) \in Nat /\ c + m + 1 <= Len(data)
    <2>1. m \in Nat /\ c \in Nat /\ Len(data) \in Nat
      BY ElementNat
    <2>2. c + m + 1 = Len(data)
      OBVIOUS
    <2> HIDE DEF m
    <2>3. QED
      BY <2>1, <2>2
  <1>2. /\ \A j \in 0 .. m : at[c + j] = [left |-> m + 1 - j, page |-> page]
        /\ at[c + m + 1] = [left |-> 0, page |-> page + 1]
    BY <1>1, ReaderPage
  <1>3. Offsets(data) = Before(data, Len(data))
    BY BeforeAll
  <1>4. Len(data) = c + m + 1 /\ at[c - 1].left = 0
    OBVIOUS
  <1> HIDE DEF at, m
  <1>5. ASSUME NEW j \in 1 .. m + 1
        PROVE  /\ c + j \in 1 .. Len(data)
               /\ at[(c + j) - 1].left > 0 /\ at[(c + j) - 1].page = page
    <2>1. c + j \in 1 .. Len(data) /\ j - 1 \in 0 .. m /\ (c + j) - 1 = c + (j - 1)
          /\ m + 1 - (j - 1) > 0
      <3>1. j \in Nat /\ 1 <= j /\ j <= m + 1
        BY <1>1
      <3>2. c + j \in 1 .. Len(data)
        BY <1>1, <1>4, <3>1
      <3>3. j - 1 \in 0 .. m /\ m + 1 - (j - 1) > 0
        BY <1>1, <3>1
      <3>4. (c + j) - 1 = c + (j - 1)
        BY <1>1, <3>1
      <3>5. QED
        BY <3>2, <3>3, <3>4
    <2>2. at[c + (j - 1)] = [left |-> m + 1 - (j - 1), page |-> page]
      BY <1>2, <2>1
    <2>3. at[c + (j - 1)].left > 0 /\ at[c + (j - 1)].page = page
      BY <2>1, <2>2
    <2>4. QED
      BY <2>1, <2>3
  <1>6. later \subseteq Before(data, Len(data))
    <2>1. ASSUME NEW j \in 1 .. m + 1
          PROVE  page * Radix + data[c + j] \in Before(data, Len(data))
      <3> DEFINE k == c + j
      <3>1. k \in 1 .. Len(data) /\ at[k - 1].left > 0 /\ at[k - 1].page = page
        BY <1>5
      <3> HIDE DEF k
      <3>2. at[k - 1].page * Radix + data[k] \in Before(data, Len(data))
        BY <3>1 DEF Before, at
      <3>3. QED
        BY <3>1, <3>2 DEF k
    <2>2. QED
      BY <2>1
  <1>7. Before(data, c - 1) \subseteq Before(data, Len(data))
    <2>1. \A k \in 1 .. c - 1 : k \in 1 .. Len(data)
      BY <1>1
    <2>2. QED
      BY <2>1 DEF Before
  <1>8. ASSUME NEW k \in 1 .. Len(data), at[k - 1].left > 0
        PROVE  at[k - 1].page * Radix + data[k] \in Before(data, c - 1) \cup later
    <2>1. CASE k \in 1 .. c - 1
      BY <1>8, <2>1 DEF Before, at
    <2>2. CASE k = c
      BY <1>4, <1>8, <2>2
    <2>3. CASE k > c
      <3>1. k - c \in 1 .. m + 1 /\ c + (k - c) = k
        BY <1>1, <1>4, <2>3
      <3>2. at[k - 1].page = page
        BY <1>5, <3>1
      <3>3. page * Radix + data[c + (k - c)] \in later
        BY <3>1
      <3>4. QED
        BY <3>1, <3>2, <3>3
    <2>4. QED
      BY <1>1, <2>1, <2>2, <2>3
  <1>9. Before(data, Len(data)) \subseteq Before(data, c - 1) \cup later
    BY <1>8 DEF Before, at
  <1>10. QED
    BY <1>2, <1>3, <1>4, <1>6, <1>7, <1>9 DEF at, m, OfPage

(* The last offset of a list.                                              *)
LastOf(h) == h.page * Radix + h.data[Len(h.data)]

(* A list ends with its page, whose count byte says how many offsets it    *)
(* has; as fields are apart, they are too few for it to look like a skip.  *)
Reading(h) ==
  /\ h \in Helper
  /\ h.count = 0 => h.data = <<>> /\ h.page = 0
  /\ h.count > 0 =>
       /\ Len(h.data) - h.count > 0
       /\ Reader(h.data)[Len(h.data) - h.count - 1] = [left |-> 0, page |-> h.page]
       /\ h.data[Len(h.data) - h.count] = h.count - 1
       /\ h.count <= SkipFlag
       /\ 2 * (h.count - 1) <= h.data[Len(h.data)]
       /\ h.data[Len(h.data)] < Radix

EndsWithPage(h, c) ==
  /\ c = Len(h.data) - h.count /\ h.data[c] = h.count - 1
  /\ Reader(h.data)[c - 1] = [left |-> 0, page |-> h.page]
  /\ Offsets(h.data) = Before(h.data, c - 1)
                         \cup {h.page * Radix + h.data[c + j] : j \in 1 .. h.count}
  /\ Reader(h.data)[Len(h.data)] = [left |-> 0, page |-> h.page + 1]

LEMMA ReadingPage ==
  ASSUME NEW h, Reading(h), h.count > 0
  PROVE  \E c \in 1 .. Len(h.data) : EndsWithPage(h, c)
  <1> DEFINE data == h.data
             c == Len(data) - h.count
  <1>1. data \in Seq(Nat) /\ h.page \in Nat /\ h.count \in Nat /\ Len(data) \in Nat
        /\ SkipFlag \in Nat
    BY RadixIs DEF Reading, Helper
  <1>2. c > 0 /\ h.count <= SkipFlag
    BY DEF Reading
  <1>3. Reader(data)[c - 1] = [left |-> 0, page |-> h.page]
    BY DEF Reading
  <1>4. data[c] = h.count - 1
    BY DEF Reading
  <1>5. c \in 1 .. Len(data) /\ c + (h.count - 1) + 1 = Len(data) /\ (h.count - 1) + 1 = h.count
        /\ h.count - 1 < SkipFlag
    BY <1>1, <1>2
  <1> HIDE DEF data, c
  <1>6. /\ Offsets(data) = Before(data, c - 1) \cup OfPage(data, c, h.page)
        /\ Reader(data)[Len(data)] = [left |-> 0, page |-> h.page + 1]
    <2>1. data[c] < SkipFlag /\ c + data[c] + 1 = Len(data)
      BY <1>4, <1>5
    <2>2. QED
      BY <1>1, <1>3, <1>5, <2>1, PageOffsets
  <1>7. QED
    BY <1>3, <1>4, <1>5, <1>6 DEF data, c, EndsWithPage, OfPage

(* One more offset on the page.                                            *)
LEMMA SamePage ==
  ASSUME NEW h, Reading(h), NEW at \in Nat, h.count > 0, LastOf(h) + 2 <= at,
         h.page = at \div Radix
  PROVE  /\ Reading(Added(h, at)) /\ LastOf(Added(h, at)) = at /\ Added(h, at).count > 0
         /\ Offsets(Added(h, at).data) = Offsets(h.data) \cup {at}
  <1> DEFINE n == Len(h.data)
             data == h.data
             count == h.count
             byte == at % Radix
             page == h.page
             fixed == [data EXCEPT ![n - count] = count]
             new == Append(fixed, byte)
  <1>1. /\ data \in Seq(Nat) /\ page \in Nat /\ count \in Nat /\ n \in Nat /\ byte \in Nat
        /\ count > 0 /\ n = Len(data)
    <2>1. data \in Seq(Nat) /\ page \in Nat /\ count \in Nat
      BY DEF Reading, Helper
    <2>2. byte \in Nat
      BY RadixIs, Division
    <2> HIDE DEF byte
    <2>3. n \in Nat
      BY <2>1
    <2>4. QED
      BY <2>1, <2>2, <2>3
  <1>2. PICK c \in 1 .. n :
          /\ c = n - count /\ data[c] = count - 1
          /\ Reader(data)[c - 1] = [left |-> 0, page |-> page]
          /\ Offsets(data) = Before(data, c - 1)
                               \cup {page * Radix + data[c + j] : j \in 1 .. count}
    <2>1. PICK c \in 1 .. Len(h.data) : EndsWithPage(h, c)
      BY ReadingPage
    <2>2. QED
      BY <2>1 DEF EndsWithPage
  <1>3. byte < Radix /\ SkipFlag \in Nat /\ Radix = 2 * SkipFlag /\ at = page * Radix + byte
    <2>1. Radix \in Nat /\ Radix > 0 /\ SkipFlag \in Nat /\ Radix = 2 * SkipFlag
      BY RadixIs
    <2>2. byte < Radix /\ at = Radix * page + byte
      BY <2>1, Division
    <2> HIDE DEF byte
    <2>3. Radix * page = page * Radix
      BY <1>1, <2>1
    <2>4. QED
      BY <2>1, <2>2, <2>3
  <1>4. 2 * (count - 1) <= data[n] /\ data[n] < Radix /\ page * Radix + data[n] + 2 <= at
    BY DEF Reading, LastOf
  <1>5. Added(h, at) = [h EXCEPT !.data = new, !.count = count + 1]
    BY DEF Added
  <1>6. Added(h, at) = [data |-> new, page |-> page, count |-> count + 1]
    BY <1>5 DEF Reading, Helper
  <1> HIDE DEF data, count, page, n, byte
  <1>7. /\ new \in Seq(Nat) /\ Len(new) = n + 1 /\ new[n + 1] = byte
        /\ new[c] = count
        /\ \A i \in 1 .. n : i # c => new[i] = data[i]
    <2>1. data \in [1 .. n -> Nat]
      BY <1>1
    <2>2. fixed \in [1 .. n -> Nat] /\ fixed[c] = count
          /\ \A i \in 1 .. n : i # c => fixed[i] = data[i]
      BY <1>1, <1>2, <2>1
    <2> HIDE DEF fixed
    <2>3. fixed \in Seq(Nat) /\ Len(fixed) = n
      BY <1>1, <2>2
    <2>4. new \in Seq(Nat) /\ Len(new) = Len(fixed) + 1 /\ new[Len(fixed) + 1] = byte
          /\ \A i \in 1 .. Len(fixed) : new[i] = fixed[i]
      BY <1>1, <2>3
    <2> HIDE DEF new
    <2>5. QED
      BY <1>2, <2>2, <2>3, <2>4
  <1>8. byte >= 2 * count /\ count < SkipFlag
    <2> DEFINE base == page * Radix
               low == data[n]
    <2>0. Radix \in Nat
      BY RadixIs
    <2>1. base \in Nat /\ at = base + byte
      BY <1>1, <1>3, <2>0
    <2>2. n \in 1 .. n /\ low \in Nat
      <3>1. n \in 1 .. n
        BY <1>1, <1>2
      <3>2. QED
        BY <1>1, <3>1
    <2>3. base + low + 2 <= at /\ 2 * (count - 1) <= low
      BY <1>4
    <2> HIDE DEF base, low
    <2>4. low + 2 <= byte
      BY <1>1, <2>1, <2>2, <2>3
    <2>5. byte >= 2 * count
      BY <1>1, <2>2, <2>3, <2>4
    <2>6. QED
      BY <1>1, <1>3, <2>5
  <1> HIDE DEF new
  <1>9. c \in Nat /\ c - 1 \in Nat /\ c + count = n /\ c - 1 <= n
    BY <1>1, <1>2
  <1>10. \A i \in 1 .. c - 1 : data[i] = new[i]
    BY <1>1, <1>7, <1>9
  <1>11. Before(new, c - 1) = Before(data, c - 1) /\ Reader(new)[c - 1] = Reader(data)[c - 1]
    <2>1. c - 1 <= Len(data) /\ c - 1 <= Len(new)
      BY <1>1, <1>7, <1>9
    <2>2. Before(data, c - 1) = Before(new, c - 1)
      BY <1>1, <1>7, <1>9, <1>10, <2>1, BeforeAlike
    <2>3. \A k \in 0 .. c - 1 : Reader(data)[k] = Reader(new)[k]
      BY <1>1, <1>7, <1>9, <1>10, <2>1, ReaderAlike
    <2>4. c - 1 \in 0 .. c - 1
      BY <1>9
    <2>5. QED
      BY <2>2, <2>3, <2>4
  <1>12. Offsets(new) = Before(new, c - 1)
                          \cup {page * Radix + new[c + j] : j \in 1 .. count + 1}
    <2>1. new[c] < SkipFlag /\ c + new[c] + 1 = Len(new) /\ c \in 1 .. Len(new)
          /\ new[c] + 1 = count + 1
      <3>1. c + count + 1 = n + 1 /\ c \in 1 .. n + 1
        BY <1>1, <1>9
      <3>2. QED
        BY <1>7, <1>8, <3>1
    <2>2. Reader(new)[c - 1] = [left |-> 0, page |-> page]
      BY <1>2, <1>11
    <2>3. Offsets(new) = Before(new, c - 1) \cup OfPage(new, c, page)
      BY <1>1, <1>7, <2>1, <2>2, PageOffsets
    <2>4. QED
      BY <2>1, <2>3 DEF OfPage
  <1>13. {page * Radix + new[c + j] : j \in 1 .. count + 1}
           = {page * Radix + data[c + j] : j \in 1 .. count} \cup {at}
    <2> DEFINE base == page * Radix
    <2>1. \A j \in 1 .. count : new[c + j] = data[c + j] /\ j \in 1 .. count + 1
      <3>1. \A j \in 1 .. count : c + j \in 1 .. n /\ c + j # c /\ j \in 1 .. count + 1
        BY <1>1, <1>9
      <3>2. QED
        BY <1>7, <3>1
    <2>2. count + 1 \in 1 .. count + 1 /\ new[c + (count + 1)] = byte
      <3>1. c + (count + 1) = n + 1 /\ count + 1 \in 1 .. count + 1
        BY <1>1, <1>9
      <3>2. QED
        BY <1>7, <3>1
    <2>3. \A j \in 1 .. count + 1 : j \in 1 .. count \/ j = count + 1
      BY <1>1
    <2>4. base + byte = at
      BY <1>3
    <2> HIDE DEF base
    <2>5. ASSUME NEW j \in 1 .. count + 1
          PROVE  base + new[c + j] \in {base + data[c + i] : i \in 1 .. count} \cup {at}
      <3>1. CASE j \in 1 .. count
        BY <2>1, <3>1
      <3>2. CASE j = count + 1
        BY <2>2, <2>4, <3>2
      <3>3. QED
        BY <2>3, <3>1, <3>2
    <2>6. ASSUME NEW j \in 1 .. count
          PROVE  base + data[c + j] \in {base + new[c + i] : i \in 1 .. count + 1}
      <3>1. base + new[c + j] \in {base + new[c + i] : i \in 1 .. count + 1}
        BY <2>1
      <3>2. QED
        BY <2>1, <3>1
    <2>7. at \in {base + new[c + i] : i \in 1 .. count + 1}
      BY <2>2, <2>4
    <2>8. QED
      BY <2>5, <2>6, <2>7 DEF base
  <1>14. Offsets(new) = Offsets(data) \cup {at}
    BY <1>2, <1>11, <1>12, <1>13
  <1> DEFINE g == [data |-> new, page |-> page, count |-> count + 1]
  <1>15. LastOf(g) = at
    <2>1. LastOf(g) = page * Radix + byte
      BY <1>7 DEF LastOf
    <2>2. QED
      BY <1>3, <2>1
  <1>16. Reading(g)
    <2>1. g \in Helper /\ g.count > 0 /\ g.count = count + 1 /\ g.data = new /\ g.page = page
      <3>1. g.count = count + 1 /\ g.data = new /\ g.page = page
        OBVIOUS
      <3>2. new \in Seq(Nat)
        BY <1>7
      <3>3. page \in Nat /\ count + 1 \in Nat /\ count + 1 > 0
        BY <1>1
      <3>4. g \in Helper
        BY <3>2, <3>3 DEF Helper
      <3>5. QED
        BY <3>1, <3>3, <3>4
    <2>2. Len(new) - (count + 1) = c /\ c > 0 /\ (count + 1) - 1 = count
          /\ count + 1 <= SkipFlag
      <3>1. (n + 1) - (count + 1) = c /\ c > 0
        BY <1>1, <1>9
      <3>2. (count + 1) - 1 = count /\ count + 1 <= SkipFlag
        BY <1>1, <1>8, <1>3
      <3>3. QED
        BY <1>7, <3>1, <3>2
    <2>3. Reader(new)[c - 1] = [left |-> 0, page |-> page]
      BY <1>2, <1>11
    <2>4. new[Len(new)] = byte /\ new[c] = count
      BY <1>7
    <2> HIDE DEF g
    <2>5. Reader(g.data)[Len(g.data) - g.count - 1] = [left |-> 0, page |-> g.page]
      BY <2>1, <2>2, <2>3
    <2>6. g.data[Len(g.data) - g.count] = g.count - 1
      BY <2>1, <2>2, <2>4
    <2>7. Len(g.data) - g.count > 0 /\ g.count <= SkipFlag
          /\ 2 * (g.count - 1) <= g.data[Len(g.data)] /\ g.data[Len(g.data)] < Radix
      BY <1>1, <1>8, <1>3, <2>1, <2>2, <2>4
    <2>8. g.count # 0
      BY <1>1, <2>1
    <2>9. QED
      BY <2>1, <2>5, <2>6, <2>7, <2>8 DEF Reading
  <1>17. g.count > 0 /\ g.data = new
    BY <1>1
  <1>18. Added(h, at) = g
    BY <1>6
  <1> HIDE DEF g
  <1>19. QED
    BY <1>14, <1>15, <1>16, <1>17, <1>18 DEF data

LEMMA Joined ==
  ASSUME NEW S, NEW a \in Seq(S), NEW b \in Seq(S)
  PROVE  /\ a \o b \in Seq(S) /\ Len(a \o b) = Len(a) + Len(b)
         /\ \A i \in 1 .. Len(a) : (a \o b)[i] = a[i]
         /\ \A i \in 1 .. Len(b) : (a \o b)[Len(a) + i] = b[i]
  <1>1. a \o b \in Seq(S)
    OBVIOUS
  <1>2. Len(a \o b) = Len(a) + Len(b)
    OBVIOUS
  <1>3. \A i \in 1 .. Len(a) : (a \o b)[i] = a[i]
    OBVIOUS
  <1>4. ASSUME NEW i \in 1 .. Len(b) PROVE (a \o b)[Len(a) + i] = b[i]
    OBVIOUS
  <1>5. QED
    BY <1>1, <1>2, <1>3, <1>4

(* The first offset of a page, behind the skips that lead to it.           *)
LEMMA NewPage ==
  ASSUME NEW h, Reading(h), NEW at \in Nat, h.page <= at \div Radix,
         ~(h.count > 0 /\ h.page = at \div Radix)
  PROVE  /\ Reading(Added(h, at)) /\ LastOf(Added(h, at)) = at /\ Added(h, at).count > 0
         /\ Offsets(Added(h, at).data) = Offsets(h.data) \cup {at}
  <1> DEFINE data == h.data
             n == Len(data)
             byte == at % Radix
             page == at \div Radix
             base == IF h.count > 0 THEN h.page + 1 ELSE h.page
             skip == page - h.page - IF h.count > 0 THEN 1 ELSE 0
             skips == Skips(skip)
             m == Len(skips)
             new == data \o skips \o <<0, byte>>
             c == n + m + 1
             g == [data |-> new, page |-> page, count |-> 1]
  <1>1. /\ data \in Seq(Nat) /\ h.page \in Nat /\ h.count \in Nat /\ n \in Nat
        /\ byte \in Nat /\ page \in Nat
    <2>1. data \in Seq(Nat) /\ h.page \in Nat /\ h.count \in Nat
      BY DEF Reading, Helper
    <2>2. byte \in Nat /\ page \in Nat
      BY RadixIs, Division
    <2> HIDE DEF byte, page
    <2>3. n \in Nat
      BY <2>1
    <2>4. QED
      BY <2>1, <2>2, <2>3
  <1>2. byte < Radix /\ at = page * Radix + byte /\ SkipFlag \in Nat /\ SkipFlag > 1
    <2>1. Radix \in Nat /\ Radix > 0 /\ SkipFlag \in Nat /\ SkipFlag > 1
      BY RadixIs
    <2>2. byte < Radix /\ at = Radix * page + byte
      BY <2>1, Division
    <2> HIDE DEF byte, page
    <2>3. Radix * page = page * Radix
      BY <1>1, <2>1
    <2>4. QED
      BY <2>1, <2>2, <2>3
  <1>3. h.page <= page /\ ~(h.count > 0 /\ h.page = page)
    OBVIOUS
  <1>4. Added(h, at) = g
    BY <1>3 DEF Added
  <1> HIDE DEF page, byte, data, n
  <1>5. skip \in Nat /\ base \in Nat /\ base + skip = page
    BY <1>1, <1>3
  <1>6. Reader(data)[n] = [left |-> 0, page |-> base]
    <2>1. CASE h.count > 0
      <3>1. PICK d \in 1 .. Len(h.data) : EndsWithPage(h, d)
        BY <2>1, ReadingPage
      <3>2. QED
        BY <2>1, <3>1 DEF EndsWithPage, data, n
    <2>2. CASE ~(h.count > 0)
      <3>1. data = <<>> /\ h.page = 0 /\ n = 0
        BY <1>1, <2>2 DEF Reading, data, n
      <3>2. Reader(data)[0] = [left |-> 0, page |-> 0]
        BY <1>1, ReaderIs
      <3>3. QED
        BY <2>2, <3>1, <3>2
    <2>3. QED
      BY <2>1, <2>2
  <1> HIDE DEF skip, base
  <1>7. skips \in Seq(Nat) /\ m \in Nat
    <2>1. skips \in Seq(Nat)
      <3>1. CASE skip = 0
        BY <3>1 DEF Skips
      <3>2. CASE skip # 0
        BY <1>5, <3>2, SkipsAre
      <3>3. QED
        BY <3>1, <3>2
    <2> HIDE DEF skips
    <2>2. QED
      BY <2>1
  <1> HIDE DEF skips
  <1>8. /\ new \in Seq(Nat) /\ Len(new) = n + m + 2
        /\ \A i \in 1 .. n : new[i] = data[i]
        /\ \A i \in 1 .. m : new[n + i] = skips[i]
        /\ new[n + m + 1] = 0 /\ new[n + m + 2] = byte
    <2> DEFINE head == data \o skips
               tail == <<0, byte>>
    <2>1. head \in Seq(Nat) /\ Len(head) = n + m
      BY <1>1, <1>7, Joined DEF n
    <2>2. \A i \in 1 .. n : head[i] = data[i]
      BY <1>1, <1>7, Joined DEF n
    <2>3. \A i \in 1 .. m : head[n + i] = skips[i]
      BY <1>1, <1>7, Joined DEF n
    <2>4. tail \in Seq(Nat) /\ Len(tail) = 2 /\ tail[1] = 0 /\ tail[2] = byte
      BY <1>1
    <2> HIDE DEF head, tail, m
    <2>5. new = head \o tail
      BY DEF head, tail
    <2> HIDE DEF new
    <2>6. new \in Seq(Nat) /\ Len(new) = n + m + 2
      <3>1. new \in Seq(Nat) /\ Len(new) = Len(head) + Len(tail)
        BY <2>1, <2>4, <2>5, Joined
      <3>2. QED
        BY <1>1, <1>7, <2>1, <2>4, <3>1
    <2>7. \A i \in 1 .. n + m : new[i] = head[i]
      BY <2>1, <2>4, <2>5, Joined
    <2>8. new[n + m + 1] = 0 /\ new[n + m + 2] = byte
      <3>1. head \in Seq(Nat) /\ tail \in Seq(Nat)
        BY <2>1, <2>4
      <3>2. \A i \in 1 .. Len(tail) : new[Len(head) + i] = tail[i]
        BY <2>5, <3>1, Joined
      <3>3. 1 \in 1 .. 2 /\ 2 \in 1 .. 2
        OBVIOUS
      <3>4. QED
        BY <2>1, <2>4, <3>2, <3>3
    <2>9. \A i \in 1 .. n : i \in 1 .. n + m
      BY <1>1, <1>7
    <2>10. \A i \in 1 .. m : n + i \in 1 .. n + m
      BY <1>1, <1>7
    <2>11. QED
      BY <2>2, <2>3, <2>6, <2>7, <2>8, <2>9, <2>10
  <1> HIDE DEF new, m
  <1>9. n = Len(data) /\ m = Len(skips)
    BY DEF n, m
  <1>10. n <= Len(new) /\ n + m <= Len(new) /\ n <= Len(data)
    BY <1>1, <1>7, <1>8, <1>9
  <1>11. Reader(new)[n] = [left |-> 0, page |-> base] /\ Before(new, n) = Offsets(data)
    <2>1. \A k \in 0 .. n : Reader(new)[k] = Reader(data)[k]
      BY <1>1, <1>8, <1>10, ReaderAlike
    <2>2. Before(new, n) = Before(data, n)
      BY <1>1, <1>8, <1>10, BeforeAlike
    <2>3. Before(data, n) = Offsets(data)
      BY <1>1, <1>9, BeforeAll
    <2>4. n \in 0 .. n
      BY <1>1
    <2>5. QED
      BY <1>6, <2>1, <2>2, <2>3, <2>4
  <1>12. /\ \A i \in 0 .. m : Reader(new)[n + i].left = 0
         /\ Reader(new)[n + m] = [left |-> 0, page |-> page]
    <2>1. \A i \in 1 .. Len(Skips(skip)) : new[n + i] = Skips(skip)[i]
      BY <1>8, <1>9 DEF skips
    <2>2. n + Len(Skips(skip)) <= Len(new)
      BY <1>9, <1>10 DEF skips
    <2>3. new \in Seq(Nat) /\ n \in Nat /\ base \in Nat /\ skip \in Nat
      BY <1>1, <1>5, <1>8
    <2>4. Reader(new)[n] = [left |-> 0, page |-> base]
      BY <1>11
    <2>5. /\ \A i \in 0 .. Len(Skips(skip)) : Reader(new)[n + i].left = 0
          /\ Reader(new)[n + Len(Skips(skip))] = [left |-> 0, page |-> base + skip]
      BY <2>1, <2>2, <2>3, <2>4, ReaderSkips
    <2>6. QED
      BY <1>5, <1>9, <2>5 DEF skips
  <1>13. Before(new, n + m) = Offsets(data)
    BY <1>1, <1>7, <1>8, <1>11, <1>12, BeforeIdle
  <1>14. c \in 1 .. Len(new) /\ c - 1 = n + m /\ new[c] = 0 /\ c + 0 + 1 = Len(new)
         /\ c + 1 = n + m + 2
    BY <1>1, <1>7, <1>8
  <1> HIDE DEF c
  <1>15. Offsets(new) = Offsets(data) \cup {at}
    <2>1. Offsets(new) = Before(new, c - 1) \cup OfPage(new, c, page)
      <3>1. new[c] < SkipFlag /\ c + new[c] + 1 = Len(new)
        BY <1>2, <1>14
      <3>2. Reader(new)[c - 1] = [left |-> 0, page |-> page]
        BY <1>12, <1>14
      <3>3. QED
        BY <1>1, <1>8, <1>14, <3>1, <3>2, PageOffsets
    <2>2. OfPage(new, c, page) = {page * Radix + new[c + 1]}
      <3>1. 1 .. new[c] + 1 = {1}
        BY <1>14
      <3>2. QED
        BY <3>1 DEF OfPage
    <2>3. page * Radix + new[c + 1] = at
      BY <1>2, <1>8, <1>14
    <2>4. QED
      BY <1>13, <1>14, <2>1, <2>2, <2>3
  <1>16. g.count > 0 /\ g.data = new /\ g.page = page /\ g.count = 1
    OBVIOUS
  <1>17. LastOf(g) = at
    BY <1>2, <1>8, <1>16 DEF LastOf
  <1>18. Reading(g)
    <2>1. g \in Helper
      BY <1>1, <1>8 DEF Helper
    <2>2. Len(new) - 1 = c /\ c > 0 /\ 1 - 1 = 0 /\ Len(new) = n + m + 2
      BY <1>1, <1>7, <1>8, <1>14
    <2>3. Reader(new)[c - 1] = [left |-> 0, page |-> page]
      BY <1>12, <1>14
    <2> HIDE DEF g
    <2>4. Reader(g.data)[Len(g.data) - g.count - 1] = [left |-> 0, page |-> g.page]
      BY <1>16, <2>2, <2>3
    <2>5. g.data[Len(g.data) - g.count] = g.count - 1
      BY <1>14, <1>16, <2>2
    <2>6. g.data[Len(g.data)] = byte
      BY <1>8, <1>16
    <2>7. Len(g.data) - g.count > 0 /\ g.count <= SkipFlag
          /\ 2 * (g.count - 1) <= g.data[Len(g.data)] /\ g.data[Len(g.data)] < Radix
      BY <1>1, <1>2, <1>16, <2>2, <2>6
    <2>8. QED
      BY <1>16, <2>1, <2>4, <2>5, <2>7 DEF Reading
  <1> HIDE DEF g
  <1>19. QED
    BY <1>4, <1>15, <1>16, <1>17, <1>18 DEF data

(* append(): a loader reads the offsets so far, and the new one.           *)
LEMMA AddedReads ==
  ASSUME NEW h, Reading(h), NEW at \in Nat, h.page <= at \div Radix,
         h.count > 0 => LastOf(h) + 2 <= at
  PROVE  /\ Reading(Added(h, at)) /\ LastOf(Added(h, at)) = at /\ Added(h, at).count > 0
         /\ Offsets(Added(h, at).data) = Offsets(h.data) \cup {at}
  <1>1. CASE h.count > 0 /\ h.page = at \div Radix
    BY <1>1, SamePage
  <1>2. CASE ~(h.count > 0 /\ h.page = at \div Radix)
    BY <1>2, NewPage
  <1>3. QED
    BY <1>1, <1>2

LEMMA EmptyReads ==
  Reading(NewHelper) /\ Offsets(NewHelper.data) = {} /\ NewHelper.page = 0
    /\ ~(NewHelper.count > 0)
  <1>1. NewHelper.data = <<>> /\ NewHelper.page = 0 /\ NewHelper.count = 0
    BY DEF NewHelper
  <1>2. NewHelper \in Helper
    BY DEF NewHelper, Helper
  <1>3. Offsets(<<>>) = {}
    BY DEF Offsets
  <1>4. QED
    BY <1>1, <1>2, <1>3 DEF Reading

(* The bytes of a value that fits two.                                     *)
LEMMA BytesOf ==
  ASSUME NEW v \in Nat, v < TwoBytes
  PROVE  /\ Byte(v, 0) + Radix * Byte(v, 1) = v
         /\ Byte(v, 2) = 0
         /\ Byte(v, 0) \in Nat /\ Byte(v, 1) \in Nat
  <1> DEFINE low == v % Radix
             high == v \div Radix
  <1>1. Radix \in Nat /\ Radix > 1
    BY RadixAssumption
  <1>2. low \in Nat /\ low < Radix /\ high \in Nat /\ v = Radix * high + low
    BY <1>1, Division
  <1>3. Byte(v, 0) = low
    <2>1. v \div 1 = v
      OBVIOUS
    <2>2. QED
      BY <2>1 DEF Byte
  <1>4. Byte(v, 1) = high % Radix
    BY DEF Byte
  <1>5. Byte(v, 2) = (v \div TwoBytes) % Radix
    BY DEF Byte
  <1> HIDE DEF low, high
  <1>6. high < Radix
    <2> SUFFICES ASSUME Radix <= high PROVE FALSE
      BY <1>1, <1>2
    <2>1. Radix * Radix <= Radix * high
      BY <1>1, <1>2, TimesOrder
    <2> DEFINE square == Radix * Radix
               most == Radix * high
    <2>2. square \in Nat /\ most \in Nat /\ v = most + low /\ v < square
      BY <1>1, <1>2 DEF TwoBytes
    <2>3. square <= most
      BY <2>1
    <2> HIDE DEF square, most
    <2>4. QED
      BY <1>2, <2>2, <2>3
  <1>7. high % Radix = high
    BY <1>1, <1>2, <1>6
  <1>8. Byte(v, 2) = 0
    <2>1. TwoBytes \in Nat /\ TwoBytes > 0
      BY <1>1 DEF TwoBytes
    <2>2. v \div TwoBytes = 0
      BY <2>1
    <2>3. 0 % Radix = 0
      BY <1>1
    <2>4. QED
      BY <1>5, <2>2, <2>3
  <1>9. low + Radix * high = v
    <2> DEFINE most == Radix * high
    <2>1. most \in Nat /\ v = most + low
      BY <1>1, <1>2
    <2> HIDE DEF most
    <2>2. low + most = v
      BY <1>2, <2>1
    <2>3. QED
      BY <2>2 DEF most
  <1>10. QED
    BY <1>2, <1>3, <1>4, <1>7, <1>8, <1>9

(* What SUPER left in the data for r.                                      *)
Left(r, list) ==
  \A a \in r.offset .. r.offset + r.size - 1 :
    /\ a \in DOMAIN image
    /\ image[a] = IF list = SUPER_INTERSEG1 /\ a = r.offset + 2 THEN r.segment % Radix
                  ELSE Byte(r.value, a - r.offset)

LEMMA LeftValue ==
  ASSUME NEW r, Field(r), CanCompress(r), NEW list, Left(r, list), r.size \in {2, 3}
  PROVE  /\ Value(r.offset, 2) = r.value
         /\ r.size = 3 /\ list # SUPER_INTERSEG1 => Value(r.offset, 3) = r.value
         /\ r.size = 3 /\ list = SUPER_INTERSEG1 => At(r.offset + 2) = r.segment % Radix
  <1> DEFINE at == r.offset
             v == r.value
  <1>1. at \in Nat /\ v \in Nat /\ v < TwoBytes /\ r.size \in Nat
    BY DEF Field, CanCompress
  <1>2. /\ Byte(v, 0) + Radix * Byte(v, 1) = v /\ Byte(v, 2) = 0
        /\ Byte(v, 0) \in Nat /\ Byte(v, 1) \in Nat
    BY <1>1, BytesOf
  <1> HIDE DEF at, v
  <1>3. /\ at \in at .. at + r.size - 1 /\ at - at = 0 /\ at # at + 2
        /\ at + 1 \in at .. at + r.size - 1 /\ (at + 1) - at = 1 /\ at + 1 # at + 2
        /\ r.size = 3 => at + 2 \in at .. at + r.size - 1 /\ (at + 2) - at = 2
    BY <1>1
  <1>4. ASSUME NEW a \in at .. at + r.size - 1
        PROVE  At(a) = IF list = SUPER_INTERSEG1 /\ a = at + 2 THEN r.segment % Radix
                       ELSE Byte(v, a - at)
    BY <1>4 DEF Left, At, at, v
  <1>5. At(at) = Byte(v, 0)
    BY <1>3, <1>4
  <1>6. At(at + 1) = Byte(v, 1)
    BY <1>3, <1>4
  <1>7. r.size = 3 => At(at + 2) = IF list = SUPER_INTERSEG1 THEN r.segment % Radix ELSE 0
    BY <1>2, <1>3, <1>4
  <1>8. Value(at, 2) = v
    <2>1. Value(at, 2) = At(at) + Radix * At(at + 1) + 0
      BY DEF Value
    <2>2. v + 0 = v
      BY <1>1
    <2>3. QED
      BY <1>2, <1>5, <1>6, <2>1, <2>2
  <1>9. ASSUME r.size = 3, list # SUPER_INTERSEG1 PROVE Value(at, 3) = v
    <2>1. Value(at, 3) = At(at) + Radix * At(at + 1) + TwoBytes * At(at + 2)
      BY DEF Value
    <2>2. TwoBytes * 0 = 0 /\ v + 0 = v
      BY <1>1, RadixIs DEF TwoBytes
    <2>3. QED
      BY <1>2, <1>5, <1>6, <1>7, <1>9, <2>1, <2>2
  <1>10. QED
    BY <1>7, <1>8, <1>9 DEF at, v

(* What a loader makes of an offset in the list of r is r.                 *)
LEMMA RelocLoaded ==
  ASSUME NEW r, Field(r), NEW list \in RelocLists(r), Left(r, list), segnum \in Nat \ {0},
         r.offset \in Nat
  PROVE  FromList(list, r.offset) = Fixup(r.offset, r.size, r.shift, r.value, segnum)
  <1>1. CanCompress(r) /\ r.size \in {2, 3} /\ list # SUPER_INTERSEG1
    BY FixupAssumption
       DEF RelocLists, SUPER_RELOC2, SUPER_RELOC3, SUPER_INTERSEG24, SUPER_INTERSEG1
  <1>2. Value(r.offset, 2) = r.value /\ (r.size = 3 => Value(r.offset, 3) = r.value)
    BY <1>1, LeftValue
  <1>3. CASE list = SUPER_RELOC2 /\ r.shift = 0 /\ r.size = 2
    BY <1>2, <1>3 DEF FromList
  <1>4. CASE list = SUPER_RELOC3 /\ r.shift = 0 /\ r.size = 3
    BY <1>2, <1>4 DEF FromList, SUPER_RELOC2, SUPER_RELOC3
  <1>5. CASE list = SUPER_INTERSEG24 + segnum /\ r.shift = MinusSixteen /\ r.size = 2
    <2>1. /\ list # SUPER_RELOC2 /\ list # SUPER_RELOC3 /\ ~(list <= SUPER_INTERSEG24)
          /\ list - SUPER_INTERSEG24 = segnum
      BY <1>5 DEF SUPER_RELOC2, SUPER_RELOC3, SUPER_INTERSEG24
    <2>2. QED
      BY <1>1, <1>2, <1>5, <2>1 DEF FromList
  <1>6. QED
    BY <1>3, <1>4, <1>5 DEF RelocLists

LEMMA IntersegLoaded ==
  ASSUME NEW r, Field(r), r.segment \in Nat \ {0}, NEW list \in IntersegLists(r),
         Left(r, list)
  PROVE  FromList(list, r.offset) = Fixup(r.offset, r.size, r.shift, r.value, r.segment)
  <1>1. /\ CanCompress(r) /\ r.size \in {2, 3} /\ r.segment < Radix
        /\ SuperSegments \in Nat /\ SuperSegments <= 12
    BY FixupAssumption DEF IntersegLists, CanCompressInterseg
  <1>2. /\ Value(r.offset, 2) = r.value
        /\ r.size = 3 /\ list = SUPER_INTERSEG1 => At(r.offset + 2) = r.segment % Radix
    BY <1>1, LeftValue
  <1>3. CASE list = SUPER_INTERSEG1 /\ r.shift = 0 /\ r.size = 3
    <2>1. r.segment % Radix = r.segment
      BY <1>1, RadixIs
    <2>2. QED
      BY <1>2, <1>3, <2>1 DEF FromList, SUPER_RELOC2, SUPER_RELOC3, SUPER_INTERSEG1
  <1>4. CASE /\ list = SUPER_INTERSEG12 + r.segment /\ r.shift = 0 /\ r.size = 2
             /\ r.segment <= SuperSegments
    <2>1. /\ list # SUPER_RELOC2 /\ list # SUPER_RELOC3 /\ list # SUPER_INTERSEG1
          /\ list <= SUPER_INTERSEG24 /\ list - SUPER_INTERSEG12 = r.segment
      BY <1>1, <1>4
         DEF SUPER_RELOC2, SUPER_RELOC3, SUPER_INTERSEG1, SUPER_INTERSEG12, SUPER_INTERSEG24
    <2>2. QED
      BY <1>2, <1>4, <2>1 DEF FromList
  <1>5. CASE list = SUPER_INTERSEG24 + r.segment /\ r.shift = MinusSixteen /\ r.size = 2
    <2>1. /\ list # SUPER_RELOC2 /\ list # SUPER_RELOC3 /\ list # SUPER_INTERSEG1
          /\ ~(list <= SUPER_INTERSEG24) /\ list - SUPER_INTERSEG24 = r.segment
      BY <1>5 DEF SUPER_RELOC2, SUPER_RELOC3, SUPER_INTERSEG1, SUPER_INTERSEG24
    <2>2. QED
      BY <1>2, <1>5, <2>1 DEF FromList
  <1>6. QED
    BY <1>3, <1>4, <1>5 DEF IntersegLists

(* What has gone to list l so far, and where it is.                        *)
Gathered(l) ==
  IF l \in OwnLists
  THEN {r \in {relocs[i] : i \in DOMAIN relocs} : l \in RelocLists(r)}
  ELSE {r \in {intersegs[i] : i \in DOMAIN intersegs} : l \in IntersegLists(r)}

Places(l) == {r.offset : r \in Gathered(l)}

(* A list in the making has what went to it, up to the last.               *)
Packed(l) ==
  /\ Reading(helpers[l]) /\ helpers[l].count > 0
  /\ Offsets(helpers[l].data) = Places(l)
  /\ \E r \in Gathered(l) : r.offset = LastOf(helpers[l])

Plain(record) ==
  Fixup(record.offset, record.size, record.shift, record.value, record.segment)

(* A record behind the data says nothing that was not meant.               *)
Honest(record) ==
  IF record.op = "SUPER"
  THEN stage \in {"flush", "done"} /\ Offsets(record.data) = Places(record.list)
  ELSE Plain(record) \in Meant

(* A fixup has its record, or is in a list that has one or will have one.  *)
Kept(fixup, lists) ==
  /\ lists = {} => \E j \in DOMAIN body : body[j].op # "SUPER" /\ Plain(body[j]) = fixup
  /\ \A l \in lists :
       \/ l \in DOMAIN helpers
       \/ \E j \in DOMAIN body : body[j].op = "SUPER" /\ body[j].list = l

RelocSeen(r) ==
  /\ \A l \in RelocLists(r) : Left(r, l)
  /\ Kept(Fixup(r.offset, r.size, r.shift, r.value, segnum), RelocLists(r))

IntersegSeen(r) ==
  /\ r.segment # segnum
  /\ \A l \in IntersegLists(r) : Left(r, l)
  /\ Kept(Fixup(r.offset, r.size, r.shift, r.value, r.segment), IntersegLists(r))

LoadInv ==
  /\ RecordsInv
  /\ \A l \in DOMAIN helpers : Packed(l)
  /\ \A i \in DOMAIN body : Honest(body[i])
  /\ \A i \in DOMAIN relocs : RelocSeen(relocs[i])
  /\ \A i \in DOMAIN intersegs : IntersegSeen(intersegs[i])
  /\ stage = "done" => DOMAIN helpers = {}

(* Every list has one feed, so what a list gathered has gone there.        *)
LEMMA GatheredIs ==
  ASSUME LoadInv, NEW l, NEW r \in Gathered(l)
  PROVE  /\ Field(r) /\ r \in Given /\ r.size \in {2, 3} /\ Left(r, l)
         /\ \/ /\ l \in OwnLists /\ l \in RelocLists(r)
               /\ \E i \in DOMAIN relocs : relocs[i] = r
            \/ /\ l \notin OwnLists /\ l \in IntersegLists(r) /\ r.segment \in Nat \ {0}
               /\ \E i \in DOMAIN intersegs : intersegs[i] = r
  <1>1. /\ relocs \in Seq(fixups.relocs) /\ intersegs \in Seq(fixups.intersegs)
        /\ \A i \in DOMAIN relocs : RelocSeen(relocs[i])
        /\ \A i \in DOMAIN intersegs : IntersegSeen(intersegs[i])
    BY DEF LoadInv, RecordsInv
  <1>2. /\ \A g \in fixups.relocs : Field(g)
        /\ \A g \in fixups.intersegs : Field(g) /\ g.segment \in Nat \ {0}
    BY FixupTypes DEF LoadInv
  <1>3. CASE l \in OwnLists
    <2>1. PICK i \in DOMAIN relocs : relocs[i] = r /\ l \in RelocLists(r)
      BY <1>3 DEF Gathered
    <2>2. r \in fixups.relocs /\ r \in Given /\ RelocSeen(r)
      BY <1>1, <2>1 DEF Given
    <2>3. r.size \in {2, 3}
      BY <2>1 DEF RelocLists
    <2>4. QED
      BY <1>2, <1>3, <2>1, <2>2, <2>3 DEF RelocSeen
  <1>4. CASE l \notin OwnLists
    <2>1. PICK i \in DOMAIN intersegs : intersegs[i] = r /\ l \in IntersegLists(r)
      BY <1>4 DEF Gathered
    <2>2. r \in fixups.intersegs /\ r \in Given /\ IntersegSeen(r)
      BY <1>1, <2>1 DEF Given
    <2>3. r.size \in {2, 3}
      BY <2>1 DEF IntersegLists
    <2>4. QED
      BY <1>2, <1>4, <2>1, <2>2, <2>3 DEF IntersegSeen
  <1>5. QED
    BY <1>3, <1>4

(* A loader takes an offset of a list for what was meant.                  *)
LEMMA GatheredLoads ==
  ASSUME LoadInv, NEW l, NEW r \in Gathered(l)
  PROVE  FromList(l, r.offset) \in Meant
  <1>1. Field(r) /\ r.offset \in Nat /\ Left(r, l) /\ segnum \in Nat \ {0}
    BY GatheredIs, FixupTypes DEF LoadInv, Field
  <1>2. CASE l \in RelocLists(r) /\ \E i \in DOMAIN relocs : relocs[i] = r
    <2>1. FromList(l, r.offset) = Fixup(r.offset, r.size, r.shift, r.value, segnum)
      BY <1>1, <1>2, RelocLoaded
    <2>2. QED
      BY <1>2, <2>1 DEF Meant
  <1>3. CASE /\ l \in IntersegLists(r) /\ r.segment \in Nat \ {0}
             /\ \E i \in DOMAIN intersegs : intersegs[i] = r
    <2>1. FromList(l, r.offset) = Fixup(r.offset, r.size, r.shift, r.value, r.segment)
      BY <1>1, <1>3, IntersegLoaded
    <2>2. QED
      BY <1>3, <2>1 DEF Meant
  <1>4. QED
    BY <1>2, <1>3, GatheredIs

LEMMA SeenLoads ==
  ASSUME LoadInv, stage = "done", NEW fixup, NEW lists, Kept(fixup, lists),
         \A l \in lists : \E r \in Gathered(l) : FromList(l, r.offset) = fixup
  PROVE  \E j \in DOMAIN body : fixup \in Loaded(body[j])
  <1>1. CASE lists = {}
    <2>1. PICK j \in DOMAIN body : body[j].op # "SUPER" /\ Plain(body[j]) = fixup
      BY <1>1 DEF Kept
    <2>2. QED
      BY <2>1 DEF Loaded, Plain
  <1>2. CASE lists # {}
    <2>1. PICK l \in lists : TRUE
      BY <1>2
    <2>2. l \notin DOMAIN helpers
      BY DEF LoadInv
    <2>3. PICK j \in DOMAIN body : body[j].op = "SUPER" /\ body[j].list = l
      BY <2>1, <2>2 DEF Kept
    <2>4. Offsets(body[j].data) = Places(l)
      BY <2>3 DEF LoadInv, Honest
    <2>5. PICK r \in Gathered(l) : FromList(l, r.offset) = fixup
      BY <2>1
    <2>6. r.offset \in Offsets(body[j].data)
      BY <2>4, <2>5 DEF Places
    <2>7. QED
      BY <2>3, <2>5, <2>6 DEF Loaded
  <1>3. QED
    BY <1>1, <1>2

LEMMA LoaderReads == LoadInv => LoaderSeesRelocations
  <1> SUFFICES ASSUME LoadInv, stage = "done"
               PROVE  UNION {Loaded(body[i]) : i \in DOMAIN body} = Meant
    BY DEF LoaderSeesRelocations
  <1>1. ASSUME NEW i \in DOMAIN body, NEW x \in Loaded(body[i]) PROVE x \in Meant
    <2>1. Honest(body[i])
      BY DEF LoadInv
    <2>2. CASE body[i].op # "SUPER"
      BY <1>1, <2>1, <2>2 DEF Honest, Loaded, Plain
    <2>3. CASE body[i].op = "SUPER"
      <3>1. PICK at \in Offsets(body[i].data) : x = FromList(body[i].list, at)
        BY <1>1, <2>3 DEF Loaded
      <3>2. PICK r \in Gathered(body[i].list) : at = r.offset
        BY <2>1, <2>3, <3>1 DEF Honest, Places
      <3>3. FromList(body[i].list, r.offset) \in Meant
        BY <3>2, GatheredLoads
      <3>4. QED
        BY <3>1, <3>2, <3>3
    <2>4. QED
      BY <2>2, <2>3
  <1>2. /\ relocs \in Seq(fixups.relocs) /\ intersegs \in Seq(fixups.intersegs)
        /\ \A i \in DOMAIN relocs : RelocSeen(relocs[i])
        /\ \A i \in DOMAIN intersegs : IntersegSeen(intersegs[i])
    BY DEF LoadInv, RecordsInv
  <1>3. /\ \A g \in fixups.relocs : Field(g)
        /\ \A g \in fixups.intersegs : Field(g) /\ g.segment \in Nat \ {0}
        /\ segnum \in Nat \ {0}
    BY FixupTypes DEF LoadInv
  <1>4. ASSUME NEW i \in DOMAIN relocs
        PROVE  \E j \in DOMAIN body :
                 Fixup(relocs[i].offset, relocs[i].size, relocs[i].shift, relocs[i].value, segnum)
                   \in Loaded(body[j])
    <2> DEFINE r == relocs[i]
               fixup == Fixup(r.offset, r.size, r.shift, r.value, segnum)
    <2>1. Field(r) /\ r.offset \in Nat /\ RelocSeen(r)
      BY <1>2, <1>3 DEF Field
    <2>2. ASSUME NEW l \in RelocLists(r)
          PROVE  \E g \in Gathered(l) : FromList(l, g.offset) = fixup
      <3>1. l \in OwnLists
        BY ListsApart DEF LoadInv
      <3>2. r \in Gathered(l)
        BY <2>2, <3>1 DEF Gathered
      <3>3. Left(r, l)
        BY <2>1 DEF RelocSeen
      <3>4. FromList(l, r.offset) = fixup
        <4> HIDE DEF r
        <4>1. QED
          BY <1>3, <2>1, <3>3, RelocLoaded
      <3>5. QED
        BY <3>2, <3>4
    <2>3. Kept(fixup, RelocLists(r))
      BY <2>1 DEF RelocSeen
    <2>4. \E j \in DOMAIN body : fixup \in Loaded(body[j])
      <3> HIDE DEF fixup, r
      <3>1. QED
        BY <2>2, <2>3, SeenLoads
    <2>5. QED
      BY <2>4
  <1>5. ASSUME NEW i \in DOMAIN intersegs
        PROVE  \E j \in DOMAIN body :
                 Fixup(intersegs[i].offset, intersegs[i].size, intersegs[i].shift,
                       intersegs[i].value, intersegs[i].segment) \in Loaded(body[j])
    <2> DEFINE r == intersegs[i]
               fixup == Fixup(r.offset, r.size, r.shift, r.value, r.segment)
    <2>1. Field(r) /\ r.segment \in Nat \ {0} /\ IntersegSeen(r) /\ r \in fixups.intersegs
      BY <1>2, <1>3
    <2>2. ASSUME NEW l \in IntersegLists(r)
          PROVE  \E g \in Gathered(l) : FromList(l, g.offset) = fixup
      <3>1. l \notin OwnLists
        BY <2>1, ListsApart DEF LoadInv, IntersegSeen
      <3>2. r \in Gathered(l)
        BY <2>2, <3>1 DEF Gathered
      <3>3. Left(r, l)
        BY <2>1 DEF IntersegSeen
      <3>4. FromList(l, r.offset) = fixup
        <4> HIDE DEF r
        <4>1. QED
          BY <2>1, <3>3, IntersegLoaded
      <3>5. QED
        BY <3>2, <3>4
    <2>3. Kept(fixup, IntersegLists(r))
      BY <2>1 DEF IntersegSeen
    <2>4. \E j \in DOMAIN body : fixup \in Loaded(body[j])
      <3> HIDE DEF fixup, r
      <3>1. QED
        BY <2>2, <2>3, SeenLoads
    <2>5. QED
      BY <2>4
  <1>6. ASSUME NEW x \in Meant PROVE \E j \in DOMAIN body : x \in Loaded(body[j])
    BY <1>4, <1>5 DEF Meant
  <1>7. QED
    BY <1>1, <1>6

LEMMA OneList ==
  /\ \A r : \A l, m \in RelocLists(r) : l = m
  /\ \A r : \A l, m \in IntersegLists(r) : l = m
  <1>1. ASSUME NEW r, NEW l \in RelocLists(r), NEW m \in RelocLists(r) PROVE l = m
    BY DEF RelocLists
  <1>2. ASSUME NEW r, NEW l \in IntersegLists(r), NEW m \in IntersegLists(r) PROVE l = m
    BY DEF IntersegLists
  <1>3. QED
    BY <1>1, <1>2

LEMMA ListsStay ==
  ASSUME UNCHANGED <<super, segnum>>
  PROVE  /\ \A r : RelocLists(r)' = RelocLists(r)
         /\ \A r : IntersegLists(r)' = IntersegLists(r)
         /\ OwnLists' = OwnLists
  <1>1. ASSUME NEW r PROVE RelocLists(r)' = RelocLists(r)
    BY DEF RelocLists
  <1>2. ASSUME NEW r PROVE IntersegLists(r)' = IntersegLists(r)
    BY DEF IntersegLists
  <1>3. OwnLists' = OwnLists
    BY DEF OwnLists
  <1>4. QED
    BY <1>1, <1>2, <1>3

(* The bytes of r are in the data, and those of what was there, as fields  *)
(* are apart.                                                              *)
LEMMA LeftNew ==
  ASSUME NEW r, Field(r), NEW list, Gather(r, list)
  PROVE  Left(r, list)'
  <1>1. r.offset \in Nat /\ r.size \in Nat /\ r.size > 0
    BY DEF Field
  <1>2. image' = Patched(r, list)
    BY DEF Gather
  <1>3. ASSUME NEW a \in r.offset .. r.offset + r.size - 1
        PROVE  /\ a \in DOMAIN image'
               /\ image'[a] = IF list = SUPER_INTERSEG1 /\ a = r.offset + 2
                              THEN r.segment % Radix ELSE Byte(r.value, a - r.offset)
    <2>1. ~(a < r.offset \/ a >= r.offset + r.size)
      BY <1>1
    <2>2. QED
      BY <1>2, <2>1 DEF Patched
  <1>4. QED
    BY <1>3 DEF Left

LEMMA LeftStays ==
  ASSUME NEW r, Field(r), r.size # 1, NEW list, Gather(r, list), Free(r),
         NEW g \in Given, Field(g), NEW l, Left(g, l)
  PROVE  Left(g, l)'
  <1>1. /\ r.offset \in Nat /\ r.size \in Nat /\ g.offset \in Nat /\ g.size \in Nat
    BY DEF Field
  <1>2. image' = Patched(r, list)
    BY DEF Gather
  <1>3. g.offset + g.size <= r.offset \/ r.offset + r.size <= g.offset
    BY DEF Free
  <1>4. ASSUME NEW a \in g.offset .. g.offset + g.size - 1
        PROVE  a \in DOMAIN image' /\ image'[a] = image[a]
    <2>1. a < r.offset \/ a >= r.offset + r.size
      BY <1>1, <1>3
    <2>2. a \in DOMAIN image
      BY <1>4 DEF Left
    <2>3. QED
      BY <1>2, <2>1, <2>2 DEF Patched
  <1>5. QED
    BY <1>4 DEF Left

(* Whatever r is added to a list, a loader reads it besides the others.    *)
LEMMA PackedGrows ==
  ASSUME LoadInv, NEW r, Field(r), r.size \in {2, 3}, NEW list, Gather(r, list),
         Follows(r, Feeding(list)), Free(r),
         list \notin DOMAIN helpers => Gathered(list) = {},
         Gathered(list)' = Gathered(list) \cup {r}
  PROVE  Packed(list)'
  <1> DEFINE h == IF list \in DOMAIN helpers THEN helpers[list] ELSE NewHelper
  <1>1. r.offset \in Nat /\ r.size \in Nat
    BY DEF Field
  <1>2. /\ Reading(h) /\ h.page <= r.offset \div Radix
        /\ h.count > 0 => LastOf(h) + 2 <= r.offset
        /\ Offsets(h.data) = Places(list)
    <2>1. CASE list \in DOMAIN helpers
      <3>1. h = helpers[list] /\ Packed(list)
        BY <2>1 DEF LoadInv
      <3>2. helpers[list].page <= r.offset \div Radix
        BY <1>1, <2>1, AheadOfList DEF LoadInv
      <3>3. PICK g \in Gathered(list) : g.offset = LastOf(helpers[list])
        BY <3>1 DEF Packed
      <3>4. g.offset \in Nat /\ g.size \in {2, 3} /\ g \in Given
        BY GatheredIs DEF Field
      <3>5. \E i \in DOMAIN Feeding(list) : Feeding(list)[i] = g
        BY GatheredIs DEF Feeding
      <3>6. g.offset <= r.offset
        BY <3>5 DEF Follows
      <3>7. \/ g.offset + g.size <= r.offset
            \/ r.offset + r.size <= g.offset
            \/ g = r /\ r.size = 1
        BY <3>4 DEF Free
      <3>8. g.offset + 2 <= r.offset
        BY <1>1, <3>4, <3>6, <3>7
      <3>9. QED
        BY <3>1, <3>2, <3>3, <3>8 DEF Packed
    <2>2. CASE list \notin DOMAIN helpers
      <3>1. h = NewHelper /\ Places(list) = {}
        BY <2>2 DEF Places
      <3>2. r.offset \div Radix \in Nat
        BY <1>1, PageOrder
      <3>3. QED
        BY <3>1, <3>2, EmptyReads
    <2>3. QED
      BY <2>1, <2>2
  <1>3. helpers'[list] = Added(h, r.offset)
    BY DEF Gather
  <1> HIDE DEF h
  <1> DEFINE added == Added(h, r.offset)
  <1>4. /\ Reading(added) /\ LastOf(added) = r.offset /\ added.count > 0
        /\ Offsets(added.data) = Offsets(h.data) \cup {r.offset}
    BY <1>1, <1>2, AddedReads
  <1>5. Places(list)' = Places(list) \cup {r.offset}
    BY DEF Places
  <1> HIDE DEF added
  <1>6. helpers'[list] = added
    BY <1>3 DEF added
  <1>7. Reading(helpers[list])' /\ helpers'[list].count > 0
    BY <1>4, <1>6
  <1>8. Offsets(helpers[list].data)' = Places(list)'
    BY <1>2, <1>4, <1>5, <1>6
  <1>9. LastOf(helpers[list])' = r.offset /\ r \in Gathered(list)'
    BY <1>4, <1>6
  <1>10. QED
    BY <1>7, <1>8, <1>9 DEF Packed

LEMMA RelocGathered ==
  ASSUME LoadInv, NEW r \in fixups.relocs, relocs' = Append(relocs, r),
         UNCHANGED <<segnum, super, intersegs>>
  PROVE  \A l : Gathered(l)' = IF l \in RelocLists(r) THEN Gathered(l) \cup {r} ELSE Gathered(l)
  <1>1. /\ \A g : RelocLists(g)' = RelocLists(g) /\ IntersegLists(g)' = IntersegLists(g)
        /\ OwnLists' = OwnLists
    BY ListsStay
  <1>2. relocs \in Seq(fixups.relocs)
    BY DEF LoadInv, RecordsInv
  <1>3. {relocs'[i] : i \in DOMAIN relocs'} = {relocs[i] : i \in DOMAIN relocs} \cup {r}
    BY <1>2
  <1>4. ASSUME NEW l PROVE l \in RelocLists(r) => l \in OwnLists
    BY ListsApart DEF LoadInv
  <1>5. ASSUME NEW l, l \in OwnLists
        PROVE  Gathered(l)' = IF l \in RelocLists(r) THEN Gathered(l) \cup {r} ELSE Gathered(l)
    <2> DEFINE old == {relocs[i] : i \in DOMAIN relocs}
    <2>1. Gathered(l)' = {g \in old \cup {r} : l \in RelocLists(g)}
      BY <1>1, <1>3, <1>5 DEF Gathered
    <2>2. Gathered(l) = {g \in old : l \in RelocLists(g)}
      BY <1>5 DEF Gathered
    <2> HIDE DEF old
    <2>3. QED
      BY <2>1, <2>2
  <1>6. ASSUME NEW l, l \notin OwnLists PROVE Gathered(l)' = Gathered(l)
    BY <1>1, <1>6 DEF Gathered
  <1>7. QED
    BY <1>4, <1>5, <1>6

LEMMA IntersegGathered ==
  ASSUME LoadInv, NEW r \in fixups.intersegs, r.segment # segnum,
         intersegs' = Append(intersegs, r), UNCHANGED <<segnum, super, relocs>>
  PROVE  \A l : Gathered(l)' = IF l \in IntersegLists(r) THEN Gathered(l) \cup {r}
                               ELSE Gathered(l)
  <1>1. /\ \A g : RelocLists(g)' = RelocLists(g) /\ IntersegLists(g)' = IntersegLists(g)
        /\ OwnLists' = OwnLists
    BY ListsStay
  <1>2. intersegs \in Seq(fixups.intersegs)
    BY DEF LoadInv, RecordsInv
  <1>3. {intersegs'[i] : i \in DOMAIN intersegs'}
          = {intersegs[i] : i \in DOMAIN intersegs} \cup {r}
    BY <1>2
  <1>4. ASSUME NEW l PROVE l \in IntersegLists(r) => l \notin OwnLists
    BY ListsApart DEF LoadInv
  <1>5. ASSUME NEW l, l \notin OwnLists
        PROVE  Gathered(l)' = IF l \in IntersegLists(r) THEN Gathered(l) \cup {r}
                              ELSE Gathered(l)
    <2> DEFINE old == {intersegs[i] : i \in DOMAIN intersegs}
    <2>1. Gathered(l)' = {g \in old \cup {r} : l \in IntersegLists(g)}
      BY <1>1, <1>3, <1>5 DEF Gathered
    <2>2. Gathered(l) = {g \in old : l \in IntersegLists(g)}
      BY <1>5 DEF Gathered
    <2> HIDE DEF old
    <2>3. QED
      BY <2>1, <2>2
  <1>6. ASSUME NEW l, l \in OwnLists PROVE Gathered(l)' = Gathered(l)
    BY <1>1, <1>6 DEF Gathered
  <1>7. QED
    BY <1>4, <1>5, <1>6

(* No record of a list is out before the last interseg, so a new list is   *)
(* one to which nothing went.                                              *)
LEMMA NewIsEmpty ==
  ASSUME LoadInv, stage \in {"relocs", "intersegs"}, NEW l, l \notin DOMAIN helpers
  PROVE  Gathered(l) = {}
  <1>1. ASSUME NEW r \in Gathered(l) PROVE FALSE
    <2>1. \E fixup, lists : l \in lists /\ Kept(fixup, lists)
      <3>1. CASE l \in RelocLists(r) /\ \E i \in DOMAIN relocs : relocs[i] = r
        BY <3>1 DEF LoadInv, RelocSeen
      <3>2. CASE l \in IntersegLists(r) /\ \E i \in DOMAIN intersegs : intersegs[i] = r
        BY <3>2 DEF LoadInv, IntersegSeen
      <3>3. QED
        BY <1>1, <3>1, <3>2, GatheredIs
    <2>2. PICK j \in DOMAIN body : body[j].op = "SUPER"
      BY <2>1 DEF Kept
    <2>3. QED
      BY <2>2 DEF LoadInv, Honest
  <1>2. QED
    BY <1>1

(* What was kept is kept, as long as no list is lost.                      *)
LEMMA KeptStays ==
  ASSUME NEW fixup, NEW lists, Kept(fixup, lists),
         \A j \in DOMAIN body : j \in DOMAIN body' /\ body'[j] = body[j],
         \A l \in DOMAIN helpers :
           \/ l \in DOMAIN helpers'
           \/ \E j \in DOMAIN body' : body'[j].op = "SUPER" /\ body'[j].list = l
  PROVE  Kept(fixup, lists)'
  <1>1. lists = {} => \E j \in DOMAIN body' : body'[j].op # "SUPER" /\ Plain(body[j])' = fixup
    <2>1. ASSUME NEW j \in DOMAIN body, body[j].op # "SUPER", Plain(body[j]) = fixup
          PROVE  j \in DOMAIN body' /\ body'[j].op # "SUPER" /\ Plain(body[j])' = fixup
      BY <2>1 DEF Plain, Fixup
    <2>2. QED
      BY <2>1 DEF Kept
  <1>2. ASSUME NEW l \in lists
        PROVE  \/ l \in DOMAIN helpers'
               \/ \E j \in DOMAIN body' : body'[j].op = "SUPER" /\ body'[j].list = l
    BY <1>2 DEF Kept
  <1>3. QED
    BY <1>1, <1>2 DEF Kept

(* What was seen is seen, as long as records stay, no list is lost, and    *)
(* the bytes of a field in a list stay in the data.                        *)
LEMMA SeenStays ==
  ASSUME LoadInv, UNCHANGED <<segnum, super>>,
         \A j \in DOMAIN body : j \in DOMAIN body' /\ body'[j] = body[j],
         \A l \in DOMAIN helpers :
           \/ l \in DOMAIN helpers'
           \/ \E j \in DOMAIN body' : body'[j].op = "SUPER" /\ body'[j].list = l,
         \A g \in Given : \A l : Field(g) /\ Left(g, l) => Left(g, l)'
  PROVE  /\ \A g : (\E i \in DOMAIN relocs : relocs[i] = g) => RelocSeen(g)'
         /\ \A g : (\E i \in DOMAIN intersegs : intersegs[i] = g) => IntersegSeen(g)'
  <1>1. /\ \A g : RelocLists(g)' = RelocLists(g) /\ IntersegLists(g)' = IntersegLists(g)
    BY ListsStay
  <1>2. /\ relocs \in Seq(fixups.relocs) /\ intersegs \in Seq(fixups.intersegs)
        /\ \A i \in DOMAIN relocs : RelocSeen(relocs[i])
        /\ \A i \in DOMAIN intersegs : IntersegSeen(intersegs[i])
    BY DEF LoadInv, RecordsInv
  <1>3. /\ \A g \in fixups.relocs : Field(g)
        /\ \A g \in fixups.intersegs : Field(g) /\ g.segment \in Nat \ {0}
    BY FixupTypes DEF LoadInv
  <1>4. \A fixup, lists : Kept(fixup, lists) => Kept(fixup, lists)'
    BY KeptStays
  <1>5. ASSUME NEW g, \E i \in DOMAIN relocs : relocs[i] = g PROVE RelocSeen(g)'
    <2>1. RelocSeen(g) /\ Field(g) /\ g \in Given
      BY <1>2, <1>3, <1>5 DEF Given
    <2>2. \A l \in RelocLists(g)' : Left(g, l)'
      BY <1>1, <2>1 DEF RelocSeen
    <2> DEFINE fixup == Fixup(g.offset, g.size, g.shift, g.value, segnum)
    <2>3. fixup' = fixup
      BY DEF Fixup
    <2>4. ASSUME NEW x, NEW lists, x = fixup, lists = RelocLists(g) PROVE Kept(x, lists)'
      BY <1>4, <2>1, <2>4 DEF RelocSeen
    <2>5. Kept(fixup, RelocLists(g))'
      <3>1. \A x, lists : x = fixup' /\ lists = RelocLists(g)' => Kept(x, lists)'
        BY <1>1, <2>3, <2>4
      <3> HIDE DEF fixup
      <3>2. QED
        BY <3>1 DEF Kept
    <2>6. QED
      BY <2>2, <2>5 DEF RelocSeen
  <1>6. ASSUME NEW g, \E i \in DOMAIN intersegs : intersegs[i] = g PROVE IntersegSeen(g)'
    <2>1. IntersegSeen(g) /\ Field(g) /\ g \in Given
      BY <1>2, <1>3, <1>6 DEF Given
    <2>2. \A l \in IntersegLists(g)' : Left(g, l)'
      BY <1>1, <2>1 DEF IntersegSeen
    <2> DEFINE fixup == Fixup(g.offset, g.size, g.shift, g.value, g.segment)
    <2>4. ASSUME NEW lists, lists = IntersegLists(g) PROVE Kept(fixup, lists)'
      BY <1>4, <2>1, <2>4 DEF IntersegSeen
    <2>5. Kept(fixup, IntersegLists(g))'
      <3>1. \A lists : lists = IntersegLists(g)' => Kept(fixup, lists)'
        BY <1>1, <2>4
      <3> HIDE DEF fixup
      <3>2. QED
        BY <3>1 DEF Kept
    <2>6. g.segment # segnum'
      BY <2>1 DEF IntersegSeen
    <2>7. QED
      BY <2>2, <2>5, <2>6 DEF IntersegSeen
  <1>7. QED
    BY <1>5, <1>6

LEMMA HonestStays ==
  ASSUME NEW record, Honest(record), Meant \subseteq Meant',
         record.op = "SUPER" => stage' \in {"flush", "done"} /\ Places(record.list)' = Places(record.list)
  PROVE  Honest(record)'
  <1>1. CASE record.op = "SUPER"
    <2>1. Offsets(record.data) = Places(record.list)'
      BY <1>1 DEF Honest
    <2>2. QED
      BY <1>1, <2>1 DEF Honest
  <1>2. CASE record.op # "SUPER"
    BY <1>2 DEF Honest, Plain, Fixup
  <1>3. QED
    BY <1>1, <1>2

(* A list that nothing is added to has what it had.                        *)
LEMMA PackedStays ==
  ASSUME NEW l \in DOMAIN helpers, Packed(l), helpers'[l] = helpers[l],
         Gathered(l)' = Gathered(l)
  PROVE  Packed(l)'
  <1>1. Places(l)' = Places(l)
    BY DEF Places
  <1>2. Reading(helpers[l])' /\ LastOf(helpers[l])' = LastOf(helpers[l])
    BY DEF Packed
  <1>3. Offsets(helpers[l].data)' = Offsets(helpers[l].data)
    OBVIOUS
  <1>4. QED
    BY <1>1, <1>2, <1>3 DEF Packed

LEMMA MeantGrows ==
  ASSUME LoadInv, UNCHANGED segnum
  PROVE  /\ \A r : relocs' = Append(relocs, r) /\ UNCHANGED intersegs =>
              /\ Meant \subseteq Meant'
              /\ Fixup(r.offset, r.size, r.shift, r.value, segnum) \in Meant'
         /\ \A r : intersegs' = Append(intersegs, r) /\ UNCHANGED relocs =>
              /\ Meant \subseteq Meant'
              /\ Fixup(r.offset, r.size, r.shift, r.value, r.segment) \in Meant'
  <1>1. relocs \in Seq(fixups.relocs) /\ intersegs \in Seq(fixups.intersegs)
    BY DEF LoadInv, RecordsInv
  <1>2. ASSUME NEW s, NEW S, s \in Seq(S), NEW r
        PROVE  /\ \A i \in DOMAIN s : i \in DOMAIN Append(s, r) /\ Append(s, r)[i] = s[i]
               /\ \E i \in DOMAIN Append(s, r) : Append(s, r)[i] = r
    <2>1. /\ Len(s) + 1 \in DOMAIN Append(s, r) /\ Append(s, r)[Len(s) + 1] = r
          /\ \A i \in DOMAIN s : i \in DOMAIN Append(s, r) /\ Append(s, r)[i] = s[i]
      BY <1>2
    <2>2. QED
      BY <2>1
  <1>3. ASSUME NEW r, relocs' = Append(relocs, r), UNCHANGED intersegs
        PROVE  /\ Meant \subseteq Meant'
               /\ Fixup(r.offset, r.size, r.shift, r.value, segnum) \in Meant'
    <2>1. /\ \A i \in DOMAIN relocs : i \in DOMAIN relocs' /\ relocs'[i] = relocs[i]
          /\ \E i \in DOMAIN relocs' : relocs'[i] = r
      BY <1>1, <1>2, <1>3
    <2>2. QED
      BY <1>3, <2>1 DEF Meant, Fixup
  <1>4. ASSUME NEW r, intersegs' = Append(intersegs, r), UNCHANGED relocs
        PROVE  /\ Meant \subseteq Meant'
               /\ Fixup(r.offset, r.size, r.shift, r.value, r.segment) \in Meant'
    <2>1. /\ \A i \in DOMAIN intersegs : i \in DOMAIN intersegs' /\ intersegs'[i] = intersegs[i]
          /\ \E i \in DOMAIN intersegs' : intersegs'[i] = r
      BY <1>1, <1>2, <1>4
    <2>2. QED
      BY <1>4, <2>1 DEF Meant, Fixup
  <1>5. QED
    BY <1>3, <1>4

(* What a relocation or an interseg r leaves behind when it goes to a list *)
(* (Gather), and when it has a record of its own (Emit).                   *)
LEMMA GatherLoads ==
  ASSUME LoadInv, NEW r, Field(r), r.size \in {2, 3}, NEW list, Gather(r, list),
         Follows(r, Feeding(list)), Free(r), stage \in {"relocs", "intersegs"},
         UNCHANGED <<segnum, super>>, Meant \subseteq Meant',
         \A l : Gathered(l)' = IF l = list THEN Gathered(l) \cup {r} ELSE Gathered(l)
  PROVE  /\ \A l \in DOMAIN helpers' : Packed(l)'
         /\ \A i \in DOMAIN body' : Honest(body[i])'
         /\ \A g : (\E i \in DOMAIN relocs : relocs[i] = g) => RelocSeen(g)'
         /\ \A g : (\E i \in DOMAIN intersegs : intersegs[i] = g) => IntersegSeen(g)'
         /\ Left(r, list)' /\ list \in DOMAIN helpers'
  <1>1. /\ DOMAIN helpers' = DOMAIN helpers \cup {list}
        /\ \A l \in DOMAIN helpers : l # list => helpers'[l] = helpers[l]
        /\ UNCHANGED body
    BY DEF Gather
  <1>2. Packed(list)'
    BY NewIsEmpty, PackedGrows
  <1>3. ASSUME NEW l \in DOMAIN helpers', l # list PROVE Packed(l)'
    <2>1. l \in DOMAIN helpers /\ helpers'[l] = helpers[l] /\ Gathered(l)' = Gathered(l)
      BY <1>1, <1>3
    <2>2. Packed(l)
      BY <2>1 DEF LoadInv
    <2>3. QED
      BY <2>1, <2>2, PackedStays
  <1>4. ASSUME NEW i \in DOMAIN body' PROVE Honest(body[i])'
    <2>1. body'[i] = body[i] /\ Honest(body[i]) /\ body[i].op # "SUPER"
      BY <1>1, <1>4 DEF LoadInv, Honest
    <2>2. ASSUME NEW record, record = body[i] PROVE Honest(record)'
      BY <2>1, <2>2, HonestStays
    <2>3. QED
      BY <2>1, <2>2
  <1>5. \A g \in Given : \A l : Field(g) /\ Left(g, l) => Left(g, l)'
    BY LeftStays
  <1>6. Left(r, list)'
    BY LeftNew
  <1>7. /\ \A g : (\E i \in DOMAIN relocs : relocs[i] = g) => RelocSeen(g)'
        /\ \A g : (\E i \in DOMAIN intersegs : intersegs[i] = g) => IntersegSeen(g)'
    BY <1>1, <1>5, SeenStays
  <1>8. QED
    BY <1>1, <1>2, <1>3, <1>4, <1>6, <1>7

(* A record is put behind the others.                                      *)
LEMMA RecordBehind ==
  ASSUME SizeInv, NEW record, body' = Append(body, record)
  PROVE  /\ \A j \in DOMAIN body : j \in DOMAIN body' /\ body'[j] = body[j]
         /\ \A j \in DOMAIN body' : j \in DOMAIN body \/ body'[j] = record
         /\ \E j \in DOMAIN body' : body'[j] = record
  <1>1. body = [i \in 1 .. Len(body) |-> body[i]] /\ Len(body) \in Nat
    BY DEF SizeInv
  <1> DEFINE n == Len(body)
  <1>2. DOMAIN body = 1 .. n /\ n \in Nat /\ body = [i \in 1 .. n |-> body[i]]
    BY <1>1
  <1> HIDE DEF n
  <1>3. /\ body' = [i \in 1 .. n + 1 |-> IF i <= n THEN body[i] ELSE record]
        /\ DOMAIN body' = 1 .. n + 1
    <2>1. Append(body, record) = [i \in 1 .. n + 1 |-> IF i <= n THEN body[i] ELSE record]
      BY <1>2, AppendIs
    <2>2. QED
      BY <2>1
  <1>4. n + 1 \in DOMAIN body' /\ body'[n + 1] = record
    BY <1>2, <1>3
  <1>5. \A j \in DOMAIN body : j \in DOMAIN body' /\ body'[j] = body[j]
    BY <1>2, <1>3
  <1>6. \A j \in DOMAIN body' : j \in DOMAIN body \/ body'[j] = record
    BY <1>2, <1>3
  <1>7. QED
    BY <1>4, <1>5, <1>6

LEMMA EmitLoads ==
  ASSUME LoadInv, NEW record, NEW bytes, Emit(record, bytes), record.op # "SUPER",
         Plain(record) \in Meant', stage \in {"relocs", "intersegs"},
         UNCHANGED <<segnum, super>>, Meant \subseteq Meant',
         \A l : Gathered(l)' = Gathered(l)
  PROVE  /\ \A l \in DOMAIN helpers' : Packed(l)'
         /\ \A i \in DOMAIN body' : Honest(body[i])'
         /\ \A g : (\E i \in DOMAIN relocs : relocs[i] = g) => RelocSeen(g)'
         /\ \A g : (\E i \in DOMAIN intersegs : intersegs[i] = g) => IntersegSeen(g)'
         /\ Kept(Plain(record), {})'
  <1>1. body' = Append(body, record) /\ UNCHANGED <<helpers, image>>
    BY DEF Emit
  <1>2. /\ \A j \in DOMAIN body : j \in DOMAIN body' /\ body'[j] = body[j]
        /\ \A j \in DOMAIN body' : j \in DOMAIN body \/ body'[j] = record
        /\ \E j \in DOMAIN body' : body'[j] = record
    BY <1>1, RecordBehind DEF LoadInv, RecordsInv
  <1>3. ASSUME NEW l \in DOMAIN helpers' PROVE Packed(l)'
    BY <1>1, PackedStays DEF LoadInv
  <1>4. ASSUME NEW i \in DOMAIN body' PROVE Honest(body[i])'
    <2>1. CASE body'[i] = record
      <3>1. Honest(record)'
        BY DEF Honest, Plain, Fixup
      <3>2. QED
        BY <2>1, <3>1
    <2>2. CASE i \in DOMAIN body
      <3>1. body'[i] = body[i] /\ Honest(body[i]) /\ body[i].op # "SUPER"
        BY <1>2, <2>2 DEF LoadInv, Honest
      <3>2. ASSUME NEW x, x = body[i] PROVE Honest(x)'
        BY <3>1, <3>2, HonestStays
      <3>3. QED
        BY <3>1, <3>2
    <2>3. QED
      BY <1>2, <1>4, <2>1, <2>2
  <1>5. \A g \in Given : \A l : Field(g) /\ Left(g, l) => Left(g, l)'
    BY <1>1 DEF Left
  <1>6. /\ \A g : (\E i \in DOMAIN relocs : relocs[i] = g) => RelocSeen(g)'
        /\ \A g : (\E i \in DOMAIN intersegs : intersegs[i] = g) => IntersegSeen(g)'
    BY <1>1, <1>2, <1>5, SeenStays
  <1>7. Kept(Plain(record), {})'
    BY <1>2 DEF Kept, Plain, Fixup
  <1>8. QED
    BY <1>3, <1>4, <1>6, <1>7

LEMMA RelocLoads ==
  ASSUME LoadInv, NEW r \in fixups.relocs, NextReloc(r)
  PROVE  LoadInv'
  <1>1. /\ stage \in {"relocs", "intersegs"} /\ stage' = stage /\ stage # "done"
        /\ Follows(r, relocs) /\ Free(r)
        /\ relocs' = Append(relocs, r) /\ AddReloc(r)
        /\ UNCHANGED <<segnum, super, intersegs>>
    BY DEF NextReloc
  <1>2. Field(r) /\ RecordsInv'
    BY FixupTypes, RelocKeeps DEF LoadInv
  <1>3. /\ Meant \subseteq Meant'
        /\ Fixup(r.offset, r.size, r.shift, r.value, segnum) \in Meant'
    BY <1>1, MeantGrows
  <1>4. \A l : Gathered(l)' = IF l \in RelocLists(r) THEN Gathered(l) \cup {r} ELSE Gathered(l)
    BY <1>1, RelocGathered
  <1>5. \A g : RelocLists(g)' = RelocLists(g)
    BY <1>1, ListsStay
  <1>6. /\ \A l \in DOMAIN helpers' : Packed(l)'
        /\ \A i \in DOMAIN body' : Honest(body[i])'
        /\ \A g : (\E i \in DOMAIN relocs : relocs[i] = g) => RelocSeen(g)'
        /\ \A g : (\E i \in DOMAIN intersegs : intersegs[i] = g) => IntersegSeen(g)'
        /\ RelocSeen(r)'
    <2>1. CASE RelocLists(r) # {}
      <3>1. PICK list \in RelocLists(r) : Gather(r, list)
        BY <1>1, <2>1 DEF AddReloc
      <3>2. \A l \in RelocLists(r) : l = list
        BY <3>1, OneList
      <3>3. r.size \in {2, 3}
        BY <3>1 DEF RelocLists
      <3>4. Follows(r, Feeding(list))
        BY <1>1, <3>1, ListsApart DEF LoadInv, Feeding
      <3>5. \A l : Gathered(l)' = IF l = list THEN Gathered(l) \cup {r} ELSE Gathered(l)
        BY <1>4, <3>1, <3>2
      <3>6. /\ \A l \in DOMAIN helpers' : Packed(l)'
            /\ \A i \in DOMAIN body' : Honest(body[i])'
            /\ \A g : (\E i \in DOMAIN relocs : relocs[i] = g) => RelocSeen(g)'
            /\ \A g : (\E i \in DOMAIN intersegs : intersegs[i] = g) => IntersegSeen(g)'
            /\ Left(r, list)' /\ list \in DOMAIN helpers'
        BY <1>1, <1>2, <1>3, <3>1, <3>3, <3>4, <3>5, GatherLoads
      <3>7. RelocSeen(r)'
        BY <1>5, <2>1, <3>2, <3>6 DEF RelocSeen, Kept
      <3>8. QED
        BY <3>6, <3>7
    <2>2. CASE RelocLists(r) = {}
      <3> DEFINE fixup == Fixup(r.offset, r.size, r.shift, r.value, segnum)
      <3>1. PICK record, bytes :
              Emit(record, bytes) /\ record.op # "SUPER" /\ Plain(record) = fixup
        <4> DEFINE record == [op |-> "RELOC", size |-> r.size, shift |-> r.shift,
                              offset |-> r.offset, value |-> r.value, segment |-> segnum]
        <4>1. \/ Emit([record EXCEPT !.op = "cRELOC"], 7)
              \/ Emit(record, 11)
          BY <1>1, <2>2 DEF AddReloc
        <4>2. /\ [record EXCEPT !.op = "cRELOC"].op # "SUPER" /\ record.op # "SUPER"
              /\ Plain([record EXCEPT !.op = "cRELOC"]) = fixup /\ Plain(record) = fixup
          BY DEF Plain
        <4>3. QED
          BY <4>1, <4>2
      <3>2. Plain(record) \in Meant'
        BY <1>3, <3>1
      <3>3. \A l : Gathered(l)' = Gathered(l)
        BY <1>4, <2>2
      <3>4. /\ \A l \in DOMAIN helpers' : Packed(l)'
            /\ \A i \in DOMAIN body' : Honest(body[i])'
            /\ \A g : (\E i \in DOMAIN relocs : relocs[i] = g) => RelocSeen(g)'
            /\ \A g : (\E i \in DOMAIN intersegs : intersegs[i] = g) => IntersegSeen(g)'
            /\ Kept(Plain(record), {})'
        BY <1>1, <1>3, <3>1, <3>2, <3>3, EmitLoads
      <3>5. RelocSeen(r)'
        <4>1. RelocLists(r)' = {} /\ fixup' = fixup
          BY <1>1, <1>5, <2>2 DEF Fixup
        <4>2. Kept(fixup, RelocLists(r))'
          BY <3>1, <3>4, <4>1 DEF Kept
        <4>3. QED
          BY <4>1, <4>2 DEF RelocSeen
      <3>6. QED
        BY <3>4, <3>5
    <2>3. QED
      BY <2>1, <2>2
  <1>7. ASSUME NEW i \in DOMAIN relocs' PROVE RelocSeen(relocs[i])'
    <2>1. relocs'[i] = r \/ \E j \in DOMAIN relocs : relocs[j] = relocs'[i]
      <3>1. relocs \in Seq(fixups.relocs)
        BY DEF LoadInv, RecordsInv
      <3>2. QED
        BY <1>1, <1>7, <3>1
    <2>2. \A g : g = relocs'[i] => RelocSeen(g)'
      BY <1>6, <2>1
    <2>3. QED
      BY <2>2
  <1>8. ASSUME NEW i \in DOMAIN intersegs' PROVE IntersegSeen(intersegs[i])'
    <2>1. \A g : g = intersegs'[i] => IntersegSeen(g)'
      BY <1>1, <1>6, <1>8
    <2>2. QED
      BY <2>1
  <1>9. QED
    BY <1>1, <1>2, <1>6, <1>7, <1>8 DEF LoadInv

LEMMA IntersegLoads ==
  ASSUME LoadInv, NEW r \in fixups.intersegs, NextInterseg(r)
  PROVE  LoadInv'
  <1>1. /\ stage \in {"relocs", "intersegs"} /\ stage' = "intersegs" /\ stage' # "done"
        /\ Follows(r, intersegs) /\ Free(r) /\ r.segment # segnum
        /\ intersegs' = Append(intersegs, r) /\ AddInterseg(r)
        /\ UNCHANGED <<segnum, super, relocs>>
    BY DEF NextInterseg
  <1>2. Field(r) /\ RecordsInv'
    BY FixupTypes, IntersegKeeps DEF LoadInv
  <1>3. /\ Meant \subseteq Meant'
        /\ Fixup(r.offset, r.size, r.shift, r.value, r.segment) \in Meant'
    BY <1>1, MeantGrows
  <1>4. \A l : Gathered(l)' = IF l \in IntersegLists(r) THEN Gathered(l) \cup {r} ELSE Gathered(l)
    BY <1>1, IntersegGathered
  <1>5. \A g : IntersegLists(g)' = IntersegLists(g)
    BY <1>1, ListsStay
  <1>6. /\ \A l \in DOMAIN helpers' : Packed(l)'
        /\ \A i \in DOMAIN body' : Honest(body[i])'
        /\ \A g : (\E i \in DOMAIN relocs : relocs[i] = g) => RelocSeen(g)'
        /\ \A g : (\E i \in DOMAIN intersegs : intersegs[i] = g) => IntersegSeen(g)'
        /\ IntersegSeen(r)'
    <2>1. CASE IntersegLists(r) # {}
      <3>1. PICK list \in IntersegLists(r) : Gather(r, list)
        BY <1>1, <2>1 DEF AddInterseg
      <3>2. \A l \in IntersegLists(r) : l = list
        BY <3>1, OneList
      <3>3. r.size \in {2, 3}
        BY <3>1 DEF IntersegLists
      <3>4. Follows(r, Feeding(list))
        BY <1>1, <3>1, ListsApart DEF LoadInv, Feeding
      <3>5. \A l : Gathered(l)' = IF l = list THEN Gathered(l) \cup {r} ELSE Gathered(l)
        BY <1>4, <3>1, <3>2
      <3>6. /\ \A l \in DOMAIN helpers' : Packed(l)'
            /\ \A i \in DOMAIN body' : Honest(body[i])'
            /\ \A g : (\E i \in DOMAIN relocs : relocs[i] = g) => RelocSeen(g)'
            /\ \A g : (\E i \in DOMAIN intersegs : intersegs[i] = g) => IntersegSeen(g)'
            /\ Left(r, list)' /\ list \in DOMAIN helpers'
        BY <1>1, <1>2, <1>3, <3>1, <3>3, <3>4, <3>5, GatherLoads
      <3>7. IntersegSeen(r)'
        BY <1>1, <1>5, <2>1, <3>2, <3>6 DEF IntersegSeen, Kept
      <3>8. QED
        BY <3>6, <3>7
    <2>2. CASE IntersegLists(r) = {}
      <3> DEFINE fixup == Fixup(r.offset, r.size, r.shift, r.value, r.segment)
      <3>1. PICK record, bytes :
              Emit(record, bytes) /\ record.op # "SUPER" /\ Plain(record) = fixup
        <4> DEFINE record == [op |-> "INTERSEG", size |-> r.size, shift |-> r.shift,
                              offset |-> r.offset, value |-> r.value, segment |-> r.segment]
        <4>1. \/ Emit([record EXCEPT !.op = "cINTERSEG"], 8)
              \/ Emit(record, 15)
          BY <1>1, <2>2 DEF AddInterseg
        <4>2. /\ [record EXCEPT !.op = "cINTERSEG"].op # "SUPER" /\ record.op # "SUPER"
              /\ Plain([record EXCEPT !.op = "cINTERSEG"]) = fixup /\ Plain(record) = fixup
          BY DEF Plain
        <4>3. QED
          BY <4>1, <4>2
      <3>2. Plain(record) \in Meant'
        BY <1>3, <3>1
      <3>3. \A l : Gathered(l)' = Gathered(l)
        BY <1>4, <2>2
      <3>4. /\ \A l \in DOMAIN helpers' : Packed(l)'
            /\ \A i \in DOMAIN body' : Honest(body[i])'
            /\ \A g : (\E i \in DOMAIN relocs : relocs[i] = g) => RelocSeen(g)'
            /\ \A g : (\E i \in DOMAIN intersegs : intersegs[i] = g) => IntersegSeen(g)'
            /\ Kept(Plain(record), {})'
        BY <1>1, <1>3, <3>1, <3>2, <3>3, EmitLoads
      <3>5. IntersegSeen(r)'
        <4>1. IntersegLists(r)' = {} /\ fixup' = fixup
          BY <1>1, <1>5, <2>2 DEF Fixup
        <4>2. Kept(fixup, IntersegLists(r))'
          BY <3>1, <3>4, <4>1 DEF Kept
        <4>3. QED
          BY <1>1, <4>1, <4>2 DEF IntersegSeen
      <3>6. QED
        BY <3>4, <3>5
    <2>3. QED
      BY <2>1, <2>2
  <1>7. ASSUME NEW i \in DOMAIN intersegs' PROVE IntersegSeen(intersegs[i])'
    <2>1. intersegs'[i] = r \/ \E j \in DOMAIN intersegs : intersegs[j] = intersegs'[i]
      <3>1. intersegs \in Seq(fixups.intersegs)
        BY DEF LoadInv, RecordsInv
      <3>2. QED
        BY <1>1, <1>7, <3>1
    <2>2. \A g : g = intersegs'[i] => IntersegSeen(g)'
      BY <1>6, <2>1
    <2>3. QED
      BY <2>2
  <1>8. ASSUME NEW i \in DOMAIN relocs' PROVE RelocSeen(relocs[i])'
    <2>1. \A g : g = relocs'[i] => RelocSeen(g)'
      BY <1>1, <1>6, <1>8
    <2>2. QED
      BY <2>1
  <1>9. QED
    BY <1>1, <1>2, <1>6, <1>7, <1>8 DEF LoadInv

LEMMA FlushLoads ==
  ASSUME LoadInv, Flush
  PROVE  LoadInv'
  <1>1. PICK list \in DOMAIN helpers :
          /\ body' = Append(body, Super(list))
          /\ helpers' = [l \in DOMAIN helpers \ {list} |-> helpers[l]]
    BY DEF Flush
  <1>2. /\ UNCHANGED <<segnum, super, relocs, intersegs, image>> /\ stage' = "flush"
        /\ RecordsInv'
    BY FlushKeeps DEF Flush, LoadInv
  <1>3. /\ \A g : RelocLists(g)' = RelocLists(g) /\ IntersegLists(g)' = IntersegLists(g)
        /\ OwnLists' = OwnLists
    BY <1>2, ListsStay
  <1>4. \A l : Gathered(l)' = Gathered(l) /\ Places(l)' = Places(l)
    BY <1>2, <1>3 DEF Gathered, Places
  <1>5. Meant' = Meant
    BY <1>2 DEF Meant, Fixup
  <1> DEFINE record == Super(list)
  <1>6. record.op = "SUPER" /\ record.list = list /\ record.data = helpers[list].data
    BY DEF Super
  <1>7. /\ \A j \in DOMAIN body : j \in DOMAIN body' /\ body'[j] = body[j]
        /\ \A j \in DOMAIN body' : j \in DOMAIN body \/ body'[j] = record
        /\ \E j \in DOMAIN body' : body'[j] = record
    BY <1>1, RecordBehind DEF LoadInv, RecordsInv
  <1>8. ASSUME NEW l \in DOMAIN helpers' PROVE Packed(l)'
    <2>1. l \in DOMAIN helpers /\ helpers'[l] = helpers[l]
      BY <1>1, <1>8
    <2>2. Packed(l)
      BY <2>1 DEF LoadInv
    <2>3. QED
      BY <1>4, <2>1, <2>2, PackedStays
  <1>9. ASSUME NEW i \in DOMAIN body' PROVE Honest(body[i])'
    <2>1. CASE body'[i] = record
      <3>1. Offsets(record.data) = Places(list)
        BY <1>6 DEF LoadInv, Packed
      <3>2. ASSUME NEW x, x = record PROVE Honest(x)'
        BY <1>2, <1>4, <1>6, <3>1, <3>2 DEF Honest
      <3>3. QED
        BY <2>1, <3>2
    <2>2. CASE i \in DOMAIN body
      <3>1. body'[i] = body[i] /\ Honest(body[i])
        BY <1>7, <2>2 DEF LoadInv
      <3>2. ASSUME NEW x, x = body[i] PROVE Honest(x)'
        BY <1>2, <1>4, <1>5, <3>1, <3>2, HonestStays
      <3>3. QED
        BY <3>1, <3>2
    <2>3. QED
      BY <1>7, <1>9, <2>1, <2>2
  <1>10. ASSUME NEW l \in DOMAIN helpers
         PROVE  \/ l \in DOMAIN helpers'
                \/ \E j \in DOMAIN body' : body'[j].op = "SUPER" /\ body'[j].list = l
    BY <1>1, <1>6, <1>7
  <1>11. \A g \in Given : \A l : Field(g) /\ Left(g, l) => Left(g, l)'
    BY <1>2 DEF Left
  <1>12. /\ \A g : (\E i \in DOMAIN relocs : relocs[i] = g) => RelocSeen(g)'
         /\ \A g : (\E i \in DOMAIN intersegs : intersegs[i] = g) => IntersegSeen(g)'
    BY <1>2, <1>7, <1>10, <1>11, SeenStays
  <1>13. ASSUME NEW i \in DOMAIN relocs' PROVE RelocSeen(relocs[i])'
    <2>1. \A g : g = relocs'[i] => RelocSeen(g)'
      BY <1>2, <1>12, <1>13
    <2>2. QED
      BY <2>1
  <1>14. ASSUME NEW i \in DOMAIN intersegs' PROVE IntersegSeen(intersegs[i])'
    <2>1. \A g : g = intersegs'[i] => IntersegSeen(g)'
      BY <1>2, <1>12, <1>14
    <2>2. QED
      BY <2>1
  <1>15. QED
    BY <1>2, <1>8, <1>9, <1>13, <1>14 DEF LoadInv

LEMMA InitLoads == Init => LoadInv
  <1> SUFFICES ASSUME Init PROVE LoadInv
    OBVIOUS
  <1>1. RecordsInv /\ DOMAIN helpers = {} /\ body = <<>> /\ relocs = <<>> /\ intersegs = <<>>
    BY InitRecords DEF Init
  <1>2. DOMAIN body = {} /\ DOMAIN relocs = {} /\ DOMAIN intersegs = {}
    BY <1>1
  <1>3. QED
    BY <1>1, <1>2 DEF LoadInv

LEMMA IdleLoads ==
  ASSUME LoadInv, Done \/ UNCHANGED vars
  PROVE  LoadInv'
  <1>1. /\ UNCHANGED <<segnum, fixups, super, relocs, intersegs, helpers, image, body, reloc_size>>
        /\ stage \in {"flush", "done"} => stage' \in {"flush", "done"}
        /\ stage' = "done" => DOMAIN helpers = {}
    BY DEF Done, vars, LoadInv
  <1>2. RecordsInv'
    BY RecordsNext DEF LoadInv, Next
  <1>3. /\ \A g : RelocLists(g)' = RelocLists(g) /\ IntersegLists(g)' = IntersegLists(g)
        /\ OwnLists' = OwnLists
    BY <1>1, ListsStay
  <1>4. \A l : Gathered(l)' = Gathered(l) /\ Places(l)' = Places(l)
    BY <1>1, <1>3 DEF Gathered, Places
  <1>5. Meant' = Meant
    BY <1>1 DEF Meant, Fixup
  <1>6. ASSUME NEW l \in DOMAIN helpers' PROVE Packed(l)'
    BY <1>1, <1>4, PackedStays DEF LoadInv
  <1>7. ASSUME NEW i \in DOMAIN body' PROVE Honest(body[i])'
    <2>1. body'[i] = body[i] /\ Honest(body[i])
      BY <1>1 DEF LoadInv
    <2>2. body[i].op = "SUPER" => stage' \in {"flush", "done"}
      BY <1>1, <2>1 DEF Honest
    <2>3. ASSUME NEW x, x = body[i] PROVE Honest(x)'
      BY <1>4, <1>5, <2>1, <2>2, <2>3, HonestStays
    <2>4. QED
      BY <2>1, <2>3
  <1>8. \A g \in Given : \A l : Field(g) /\ Left(g, l) => Left(g, l)'
    BY <1>1 DEF Left
  <1>9. /\ \A g : (\E i \in DOMAIN relocs : relocs[i] = g) => RelocSeen(g)'
        /\ \A g : (\E i \in DOMAIN intersegs : intersegs[i] = g) => IntersegSeen(g)'
    BY <1>1, <1>8, SeenStays
  <1>10. ASSUME NEW i \in DOMAIN relocs' PROVE RelocSeen(relocs[i])'
    <2>1. \A g : g = relocs'[i] => RelocSeen(g)'
      BY <1>1, <1>9, <1>10
    <2>2. QED
      BY <2>1
  <1>11. ASSUME NEW i \in DOMAIN intersegs' PROVE IntersegSeen(intersegs[i])'
    <2>1. \A g : g = intersegs'[i] => IntersegSeen(g)'
      BY <1>1, <1>9, <1>11
    <2>2. QED
      BY <2>1
  <1>12. QED
    BY <1>1, <1>2, <1>6, <1>7, <1>10, <1>11 DEF LoadInv

LEMMA LoadNext ==
  ASSUME LoadInv, [Next]_vars
  PROVE  LoadInv'
  BY RelocLoads, IntersegLoads, FlushLoads, IdleLoads DEF Next

(* Whichever records the relocations of a segment are packed in by         *)
(* add_relocs(), a loader that reads the lists byte by byte, and the       *)
(* values in the data, sees each as the linker meant it, and no other.     *)
THEOREM LoaderSeesAll == Spec => []LoaderSeesRelocations
  BY InitLoads, LoadNext, LoaderReads, PTL DEF Spec
=============================================================================
