------------------------------ MODULE OmfFile ------------------------------
(***************************************************************************)
(* save_omf() and save_object(): where the parts of an OMF file stand.     *)
(* Bytes are counted, not written.  An express file starts with a segment  *)
(* that tells the loader where the others are; room is left for it, and it *)
(* is written last.                                                        *)
(***************************************************************************)
EXTENDS Process, Sums

CONSTANTS
  Files,   \* what finish() may pass: [segments, express, version, object]
  Word     \* 65536, cut of the 16-bit fields

VARIABLES
  file,      \* what was passed
  segments,  \* the segments, renumbered for an express file
  offset,    \* where the next segment goes
  written,   \* the segments written: where, and their headers
  entries,   \* expr_headers: what the express segment says of each
  lead,      \* the express segment once it is written, <<>> before
  step       \* "open", "segments", "closed"

fileVars == <<file, segments, offset, written, entries, lead, step, thrown, exited>>

(* A segment here: the length of its name and of its data, the space       *)
(* reserved behind it, the bytes of its relocation records (of the whole   *)
(* body, in an object file), its number and the numbers its intersegs name.*)
Segment ==
  [name : Nat, size : Nat, reserved : Nat, relocs : Nat, segnum : Nat, targets : SUBSET Nat]

ASSUME FileAssumption ==
  /\ Word \in Nat \ {0}
  /\ \A f \in Files :
       /\ f.segments \in Seq(Segment) /\ Len(f.segments) > 0
       /\ f.express \in BOOLEAN /\ f.version \in 1..2 /\ f.object \in BOOLEAN
       /\ f.object => Len(f.segments) = 1
       /\ \A i \in DOMAIN f.segments : f.segments[i].segnum = i

HeaderSize == 44          \* sizeof(omf_header)
ExpressHeaderSize == 48   \* sizeof(omf_express_header)
LoadNameSize == 10
Block == 512

(* A pushed string: a length byte, and 255 characters at most.             *)
Pushed(name) == 1 + IF name < 255 THEN name ELSE 255

(* Version 1 has no express load.                                          *)
Express == file.express /\ file.version = 2 /\ ~file.object

(* "~ExpressLoad" pushed, LCONST with its length and END, the count.       *)
ExpressName == 13
ExpressFixed == 6
ExpressCount == 6

(* What the table, the map and the header of a segment take there;         *)
(* save_omf() takes the whole name, whatever its length.                   *)
RoomWithoutMap(segs) ==   \* variant: the numbers of the segments left out
  HeaderSize + LoadNameSize + ExpressName + ExpressFixed + ExpressCount
  + Sums([i \in DOMAIN segs |-> 8 + ExpressHeaderSize + LoadNameSize + segs[i].name + 1])[Len(segs)]

Room(segs) ==
  HeaderSize + LoadNameSize + ExpressName + ExpressFixed + ExpressCount
  + Sums([i \in DOMAIN segs |->
            8 + 2 + ExpressHeaderSize + LoadNameSize + segs[i].name + 1])[Len(segs)]

RenumberedAlone(segs) ==   \* variant: the intersegs keep their numbers
  [i \in DOMAIN segs |-> [segs[i] EXCEPT !.segnum = @ + 1]]

Renumbered(segs) ==
  [i \in DOMAIN segs |->
     [segs[i] EXCEPT !.segnum = @ + 1, !.targets = {t + 1 : t \in @}]]

FileInit ==
  /\ file \in Files
  /\ segments = file.segments
  /\ offset = 0
  /\ written = <<>>
  /\ entries = <<>>
  /\ lead = <<>>
  /\ step = "open"
  /\ ProcessInit

(* open(), and for an express file the room at the front.                  *)
Open ==
  /\ step = "open"
  /\ step' = "segments"
  /\ segments' = IF Express THEN Renumbered(segments) ELSE segments
  /\ offset' = IF Express THEN Room(segments) ELSE 0
  /\ Returns
  /\ UNCHANGED <<file, written, entries, lead>>

OpenFails ==
  /\ step = "open"
  /\ step' = "closed"
  /\ Exits(EX_CANTCREAT)
  /\ UNCHANGED <<file, segments, offset, written, entries, lead>>
-----------------------------------------------------------------------------
Blocks(bytes) == (bytes + Block - 1) \div Block

(* The header of a segment whose body takes so many bytes behind the       *)
(* names; bytecount counts blocks in version 1.                            *)
Header(at, s, body, segnum, reserved) ==
  LET bytes == HeaderSize + LoadNameSize + Pushed(s.name) + body IN
  [at |-> at, bytes |-> bytes,
   bytecount |-> IF file.version = 1 THEN Blocks(bytes) ELSE bytes,
   dispdata |-> HeaderSize + LoadNameSize + Pushed(s.name),
   segnum |-> segnum, reserved |-> reserved, length |-> s.size + s.reserved,
   targets |-> s.targets]

(* Padding behind a version 1 segment that is not the last: up to the next *)
(* block, and a whole block if there is nothing to pad.                    *)
Padding(end) == Block - (end % Block)

Lconst(s) == s.size + IF Express THEN s.reserved ELSE 0

SpaceInHeader(s) == s.reserved   \* variant: in an express file too
HeaderReserved(s) == IF Express THEN 0 ELSE s.reserved

(* What the express segment says of a segment at offset at.                *)
Entry(at, s) ==
  LET data == at + HeaderSize + LoadNameSize + Pushed(s.name) + 5 IN
  [lconst_mark |-> IF Lconst(s) = 0 THEN 0 ELSE data, lconst_size |-> Lconst(s),
   reloc_mark |-> IF s.relocs = 0 THEN 0 ELSE data + Lconst(s), reloc_size |-> s.relocs,
   bytes |-> ExpressHeaderSize + LoadNameSize + Pushed(s.name)]

(* One turn of the loop over the segments.                                 *)
WriteSegment ==
  /\ step = "segments"
  /\ ~file.object
  /\ Len(written) < Len(segments)
  /\ LET k == Len(written) + 1
         s == segments[k]
         header == Header(offset, s, 5 + Lconst(s) + s.relocs + 1, s.segnum,
                          HeaderReserved(s))
         end == offset + header.bytes
     IN
     /\ written' = Append(written, header)
     /\ entries' = IF Express THEN Append(entries, Entry(offset, s)) ELSE entries
     /\ offset' = IF file.version = 1 /\ k # Len(segments) THEN end + Padding(end) ELSE end
  /\ Returns
  /\ UNCHANGED <<file, segments, lead, step>>

(* save_object(): the body is already encoded.                             *)
WriteObject ==
  /\ step = "segments"
  /\ file.object
  /\ LET s == segments[1]
         header == Header(0, s, s.relocs, 0, s.reserved)
     IN
     /\ written' = <<header>>
     /\ offset' = header.bytes
  /\ step' = "closed"
  /\ Returns
  /\ UNCHANGED <<file, segments, entries, lead>>

(* expr_headers: where in it the k-th header ends.                         *)
HeadersUpTo(k) == Sums([i \in DOMAIN entries |-> entries[i].bytes])[k]

(* The express segment: a table of n entries of 8 bytes, each holding how  *)
(* far behind itself its header is, n segment numbers, and the headers.    *)
Table(n, i, behind) == (10 * n - 8 * (i - 1) + behind) % Word

ExpressSegment ==
  LET n == Len(segments)
      length == ExpressCount + HeadersUpTo(n) + 10 * n
  IN
  [at |-> 0, segnum |-> 1, length |-> length,
   bytecount |-> HeaderSize + LoadNameSize + ExpressName + ExpressFixed + length,
   table |-> [i \in 1 .. n |-> Table(n, i, HeadersUpTo(i - 1))],
   map |-> [i \in 1 .. n |-> segments[i].segnum]]

WriteExpress ==
  /\ step = "segments"
  /\ ~file.object
  /\ Len(written) = Len(segments)
  /\ lead' = IF Express THEN <<ExpressSegment>> ELSE <<>>
  /\ step' = "closed"
  /\ Returns
  /\ UNCHANGED <<file, segments, offset, written, entries>>

FileNext ==
  /\ exited = Running
  /\ Open \/ OpenFails \/ WriteSegment \/ WriteObject \/ WriteExpress

FileSpec == FileInit /\ [][FileNext]_fileVars
-----------------------------------------------------------------------------
Complete == step = "closed" /\ exited = Running

(* A loader goes from a segment to the next one by its byte count.         *)
Following(header) ==
  header.at + IF file.version = 1 THEN Block * header.bytecount ELSE header.bytecount

InFile == lead \o written

NamesFit == \A i \in DOMAIN segments : segments[i].name < 256

(* A loader that walks the file from its start comes to every segment, and *)
(* the last one ends the file - as long as names fit their length byte, and*)
(* but for the block too many behind a version 1 segment that fills its    *)
(* last block (PaddedToBlock below).                                       *)
SegmentsInSequence ==
  Complete /\ NamesFit =>
    /\ InFile[1].at = 0
    /\ \A i \in 1 .. Len(InFile) - 1 :
         \/ InFile[i + 1].at = Following(InFile[i])
         \/ file.version = 1 /\ InFile[i].bytes % Block = 0
             /\ InFile[i + 1].at = Following(InFile[i]) + Block
    /\ offset <= Following(InFile[Len(InFile)])

(* The express segment tells of every segment where its data and its       *)
(* relocations are: behind the LCONST of its body, and behind the data.    *)
(* Its table leads to the header of each, as far as 16 bits go.  The space *)
(* reserved behind the data, part of the LCONST, is not asked for again.   *)
ExpressTells ==
  Complete /\ Express =>
    \A i \in DOMAIN written :
      LET data == written[i].at + written[i].dispdata + 5
          told == entries[i]
          header == 10 * Len(written) + HeadersUpTo(i - 1)
      IN
      /\ told.lconst_size > 0 => told.lconst_mark = data
      /\ told.reloc_size > 0 => told.reloc_mark = data + told.lconst_size
      /\ told.lconst_size + told.reloc_size + 6 = Following(written[i]) - (data - 5)
      /\ header < Word => 8 * (i - 1) + lead[1].table[i] = header
      /\ told.lconst_size + written[i].reserved = written[i].length

(* A segment is known by its place in the file, and a reference to another *)
(* segment names the place of the one that it named before the renumbering *)
(* made room for the express segment.  (A number that stood for a segment  *)
(* of an earlier file may name none.)                                      *)
NumbersArePlaces ==
  Complete /\ ~file.object =>
    \A i \in DOMAIN written :
      /\ InFile[Len(lead) + i].segnum = Len(lead) + i
      /\ \A t \in file.segments[i].targets \cap DOMAIN written :
           \E u \in written[i].targets :
             u \in DOMAIN InFile /\ InFile[u] = written[t]
      /\ lead # <<>> => lead[1].map[i] = written[i].segnum
-----------------------------------------------------------------------------
(* "version 1 needs 512-byte padding for all but final segment"            *)
(* (omf.cpp:674): a segment starts at the block behind the one before.     *)
PaddedToBlock ==
  Complete /\ file.version = 1 =>
    \A i \in 1 .. Len(written) - 1 : written[i + 1].at = Following(written[i])
=============================================================================
