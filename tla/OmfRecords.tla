----------------------------- MODULE OmfRecords -----------------------------
(***************************************************************************)
(* add_relocs(): the relocations of a segment become OMF records behind    *)
(* its data.  Those that can be are gathered in SUPER records, lists of    *)
(* offsets by page, and their values are written into the data.            *)
(*                                                                         *)
(* A byte has Radix values: 256 in the program.  The patch lists, the cuts *)
(* to 8 and 16 bits and the bit that marks a skip scale with it.           *)
(***************************************************************************)
EXTENDS Sums

CONSTANTS
  Radix,           \* 256, an even number
  SuperSegments,   \* 12, the segments SUPER has a list for
  Segnums,         \* numbers of the segment
  Fixups           \* what a segment may have, and a bound on how many:
                   \* [relocs : sets of [offset, size, shift, value],
                   \*  intersegs : the same with a segment, most]

VARIABLES
  segnum,       \* number of the segment
  fixups,       \* which of Fixups the segment has
  super,        \* SUPER allowed (-C not given, version 2)
  relocs,       \* seg.relocs up to the one just added, in order
  intersegs,    \* seg.intersegs up to the one just added, in order
  helpers,      \* ss: [index of a list -> its super_helper]
  image,        \* the bytes written into the data of the segment
  body,         \* the records behind it
  reloc_size,   \* what add_relocs() returns
  stage         \* "relocs", "intersegs", "flush", "done"

vars == <<segnum, fixups, super, relocs, intersegs, helpers, image, body, reloc_size, stage>>

ASSUME RadixAssumption == Radix \in Nat /\ Radix > 2 /\ Radix % 2 = 0

Field(r) ==
  r.offset \in Nat /\ r.size \in Nat \ {0} /\ r.shift \in Nat /\ r.value \in Nat

(* Segments are numbered from 1.                                           *)
ASSUME FixupAssumption ==
  /\ SuperSegments \in 1 .. 12
  /\ Segnums \subseteq Nat \ {0}
  /\ \A f \in Fixups :
       /\ \A r \in f.relocs : Field(r)
       /\ \A r \in f.intersegs : Field(r) /\ r.segment \in Nat \ {0}

SkipFlag == Radix \div 2              \* 0x80
MaxSkip == SkipFlag - 1               \* 0x7f
TwoBytes == Radix * Radix             \* one more than 0xffff

MinusSixteen == 240                   \* 0xf0

(* The lists: SUPER_RELOC2 and the others, by their number.                *)
SUPER_RELOC2 == 0
SUPER_RELOC3 == 1
SUPER_INTERSEG1 == 2
SUPER_INTERSEG12 == 13
SUPER_INTERSEG24 == 25
-----------------------------------------------------------------------------
(* super_helper: one patch list.  A page is a count byte, one less than    *)
(* the number of offsets behind it; skipped pages are bytes of SkipFlag    *)
(* and up to MaxSkip.                                                      *)
NewHelper == [data |-> <<>>, page |-> 0, count |-> 0]

SkipsToTheFlag(skip) ==   \* variant: > for >=, and the flag over the rest
  LET full == IF skip > SkipFlag THEN (skip - 2) \div MaxSkip ELSE 0
  IN IF skip = 0 THEN <<>>
     ELSE [i \in 1 .. full + 1 |->
             IF i <= full THEN Radix - 1
             ELSE SkipFlag + ((skip - full * MaxSkip) % SkipFlag)]

Skips(skip) ==
  LET full == (skip - 1) \div MaxSkip
  IN IF skip = 0 THEN <<>>
     ELSE [i \in 1 .. full + 1 |->
             IF i <= full THEN Radix - 1 ELSE SkipFlag + (skip - full * MaxSkip)]

Added(h, offset) ==
  LET page == offset \div Radix IN
  IF page = h.page /\ h.count > 0
  THEN [h EXCEPT !.data = Append([h.data EXCEPT ![Len(h.data) - h.count] = h.count],
                                 offset % Radix),
                 !.count = h.count + 1]
  ELSE LET skip == page - h.page - IF h.count > 0 THEN 1 ELSE 0 IN
       [data |-> h.data \o Skips(skip) \o <<0, offset % Radix>>, page |-> page, count |-> 1]
-----------------------------------------------------------------------------
(* can_compress(): offset and value fit 16 bits, the segment 8.            *)
CanCompress(r) == r.offset < TwoBytes /\ r.value < TwoBytes
CanCompressInterseg(r) == CanCompress(r) /\ r.segment < Radix

(* The list a relocation goes to, if any.                                  *)
RelocLists(r) ==
  IF ~super \/ ~CanCompress(r) THEN {}
  ELSE IF r.shift = 0 /\ r.size = 2 THEN {SUPER_RELOC2}
  ELSE IF r.shift = 0 /\ r.size = 3 THEN {SUPER_RELOC3}
  ELSE IF segnum <= SuperSegments /\ r.shift = MinusSixteen /\ r.size = 2
       THEN {SUPER_INTERSEG24 + segnum}
  ELSE {}

IntersegLists(r) ==
  IF ~super \/ ~CanCompressInterseg(r) THEN {}
  ELSE IF r.shift = 0 /\ r.size = 3 THEN {SUPER_INTERSEG1}
  ELSE IF r.shift = 0 /\ r.size = 2 /\ r.segment <= SuperSegments
       THEN {SUPER_INTERSEG12 + r.segment}
  ELSE IF r.shift = MinusSixteen /\ r.size = 2 /\ r.segment <= SuperSegments
       THEN {SUPER_INTERSEG24 + r.segment}
  ELSE {}

Byte(value, i) == (value \div <<1, Radix, TwoBytes>>[i + 1]) % Radix

(* What SUPER leaves in the data: the value, and the segment behind it in  *)
(* the list of the far ones.                                               *)
Patched(r, list) ==
  [a \in DOMAIN image \cup r.offset .. r.offset + r.size - 1 |->
     IF a < r.offset \/ a >= r.offset + r.size THEN image[a]
     ELSE IF list = SUPER_INTERSEG1 /\ a = r.offset + 2 THEN r.segment % Radix
     ELSE Byte(r.value, a - r.offset)]

Gather(r, list) ==
  /\ helpers' = [l \in DOMAIN helpers \cup {list} |->
                   IF l = list
                   THEN Added(IF list \in DOMAIN helpers THEN helpers[list] ELSE NewHelper,
                              r.offset)
                   ELSE helpers[l]]
  /\ image' = Patched(r, list)
  /\ UNCHANGED <<body, reloc_size>>

Emit(record, bytes) ==
  /\ body' = Append(body, record)
  /\ reloc_size' = reloc_size + bytes
  /\ UNCHANGED <<helpers, image>>

(* cRELOC, RELOC.                                                          *)
AddReloc(r) ==
  \/ \E list \in RelocLists(r) : Gather(r, list)
  \/ /\ RelocLists(r) = {}
     /\ LET record == [op |-> "RELOC", size |-> r.size, shift |-> r.shift,
                       offset |-> r.offset, value |-> r.value, segment |-> segnum]
        IN IF CanCompress(r) THEN Emit([record EXCEPT !.op = "cRELOC"], 7)
           ELSE Emit(record, 11)

(* cINTERSEG, INTERSEG: all are to file 1.                                 *)
AddInterseg(r) ==
  \/ \E list \in IntersegLists(r) : Gather(r, list)
  \/ /\ IntersegLists(r) = {}
     /\ LET record == [op |-> "INTERSEG", size |-> r.size, shift |-> r.shift,
                       offset |-> r.offset, value |-> r.value, segment |-> r.segment]
        IN IF CanCompressInterseg(r) THEN Emit([record EXCEPT !.op = "cINTERSEG"], 8)
           ELSE Emit(record, 15)
-----------------------------------------------------------------------------
Init ==
  /\ segnum \in Segnums
  /\ fixups \in Fixups
  /\ super \in BOOLEAN
  /\ relocs = <<>>
  /\ intersegs = <<>>
  /\ helpers = [l \in {} |-> NewHelper]
  /\ image = [a \in {} |-> 0]
  /\ body = <<>>
  /\ reloc_size = 0
  /\ stage = "relocs"

Given == {relocs[i] : i \in DOMAIN relocs} \cup {intersegs[i] : i \in DOMAIN intersegs}

Unsorted(r, seq) == r.offset >= 0   \* variant: resolve() does not sort

(* resolve() sorts both vectors.                                           *)
Follows(r, seq) == \A i \in DOMAIN seq : seq[i].offset <= r.offset

(* The fields of a segment are apart, but for the byte of an external DDB  *)
(* that is relocated twice.                                                *)
Free(r) ==
  \A g \in Given :
    \/ g.offset + g.size <= r.offset
    \/ r.offset + r.size <= g.offset
    \/ g = r /\ r.size = 1

NextReloc(r) ==
  /\ stage = "relocs"
  /\ Len(relocs) < fixups.most
  /\ Follows(r, relocs) /\ Free(r)
  /\ relocs' = Append(relocs, r)
  /\ AddReloc(r)
  /\ UNCHANGED <<segnum, fixups, super, intersegs, stage>>

(* A relocation to the segment itself is never an interseg (resolve).      *)
NextInterseg(r) ==
  /\ stage \in {"relocs", "intersegs"}
  /\ Len(relocs) + Len(intersegs) < fixups.most
  /\ Follows(r, intersegs) /\ Free(r)
  /\ r.segment # segnum
  /\ intersegs' = Append(intersegs, r)
  /\ stage' = "intersegs"
  /\ AddInterseg(r)
  /\ UNCHANGED <<segnum, fixups, super, relocs>>

Super(list) ==
  [op |-> "SUPER", length |-> Len(helpers[list].data) + 1, list |-> list,
   data |-> helpers[list].data]

FlushBareLists ==   \* variant: the size of the lists, not of the records
  /\ stage # "done"
  /\ \E list \in DOMAIN helpers :
       /\ \A l \in DOMAIN helpers : list <= l
       /\ body' = Append(body, Super(list))
       /\ reloc_size' = reloc_size + Len(helpers[list].data)
       /\ helpers' = [l \in DOMAIN helpers \ {list} |-> helpers[l]]
  /\ stage' = "flush"
  /\ UNCHANGED <<segnum, fixups, super, relocs, intersegs, image>>

(* The lists go out in the order of their numbers.                         *)
Flush ==
  /\ stage # "done"
  /\ \E list \in DOMAIN helpers :
       /\ \A l \in DOMAIN helpers : list <= l
       /\ body' = Append(body, Super(list))
       /\ reloc_size' = reloc_size + Len(helpers[list].data) + 6
       /\ helpers' = [l \in DOMAIN helpers \ {list} |-> helpers[l]]
  /\ stage' = "flush"
  /\ UNCHANGED <<segnum, fixups, super, relocs, intersegs, image>>

Done ==
  /\ stage # "done"
  /\ DOMAIN helpers = {}
  /\ stage' = "done"
  /\ UNCHANGED <<segnum, fixups, super, relocs, intersegs, helpers, image, body, reloc_size>>

Next ==
  \/ \E r \in fixups.relocs : NextReloc(r)
  \/ \E r \in fixups.intersegs : NextInterseg(r)
  \/ Flush
  \/ Done

Spec == Init /\ [][Next]_vars
-----------------------------------------------------------------------------
(* A loader reads a patch list byte by byte: left offsets of a page are to *)
(* come, or a count or a skip.                                             *)
Reads(at, byte) ==
  IF at.left > 0
  THEN [left |-> at.left - 1, page |-> IF at.left = 1 THEN at.page + 1 ELSE at.page]
  ELSE IF byte >= SkipFlag
  THEN [left |-> 0, page |-> at.page + byte - SkipFlag]
  ELSE [left |-> byte + 1, page |-> at.page]

Reader(data) ==
  LET after[k \in 0 .. Len(data)] ==
        IF k = 0 THEN [left |-> 0, page |-> 0] ELSE Reads(after[k - 1], data[k])
  IN after

Offsets(data) ==
  {Reader(data)[k - 1].page * Radix + data[k] :
     k \in {i \in DOMAIN data : Reader(data)[i - 1].left > 0}}

At(a) == IF a \in DOMAIN image THEN image[a] ELSE 0

Value(offset, size) ==
  At(offset) + Radix * At(offset + 1) + IF size = 3 THEN TwoBytes * At(offset + 2) ELSE 0

Fixup(offset, size, shift, value, segment) ==
  [offset |-> offset, size |-> size, shift |-> shift, value |-> value,
   segment |-> segment]

(* What the loader takes the offset in a list for.                         *)
FromList(list, offset) ==
  IF list = SUPER_RELOC2 THEN Fixup(offset, 2, 0, Value(offset, 2), segnum)
  ELSE IF list = SUPER_RELOC3 THEN Fixup(offset, 3, 0, Value(offset, 3), segnum)
  ELSE IF list = SUPER_INTERSEG1
       THEN Fixup(offset, 3, 0, Value(offset, 2), At(offset + 2))
  ELSE IF list <= SUPER_INTERSEG24
       THEN Fixup(offset, 2, 0, Value(offset, 2), list - SUPER_INTERSEG12)
  ELSE Fixup(offset, 2, MinusSixteen, Value(offset, 2), list - SUPER_INTERSEG24)

Loaded(record) ==
  IF record.op = "SUPER"
  THEN {FromList(record.list, offset) : offset \in Offsets(record.data)}
  ELSE {Fixup(record.offset, record.size, record.shift, record.value, record.segment)}

(* What the linker meant.                                                  *)
Meant ==
  {Fixup(relocs[i].offset, relocs[i].size, relocs[i].shift, relocs[i].value, segnum) :
     i \in DOMAIN relocs}
  \cup {Fixup(intersegs[i].offset, intersegs[i].size, intersegs[i].shift,
              intersegs[i].value, intersegs[i].segment) : i \in DOMAIN intersegs}

(* The loader sees the relocations of the segment, each with its value and *)
(* its segment, and no other, whichever records they were packed in.       *)
LoaderSeesRelocations ==
  stage = "done" => UNION {Loaded(body[i]) : i \in DOMAIN body} = Meant

(* The bytes of a record: an opcode, and its fields.                       *)
FieldBytes ==
  [RELOC |-> 1 + 1 + 1 + 4 + 4, cRELOC |-> 1 + 1 + 1 + 2 + 2,
   INTERSEG |-> 1 + 1 + 1 + 4 + 2 + 2 + 4, cINTERSEG |-> 1 + 1 + 1 + 2 + 1 + 2]

Bytes(record) ==
  IF record.op = "SUPER" THEN 1 + 4 + 1 + Len(record.data) ELSE FieldBytes[record.op]

(* The size that goes into the express load segment is that of the records *)
(* behind the data.                                                        *)
SizeIsWritten == reloc_size = Sums([i \in DOMAIN body |-> Bytes(body[i])])[Len(body)]

(* assert(page >= _page): a list is never given an offset before its page, *)
(* though relocations and intersegs are sorted apart and go to lists one   *)
(* after the other.                                                        *)
PagesAscend ==
  [][\A l \in DOMAIN helpers \cap DOMAIN helpers' :
       helpers'[l].page >= helpers[l].page]_vars
=============================================================================
