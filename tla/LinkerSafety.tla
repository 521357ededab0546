---------------------------- MODULE LinkerSafety ----------------------------
(***************************************************************************)
(* What makes the linker correct, whatever the order of its calls.         *)
(***************************************************************************)
EXTENDS Linker

Refs(links) == {link.ref : link \in links}

LabelsOf(file) == DOMAIN Rel[file].labels

(* The offsets in seg where a file placed there defines symbol n.          *)
PlacesOf(n, seg) ==
  {p.begin + Rel[p.file].labels[n].value :
     p \in {q \in seg.placed : /\ q.file \in Units
                               /\ n \in LabelsOf(q.file)
                               /\ Rel[q.file].labels[n].kind = "entry"}}
  \cup {p.begin : p \in {q \in seg.placed : /\ q.file \in Binaries
                                            /\ EntryName[basename(q.file)] = n}}

Numbers(segs) == {segs[ix].number : ix \in DOMAIN segs}
-----------------------------------------------------------------------------
RefRecords ==
  [offset : Nat, size : Nat, shift : Shifts, copy : 1..2,
   sym : Names \cup {Itself}, addend : Int]

Links == [ref : RefRecords, segment : Nat, value : Int]

SegmentNames == {""} \cup {basename(path) : path \in Outputs}

Segments ==
  [number : Nat, segnum : Nat, kind : Int, org : Int, alignment : Int,
   reserved_space : Int, segname : SegmentNames, loadname : SegmentNames, size : Nat,
   encoded : BOOLEAN, placed : SUBSET [file : Units \cup Binaries, begin : Nat],
   relocs : SUBSET Links, intersegs : SUBSET Links, patches : SUBSET Links,
   dropped : SUBSET RefRecords]

(* Every variable has its type, and save_file names an output.             *)
LinkerTypeOK ==
  /\ script \in BOOLEAN
  /\ segments \in Seq(Segments)
  /\ relocations \in Seq(SUBSET RefRecords)
  /\ save_file \in Outputs \cup OutputOption \cup {NoPath}
  /\ loadname \in SegmentNames
  /\ len_var \in Nat
  /\ pos_var \in Nat
  /\ settings \in [lkv : 0..3, ver : 1..2, ftype : Int, atype : Int, org : Int]
  /\ lnk \in Nat
  /\ made \in Nat
  /\ exited \in Statuses
  /\ SymbolTypeOK

(* segments and relocations run in parallel, are never empty when a call   *)
(* takes their back(), and a segment's number in the file is its index.    *)
(* (new_segment, resolve, OP_END, finish)                                  *)
VectorsParallel ==
  /\ Len(segments) >= 1
  /\ Len(relocations) = Len(segments)
  /\ \A ix \in DOMAIN segments : segments[ix].segnum = ix

(* No reference reaches beyond the data of its segment: process_reloc      *)
(* clears, resolve() patches and save_bin() overwrites those bytes         *)
(* without a bounds check.                                                 *)
FieldsInside ==
  \A ix \in DOMAIN segments :
    LET seg == segments[ix] IN
    \A ref \in relocations[ix] \cup Refs(seg.relocs) \cup Refs(seg.intersegs)
               \cup Refs(seg.patches) \cup seg.dropped :
      ref.offset + ref.size <= seg.size

(* The references of a segment, by what has become of them.                *)
Outcomes(seg, pending) ==
  <<pending,
    {ref \in Refs(seg.relocs) : ref.sym # Itself},
    Refs(seg.intersegs), Refs(seg.patches), seg.dropped>>

ExternalsOf(seg) ==
  UNION {ReferencesOf(Rel[p.file], p.begin, TRUE) :
           p \in {q \in seg.placed : q.file \in Units}}

InternalsOf(seg) ==
  UNION {ReferencesOf(Rel[p.file], p.begin, FALSE) :
           p \in {q \in seg.placed : q.file \in Units}}

Accounted(seg, pending) ==
  LET outcome == Outcomes(seg, pending) IN
  /\ UNION {outcome[i] : i \in DOMAIN outcome} = ExternalsOf(seg)
  /\ \A i, j \in DOMAIN outcome : i # j => outcome[i] \cap outcome[j] = {}
  /\ {ref \in Refs(seg.relocs) : ref.sym = Itself} = InternalsOf(seg)

(* Every reference of every file placed in a segment is held in exactly    *)
(* one way - pending, relocated, intersegment, patched, reported undefined *)
(* - in the segments being built and in the files written, even when       *)
(* resolve() was cut short by an exception and is tried again.             *)
ReferencesAccounted ==
  /\ \A ix \in DOMAIN segments : Accounted(segments[ix], relocations[ix])
  /\ \A i \in DOMAIN written : \A ix \in DOMAIN written[i].segs :
       Accounted(written[i].segs[ix], written[i].unresolved)

(* A reference relocated in a written file designates the definition of    *)
(* its symbol - the segment and the offset where the defining file stands  *)
(* - whenever the segment that defines the symbol is in that file.         *)
(* (process_labels, import, resolve)                                       *)
BindsToDefinition ==
  \A i \in DOMAIN written :
    \A k, h \in DOMAIN written[i].segs :
      LET from == written[i].segs[k]
          home == written[i].segs[h]
      IN
      \A link \in from.relocs \cup from.intersegs :
        /\ link.ref.sym # Itself
        /\ symbol_table[link.ref.sym].home = home.number
        => /\ link.segment = home.segnum
           /\ link.value - link.ref.addend \in PlacesOf(link.ref.sym, home)

(* A segment goes into one file at most: nothing that was written is still *)
(* being built, so no unit is linked into the next output a second time.   *)
(* (new_segment(true), finish, finish3)                                    *)
WrittenOnce ==
  /\ \A i, j \in DOMAIN written :
       i # j => Numbers(written[i].segs) \cap Numbers(written[j].segs) = {}
  /\ exited = Running =>
       \A i \in DOMAIN written : Numbers(written[i].segs) \cap Numbers(segments) = {}

(* The first definition of a symbol stays, in both tables, through every   *)
(* later unit, import, define() and output.                                *)
FirstDefinitionStays ==
  [][/\ \A n \in DOMAIN symbol_table :
          symbol_table[n].defined => /\ n \in DOMAIN symbol_table'
                                     /\ symbol_table'[n] = symbol_table[n]
     /\ \A n \in DOMAIN local_symbol_table :
          /\ n \in DOMAIN local_symbol_table'
          /\ local_symbol_table'[n] = local_symbol_table[n]]_linkerVars

(* A segment that holds a file leaves the linker through a written file.   *)
(* The exceptions: END of the multi-segment linker drops the last one, and *)
(* the binary and object linkers write the last one and drop the others.   *)
LeavesWritten ==
  [][\A ix \in DOMAIN segments :
       segments[ix].placed # {} /\ segments[ix].number \notin Numbers(segments') =>
         \/ /\ Len(written') = Len(written) + 1
            /\ segments[ix].number \in Numbers(written'[Len(written')].segs)
         \/ settings.lkv = 2 /\ ix = Len(segments)
         \/ settings.lkv \in {0, 3} /\ ix < Len(segments)]_linkerVars

(* The references of a segment being built that an earlier resolve() found *)
(* undefined, before it threw or its file could not be written.            *)
DroppedBefore(number) ==
  UNION {segments[ix].dropped : ix \in {j \in DOMAIN segments : segments[j].number = number}}

(* A symbol that an output reports undefined, or leaves for the loader of  *)
(* an object file, is defined by no file placed in it.  (resolve)          *)
UndefinedIsUndefined ==
  [][\A i \in DOMAIN written' \ DOMAIN written :
       LET out == written'[i] IN
       \A k, h \in DOMAIN out.segs :
         \A ref \in out.unresolved
                      \cup (out.segs[k].dropped \ DroppedBefore(out.segs[k].number)) :
           PlacesOf(ref.sym, out.segs[h]) = {}]_linkerVars

(* What finish() and finish3() hand to save_bin(), save_omf() and          *)
(* save_object(): an OMF file of at least one segment, in the order of the *)
(* numbers its references go by, or a single segment; and no field that    *)
(* reaches beyond the data, behind which the relocation records are.       *)
HandedOver ==
  \A i \in DOMAIN written :
    LET segs == written[i].segs IN
    /\ IF written[i].form = "omf"
       THEN segs # <<>> /\ \A k \in DOMAIN segs : segs[k].segnum = k
       ELSE Len(segs) = 1
    /\ \A k \in DOMAIN segs :
         \A ref \in Refs(segs[k].relocs) \cup Refs(segs[k].intersegs) \cup written[i].unresolved :
           ref.offset + ref.size <= segs[k].size

(* The attributes given by KND, ORG, ALI, DS and SAV.                      *)
Attributes(seg) ==
  <<seg.kind, seg.org, seg.alignment, seg.reserved_space, seg.segname,
    seg.loadname, seg.placed, seg.size>>

(* A segment that the multi-segment linker has closed keeps its files and  *)
(* its attributes, whatever the lines for the segments behind it say,      *)
(* until it is written.                                                    *)
ClosedSegmentsKeep ==
  [][\A ix \in DOMAIN segments : \A k \in DOMAIN segments' :
       ix < Len(segments) /\ segments'[k].number = segments[ix].number
         => Attributes(segments'[k]) = Attributes(segments[ix])]_linkerVars
-----------------------------------------------------------------------------
(* "expressload doesn't support links to other files. fortunately, we      *)
(* don't either." (omf.cpp:534): a symbol that a written file relocates    *)
(* has its definition in that file.                                        *)
NoLinksToOtherFiles ==
  \A i \in DOMAIN written : \A k \in DOMAIN written[i].segs :
    \A link \in written[i].segs[k].relocs \cup written[i].segs[k].intersegs :
      link.ref.sym # Itself =>
        \E h \in DOMAIN written[i].segs :
          PlacesOf(link.ref.sym, written[i].segs[h]) # {}
=============================================================================
