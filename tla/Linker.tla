------------------------------- MODULE Linker -------------------------------
(***************************************************************************)
(* The linker of link.cpp: the segments being built, their pending         *)
(* relocations, and the operations that evaluate() and process_files()     *)
(* perform on them.  A call is one action; it may come in any order, as    *)
(* the lines of a command file may.                                        *)
(*                                                                         *)
(* Bytes are not modelled: a segment has a size, the files placed in it    *)
(* and the references it holds.  The vectors of relocations are sets, so   *)
(* the sorts that end resolve() have no counterpart.                       *)
(***************************************************************************)
EXTENDS Process, SymbolTable, Placement

CONSTANTS
  Outputs,       \* paths that SAV names
  OutputOption,  \* paths that -o names
  Operands,      \* [opcode with a number -> the numbers it is given]
  Defined,       \* names that the command file defines
  MaxBank,       \* 65535, what a segment of kind 1 may hold
  EncodedSizes,  \* sizes that finish3() may leave a segment with
  MaxSegments,   \* bound on the segments ever made
  MaxLinks       \* bound on lnk, the files linked and imported

VARIABLES
  script,        \* main(): a command file, or a list of REL files?
  segments,      \* sequence of Segment
  relocations,   \* sequence of sets of references, one for each segment
  save_file,     \* path of the next output, NoPath if not chosen
  loadname,      \* load name of the next output, "" if not chosen
  len_var,       \* value of a LEN label: length of the last file
  pos_var,       \* value of a POS label
  settings,      \* lkv, ver, ftype, atype, org
  lnk,           \* files linked and imported
  made,          \* ghost: segments made so far
  written        \* ghost: the files written, in order

progress == <<script, segments, relocations, save_file, loadname, len_var,
              pos_var, settings, lnk, made, written>>
core == <<progress, symbolVars, exited>>
linkerVars == <<core, thrown>>

ASSUME BankAssumption == MaxBank \in Nat /\ EncodedSizes \subseteq Nat

(* Operands are unsigned numbers.                                          *)
ASSUME ScriptAssumption ==
  /\ \A op \in {"LKV", "VER", "TYP", "ADR", "ORG", "KND", "ALI", "DS", "GEQ"} :
       Operands[op] \subseteq Nat
  /\ Defined \subseteq Names

NoPath == ""
DefaultPath == "omf.out"

(* omf::segment.  number is a ghost that tells apart every segment ever    *)
(* made, placed one that says which file stands where, and dropped one for *)
(* the references that resolve() found undefined.                          *)
NewSegment(number, index) ==
  [number |-> number, segnum |-> index, kind |-> 4096, org |-> 0,
   alignment |-> 0, reserved_space |-> 0, segname |-> "", loadname |-> "",
   size |-> 0, encoded |-> FALSE, placed |-> {},
   relocs |-> {}, intersegs |-> {}, patches |-> {}, dropped |-> {}]

(* A reference resolved to value in a segment.                             *)
Bound(ref, segment, value) == [ref |-> ref, segment |-> segment, value |-> value]

Current == Len(segments)
Seg == segments[Current]

LinkerInit ==
  /\ script \in BOOLEAN
  /\ SymbolInit
  /\ ProcessInit
  /\ segments = <<NewSegment(1, 1)>>
  /\ relocations = <<{}>>
  /\ save_file \in OutputOption \cup {NoPath}
  /\ loadname = ""
  /\ len_var = 0
  /\ pos_var = 0
  /\ settings = [lkv |-> 1, ver |-> 2, ftype |-> 179, atype |-> 0, org |-> 0]
  /\ lnk = 0
  /\ made = 1
  /\ written = <<>>
-----------------------------------------------------------------------------
(* new_segment(false): one more segment behind segs, and (true): the first *)
(* one of the next output.  The symbols, org and the other settings stay.  *)
AppendSegment(segs, rels) ==
  /\ made < MaxSegments
  /\ made' = made + 1
  /\ segments' = Append(segs, NewSegment(made + 1, Len(segs) + 1))
  /\ relocations' = Append(rels, {})
  /\ len_var' = 0
  /\ pos_var' = 0

(* Variants: the relocations are not cleared; nothing is cleared.          *)
StartOverWithRelocations ==
  /\ AppendSegment(<<>>, relocations)
  /\ save_file' = NoPath

StartOverWithSegments ==
  /\ AppendSegment(segments, relocations)
  /\ save_file' = NoPath

StartOver ==
  /\ AppendSegment(<<>>, <<>>)
  /\ save_file' = NoPath
-----------------------------------------------------------------------------
(* process_labels(): the symbol for a label after the unit's label list.   *)
LabelledUnbased(symbol, label, begin) ==   \* variant: the value is not rebased
  IF label.kind = "external" \/ symbol.defined THEN symbol
  ELSE [symbol EXCEPT !.defined = TRUE, !.absolute = (label.kind = "absolute"),
                      !.value = label.value, !.segment = Seg.segnum,
                      !.home = IF label.kind = "absolute" THEN 0 ELSE Seg.number]

LabelledAgain(symbol, label, begin) ==   \* variant: duplicates are not noticed
  IF label.kind = "external" THEN symbol
  ELSE [symbol EXCEPT !.defined = TRUE, !.absolute = (label.kind = "absolute"),
                      !.value = label.value + begin, !.segment = Seg.segnum,
                      !.home = IF label.kind = "absolute" THEN 0 ELSE Seg.number]

Labelled(symbol, label, begin) ==
  IF label.kind = "external" \/ symbol.defined THEN symbol
  ELSE IF label.kind = "absolute"
  THEN [symbol EXCEPT !.defined = TRUE, !.absolute = TRUE,
                      !.value = label.value, !.segment = Seg.segnum]
  ELSE [symbol EXCEPT !.defined = TRUE, !.absolute = FALSE,
                      !.value = label.value + begin, !.segment = Seg.segnum,
                      !.home = Seg.number]

(* A segment after a file was placed behind its data.                      *)
Placed(seg, file, size, links) ==
  [seg EXCEPT !.size = size,
              !.placed = @ \cup {[file |-> file, begin |-> seg.size]},
              !.relocs = @ \cup links]

Internal(ref, begin) == Bound(ref, Seg.segnum, ref.addend + begin)

(* LNK: process_unit().                                                    *)
LinkUnit(u) ==
  LET unit == Rel[u]
      begin == Seg.size
  IN
  /\ unit.ok
  /\ lnk < MaxLinks
  /\ lnk' = lnk + 1
  /\ symbol_table' =
       Inserted([n \in DOMAIN unit.labels |->
                   Labelled(Lookup(n), unit.labels[n], begin)])
  /\ segments' =
       [segments EXCEPT ![Current] =
          Placed(Seg, u, SizeAfter(unit, begin),
                 {Internal(ref, begin) : ref \in ReferencesOf(unit, begin, FALSE)})]
  /\ relocations' =
       [relocations EXCEPT ![Current] = @ \cup ReferencesOf(unit, begin, TRUE)]
  /\ len_var' = unit.len
  /\ pos_var' = pos_var + unit.len
  /\ Returns
  /\ UNCHANGED <<script, save_file, loadname, settings, made, written,
                 local_symbol_table>>

(* The path cannot be opened or is not a REL file: errx(1).                *)
LinkFails(u) ==
  /\ ~Rel[u].ok
  /\ Exits(EX_FATAL)
  /\ UNCHANGED <<progress, symbolVars>>

(* IMP: import().  A defined name is reported and nothing is imported.     *)
Import(b) ==
  LET name == EntryName[basename(b)] IN
  /\ Bin[b].ok
  /\ lnk < MaxLinks
  /\ lnk' = lnk + 1
  /\ IF Lookup(name).defined
     THEN UNCHANGED <<symbol_table, segments, len_var, pos_var>>
     ELSE /\ symbol_table' =
               Inserted([n \in {name} |->
                           [Lookup(n) EXCEPT !.defined = TRUE, !.value = Seg.size,
                                             !.segment = Seg.segnum, !.home = Seg.number]])
          /\ segments' =
               [segments EXCEPT ![Current] = Placed(Seg, b, Seg.size + Bin[b].len, {})]
          /\ len_var' = Bin[b].len
          /\ pos_var' = pos_var + Bin[b].len
  /\ Returns
  /\ UNCHANGED <<script, relocations, save_file, loadname, settings, made, written,
                 local_symbol_table>>

ImportFails(b) ==
  /\ ~Bin[b].ok
  /\ Exits(EX_FATAL)
  /\ UNCHANGED <<progress, symbolVars>>
-----------------------------------------------------------------------------
(* resolve(): the segments are done in order, up to the first one of kind  *)
(* 1 that is too large for a bank, where it throws.                        *)
TooLarge(seg) == seg.kind % 2 = 1 /\ seg.size > MaxBank

Reached(segs) == {ix \in DOMAIN segs : \A j \in 1 .. ix : ~TooLarge(segs[j])}

AllReached(segs) == \A ix \in DOMAIN segs : ~TooLarge(segs[ix])

Undefined(pending) == {ref \in pending : ~Lookup(ref.sym).defined}
Absolute(pending) ==
  {ref \in pending : Lookup(ref.sym).defined /\ Lookup(ref.sym).absolute}
Relocatable(pending) == pending \ (Undefined(pending) \cup Absolute(pending))

(* A reference to a relocatable symbol, moved to where the symbol is.      *)
LinkWithoutValue(ref) ==   \* variant: only the addend
  Bound(ref, Lookup(ref.sym).segment, ref.addend)

Link(ref) ==
  Bound(ref, Lookup(ref.sym).segment, ref.addend + Lookup(ref.sym).value)

LinksOf(pending, segnum, same) ==
  {Link(ref) : ref \in {r \in Relocatable(pending) :
                         (Lookup(r.sym).segment = segnum) = same}}

(* value >>= shift, written over the field.                                *)
Patch(ref) ==
  Bound(ref, 0, (ref.addend + Lookup(ref.sym).value) \div 2 ^ ref.shift)

ResolvedSegment(seg, pending, allow_unresolved) ==
  [seg EXCEPT
     !.patches = @ \cup {Patch(ref) : ref \in Absolute(pending)},
     !.relocs = @ \cup LinksOf(pending, seg.segnum, TRUE),
     !.intersegs = @ \cup LinksOf(pending, seg.segnum, FALSE),
     !.dropped = @ \cup IF allow_unresolved THEN {} ELSE Undefined(pending)]

Resolved(segs, rels, allow_unresolved) ==
  [ix \in DOMAIN segs |->
     IF ix \in Reached(segs)
     THEN ResolvedSegment(segs[ix], rels[ix], allow_unresolved)
     ELSE segs[ix]]

UnresolvedKept(segs, rels, allow_unresolved) == rels   \* variant: nothing erased

Unresolved(segs, rels, allow_unresolved) ==
  [ix \in DOMAIN segs |->
     IF ix \notin Reached(segs) THEN rels[ix]
     ELSE IF allow_unresolved THEN Undefined(rels[ix]) ELSE {}]

CodeExceedsBank == "code exceeds bank"

(* resolve() has thrown: what it did to the segments before stays.         *)
ResolveThrows(segs, rels, allow_unresolved) ==
  /\ ~AllReached(segs)
  /\ segments' = Resolved(segs, rels, allow_unresolved)
  /\ relocations' = Unresolved(segs, rels, allow_unresolved)
  /\ Throws(CodeExceedsBank)
  /\ UNCHANGED <<len_var, pos_var, made, written>>
-----------------------------------------------------------------------------
(* Writing a file: it is written and typed, or the program exits because   *)
(* the path cannot be opened (nothing is written), or because the type     *)
(* cannot be set (the file is there).                                      *)
OutputPath(path) == IF path = NoPath THEN DefaultPath ELSE path

Writes(path, form, segs, unresolved, ftype, atype) ==
  written' = Append(written, [path |-> OutputPath(path), form |-> form,
                              segs |-> segs, unresolved |-> unresolved,
                              ver |-> settings.ver, ftype |-> ftype, atype |-> atype])

SaveFails ==
  /\ exited' \in {EX_CANTCREAT, EX_OSERR}
  /\ thrown' = Quiet
  /\ UNCHANGED <<segments, relocations, len_var, pos_var, made>>

(* finish() over the segments segs: a binary holds the last one, an OMF    *)
(* file all of them.                                                       *)
FinishWritesLast(path, segs, rels) ==   \* variant: the last segment, always
  Writes(path, IF settings.lkv = 0 THEN "bin" ELSE "omf",
         <<Resolved(segs, rels, FALSE)[Len(segs)]>>, {}, settings.ftype, settings.atype)

FinishWrites(path, segs, rels) ==
  LET done == Resolved(segs, rels, FALSE) IN
  IF settings.lkv = 0
  THEN Writes(path, "bin", <<done[Len(done)]>>, {}, settings.ftype, settings.atype)
  ELSE Writes(path, "omf", done, {}, settings.ftype, settings.atype)

FinishFails(path, segs, rels) ==
  /\ AllReached(segs)
  /\ SaveFails
  /\ IF exited' = EX_OSERR THEN FinishWrites(path, segs, rels) ELSE UNCHANGED written

Finish(path, segs, rels) ==
  /\ AllReached(segs)
  /\ FinishWrites(path, segs, rels)
  /\ Returns

(* finish3(): the object file is laid out by walking the segment, which    *)
(* throws unless everything has a place of its own (ObjectFile).  The      *)
(* labels are those of every symbol that is not absolute, the fields those *)
(* of the relocations left.                                                *)
Offsets ==
  {symbol_table[n].value : n \in {m \in DOMAIN symbol_table :
                                   /\ symbol_table[m].defined
                                   /\ ~symbol_table[m].absolute}}

Placeable(seg, unresolved) ==
  Fits(seg.size, Offsets, unresolved, {link.ref : link \in seg.relocs})

LastPlaceable(segs, rels) ==
  Placeable(Resolved(segs, rels, TRUE)[Len(segs)],
            Unresolved(segs, rels, TRUE)[Len(segs)])

OBJ == 177   \* 0xb1

(* Variants: the relocations left are not written; the first segment is.   *)
Finish3WritesResolved(path, segs, rels) ==
  Writes(path, "object", <<Resolved(segs, rels, TRUE)[Len(segs)]>>, {}, OBJ, 0)

Finish3WritesFirst(path, segs, rels) ==
  Writes(path, "object", <<Resolved(segs, rels, TRUE)[1]>>,
         Unresolved(segs, rels, TRUE)[1], OBJ, 0)

Finish3Writes(path, segs, rels) ==
  Writes(path, "object", <<Resolved(segs, rels, TRUE)[Len(segs)]>>,
         Unresolved(segs, rels, TRUE)[Len(segs)], OBJ, 0)

Finish3Fails(path, segs, rels) ==
  /\ AllReached(segs)
  /\ LastPlaceable(segs, rels)
  /\ SaveFails
  /\ IF exited' = EX_OSERR THEN Finish3Writes(path, segs, rels) ELSE UNCHANGED written

Finish3(path, segs, rels) ==
  /\ AllReached(segs)
  /\ LastPlaceable(segs, rels)
  /\ Finish3Writes(path, segs, rels)
  /\ Returns

(* "label offset error" or "relocation offset error": the segment has been *)
(* overwritten with its encoding, which is longer, before the throw.       *)
OffsetError == "label or relocation offset error"

Finish3Throws(segs, rels) ==
  /\ AllReached(segs)
  /\ ~LastPlaceable(segs, rels)
  /\ \E size \in EncodedSizes :
       /\ size > segs[Len(segs)].size
       /\ segments' = [Resolved(segs, rels, TRUE) EXCEPT ![Len(segs)] =
                         [@ EXCEPT !.size = size, !.encoded = TRUE]]
  /\ relocations' = Unresolved(segs, rels, TRUE)
  /\ Throws(OffsetError)
  /\ UNCHANGED <<len_var, pos_var, made, written>>
-----------------------------------------------------------------------------
(* SAV.  The first path since the last output is the file's; the load name *)
(* is the first one ever.                                                  *)
Target(path) == IF save_file = NoPath THEN path ELSE save_file
LoadName(path) == IF loadname = "" THEN basename(path) ELSE loadname

Named(path) ==
  IF settings.lkv = 0 THEN segments
  ELSE [segments EXCEPT ![Current] =
          [@ EXCEPT !.segname = basename(path), !.loadname = LoadName(path)]]

Sav(path) ==
  LET segs == Named(path) IN
  /\ loadname' = LoadName(path)
  /\ \/ /\ settings.lkv \in {0, 1}
        /\ \/ Finish(Target(path), segs, relocations) /\ StartOver
           \/ FinishFails(Target(path), segs, relocations) /\ save_file' = Target(path)
           \/ ResolveThrows(segs, relocations, FALSE) /\ save_file' = Target(path)
     \/ /\ settings.lkv = 2
        /\ AppendSegment(segs, relocations)
        /\ save_file' = Target(path)
        /\ Returns
        /\ UNCHANGED written
     \/ /\ settings.lkv = 3
        /\ \/ Finish3(Target(path), segs, relocations) /\ StartOver
           \/ Finish3Fails(Target(path), segs, relocations) /\ save_file' = Target(path)
           \/ Finish3Throws(segs, relocations) /\ save_file' = Target(path)
           \/ ResolveThrows(segs, relocations, TRUE) /\ save_file' = Target(path)
  /\ UNCHANGED <<script, settings, lnk, symbolVars>>

(* END.  The multi-segment linker drops the segment the last SAV opened,   *)
(* whatever it holds, and writes the others.                               *)
Everything(seq) == seq   \* variant: no pop_back()
AllButLast(seq) == SubSeq(seq, 1, Len(seq) - 1)

EndLink ==
  LET segs == AllButLast(segments)
      rels == AllButLast(relocations)
  IN
  /\ IF settings.lkv # 2
     THEN /\ Returns
          /\ UNCHANGED <<segments, relocations, save_file, len_var, pos_var, made, written>>
     ELSE \/ segs = <<>> /\ StartOver /\ Returns /\ UNCHANGED written
          \/ segs # <<>> /\ Finish(save_file, segs, rels) /\ StartOver
          \/ segs # <<>> /\ FinishFails(save_file, segs, rels) /\ UNCHANGED save_file
          \/ segs # <<>> /\ ResolveThrows(segs, rels, FALSE) /\ UNCHANGED save_file
  /\ UNCHANGED <<script, loadname, settings, lnk, symbolVars>>

(* process_files(): what follows the last REL file of the command line.    *)
(* An exception of finish() would not be caught, but no segment has kind 1 *)
(* there.                                                                  *)
FinishFiles ==
  /\ Seg.placed # {}
  /\ \/ /\ AllReached(segments)
        /\ FinishWrites(save_file, segments, relocations)
        /\ Exits(0)
        /\ UNCHANGED <<segments, relocations, len_var, pos_var, made>>
     \/ FinishFails(save_file, segments, relocations)
  /\ UNCHANGED <<script, save_file, loadname, settings, lnk, symbolVars>>
-----------------------------------------------------------------------------
(* The opcodes that only store their operand.                              *)
Stores(changes) ==
  /\ settings' = changes
  /\ UNCHANGED <<script, relocations, save_file, loadname, len_var, pos_var,
                 lnk, made, written, symbolVars>>

LkvUnchecked(value) ==   \* variant: any version is taken
  Stores([settings EXCEPT !.lkv = value]) /\ UNCHANGED segments /\ Returns

Lkv(value) ==
  IF value \in 0..3
  THEN Stores([settings EXCEPT !.lkv = value]) /\ UNCHANGED segments /\ Returns
  ELSE Stores(settings) /\ UNCHANGED segments /\ Throws("bad linker version")

VerStoredFirst(value) ==   \* variant: checked after it is stored
  /\ Stores([settings EXCEPT !.ver = value])
  /\ UNCHANGED segments
  /\ IF value \in 1..2 THEN Returns ELSE Throws("bad OMF version")

Ver(value) ==
  IF value \in 1..2
  THEN Stores([settings EXCEPT !.ver = value]) /\ UNCHANGED segments /\ Returns
  ELSE Stores(settings) /\ UNCHANGED segments /\ Throws("bad OMF version")

Typ(value) ==
  Stores([settings EXCEPT !.ftype = value]) /\ UNCHANGED segments /\ Returns

Adr(value) ==
  Stores([settings EXCEPT !.atype = value]) /\ UNCHANGED segments /\ Returns

Org(value) ==
  /\ Stores([settings EXCEPT !.org = value, !.atype = value])
  /\ segments' = [segments EXCEPT ![Current].org = value]
  /\ Returns

KndFirst(value) ==   \* variant: front() for back()
  /\ Stores(settings)
  /\ segments' = [segments EXCEPT ![1].kind = value]
  /\ Returns

Knd(value) ==
  /\ Stores(settings)
  /\ segments' = [segments EXCEPT ![Current].kind = value]
  /\ Returns

(* ~(align & (align - 1)), short of 2^31, beyond the integers of TLC.        *)
PowerOfTwoOrZero(value) == value = 0 \/ \E k \in 0..30 : value = 2^k

Ali(value) ==
  /\ Stores(settings)
  /\ IF PowerOfTwoOrZero(value)
     THEN segments' = [segments EXCEPT ![Current].alignment = value] /\ Returns
     ELSE UNCHANGED segments /\ Throws("Bad alignment")

Ds(value) ==
  /\ Stores(settings)
  /\ segments' = [segments EXCEPT ![Current].reserved_space = value]
  /\ Returns
-----------------------------------------------------------------------------
(* The opcodes that define a name or read one.                             *)
DefineLabel(name, value, type) ==
  /\ Define(name, value, type)
  /\ Returns
  /\ UNCHANGED progress

Equ(name, value) == DefineLabel(name, value, LBL_EQU)
Eq(name, value) == DefineLabel(name, value, LBL_EQ)
Geq(name, value) == DefineLabel(name, value, LBL_GEQ)
LenLabel(name) == DefineLabel(name, len_var, LBL_LEN)
PosLabel(name) == DefineLabel(name, pos_var, LBL_POS)

(* KBD: the user is not asked for a name the command file already has.     *)
Kbd(name, value) ==
  IF name \in DOMAIN local_symbol_table
  THEN Returns /\ UNCHANGED <<progress, symbolVars>>
  ELSE DefineLabel(name, value, LBL_KBD)

PosReset ==
  /\ pos_var' = 0
  /\ Returns
  /\ UNCHANGED <<script, segments, relocations, save_file, loadname, len_var,
                 settings, lnk, made, written, symbolVars>>

Ext(name) ==
  IF Known(name) /\ symbol_table[name].absolute
  THEN DefineLabel(name, symbol_table[name].value, LBL_EXT)
  ELSE Throws("Bad address") /\ UNCHANGED <<progress, symbolVars>>
-----------------------------------------------------------------------------
LinkAny == \E u \in Units : LinkUnit(u) \/ LinkFails(u)

ScriptCall ==
  \/ \E b \in Binaries : Import(b) \/ ImportFails(b)
  \/ \E path \in Outputs : Sav(path)
  \/ EndLink
  \/ \E value \in Operands["LKV"] : Lkv(value)
  \/ \E value \in Operands["VER"] : Ver(value)
  \/ \E value \in Operands["TYP"] : Typ(value)
  \/ \E value \in Operands["ADR"] : Adr(value)
  \/ \E value \in Operands["ORG"] : Org(value)
  \/ \E value \in Operands["KND"] : Knd(value)
  \/ \E value \in Operands["ALI"] : Ali(value)
  \/ \E value \in Operands["DS"] : Ds(value)
  \/ \E name \in Defined : LenLabel(name) \/ PosLabel(name) \/ Ext(name)
  \/ \E name \in Defined, value \in Operands["GEQ"] :
        Equ(name, value) \/ Eq(name, value) \/ Geq(name, value) \/ Kbd(name, value)
  \/ PosReset

LinkerNext ==
  /\ exited = Running
  /\ \/ LinkAny
     \/ script /\ ScriptCall
     \/ ~script /\ FinishFiles

LinkerSpec == LinkerInit /\ [][LinkerNext]_linkerVars
=============================================================================
