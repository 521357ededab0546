------------------------------ MODULE RelFile ------------------------------
(***************************************************************************)
(* The input of merlin-link: REL files of the assembler (LNK) and binary   *)
(* files (IMP), and what process_unit() makes of one before any symbol is  *)
(* looked up: which relocation records it honours, where the fields stand  *)
(* and how far a DS fill pads.                                             *)
(*                                                                         *)
(* A relocation record names its symbol here; in the file it holds a slot  *)
(* number that cookie.remap turns into the id of that symbol.  Addends and *)
(* label values are taken after the 0x8000 bias has been removed.          *)
(***************************************************************************)
EXTENDS Integers, Sequences

CONSTANTS
  Names,       \* the symbol names of the units and of the command file
  Units,       \* paths of the REL files
  Rel,         \* [Units -> what process_unit() finds at the path]
  Binaries,    \* paths of the files to import
  Bin,         \* [Binaries -> what import() finds at the path]
  Path,        \* [path -> its parts: dir, "" if none, and file]
  EntryName,   \* [part of a path -> symbol name]
  Page         \* 0x100, the boundary a DS fill pads to

(* label_t kinds: SYMBOL_EXTERNAL, SYMBOL_ENTRY, SYMBOL_ENTRY+ABSOLUTE.    *)
LabelKinds == {"external", "entry", "absolute"}
Label == [kind : LabelKinds, value : Nat]

(* Relocation records: a plain or shifted reference, the big endian DDB,   *)
(* the DS \ fill (0xc0..0xcf) and the ERR \ constraint (0xe0..0xef).       *)
RecordKinds == {"ref", "ddb", "fill", "err"}
Shifts == {0, 8, 16}
Record == [kind : RecordKinds, offset : Nat, size : Nat, shift : Shifts,
           external : BOOLEAN, sym : Names, value : Int]

Fields(records) ==
  {i \in DOMAIN records : records[i].kind \in {"ref", "ddb"}}

(* The assembler emits well-formed files: fields inside the unit and apart *)
(* from each other, external records naming a label of the unit.  (These   *)
(* are the assertions of process_reloc and process_labels.)                *)
WellFormed(unit) ==
  /\ unit.ok \in BOOLEAN
  /\ unit.len \in Nat
  /\ DOMAIN unit.labels \subseteq Names
  /\ unit.labels \in [DOMAIN unit.labels -> Label]
  /\ unit.records \in Seq(Record)
  /\ \A i \in Fields(unit.records) :
       LET rec == unit.records[i] IN
       /\ rec.size \in 1..3
       /\ rec.offset + rec.size <= unit.len
       /\ rec.kind = "ddb" => rec.size = 2
       /\ rec.external => /\ rec.sym \in DOMAIN unit.labels
                         /\ unit.labels[rec.sym].kind = "external"
       /\ \A j \in Fields(unit.records) \ {i} :
            \/ rec.offset + rec.size <= unit.records[j].offset
            \/ unit.records[j].offset + unit.records[j].size <= rec.offset

(* basename(): the part before the last / or :, or all of it if none.      *)
basename(path) == IF Path[path].dir = "" THEN Path[path].file ELSE Path[path].dir

ASSUME PageAssumption == Page \in Nat \ {0}

ASSUME RelAssumption ==
  /\ DOMAIN Rel = Units
  /\ \A u \in Units : WellFormed(Rel[u])

(* A path is directory part ("" if it has no / or :) and file part.        *)
(* EntryName turns either into a symbol: upper case, _ for the rest.       *)
ASSUME BinAssumption ==
  /\ Units \cap Binaries = {}
  /\ DOMAIN Bin = Binaries
  /\ \A b \in Binaries : /\ Bin[b].ok \in BOOLEAN
                         /\ Bin[b].len \in Nat
                         /\ EntryName[basename(b)] \in Names
-----------------------------------------------------------------------------
(* process_reloc() returns at the first DDB, DS or ERR record, after it    *)
(* has done the DDB: these are the records it does.                        *)
Processed(unit) ==
  {i \in Fields(unit.records) :
     \A j \in 1 .. i - 1 : unit.records[j].kind = "ref"}

(* A reference inside the unit is to the unit itself.                      *)
Itself == "unit"

ASSUME ItselfAssumption == Itself \notin Names

(* The references the linker derives from a record of a unit appended at   *)
(* begin.  A DDB gives one for either byte, and an external one pushes the *)
(* high byte twice: copy tells the two apart.                              *)
Reference(rec, begin, at, size, shift, copy) ==
  [offset |-> begin + rec.offset + at, size |-> size, shift |-> shift,
   copy |-> copy, sym |-> IF rec.external THEN rec.sym ELSE Itself,
   addend |-> rec.value]

References(rec, begin) ==
  IF rec.kind = "ddb"
  THEN {Reference(rec, begin, 0, 1, 8, copy) :
          copy \in IF rec.external THEN {1, 2} ELSE {1}}
       \cup {Reference(rec, begin, 1, 1, 0, 1)}
  ELSE {Reference(rec, begin, 0, rec.size, rec.shift, 1)}

ReferencesOf(unit, begin, external) ==
  UNION {References(unit.records[i], begin) :
           i \in {k \in Processed(unit) : unit.records[k].external = external}}

(* process_ds_err(): a DS fill pads the segment to the next page.          *)
PadDown(size) == size - (size % Page)   \* variant: rounds down
PadTo(size) == IF size % Page = 0 THEN size ELSE size + (Page - (size % Page))

Fills(unit) == \E i \in DOMAIN unit.records : unit.records[i].kind = "fill"

(* The size of a segment after the unit was appended at begin.             *)
SizeAfter(unit, begin) ==
  IF Fills(unit) THEN PadTo(begin + unit.len) ELSE begin + unit.len
=============================================================================
