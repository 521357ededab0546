---------------------------- MODULE MCMerlinLink ----------------------------
(***************************************************************************)
(* Small command files for TLC.                                            *)
(***************************************************************************)
EXTENDS MerlinLink

NoOption == [n \in {} |-> 0]

(* Option D: foo is 1 from the command line.                               *)
MCDefines == {NoOption, [n \in {"foo"} |-> 1]}

Ref(offset, size, external, sym) ==
  [kind |-> "ref", offset |-> offset, size |-> size, shift |-> 0,
   external |-> external, sym |-> sym, value |-> 0]

(* main refers to foo, which lib defines; junk is no REL file.             *)
MCRel ==
  [main |-> [ok |-> TRUE, len |-> 4,
             labels |-> [foo |-> [kind |-> "external", value |-> 0]],
             records |-> <<Ref(1, 3, TRUE, "foo")>>],
   lib |-> [ok |-> TRUE, len |-> 3,
            labels |-> [foo |-> [kind |-> "entry", value |-> 2]],
            records |-> <<>>],
   junk |-> [ok |-> FALSE, len |-> 0, labels |-> NoOption, records |-> <<>>]]
MCUnits == {"main", "lib", "junk"}
MCNames == {"foo", "bar", "img", "gone", "S16"}
MCBin == [icon |-> [ok |-> TRUE, len |-> 2], gone |-> [ok |-> FALSE, len |-> 0]]
MCPath == [icon |-> [dir |-> "img", file |-> "icon"],
           gone |-> [dir |-> "", file |-> "gone"],
           out |-> [dir |-> "", file |-> "out"]]
MCEntryName == [img |-> "img", icon |-> "icon", gone |-> "gone"]

NoOperands ==
  [op \in NumberOps |-> {}]

Line(label, op, operand, text, number) ==
  [label |-> label, op |-> op, operand |-> operand, text |-> text, number |-> number]
Bare(op) == Line("", op, "none", "", 0)
Num(op, number) == Line("", op, "number", "", number)
Nam(op, name) == Line("", op, "name", name, 0)
Pth(op, path) == Line("", op, "path", path, 0)
Lab(label, op, number) == Line(label, op, "number", "", number)

(* Blocks around the lines that link and write.                            *)
BlockLines ==
  {Num("DO", 0), Nam("DO", "foo"), Bare("ELS"), Bare("FIN"),
   Pth("LNK", "main"), Pth("LNK", "lib"), Num("LKV", 2), Num("KND", 1),
   Pth("SAV", "out"), Bare("END")}

(* Definitions, settings and every way a line can be rejected.             *)
LabelLines ==
  {Lab("foo", "=", 2), Lab("foo", "GEQ", 3), Lab("foo", "EQU", 4), Lab("bar", "KBD", 5),
   Lab("", "GEQ", 6), Line("foo", "EXT", "none", "", 0), Bare("EXT"),
   Bare("POS"), Nam("POS", "foo"), Pth("POS", "out"), Nam("LEN", "bar"), Bare("LEN"),
   Num("LKV", 2), Num("LKV", 4), Num("VER", 1), Num("VER", 3), Num("TYP", 6),
   Nam("TYP", "S16"), Nam("ADR", "foo"), Nam("ORG", "foo"), Bare("KND"), Num("ALI", 2),
   Num("ALI", 3), Num("DS", 4), Line("", "DS", "bad", "", 0), Bare("?"), Bare("LIB"),
   Pth("IMP", "icon"), Pth("IMP", "gone"), Bare("LNK"), Pth("LNK", "lib"), Pth("LNK", "junk"),
   Line("", "SAV", "bad", "", 0), Bare("ENT"), Bare("PFX"), Bare("OVR"), Pth("OVR", "out"),
   Num("SEG", 7), Line("bar", "KBD", "none", "", 0), Bare("END")}

CONSTANTS BlockLength, LabelLength

MCScripts ==
  {[lines |-> BlockLines, length |-> BlockLength],
   [lines |-> LabelLines, length |-> LabelLength]}
=============================================================================
