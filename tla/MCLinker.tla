------------------------------ MODULE MCLinker ------------------------------
(***************************************************************************)
(* Small instances of the linker for TLC.                                  *)
(***************************************************************************)
EXTENDS LinkerSafety

NoOption == [n \in {} |-> 0]
NoOptions == {NoOption}

Ref(offset, size, external, sym) ==
  [kind |-> "ref", offset |-> offset, size |-> size, shift |-> 0,
   external |-> external, sym |-> sym, value |-> 0]

Unit(len, labels, records) ==
  [ok |-> TRUE, len |-> len, labels |-> labels, records |-> records]

Entry(value) == [kind |-> "entry", value |-> value]
Constant(value) == [kind |-> "absolute", value |-> value]
External == [kind |-> "external", value |-> 0]

(* main refers to foo (3 bytes) and to itself; lib defines foo and refers  *)
(* to bar with a DDB, after which its records are lost; late defines bar,  *)
(* and foo again, and ends at a DS fill; junk is no REL file.              *)
MCRel ==
  [main |-> Unit(6, [foo |-> External, start |-> Entry(1)],
                 <<Ref(1, 3, TRUE, "foo"), Ref(4, 2, FALSE, "start")>>),
   lib |-> Unit(3, [foo |-> Entry(2), bar |-> External],
                <<[Ref(0, 2, TRUE, "bar") EXCEPT !.kind = "ddb", !.value = 1],
                  Ref(2, 1, TRUE, "bar")>>),
   late |-> Unit(2, [bar |-> Entry(1), foo |-> Constant(5)],
                 <<[Ref(0, 0, FALSE, "bar") EXCEPT !.kind = "fill"]>>),
   junk |-> [ok |-> FALSE, len |-> 0, labels |-> NoOption, records |-> <<>>]]
Only(f, names) == [n \in names |-> f[n]]
LinkRel == Only(MCRel, {"main", "lib", "late"})
MCUnits == {"main", "lib", "late", "junk"}

MCNames == {"foo", "bar", "start", "img"}

MCBin == [icon |-> [ok |-> TRUE, len |-> 2], gone |-> [ok |-> FALSE, len |-> 0]]
NoBin == Only(MCBin, {})
MCBinaries == {"icon", "gone"}
MCPath ==
  [icon |-> [dir |-> "img", file |-> "icon"], gone |-> [dir |-> "img", file |-> "gone"],
   out |-> [dir |-> "", file |-> "out"]]
MCEntryName == [img |-> "img", icon |-> "bar", gone |-> "bar"]

NoOperands ==
  [op \in {"LKV", "VER", "TYP", "ADR", "ORG", "KND", "ALI", "DS", "GEQ"} |-> {}]

(* Linking: the GS linkers, with a bank small enough to be exceeded.       *)
LinkOperands == [NoOperands EXCEPT !["LKV"] = {1, 2}, !["KND"] = {1}]

(* The binary and object linkers.                                          *)
ObjectOperands == [NoOperands EXCEPT !["LKV"] = {0, 2, 3}]

(* Every setting and every kind of definition, over a single file.  VER,   *)
(* TYP and DS are given the values that are there from the start.          *)
SettingOperands ==
  [NoOperands EXCEPT !["LKV"] = {2, 4}, !["KND"] = {1}, !["VER"] = {2}, !["TYP"] = {179},
                     !["ADR"] = {8}, !["ORG"] = {8}, !["ALI"] = {2, 3}, !["DS"] = {0},
                     !["GEQ"] = {9}]
SettingRel == Only(MCRel, {"lib"})
=============================================================================
