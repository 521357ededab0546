---------------------------- MODULE SymbolTable ----------------------------
(***************************************************************************)
(* The two symbol tables of link.cpp: symbol_table (with symbol_map), the  *)
(* linker's own, and local_symbol_table, the one DO and the other operands *)
(* of a command file read.  A symbol's id is its name: ids are never       *)
(* reused and symbol_map is injective.  Warnings are not modelled.         *)
(***************************************************************************)
EXTENDS RelFile

CONSTANT
  Defines   \* the choices of -D options: functions from some names to values

VARIABLES
  symbol_table,        \* [the names inserted so far -> Symbol]
  local_symbol_table   \* [the names the command file defined -> value]

symbolVars == <<symbol_table, local_symbol_table>>

ASSUME DefinesAssumption ==
  \A D \in Defines : DOMAIN D \subseteq Names /\ D \in [DOMAIN D -> Int]

(* struct symbol.  home is a ghost: the segment (see Linker) whose data    *)
(* holds a relocatable symbol's definition, 0 for an absolute one.         *)
Symbol == [defined : BOOLEAN, absolute : BOOLEAN, value : Int,
           segment : Nat, home : Nat]

NewSymbol ==
  [defined |-> FALSE, absolute |-> FALSE, value |-> 0, segment |-> 0, home |-> 0]

Known(n) == n \in DOMAIN symbol_table

(* What find_symbol(n, true) refers to.                                    *)
Lookup(n) == IF Known(n) THEN symbol_table[n] ELSE NewSymbol

(* The table after find_symbol(n, true) was called for each n in the       *)
(* domain of entries and its symbol became entries[n].                     *)
InsertedOnce(entries) ==   \* variant: a symbol already there is not updated
  [n \in DOMAIN symbol_table \cup DOMAIN entries |->
     IF Known(n) THEN symbol_table[n] ELSE entries[n]]

Inserted(entries) ==
  [n \in DOMAIN symbol_table \cup DOMAIN entries |->
     IF n \in DOMAIN entries THEN entries[n] ELSE symbol_table[n]]

(* The masks of link.h: 1 is the assembler, 2 the linker, 4 the script.    *)
Linked == 2
Scripted == 4
LBL_EQU == {1}
LBL_GEQ == {1, Linked, Scripted}
LBL_KBD == {1, Linked, Scripted}
LBL_D   == {1, Linked, Scripted}
LBL_EQ  == {Scripted}
LBL_POS == {Linked}
LBL_LEN == {Linked}
LBL_EXT == {Scripted}

EquateAgain(e, value) ==   \* variant: the last definition stays
  [e EXCEPT !.defined = TRUE, !.absolute = TRUE, !.value = value]

Equate(e, value) ==
  IF e.defined THEN e
  ELSE [e EXCEPT !.defined = TRUE, !.absolute = TRUE, !.value = value]

(* define(name, value, type): the first definition stays in either table.  *)
Define(name, value, type) ==
  /\ local_symbol_table' =
       IF Scripted \in type /\ name \notin DOMAIN local_symbol_table
       THEN [n \in DOMAIN local_symbol_table \cup {name} |->
               IF n = name THEN value ELSE local_symbol_table[n]]
       ELSE local_symbol_table
  /\ symbol_table' =
       IF Linked \in type
       THEN Inserted([n \in {name} |-> Equate(Lookup(n), value)])
       ELSE symbol_table

(* main(): add_define() has run for every -D option.                       *)
SymbolInit ==
  \E D \in Defines :
    /\ local_symbol_table = D
    /\ symbol_table = [n \in DOMAIN D |-> Equate(NewSymbol, D[n])]

SymbolTypeOK ==
  /\ DOMAIN symbol_table \subseteq Names
  /\ symbol_table \in [DOMAIN symbol_table -> Symbol]
  /\ DOMAIN local_symbol_table \subseteq Names
  /\ local_symbol_table \in [DOMAIN local_symbol_table -> Int]
=============================================================================
