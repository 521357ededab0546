---------------------------- MODULE Conditional ----------------------------
(***************************************************************************)
(* DO / ELS / FIN of a linker command file: the first switch of evaluate() *)
(* in link.cpp, over the register active_bits and the flag active.         *)
(*                                                                         *)
(* active_bits is a uint32_t; bit 0 is its least significant bit.  A 1     *)
(* marks the outermost position, the bits below it are the open DO levels. *)
(***************************************************************************)
EXTENDS Process

CONSTANT Width   \* bits of the register, 32 in the code

ASSUME WidthAssumption == Width \in Nat /\ Width >= 2

VARIABLES
  active_bits,   \* [0..Width-1 -> 0..1]
  active,        \* are script lines evaluated?
  strayFin,      \* ghost: a FIN has emptied the register
  badDo,         \* ghost: the last of the three opcodes was a DO with a bad operand
  openDos        \* ghost: the DO lines executed that no FIN has closed yet

condVars == <<active_bits, active, strayFin, badDo, openDos>>

TooDeep == "too much do do"
ElsWithoutDo == "els without do"
FinWithoutDo == "fin without do"

Positions == 0 .. Width - 1
Registers == [Positions -> 0..1]

One == [i \in Positions |-> IF i = 0 THEN 1 ELSE 0]
Zero == [i \in Positions |-> 0]
Bit(condition) == IF condition THEN 1 ELSE 0

ShiftLeft(b, bit) == [i \in Positions |-> IF i = 0 THEN bit ELSE b[i - 1]]
ShiftRight(b) == [i \in Positions |-> IF i = Width - 1 THEN 0 ELSE b[i + 1]]
FlipLast(b) == [b EXCEPT ![0] = 1 - @]

(* (b & (b + 1)) == 0: no 1 stands above a 0.                              *)
AllOnes(b) == \A i, j \in Positions : i < j /\ b[j] = 1 => b[i] = 1

(* active_bits & 0x80000000                                                *)
Full == active_bits[Width - 1] = 1

(* active_bits < 2                                                         *)
NoLevelOffByOne == \A i \in Positions : active_bits[i] = 0   \* variant: < 1
NoLevel == \A i \in Positions \ {0} : active_bits[i] = 0

CondInit ==
  /\ active_bits = One
  /\ active = TRUE
  /\ strayFin = FALSE
  /\ badDo = FALSE
  /\ openDos = 0

RecomputeInnermost == active' = (active_bits'[0] = 1)   \* variant: active_bits & 1
Recompute == active' = AllOnes(active_bits')
-----------------------------------------------------------------------------
(* DO: the register is shifted before the operand is parsed, and a skipped *)
(* DO does not parse its operand.                                          *)
DoTooDeep ==
  /\ Full
  /\ Throws(TooDeep)
  /\ UNCHANGED condVars

(* Variant: a DO in a skipped block returns before the register is shifted. *)
DoSkippedUnshifted ==
  /\ ~Full
  /\ ~active
  /\ openDos' = openDos + 1
  /\ Returns
  /\ UNCHANGED <<active_bits, active, strayFin, badDo>>

DoSkipped ==
  /\ ~Full
  /\ ~active
  /\ active_bits' = ShiftLeft(active_bits, 0)
  /\ openDos' = openDos + 1
  /\ Returns
  /\ UNCHANGED <<active, strayFin, badDo>>

(* Variant: the value itself is or-ed into the register, not its truth.     *)
DoPushesValue(value) ==
  /\ ~Full
  /\ active
  /\ active_bits' = ShiftLeft(active_bits, value)
  /\ Recompute
  /\ openDos' = openDos + 1
  /\ badDo' = FALSE
  /\ Returns
  /\ UNCHANGED strayFin

DoEvaluated(value) ==
  /\ ~Full
  /\ active
  /\ active_bits' = ShiftLeft(active_bits, Bit(value # 0))
  /\ Recompute
  /\ openDos' = openDos + 1
  /\ badDo' = FALSE
  /\ Returns
  /\ UNCHANGED strayFin

(* number_operand() throws after the shift and before active is computed.  *)
DoBadOperand(message) ==
  /\ ~Full
  /\ active
  /\ active_bits' = ShiftLeft(active_bits, 0)
  /\ openDos' = openDos + 1
  /\ badDo' = TRUE
  /\ Throws(message)
  /\ UNCHANGED <<active, strayFin>>

ElsStray ==
  /\ NoLevel
  /\ Throws(ElsWithoutDo)
  /\ UNCHANGED condVars

Els ==
  /\ ~NoLevel
  /\ active_bits' = FlipLast(active_bits)
  /\ Recompute
  /\ badDo' = FALSE
  /\ Returns
  /\ UNCHANGED <<strayFin, openDos>>

OneLess == IF openDos > 0 THEN openDos - 1 ELSE 0

FinStray ==
  /\ ShiftRight(active_bits) = Zero
  /\ active_bits' = Zero
  /\ active' = TRUE
  /\ strayFin' = TRUE
  /\ badDo' = FALSE
  /\ openDos' = OneLess
  /\ Throws(FinWithoutDo)

Fin ==
  /\ ShiftRight(active_bits) # Zero
  /\ active_bits' = ShiftRight(active_bits)
  /\ Recompute
  /\ badDo' = FALSE
  /\ openDos' = OneLess
  /\ Returns
  /\ UNCHANGED strayFin
-----------------------------------------------------------------------------
(* The component on its own: any sequence of the three opcodes.  The lines *)
(* between them do not touch the register.                                 *)
CONSTANT MaxOpen   \* bound on openDos, which a stray FIN can let grow

BadOperand == "bad operand"

CondNext ==
  \/ DoTooDeep
  \/ openDos < MaxOpen /\ DoSkipped
  \/ \E value \in 0..2 : openDos < MaxOpen /\ DoEvaluated(value)
  \/ openDos < MaxOpen /\ DoBadOperand(BadOperand)
  \/ ElsStray
  \/ Els
  \/ FinStray
  \/ Fin

CondStart == CondInit /\ ProcessInit

CondSpec == CondStart /\ [][CondNext]_<<condVars, processVars>>
-----------------------------------------------------------------------------
(* The register and the flags have their types.                            *)
CondTypeOK ==
  /\ active_bits \in Registers
  /\ active \in BOOLEAN
  /\ strayFin \in BOOLEAN
  /\ badDo \in BOOLEAN
  /\ openDos \in Nat

(* Until a FIN without DO, the leading 1 of the register stands at the     *)
(* position that counts the open DO lines, so no DO or FIN is ever paired  *)
(* with another level's.  (evaluate: OP_DO, OP_ELS, OP_FIN)                *)
LevelMarked ==
  ~strayFin => /\ openDos \in Positions
               /\ active_bits[openDos] = 1
               /\ \A i \in Positions : i > openDos => active_bits[i] = 0
-----------------------------------------------------------------------------
(* The blocks the register stands for, outermost first.                    *)
BlocksOf(b, n) == [j \in 1 .. n |-> b[n - j]]
Blocks == IF strayFin THEN <<>> ELSE BlocksOf(active_bits, openDos)

Nesting == INSTANCE CondNest WITH nest <- Blocks, MaxDepth <- Width - 1

(* Lines are evaluated exactly in the chosen halves of all open blocks,    *)
(* but for the lines behind a DO with a bad operand, which are evaluated.  *)
ActiveMeansChosen ==
  ~strayFin => (active <=> badDo \/ \A j \in DOMAIN Blocks : Blocks[j] = 1)

(* The register and the flag implement nested blocks: what is evaluated is *)
(* what stands in the chosen half of every open DO, through any mix of     *)
(* skipped DOs, bad operands and levels refused.  (evaluate, first switch) *)
ImplementsNesting == Nesting!NestSpec
=============================================================================
