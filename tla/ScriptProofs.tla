---------------------------- MODULE ScriptProofs ----------------------------
(***************************************************************************)
(* The conditional blocks, for a register of every width: the register     *)
(* marks the open DO lines, lines are evaluated in chosen halves only, and *)
(* the component implements CondNest.  Then the whole program, for every   *)
(* command file: what is proved of the linker and of the conditional       *)
(* blocks alone holds where the lines drive them, a rejected line changes  *)
(* nothing, and END is final.                                              *)
(***************************************************************************)
EXTENDS MerlinLink, ReferenceProofs

(* The inductive invariant, over the bits instead of the blocks: while no  *)
(* FIN was stray, a bad DO leaves its own bit 0 and lines evaluated.       *)
CondInv ==
  /\ CondTypeOK
  /\ LevelMarked
  /\ ~strayFin => (active <=> badDo \/ AllOnes(active_bits))

LEMMA InitInv == CondInit => CondInv
  <1> SUFFICES ASSUME CondInit PROVE CondInv
    OBVIOUS
  <1>1. 0 \in Positions /\ One \in Registers
    BY WidthAssumption DEF One, Registers, Positions
  <1>2. CondTypeOK
    BY <1>1 DEF CondInit, CondTypeOK
  <1>3. LevelMarked
    BY <1>1 DEF CondInit, LevelMarked, One, Positions
  <1>4. AllOnes(active_bits)
    BY DEF CondInit, AllOnes, One, Positions
  <1>5. QED
    BY <1>2, <1>3, <1>4 DEF CondInit, CondInv

LEMMA ShiftLeftType ==
  ASSUME NEW b \in Registers, NEW bit \in 0..1
  PROVE  ShiftLeft(b, bit) \in Registers
  BY WidthAssumption DEF ShiftLeft, Registers, Positions

LEMMA ShiftRightType ==
  ASSUME NEW b \in Registers
  PROVE  ShiftRight(b) \in Registers
  BY WidthAssumption DEF ShiftRight, Registers, Positions

LEMMA FlipLastType ==
  ASSUME NEW b \in Registers
  PROVE  FlipLast(b) \in Registers
  BY WidthAssumption DEF FlipLast, Registers, Positions

(* One more level: the mark moves up with the bits.                        *)
LEMMA Deeper ==
  ASSUME CondInv, ~strayFin, ~Full, NEW bit \in 0..1
  PROVE  /\ openDos + 1 \in Positions
         /\ ShiftLeft(active_bits, bit)[openDos + 1] = 1
         /\ \A i \in Positions : i > openDos + 1 => ShiftLeft(active_bits, bit)[i] = 0
  <1>1. openDos \in Positions /\ openDos # Width - 1
    BY DEF CondInv, LevelMarked, Full
  <1>2. openDos + 1 \in Positions
    BY <1>1, WidthAssumption DEF Positions
  <1>3. \A i \in Positions : i # 0 => i - 1 \in Positions
    BY WidthAssumption DEF Positions
  <1>4. \A i \in Positions : i # 0 => ShiftLeft(active_bits, bit)[i] = active_bits[i - 1]
    BY <1>3 DEF ShiftLeft
  <1>5. QED
    BY <1>1, <1>2, <1>3, <1>4, WidthAssumption DEF CondInv, LevelMarked, Positions

(* AllOnes of a shifted register, in terms of the register.                *)
LEMMA AllOnesShiftLeft ==
  ASSUME NEW b \in Registers, b[Width - 1] = 0
  PROVE  /\ AllOnes(ShiftLeft(b, 1)) <=> AllOnes(b)
         /\ (\E i \in Positions : b[i] = 1) => ~AllOnes(ShiftLeft(b, 0))
  <1>1. \A i \in Positions : i # 0 => i - 1 \in Positions /\ ShiftLeft(b, 1)[i] = b[i - 1]
                                     /\ ShiftLeft(b, 0)[i] = b[i - 1]
    BY WidthAssumption DEF Positions, ShiftLeft
  <1>2. 0 \in Positions /\ ShiftLeft(b, 1)[0] = 1 /\ ShiftLeft(b, 0)[0] = 0
    BY WidthAssumption DEF Positions, ShiftLeft
  <1>3. \A i \in Positions : i # Width - 1 => i + 1 \in Positions /\ ShiftLeft(b, 1)[i + 1] = b[i]
                                             /\ ShiftLeft(b, 0)[i + 1] = b[i]
    BY <1>1, WidthAssumption DEF Positions
  <1>4. ASSUME AllOnes(b) PROVE AllOnes(ShiftLeft(b, 1))
    <2> SUFFICES ASSUME NEW i \in Positions, NEW j \in Positions, i < j,
                        ShiftLeft(b, 1)[j] = 1
                 PROVE  ShiftLeft(b, 1)[i] = 1
      BY DEF AllOnes
    <2>1. CASE i = 0
      BY <2>1, <1>2
    <2>2. CASE i # 0
      <3>1. /\ i - 1 \in Positions /\ j - 1 \in Positions /\ i - 1 < j - 1
            /\ ShiftLeft(b, 1)[i] = b[i - 1] /\ ShiftLeft(b, 1)[j] = b[j - 1]
        BY <2>2, <1>1, WidthAssumption DEF Positions
      <3>2. QED
        BY <3>1, <1>4 DEF AllOnes
    <2>3. QED
      BY <2>1, <2>2
  <1>5. ASSUME AllOnes(ShiftLeft(b, 1)) PROVE AllOnes(b)
    <2> SUFFICES ASSUME NEW i \in Positions, NEW j \in Positions, i < j, b[j] = 1
                 PROVE  b[i] = 1
      BY DEF AllOnes
    <2>1. i # Width - 1 /\ j # Width - 1
      BY WidthAssumption DEF Positions
    <2>2. /\ i + 1 \in Positions /\ j + 1 \in Positions /\ i + 1 < j + 1
          /\ ShiftLeft(b, 1)[i + 1] = b[i] /\ ShiftLeft(b, 1)[j + 1] = b[j]
      BY <2>1, <1>3 DEF Positions
    <2>3. QED
      BY <2>2, <1>5 DEF AllOnes
  <1>6. ASSUME NEW i \in Positions, b[i] = 1 PROVE ~AllOnes(ShiftLeft(b, 0))
    <2>1. i # Width - 1
      BY <1>6
    <2>2. i + 1 \in Positions /\ 0 < i + 1 /\ ShiftLeft(b, 0)[i + 1] = 1
      BY <2>1, <1>3, <1>6 DEF Positions
    <2>3. QED
      BY <2>2, <1>2 DEF AllOnes
  <1>7. QED
    BY <1>4, <1>5, <1>6

LEMMA Recomputed ==
  ASSUME Recompute
  PROVE  active' \in BOOLEAN /\ (active' <=> AllOnes(active_bits'))
  <1>1. AllOnes(active_bits') \in BOOLEAN
    BY DEF AllOnes
  <1>2. QED
    BY <1>1 DEF Recompute

LEMMA OneLessNat == ASSUME CondTypeOK PROVE OneLess \in Nat
  BY DEF CondTypeOK, OneLess

LEMMA DoStep ==
  ASSUME CondInv, ~Full,
         NEW bit \in 0..1, active_bits' = ShiftLeft(active_bits, bit),
         openDos' = openDos + 1, strayFin' = strayFin,
         active' \in BOOLEAN, badDo' \in BOOLEAN,
         ~strayFin => (active' <=> badDo' \/ AllOnes(active_bits'))
  PROVE  CondInv'
  <1>1. CondTypeOK'
    BY ShiftLeftType DEF CondInv, CondTypeOK
  <1>2. LevelMarked'
    BY Deeper DEF LevelMarked
  <1>3. QED
    BY <1>1, <1>2 DEF CondInv

(* ELS finds an open level, so it does not touch the mark.                 *)
LEMMA ElsStep ==
  ASSUME CondInv, Els
  PROVE  CondInv'
  <1>1. active_bits' \in Registers /\ active_bits' = FlipLast(active_bits)
    BY FlipLastType DEF CondInv, CondTypeOK, Els
  <1>2. CondTypeOK'
    BY <1>1, Recomputed DEF CondInv, CondTypeOK, Els
  <1>3. ASSUME ~strayFin PROVE LevelMarked'
    <2>1. PICK i \in Positions \ {0} : active_bits[i] # 0
      BY DEF Els, NoLevel
    <2>2. openDos \in Positions /\ openDos # 0
      BY <1>3, <2>1 DEF CondInv, LevelMarked, Positions
    <2>3. \A k \in Positions : k # 0 => active_bits'[k] = active_bits[k]
      BY <1>1 DEF FlipLast, CondInv, CondTypeOK, Registers
    <2>4. QED
      BY <1>3, <2>2, <2>3 DEF CondInv, LevelMarked, Els, Positions
  <1>4. LevelMarked'
    BY <1>3 DEF LevelMarked, Els
  <1>5. QED
    BY <1>2, <1>4, Recomputed DEF CondInv, Els

(* FIN leaves a mark, so there was a level to close.                       *)
LEMMA FinStep ==
  ASSUME CondInv, Fin
  PROVE  CondInv'
  <1>1. active_bits' \in Registers /\ active_bits' = ShiftRight(active_bits)
    BY ShiftRightType DEF CondInv, CondTypeOK, Fin
  <1>2. CondTypeOK'
    BY <1>1, Recomputed, OneLessNat DEF CondInv, CondTypeOK, Fin
  <1>3. ASSUME ~strayFin PROVE LevelMarked'
    <2>1. PICK i \in Positions : ShiftRight(active_bits)[i] # 0
      BY DEF Fin, ShiftRight, Zero
    <2>2. i # Width - 1 /\ active_bits[i + 1] # 0 /\ i + 1 \in Positions
      BY <2>1, WidthAssumption DEF ShiftRight, Positions
    <2>3. openDos \in Positions /\ openDos # 0
      BY <1>3, <2>2 DEF CondInv, LevelMarked, Positions
    <2>4. openDos' = openDos - 1 /\ openDos' \in Positions /\ openDos' # Width - 1
      BY <2>3, WidthAssumption DEF Fin, OneLess, Positions
    <2>5. active_bits'[openDos'] = active_bits[openDos]
      BY <1>1, <2>4, <2>3 DEF ShiftRight, Positions
    <2>6. \A k \in Positions : k > openDos' => active_bits'[k] = 0
      <3> SUFFICES ASSUME NEW k \in Positions, k > openDos' PROVE active_bits'[k] = 0
        OBVIOUS
      <3>1. CASE k = Width - 1
        BY <3>1, <1>1 DEF ShiftRight
      <3>2. CASE k # Width - 1
        <4>1. k + 1 \in Positions /\ k + 1 > openDos
          BY <3>2, <2>4, <2>3, WidthAssumption DEF Positions
        <4>2. active_bits'[k] = active_bits[k + 1]
          BY <3>2, <1>1 DEF ShiftRight
        <4>3. QED
          BY <4>1, <4>2, <1>3 DEF CondInv, LevelMarked
      <3>3. QED
        BY <3>1, <3>2
    <2>7. QED
      BY <1>3, <2>3, <2>4, <2>5, <2>6 DEF CondInv, LevelMarked, Fin
  <1>4. LevelMarked'
    BY <1>3 DEF LevelMarked, Fin
  <1>5. QED
    BY <1>2, <1>4, Recomputed DEF CondInv, Fin

(* Each of the three opcodes, whatever its operand.                        *)
Opcode(value, message) ==
  \/ DoTooDeep \/ DoSkipped \/ DoEvaluated(value) \/ DoBadOperand(message)
  \/ ElsStray \/ Els \/ FinStray \/ Fin

LEMMA OpcodeInv ==
  ASSUME CondInv, NEW value, NEW message, Opcode(value, message)
  PROVE  CondInv'
  <1>1. CASE DoTooDeep
    BY <1>1 DEF CondInv, CondTypeOK, LevelMarked, DoTooDeep, condVars
  <1>2. CASE DoSkipped
    <2>1. ASSUME ~strayFin PROVE ~AllOnes(active_bits')
      <3>1. openDos \in Positions /\ active_bits[openDos] = 1
        BY <2>1 DEF CondInv, LevelMarked
      <3>2. active_bits \in Registers /\ active_bits[Width - 1] = 0
        BY <1>2, WidthAssumption
        DEF CondInv, CondTypeOK, DoSkipped, Full, Registers, Positions
      <3>3. QED
        BY <1>2, <3>1, <3>2, AllOnesShiftLeft DEF DoSkipped
    <2>2. ~strayFin => ~badDo
      BY <1>2 DEF CondInv, DoSkipped
    <2>3. QED
      BY <1>2, <2>1, <2>2, DoStep DEF DoSkipped, CondInv, CondTypeOK
  <1>3. CASE DoEvaluated(value)
    <2>1. /\ Bit(value # 0) \in 0..1
          /\ active_bits' = ShiftLeft(active_bits, Bit(value # 0))
      BY <1>3 DEF DoEvaluated, Bit
    <2>2. /\ ~Full /\ openDos' = openDos + 1 /\ strayFin' = strayFin
          /\ badDo' = FALSE /\ Recompute
      BY <1>3 DEF DoEvaluated
    <2>3. QED
      BY <2>1, <2>2, DoStep, Recomputed
  <1>4. CASE DoBadOperand(message)
    BY <1>4, DoStep DEF DoBadOperand, CondInv, CondTypeOK
  <1>5. CASE ElsStray
    BY <1>5 DEF CondInv, CondTypeOK, LevelMarked, ElsStray, condVars
  <1>6. CASE Els
    BY <1>6, ElsStep
  <1>7. CASE FinStray
    <2>1. Zero \in Registers
      BY DEF Zero, Registers
    <2>2. QED
      BY <1>7, <2>1, OneLessNat DEF CondInv, CondTypeOK, LevelMarked, FinStray
  <1>8. CASE Fin
    BY <1>8, FinStep
  <1>9. QED
    BY <1>1, <1>2, <1>3, <1>4, <1>5, <1>6, <1>7, <1>8 DEF Opcode

LEMMA StepInv ==
  ASSUME CondInv, CondNext
  PROVE  CondInv'
  <1>1. \E value, message : Opcode(value, message)
    BY DEF CondNext, Opcode
  <1>2. QED
    BY <1>1, OpcodeInv

LEMMA StutterInv ==
  ASSUME CondInv, UNCHANGED <<condVars, processVars>>
  PROVE  CondInv'
  BY DEF CondInv, CondTypeOK, LevelMarked, AllOnes, condVars

LEMMA Invariance == CondSpec => []CondInv
  <1>1. CondInit => CondInv
    BY InitInv
  <1>2. CondInv /\ [CondNext]_<<condVars, processVars>> => CondInv'
    BY StepInv, StutterInv
  <1>3. QED
    BY <1>1, <1>2, PTL DEF CondSpec, CondStart

(* The bits below the mark, from the top, are the blocks.                  *)
LEMMA BlocksAllChosen ==
  ASSUME NEW b \in Registers, NEW n \in Positions, b[n] = 1,
         \A i \in Positions : i > n => b[i] = 0
  PROVE  AllOnes(b) <=> \A j \in DOMAIN BlocksOf(b, n) : BlocksOf(b, n)[j] = 1
  <1>2. /\ DOMAIN BlocksOf(b, n) = 1 .. n
        /\ \A j \in 1 .. n : BlocksOf(b, n)[j] = b[n - j]
    BY DEF BlocksOf
  <1>3. ASSUME AllOnes(b), NEW j \in 1 .. n PROVE BlocksOf(b, n)[j] = 1
    <2>1. n - j \in Positions /\ n - j < n
      BY WidthAssumption DEF Positions
    <2>2. QED
      BY <1>2, <1>3, <2>1 DEF AllOnes
  <1>4. ASSUME \A j \in 1 .. n : BlocksOf(b, n)[j] = 1 PROVE AllOnes(b)
    <2> SUFFICES ASSUME NEW i \in Positions, NEW k \in Positions, i < k, b[k] = 1
                 PROVE  b[i] = 1
      BY DEF AllOnes
    <2>1. k <= n
      BY WidthAssumption DEF Positions
    <2>2. n - i \in 1 .. n /\ n - (n - i) = i
      BY <2>1, WidthAssumption DEF Positions
    <2>3. QED
      BY <1>2, <1>4, <2>2
  <1>5. QED
    BY <1>2, <1>3, <1>4

(* In the states of the register, with and without a prime.                *)
LEMMA ChosenNow ==
  ASSUME CondInv, ~strayFin
  PROVE  AllOnes(active_bits) <=> \A j \in DOMAIN Blocks : Blocks[j] = 1
  BY BlocksAllChosen DEF CondInv, CondTypeOK, LevelMarked, Blocks

LEMMA ChosenNext ==
  ASSUME CondInv', ~strayFin'
  PROVE  AllOnes(active_bits') <=> \A j \in DOMAIN Blocks' : Blocks'[j] = 1
  BY BlocksAllChosen DEF CondInv, CondTypeOK, LevelMarked, Blocks

LEMMA CondOfInv == CondInv => CondTypeOK /\ LevelMarked /\ ActiveMeansChosen
  BY ChosenNow DEF CondInv, ActiveMeansChosen

(* Types, the mark, and: lines are evaluated in the chosen halves only.    *)
THEOREM CondSafety ==
  CondSpec => [](CondTypeOK /\ LevelMarked /\ ActiveMeansChosen)
  BY CondOfInv, Invariance, PTL
-----------------------------------------------------------------------------
(* The refinement: each step of the register is a step of the nesting.     *)
LEMMA BlocksShape ==
  ASSUME NEW b \in Registers, NEW n \in Positions
  PROVE  /\ BlocksOf(b, n) \in Seq(0..1)
         /\ Len(BlocksOf(b, n)) = n
         /\ \A j \in 1 .. n : BlocksOf(b, n)[j] = b[n - j]
  <1>1. n \in Nat
    BY WidthAssumption DEF Positions
  <1>2. \A j \in 1 .. n : n - j \in Positions
    BY <1>1, WidthAssumption DEF Positions
  <1>3. \A j \in 1 .. n : b[n - j] \in 0..1
    BY <1>2 DEF Registers
  <1>4. QED
    BY <1>1, <1>3 DEF BlocksOf

LEMMA SameSequence ==
  ASSUME NEW s \in Seq(0..1), NEW t \in Seq(0..1), Len(s) = Len(t),
         \A j \in 1 .. Len(s) : s[j] = t[j]
  PROVE  s = t
  OBVIOUS

LEMMA OpenBlocks ==
  ASSUME NEW b \in Registers, NEW n \in Positions, n + 1 \in Positions, NEW bit \in 0..1
  PROVE  BlocksOf(ShiftLeft(b, bit), n + 1) = Append(BlocksOf(b, n), bit)
  <1> DEFINE t == BlocksOf(ShiftLeft(b, bit), n + 1)
             s == BlocksOf(b, n)
  <1>1. n \in Nat /\ ShiftLeft(b, bit) \in Registers
    BY ShiftLeftType, WidthAssumption DEF Positions
  <1>2. t \in Seq(0..1) /\ Len(t) = n + 1
        /\ \A j \in 1 .. n + 1 : t[j] = ShiftLeft(b, bit)[n + 1 - j]
    BY <1>1, BlocksShape
  <1>3. s \in Seq(0..1) /\ Len(s) = n /\ \A j \in 1 .. n : s[j] = b[n - j]
    BY <1>1, BlocksShape
  <1> HIDE DEF t, s
  <1>4. ASSUME NEW j \in 1 .. n PROVE t[j] = s[j]
    <2>1. /\ n + 1 - j \in Positions /\ n + 1 - j # 0 /\ (n + 1 - j) - 1 = n - j
          /\ j \in 1 .. n + 1
      BY <1>1, WidthAssumption DEF Positions
    <2>2. ShiftLeft(b, bit)[n + 1 - j] = b[n - j]
      BY <2>1 DEF ShiftLeft
    <2>3. QED
      BY <2>1, <2>2, <1>2, <1>3
  <1>5. t[n + 1] = bit
    <2>1. n + 1 - (n + 1) = 0 /\ 0 \in Positions /\ n + 1 \in 1 .. n + 1
      BY <1>1, WidthAssumption DEF Positions
    <2>2. ShiftLeft(b, bit)[0] = bit
      BY <2>1 DEF ShiftLeft
    <2>3. QED
      BY <2>1, <2>2, <1>2
  <1>6. /\ Append(s, bit) \in Seq(0..1) /\ Len(Append(s, bit)) = n + 1
        /\ Append(s, bit)[n + 1] = bit
        /\ \A j \in 1 .. n : Append(s, bit)[j] = s[j]
    BY <1>1, <1>3
  <1>7. \A j \in 1 .. n + 1 : t[j] = Append(s, bit)[j]
    BY <1>1, <1>4, <1>5, <1>6
  <1>8. t = Append(s, bit)
    BY <1>2, <1>6, <1>7, SameSequence
  <1>9. QED
    BY <1>8 DEF t, s

LEMMA TurnBlocks ==
  ASSUME NEW b \in Registers, NEW n \in Positions, n # 0
  PROVE  /\ BlocksOf(b, n) # <<>>
         /\ BlocksOf(FlipLast(b), n) =
              [BlocksOf(b, n) EXCEPT ![Len(BlocksOf(b, n))] = 1 - @]
  <1> DEFINE t == BlocksOf(FlipLast(b), n)
             s == BlocksOf(b, n)
  <1>1. n \in Nat /\ n > 0 /\ FlipLast(b) \in Registers
    BY FlipLastType, WidthAssumption DEF Positions
  <1>2. t \in Seq(0..1) /\ Len(t) = n /\ \A j \in 1 .. n : t[j] = FlipLast(b)[n - j]
    BY <1>1, BlocksShape
  <1>3. s \in Seq(0..1) /\ Len(s) = n /\ \A j \in 1 .. n : s[j] = b[n - j]
    BY <1>1, BlocksShape
  <1> HIDE DEF t, s
  <1>4. /\ FlipLast(b)[0] = 1 - b[0]
        /\ \A k \in Positions : k # 0 => FlipLast(b)[k] = b[k]
    BY WidthAssumption DEF FlipLast, Registers, Positions
  <1>5. ASSUME NEW j \in 1 .. n, j # n PROVE t[j] = s[j]
    <2>1. n - j \in Positions /\ n - j # 0
      BY <1>1, <1>5, WidthAssumption DEF Positions
    <2>2. QED
      BY <2>1, <1>2, <1>3, <1>4
  <1>6. t[n] = 1 - s[n]
    BY <1>1, <1>2, <1>3, <1>4
  <1> DEFINE e == [s EXCEPT ![Len(s)] = 1 - @]
  <1>7. /\ e \in Seq(0..1) /\ Len(e) = n /\ e[n] = 1 - s[n]
        /\ \A j \in 1 .. n : j # n => e[j] = s[j]
    BY <1>1, <1>3
  <1> HIDE DEF e
  <1>8. \A j \in 1 .. n : t[j] = e[j]
    BY <1>5, <1>6, <1>7
  <1>9. t = e
    BY <1>2, <1>7, <1>8, SameSequence
  <1>10. s # <<>>
    BY <1>1, <1>3
  <1>11. QED
    BY <1>9, <1>10 DEF t, s, e

LEMMA CloseBlocks ==
  ASSUME NEW b \in Registers, NEW n \in Positions, n # 0
  PROVE  /\ BlocksOf(b, n) # <<>>
         /\ BlocksOf(ShiftRight(b), n - 1) =
              SubSeq(BlocksOf(b, n), 1, Len(BlocksOf(b, n)) - 1)
  <1> DEFINE t == BlocksOf(ShiftRight(b), n - 1)
             s == BlocksOf(b, n)
  <1>1. n \in Nat /\ n > 0 /\ ShiftRight(b) \in Registers /\ n - 1 \in Positions
    BY ShiftRightType, WidthAssumption DEF Positions
  <1>2. t \in Seq(0..1) /\ Len(t) = n - 1
        /\ \A j \in 1 .. n - 1 : t[j] = ShiftRight(b)[n - 1 - j]
    BY <1>1, BlocksShape
  <1>3. s \in Seq(0..1) /\ Len(s) = n /\ \A j \in 1 .. n : s[j] = b[n - j]
    BY <1>1, BlocksShape
  <1> HIDE DEF t, s
  <1>4. ASSUME NEW j \in 1 .. n - 1 PROVE t[j] = s[j]
    <2>1. /\ n - 1 - j \in Positions /\ n - 1 - j # Width - 1
          /\ (n - 1 - j) + 1 = n - j /\ j \in 1 .. n
      BY <1>1, WidthAssumption DEF Positions
    <2>2. ShiftRight(b)[n - 1 - j] = b[n - j]
      BY <2>1 DEF ShiftRight
    <2>3. QED
      BY <2>1, <2>2, <1>2, <1>3
  <1>5. /\ SubSeq(s, 1, n - 1) \in Seq(0..1) /\ Len(SubSeq(s, 1, n - 1)) = n - 1
        /\ \A j \in 1 .. n - 1 : SubSeq(s, 1, n - 1)[j] = s[j]
    BY <1>1, <1>3
  <1>6. t = SubSeq(s, 1, n - 1)
    BY <1>2, <1>4, <1>5, SameSequence
  <1>7. s # <<>>
    BY <1>1, <1>3
  <1>8. QED
    BY <1>3, <1>6, <1>7 DEF t, s

(* An opened, turned or closed block is evaluated as the register says.    *)
LEMMA RecomputedChosen ==
  ASSUME CondInv', ~strayFin', Recompute
  PROVE  active' = Nesting!AllChosen(Blocks')
  <1>1. active' \in BOOLEAN /\ (active' <=> AllOnes(active_bits'))
    BY Recomputed
  <1>2. AllOnes(active_bits') <=> \A j \in DOMAIN Blocks' : Blocks'[j] = 1
    BY ChosenNext
  <1>3. QED
    BY <1>1, <1>2 DEF Nesting!AllChosen

LEMMA DoOpens ==
  ASSUME CondInv, CondInv', ~strayFin, ~strayFin', ~Full, NEW bit \in 0..1,
         active_bits' = ShiftLeft(active_bits, bit), openDos' = openDos + 1
  PROVE  Len(Blocks) < Width - 1 /\ Blocks' = Append(Blocks, bit)
  <1>1. active_bits \in Registers /\ openDos \in Positions /\ openDos + 1 \in Positions
    BY DEF CondInv, CondTypeOK, LevelMarked
  <1>2. Blocks = BlocksOf(active_bits, openDos)
    BY DEF Blocks
  <1>3. Blocks' = BlocksOf(ShiftLeft(active_bits, bit), openDos + 1)
    BY DEF Blocks
  <1>4. Len(Blocks) = openDos
    BY <1>1, <1>2, BlocksShape
  <1>5. openDos < Width - 1
    BY <1>1, WidthAssumption DEF Positions
  <1>6. QED
    BY <1>1, <1>2, <1>3, <1>4, <1>5, OpenBlocks

LEMMA LevelsOpen ==
  ASSUME CondInv, ~strayFin, NEW i \in Positions, i # 0, active_bits[i] # 0
  PROVE  openDos # 0
  BY WidthAssumption DEF CondInv, LevelMarked, Positions

LEMMA RefinesStep ==
  ASSUME CondInv, CondInv', CondNext
  PROVE  Nesting!NestNext \/ UNCHANGED Nesting!nestVars
  <1>1. CASE strayFin
    <2>1. strayFin' /\ Blocks = <<>> /\ Blocks' = <<>>
      BY <1>1 DEF CondNext, DoTooDeep, DoSkipped, DoEvaluated, DoBadOperand,
                  ElsStray, Els, FinStray, Fin, condVars, Blocks, CondInv, CondTypeOK
    <2>2. QED
      BY <1>1, <2>1 DEF CondInv, CondTypeOK, Nesting!NestNext
  <1>2. CASE ~strayFin /\ (DoTooDeep \/ ElsStray)
    BY <1>2 DEF DoTooDeep, ElsStray, condVars, Nesting!nestVars, Blocks
  <1>3. CASE ~strayFin /\ DoSkipped
    <2>1. Len(Blocks) < Width - 1 /\ Blocks' = Append(Blocks, 0)
      BY <1>3, DoOpens DEF DoSkipped
    <2>2. Blocks \in Seq(0..1)
      BY <1>3, BlocksShape DEF CondInv, CondTypeOK, LevelMarked, Blocks
    <2>3. ~Nesting!AllChosen(Blocks')
      <3>1. Len(Blocks) + 1 \in DOMAIN Append(Blocks, 0)
            /\ Append(Blocks, 0)[Len(Blocks) + 1] = 0
        BY <2>2
      <3>2. QED
        BY <3>1, <2>1 DEF Nesting!AllChosen
    <2>4. active' = Nesting!AllChosen(Blocks')
      <3>1. active' = FALSE
        BY <1>3 DEF DoSkipped, CondInv, CondTypeOK
      <3>2. QED
        BY <3>1, <2>3 DEF Nesting!AllChosen
    <2>5. Nesting!Open(0)
      BY <2>1, <2>4 DEF Nesting!Open
    <2>6. QED
      BY <1>3, <2>5 DEF DoSkipped, Nesting!NestNext
  <1>4. ASSUME ~strayFin, NEW value \in 0..2, DoEvaluated(value)
        PROVE  Nesting!NestNext
    <2>1. /\ Bit(value # 0) \in 0..1 /\ ~strayFin' /\ strayFin' = FALSE /\ active
          /\ Recompute
      BY <1>4 DEF DoEvaluated, Bit, CondInv, CondTypeOK
    <2>2. Len(Blocks) < Width - 1 /\ Blocks' = Append(Blocks, Bit(value # 0))
      BY <1>4, <2>1, DoOpens DEF DoEvaluated
    <2>3. Nesting!Open(Bit(value # 0))
      BY <2>1, <2>2, RecomputedChosen DEF Nesting!Open
    <2>4. QED
      BY <1>4, <2>1, <2>3 DEF Nesting!NestNext
  <1>5. CASE ~strayFin /\ DoBadOperand(BadOperand)
    <2>1. Len(Blocks) < Width - 1 /\ Blocks' = Append(Blocks, 0)
      BY <1>5, DoOpens DEF DoBadOperand
    <2>2. active = TRUE /\ active' = TRUE /\ strayFin' = FALSE
      BY <1>5 DEF DoBadOperand, CondInv, CondTypeOK
    <2>3. QED
      BY <1>5, <2>1, <2>2 DEF Nesting!NestNext, Nesting!OpenBad
  <1>6. CASE ~strayFin /\ Els
    <2>1. openDos # 0
      BY <1>6, LevelsOpen DEF Els, NoLevel
    <2>2. Blocks = BlocksOf(active_bits, openDos)
          /\ Blocks' = BlocksOf(FlipLast(active_bits), openDos)
      BY <1>6 DEF Els, Blocks
    <2>3. Blocks # <<>> /\ Blocks' = [Blocks EXCEPT ![Len(Blocks)] = 1 - @]
      BY <1>6, <2>1, <2>2, TurnBlocks DEF CondInv, CondTypeOK, LevelMarked
    <2>4. Nesting!Turn
      BY <1>6, <2>3, RecomputedChosen DEF Els, Nesting!Turn
    <2>5. QED
      BY <1>6, <2>4 DEF Els, Nesting!NestNext, CondInv, CondTypeOK
  <1>7. CASE ~strayFin /\ Fin
    <2>1. PICK i \in Positions : ShiftRight(active_bits)[i] # 0
      BY <1>7 DEF Fin, ShiftRight, Zero
    <2>2. i + 1 \in Positions /\ i + 1 # 0 /\ active_bits[i + 1] # 0
      BY <2>1, WidthAssumption DEF ShiftRight, Positions
    <2>3. openDos \in Positions /\ openDos # 0
      BY <1>7, <2>2, LevelsOpen DEF CondInv, LevelMarked
    <2>4. openDos' = openDos - 1
      BY <1>7, <2>3, WidthAssumption DEF Fin, OneLess, Positions
    <2>5. Blocks = BlocksOf(active_bits, openDos)
          /\ Blocks' = BlocksOf(ShiftRight(active_bits), openDos - 1)
      BY <1>7, <2>4 DEF Fin, Blocks
    <2>6. Blocks # <<>> /\ Blocks' = SubSeq(Blocks, 1, Len(Blocks) - 1)
      BY <2>3, <2>5, CloseBlocks DEF CondInv, CondTypeOK
    <2>7. Nesting!Close
      BY <1>7, <2>6, RecomputedChosen DEF Fin, Nesting!Close
    <2>8. QED
      BY <1>7, <2>7 DEF Fin, Nesting!NestNext, CondInv, CondTypeOK
  <1>8. CASE ~strayFin /\ FinStray
    <2>1. openDos \in Positions /\ active_bits[openDos] = 1 /\ active_bits \in Registers
      BY <1>8 DEF CondInv, CondTypeOK, LevelMarked
    <2>2. openDos = 0
      <3> SUFFICES ASSUME openDos # 0 PROVE FALSE
        OBVIOUS
      <3>1. openDos - 1 \in Positions /\ openDos - 1 # Width - 1
            /\ (openDos - 1) + 1 = openDos
        BY <2>1, WidthAssumption DEF Positions
      <3>2. ShiftRight(active_bits)[openDos - 1] = 1
        BY <2>1, <3>1 DEF ShiftRight
      <3>3. Zero[openDos - 1] = 0
        BY <3>1 DEF Zero
      <3>4. QED
        BY <1>8, <3>2, <3>3 DEF FinStray
    <2>3. Blocks \in Seq(0..1) /\ Len(Blocks) = 0
      BY <1>8, <2>1, <2>2, BlocksShape DEF Blocks
    <2>4. Blocks = <<>> /\ Blocks' = <<>>
      BY <1>8, <2>3 DEF FinStray, Blocks
    <2>5. QED
      BY <1>8, <2>4 DEF FinStray, Nesting!NestNext, Nesting!CloseNothing
  <1>9. QED
    BY <1>1, <1>2, <1>3, <1>4, <1>5, <1>6, <1>7, <1>8 DEF CondNext

(* The register implements the nesting of blocks, at every width.          *)
THEOREM CondRefinesNest == CondSpec => ImplementsNesting
  <1>1. CondInit => Nesting!NestInit
    <2> SUFFICES ASSUME CondInit PROVE Nesting!NestInit
      OBVIOUS
    <2>1. Blocks \in Seq(0..1) /\ Len(Blocks) = 0
      BY InitInv, BlocksShape DEF CondInit, CondInv, CondTypeOK, LevelMarked, Blocks
    <2>2. QED
      BY <2>1 DEF CondInit, Nesting!NestInit
  <1>2. CondInv /\ CondInv' /\ [CondNext]_<<condVars, processVars>>
          => [Nesting!NestNext]_Nesting!nestVars
    <2>1. ASSUME UNCHANGED <<condVars, processVars>> PROVE UNCHANGED Nesting!nestVars
      BY <2>1 DEF condVars, Blocks, Nesting!nestVars
    <2>2. QED
      BY <2>1, RefinesStep
  <1>3. QED
    BY <1>1, <1>2, Invariance, PTL DEF CondSpec, CondStart, ImplementsNesting, Nesting!NestSpec

-----------------------------------------------------------------------------

(* After END the multi-segment linker has one, empty, segment: END again   *)
(* finds nothing to write.                                                 *)
Ended ==
  /\ end => script
  /\ end /\ exited = Running /\ settings.lkv = 2 => Len(segments) = 1

(* The loop ends with the error that is one too many.                      *)
Counting == ~finished => errors < MaxErrors

ScriptInv ==
  /\ CondInv
  /\ PartsInv
  /\ ScriptTypeOK
  /\ Counting
  /\ Ended
-----------------------------------------------------------------------------
(* What a line is to the linker.                                           *)
LEMMA NumberType ==
  ASSUME SymbolTypeOK, source \in Scripts, NEW line \in source.lines,
         NumberError(line) = Quiet
  PROVE  Number(line) \in Int
  <1>1. line.number \in Int
    BY LinesAssumption
  <1>2. CASE line.operand = "name"
    <2>1. line.text \in DOMAIN local_symbol_table
      BY <1>2 DEF NumberError, Quiet
    <2>2. QED
      BY <1>2, <2>1 DEF Number, SymbolTypeOK
  <1>3. QED
    BY <1>1, <1>2 DEF Number

LEMMA NumberCalls ==
  ASSUME SymbolTypeOK, source \in Scripts, NEW line \in source.lines,
         LineNumber(line), op_needs_label(line.op) => line.label # ""
  PROVE  UNCHANGED core \/ Call
  <1>1. CASE NumberError(line) # Quiet
    BY <1>1 DEF LineNumber
  <1>2. CASE NumberError(line) = Quiet
    <2> DEFINE value == Number(line)
    <2>1. value \in Int /\ StoreNumber(line)
      BY <1>2, NumberType DEF LineNumber
    <2>2. CASE Stored(value) \/ Attributed(value)
      BY <2>1, <2>2 DEF Call
    <2>3. CASE op_needs_label(line.op) /\ Valued(line.label, value)
      <3>1. line.label \in Names
        BY <2>3, LinesAssumption
      <3>2. QED
        BY <2>1, <2>3, <3>1 DEF Call
    <2>4. \/ Stored(value) \/ Attributed(value)
          \/ op_needs_label(line.op) /\ Valued(line.label, value)
      BY <2>1 DEF StoreNumber, Stored, Attributed, Valued, op_needs_label
    <2>5. QED
      BY <2>2, <2>3, <2>4
  <1>3. QED
    BY <1>1, <1>2

LEMMA PathCalls ==
  ASSUME source \in Scripts, NEW line \in source.lines, LinePath(line)
  PROVE  UNCHANGED core \/ Call
  <1>1. CASE PathError(line) # Quiet
    BY <1>1 DEF LinePath
  <1>2. CASE PathError(line) = Quiet
    <2>1. /\ line.op = "LNK" => line.text \in Units
          /\ line.op = "IMP" => line.text \in Binaries
          /\ line.op = "SAV" => line.text \in Outputs
      BY <1>2, LinesAssumption
    <2>2. QED
      BY <1>2, <2>1 DEF LinePath, Call
  <1>3. QED
    BY <1>1, <1>2

LEMMA KbdCalls ==
  ASSUME SymbolTypeOK, source \in Scripts, NEW line \in source.lines,
         line.label # "", LineKbd(line)
  PROVE  UNCHANGED core \/ Call
  <1>1. line.label \in Names
    BY LinesAssumption
  <1>2. CASE Kbd(line.label, Number(line)) /\ NumberError(line) = Quiet
    <2>1. Number(line) \in Int
      BY <1>2, NumberType
    <2>2. QED
      BY <1>1, <1>2, <2>1 DEF Call, Valued
  <1>3. CASE Kbd(line.label, Number(line)) /\ line.label \in DOMAIN local_symbol_table
    BY <1>3 DEF Kbd, Returns, core
  <1>4. QED
    BY <1>2, <1>3 DEF LineKbd, Ignored

LEMMA LabelCalls ==
  ASSUME SymbolTypeOK, source \in Scripts, NEW line \in source.lines,
         LineLabel(line), op_needs_label(line.op) => line.label # ""
  PROVE  UNCHANGED core \/ Call
  <1>1. line.label # "" => line.label \in Names
    BY LinesAssumption
  <1>2. LabelError(line) = Quiet => line.text \in Names
    BY LinesAssumption DEF LabelError, Quiet
  <1>3. CASE line.op = "KBD" /\ LineKbd(line)
    BY <1>3, KbdCalls DEF op_needs_label
  <1>4. CASE ~(line.op = "KBD" /\ LineKbd(line))
    BY <1>1, <1>2, <1>4 DEF LineLabel, Ignored, Call, Taken
  <1>5. QED
    BY <1>3, <1>4

(* A turn of the loop is a call of the linker or leaves it alone.          *)
LEMMA LineCalls ==
  ASSUME SymbolTypeOK, source \in Scripts, NEW line \in source.lines, ReadLine(line)
  PROVE  UNCHANGED core \/ Call
  <1>1. CASE LineConditional(line) \/ BadOpcode(line) \/ Ignored
    BY <1>1 DEF LineConditional, BadOpcode, Ignored
  <1>2. CASE LineEnd(line)
    BY <1>2 DEF LineEnd, Call
  <1>3. CASE LineIdle(line) \/ LineUnsupported(line)
    BY <1>3 DEF LineIdle, LineUnsupported, Ignored
  <1>4. CASE Throws("Bad label") /\ UNCHANGED <<core, end>>
    BY <1>4
  <1>5. CASE /\ ~(op_needs_label(line.op) /\ line.label = "")
             /\ LineNumber(line) \/ LinePath(line) \/ LineLabel(line)
    BY <1>5, NumberCalls, PathCalls, LabelCalls
  <1>6. QED
    BY <1>1, <1>2, <1>3, <1>4, <1>5 DEF ReadLine, Evaluate

(* After END only END itself is a call, if it is one.                      *)
LEMMA AfterEnd ==
  ASSUME end, NEW line, ReadLine(line)
  PROVE  UNCHANGED core \/ LineEnd(line)
  <1>1. CASE LineConditional(line) \/ BadOpcode(line) \/ Ignored
    BY <1>1 DEF LineConditional, BadOpcode, Ignored
  <1>2. CASE Throws("Bad label") /\ UNCHANGED <<core, end>>
    BY <1>2
  <1>3. CASE LineIdle(line) \/ LineUnsupported(line)
    BY <1>3 DEF LineIdle, LineUnsupported, Ignored
  <1>4. CASE op_after_end(line.op) /\ (LineNumber(line) \/ LinePath(line) \/ LineLabel(line))
    BY <1>4 DEF op_after_end, LineNumber, LinePath, LineLabel, NumberOps, PathOps
  <1>5. QED
    BY <1>1, <1>2, <1>3, <1>4 DEF ReadLine, Evaluate
-----------------------------------------------------------------------------
(* The invariants of the parts.                                            *)
LEMMA OpcodeOfLine ==
  ASSUME NEW line, ReadLine(line)
  PROVE  UNCHANGED condVars \/ \E value, message : Opcode(value, message)
  <1>1. CASE LineConditional(line)
    BY <1>1 DEF LineConditional, Opcode
  <1>2. CASE ~LineConditional(line)
    BY <1>2 DEF ReadLine, Evaluate, BadOpcode
  <1>3. QED
    BY <1>1, <1>2

LEMMA CondKeeps == CondInv /\ [Next]_vars => CondInv'
  <1> SUFFICES ASSUME CondInv, [Next]_vars PROVE CondInv'
    OBVIOUS
  <1>1. CASE UNCHANGED condVars
    BY <1>1 DEF CondInv, CondTypeOK, LevelMarked, AllOnes, condVars
  <1>2. ASSUME NEW line, ReadLine(line) PROVE CondInv'
    BY <1>1, <1>2, OpcodeOfLine, OpcodeInv
  <1>3. CASE EndOfFile \/ Exit \/ LinkFile \/ UNCHANGED vars
    BY <1>1, <1>3 DEF EndOfFile, Exit, LinkFile, vars
  <1>4. QED
    BY <1>2, <1>3 DEF Next

(* To the linker the program is nothing but calls.                         *)
LEMMA ProgramSteps ==
  ASSUME LinkerInv, ScriptTypeOK, [Next]_vars
  PROVE  LinkerStep
  <1>1. SymbolTypeOK /\ source \in Scripts
    BY DEF LinkerInv, ScriptTypeOK
  <1>2. CASE UNCHANGED core
    BY <1>2 DEF LinkerStep, core
  <1>3. ASSUME NEW line \in source.lines, ReadLine(line) PROVE LinkerStep
    <2>1. exited = Running
      BY <1>3 DEF ReadLine
    <2>2. UNCHANGED core \/ Call
      BY <1>1, <1>3, LineCalls
    <2>3. QED
      BY <1>2, <2>1, <2>2 DEF LinkerStep
  <1>4. CASE EndOfFile \/ UNCHANGED vars
    BY <1>2, <1>4 DEF EndOfFile, vars, linkerVars
  <1>5. CASE Exit
    <2>1. exited' \in Statuses \ {Running} /\ UNCHANGED <<progress, symbolVars>>
      BY <1>5 DEF Exit, Exits, Statuses, Running, EX_DATAERR
    <2>2. QED
      BY <2>1 DEF LinkerStep
  <1>6. CASE LinkFile
    BY <1>6 DEF LinkFile, LinkAny, LinkerStep, Call
  <1>7. QED
    BY <1>3, <1>4, <1>5, <1>6 DEF Next
-----------------------------------------------------------------------------
(* The variables of the loop.                                              *)
LEMMA TypesKeep ==
  ASSUME ScriptTypeOK, Counting, [Next]_vars
  PROVE  ScriptTypeOK' /\ Counting'
  <1>1. ASSUME NEW line \in source.lines, ReadLine(line) PROVE ScriptTypeOK' /\ Counting'
    <2>1. source' = source /\ source.length \in Nat
      BY <1>1, ScriptsAssumption DEF ReadLine, ScriptTypeOK
    <2>2. no' \in 0 .. source.length
      BY <1>1, <2>1 DEF ReadLine, ScriptTypeOK
    <2>3. errors' \in 0 .. MaxErrors /\ (~finished' => errors' < MaxErrors)
          /\ finished' \in BOOLEAN
      <3>1. errors \in 0 .. MaxErrors /\ errors < MaxErrors
        BY <1>1 DEF ReadLine, ScriptTypeOK, Counting
      <3>2. errors' = errors \/ errors' = errors + 1
        BY <1>1 DEF ReadLine
      <3>3. errors' \in 0 .. MaxErrors
        BY <3>1, <3>2, ErrorsAssumption
      <3>4. finished' = (errors' >= MaxErrors)
        BY <1>1 DEF ReadLine, TooMany
      <3>5. finished' \in BOOLEAN
        <4>1. (errors' >= MaxErrors) \in BOOLEAN
          BY <3>3, ErrorsAssumption, SMT
        <4>2. QED
          BY <3>4, <4>1, Zenon
      <3>6. ~finished' => ~(errors' >= MaxErrors)
        BY <3>4, Zenon
      <3>7. QED
        BY <3>3, <3>5, <3>6, ErrorsAssumption
    <2>4. end' \in BOOLEAN
      BY <1>1 DEF ReadLine, Evaluate, BadOpcode, LineConditional, LineNumber, LinePath,
                  LineLabel, LineEnd, LineIdle, LineUnsupported, ScriptTypeOK
    <2>5. QED
      BY <2>1, <2>2, <2>3, <2>4 DEF ScriptTypeOK, Counting
  <1>2. CASE EndOfFile
    BY <1>2 DEF EndOfFile, ScriptTypeOK, Counting
  <1>3. CASE Exit \/ LinkFile \/ UNCHANGED vars
    BY <1>3 DEF Exit, LinkFile, vars, scriptVars, ScriptTypeOK, Counting
  <1>4. QED
    BY <1>1, <1>2, <1>3 DEF Next

(* END leaves one segment, if it returns.                                  *)
LEMMA EndClears ==
  ASSUME EndLink, thrown' = Quiet, exited' = Running, settings'.lkv = 2
  PROVE  Len(segments') = 1
  <1>1. settings.lkv = 2
    BY DEF EndLink
  <1> DEFINE segs == AllButLast(segments)
             rels == AllButLast(relocations)
  <1>2. ~FinishFails(save_file, segs, rels)
    BY DEF FinishFails, SaveFails, Running, EX_CANTCREAT, EX_OSERR
  <1>3. ~ResolveThrows(segs, rels, FALSE)
    BY DEF ResolveThrows, Throws, Quiet, CodeExceedsBank
  <1>4. StartOver
    BY <1>1, <1>2, <1>3 DEF EndLink
  <1>5. segments' = Append(<<>>, NewSegment(made + 1, Len(<<>>) + 1))
    BY <1>4 DEF StartOver, AppendSegment
  <1>6. QED
    BY <1>5

(* END after END.                                                          *)
LEMMA EndAgain ==
  ASSUME LinkerInv, Ended, end, exited = Running, EndLink
  PROVE  /\ written' = written /\ lnk' = lnk
         /\ thrown' = Quiet
  <1>1. lnk' = lnk
    BY DEF EndLink
  <1>2. CASE settings.lkv # 2
    BY <1>1, <1>2 DEF EndLink, Returns
  <1>3. CASE settings.lkv = 2
    <2>1. segments \in Seq(Segments) /\ Len(segments) = 1
      BY <1>3 DEF LinkerInv, WellBuilt, Ended
    <2>2. AllButLast(segments) = <<>>
      BY <2>1 DEF AllButLast
    <2>3. QED
      BY <1>1, <1>3, <2>2 DEF EndLink, Returns
  <1>4. QED
    BY <1>2, <1>3

LEMMA EndKeeps ==
  ASSUME LinkerInv, ScriptTypeOK, Ended, [Next]_vars
  PROVE  Ended'
  <1>1. CASE UNCHANGED <<core, end>>
    BY <1>1 DEF Ended, core, progress
  <1>2. ASSUME NEW line \in source.lines, ReadLine(line) PROVE Ended'
    <2>1. script /\ exited = Running
      BY <1>2 DEF ReadLine
    <2>2. CASE LineEnd(line)
      <3>1. EndLink /\ script' = script
        BY <2>2 DEF LineEnd, EndLink
      <3>2. end' => thrown' = Quiet
        <4>1. CASE thrown' = Quiet
          BY <4>1
        <4>2. CASE thrown' # Quiet
          <5>1. end' = end
            BY <2>2, <4>2 DEF LineEnd
          <5>2. QED
            BY <2>1, <3>1, <4>2, <5>1, EndAgain
        <4>3. QED
          BY <4>1, <4>2
      <3>3. QED
        BY <2>1, <3>1, <3>2, EndClears DEF Ended
    <2>3. CASE ~LineEnd(line)
      <3>1. end' = end
        BY <1>2, <2>3 DEF ReadLine, Evaluate, BadOpcode, LineConditional, LineNumber,
                          LinePath, LineLabel, LineIdle, LineUnsupported
      <3>2. end => UNCHANGED core
        BY <1>2, <2>3, AfterEnd
      <3>3. CASE end
        BY <1>1, <3>1, <3>2, <3>3
      <3>4. QED
        BY <3>1, <3>3 DEF Ended
    <2>4. QED
      BY <2>2, <2>3
  <1>3. CASE EndOfFile \/ UNCHANGED vars
    BY <1>1, <1>3 DEF EndOfFile, vars, scriptVars, linkerVars
  <1>4. CASE Exit
    BY <1>4 DEF Exit, Exits, Running, EX_DATAERR, Ended, progress, scriptVars
  <1>5. CASE LinkFile
    BY <1>5 DEF LinkFile, scriptVars, Ended
  <1>6. QED
    BY <1>2, <1>3, <1>4, <1>5 DEF Next
-----------------------------------------------------------------------------
LEMMA ScriptStarts == Init => ScriptInv
  <1> SUFFICES ASSUME Init PROVE ScriptInv
    OBVIOUS
  <1>1. CondInv /\ PartsInv
    BY InitInv, PartsStart DEF Init
  <1>2. ScriptTypeOK /\ Counting
    <2>1. source.length \in Nat
      BY ScriptsAssumption DEF Init
    <2>2. /\ end = FALSE /\ source \in Scripts /\ no = 0 /\ errors = 0 /\ finished = FALSE
          /\ 0 \in 0 .. source.length /\ 0 \in 0 .. MaxErrors /\ 0 < MaxErrors
      BY <2>1, ErrorsAssumption DEF Init
    <2>3. QED
      BY <2>2 DEF ScriptTypeOK, Counting
  <1>3. Ended
    BY DEF Init, Ended
  <1>4. QED
    BY <1>1, <1>2, <1>3 DEF ScriptInv

LEMMA ScriptKeeps == ScriptInv /\ [Next]_vars => ScriptInv'
  <1> SUFFICES ASSUME ScriptInv, [Next]_vars PROVE ScriptInv'
    OBVIOUS
  <1>1. LinkerInv /\ ScriptTypeOK
    BY DEF ScriptInv, PartsInv
  <1>2. PartsInv'
    BY <1>1, ProgramSteps, PartsSteps DEF ScriptInv
  <1>3. Ended'
    BY <1>1, EndKeeps DEF ScriptInv
  <1>4. QED
    BY <1>2, <1>3, CondKeeps, TypesKeep DEF ScriptInv

LEMMA ScriptHolds == Spec => []ScriptInv
  BY ScriptStarts, ScriptKeeps, PTL DEF Spec

(* What was proved of the parts holds of the program: whatever the command *)
(* file, or the list of files, the register, the symbols and the segments  *)
(* are what they are when the parts run alone.  (process_script, evaluate) *)
THEOREM PartsKeep ==
  Spec => [](/\ LevelMarked /\ ActiveMeansChosen /\ CondTypeOK
             /\ LinkerTypeOK /\ VectorsParallel /\ FieldsInside /\ WrittenOnce
             /\ ScriptTypeOK)
  <1>1. ScriptInv => /\ LevelMarked /\ ActiveMeansChosen /\ CondTypeOK
                     /\ LinkerTypeOK /\ VectorsParallel /\ FieldsInside /\ WrittenOnce
                     /\ ScriptTypeOK
    BY CondOfInv, ShapeOfInv DEF ScriptInv, PartsInv, OnceInv
  <1>2. QED
    BY <1>1, ScriptHolds, PTL

(* Nor do the lines lose a reference: every one is accounted for, handed   *)
(* over in order and bound to the definition of its symbol.  (evaluate)    *)
THEOREM ReferencesKeep == Spec => [](ReferencesAccounted /\ HandedOver /\ BindsToDefinition)
  <1>1. ScriptInv => ReferencesAccounted /\ HandedOver /\ BindsToDefinition
    BY InvAccount, BindShows DEF ScriptInv, PartsInv
  <1>2. QED
    BY <1>1, ScriptHolds, PTL

(* The same of what a step may not do: a line keeps definitions and closed *)
(* segments, lets segments go only into files, and reports as undefined    *)
(* only what no file placed defines.  (evaluate, process_files)            *)
THEOREM StepsKeep ==
  Spec => FirstDefinitionStays /\ ClosedSegmentsKeep /\ LeavesWritten /\ UndefinedIsUndefined
  <1>1. ScriptInv /\ [Next]_vars => SymbolsKeep /\ ClosedKeep /\ LeavesStep /\ ReportsStep
    BY ProgramSteps, PartsSteps DEF ScriptInv, PartsInv
  <1>2. ScriptInv /\ [Next]_vars
          => /\ [SymbolsKeep]_linkerVars /\ [ClosedKeep]_linkerVars
             /\ [LeavesStep]_linkerVars /\ [ReportsStep]_linkerVars
    BY <1>1
  <1>3. QED
    BY <1>2, ScriptHolds, PTL
       DEF Spec, FirstDefinitionStays, SymbolsKeep, ClosedSegmentsKeep, ClosedKeep,
           LeavesWritten, LeavesStep, UndefinedIsUndefined, ReportsStep, Reports

(* After END no file is written and no unit is linked, whatever lines      *)
(* follow.  (evaluate, op_after_end)                                       *)
THEOREM EndStays == Spec => EndIsFinal
  <1>1. ScriptInv /\ [Next]_vars => [end => written' = written /\ lnk' = lnk]_vars
    <2> SUFFICES ASSUME ScriptInv, Next, end PROVE written' = written /\ lnk' = lnk
      OBVIOUS
    <2>1. ASSUME NEW line \in source.lines, ReadLine(line)
          PROVE  written' = written /\ lnk' = lnk
      <3>1. CASE UNCHANGED core
        BY <3>1 DEF core, progress
      <3>2. CASE LineEnd(line)
        BY <2>1, <3>2, EndAgain DEF LineEnd, ReadLine, ScriptInv, PartsInv
      <3>3. QED
        BY <2>1, <3>1, <3>2, AfterEnd
    <2>2. CASE EndOfFile \/ Exit
      BY <2>2 DEF EndOfFile, Exit, core, progress
    <2>3. ~LinkFile
      BY DEF LinkFile, ScriptInv, Ended
    <2>4. QED
      BY <2>1, <2>2, <2>3 DEF Next
  <1>2. QED
    BY <1>1, ScriptHolds, PTL DEF Spec, EndIsFinal

(* A line changes what is linked only in the chosen halves of all DOs      *)
(* around it, behind a DO with a bad operand or after a stray FIN.         *)
(* (evaluate, active)                                                      *)
THEOREM ChosenLinesLink == Spec => OnlyChosenLinesLink
  <1> DEFINE Chosen == (\A j \in DOMAIN Blocks : Blocks[j] = 1) \/ badDo \/ strayFin
  <1>1. ScriptInv /\ [Next]_vars => [core' # core /\ script /\ ~finished => Chosen]_vars
    <2> SUFFICES ASSUME ScriptInv, Next, core' # core, script, ~finished PROVE Chosen
      OBVIOUS
    <2>1. PICK line \in source.lines : ReadLine(line)
      BY DEF Next, EndOfFile, Exit, LinkFile, core
    <2>2. active
      BY <2>1 DEF ReadLine, Evaluate, BadOpcode, LineConditional, Ignored, core
    <2>3. QED
      BY <2>2, ChosenNow DEF ScriptInv, CondInv
  <1>2. QED
    BY <1>1, ScriptHolds, PTL DEF Spec, OnlyChosenLinesLink

LEMMA RejectsWhole ==
  ASSUME Call, thrown' \notin {Quiet, CodeExceedsBank, OffsetError}
  PROVE  UNCHANGED core
  <1>1. ASSUME NEW u \in Units PROVE ~(LinkUnit(u) \/ LinkFails(u))
    BY DEF LinkUnit, LinkFails, Returns, Exits
  <1>2. ASSUME NEW b \in Binaries PROVE ~(Import(b) \/ ImportFails(b))
    BY DEF Import, ImportFails, Returns, Exits
  <1>3. ASSUME NEW path \in Outputs PROVE ~Sav(path)
    BY DEF Sav, Finish, FinishFails, SaveFails, ResolveThrows, Finish3, Finish3Fails,
           Finish3Throws, Returns, Throws
  <1>4. ~EndLink
    BY DEF EndLink, Finish, FinishFails, SaveFails, ResolveThrows, Returns, Throws
  <1>5. ASSUME NEW value \in Int, Stored(value) \/ Attributed(value) PROVE UNCHANGED core
    BY <1>5 DEF Stored, Attributed, Lkv, Ver, Typ, Adr, Org, Knd, Ali, Ds, Stores, Returns,
                Throws, core, progress
  <1>6. ASSUME NEW name \in Names, Taken(name) PROVE UNCHANGED core
    BY <1>6 DEF Taken, LenLabel, PosLabel, Ext, DefineLabel, Returns, Throws, core
  <1>7. ASSUME NEW name \in Names, NEW value \in Int, Valued(name, value)
        PROVE  UNCHANGED core
    BY <1>7 DEF Valued, Equ, Eq, Geq, Kbd, DefineLabel, Returns
  <1>8. ~PosReset
    BY DEF PosReset, Returns
  <1>9. QED
    BY <1>1, <1>2, <1>3, <1>4, <1>5, <1>6, <1>7, <1>8 DEF Call

(* A line that is rejected, but for an output that failed, has changed     *)
(* nothing.  (evaluate)                                                    *)
THEOREM RejectedLines == Spec => RejectedLineChangesNothing
  <1>1. ScriptInv /\ [Next]_vars =>
          [thrown' \notin {Quiet, CodeExceedsBank, OffsetError} => UNCHANGED core]_vars
    <2> SUFFICES ASSUME ScriptInv, Next, thrown' \notin {Quiet, CodeExceedsBank, OffsetError}
                 PROVE  UNCHANGED core
      OBVIOUS
    <2>1. ASSUME NEW line \in source.lines, ReadLine(line) PROVE UNCHANGED core
      BY <2>1, LineCalls, RejectsWhole DEF ScriptInv, PartsInv, LinkerInv, ScriptTypeOK
    <2>2. CASE EndOfFile \/ Exit
      BY <2>2 DEF EndOfFile, Exit, Exits
    <2>3. CASE LinkFile
      <3>1. ~FinishFiles
        BY DEF FinishFiles, FinishFails, SaveFails, Exits
      <3>2. Call
        BY <2>3, <3>1 DEF LinkFile, LinkAny, Call
      <3>3. QED
        BY <3>2, RejectsWhole
    <2>4. QED
      BY <2>1, <2>2, <2>3 DEF Next
  <1>2. QED
    BY <1>1, ScriptHolds, PTL DEF Spec, RejectedLineChangesNothing
-----------------------------------------------------------------------------
(* A failed output, on the way to being told: an exception that is counted *)
(* or an exit with its status.                                             *)
Failing == thrown' # Quiet \/ exited' \notin {Running, 0}

Clean(segs) == \A ix \in DOMAIN segs : Untouched(segs[ix])

(* No segment has been touched by an output that failed, unless an error   *)
(* was counted.                                                            *)
Told ==
  script => /\ exited = 0 => errors = 0
            /\ exited \in {Running, 0} /\ errors = 0 => Clean(segments)

LEMMA CleanSet ==
  ASSUME LinkerInv, Clean(segments), NEW seg, Untouched(seg)
  PROVE  Clean([segments EXCEPT ![Current] = seg])
  BY DEF Clean

LEMMA CleanAppend ==
  ASSUME NEW segs \in Seq(Segments), Clean(segs), NEW number, NEW index
  PROVE  Clean(Append(segs, NewSegment(number, index)))
  <1> DEFINE new == NewSegment(number, index)
  <1>1. Untouched(new)
    BY DEF NewSegment, Untouched
  <1> HIDE DEF new
  <1>2. PICK S : S = Segments \cup {new}
    OBVIOUS
  <1>3. segs \in Seq(S) /\ new \in S
    BY <1>2
  <1>4. /\ DOMAIN Append(segs, new) = 1 .. Len(segs) + 1
        /\ \A ix \in 1 .. Len(segs) : Append(segs, new)[ix] = segs[ix]
        /\ Append(segs, new)[Len(segs) + 1] = new
    BY <1>3
  <1>5. DOMAIN segs = 1 .. Len(segs) /\ Len(segs) \in Nat
    OBVIOUS
  <1>6. ASSUME NEW ix \in DOMAIN Append(segs, new) PROVE Untouched(Append(segs, new)[ix])
    <2>1. CASE ix \in 1 .. Len(segs)
      BY <1>4, <1>5, <2>1 DEF Clean
    <2>2. CASE ix = Len(segs) + 1
      BY <1>1, <1>4, <2>2
    <2>3. QED
      BY <1>4, <1>5, <2>1, <2>2
  <1>7. QED
    BY <1>6 DEF Clean, new

(* A new segment behind segs, or alone.                                    *)
LEMMA CleanStart ==
  ASSUME NEW segs \in Seq(Segments), Clean(segs), NEW rels, AppendSegment(segs, rels)
  PROVE  Clean(segments')
  <1>1. segments' = Append(segs, NewSegment(made + 1, Len(segs) + 1))
    BY DEF AppendSegment
  <1>2. QED
    BY <1>1, CleanAppend

LEMMA StartsClean == ASSUME StartOver PROVE Clean(segments')
  <1>1. <<>> \in Seq(Segments) /\ Clean(<<>>)
    BY DEF Clean
  <1>2. QED
    BY <1>1, CleanStart DEF StartOver

LEMMA LinkUnitClean ==
  ASSUME LinkerInv, Clean(segments), NEW u \in Units, LinkUnit(u)
  PROVE  Clean(segments')
  <1> DEFINE unit == Rel[u]
             begin == Seg.size
             links == {Internal(ref, begin) : ref \in ReferencesOf(unit, begin, FALSE)}
             seg == Placed(Seg, u, SizeAfter(unit, begin), links)
  <1>1. segments' = [segments EXCEPT ![Current] = seg]
    BY DEF LinkUnit
  <1>2. Seg \in Segments /\ Untouched(Seg)
    BY CurrentOK DEF Clean, Seg, LinkerInv, WellBuilt
  <1>3. \A ref \in ReferencesOf(unit, begin, FALSE) : ref.sym = Itself
    <2>1. ASSUME NEW ref \in ReferencesOf(unit, begin, FALSE) PROVE ref.sym = Itself
      <3>1. PICK i \in Processed(unit) : /\ unit.records[i].external = FALSE
                                        /\ ref \in References(unit.records[i], begin)
        BY DEF ReferencesOf
      <3>2. QED
        BY <3>1 DEF References, Reference
    <2>2. QED
      BY <2>1
  <1>4. \A link \in links : link.ref.sym = Itself
    <2>1. ASSUME NEW link \in links PROVE link.ref.sym = Itself
      <3>1. PICK ref \in ReferencesOf(unit, begin, FALSE) : link = Internal(ref, begin)
        BY <2>1
      <3>2. link.ref = ref
        BY <3>1 DEF Internal, Bound
      <3>3. QED
        BY <1>3, <3>2
    <2>2. QED
      BY <2>1
  <1> HIDE DEF links
  <1>5. Untouched(seg)
    BY <1>2, <1>4 DEF Untouched, Placed, Segments
  <1> HIDE DEF seg
  <1>6. QED
    BY <1>1, <1>5, CleanSet

LEMMA ImportClean ==
  ASSUME LinkerInv, Clean(segments), NEW b \in Binaries, Import(b)
  PROVE  Clean(segments')
  <1> DEFINE seg == Placed(Seg, b, Seg.size + Bin[b].len, {})
  <1>1. segments' = segments \/ segments' = [segments EXCEPT ![Current] = seg]
    BY DEF Import
  <1>2. Seg \in Segments /\ Untouched(Seg)
    BY CurrentOK DEF Clean, Seg, LinkerInv, WellBuilt
  <1>3. Untouched(seg)
    BY <1>2 DEF Untouched, Placed, Segments
  <1> HIDE DEF seg
  <1>4. QED
    BY <1>1, <1>3, CleanSet

LEMMA AttributeClean ==
  ASSUME LinkerInv, Clean(segments), NEW value, Attributed(value)
  PROVE  Clean(segments')
  <1>1. Seg \in Segments /\ Untouched(Seg)
    BY CurrentOK DEF Clean, Seg, LinkerInv, WellBuilt
  <1> DEFINE org == [Seg EXCEPT !.org = value]
             kind == [Seg EXCEPT !.kind = value]
             alignment == [Seg EXCEPT !.alignment = value]
             space == [Seg EXCEPT !.reserved_space = value]
  <1>2. \/ segments' = segments
        \/ segments' = [segments EXCEPT ![Current] = org]
        \/ segments' = [segments EXCEPT ![Current] = kind]
        \/ segments' = [segments EXCEPT ![Current] = alignment]
        \/ segments' = [segments EXCEPT ![Current] = space]
    BY DEF Attributed, Org, Knd, Ali, Ds, Seg
  <1>3. Untouched(org) /\ Untouched(kind) /\ Untouched(alignment) /\ Untouched(space)
    BY <1>1 DEF Untouched, Segments
  <1> HIDE DEF org, kind, alignment, space
  <1>4. QED
    BY <1>2, <1>3, CleanSet

LEMMA NamedClean ==
  ASSUME LinkerInv, Clean(segments), NEW path \in Outputs
  PROVE  Clean(Named(path)) /\ Named(path) \in Seq(Segments)
  <1>1. Named(path) \in Seq(Segments)
    BY NamedOK DEF WellBuilt
  <1>2. Seg \in Segments /\ Untouched(Seg)
    BY CurrentOK DEF Clean, Seg, LinkerInv, WellBuilt
  <1> DEFINE seg == [Seg EXCEPT !.segname = basename(path), !.loadname = LoadName(path)]
  <1>3. Named(path) = segments \/ Named(path) = [segments EXCEPT ![Current] = seg]
    BY DEF Named, Seg
  <1>4. Untouched(seg)
    BY <1>2 DEF Untouched, Segments
  <1> HIDE DEF seg
  <1>5. QED
    BY <1>1, <1>3, <1>4, CleanSet

LEMMA SavClean ==
  ASSUME LinkerInv, Clean(segments), NEW path \in Outputs, Sav(path)
  PROVE  Failing \/ Clean(segments')
  <1>1. \/ StartOver
        \/ AppendSegment(Named(path), relocations)
        \/ SaveFails
        \/ thrown' = CodeExceedsBank \/ thrown' = OffsetError
    BY DEF Sav, FinishFails, Finish3Fails, ResolveThrows, Finish3Throws, Throws
  <1>2. QED
    BY <1>1, StartsClean, NamedClean, CleanStart
       DEF Failing, SaveFails, Quiet, CodeExceedsBank, OffsetError, EX_CANTCREAT, EX_OSERR,
           Running

LEMMA EndClean ==
  ASSUME LinkerInv, Clean(segments), EndLink
  PROVE  Failing \/ Clean(segments')
  <1>1. segments' = segments \/ StartOver \/ SaveFails \/ thrown' = CodeExceedsBank
    BY DEF EndLink, FinishFails, ResolveThrows, Throws
  <1>2. QED
    BY <1>1, StartsClean
       DEF Failing, SaveFails, Quiet, CodeExceedsBank, EX_CANTCREAT, EX_OSERR, Running

(* A call leaves every segment untouched, or fails.                        *)
LEMMA CallClean ==
  ASSUME LinkerInv, Clean(segments), Call
  PROVE  Failing \/ Clean(segments')
  <1>1. ASSUME NEW u \in Units, LinkUnit(u) \/ LinkFails(u) PROVE Failing \/ Clean(segments')
    BY <1>1, LinkUnitClean DEF LinkFails, Exits, Failing, EX_FATAL, Running
  <1>2. ASSUME NEW b \in Binaries, Import(b) \/ ImportFails(b)
        PROVE  Failing \/ Clean(segments')
    BY <1>2, ImportClean DEF ImportFails, Exits, Failing, EX_FATAL, Running
  <1>3. ASSUME NEW path \in Outputs, Sav(path) PROVE Failing \/ Clean(segments')
    BY <1>3, SavClean
  <1>4. ASSUME NEW value \in Int, Stored(value) \/ Attributed(value)
        PROVE  Clean(segments')
    <2>1. CASE Attributed(value)
      BY <2>1, AttributeClean
    <2>2. CASE Stored(value)
      BY <2>2 DEF Stored, Lkv, Ver, Typ, Adr
    <2>3. QED
      BY <1>4, <2>1, <2>2
  <1>5. ASSUME NEW name \in Names, Taken(name) PROVE segments' = segments
    BY <1>5 DEF Taken, LenLabel, PosLabel, Ext, DefineLabel, progress
  <1>6. ASSUME NEW name \in Names, NEW value \in Int, Valued(name, value)
        PROVE  segments' = segments
    BY <1>6 DEF Valued, Equ, Eq, Geq, Kbd, DefineLabel, progress
  <1>7. CASE PosReset
    BY <1>7 DEF PosReset
  <1>8. QED
    BY <1>1, <1>2, <1>3, <1>4, <1>5, <1>6, <1>7, EndClean DEF Call

(* Only the end of a list of files ends the program with status 0.         *)
LEMMA CallExits ==
  ASSUME Call, exited = Running
  PROVE  exited' # 0
  <1> DEFINE Lives == exited' = exited \/ exited' \in {EX_FATAL, EX_CANTCREAT, EX_OSERR}
  <1>1. ASSUME NEW u \in Units, LinkUnit(u) \/ LinkFails(u) PROVE Lives
    BY <1>1 DEF LinkUnit, LinkFails, Exits, Returns
  <1>2. ASSUME NEW b \in Binaries, Import(b) \/ ImportFails(b) PROVE Lives
    BY <1>2 DEF Import, ImportFails, Exits, Returns
  <1>3. ASSUME NEW path, NEW segs, NEW rels, NEW apart,
               \/ Finish(path, segs, rels) \/ FinishFails(path, segs, rels)
               \/ Finish3(path, segs, rels) \/ Finish3Fails(path, segs, rels)
               \/ ResolveThrows(segs, rels, apart) \/ Finish3Throws(segs, rels)
        PROVE  Lives
    <2>1. Returns \/ SaveFails \/ Throws(CodeExceedsBank) \/ Throws(OffsetError)
      BY <1>3 DEF Finish, FinishFails, Finish3, Finish3Fails, ResolveThrows, Finish3Throws
    <2>2. QED
      BY <2>1 DEF Returns, SaveFails, Throws
  <1>4. ASSUME NEW path \in Outputs, Sav(path) PROVE Lives
    <2>1. CASE Returns
      BY <2>1 DEF Returns
    <2>2. CASE ~Returns
      BY <1>3, <1>4, <2>2 DEF Sav
    <2>3. QED
      BY <2>1, <2>2
  <1>5. ASSUME EndLink PROVE Lives
    <2>1. CASE Returns
      BY <2>1 DEF Returns
    <2>2. CASE ~Returns
      BY <1>3, <1>5, <2>2 DEF EndLink
    <2>3. QED
      BY <2>1, <2>2
  <1>6. ASSUME NEW value \in Int, Stored(value) PROVE Lives
    BY <1>6 DEF Stored, Lkv, Ver, Typ, Adr, Returns, Throws
  <1>7. ASSUME NEW value \in Int, Attributed(value) PROVE Lives
    BY <1>7 DEF Attributed, Org, Knd, Ali, Ds, Returns, Throws
  <1>8. ASSUME NEW name, NEW value, NEW type, DefineLabel(name, value, type) PROVE Lives
    BY <1>8 DEF DefineLabel, Returns
  <1>9. ASSUME NEW name \in Names, Taken(name) PROVE Lives
    BY <1>8, <1>9 DEF Taken, LenLabel, PosLabel, Ext, Throws
  <1>10. ASSUME NEW name \in Names, NEW value \in Int, Valued(name, value) PROVE Lives
    BY <1>8, <1>10 DEF Valued, Equ, Eq, Geq, Kbd, Returns
  <1>11. ASSUME PosReset PROVE Lives
    BY <1>11 DEF PosReset, Returns
  <1>12. Lives
    BY <1>1, <1>2, <1>4, <1>5, <1>6, <1>7, <1>9, <1>10, <1>11 DEF Call
  <1>13. QED
    BY <1>12 DEF Running, EX_FATAL, EX_CANTCREAT, EX_OSERR

(* A line that changes the linker and throws is counted: it is no DO, ELS  *)
(* or FIN, and no line of a block that is skipped.                         *)
LEMMA FailureCounts ==
  ASSUME ScriptTypeOK, NEW line, ReadLine(line), core' # core, thrown' # Quiet
  PROVE  errors' # 0
  <1>1. active /\ active' = active
    BY DEF ReadLine, Evaluate, BadOpcode, LineConditional, Ignored, core, condVars
  <1>2. errors' = errors + 1
    BY <1>1 DEF ReadLine
  <1>3. errors \in Nat
    BY ErrorsAssumption DEF ScriptTypeOK
  <1>4. QED
    BY <1>2, <1>3

LEMMA ToldStarts == Init => Told
  <1> SUFFICES ASSUME Init PROVE Told
    OBVIOUS
  <1>1. exited = Running /\ errors = 0 /\ segments = <<NewSegment(1, 1)>>
    BY DEF Init, LinkerInit, ProcessInit
  <1> DEFINE first == NewSegment(1, 1)
  <1>2. Untouched(first)
    BY DEF Untouched, NewSegment
  <1> HIDE DEF first
  <1>3. \A ix \in DOMAIN <<first>> : <<first>>[ix] = first
    OBVIOUS
  <1>4. Clean(segments)
    BY <1>1, <1>2, <1>3 DEF Clean, first
  <1>5. QED
    BY <1>1, <1>4 DEF Told, Running

LEMMA ToldKeeps ==
  ASSUME ScriptInv, Told, [Next]_vars
  PROVE  Told'
  <1>1. Clean(segments)' = Clean(segments')
    BY DEF Clean, Untouched
  <1>2. ASSUME NEW line \in source.lines, ReadLine(line) PROVE Told'
    <2>1. script /\ exited = Running /\ SymbolTypeOK /\ source \in Scripts
      BY <1>2, LineCalls
         DEF ReadLine, ScriptInv, PartsInv, ScriptTypeOK, LinkerInv, Evaluate
    <2>2. errors \in Nat /\ (errors' = 0 => errors = 0)
      BY <1>2, ErrorsAssumption DEF ReadLine, ScriptInv, ScriptTypeOK
    <2>3. CASE UNCHANGED core
      BY <1>1, <2>1, <2>2, <2>3 DEF Told, core, progress, Running, Clean
    <2>4. CASE ~(UNCHANGED core)
      <3>1. Call
        BY <1>2, <2>1, <2>4, LineCalls
      <3>2. thrown' # Quiet => errors' # 0
        BY <1>2, <2>4, FailureCounts DEF ScriptInv
      <3>3. errors' = 0 => Clean(segments) /\ LinkerInv
        BY <2>1, <2>2 DEF ScriptInv, PartsInv, Told
      <3>4. exited' \in {Running, 0} /\ errors' = 0 => Clean(segments')
        BY <3>1, <3>2, <3>3, CallClean DEF Failing
      <3>5. exited' # 0
        BY <2>1, <3>1, CallExits
      <3>6. QED
        BY <1>1, <3>4, <3>5 DEF Told
    <2>5. QED
      BY <2>3, <2>4
  <1>3. CASE Exit
    BY <1>1, <1>3
       DEF Told, Exit, Exits, progress, scriptVars, Running, EX_DATAERR, Clean,
           ScriptInv, ScriptTypeOK
  <1>4. CASE EndOfFile \/ UNCHANGED vars
    BY <1>1, <1>4 DEF Told, EndOfFile, vars, linkerVars, core, progress, scriptVars, Clean
  <1>5. CASE LinkFile
    BY <1>5 DEF LinkFile, LinkAny, LinkUnit, LinkFails, FinishFiles, progress, Told
  <1>6. QED
    BY <1>2, <1>3, <1>4, <1>5 DEF Next

(* A command file whose output failed does not end with status 0: no line  *)
(* that follows brings the status back.  (process_script)                  *)
THEOREM FailureTold == Spec => []FailedOutputTold
  <1>1. Told => FailedOutputTold
    BY DEF Told, FailedOutputTold, Clean
  <1>2. QED
    BY <1>1, ToldStarts, ToldKeeps, ScriptHolds, PTL DEF Spec
=============================================================================
