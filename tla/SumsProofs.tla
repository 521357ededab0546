----------------------------- MODULE SumsProofs ------------------------------
(***************************************************************************)
(* What Sums(bytes)[k] is, for every sequence of numbers: the recursion of *)
(* its definition is taken apart once, here.                               *)
(***************************************************************************)
EXTENDS Sums, WellFoundedInduction, TLAPS

(* Induction over the numbers, for a set of them.                          *)
LEMMA Inductive ==
  ASSUME NEW S, 0 \in S, \A n \in Nat : n \in S => n + 1 \in S
  PROVE  Nat \subseteq S
  <1> DEFINE R == OpToRel(<, Nat)
             Missing == Nat \ S
  <1> SUFFICES ASSUME Missing # {} PROVE FALSE
    OBVIOUS
  <1>1. \E n \in Missing : \A m \in Missing : ~(<<m, n>> \in R)
    <2>1. IsWellFoundedOn(R, Nat)
      BY NatLessThanWellFounded
    <2>2. Missing \subseteq Nat
      OBVIOUS
    <2> HIDE DEF R, Missing
    <2>3. QED
      BY <2>1, <2>2, WFMin
  <1>2. \A x, y \in Nat : <<y, x>> \in R <=> y < x
    BY DEF OpToRel
  <1> HIDE DEF R
  <1>3. PICK n \in Missing : \A m \in Missing : ~(<<m, n>> \in R)
    BY <1>1
  <1>4. n \in Nat /\ n # 0 /\ n - 1 \in Nat /\ n - 1 < n
    OBVIOUS
  <1>5. n - 1 \notin Missing
    BY <1>2, <1>3, <1>4
  <1>6. QED
    BY <1>4, <1>5

(* The sums, without the recursion.                                        *)
LEMMA SumsAre ==
  ASSUME NEW bytes \in Seq(Nat)
  PROVE  /\ Sums(bytes) \in [0 .. Len(bytes) -> Nat]
         /\ Sums(bytes)[0] = 0
         /\ \A k \in 1 .. Len(bytes) :
              /\ Sums(bytes)[k] = Sums(bytes)[k - 1] + bytes[k]
              /\ Sums(bytes)[k] \in Nat /\ Sums(bytes)[k - 1] \in Nat
              /\ bytes[k] \in Nat
  <1> DEFINE Adds(g, n) == g = [k \in 0 .. n |-> IF k = 0 THEN 0 ELSE g[k - 1] + bytes[k]]
             Summed(n) == n <= Len(bytes) => \E g \in [0 .. n -> Nat] : Adds(g, n)
             S == {n \in Nat : Summed(n)}
  <1>0. Len(bytes) \in Nat /\ \A k \in 1 .. Len(bytes) : bytes[k] \in Nat
    OBVIOUS
  <1>1. Summed(0)
    <2>1. Adds([k \in 0 .. 0 |-> 0], 0) /\ [k \in 0 .. 0 |-> 0] \in [0 .. 0 -> Nat]
      OBVIOUS
    <2>2. QED
      BY <2>1
  <1>2. ASSUME NEW n \in Nat, Summed(n) PROVE Summed(n + 1)
    <2> SUFFICES ASSUME n + 1 <= Len(bytes)
                 PROVE  \E h \in [0 .. n + 1 -> Nat] : Adds(h, n + 1)
      OBVIOUS
    <2>1. n <= Len(bytes)
      BY <1>0
    <2>2. PICK g \in [0 .. n -> Nat] : Adds(g, n)
      BY <1>2, <2>1
    <2> DEFINE h == [k \in 0 .. n + 1 |-> IF k <= n THEN g[k] ELSE g[n] + bytes[n + 1]]
    <2>3. bytes[n + 1] \in Nat
      BY <1>0
    <2>4. h \in [0 .. n + 1 -> Nat]
      BY <2>3
    <2>5. ASSUME NEW k \in 0 .. n + 1
          PROVE  h[k] = IF k = 0 THEN 0 ELSE h[k - 1] + bytes[k]
      <3>1. CASE k = 0
        BY <2>2, <3>1
      <3>2. CASE k \in 1 .. n
        <4>1. g[k] = g[k - 1] + bytes[k]
          BY <2>2, <3>2
        <4>2. QED
          BY <3>2, <4>1
      <3>3. CASE k = n + 1
        BY <3>3
      <3>4. QED
        BY <3>1, <3>2, <3>3
    <2>6. Adds(h, n + 1)
      BY <2>5
    <2>7. QED
      BY <2>4, <2>6
  <1>3. \E g \in [0 .. Len(bytes) -> Nat] : Adds(g, Len(bytes))
    <2> HIDE DEF Adds
    <2>1. Nat \subseteq S
      <3>1. 0 \in S
        BY <1>1
      <3>2. ASSUME NEW n \in Nat, n \in S PROVE n + 1 \in S
        <4>1. Summed(n)
          BY <3>2
        <4>2. Summed(n + 1)
          BY <1>2, <4>1
        <4>3. QED
          BY <4>2
      <3> HIDE DEF S
      <3>3. QED
        BY <3>1, <3>2, Inductive
    <2>2. Summed(Len(bytes))
      BY <1>0, <2>1
    <2>3. QED
      BY <1>0, <2>2
  <1>4. Adds(Sums(bytes), Len(bytes))
    BY <1>3 DEF Sums
  <1> DEFINE sums == Sums(bytes)
             T == {n \in Nat : n <= Len(bytes) => sums[n] \in Nat}
  <1> HIDE DEF sums
  <1>5. sums = [k \in 0 .. Len(bytes) |-> IF k = 0 THEN 0 ELSE sums[k - 1] + bytes[k]]
    BY <1>4 DEF sums
  <1> HIDE DEF Adds
  <1>6. sums[0] = 0 /\ DOMAIN sums = 0 .. Len(bytes)
    BY <1>0, <1>5
  <1>7. ASSUME NEW k \in 1 .. Len(bytes) PROVE sums[k] = sums[k - 1] + bytes[k]
    <2>1. k \in 0 .. Len(bytes) /\ k # 0
      BY <1>0
    <2>2. QED
      BY <1>5, <2>1
  <1>8. 0 \in T
    BY <1>6
  <1>9. ASSUME NEW n \in Nat, n \in T PROVE n + 1 \in T
    <2> SUFFICES ASSUME n + 1 <= Len(bytes) PROVE sums[n + 1] \in Nat
      OBVIOUS
    <2>2. sums[n] \in Nat /\ bytes[n + 1] \in Nat
      BY <1>0, <1>9
    <2>3. sums[n + 1] = sums[n] + bytes[n + 1]
      <3>1. n + 1 \in 1 .. Len(bytes)
        BY <1>0
      <3>2. sums[n + 1] = sums[(n + 1) - 1] + bytes[n + 1]
        BY <1>7, <3>1
      <3>3. QED
        BY <3>2
    <2>4. QED
      BY <2>2, <2>3
  <1>10. \A k \in 0 .. Len(bytes) : sums[k] \in Nat
    <2>1. Nat \subseteq T
      <3> HIDE DEF T
      <3>1. QED
        BY <1>8, <1>9, Inductive
    <2>2. QED
      BY <1>0, <2>1
  <1>11. sums \in [0 .. Len(bytes) -> Nat]
    <2>1. sums = [k \in 0 .. Len(bytes) |-> sums[k]]
      BY <1>5
    <2>2. QED
      BY <1>10, <2>1
  <1>12. \A k \in 1 .. Len(bytes) : k - 1 \in 0 .. Len(bytes) /\ k \in 0 .. Len(bytes)
    BY <1>0
  <1>13. QED
    BY <1>0, <1>6, <1>7, <1>10, <1>11, <1>12 DEF sums

(* Each element larger by 10, what the table and the map take of a segment.*)
LEMMA SumsShift ==
  ASSUME NEW a \in Seq(Nat), NEW b \in Seq(Nat), Len(a) = Len(b),
         \A i \in 1 .. Len(a) : a[i] = b[i] + 10
  PROVE  \A k \in 0 .. Len(a) : Sums(a)[k] = Sums(b)[k] + 10 * k
  <1> DEFINE Shifted(k) == k <= Len(a) => Sums(a)[k] = Sums(b)[k] + 10 * k
             S == {k \in Nat : Shifted(k)}
  <1>1. Shifted(0)
    BY SumsAre
  <1>2. ASSUME NEW n \in Nat, Shifted(n) PROVE Shifted(n + 1)
    <2> SUFFICES ASSUME n + 1 <= Len(a)
                 PROVE  Sums(a)[n + 1] = Sums(b)[n + 1] + 10 * (n + 1)
      OBVIOUS
    <2>1. n + 1 \in 1 .. Len(a) /\ n + 1 \in 1 .. Len(b) /\ (n + 1) - 1 = n /\ n <= Len(a)
      OBVIOUS
    <2>2. /\ Sums(a)[n + 1] = Sums(a)[n] + a[n + 1]
          /\ Sums(b)[n + 1] = Sums(b)[n] + b[n + 1]
          /\ Sums(a)[n] \in Nat /\ Sums(b)[n] \in Nat /\ b[n + 1] \in Nat
      <3>1. /\ Sums(a)[n + 1] = Sums(a)[(n + 1) - 1] + a[n + 1]
            /\ Sums(a)[(n + 1) - 1] \in Nat
        BY <2>1, SumsAre
      <3>2. /\ Sums(b)[n + 1] = Sums(b)[(n + 1) - 1] + b[n + 1]
            /\ Sums(b)[(n + 1) - 1] \in Nat
            /\ b[n + 1] \in Nat
        BY <2>1, SumsAre
      <3>3. QED
        BY <2>1, <3>1, <3>2
    <2> DEFINE tens == 10 * n
    <2>3. Sums(a)[n] = Sums(b)[n] + tens
      BY <1>2, <2>1
    <2>4. a[n + 1] = b[n + 1] + 10
      BY <2>1
    <2>5. 10 * (n + 1) = tens + 10 /\ tens \in Nat
      OBVIOUS
    <2> HIDE DEF tens
    <2>6. Sums(a)[n + 1] = Sums(b)[n + 1] + (tens + 10)
      <3>1. \A x, y \in Nat : (x + tens) + (y + 10) = (x + y) + (tens + 10)
        BY <2>5
      <3>2. (Sums(b)[n] + tens) + (b[n + 1] + 10) = (Sums(b)[n] + b[n + 1]) + (tens + 10)
        BY <2>2, <3>1
      <3>3. QED
        BY <2>2, <2>3, <2>4, <3>2, Zenon
    <2>7. QED
      BY <2>5, <2>6
  <1>3. Nat \subseteq S
    <2>1. 0 \in S
      BY <1>1
    <2>2. ASSUME NEW n \in Nat, n \in S PROVE n + 1 \in S
      <3>1. Shifted(n)
        BY <2>2
      <3>2. Shifted(n + 1)
        BY <1>2, <3>1
      <3>3. QED
        BY <3>2
    <2> HIDE DEF S
    <2>3. QED
      BY <2>1, <2>2, Inductive
  <1>4. QED
    BY <1>3

(* One element more leaves the sums before it.                             *)
LEMMA SumsAppend ==
  ASSUME NEW a \in Seq(Nat), NEW x \in Nat
  PROVE  /\ Append(a, x) \in Seq(Nat)
         /\ \A k \in 0 .. Len(a) : Sums(Append(a, x))[k] = Sums(a)[k]
         /\ Sums(Append(a, x))[Len(a) + 1] = Sums(a)[Len(a)] + x
  <1> DEFINE b == Append(a, x)
             Alike(k) == k <= Len(a) => Sums(b)[k] = Sums(a)[k]
             S == {k \in Nat : Alike(k)}
  <1>1. /\ b \in Seq(Nat) /\ Len(b) = Len(a) + 1 /\ Len(a) \in Nat
        /\ \A i \in 1 .. Len(a) : b[i] = a[i]
        /\ b[Len(a) + 1] = x
    OBVIOUS
  <1> HIDE DEF b
  <1>2. Alike(0)
    BY <1>1, SumsAre
  <1>3. ASSUME NEW n \in Nat, Alike(n) PROVE Alike(n + 1)
    <2> SUFFICES ASSUME n + 1 <= Len(a) PROVE Sums(b)[n + 1] = Sums(a)[n + 1]
      OBVIOUS
    <2>1. n + 1 \in 1 .. Len(a) /\ n + 1 \in 1 .. Len(b) /\ (n + 1) - 1 = n /\ n <= Len(a)
      BY <1>1
    <2>2. Sums(a)[n + 1] = Sums(a)[(n + 1) - 1] + a[n + 1]
      BY <2>1, SumsAre
    <2>3. Sums(b)[n + 1] = Sums(b)[(n + 1) - 1] + b[n + 1]
      BY <1>1, <2>1, SumsAre
    <2>4. Sums(b)[n] = Sums(a)[n] /\ b[n + 1] = a[n + 1]
      BY <1>1, <1>3, <2>1
    <2>5. QED
      BY <2>1, <2>2, <2>3, <2>4
  <1>4. Nat \subseteq S
    <2>1. 0 \in S
      BY <1>2
    <2>2. ASSUME NEW n \in Nat, n \in S PROVE n + 1 \in S
      <3>1. Alike(n)
        BY <2>2
      <3>2. Alike(n + 1)
        BY <1>3, <3>1
      <3>3. QED
        BY <3>2
    <2> HIDE DEF S
    <2>3. QED
      BY <2>1, <2>2, Inductive
  <1>5. \A k \in 0 .. Len(a) : Sums(b)[k] = Sums(a)[k]
    <2>1. \A k \in Nat : k <= Len(a) => Sums(b)[k] = Sums(a)[k]
      BY <1>4
    <2>2. QED
      BY <1>1, <2>1
  <1>6. Len(a) + 1 \in 1 .. Len(b) /\ (Len(a) + 1) - 1 = Len(a)
    BY <1>1
  <1>7. Sums(b)[Len(a) + 1] = Sums(b)[(Len(a) + 1) - 1] + b[Len(a) + 1]
    BY <1>1, <1>6, SumsAre
  <1>8. Sums(b)[Len(a)] = Sums(a)[Len(a)]
    BY <1>1, <1>5
  <1>9. QED
    BY <1>1, <1>5, <1>6, <1>7, <1>8 DEF b

(* Append to a sequence of anything.                                       *)
LEMMA AppendIs ==
  ASSUME NEW a, NEW n \in Nat, a = [i \in 1 .. n |-> a[i]], NEW x
  PROVE  /\ Append(a, x) = [i \in 1 .. n + 1 |-> IF i <= n THEN a[i] ELSE x]
         /\ Len(Append(a, x)) = n + 1
  <1> DEFINE S == {a[i] : i \in 1 .. n} \cup {x}
  <1>1. a \in Seq(S) /\ x \in S /\ Len(a) = n
    OBVIOUS
  <1> HIDE DEF S
  <1> DEFINE b == Append(a, x)
  <1>2. /\ b \in Seq(S) /\ Len(b) = n + 1 /\ b[n + 1] = x
        /\ \A i \in 1 .. n : b[i] = a[i]
    BY <1>1
  <1> HIDE DEF b
  <1>3. b = [i \in 1 .. n + 1 |-> b[i]]
    BY <1>2
  <1>4. \A i \in 1 .. n + 1 : b[i] = IF i <= n THEN a[i] ELSE x
    BY <1>2
  <1>5. b = [i \in 1 .. n + 1 |-> IF i <= n THEN a[i] ELSE x]
    BY <1>3, <1>4
  <1>6. QED
    BY <1>2, <1>5 DEF b

(* Quotients, and their order.                                             *)
LEMMA Division ==
  ASSUME NEW x \in Nat, NEW d \in Nat, d > 0
  PROVE  /\ x \div d \in Nat /\ x % d \in Nat /\ x % d < d
         /\ x = d * (x \div d) + (x % d)
  <1>1. x \div d \in Nat
    OBVIOUS
  <1>2. (x % d) \in Nat
    OBVIOUS
  <1>3. (x % d) < d
    OBVIOUS
  <1>4. x = d * (x \div d) + (x % d)
    OBVIOUS
  <1>5. QED
    BY <1>1, <1>2, <1>3, <1>4

(* Multiples keep the order.                                               *)
LEMMA TimesOrder ==
  ASSUME NEW d \in Nat, NEW p \in Nat, NEW q \in Nat, p <= q
  PROVE  d * p <= d * q
  <1>1. PICK k \in Nat : q = p + k
    <2>1. q - p \in Nat /\ q = p + (q - p)
      OBVIOUS
    <2>2. QED
      BY <2>1
  <1>2. d * q = d * p + d * k /\ d * k \in Nat /\ d * p \in Nat
    BY <1>1
  <1>3. QED
    BY <1>2
=============================================================================
