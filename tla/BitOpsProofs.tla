---------------------------- MODULE BitOpsProofs ----------------------------
(***************************************************************************)
(* Proofs about MCBitOps, for every width of a word: findLastSet finds the *)
(* highest bit and countTrailingZeros the lowest, log2Envelope the least   *)
(* power of two that holds a number, the flags of a hash table are a state *)
(* for each bucket, the integer hash is a permutation of the words and the *)
(* string hash a polynomial.                                               *)
(***************************************************************************)
EXTENDS MCBitOps, NatProofs, FunctionTheorems, FiniteSetTheorems

-----------------------------------------------------------------------------
(* Numbers, halved. *)
LEMMA HalfFacts ==
  ASSUME NEW x \in Nat
  PROVE  /\ x \div 2 \in Nat /\ x % 2 \in {0, 1}
         /\ x = 2 * (x \div 2) + (x % 2)
<1>1. x \div 2 \in Nat /\ x % 2 \in 0..1 /\ x = (x \div 2) * 2 + (x % 2)
  BY QuotientFacts
<1>2. QED
  BY <1>1

LEMMA HalfUnique ==
  ASSUME NEW h \in Nat, NEW b \in {0, 1}
  PROVE  (2 * h + b) \div 2 = h /\ (2 * h + b) % 2 = b
OBVIOUS

-----------------------------------------------------------------------------
(* What table a word is combined by. *)
Tables == [{0, 1} -> [{0, 1} -> {0, 1}]]

LEMMA TableFacts ==
  /\ Both \in Tables /\ Either \in Tables /\ Differ \in Tables
  /\ \A a, b \in {0, 1} : /\ Both[a][b] = a * b
                          /\ Either[a][b] = IF a = 0 THEN b ELSE 1
                          /\ Differ[a][b] = IF a = b THEN 0 ELSE 1
BY DEF Tables, Both, Either, Differ

(* Combine satisfies its recursive definition. *)
LEMMA CombineEquation ==
  ASSUME NEW table \in Tables
  PROVE  /\ \A x, y \in Nat : Combine(table, x, y, 0) = 0
         /\ \A x, y, w \in Nat :
              Combine(table, x, y, w + 1) =
                2 * Combine(table, x \div 2, y \div 2, w) + table[x % 2][y % 2]
         /\ \A x, y, w \in Nat : Combine(table, x, y, w) \in Nat
<1> DEFINE P == Nat \X Nat
           halves(p) == <<p[1] \div 2, p[2] \div 2>>
           bit(p) == table[p[1] % 2][p[2] % 2]
           S == [P -> Nat]
           start == [p \in P |-> 0]
           step == [k \in Nat |-> [g \in S |-> [p \in P |-> 2 * g[halves(p)] + bit(p)]]]
           IsCombine(f) ==
             f = [w \in Nat |-> [p \in P |->
                    IF w = 0 THEN 0 ELSE 2 * f[w - 1][halves(p)] + bit(p)]]
           combine == CHOOSE f : IsCombine(f)
<1>1. \A x, y, w : Combine(table, x, y, w) = combine[w][<<x, y>>]
  BY DEF Combine
<1>2. \A p \in P : halves(p) \in P /\ bit(p) \in {0, 1}
  <2> SUFFICES ASSUME NEW p \in P PROVE halves(p) \in P /\ bit(p) \in {0, 1}
    OBVIOUS
  <2>1. p[1] \in Nat /\ p[2] \in Nat
    OBVIOUS
  <2>2. p[1] \div 2 \in Nat /\ p[1] % 2 \in {0, 1} /\ p[2] \div 2 \in Nat /\ p[2] % 2 \in {0, 1}
    BY <2>1, HalfFacts
  <2>3. table[p[1] % 2] \in [{0, 1} -> {0, 1}]
    BY <2>2 DEF Tables
  <2>4. QED
    BY <2>2, <2>3
<1>3. \A x, y \in Nat : /\ <<x, y>> \in P /\ halves(<<x, y>>) = <<x \div 2, y \div 2>>
                        /\ bit(<<x, y>>) = table[x % 2][y % 2]
  OBVIOUS
<1> HIDE DEF halves, bit
<1>4. start \in S /\ step \in [Nat -> [S -> S]]
  <2>1. \A g \in S : [p \in P |-> 2 * g[halves(p)] + bit(p)] \in S
    <3> SUFFICES ASSUME NEW g \in S, NEW p \in P
                 PROVE  2 * g[halves(p)] + bit(p) \in Nat
      OBVIOUS
    <3>1. g[halves(p)] \in Nat /\ bit(p) \in {0, 1}
      BY <1>2
    <3>2. QED
      BY <3>1
  <2>2. QED
    BY <2>1
<1>5. \A k \in Nat, g \in S : step[k][g] = [p \in P |-> 2 * g[halves(p)] + bit(p)]
  OBVIOUS
<1>6. start = [p \in P |-> 0]
  OBVIOUS
<1> HIDE DEF step, start, S, P
<1>7. PICK f : IsRecursion(f, S, start, step)
  BY <1>4, RecursionExists
<1>8. IsCombine(f)
  <2>1. \A w \in Nat : f[w] = [p \in P |->
                         IF w = 0 THEN 0 ELSE 2 * f[w - 1][halves(p)] + bit(p)]
    <3> SUFFICES ASSUME NEW w \in Nat
                 PROVE  f[w] = [p \in P |->
                           IF w = 0 THEN 0 ELSE 2 * f[w - 1][halves(p)] + bit(p)]
      OBVIOUS
    <3>1. CASE w = 0
      BY <1>6, <1>7, <3>1 DEF IsRecursion
    <3>2. CASE w # 0
      <4>1. w - 1 \in Nat /\ (w - 1) + 1 = w
        BY <3>2
      <4>2. f[w - 1] \in S /\ f[(w - 1) + 1] = step[w - 1][f[w - 1]]
        BY <1>7, <4>1 DEF IsRecursion
      <4>3. f[w] = [p \in P |-> 2 * f[w - 1][halves(p)] + bit(p)]
        BY <1>5, <4>1, <4>2
      <4>4. QED
        BY <3>2, <4>3
    <3>3. QED
      BY <3>1, <3>2
  <2>2. f = [w \in Nat |-> f[w]]
    BY <1>7 DEF IsRecursion
  <2>3. QED
    BY <2>1, <2>2
<1>9. IsCombine(combine)
  BY <1>8
<1> HIDE DEF combine
<1>10. \A p \in P : combine[0][p] = 0
  BY <1>9
<1>11. \A w \in Nat, p \in P : combine[w + 1][p] = 2 * combine[w][halves(p)] + bit(p)
  <2> SUFFICES ASSUME NEW w \in Nat
               PROVE  \A p \in P : combine[w + 1][p] = 2 * combine[w][halves(p)] + bit(p)
    OBVIOUS
  <2>1. w + 1 \in Nat /\ w + 1 # 0 /\ (w + 1) - 1 = w
    OBVIOUS
  <2>2. combine[w + 1] = [p \in P |->
          IF w + 1 = 0 THEN 0 ELSE 2 * combine[(w + 1) - 1][halves(p)] + bit(p)]
    BY <1>9, <2>1
  <2>3. QED
    BY <2>1, <2>2
<1>12. \A w \in Nat : \A p \in P : combine[w][p] \in Nat
  <2> DEFINE Good == {w \in Nat : \A p \in P : combine[w][p] \in Nat}
  <2>1. 0 \in Good
    BY <1>10
  <2>2. ASSUME NEW w \in Nat, w \in Good PROVE w + 1 \in Good
    <3> SUFFICES ASSUME NEW p \in P PROVE combine[w + 1][p] \in Nat
      OBVIOUS
    <3>1. halves(p) \in P /\ bit(p) \in {0, 1}
      BY <1>2
    <3>2. combine[w][halves(p)] \in Nat
      BY <2>2, <3>1
    <3>3. QED
      BY <1>11, <3>1, <3>2
  <2> HIDE DEF Good
  <2>3. \A w \in Nat : w \in Good
    BY <2>1, <2>2, SetInduction
  <2>4. QED
    BY <2>3 DEF Good
<1>13. ASSUME NEW x \in Nat, NEW y \in Nat
       PROVE  Combine(table, x, y, 0) = 0
  <2>1. Combine(table, x, y, 0) = combine[0][<<x, y>>]
    BY <1>1
  <2>2. combine[0][<<x, y>>] = 0
    BY <1>3, <1>10, Zenon
  <2>3. QED
    BY <2>1, <2>2, Zenon
<1>14. ASSUME NEW x \in Nat, NEW y \in Nat, NEW w \in Nat
       PROVE  Combine(table, x, y, w + 1) =
                2 * Combine(table, x \div 2, y \div 2, w) + table[x % 2][y % 2]
  <2>1. combine[w + 1][<<x, y>>] = 2 * combine[w][halves(<<x, y>>)] + bit(<<x, y>>)
    BY <1>3, <1>11, Zenon
  <2>2. Combine(table, x, y, w + 1) = combine[w + 1][<<x, y>>]
    BY <1>1
  <2>3. Combine(table, x \div 2, y \div 2, w) = combine[w][<<x \div 2, y \div 2>>]
    BY <1>1
  <2>4. halves(<<x, y>>) = <<x \div 2, y \div 2>> /\ bit(<<x, y>>) = table[x % 2][y % 2]
    BY <1>3, Zenon
  <2>5. QED
    BY <2>1, <2>2, <2>3, <2>4, Zenon
<1>15. ASSUME NEW x \in Nat, NEW y \in Nat, NEW w \in Nat
       PROVE  Combine(table, x, y, w) \in Nat
  <2>1. combine[w][<<x, y>>] \in Nat
    BY <1>3, <1>12, Zenon
  <2>2. Combine(table, x, y, w) = combine[w][<<x, y>>]
    BY <1>1
  <2>3. QED
    BY <2>1, <2>2, Zenon
<1>16. QED
  BY <1>13, <1>14, <1>15, Zenon

(* A combined word has no more bits than its width. *)
LEMMA CombineBounded ==
  ASSUME NEW table \in Tables
  PROVE  \A w, x, y \in Nat : Combine(table, x, y, w) \in 0..(Shl1[w] - 1)
<1> DEFINE Good == {w \in Nat : \A x, y \in Nat : Combine(table, x, y, w) < Shl1[w]}
<1>1. 0 \in Good
  <2>1. \A x, y \in Nat : Combine(table, x, y, 0) = 0
    BY CombineEquation
  <2>2. QED
    BY <2>1, Shl1Facts
<1>2. ASSUME NEW w \in Nat, w \in Good
      PROVE  w + 1 \in Good
  <2> SUFFICES ASSUME NEW x \in Nat, NEW y \in Nat
               PROVE  Combine(table, x, y, w + 1) < Shl1[w + 1]
    OBVIOUS
  <2> DEFINE half == Combine(table, x \div 2, y \div 2, w)
             bit == table[x % 2][y % 2]
  <2>1. x \div 2 \in Nat /\ y \div 2 \in Nat /\ x % 2 \in {0, 1} /\ y % 2 \in {0, 1}
    BY HalfFacts
  <2>2. half \in Nat /\ half < Shl1[w]
    BY <1>2, <2>1, CombineEquation
  <2>3. bit \in {0, 1}
    BY <2>1 DEF Tables
  <2>4. Combine(table, x, y, w + 1) = 2 * half + bit
    BY CombineEquation
  <2>5. Shl1[w] \in Nat /\ Shl1[w + 1] = 2 * Shl1[w]
    BY Shl1Facts
  <2> HIDE DEF half, bit
  <2>6. QED
    BY <2>2, <2>3, <2>4, <2>5
<1> HIDE DEF Good
<1>3. \A w \in Nat : w \in Good
  BY <1>1, <1>2, SetInduction
<1>4. \A w, x, y \in Nat : Combine(table, x, y, w) < Shl1[w]
  BY <1>3 DEF Good
<1>5. \A w \in Nat : Shl1[w] \in Nat
  BY Shl1Facts
<1>6. \A w, x, y \in Nat : Combine(table, x, y, w) \in Nat
  BY CombineEquation
<1>7. ASSUME NEW w \in Nat, NEW x \in Nat, NEW y \in Nat
      PROVE  Combine(table, x, y, w) \in 0..(Shl1[w] - 1)
  <2> DEFINE combined == Combine(table, x, y, w)
             power == Shl1[w]
  <2>1. combined \in Nat /\ power \in Nat /\ combined < power
    BY <1>4, <1>5, <1>6
  <2> HIDE DEF combined, power
  <2>2. combined \in 0..(power - 1)
    BY <2>1
  <2>3. QED
    BY <2>2 DEF combined, power
<1>8. QED
  BY <1>7

-----------------------------------------------------------------------------
(* The bits of a number, and of its half. *)
LEMMA BitFacts ==
  /\ \A x \in Nat : BitOf(x, 0) = x % 2
  /\ \A x, k \in Nat : BitOf(x, k) \in {0, 1} /\ BitOf(x, k + 1) = BitOf(x \div 2, k)
<1>1. \A x \in Nat : BitOf(x, 0) = x % 2
  BY Shl1Facts DEF BitOf
<1>2. ASSUME NEW x \in Nat, NEW k \in Nat
      PROVE  BitOf(x, k) \in {0, 1} /\ BitOf(x, k + 1) = BitOf(x \div 2, k)
  <2> DEFINE d == Shl1[k]
  <2>1. d \in Nat \ {0} /\ Shl1[k + 1] = 2 * d
    BY Shl1Facts
  <2>2. BitOf(x, k) = (x \div d) % 2 /\ BitOf(x \div 2, k) = ((x \div 2) \div d) % 2
    BY DEF BitOf
  <2>3. BitOf(x, k + 1) = (x \div (2 * d)) % 2
    BY <2>1 DEF BitOf
  <2> HIDE DEF d
  <2>4. x \div (2 * d) = (x \div 2) \div d
    <3>1. 2 \in Nat \ {0}
      OBVIOUS
    <3>2. QED
      BY <2>1, <3>1, DivideTwice
  <2>5. x \div d \in Nat
    BY <2>1, QuotientFacts
  <2>6. (x \div d) % 2 \in {0, 1}
    BY <2>5, HalfFacts
  <2>7. QED
    BY <2>2, <2>3, <2>4, <2>6
<1>3. QED
  BY <1>1, <1>2

(* Each bit of a combined word is what the table gives for the two. *)
LEMMA CombineBits ==
  ASSUME NEW table \in Tables
  PROVE  \A w, x, y \in Nat : \A k \in 0..(w - 1) :
           BitOf(Combine(table, x, y, w), k) = table[BitOf(x, k)][BitOf(y, k)]
<1> DEFINE Good == {w \in Nat : \A x, y \in Nat : \A k \in 0..(w - 1) :
                      BitOf(Combine(table, x, y, w), k) = table[BitOf(x, k)][BitOf(y, k)]}
<1>1. 0 \in Good
  OBVIOUS
<1>2. ASSUME NEW w \in Nat, w \in Good
      PROVE  w + 1 \in Good
  <2> SUFFICES ASSUME NEW x \in Nat, NEW y \in Nat, NEW k \in 0..w
               PROVE  BitOf(Combine(table, x, y, w + 1), k) = table[BitOf(x, k)][BitOf(y, k)]
    OBVIOUS
  <2> DEFINE half == Combine(table, x \div 2, y \div 2, w)
             bit == table[x % 2][y % 2]
  <2>1. x \div 2 \in Nat /\ y \div 2 \in Nat /\ x % 2 \in {0, 1} /\ y % 2 \in {0, 1}
    BY HalfFacts
  <2>2. half \in Nat
    BY <2>1, CombineEquation
  <2>3. bit \in {0, 1}
    BY <2>1 DEF Tables
  <2>4. Combine(table, x, y, w + 1) = 2 * half + bit
    BY CombineEquation
  <2>5. CASE k = 0
    <3>1. BitOf(2 * half + bit, 0) = (2 * half + bit) % 2
      <4> HIDE DEF half, bit
      <4>1. QED
        BY <2>2, <2>3, BitFacts
    <3>2. (2 * half + bit) % 2 = bit
      <4> HIDE DEF half, bit
      <4>1. QED
        BY <2>2, <2>3, HalfUnique
    <3>3. BitOf(x, 0) = x % 2 /\ BitOf(y, 0) = y % 2
      BY BitFacts
    <3>4. QED
      BY <2>4, <2>5, <3>1, <3>2, <3>3
  <2>6. CASE k # 0
    <3> DEFINE j == k - 1
    <3>1. j \in Nat /\ j \in 0..(w - 1) /\ k = j + 1
      BY <2>6
    <3> HIDE DEF j
    <3>2. BitOf(2 * half + bit, j + 1) = BitOf(half, j)
      <4> HIDE DEF half, bit
      <4>1. 2 * half + bit \in Nat /\ (2 * half + bit) \div 2 = half
        BY <2>2, <2>3, HalfUnique
      <4>2. QED
        BY <3>1, <4>1, BitFacts
    <3>3. BitOf(half, j) = table[BitOf(x \div 2, j)][BitOf(y \div 2, j)]
      BY <1>2, <2>1, <3>1
    <3>4. BitOf(x, j + 1) = BitOf(x \div 2, j) /\ BitOf(y, j + 1) = BitOf(y \div 2, j)
      BY <3>1, BitFacts
    <3>5. QED
      BY <2>4, <3>1, <3>2, <3>3, <3>4
  <2>7. QED
    BY <2>5, <2>6
<1> HIDE DEF Good
<1>3. \A w \in Nat : w \in Good
  BY <1>1, <1>2, SetInduction
<1>4. QED
  BY <1>3 DEF Good

(* The bits of And, Or and Xor. *)
LEMMA WordBitFacts ==
  ASSUME NEW x \in Nat, NEW y \in Nat, NEW w \in Nat
  PROVE  /\ And(x, y, w) \in 0..(Shl1[w] - 1)
         /\ Or(x, y, w) \in 0..(Shl1[w] - 1)
         /\ Xor(x, y, w) \in 0..(Shl1[w] - 1)
         /\ \A k \in 0..(w - 1) :
              /\ BitOf(And(x, y, w), k) = BitOf(x, k) * BitOf(y, k)
              /\ BitOf(Or(x, y, w), k) = IF BitOf(x, k) = 0 THEN BitOf(y, k) ELSE 1
              /\ BitOf(Xor(x, y, w), k) = IF BitOf(x, k) = BitOf(y, k) THEN 0 ELSE 1
<1>1. \A k \in 0..(w - 1) : BitOf(x, k) \in {0, 1} /\ BitOf(y, k) \in {0, 1}
  BY BitFacts
<1>2. \A table \in {Both, Either, Differ} :
        /\ Combine(table, x, y, w) \in 0..(Shl1[w] - 1)
        /\ \A k \in 0..(w - 1) :
             BitOf(Combine(table, x, y, w), k) = table[BitOf(x, k)][BitOf(y, k)]
  <2> SUFFICES ASSUME NEW table \in {Both, Either, Differ}
               PROVE  /\ Combine(table, x, y, w) \in 0..(Shl1[w] - 1)
                      /\ \A k \in 0..(w - 1) :
                           BitOf(Combine(table, x, y, w), k) = table[BitOf(x, k)][BitOf(y, k)]
    OBVIOUS
  <2>1. table \in Tables
    BY TableFacts
  <2>2. QED
    BY <2>1, CombineBounded, CombineBits
<1>3. QED
  BY <1>1, <1>2, TableFacts DEF And, Or, Xor

LEMMA AndBits ==
  ASSUME NEW x \in Nat, NEW y \in Nat, NEW w \in Nat
  PROVE  /\ And(x, y, w) \in Nat
         /\ \A k \in 0..(w - 1) : BitOf(And(x, y, w), k) = BitOf(x, k) * BitOf(y, k)
<1>1. And(x, y, w) \in 0..(Shl1[w] - 1) /\ Shl1[w] \in Nat
  BY WordBitFacts, Shl1Facts
<1>2. \A k \in 0..(w - 1) : BitOf(And(x, y, w), k) = BitOf(x, k) * BitOf(y, k)
  BY WordBitFacts
<1>3. QED
  BY <1>1, <1>2

LEMMA OrBits ==
  ASSUME NEW x \in Nat, NEW y \in Nat, NEW w \in Nat
  PROVE  /\ Or(x, y, w) \in Nat
         /\ \A k \in 0..(w - 1) :
              BitOf(Or(x, y, w), k) = IF BitOf(x, k) = 0 THEN BitOf(y, k) ELSE 1
<1>1. Or(x, y, w) \in 0..(Shl1[w] - 1) /\ Shl1[w] \in Nat
  BY WordBitFacts, Shl1Facts
<1>2. \A k \in 0..(w - 1) :
        BitOf(Or(x, y, w), k) = IF BitOf(x, k) = 0 THEN BitOf(y, k) ELSE 1
  <2> SUFFICES ASSUME NEW k \in 0..(w - 1)
               PROVE  BitOf(Or(x, y, w), k) = IF BitOf(x, k) = 0 THEN BitOf(y, k) ELSE 1
    OBVIOUS
  <2>1. BitOf(Combine(Either, x, y, w), k) = Either[BitOf(x, k)][BitOf(y, k)]
    BY TableFacts, CombineBits
  <2>2. BitOf(x, k) \in {0, 1} /\ BitOf(y, k) \in {0, 1}
    BY BitFacts
  <2>3. QED
    BY <2>1, <2>2, TableFacts DEF Or
<1>3. QED
  BY <1>1, <1>2

(* A word is known by its bits. *)
LEMMA SameBits ==
  \A w \in Nat : \A a, b \in 0..(Shl1[w] - 1) :
    (\A k \in 0..(w - 1) : BitOf(a, k) = BitOf(b, k)) => a = b
<1> DEFINE Good == {w \in Nat : \A a, b \in 0..(Shl1[w] - 1) :
                      (\A k \in 0..(w - 1) : BitOf(a, k) = BitOf(b, k)) => a = b}
<1>1. 0 \in Good
  BY Shl1Facts
<1>2. ASSUME NEW w \in Nat, w \in Good
      PROVE  w + 1 \in Good
  <2> SUFFICES ASSUME NEW a \in 0..(Shl1[w + 1] - 1), NEW b \in 0..(Shl1[w + 1] - 1),
                      \A k \in 0..w : BitOf(a, k) = BitOf(b, k)
               PROVE  a = b
    OBVIOUS
  <2>1. Shl1[w] \in Nat /\ Shl1[w + 1] = 2 * Shl1[w]
    BY Shl1Facts
  <2>2. /\ a \in Nat /\ a \div 2 \in Nat /\ a % 2 \in {0, 1} /\ a = 2 * (a \div 2) + (a % 2)
        /\ b \in Nat /\ b \div 2 \in Nat /\ b % 2 \in {0, 1} /\ b = 2 * (b \div 2) + (b % 2)
    <3>1. a \in Nat /\ b \in Nat
      BY <2>1
    <3>2. QED
      BY <3>1, HalfFacts
  <2> DEFINE g == a \div 2
             h == b \div 2
  <2>3. g \in 0..(Shl1[w] - 1) /\ h \in 0..(Shl1[w] - 1)
    <3> HIDE DEF g, h
    <3>1. g \in Nat /\ h \in Nat /\ a = 2 * g + (a % 2) /\ b = 2 * h + (b % 2)
      BY <2>2 DEF g, h
    <3>2. QED
      BY <2>1, <2>2, <3>1
  <2>4. \A k \in 0..(w - 1) : BitOf(g, k) = BitOf(h, k)
    <3> SUFFICES ASSUME NEW k \in 0..(w - 1)
                 PROVE  BitOf(a \div 2, k) = BitOf(b \div 2, k)
      OBVIOUS
    <3>1. k \in Nat /\ k + 1 \in 0..w
      OBVIOUS
    <3>2. QED
      BY <2>2, <3>1, BitFacts
  <2>5. g = h
    BY <1>2, <2>3, <2>4
  <2>6. a % 2 = b % 2
    <3>1. 0 \in 0..w
      OBVIOUS
    <3>2. BitOf(a, 0) = a % 2 /\ BitOf(b, 0) = b % 2
      BY <2>2, BitFacts
    <3>3. QED
      BY <3>1, <3>2
  <2>7. QED
    BY <2>2, <2>5, <2>6
<1> HIDE DEF Good
<1>3. \A w \in Nat : w \in Good
  BY <1>1, <1>2, SetInduction
<1>4. QED
  BY <1>3 DEF Good

-----------------------------------------------------------------------------
(* And, one bit at a time. *)
LEMMA AndEquation ==
  /\ \A x, y \in Nat : And(x, y, 0) = 0
  /\ \A x, y, w \in Nat : /\ And(x, y, w) \in Nat
                          /\ And(x, y, w + 1) =
                               2 * And(x \div 2, y \div 2, w) + (x % 2) * (y % 2)
<1>1. Both \in Tables
  BY TableFacts
<1>2. ASSUME NEW x \in Nat, NEW y \in Nat
      PROVE  And(x, y, 0) = 0
  BY <1>1, CombineEquation DEF And
<1>3. ASSUME NEW x \in Nat, NEW y \in Nat, NEW w \in Nat
      PROVE  /\ And(x, y, w) \in Nat
             /\ And(x, y, w + 1) = 2 * And(x \div 2, y \div 2, w) + (x % 2) * (y % 2)
  <2>1. x % 2 \in {0, 1} /\ y % 2 \in {0, 1}
    BY HalfFacts
  <2>2. Both[x % 2][y % 2] = (x % 2) * (y % 2)
    BY <2>1, TableFacts
  <2>3. Combine(Both, x, y, w) \in Nat
    BY <1>1, CombineEquation
  <2>4. Combine(Both, x, y, w + 1) =
          2 * Combine(Both, x \div 2, y \div 2, w) + Both[x % 2][y % 2]
    BY <1>1, CombineEquation
  <2>5. QED
    BY <2>2, <2>3, <2>4 DEF And
<1>4. QED
  BY <1>2, <1>3

LEMMA AndCommutes ==
  ASSUME NEW x \in Nat, NEW y \in Nat, NEW w \in Nat
  PROVE  And(x, y, w) = And(y, x, w)
<1>1. \A k \in 0..(w - 1) : BitOf(And(x, y, w), k) = BitOf(And(y, x, w), k)
  <2> SUFFICES ASSUME NEW k \in 0..(w - 1)
               PROVE  BitOf(And(x, y, w), k) = BitOf(And(y, x, w), k)
    OBVIOUS
  <2>1. BitOf(x, k) \in {0, 1} /\ BitOf(y, k) \in {0, 1}
    BY BitFacts
  <2>2. /\ BitOf(And(x, y, w), k) = BitOf(x, k) * BitOf(y, k)
        /\ BitOf(And(y, x, w), k) = BitOf(y, k) * BitOf(x, k)
    BY WordBitFacts
  <2>3. QED
    BY <2>1, <2>2
<1>2. And(x, y, w) \in 0..(Shl1[w] - 1) /\ And(y, x, w) \in 0..(Shl1[w] - 1)
  BY WordBitFacts
<1>3. QED
  BY <1>1, <1>2, SameBits

(* A mask leaves nothing that it has not. *)
LEMMA AndAtMost ==
  \A w, x, m \in Nat : And(x, m, w) <= m
<1> DEFINE Good == {w \in Nat : \A x, m \in Nat : And(x, m, w) <= m}
<1>1. 0 \in Good
  BY AndEquation
<1>2. ASSUME NEW w \in Nat, w \in Good
      PROVE  w + 1 \in Good
  <2> SUFFICES ASSUME NEW x \in Nat, NEW m \in Nat
               PROVE  And(x, m, w + 1) <= m
    OBVIOUS
  <2> DEFINE half == And(x \div 2, m \div 2, w)
             h == m \div 2
             a == x % 2
             b == m % 2
  <2>1. x \div 2 \in Nat /\ h \in Nat /\ a \in {0, 1} /\ b \in {0, 1} /\ m = 2 * h + b
    BY HalfFacts
  <2>2. half \in Nat /\ half <= h
    BY <1>2, <2>1, AndEquation
  <2>3. And(x, m, w + 1) = 2 * half + a * b
    BY AndEquation
  <2> HIDE DEF half, h, a, b
  <2>4. a * b <= b
    BY <2>1
  <2>5. QED
    BY <2>1, <2>2, <2>3, <2>4
<1> HIDE DEF Good
<1>3. \A w \in Nat : w \in Good
  BY <1>1, <1>2, SetInduction
<1>4. QED
  BY <1>3 DEF Good

(* Shifting the mask shifts what is left. *)
LEMMA AndShift ==
  ASSUME NEW m \in Nat, NEW w \in Nat
  PROVE  \A s \in Nat : \A x \in Nat :
           And(x, Shl1[s] * m, s + w) = Shl1[s] * And(x \div Shl1[s], m, w)
<1> DEFINE Good == {s \in Nat : \A x \in Nat :
                      And(x, Shl1[s] * m, s + w) = Shl1[s] * And(x \div Shl1[s], m, w)}
<1>1. 0 \in Good
  <2> SUFFICES ASSUME NEW x \in Nat
               PROVE  And(x, Shl1[0] * m, 0 + w) = Shl1[0] * And(x \div Shl1[0], m, w)
    OBVIOUS
  <2>1. Shl1[0] = 1
    BY Shl1Facts
  <2>2. 1 * m = m /\ 0 + w = w /\ x \div 1 = x /\ And(x, m, w) \in Nat
    BY AndEquation
  <2>3. QED
    BY <2>1, <2>2
<1>2. ASSUME NEW s \in Nat, s \in Good
      PROVE  s + 1 \in Good
  <2> SUFFICES ASSUME NEW x \in Nat
               PROVE  And(x, Shl1[s + 1] * m, (s + 1) + w) =
                        Shl1[s + 1] * And(x \div Shl1[s + 1], m, w)
    OBVIOUS
  <2> DEFINE d == Shl1[s]
             h == x \div 2
             n == d * m
             v == s + w
  <2>1. d \in Nat \ {0} /\ Shl1[s + 1] = 2 * d
    BY Shl1Facts
  <2>2. h \in Nat /\ x % 2 \in {0, 1} /\ v \in Nat /\ (s + 1) + w = v + 1
    BY HalfFacts
  <2>3. n \in Nat
    BY <2>1
  <2>4. And(h, n, v) = d * And(h \div d, m, w)
    BY <1>2, <2>2
  <2>5. x \div (2 * d) = h \div d
    <3> HIDE DEF d
    <3>1. 2 \in Nat \ {0}
      OBVIOUS
    <3>2. QED
      BY <2>1, <3>1, DivideTwice
  <2>6. h \div d \in Nat
    <3> HIDE DEF d, h
    <3>1. QED
      BY <2>1, <2>2, QuotientFacts
  <2>7. (2 * d) * m = 2 * n + 0
    BY <2>1
  <2> HIDE DEF d, h, n, v
  <2>8. 2 * n + 0 \in Nat /\ (2 * n + 0) \div 2 = n /\ (2 * n + 0) % 2 = 0
    BY <2>3, HalfUnique
  <2>9. And(x, 2 * n + 0, v + 1) = 2 * And(h, n, v) + (x % 2) * 0
    <3> DEFINE even == 2 * n + 0
    <3>1. even \in Nat /\ even \div 2 = n /\ even % 2 = 0
      BY <2>8
    <3> HIDE DEF even
    <3>2. And(x, even, v + 1) = 2 * And(x \div 2, even \div 2, v) + (x % 2) * (even % 2)
      BY <2>2, <3>1, AndEquation
    <3>3. And(x, even, v + 1) = 2 * And(h, n, v) + (x % 2) * 0
      BY <3>1, <3>2, Zenon DEF h
    <3>4. QED
      BY <3>3, Zenon DEF even
  <2> DEFINE rest == And(h \div d, m, w)
  <2>10. rest \in Nat
    BY <2>6, AndEquation
  <2> HIDE DEF rest
  <2>11. And(x, (2 * d) * m, v + 1) = (2 * d) * rest
    <3>1. And(x, (2 * d) * m, v + 1) = 2 * (d * rest) + (x % 2) * 0
      BY <2>4, <2>7, <2>9 DEF rest
    <3>2. QED
      BY <2>1, <2>2, <2>10, <3>1
  <2>12. QED
    BY <2>1, <2>2, <2>5, <2>11 DEF rest
<1> HIDE DEF Good
<1>3. \A s \in Nat : s \in Good
  BY <1>1, <1>2, SetInduction
<1>4. QED
  BY <1>3 DEF Good

(* A mask of the lowest bits leaves the remainder. *)
LEMMA AndMask ==
  ASSUME NEW w \in Nat
  PROVE  \A s \in Nat : \A x \in Nat : And(x, Shl1[s] - 1, s + w) = x % Shl1[s]
<1> DEFINE Good == {s \in Nat : \A x \in Nat : And(x, Shl1[s] - 1, s + w) = x % Shl1[s]}
<1>1. 0 \in Good
  <2> SUFFICES ASSUME NEW x \in Nat PROVE And(x, Shl1[0] - 1, 0 + w) = x % Shl1[0]
    OBVIOUS
  <2>1. Shl1[0] - 1 = 0 /\ 0 + w = w /\ x % Shl1[0] = 0
    BY Shl1Facts
  <2>2. And(x, 0, w) \in Nat /\ And(x, 0, w) <= 0
    BY AndEquation, AndAtMost
  <2>3. QED
    BY <2>1, <2>2
<1>2. ASSUME NEW s \in Nat, s \in Good
      PROVE  s + 1 \in Good
  <2> SUFFICES ASSUME NEW x \in Nat
               PROVE  And(x, Shl1[s + 1] - 1, (s + 1) + w) = x % Shl1[s + 1]
    OBVIOUS
  <2> DEFINE d == Shl1[s]
             h == x \div 2
             b == x % 2
             v == s + w
             q == h \div d
             r == h % d
  <2>1. d \in Nat \ {0} /\ Shl1[s + 1] = 2 * d
    BY Shl1Facts
  <2>2. h \in Nat /\ b \in {0, 1} /\ x = 2 * h + b /\ v \in Nat /\ (s + 1) + w = v + 1
    BY HalfFacts
  <2>3. And(h, d - 1, v) = r
    BY <1>2, <2>2
  <2>4. q \in Nat /\ r \in 0..(d - 1) /\ h = q * d + r
    <3> HIDE DEF d, h
    <3>1. QED
      BY <2>1, <2>2, QuotientFacts
  <2>5. /\ 2 * d - 1 = 2 * (d - 1) + 1 /\ d - 1 \in Nat /\ 2 * d - 1 \in Nat
        /\ (2 * d - 1) \div 2 = d - 1 /\ (2 * d - 1) % 2 = 1
    <3> HIDE DEF d
    <3>1. 2 * d - 1 = 2 * (d - 1) + 1 /\ d - 1 \in Nat /\ 2 * d - 1 \in Nat
      BY <2>1
    <3>2. QED
      BY <3>1, HalfUnique
  <2>6. And(x, 2 * d - 1, v + 1) = 2 * And(h, d - 1, v) + b * 1
    <3> HIDE DEF d, v
    <3>1. And(x, 2 * d - 1, v + 1) =
            2 * And(x \div 2, (2 * d - 1) \div 2, v) + (x % 2) * ((2 * d - 1) % 2)
      BY <2>2, <2>5, AndEquation
    <3>2. QED
      BY <2>5, <3>1
  <2> HIDE DEF d, h, b, v, q, r
  <2>7. 2 * r + b \in 0..(2 * d - 1) /\ x = q * (2 * d) + (2 * r + b)
    <3>1. x = 2 * (q * d + r) + b
      BY <2>2, <2>4
    <3>2. 2 * (q * d) = q * (2 * d)
      BY <2>1, <2>4
    <3>3. QED
      BY <2>1, <2>2, <2>4, <3>1, <3>2
  <2>8. x % (2 * d) = 2 * r + b
    <3> DEFINE e == 2 * d
               t == 2 * r + b
    <3>1. e \in Nat \ {0} /\ t \in 0..(e - 1) /\ x = q * e + t
      BY <2>1, <2>7
    <3> HIDE DEF e, t
    <3>2. x % e = t
      BY <2>4, <3>1, QuotientUnique
    <3>3. QED
      BY <3>2 DEF e, t
  <2>9. And(x, 2 * d - 1, v + 1) = 2 * r + b
    BY <2>2, <2>3, <2>4, <2>6
  <2>10. Shl1[s + 1] - 1 = 2 * d - 1
    BY <2>1
  <2>11. QED
    BY <2>1, <2>2, <2>8, <2>9, <2>10, Zenon
<1> HIDE DEF Good
<1>3. \A s \in Nat : s \in Good
  BY <1>1, <1>2, SetInduction
<1>4. QED
  BY <1>3 DEF Good

(* A word and its complement have no bit in common. *)
LEMMA AndComplement ==
  \A w \in Nat : \A x \in Nat : x < Shl1[w] => And(x, (Shl1[w] - 1) - x, w) = 0
<1> DEFINE Good == {w \in Nat : \A x \in Nat :
                      x < Shl1[w] => And(x, (Shl1[w] - 1) - x, w) = 0}
<1>1. 0 \in Good
  <2> SUFFICES ASSUME NEW x \in Nat, x < Shl1[0]
               PROVE  And(x, (Shl1[0] - 1) - x, 0) = 0
    OBVIOUS
  <2>1. (Shl1[0] - 1) - x \in Nat
    BY Shl1Facts
  <2>2. QED
    BY <2>1, AndEquation
<1>2. ASSUME NEW w \in Nat, w \in Good
      PROVE  w + 1 \in Good
  <2> SUFFICES ASSUME NEW x \in Nat, x < Shl1[w + 1]
               PROVE  And(x, (Shl1[w + 1] - 1) - x, w + 1) = 0
    OBVIOUS
  <2> DEFINE d == Shl1[w]
             h == x \div 2
             b == x % 2
             g == (d - 1) - h
             y == (Shl1[w + 1] - 1) - x
  <2>1. d \in Nat \ {0} /\ Shl1[w + 1] = 2 * d
    BY Shl1Facts
  <2>2. h \in Nat /\ b \in {0, 1} /\ x = 2 * h + b
    BY HalfFacts
  <2> HIDE DEF h, b, d
  <2>3. h < d
    BY <2>1, <2>2
  <2>4. g \in Nat /\ 1 - b \in {0, 1} /\ y = 2 * g + (1 - b)
    BY <2>1, <2>2, <2>3
  <2>5. And(h, g, w) = 0
    BY <1>2, <2>2, <2>3 DEF d
  <2> HIDE DEF g, y
  <2>6. y \in Nat /\ y \div 2 = g /\ y % 2 = 1 - b
    BY <2>4, HalfUnique
  <2>7. And(x, y, w + 1) = 2 * And(h, g, w) + b * (1 - b)
    <3>1. And(x, y, w + 1) = 2 * And(x \div 2, y \div 2, w) + (x % 2) * (y % 2)
      BY <2>6, AndEquation
    <3>2. QED
      BY <2>6, <3>1, Zenon DEF h, b
  <2>8. And(x, y, w + 1) = 0
    BY <2>2, <2>5, <2>7
  <2>9. QED
    BY <2>8 DEF y
<1> HIDE DEF Good
<1>3. \A w \in Nat : w \in Good
  BY <1>1, <1>2, SetInduction
<1>4. QED
  BY <1>3 DEF Good

(***************************************************************************)
(* A number and its negative have the least of the number's bits in common *)
(* and no other: the number is that power of two times an odd number.      *)
(***************************************************************************)
IsLeast(x, z) == \E e \in Nat : x = Shl1[z] * (2 * e + 1)

LEMMA NegativeCommon ==
  \A w \in Nat : \A x \in Nat : x # 0 /\ x < Shl1[w] =>
    \E z \in 0..(w - 1) : And(x, Shl1[w] - x, w) = Shl1[z] /\ IsLeast(x, z)
<1> DEFINE Good == {w \in Nat : \A x \in Nat : x # 0 /\ x < Shl1[w] =>
                      \E z \in 0..(w - 1) :
                        And(x, Shl1[w] - x, w) = Shl1[z] /\ IsLeast(x, z)}
<1>1. 0 \in Good
  BY Shl1Facts
<1>2. ASSUME NEW w \in Nat, w \in Good
      PROVE  w + 1 \in Good
  <2> SUFFICES ASSUME NEW x \in Nat, x # 0, x < Shl1[w + 1]
               PROVE  \E z \in 0..w :
                        And(x, Shl1[w + 1] - x, w + 1) = Shl1[z] /\ IsLeast(x, z)
    OBVIOUS
  <2> DEFINE d == Shl1[w]
             h == x \div 2
             b == x % 2
             y == Shl1[w + 1] - x
  <2>1. d \in Nat \ {0} /\ Shl1[w + 1] = 2 * d
    BY Shl1Facts
  <2>2. h \in Nat /\ b \in {0, 1} /\ x = 2 * h + b
    BY HalfFacts
  <2>3. ASSUME NEW g \in Nat, NEW c \in {0, 1}, y = 2 * g + c
        PROVE  And(x, y, w + 1) = 2 * And(h, g, w) + b * c
    <3> HIDE DEF y
    <3>1. y \in Nat /\ y \div 2 = g /\ y % 2 = c
      BY <2>3, HalfUnique
    <3>2. And(x, y, w + 1) = 2 * And(x \div 2, y \div 2, w) + (x % 2) * (y % 2)
      BY <3>1, AndEquation
    <3>3. QED
      BY <3>1, <3>2, Zenon
  <2>4. CASE b = 1
    <3> DEFINE g == (d - 1) - h
    <3>1. h < d
      <4> HIDE DEF d, h, b
      <4>1. QED
        BY <2>1, <2>2, <2>4
    <3>2. g \in Nat /\ y = 2 * g + 1
      <4> HIDE DEF d, h, b
      <4>1. QED
        BY <2>1, <2>2, <2>4, <3>1
    <3>3. And(h, g, w) = 0
      BY <2>2, <3>1, AndComplement
    <3> HIDE DEF y, g, h, b
    <3>4. And(x, y, w + 1) = 2 * And(h, g, w) + b * 1
      BY <2>3, <3>2
    <3>5. And(x, y, w + 1) = 1
      BY <2>4, <3>3, <3>4
    <3>6. Shl1[0] = 1 /\ 0 \in 0..w
      BY Shl1Facts
    <3>7. IsLeast(x, 0)
      BY <2>2, <2>4, <3>6 DEF IsLeast
    <3>8. QED
      BY <3>5, <3>6, <3>7 DEF y
  <2>5. CASE b = 0
    <3> DEFINE g == d - h
    <3>1. h # 0 /\ h < d
      <4> HIDE DEF d, h, b
      <4>1. QED
        BY <2>1, <2>2, <2>5
    <3>2. g \in Nat /\ y = 2 * g + 0
      <4> HIDE DEF d, h, b
      <4>1. QED
        BY <2>1, <2>2, <2>5, <3>1
    <3>3. PICK z \in 0..(w - 1) : And(h, g, w) = Shl1[z] /\ IsLeast(h, z)
      BY <1>2, <2>2, <3>1
    <3> HIDE DEF y, g, h, b
    <3>4. And(x, y, w + 1) = 2 * And(h, g, w) + b * 0
      BY <2>3, <3>2
    <3>5. z \in Nat /\ z + 1 \in 0..w /\ Shl1[z] \in Nat /\ Shl1[z + 1] = 2 * Shl1[z]
      BY Shl1Facts
    <3>6. And(x, y, w + 1) = Shl1[z + 1]
      BY <2>5, <3>3, <3>4, <3>5
    <3>7. IsLeast(x, z + 1)
      <4>1. PICK e \in Nat : h = Shl1[z] * (2 * e + 1)
        BY <3>3 DEF IsLeast
      <4>2. x = 2 * (Shl1[z] * (2 * e + 1))
        BY <2>2, <2>5, <4>1
      <4>3. 2 * (Shl1[z] * (2 * e + 1)) = (2 * Shl1[z]) * (2 * e + 1)
        BY <3>5
      <4>4. QED
        BY <3>5, <4>2, <4>3 DEF IsLeast
    <3>8. QED
      BY <3>5, <3>6, <3>7 DEF y
  <2>6. QED
    BY <2>2, <2>4, <2>5
<1> HIDE DEF Good
<1>3. \A w \in Nat : w \in Good
  BY <1>1, <1>2, SetInduction
<1>4. QED
  BY <1>3 DEF Good

(* That power of two is the highest that divides the number. *)
LEMMA LeastDivides ==
  ASSUME NEW x \in Nat, NEW z \in Nat, IsLeast(x, z)
  PROVE  x % Shl1[z] = 0 /\ x % Shl1[z + 1] = Shl1[z]
<1>1. PICK e \in Nat : x = Shl1[z] * (2 * e + 1)
  BY DEF IsLeast
<1> DEFINE d == Shl1[z]
           q == 2 * e + 1
           f == 2 * d
<1>2. d \in Nat \ {0} /\ Shl1[z + 1] = f /\ q \in Nat
  BY Shl1Facts
<1>3. f \in Nat \ {0} /\ d \in 0..(f - 1) /\ 0 \in 0..(d - 1)
  BY <1>2
<1>4. x = q * d + 0 /\ x = e * f + d
  <2> HIDE DEF d
  <2>1. x = d * (2 * e + 1)
    BY <1>1 DEF d
  <2>2. QED
    BY <1>2, <2>1
<1> HIDE DEF d, q, f
<1>5. (q * d + 0) % d = 0 /\ (e * f + d) % f = d
  BY <1>2, <1>3, QuotientUnique
<1>6. QED
  BY <1>2, <1>4, <1>5 DEF d

-----------------------------------------------------------------------------
LEMMA WordFacts ==
  /\ WordLog2 \in Nat \ {0} /\ WordBits \in Nat \ {0}
  /\ \A i \in 1..WordLog2 :
       /\ Halves[i] = Shl1[WordLog2 - i]
       /\ Halves[i] \in Nat \ {0}
       /\ 2 * Halves[i] = Shl1[WordLog2 - (i - 1)]
       /\ 2 * Halves[i] <= WordBits
<1>1. WordLog2 \in Nat \ {0} /\ WordBits \in Nat \ {0}
  BY WordAssumption, Shl1Facts DEF WordBits
<1>2. ASSUME NEW i \in 1..WordLog2
      PROVE  /\ Halves[i] = Shl1[WordLog2 - i]
             /\ Halves[i] \in Nat \ {0}
             /\ 2 * Halves[i] = Shl1[WordLog2 - (i - 1)]
             /\ 2 * Halves[i] <= WordBits
  <2> DEFINE k == WordLog2 - i
  <2>1. k \in Nat /\ WordLog2 - (i - 1) = k + 1 /\ k < WordLog2
    BY <1>1
  <2>2. Halves[i] = Shl1[k]
    BY <1>1 DEF Halves
  <2> HIDE DEF k
  <2>3. Shl1[k] \in Nat \ {0} /\ Shl1[k + 1] = 2 * Shl1[k] /\ 2 * Shl1[k] <= Shl1[WordLog2]
    BY <1>1, <2>1, Shl1Facts, Shl1Grows
  <2>4. QED
    BY <2>1, <2>2, <2>3 DEF k, WordBits
<1>3. QED
  BY <1>1, <1>2

(* The bits of a word's upper half, tested by a mask. *)
LEMMA UpperHalfFacts ==
  ASSUME NEW s \in Nat, 2 * s <= WordBits, NEW v \in Nat, v < Shl1[2 * s]
  PROVE  And(v, UpperHalf(s), WordBits) = Shl1[s] * (v \div Shl1[s])
<1> DEFINE d == Shl1[s]
           m == d - 1
           w == WordBits - s
           u == WordBits - 2 * s
<1>1. /\ d \in Nat \ {0} /\ m \in Nat /\ w \in Nat /\ u \in Nat
      /\ WordBits = s + w /\ w = s + u
  BY WordFacts, Shl1Facts
<1>2. Shl1[2 * s] = d * d
  <2>1. 2 * s = s + s
    OBVIOUS
  <2>2. QED
    BY <2>1, Shl1Sum
<1> DEFINE q == v \div d
<1>3. q \in Nat /\ q < d
  <2> HIDE DEF d
  <2>1. q \in Nat /\ v % d \in 0..(d - 1) /\ v = q * d + (v % d)
    BY <1>1, QuotientFacts
  <2> HIDE DEF q
  <2>2. d <= q => d * d <= q * d
    BY <1>1, <2>1, ProductGrows
  <2>3. QED
    BY <1>1, <1>2, <2>1, <2>2
<1>4. UpperHalf(s) = d * m
  BY <1>1, <1>2 DEF UpperHalf
<1>5. And(v, d * m, s + w) = d * And(q, m, w)
  <2> HIDE DEF m, w
  <2>1. QED
    BY <1>1, AndShift
<1>6. And(q, m, s + u) = q % d
  <2> HIDE DEF q, u
  <2>1. QED
    BY <1>1, <1>3, AndMask
<1>7. q % d = q
  <2> HIDE DEF q, d
  <2>1. q \in 0..(d - 1) /\ q = 0 * d + q /\ 0 \in Nat
    BY <1>1, <1>3
  <2>2. (0 * d + q) % d = q
    BY <1>1, <2>1, QuotientUnique
  <2>3. QED
    BY <2>1, <2>2, Zenon
<1>8. QED
  <2> HIDE DEF d, m, w, u, q
  <2>1. And(v, UpperHalf(s), WordBits) = d * q
    BY <1>1, <1>4, <1>5, <1>6, <1>7, Zenon
  <2>2. QED
    BY <2>1 DEF d, q

(* The search of findLastSet, as its recursive definition says. *)
SearchNext(i, acc) ==
  IF And(acc.val, UpperHalf(Halves[i]), WordBits) = 0 THEN acc
  ELSE [val |-> UpperPart(acc.val, Halves[i]), result |-> acc.result + Halves[i]]

LEMMA FindLastSetEquation ==
  ASSUME NEW x \in Nat \ {0}
  PROVE  \E search \in [0..WordLog2 -> [val : Nat, result : Nat]] :
           /\ search[0] = [val |-> x, result |-> 0]
           /\ \A i \in 1..WordLog2 : search[i] = SearchNext(i, search[i - 1])
           /\ FindLastSet(x) = search[WordLog2].result
<1> DEFINE S == [val : Nat, result : Nat]
           L == WordLog2
           start == [val |-> x, result |-> 0]
           step == [k \in Nat |-> [acc \in S |->
                      IF k < L THEN SearchNext(k + 1, acc) ELSE acc]]
           IsSearch(f) == f = [i \in 0..L |->
                                IF i = 0 THEN start ELSE SearchNext(i, f[i - 1])]
           search == CHOOSE f : IsSearch(f)
<1>1. FindLastSet(x) = search[L].result
  BY DEF FindLastSet, SearchNext
<1>2. L \in Nat
  BY WordFacts
<1>3. ASSUME NEW i \in 1..L, NEW acc \in S
      PROVE  SearchNext(i, acc) \in S
  <2> DEFINE h == Halves[i]
  <2>1. h \in Nat /\ Shl1[h] \in Nat \ {0} /\ acc.val \in Nat /\ acc.result \in Nat
    BY <1>3, WordFacts, Shl1Facts
  <2>2. UpperPart(acc.val, h) \in Nat
    BY <2>1, QuotientFacts DEF UpperPart
  <2> HIDE DEF h
  <2>3. [val |-> UpperPart(acc.val, h), result |-> acc.result + h] \in S
    BY <2>1, <2>2
  <2>4. QED
    BY <2>3 DEF SearchNext, h
<1>4. start \in S
  OBVIOUS
<1>5. \A k \in Nat, acc \in S : (IF k < L THEN SearchNext(k + 1, acc) ELSE acc) \in S
  <2> SUFFICES ASSUME NEW k \in Nat, NEW acc \in S, k < L
               PROVE  SearchNext(k + 1, acc) \in S
    OBVIOUS
  <2>1. k + 1 \in 1..L
    BY <1>2
  <2>2. QED
    BY <1>3, <2>1
<1>6. step \in [Nat -> [S -> S]]
  BY <1>5
<1>7. \A i \in 1..L, acc \in S : step[i - 1][acc] = SearchNext(i, acc)
  <2> SUFFICES ASSUME NEW i \in 1..L, NEW acc \in S
               PROVE  step[i - 1][acc] = SearchNext(i, acc)
    OBVIOUS
  <2>1. i - 1 \in Nat /\ i - 1 < L /\ (i - 1) + 1 = i
    BY <1>2
  <2>2. QED
    BY <2>1
<1> HIDE DEF start, step, S, L
<1>8. PICK f : f \in Runs(S, start, step, L)
  BY <1>2, <1>4, <1>6, RunExists
<1>9. IsSearch(f)
  <2>1. \A i \in 0..L : f[i] = IF i = 0 THEN start ELSE SearchNext(i, f[i - 1])
    <3> SUFFICES ASSUME NEW i \in 0..L, i # 0
                 PROVE  f[i] = SearchNext(i, f[i - 1])
      BY <1>8 DEF Runs
    <3>1. i \in 1..L /\ i - 1 \in 0..(L - 1) /\ i - 1 \in 0..L /\ (i - 1) + 1 = i
      BY <1>2
    <3>2. f[(i - 1) + 1] = step[i - 1][f[i - 1]] /\ f[i - 1] \in S
      BY <1>8, <3>1 DEF Runs
    <3>3. QED
      BY <1>7, <3>1, <3>2
  <2>2. f = [i \in 0..L |-> f[i]]
    BY <1>8 DEF Runs
  <2>3. QED
    BY <2>1, <2>2
<1>10. IsSearch(search)
  BY <1>9
<1> HIDE DEF search
<1>11. search[0] = start /\ \A i \in 1..L : search[i] = SearchNext(i, search[i - 1])
  BY <1>2, <1>10
<1>12. search \in [0..L -> S]
  <2> DEFINE Good == {i \in Nat : i <= L => search[i] \in S}
  <2>1. 0 \in Good
    BY <1>4, <1>11
  <2>2. ASSUME NEW i \in Nat, i \in Good
        PROVE  i + 1 \in Good
    <3> SUFFICES ASSUME i + 1 <= L PROVE search[i + 1] \in S
      OBVIOUS
    <3>1. i + 1 \in 1..L /\ (i + 1) - 1 = i /\ search[i] \in S
      BY <1>2, <2>2
    <3>2. search[i + 1] = SearchNext(i + 1, search[i])
      BY <1>11, <3>1
    <3>3. QED
      BY <1>3, <3>1, <3>2
  <2> HIDE DEF Good
  <2>3. \A i \in Nat : i \in Good
    BY <2>1, <2>2, SetInduction
  <2>4. \A i \in 0..L : search[i] \in S
    BY <1>2, <2>3 DEF Good
  <2>5. QED
    BY <1>10, <2>4
<1>13. QED
  BY <1>1, <1>11, <1>12 DEF start, S, L

(***************************************************************************)
(* One step of the search: the bits in which the last one is sought have   *)
(* become half as many, and those below them number result.                *)
(***************************************************************************)
Seeks(x, bits, acc) ==
  /\ acc.val # 0 /\ acc.val < Shl1[bits]
  /\ Shl1[acc.result] * acc.val <= x
  /\ x < Shl1[acc.result] * (acc.val + 1)

LEMMA SearchNextFacts ==
  ASSUME NEW x \in Nat, NEW i \in 1..WordLog2, NEW acc \in [val : Nat, result : Nat],
         Seeks(x, 2 * Halves[i], acc)
  PROVE  Seeks(x, Halves[i], SearchNext(i, acc))
<1> DEFINE s == Halves[i]
           v == acc.val
           r == acc.result
           d == Shl1[s]
           q == v \div d
           p == Shl1[r]
<1>1. /\ s \in Nat /\ 2 * s <= WordBits /\ v \in Nat \ {0} /\ r \in Nat
      /\ v < Shl1[2 * s] /\ p * v <= x /\ x < p * (v + 1)
  BY WordFacts DEF Seeks
<1>2. d \in Nat \ {0} /\ p \in Nat \ {0} /\ Shl1[2 * s] = d * d /\ Shl1[r + s] = p * d
  <2>1. d \in Nat \ {0} /\ p \in Nat \ {0}
    BY <1>1, Shl1Facts
  <2>2. 2 * s = s + s
    BY <1>1
  <2>3. QED
    BY <1>1, <2>1, <2>2, Shl1Sum
<1>3. And(v, UpperHalf(s), WordBits) = d * q
  <2> HIDE DEF s, v
  <2>1. QED
    BY <1>1, UpperHalfFacts
<1>4. SearchNext(i, acc) =
        IF d * q = 0 THEN acc ELSE [val |-> q, result |-> r + s]
  BY <1>3 DEF SearchNext, UpperPart
<1> HIDE DEF s, v, r, d, p
<1>5. q \in Nat /\ v % d \in 0..(d - 1) /\ v = q * d + (v % d)
  BY <1>1, <1>2, QuotientFacts
<1> HIDE DEF q
<1>6. CASE q = 0
  <2>1. d * q = 0 /\ v < d
    BY <1>2, <1>5, <1>6
  <2>2. SearchNext(i, acc) = acc
    BY <1>4, <2>1
  <2>3. QED
    BY <1>1, <2>1, <2>2 DEF Seeks, s, v, r, d, p
<1>7. CASE q # 0
  <2>1. d * q # 0
    BY <1>2, <1>5, <1>7
  <2>2. SearchNext(i, acc) = [val |-> q, result |-> r + s]
    BY <1>4, <2>1
  <2>3. q < d
    <3>1. d <= q => d * d <= q * d
      BY <1>2, <1>5, ProductGrows
    <3>2. QED
      BY <1>1, <1>2, <1>5, <3>1
  <2>4. (p * d) * q <= x
    <3>1. q * d <= v /\ q * d \in Nat
      BY <1>2, <1>5
    <3>2. (q * d) * p <= v * p
      BY <1>1, <1>2, <3>1, ProductGrows
    <3>3. (p * d) * q = (q * d) * p /\ v * p = p * v
      BY <1>1, <1>2, <1>5
    <3>4. p * v \in Nat /\ (q * d) * p \in Nat
      BY <1>1, <1>2, <3>1
    <3>5. QED
      BY <1>1, <3>2, <3>3, <3>4
  <2>5. x < (p * d) * (q + 1)
    <3>1. v + 1 <= (q + 1) * d
      <4>1. (q + 1) * d = q * d + d
        BY <1>2, <1>5
      <4>2. QED
        BY <1>1, <1>2, <1>5, <4>1
    <3>2. (q + 1) * d \in Nat /\ v + 1 \in Nat
      BY <1>1, <1>2, <1>5
    <3>3. (v + 1) * p <= ((q + 1) * d) * p
      BY <1>2, <3>1, <3>2, ProductGrows
    <3>4. ((q + 1) * d) * p = (p * d) * (q + 1) /\ (v + 1) * p = p * (v + 1)
      BY <1>1, <1>2, <1>5
    <3>5. p * (v + 1) \in Nat /\ ((q + 1) * d) * p \in Nat
      BY <1>2, <3>2
    <3>6. QED
      BY <1>1, <3>3, <3>4, <3>5
  <2>6. [val |-> q, result |-> r + s].val = q /\ [val |-> q, result |-> r + s].result = r + s
    OBVIOUS
  <2>7. Seeks(x, s, SearchNext(i, acc))
    BY <1>2, <1>7, <2>2, <2>3, <2>4, <2>5, <2>6 DEF Seeks, d
  <2>8. QED
    BY <2>7 DEF s
<1>8. QED
  BY <1>6, <1>7

(* findLastSet finds the last bit of any word but 0. *)
LEMMA FindLastSetFacts ==
  ASSUME NEW x \in Nat \ {0}, x < Shl1[WordBits]
  PROVE  /\ FindLastSet(x) \in Nat
         /\ Shl1[FindLastSet(x)] <= x /\ x < 2 * Shl1[FindLastSet(x)]
<1> DEFINE L == WordLog2
<1>1. PICK search \in [0..L -> [val : Nat, result : Nat]] :
        /\ search[0] = [val |-> x, result |-> 0]
        /\ \A i \in 1..L : search[i] = SearchNext(i, search[i - 1])
        /\ FindLastSet(x) = search[L].result
  BY FindLastSetEquation
<1>2. L \in Nat \ {0}
  BY WordFacts
<1> HIDE DEF L
<1> DEFINE Good == {i \in Nat : i <= L => Seeks(x, Shl1[L - i], search[i])}
<1>3. 0 \in Good
  <2>1. search[0].val = x /\ search[0].result = 0
    BY <1>1
  <2>2. Shl1[0] = 1 /\ Shl1[L - 0] = WordBits
    BY <1>2, Shl1Facts DEF WordBits, L
  <2>3. Seeks(x, WordBits, search[0])
    BY <2>1, <2>2 DEF Seeks
  <2>4. QED
    BY <2>2, <2>3
<1>4. ASSUME NEW i \in Nat, i \in Good
      PROVE  i + 1 \in Good
  <2> SUFFICES ASSUME i + 1 <= L
               PROVE  Seeks(x, Shl1[L - (i + 1)], search[i + 1])
    OBVIOUS
  <2> DEFINE j == i + 1
  <2>1. j \in 1..L /\ j - 1 = i /\ i \in 0..L /\ i <= L
    BY <1>2
  <2> HIDE DEF j
  <2>2. Halves[j] = Shl1[L - j] /\ 2 * Halves[j] = Shl1[L - (j - 1)]
    BY <2>1, WordFacts DEF L
  <2>3. search[j] = SearchNext(j, search[i]) /\ search[i] \in [val : Nat, result : Nat]
    BY <1>1, <2>1
  <2>4. Seeks(x, 2 * Halves[j], search[i])
    BY <1>4, <2>1, <2>2
  <2>5. Seeks(x, Halves[j], SearchNext(j, search[i]))
    BY <2>1, <2>3, <2>4, SearchNextFacts DEF L
  <2>6. QED
    BY <2>2, <2>3, <2>5 DEF j
<1> HIDE DEF Good
<1>5. L \in Good
  BY <1>2, <1>3, <1>4, SetInduction
<1>6. Seeks(x, Shl1[L - L], search[L])
  BY <1>2, <1>5 DEF Good
<1>7. Shl1[L - L] = 1 /\ Shl1[1] = 2
  <2>1. L - L = 0 /\ 0 \in Nat /\ 0 + 1 = 1
    BY <1>2
  <2>2. Shl1[0] = 1 /\ Shl1[0 + 1] = 2 * Shl1[0]
    BY <2>1, Shl1Facts
  <2>3. QED
    BY <2>1, <2>2
<1> DEFINE v == search[L].val
           r == search[L].result
<1>8. v \in Nat /\ r \in Nat /\ FindLastSet(x) = r /\ Shl1[r] \in Nat
  <2>1. L \in 0..L
    BY <1>2
  <2>2. search[L] \in [val : Nat, result : Nat]
    BY <1>1, <2>1
  <2>3. v \in Nat /\ r \in Nat
    BY <2>2
  <2>4. FindLastSet(x) = r
    BY <1>1
  <2> HIDE DEF v, r
  <2>5. QED
    BY <2>3, <2>4, Shl1Facts
<1>9. v # 0 /\ v < 2 /\ Shl1[r] * v <= x /\ x < Shl1[r] * (v + 1)
  BY <1>6, <1>7 DEF Seeks
<1> HIDE DEF v, r
<1>10. v = 1
  BY <1>8, <1>9
<1>11. QED
  BY <1>8, <1>9, <1>10

-----------------------------------------------------------------------------
(* The bits at and below a power that is added. *)
LEMMA SplitBits ==
  ASSUME NEW k \in Nat, NEW q \in Nat, NEW r \in Nat, r < Shl1[k]
  PROVE  /\ BitOf(q * Shl1[k] + r, k) = q % 2
         /\ \A j \in 0..(k - 1) : BitOf(q * Shl1[k] + r, j) = BitOf(r, j)
<1> DEFINE d == Shl1[k]
           x == q * d + r
<1>1. d \in Nat \ {0}
  BY Shl1Facts
<1>2. x \in Nat /\ x \div d = q
  <2> HIDE DEF d
  <2>1. r \in 0..(d - 1)
    BY <1>1 DEF d
  <2>2. QED
    BY <1>1, <2>1, QuotientUnique
<1>3. BitOf(x, k) = q % 2
  BY <1>2 DEF BitOf
<1>4. ASSUME NEW j \in 0..(k - 1)
      PROVE  BitOf(x, j) = BitOf(r, j)
  <2> DEFINE i == (k - 1) - j
             c == Shl1[j]
             e == Shl1[i]
             g == r \div c
             t == r % c
  <2>1. i \in Nat /\ j \in Nat /\ k = (i + 1) + j /\ i + 1 \in Nat
    OBVIOUS
  <2> HIDE DEF i
  <2>2. c \in Nat \ {0} /\ e \in Nat /\ d = (2 * e) * c
    <3>1. Shl1[(i + 1) + j] = Shl1[i + 1] * Shl1[j] /\ Shl1[i + 1] = 2 * Shl1[i]
      BY <2>1, Shl1Sum, Shl1Facts
    <3>2. QED
      BY <2>1, <3>1, Shl1Facts
  <2> HIDE DEF c, d, e
  <2>3. g \in Nat /\ t \in 0..(c - 1) /\ r = g * c + t
    BY <2>2, QuotientFacts
  <2> HIDE DEF g, t
  <2>4. x = (2 * (q * e) + g) * c + t /\ 2 * (q * e) + g \in Nat
    <3>1. q * ((2 * e) * c) = (2 * (q * e)) * c
      BY <2>2
    <3>2. (2 * (q * e) + g) * c = (2 * (q * e)) * c + g * c
      BY <2>2, <2>3
    <3>3. QED
      BY <2>2, <2>3, <3>1, <3>2
  <2> HIDE DEF x
  <2>5. x \div c = 2 * (q * e) + g
    <3> DEFINE u == 2 * (q * e) + g
    <3> HIDE DEF u
    <3>1. u \in Nat /\ x = u * c + t
      BY <2>4 DEF u
    <3>2. x \div c = u
      BY <2>2, <2>3, <3>1, QuotientUnique
    <3>3. QED
      BY <3>2 DEF u
  <2>6. (2 * (q * e) + g) % 2 = g % 2
    <3> DEFINE f == q * e
    <3>1. f \in Nat
      BY <2>2
    <3> HIDE DEF f
    <3>2. (2 * f + g) % 2 = g % 2
      BY <2>3, <3>1
    <3>3. QED
      BY <3>2 DEF f
  <2>7. QED
    BY <2>5, <2>6 DEF BitOf, c, g
<1>5. QED
  BY <1>3, <1>4

(* FromBits is the word with those bits. *)
LEMMA FromBitsFacts ==
  ASSUME NEW width \in Nat, NEW bits \in [0..(width - 1) -> {0, 1}]
  PROVE  /\ FromBits(bits, width) \in 0..(Shl1[width] - 1)
         /\ \A k \in 0..(width - 1) : BitOf(FromBits(bits, width), k) = bits[k]
<1> DEFINE bit(k) == IF k < width THEN bits[k] ELSE 0
           step == [k \in Nat |-> [x \in Nat |-> x + bit(k) * Shl1[k]]]
           IsSum(f) == f = [k \in 0..width |->
                              IF k = 0 THEN 0 ELSE f[k - 1] + bits[k - 1] * Shl1[k - 1]]
           sum == CHOOSE f : IsSum(f)
<1>1. FromBits(bits, width) = sum[width]
  BY DEF FromBits
<1>2. \A k \in Nat : bit(k) \in {0, 1} /\ Shl1[k] \in Nat
  BY Shl1Facts
<1>3. step \in [Nat -> [Nat -> Nat]]
  <2> HIDE DEF bit
  <2>1. \A k, x \in Nat : x + bit(k) * Shl1[k] \in Nat
    BY <1>2
  <2>2. QED
    BY <2>1
<1>4. \A k, x \in Nat : step[k][x] = x + bit(k) * Shl1[k]
  OBVIOUS
<1> HIDE DEF step
<1>5. PICK f : f \in Runs(Nat, 0, step, width)
  <2>1. 0 \in Nat
    OBVIOUS
  <2>2. Runs(Nat, 0, step, width) # {}
    BY <1>3, <2>1, RunExists
  <2>3. QED
    BY <2>2
<1>6. IsSum(f)
  <2>1. \A i \in 0..width : f[i] = IF i = 0 THEN 0 ELSE f[i - 1] + bits[i - 1] * Shl1[i - 1]
    <3> SUFFICES ASSUME NEW i \in 0..width, i # 0
                 PROVE  f[i] = f[i - 1] + bits[i - 1] * Shl1[i - 1]
      BY <1>5 DEF Runs
    <3>1. i - 1 \in 0..(width - 1) /\ i - 1 \in Nat /\ (i - 1) + 1 = i /\ i - 1 \in 0..width
      OBVIOUS
    <3>2. f[(i - 1) + 1] = step[i - 1][f[i - 1]] /\ f[i - 1] \in Nat
      BY <1>5, <3>1 DEF Runs
    <3>3. step[i - 1][f[i - 1]] = f[i - 1] + bit(i - 1) * Shl1[i - 1]
      BY <1>4, <3>1, <3>2
    <3>4. bit(i - 1) = bits[i - 1]
      BY <3>1
    <3>5. QED
      BY <3>1, <3>2, <3>3, <3>4
  <2>2. f = [i \in 0..width |-> f[i]]
    BY <1>5 DEF Runs
  <2>3. QED
    BY <2>1, <2>2
<1>7. IsSum(sum)
  BY <1>6
<1> HIDE DEF sum
<1>8. sum[0] = 0 /\ \A k \in 0..(width - 1) : sum[k + 1] = sum[k] + bits[k] * Shl1[k]
  <2>1. sum[0] = 0
    BY <1>7
  <2>2. ASSUME NEW k \in 0..(width - 1)
        PROVE  sum[k + 1] = sum[k] + bits[k] * Shl1[k]
    <3>1. k + 1 \in 0..width /\ k + 1 # 0 /\ (k + 1) - 1 = k
      OBVIOUS
    <3>2. sum[k + 1] = sum[(k + 1) - 1] + bits[(k + 1) - 1] * Shl1[(k + 1) - 1]
      BY <1>7, <3>1
    <3>3. QED
      BY <3>1, <3>2
  <2>3. QED
    BY <2>1, <2>2
<1> DEFINE Holds(k) == /\ sum[k] \in Nat /\ sum[k] < Shl1[k]
                       /\ \A j \in 0..(k - 1) : BitOf(sum[k], j) = bits[j]
           Good == {k \in Nat : k <= width => Holds(k)}
<1>9. 0 \in Good
  BY <1>8, Shl1Facts
<1>10. ASSUME NEW k \in Nat, k \in Good
       PROVE  k + 1 \in Good
  <2> SUFFICES ASSUME k + 1 <= width PROVE Holds(k + 1)
    OBVIOUS
  <2> DEFINE x == sum[k]
             b == bits[k]
             d == Shl1[k]
  <2>1. /\ k \in 0..(width - 1) /\ x \in Nat /\ x < d /\ b \in {0, 1}
        /\ \A j \in 0..(k - 1) : BitOf(x, j) = bits[j]
    BY <1>10
  <2>2. d \in Nat /\ Shl1[k + 1] = 2 * d
    BY Shl1Facts
  <2>3. sum[k + 1] = b * d + x
    <3>1. sum[k + 1] = x + b * d
      BY <1>8, <2>1
    <3> HIDE DEF x, b, d
    <3>2. QED
      BY <2>1, <2>2, <3>1
  <2>4. b * d + x \in Nat /\ b * d + x < 2 * d
    <3> HIDE DEF x, b, d
    <3>1. QED
      BY <2>1, <2>2
  <2>5. BitOf(b * d + x, k) = b % 2 /\ \A j \in 0..(k - 1) : BitOf(b * d + x, j) = BitOf(x, j)
    <3> HIDE DEF x, b
    <3>1. b \in Nat
      BY <2>1
    <3>2. QED
      BY <2>1, <3>1, SplitBits
  <2>6. b % 2 = b
    <3> HIDE DEF b
    <3>1. QED
      BY <2>1
  <2>7. \A j \in 0..((k + 1) - 1) : BitOf(b * d + x, j) = bits[j]
    <3> SUFFICES ASSUME NEW j \in 0..((k + 1) - 1) PROVE BitOf(b * d + x, j) = bits[j]
      OBVIOUS
    <3>1. CASE j = k
      BY <2>5, <2>6, <3>1
    <3>2. CASE j # k
      <4>1. j \in 0..(k - 1)
        BY <3>2
      <4>2. QED
        BY <2>1, <2>5, <4>1
    <3>3. QED
      BY <3>1, <3>2
  <2> HIDE DEF x, b, d
  <2>8. QED
    BY <2>2, <2>3, <2>4, <2>7
<1> HIDE DEF Good
<1>11. width \in Good
  BY <1>9, <1>10, SetInduction
<1>12. Holds(width)
  BY <1>11 DEF Good
<1>13. FromBits(bits, width) < Shl1[width] /\ Shl1[width] \in Nat /\ FromBits(bits, width) \in Nat
  BY <1>1, <1>12, Shl1Facts
<1>14. QED
  BY <1>1, <1>12, <1>13

-----------------------------------------------------------------------------
(* val & ~(val - 1) is the least bit of val. *)
LEMMA LeastBitFacts ==
  ASSUME NEW x \in Nat \ {0}, x < Shl1[WordBits]
  PROVE  \E z \in 0..(WordBits - 1) : LeastBit(x) = Shl1[z] /\ IsLeast(x, z)
<1> DEFINE d == Shl1[WordBits]
<1>1. WordBits \in Nat /\ d \in Nat \ {0} /\ x < d
  BY WordFacts, Shl1Facts
<1> HIDE DEF d
<1>2. (x - 1) % d = x - 1
  <2> DEFINE y == x - 1
  <2>1. y \in 0..(d - 1) /\ y = 0 * d + y /\ 0 \in Nat
    BY <1>1
  <2> HIDE DEF y
  <2>2. (0 * d + y) % d = y
    BY <1>1, <2>1, QuotientUnique
  <2>3. y % d = y
    BY <2>1, <2>2, Zenon
  <2>4. QED
    BY <2>3 DEF y
<1>3. NotDecrement(x) = d - x
  <2>1. NotDecrement(x) = (d - 1) - (x - 1)
    BY <1>2 DEF NotDecrement, d
  <2>2. QED
    BY <1>1, <2>1
<1>4. \E z \in 0..(WordBits - 1) : And(x, d - x, WordBits) = Shl1[z] /\ IsLeast(x, z)
  BY <1>1, NegativeCommon DEF d
<1>5. LeastBit(x) = And(x, d - x, WordBits)
  BY <1>3, Zenon DEF LeastBit
<1>6. QED
  BY <1>4, <1>5, Zenon

(* log2Envelope is the least exponent whose power is not below val. *)
LEMMA EnvelopeFacts ==
  ASSUME NEW x \in Nat, x < Shl1[WordBits]
  PROVE  /\ Log2Envelope(x) \in Nat /\ x <= Shl1[Log2Envelope(x)]
         /\ Log2Envelope(x) # 0 => Shl1[Log2Envelope(x) - 1] < x
<1>1. CASE x = 0
  BY <1>1, Shl1Facts DEF Log2Envelope
<1>2. CASE x # 0
  <2> DEFINE l == FindLastSet(x)
             p == Shl1[l]
  <2>1. l \in Nat /\ p <= x /\ x < 2 * p
    BY <1>2, FindLastSetFacts
  <2>2. p \in Nat \ {0} /\ Shl1[l + 1] = 2 * p
    <3> HIDE DEF l
    <3>1. QED
      BY <2>1, Shl1Facts
  <2>3. PICK z \in 0..(WordBits - 1) : LeastBit(x) = Shl1[z] /\ IsLeast(x, z)
    BY <1>2, LeastBitFacts
  <2>4. z \in Nat /\ Shl1[z] \in Nat \ {0} /\ Shl1[z + 1] = 2 * Shl1[z]
    BY WordFacts, Shl1Facts
  <2>5. x % Shl1[z] = 0 /\ x % Shl1[z + 1] = Shl1[z]
    BY <2>3, <2>4, LeastDivides
  <2>6. Log2Envelope(x) = l + (IF LeastBit(x) # x THEN 1 ELSE 0)
    BY <1>2 DEF Log2Envelope, MultipleBits
  <2> HIDE DEF l, p
  <2>7. CASE LeastBit(x) = x
    <3>1. x = Shl1[z]
      BY <2>3, <2>7
    <3>2. z = l
      <4>1. l < z => 2 * Shl1[l] <= Shl1[z]
        BY <2>1, <2>4, Shl1Grows
      <4>2. z < l => 2 * Shl1[z] <= Shl1[l]
        BY <2>1, <2>4, Shl1Grows
      <4>3. QED
        BY <2>1, <2>2, <2>4, <3>1, <4>1, <4>2 DEF p
    <3>3. Log2Envelope(x) = l
      BY <2>1, <2>6, <2>7
    <3>4. l # 0 => Shl1[l - 1] < x
      <4> SUFFICES ASSUME l # 0 PROVE Shl1[l - 1] < x
        OBVIOUS
      <4> DEFINE k == l - 1
      <4>1. k \in Nat /\ l = k + 1
        BY <2>1
      <4> HIDE DEF k
      <4>2. Shl1[k] \in Nat \ {0} /\ Shl1[k + 1] = 2 * Shl1[k]
        BY <4>1, Shl1Facts
      <4>3. QED
        BY <2>1, <4>1, <4>2 DEF k, p
    <3>5. QED
      BY <2>1, <3>1, <3>2, <3>3, <3>4 DEF p
  <2>8. CASE LeastBit(x) # x
    <3>1. Log2Envelope(x) = l + 1
      BY <2>6, <2>8
    <3>2. p # x
      <4> SUFFICES ASSUME p = x PROVE FALSE
        OBVIOUS
      <4>1. CASE z < l
        <5> DEFINE e == l - (z + 1)
                   g == Shl1[z + 1]
        <5>1. e \in Nat /\ z + 1 \in Nat /\ l = e + (z + 1)
          BY <2>1, <2>4, <4>1
        <5> HIDE DEF e
        <5>2. Shl1[e + (z + 1)] = Shl1[e] * g /\ Shl1[e] \in Nat
          BY <5>1, Shl1Sum, Shl1Facts
        <5>3. g \in Nat \ {0} /\ 0 \in 0..(g - 1)
          BY <2>4
        <5> HIDE DEF g
        <5>4. (Shl1[e] * g + 0) % g = 0
          BY <5>2, <5>3, QuotientUnique
        <5>5. x = Shl1[e] * g + 0
          BY <5>1, <5>2, <5>3 DEF p
        <5>6. x % g = 0
          BY <5>4, <5>5
        <5>7. QED
          BY <2>4, <2>5, <5>6 DEF g
      <4>2. CASE l < z
        <5>1. 2 * p <= Shl1[z]
          BY <2>1, <2>4, <4>2, Shl1Grows DEF p
        <5> DEFINE g == Shl1[z]
        <5>2. x \in 0..(g - 1) /\ x = 0 * g + x /\ 0 \in Nat /\ g \in Nat \ {0}
          BY <2>1, <2>2, <2>4, <5>1
        <5> HIDE DEF g
        <5>3. (0 * g + x) % g = x
          BY <5>2, QuotientUnique
        <5>4. x % g = x
          BY <5>2, <5>3, Zenon
        <5>5. QED
          BY <1>2, <2>5, <5>4 DEF g
      <4>3. CASE z = l
        BY <2>3, <2>8, <4>3 DEF p
      <4>4. QED
        BY <2>1, <2>4, <4>1, <4>2, <4>3
    <3>3. (l + 1) - 1 = l /\ l + 1 \in Nat /\ l + 1 # 0
      BY <2>1
    <3>4. p < x /\ x <= 2 * p
      BY <2>1, <2>2, <3>2
    <3>5. QED
      BY <2>2, <3>1, <3>3, <3>4 DEF p
  <2>9. QED
    BY <2>7, <2>8
<1>3. QED
  BY <1>1, <1>2

-----------------------------------------------------------------------------
(* The bits of OddRuns[Halves[i]]: bit z says whether Halves[i] is among   *)
(* the powers of two that z is the sum of.                                 *)
LEMMA OddRunsFacts ==
  ASSUME NEW i \in 1..WordLog2, NEW z \in 0..(WordBits - 1)
  PROVE  /\ OddRuns[Halves[i]] \in Nat
         /\ And(Shl1[z], OddRuns[Halves[i]], WordBits) =
              Shl1[z] * ((z \div Halves[i]) % 2)
<1> DEFINE s == Halves[i]
           bits == [k \in 0..(WordBits - 1) |-> (k \div s) % 2]
           m == FromBits(bits, WordBits)
           w == WordBits - z
           v == w - 1
           b == (z \div s) % 2
<1>1. /\ s \in Nat \ {0} /\ WordBits \in Nat /\ z \in Nat /\ w \in Nat /\ v \in Nat
      /\ WordBits = z + w /\ w = 1 + v
  BY WordFacts
<1>2. bits \in [0..(WordBits - 1) -> {0, 1}]
  <2>1. \A k \in 0..(WordBits - 1) : (k \div s) % 2 \in {0, 1}
    <3> SUFFICES ASSUME NEW k \in 0..(WordBits - 1) PROVE (k \div s) % 2 \in {0, 1}
      OBVIOUS
    <3>1. k \in Nat
      OBVIOUS
    <3> HIDE DEF s
    <3>2. k \div s \in Nat
      BY <1>1, <3>1, QuotientFacts
    <3>3. QED
      BY <3>2, HalfFacts
  <2>2. QED
    BY <2>1
<1>3. OddRuns[s] = m
  <2>1. i \in DOMAIN Halves
    BY DEF Halves
  <2>2. s \in {Halves[j] : j \in DOMAIN Halves}
    BY <2>1
  <2>3. QED
    BY <2>2 DEF OddRuns
<1>4. bits[z] = b
  OBVIOUS
<1> HIDE DEF bits
<1>5. m \in 0..(Shl1[WordBits] - 1) /\ BitOf(m, z) = bits[z]
  BY <1>1, <1>2, FromBitsFacts
<1>6. m \in Nat
  BY <1>1, <1>5, Shl1Facts
<1> HIDE DEF m, s, w, v, b
<1> DEFINE d == Shl1[z]
           q == m \div d
<1>7. d \in Nat \ {0}
  BY <1>1, Shl1Facts
<1>8. And(m, d * 1, z + w) = d * And(q, 1, w)
  BY <1>1, <1>6, AndShift
<1>9. And(q, 1, 1 + v) = q % 2
  <2>1. q \in Nat
    <3> HIDE DEF d
    <3>1. QED
      BY <1>6, <1>7, QuotientFacts
  <2> HIDE DEF q
  <2>2. 0 \in Nat /\ 1 \in Nat /\ 0 + 1 = 1
    OBVIOUS
  <2>3. Shl1[0] = 1 /\ Shl1[0 + 1] = 2 * Shl1[0]
    BY <2>2, Shl1Facts
  <2>4. Shl1[1] = 2 /\ Shl1[1] - 1 = 1
    BY <2>2, <2>3
  <2>5. And(q, Shl1[1] - 1, 1 + v) = q % Shl1[1]
    BY <1>1, <2>1, <2>2, AndMask
  <2>6. QED
    BY <2>4, <2>5
<1>10. q % 2 = BitOf(m, z)
  BY DEF BitOf
<1>11. And(d, m, WordBits) = And(m, d, WordBits)
  BY <1>1, <1>6, <1>7, AndCommutes
<1>12. And(d, m, WordBits) = d * b
  <2> HIDE DEF d, q
  <2>1. d * 1 = d
    BY <1>7
  <2>2. QED
    BY <1>1, <1>4, <1>5, <1>8, <1>9, <1>10, <1>11, <2>1, Zenon
<1>13. QED
  BY <1>3, <1>6, <1>12 DEF d, s, b

(* countTrailingZeros adds up the powers of two that make the position. *)
LEMMA TrailingZerosFacts ==
  ASSUME NEW x \in Nat \ {0}, x < Shl1[WordBits]
  PROVE  CountTrailingZeros(x) \in Nat /\ IsLeast(x, CountTrailingZeros(x))
<1> DEFINE L == WordLog2
           add(i) == IF And(LeastBit(x), OddRuns[Halves[i]], WordBits) = 0 THEN 0 ELSE Halves[i]
           addend(k) == IF k < L THEN add(k + 1) ELSE 0
           step == [k \in Nat |-> [n \in Nat |-> n + addend(k)]]
           IsSum(f) == f = [i \in 0..L |-> IF i = 0 THEN 0 ELSE f[i - 1] + add(i)]
           sum == CHOOSE f : IsSum(f)
<1>1. CountTrailingZeros(x) = sum[L]
  BY DEF CountTrailingZeros
<1>2. L \in Nat
  BY WordFacts
<1>3. \A i \in 1..L : add(i) \in Nat
  BY WordFacts
<1> HIDE DEF add
<1>4. \A k \in Nat : addend(k) \in Nat
  <2> SUFFICES ASSUME NEW k \in Nat, k < L PROVE add(k + 1) \in Nat
    OBVIOUS
  <2>1. k + 1 \in 1..L
    BY <1>2
  <2>2. QED
    BY <1>3, <2>1
<1>5. \A i \in 1..L : addend(i - 1) = add(i)
  <2> SUFFICES ASSUME NEW i \in 1..L PROVE addend(i - 1) = add(i)
    OBVIOUS
  <2>1. i - 1 < L /\ (i - 1) + 1 = i
    BY <1>2
  <2>2. QED
    BY <2>1
<1> HIDE DEF addend
<1>6. step \in [Nat -> [Nat -> Nat]] /\ \A k, n \in Nat : step[k][n] = n + addend(k)
  BY <1>4
<1> HIDE DEF step, L
<1>7. PICK f : f \in Runs(Nat, 0, step, L)
  <2>1. 0 \in Nat
    OBVIOUS
  <2>2. Runs(Nat, 0, step, L) # {}
    BY <1>2, <1>6, <2>1, RunExists
  <2>3. QED
    BY <2>2
<1>8. IsSum(f)
  <2>1. \A i \in 0..L : f[i] = IF i = 0 THEN 0 ELSE f[i - 1] + add(i)
    <3> SUFFICES ASSUME NEW i \in 0..L, i # 0
                 PROVE  f[i] = f[i - 1] + add(i)
      BY <1>7 DEF Runs
    <3>1. /\ i \in 1..L /\ i - 1 \in 0..(L - 1) /\ i - 1 \in Nat /\ (i - 1) + 1 = i
          /\ i - 1 \in 0..L
      BY <1>2
    <3>2. f[(i - 1) + 1] = step[i - 1][f[i - 1]] /\ f[i - 1] \in Nat
      BY <1>7, <3>1 DEF Runs
    <3>3. step[i - 1][f[i - 1]] = f[i - 1] + addend(i - 1)
      BY <1>6, <3>1, <3>2
    <3>4. QED
      BY <1>5, <3>1, <3>2, <3>3
  <2>2. f = [i \in 0..L |-> f[i]]
    BY <1>7 DEF Runs
  <2>3. QED
    BY <2>1, <2>2
<1>9. IsSum(sum)
  BY <1>8
<1> HIDE DEF sum
<1>10. sum[0] = 0 /\ \A i \in 1..L : sum[i] = sum[i - 1] + add(i)
  BY <1>2, <1>9
<1>11. PICK z \in 0..(WordBits - 1) : LeastBit(x) = Shl1[z] /\ IsLeast(x, z)
  BY LeastBitFacts
<1>12. z \in Nat /\ z < WordBits /\ Shl1[z] \in Nat \ {0}
  BY WordFacts, Shl1Facts
<1>13. ASSUME NEW i \in 1..L
       PROVE  add(i) = ((z \div Halves[i]) % 2) * Halves[i]
  <2> DEFINE b == (z \div Halves[i]) % 2
             p == Shl1[z]
  <2>1. And(p, OddRuns[Halves[i]], WordBits) = p * b
    BY <1>13, OddRunsFacts DEF L
  <2>2. Halves[i] \in Nat \ {0}
    BY <1>13, WordFacts DEF L
  <2>3. z \div Halves[i] \in Nat
    BY <1>12, <2>2, QuotientFacts
  <2>4. b \in {0, 1}
    BY <2>3, HalfFacts
  <2>5. add(i) = IF p * b = 0 THEN 0 ELSE Halves[i]
    BY <1>11, <2>1 DEF add
  <2>6. p \in Nat \ {0}
    BY <1>12
  <2> HIDE DEF b, p
  <2>7. p * b = 0 <=> b = 0
    BY <2>4, <2>6
  <2>8. add(i) = b * Halves[i]
    BY <2>2, <2>4, <2>5, <2>7
  <2>9. QED
    BY <2>8 DEF b
<1> DEFINE part(i) == (z \div Shl1[L - i]) * Shl1[L - i]
           Good == {i \in Nat : i <= L => sum[i] = part(i)}
<1>14. 0 \in Good
  <2>1. L - 0 = L
    BY <1>2
  <2>2. Shl1[L - 0] = WordBits
    BY <2>1 DEF L, WordBits
  <2> DEFINE e == WordBits
  <2>3. e \in Nat \ {0} /\ z \in 0..(e - 1) /\ z = 0 * e + z /\ 0 \in Nat
    BY <1>12, WordFacts
  <2> HIDE DEF e
  <2>4. (0 * e + z) \div e = 0
    BY <2>3, QuotientUnique
  <2>5. z \div e = 0
    BY <2>3, <2>4, Zenon
  <2>6. part(0) = 0
    BY <2>2, <2>3, <2>5 DEF e
  <2>7. QED
    BY <1>10, <2>6
<1>15. ASSUME NEW k \in Nat, k \in Good
       PROVE  k + 1 \in Good
  <2> SUFFICES ASSUME k + 1 <= L PROVE sum[k + 1] = part(k + 1)
    OBVIOUS
  <2> DEFINE i == k + 1
             s == Halves[i]
             q == z \div s
  <2>1. i \in 1..L /\ i - 1 = k /\ k <= L
    BY <1>2
  <2> HIDE DEF i
  <2>2. s = Shl1[L - i] /\ 2 * s = Shl1[L - k] /\ s \in Nat \ {0}
    BY <2>1, WordFacts DEF L
  <2> HIDE DEF s
  <2>3. sum[k] = (z \div (2 * s)) * (2 * s)
    BY <1>15, <2>1, <2>2
  <2>4. z \div (2 * s) = q \div 2
    <3>1. z \div (s * 2) = (z \div s) \div 2
      <4>1. 2 \in Nat \ {0}
        OBVIOUS
      <4>2. QED
        BY <1>12, <2>2, <4>1, DivideTwice
    <3>2. s * 2 = 2 * s
      BY <2>2
    <3>3. QED
      BY <3>1, <3>2
  <2>5. q \in Nat
    BY <1>12, <2>2, QuotientFacts
  <2>6. sum[i] = sum[k] + (q % 2) * s
    BY <1>10, <1>13, <2>1 DEF s
  <2> HIDE DEF q
  <2>7. q = 2 * (q \div 2) + (q % 2) /\ q \div 2 \in Nat /\ q % 2 \in {0, 1}
    BY <2>5, HalfFacts
  <2> DEFINE g == q \div 2
             b == q % 2
  <2>8. sum[i] = g * (2 * s) + b * s /\ q = 2 * g + b /\ g \in Nat /\ b \in {0, 1}
    BY <2>3, <2>4, <2>6, <2>7
  <2> HIDE DEF g, b
  <2>9. g * (2 * s) + b * s = (2 * g + b) * s
    BY <2>2, <2>8
  <2>10. sum[i] = q * s
    BY <2>8, <2>9
  <2>11. QED
    BY <2>2, <2>10 DEF q, i
<1> HIDE DEF Good
<1>16. L \in Good
  BY <1>2, <1>14, <1>15, SetInduction
<1>17. sum[L] = (z \div Shl1[L - L]) * Shl1[L - L]
  BY <1>2, <1>16 DEF Good
<1>18. Shl1[L - L] = 1
  <2>1. L - L = 0
    BY <1>2
  <2>2. QED
    BY <2>1, Shl1Facts
<1>19. sum[L] = z
  BY <1>12, <1>17, <1>18
<1>20. QED
  BY <1>1, <1>11, <1>12, <1>19

-----------------------------------------------------------------------------
(* Words of the hash functions. *)
HashWords == 0..(Shl1[HashBits] - 1)

LEMMA HashWordFacts ==
  /\ HashBits \in Nat \ {0} /\ Shl1[HashBits] \in Nat \ {0}
  /\ HashWords \subseteq Nat
  /\ \A n \in Nat : Wrap(n) \in HashWords
  /\ \A n \in Nat : \E q \in Nat : n = Wrap(n) + Shl1[HashBits] * q
<1> DEFINE M == Shl1[HashBits]
<1>1. HashBits \in Nat \ {0} /\ M \in Nat \ {0}
  BY HashBitsAssumption, Shl1Facts
<1>2. HashWords = 0..(M - 1) /\ \A n : Wrap(n) = n % M
  BY DEF HashWords, Wrap, Modulus
<1> HIDE DEF M
<1>3. ASSUME NEW n \in Nat
      PROVE  Wrap(n) \in HashWords /\ \E q \in Nat : n = Wrap(n) + M * q
  <2> DEFINE q == n \div M
             r == n % M
  <2>1. q \in Nat /\ r \in 0..(M - 1) /\ n = q * M + r
    BY <1>1, QuotientFacts
  <2>2. Wrap(n) = r
    BY <1>2
  <2> HIDE DEF q, r
  <2>3. n = r + M * q
    BY <1>1, <2>1
  <2>4. QED
    BY <1>2, <2>1, <2>2, <2>3
<1>4. HashWords \subseteq Nat
  BY <1>1, <1>2
<1>5. QED
  BY <1>1, <1>3, <1>4 DEF M

LEMMA HashWordBelow ==
  \A x \in HashWords : x \in Nat /\ x < Shl1[HashBits]
<1> DEFINE M == Shl1[HashBits]
<1>1. M \in Nat
  BY HashWordFacts
<1> HIDE DEF M
<1>2. \A x \in 0..(M - 1) : x \in Nat /\ x < M
  BY <1>1
<1>3. QED
  BY <1>2 DEF M, HashWords

(* MCBitOps goes through the words of the hash functions. *)
LEMMA WordIsHashWord == Spec => [](word \in HashWords)
<1>1. Init => word \in HashWords
  <2> SUFFICES ASSUME NEW k \in 0..127 PROVE Wrap(k * Shl1[10]) \in HashWords
    BY DEF Init
  <2>1. Shl1[10] \in Nat /\ k \in Nat
    BY Shl1Facts
  <2>2. k * Shl1[10] \in Nat
    BY <2>1
  <2>3. QED
    BY <2>2, HashWordFacts
<1>2. word \in HashWords /\ [Next]_word => (word \in HashWords)'
  <2> SUFFICES ASSUME word \in HashWords, [Next]_word PROVE word' \in HashWords
    BY DEF HashWords
  <2>1. word \in Nat /\ word + 1 \in Nat
    BY HashWordFacts
  <2>2. QED
    BY <2>1, HashWordFacts DEF Next, NextWord
<1>3. QED
  BY <1>1, <1>2, PTL DEF Spec

LEMMA WordIsNat == Spec => [](word \in Nat)
<1>1. word \in HashWords => word \in Nat
  BY HashWordFacts
<1>2. QED
  BY <1>1, WordIsHashWord, PTL

LEMMA ValIsWord ==
  ASSUME word \in Nat
  PROVE  val \in Nat /\ val < Shl1[WordBits]
<1> DEFINE d == Shl1[WordBits]
<1>1. d \in Nat \ {0}
  BY WordFacts, Shl1Facts
<1>2. val = word % d
  BY DEF val
<1> HIDE DEF d
<1>3. word % d \in 0..(d - 1)
  BY <1>1, QuotientFacts
<1>4. QED
  BY <1>1, <1>2, <1>3 DEF d

(* findLastSet is the highest position of any word (mp_findLastSet). *)
THEOREM SpecLastSetIsHighest == Spec => []LastSetIsHighest
<1>1. word \in Nat => LastSetIsHighest
  <2> SUFFICES ASSUME word \in Nat PROVE LastSetIsHighest
    OBVIOUS
  <2>1. val \in Nat /\ val < Shl1[WordBits]
    BY ValIsWord
  <2>2. CASE val = 0
    BY <2>2 DEF LastSetIsHighest, FindLastSet
  <2>3. CASE val # 0
    <3> DEFINE l == FindLastSet(val)
    <3>1. l \in Nat /\ Shl1[l] <= val /\ val < 2 * Shl1[l]
      BY <2>1, <2>3, FindLastSetFacts
    <3> HIDE DEF l
    <3>2. Shl1[l + 1] = 2 * Shl1[l]
      BY <3>1, Shl1Facts
    <3>3. QED
      BY <2>3, <3>1, <3>2 DEF LastSetIsHighest, l
  <2>4. QED
    BY <2>2, <2>3
<1>2. QED
  BY <1>1, WordIsNat, PTL

(* countTrailingZeros is the lowest position of any word (idxpyr.c). *)
THEOREM SpecTrailingZerosIsLowest == Spec => []TrailingZerosIsLowest
<1>1. word \in Nat => TrailingZerosIsLowest
  <2> SUFFICES ASSUME word \in Nat PROVE TrailingZerosIsLowest
    OBVIOUS
  <2>1. val \in Nat /\ val < Shl1[WordBits]
    BY ValIsWord
  <2>2. CASE val = 0
    BY <2>2 DEF TrailingZerosIsLowest, CountTrailingZeros
  <2>3. CASE val # 0
    <3> DEFINE z == CountTrailingZeros(val)
    <3>1. z \in Nat /\ IsLeast(val, z)
      BY <2>1, <2>3, TrailingZerosFacts
    <3> HIDE DEF z
    <3>2. val % Shl1[z] = 0 /\ val % Shl1[z + 1] = Shl1[z] /\ Shl1[z] # 0
      BY <2>1, <3>1, LeastDivides, Shl1Facts
    <3>3. QED
      BY <2>3, <3>2 DEF TrailingZerosIsLowest, z
  <2>4. QED
    BY <2>2, <2>3
<1>2. QED
  BY <1>1, WordIsNat, PTL

(* log2Envelope is the least exponent that is enough (mp_init). *)
THEOREM SpecEnvelopeIsLeast == Spec => []EnvelopeIsLeast
<1>1. word \in Nat => EnvelopeIsLeast
  BY ValIsWord, EnvelopeFacts DEF EnvelopeIsLeast
<1>2. QED
  BY <1>1, WordIsNat, PTL

-----------------------------------------------------------------------------
(* The bits of a power of two, of three times one, and of a complement. *)
LEMMA HighBits ==
  ASSUME NEW k \in Nat, NEW x \in Nat, x < Shl1[k]
  PROVE  BitOf(x, k) = 0
<1> DEFINE d == Shl1[k]
<1>1. d \in Nat \ {0} /\ x \in 0..(d - 1) /\ x = 0 * d + x /\ 0 \in Nat
  BY Shl1Facts
<1>2. BitOf(x, k) = (x \div d) % 2
  BY DEF BitOf
<1> HIDE DEF d
<1>3. (0 * d + x) \div d = 0
  BY <1>1, QuotientUnique
<1>4. x \div d = 0
  BY <1>1, <1>3, Zenon
<1>5. QED
  BY <1>2, <1>4

LEMMA PowerBits ==
  ASSUME NEW s \in Nat, NEW k \in Nat
  PROVE  /\ BitOf(Shl1[s], k) = IF k = s THEN 1 ELSE 0
         /\ BitOf(3 * Shl1[s], k) = IF k \in {s, s + 1} THEN 1 ELSE 0
<1> DEFINE d == Shl1[s]
<1>1. d \in Nat \ {0} /\ Shl1[s + 1] = 2 * d /\ s + 1 \in Nat
  BY Shl1Facts
<1>2. Shl1[(s + 1) + 1] = 4 * d
  <2>1. Shl1[(s + 1) + 1] = 2 * Shl1[s + 1]
    BY <1>1, Shl1Facts
  <2>2. QED
    BY <1>1, <2>1
<1>3. 1 * d + 0 = d /\ 1 * (2 * d) + d = 3 * d /\ 0 < d /\ d < 2 * d /\ 3 * d < 4 * d
  BY <1>1
<1>4. BitOf(d, s) = 1 /\ \A j \in 0..(s - 1) : BitOf(d, j) = BitOf(0, j)
  <2>1. BitOf(1 * d + 0, s) = 1 % 2 /\ \A j \in 0..(s - 1) : BitOf(1 * d + 0, j) = BitOf(0, j)
    <3>1. 0 \in Nat /\ 1 \in Nat /\ 0 < Shl1[s]
      BY <1>3
    <3>2. QED
      BY <3>1, SplitBits
  <2>2. 1 % 2 = 1
    OBVIOUS
  <2>3. QED
    BY <1>3, <2>1, <2>2, Zenon
<1>5. /\ BitOf(3 * d, s + 1) = 1
      /\ \A j \in 0..((s + 1) - 1) : BitOf(3 * d, j) = BitOf(d, j)
  <2>1. /\ BitOf(1 * Shl1[s + 1] + d, s + 1) = 1 % 2
        /\ \A j \in 0..((s + 1) - 1) : BitOf(1 * Shl1[s + 1] + d, j) = BitOf(d, j)
    <3>1. 1 \in Nat /\ d < Shl1[s + 1] /\ d \in Nat
      BY <1>1, <1>3
    <3> HIDE DEF d
    <3>2. QED
      BY <1>1, <3>1, SplitBits
  <2>2. 1 % 2 = 1 /\ 1 * Shl1[s + 1] + d = 3 * d
    BY <1>1
  <2>3. QED
    BY <2>1, <2>2, Zenon
<1>6. ASSUME NEW n \in Nat, s <= n
      PROVE  Shl1[s] <= Shl1[n] /\ Shl1[n] \in Nat
  <2>1. Shl1[s] \in Nat /\ Shl1[n] \in Nat
    BY Shl1Facts
  <2>2. s < n => 2 * Shl1[s] <= Shl1[n]
    BY <1>6, Shl1Grows
  <2>3. QED
    BY <1>6, <2>1, <2>2
<1>7. BitOf(d, k) = IF k = s THEN 1 ELSE 0
  <2>1. CASE k = s
    BY <1>4, <2>1
  <2>2. CASE k < s
    <3>1. k \in 0..(s - 1)
      BY <2>2
    <3>2. BitOf(0, k) = 0
      <4>1. 0 \in Nat /\ 0 < Shl1[k]
        BY Shl1Facts
      <4>2. QED
        BY <4>1, HighBits
    <3>3. QED
      BY <1>4, <2>2, <3>1, <3>2
  <2>3. CASE s < k
    <3>1. 2 * d <= Shl1[k] /\ Shl1[k] \in Nat
      BY <2>3, Shl1Grows, Shl1Facts
    <3>2. d < Shl1[k] /\ d \in Nat
      BY <1>1, <3>1
    <3> HIDE DEF d
    <3>3. BitOf(d, k) = 0
      BY <3>2, HighBits
    <3>4. QED
      BY <2>3, <3>3
  <2>4. QED
    BY <2>1, <2>2, <2>3
<1>8. BitOf(3 * d, k) = IF k \in {s, s + 1} THEN 1 ELSE 0
  <2>1. CASE k = s + 1
    BY <1>5, <2>1
  <2>2. CASE k < s + 1
    <3>1. k \in 0..((s + 1) - 1)
      BY <2>2
    <3>2. BitOf(3 * d, k) = BitOf(d, k)
      BY <1>5, <3>1
    <3>3. QED
      BY <1>7, <2>2, <3>2
  <2>3. CASE s + 1 < k
    <3>1. 2 * Shl1[s + 1] <= Shl1[k] /\ Shl1[k] \in Nat
      BY <1>1, <2>3, Shl1Grows, Shl1Facts
    <3>2. 3 * d < Shl1[k] /\ 3 * d \in Nat
      BY <1>1, <3>1
    <3> DEFINE e == 3 * d
    <3> HIDE DEF e
    <3>3. BitOf(e, k) = 0
      BY <3>2, HighBits DEF e
    <3>4. QED
      BY <2>3, <3>3 DEF e
  <2>4. QED
    BY <2>1, <2>2, <2>3
<1>9. QED
  BY <1>7, <1>8

LEMMA ComplementBits ==
  \A w \in Nat : \A x \in Nat : x < Shl1[w] =>
    \A k \in 0..(w - 1) : BitOf((Shl1[w] - 1) - x, k) = 1 - BitOf(x, k)
<1> DEFINE Good == {w \in Nat : \A x \in Nat : x < Shl1[w] =>
                      \A k \in 0..(w - 1) : BitOf((Shl1[w] - 1) - x, k) = 1 - BitOf(x, k)}
<1>1. 0 \in Good
  OBVIOUS
<1>2. ASSUME NEW w \in Nat, w \in Good
      PROVE  w + 1 \in Good
  <2> SUFFICES ASSUME NEW x \in Nat, x < Shl1[w + 1], NEW k \in 0..w
               PROVE  BitOf((Shl1[w + 1] - 1) - x, k) = 1 - BitOf(x, k)
    OBVIOUS
  <2> DEFINE d == Shl1[w]
             h == x \div 2
             b == x % 2
             g == (d - 1) - h
             y == (Shl1[w + 1] - 1) - x
  <2>1. d \in Nat \ {0} /\ Shl1[w + 1] = 2 * d
    BY Shl1Facts
  <2>2. h \in Nat /\ b \in {0, 1} /\ x = 2 * h + b
    BY HalfFacts
  <2>3. h < d /\ g \in Nat /\ 1 - b \in {0, 1} /\ y = 2 * g + (1 - b)
    <3> HIDE DEF d, h, b
    <3>1. h < d
      BY <2>1, <2>2
    <3>2. QED
      BY <2>1, <2>2, <3>1
  <2>4. y \in Nat /\ y \div 2 = g /\ y % 2 = 1 - b
    <3> HIDE DEF y, g, b
    <3>1. QED
      BY <2>3, HalfUnique
  <2>5. CASE k = 0
    <3>1. BitOf(x, 0) = b /\ BitOf(y, 0) = y % 2
      <4> HIDE DEF y
      <4>1. QED
        BY <2>4, BitFacts
    <3>2. QED
      BY <2>4, <2>5, <3>1
  <2>6. CASE k # 0
    <3> DEFINE j == k - 1
    <3>1. j \in Nat /\ j \in 0..(w - 1) /\ k = j + 1
      BY <2>6
    <3> HIDE DEF j
    <3>2. BitOf(g, j) = 1 - BitOf(h, j)
      BY <1>2, <2>2, <2>3, <3>1
    <3>3. BitOf(x, j + 1) = BitOf(h, j)
      BY <3>1, BitFacts
    <3>4. BitOf(y, j + 1) = BitOf(g, j)
      <4> HIDE DEF y, g
      <4>1. QED
        BY <2>4, <3>1, BitFacts
    <3>5. QED
      BY <3>1, <3>2, <3>3, <3>4
  <2>7. QED
    BY <2>5, <2>6
<1> HIDE DEF Good
<1>3. \A w \in Nat : w \in Good
  BY <1>1, <1>2, SetInduction
<1>4. QED
  BY <1>3 DEF Good

-----------------------------------------------------------------------------
LEMMA BucketFacts ==
  ASSUME NEW i \in Nat
  PROVE  /\ WordBuckets \in Nat \ {0} /\ FlagBits = 2 * WordBuckets
         /\ Word(i) \in Nat
         /\ Shift(i) \in Nat /\ Shift(i) + 1 \in 0..(FlagBits - 1)
         /\ i < 2 * WordBuckets => Word(i) \in {0, 1}
         /\ i < WordBuckets => Word(i) = 0
         /\ \E c \in 0..(WordBuckets - 1) : Shift(i) = 2 * c /\ i = Word(i) * WordBuckets + c
<1> DEFINE n == WordBuckets
           q == i \div n
           c == i % n
<1>1. n \in Nat \ {0}
  BY FlagsAssumption
<1>2. q \in Nat /\ c \in 0..(n - 1) /\ i = q * n + c
  BY <1>1, QuotientFacts
<1>3. Word(i) = q /\ Shift(i) = 2 * c /\ FlagBits = 2 * n
  BY DEF Word, Shift, FlagBits
<1> HIDE DEF n, q, c
<1>4. 2 <= q => 2 * n <= q * n
  BY <1>1, <1>2, ProductGrows
<1>5. 1 <= q => 1 * n <= q * n
  BY <1>1, <1>2, ProductGrows
<1>6. 2 * c \in Nat /\ 2 * c + 1 \in 0..(2 * n - 1)
  BY <1>1, <1>2
<1>7. q * n \in Nat /\ (i < 2 * n => q \in {0, 1}) /\ (i < n => q = 0)
  BY <1>1, <1>2, <1>4, <1>5
<1>8. \E a \in 0..(n - 1) : Shift(i) = 2 * a /\ i = Word(i) * n + a
  BY <1>2, <1>3
<1>9. QED
  BY <1>1, <1>2, <1>3, <1>6, <1>7, <1>8 DEF n

(* The macros, in terms of the two bits of a bucket. *)
LEMMA PairFacts ==
  ASSUME NEW flags, NEW i \in Nat, flags[Word(i)] \in Nat
  PROVE  /\ IsEmpty(flags, i) <=> BitOf(flags[Word(i)], Shift(i) + 1) # 0
         /\ IsDel(flags, i) <=> BitOf(flags[Word(i)], Shift(i)) # 0
         /\ IsEither(flags, i) <=> IsEmpty(flags, i) \/ IsDel(flags, i)
<1> DEFINE x == flags[Word(i)]
           s == Shift(i)
           d == Shl1[s]
           y == x \div d
           p == y % 4
<1>1. s \in Nat /\ d \in Nat \ {0} /\ Shl1[s + 1] = 2 * d
  BY BucketFacts, Shl1Facts
<1>2. Pair(flags, i) = p
  BY DEF Pair
<1>3. BitOf(x, s) = y % 2 /\ BitOf(x, s + 1) = (x \div (2 * d)) % 2
  BY <1>1 DEF BitOf
<1> HIDE DEF x, s, d
<1>4. x \div (2 * d) = y \div 2
  <2>1. 2 \in Nat \ {0} /\ x \in Nat /\ d * 2 = 2 * d
    BY <1>1 DEF x
  <2>2. x \div (d * 2) = (x \div d) \div 2
    BY <1>1, <2>1, DivideTwice
  <2>3. QED
    BY <2>1, <2>2
<1>5. y \in Nat
  BY <1>1, QuotientFacts DEF x
<1> HIDE DEF y
<1>6. p % 2 = y % 2 /\ p \div 2 = (y \div 2) % 2 /\ p \in 0..3
  BY <1>5
<1>7. p # 0 <=> p % 2 # 0 \/ p \div 2 # 0
  BY <1>6
<1> HIDE DEF p
<1>8. QED
  BY <1>2, <1>3, <1>4, <1>6, <1>7 DEF IsEmpty, IsDel, IsEither, x, s

(***************************************************************************)
(* A word that differs from that of bucket i in no bit but the bucket's    *)
(* two, in its place: the states of the other buckets are what they were.  *)
(***************************************************************************)
LEMMA BucketChanges ==
  ASSUME NEW flags \in [{0, 1} -> Nat], NEW i \in Buckets, NEW x \in Nat,
         \A k \in 0..(FlagBits - 1) :
           k \notin {Shift(i), Shift(i) + 1} => BitOf(x, k) = BitOf(flags[Word(i)], k)
  PROVE  LET new == [flags EXCEPT ![Word(i)] = x]
         IN  /\ \A b \in Buckets : b # i => StateOf(new, b) = StateOf(flags, b)
             /\ StateOf(new, i) =
                  IF BitOf(x, Shift(i) + 1) # 0 THEN "empty"
                  ELSE IF BitOf(x, Shift(i)) # 0 THEN "deleted" ELSE "live"
<1> DEFINE new == [flags EXCEPT ![Word(i)] = x]
<1>1. WordBuckets \in Nat \ {0} /\ FlagBits = 2 * WordBuckets
  BY FlagsAssumption DEF FlagBits
<1>2. \A b \in Buckets : b \in Nat /\ b < 2 * WordBuckets /\ Word(b) \in {0, 1}
  <2>1. \A b \in Buckets : b \in Nat /\ b < 2 * WordBuckets
    BY <1>1 DEF Buckets
  <2>2. QED
    BY <2>1, BucketFacts
<1>3. new \in [{0, 1} -> Nat] /\ new[Word(i)] = x
  BY <1>2
<1>4. \A w \in {0, 1} : w # Word(i) => new[w] = flags[w]
  OBVIOUS
<1> HIDE DEF new
<1>5. \A f \in [{0, 1} -> Nat], b \in Buckets :
        /\ IsEmpty(f, b) <=> BitOf(f[Word(b)], Shift(b) + 1) # 0
        /\ IsDel(f, b) <=> BitOf(f[Word(b)], Shift(b)) # 0
  <2> SUFFICES ASSUME NEW f \in [{0, 1} -> Nat], NEW b \in Buckets
               PROVE  /\ IsEmpty(f, b) <=> BitOf(f[Word(b)], Shift(b) + 1) # 0
                      /\ IsDel(f, b) <=> BitOf(f[Word(b)], Shift(b)) # 0
    OBVIOUS
  <2>1. b \in Nat /\ f[Word(b)] \in Nat
    BY <1>2
  <2>2. QED
    BY <2>1, PairFacts
<1>6. ASSUME NEW b \in Buckets, b # i
      PROVE  StateOf(new, b) = StateOf(flags, b)
  <2>1. CASE Word(b) # Word(i)
    <3>1. new[Word(b)] = flags[Word(b)]
      BY <1>2, <1>4, <2>1
    <3>2. IsEmpty(new, b) <=> IsEmpty(flags, b)
      BY <1>3, <1>5, <3>1
    <3>3. IsDel(new, b) <=> IsDel(flags, b)
      BY <1>3, <1>5, <3>1
    <3>4. QED
      BY <3>2, <3>3 DEF StateOf
  <2>2. CASE Word(b) = Word(i)
    <3>1. PICK c \in 0..(WordBuckets - 1) : Shift(b) = 2 * c /\ b = Word(b) * WordBuckets + c
      BY <1>2, BucketFacts
    <3>2. PICK d \in 0..(WordBuckets - 1) : Shift(i) = 2 * d /\ i = Word(i) * WordBuckets + d
      BY <1>2, BucketFacts
    <3>3. c # d
      BY <1>6, <2>2, <3>1, <3>2
    <3>4. /\ Shift(b) \in 0..(FlagBits - 1) /\ Shift(b) + 1 \in 0..(FlagBits - 1)
          /\ Shift(b) \notin {Shift(i), Shift(i) + 1}
          /\ Shift(b) + 1 \notin {Shift(i), Shift(i) + 1}
      BY <1>1, <3>1, <3>2, <3>3
    <3>5. /\ BitOf(new[Word(b)], Shift(b)) = BitOf(flags[Word(b)], Shift(b))
          /\ BitOf(new[Word(b)], Shift(b) + 1) = BitOf(flags[Word(b)], Shift(b) + 1)
      BY <1>3, <2>2, <3>4
    <3>6. IsEmpty(new, b) <=> IsEmpty(flags, b)
      BY <1>3, <1>5, <3>5
    <3>7. IsDel(new, b) <=> IsDel(flags, b)
      BY <1>3, <1>5, <3>5
    <3>8. QED
      BY <3>6, <3>7 DEF StateOf
  <2>3. QED
    BY <2>1, <2>2
<1>7. StateOf(new, i) = IF BitOf(x, Shift(i) + 1) # 0 THEN "empty"
                        ELSE IF BitOf(x, Shift(i)) # 0 THEN "deleted" ELSE "live"
  BY <1>3, <1>5 DEF StateOf
<1>8. QED
  BY <1>6, <1>7 DEF new

(* What the macros make of a bucket's two bits. *)
SetsBits(x, s, deleted, nonempty, neither) ==
  /\ deleted \in Nat /\ nonempty \in Nat /\ neither \in Nat
  /\ \A k \in 0..(FlagBits - 1) :
       /\ BitOf(deleted, k) = IF k = s THEN 1 ELSE BitOf(x, k)
       /\ BitOf(nonempty, k) = IF k = s + 1 THEN 0 ELSE BitOf(x, k)
       /\ BitOf(neither, k) = IF k \in {s, s + 1} THEN 0 ELSE BitOf(x, k)

LEMMA MacroBits ==
  ASSUME NEW s \in Nat, s + 1 \in 0..(FlagBits - 1), NEW x \in Nat
  PROVE  SetsBits(x, s, Or(x, Shl1[s], FlagBits), And(x, AllBut(2 * Shl1[s]), FlagBits),
                  And(x, AllBut(3 * Shl1[s]), FlagBits))
<1> DEFINE w == FlagBits
           d == Shl1[s]
<1>1. w \in Nat
  BY FlagsAssumption DEF FlagBits
<1>2. d \in Nat \ {0} /\ 2 * d = Shl1[s + 1] /\ s + 1 \in Nat
  BY Shl1Facts
<1>3. 3 * d < Shl1[w] /\ Shl1[w] \in Nat
  <2>1. 2 * Shl1[s + 1] <= Shl1[w]
    BY <1>1, <1>2, Shl1Grows
  <2>2. Shl1[w] \in Nat
    BY <1>1, Shl1Facts
  <2>3. QED
    BY <1>2, <2>1, <2>2
<1>4. ASSUME NEW m \in Nat, m < Shl1[w]
      PROVE  /\ AllBut(m) \in Nat
             /\ \A k \in 0..(w - 1) : BitOf(AllBut(m), k) = 1 - BitOf(m, k)
  BY <1>1, <1>3, <1>4, ComplementBits DEF AllBut
<1>5. \A k \in 0..(w - 1) : k \in Nat /\ BitOf(x, k) \in {0, 1}
  BY BitFacts
<1> HIDE DEF w
<1>6. /\ Or(x, d, w) \in Nat
      /\ \A k \in 0..(w - 1) : BitOf(Or(x, d, w), k) = IF k = s THEN 1 ELSE BitOf(x, k)
  <2>1. /\ Or(x, d, w) \in Nat
        /\ \A k \in 0..(w - 1) :
             BitOf(Or(x, d, w), k) = IF BitOf(x, k) = 0 THEN BitOf(d, k) ELSE 1
    <3> d \in Nat
      BY <1>2
    <3> HIDE DEF d
    <3>1. QED
      BY <1>1, OrBits
  <2>2. \A k \in 0..(w - 1) : BitOf(d, k) = IF k = s THEN 1 ELSE 0
    BY <1>5, PowerBits
  <2>3. \A k \in 0..(w - 1) : BitOf(Or(x, d, w), k) = IF k = s THEN 1 ELSE BitOf(x, k)
    BY <1>5, <2>1, <2>2
  <2>4. QED
    BY <1>3, <2>1, <2>3
<1>7. ASSUME NEW m \in Nat, m < Shl1[w]
      PROVE  /\ And(x, AllBut(m), w) \in Nat
             /\ \A k \in 0..(w - 1) :
                  BitOf(And(x, AllBut(m), w), k) = IF BitOf(m, k) = 1 THEN 0 ELSE BitOf(x, k)
  <2>1. AllBut(m) \in Nat
    BY <1>4, <1>7
  <2>2. /\ And(x, AllBut(m), w) \in Nat
        /\ \A k \in 0..(w - 1) :
             BitOf(And(x, AllBut(m), w), k) = BitOf(x, k) * BitOf(AllBut(m), k)
    <3> DEFINE y == AllBut(m)
    <3>1. y \in Nat
      BY <2>1
    <3> HIDE DEF y
    <3>2. /\ And(x, y, w) \in Nat
          /\ \A k \in 0..(w - 1) : BitOf(And(x, y, w), k) = BitOf(x, k) * BitOf(y, k)
      BY <1>1, <3>1, AndBits
    <3>3. QED
      BY <3>2 DEF y
  <2>3. ASSUME NEW k \in 0..(w - 1)
        PROVE  BitOf(And(x, AllBut(m), w), k) = IF BitOf(m, k) = 1 THEN 0 ELSE BitOf(x, k)
    <3>1. BitOf(m, k) \in {0, 1} /\ BitOf(x, k) \in {0, 1}
      BY <1>5, BitFacts
    <3>2. BitOf(AllBut(m), k) = 1 - BitOf(m, k)
      BY <1>4, <1>7
    <3>3. BitOf(And(x, AllBut(m), w), k) = BitOf(x, k) * (1 - BitOf(m, k))
      BY <2>2, <3>2
    <3>4. QED
      BY <3>1, <3>3
  <2>4. QED
    BY <1>3, <2>2, <2>3
<1>8. 2 * d \in Nat /\ 2 * d < Shl1[w] /\ 3 * d \in Nat /\ 3 * d < Shl1[w]
  BY <1>2, <1>3
<1>9. ASSUME NEW k \in 0..(w - 1)
      PROVE  /\ BitOf(2 * d, k) = IF k = s + 1 THEN 1 ELSE 0
             /\ BitOf(3 * d, k) = IF k \in {s, s + 1} THEN 1 ELSE 0
  <2>1. k \in Nat
    BY <1>5
  <2>2. BitOf(Shl1[s + 1], k) = IF k = s + 1 THEN 1 ELSE 0
    BY <1>2, <2>1, PowerBits
  <2>3. BitOf(3 * Shl1[s], k) = IF k \in {s, s + 1} THEN 1 ELSE 0
    BY <2>1, PowerBits
  <2>4. QED
    BY <1>2, <2>2, <2>3, Zenon
<1> DEFINE e == 2 * d
           f == 3 * d
<1>10. /\ e \in Nat /\ e < Shl1[w] /\ f \in Nat /\ f < Shl1[w]
       /\ \A k \in 0..(w - 1) :
            /\ BitOf(e, k) = IF k = s + 1 THEN 1 ELSE 0
            /\ BitOf(f, k) = IF k \in {s, s + 1} THEN 1 ELSE 0
  BY <1>8, <1>9, Zenon
<1> HIDE DEF e, f
<1>11. /\ And(x, AllBut(e), w) \in Nat /\ And(x, AllBut(f), w) \in Nat
       /\ \A k \in 0..(w - 1) :
            /\ BitOf(And(x, AllBut(e), w), k) = IF k = s + 1 THEN 0 ELSE BitOf(x, k)
            /\ BitOf(And(x, AllBut(f), w), k) = IF k \in {s, s + 1} THEN 0 ELSE BitOf(x, k)
  BY <1>7, <1>10
<1>12. QED
  BY <1>6, <1>11 DEF SetsBits, w, e, f

(* The memset to 0xaa makes every bucket empty. *)
LEMMA FilledFacts == FilledIsEmpty
<1> SUFFICES ASSUME NEW m \in {WordBuckets \div 2, WordBuckets, 2 * WordBuckets},
                    NEW i \in 0..(m - 1)
             PROVE  StateOf(Filled(m), i) = "empty"
  BY DEF FilledIsEmpty
<1> DEFINE bits == [k \in 0..(FlagBits - 1) |-> k % 2]
           x == FromBits(bits, FlagBits)
           n == WordBuckets
<1>1. n \in Nat \ {0} /\ FlagBits \in Nat
  BY FlagsAssumption DEF FlagBits
<1>2. bits \in [0..(FlagBits - 1) -> {0, 1}]
  <2>1. \A k \in 0..(FlagBits - 1) : k % 2 \in {0, 1}
    OBVIOUS
  <2>2. QED
    BY <2>1
<1>3. /\ x \in 0..(Shl1[FlagBits] - 1) /\ Shl1[FlagBits] \in Nat
      /\ \A k \in 0..(FlagBits - 1) : BitOf(x, k) = bits[k]
  <2> HIDE DEF bits
  <2>1. QED
    BY <1>1, <1>2, FromBitsFacts, Shl1Facts
<1>4. \A k \in 0..(FlagBits - 1) : bits[k] = k % 2
  OBVIOUS
<1>5. i \in Nat /\ i < m /\ m \in Nat /\ m <= 2 * n
  <2> HIDE DEF n
  <2>1. n \div 2 \in Nat /\ n \div 2 <= n
    BY <1>1
  <2>2. QED
    BY <1>1, <2>1 DEF n
<1>6. Filled(m) = [w \in 0..(Fsize(m) - 1) |-> x]
  BY DEF Filled
<1> HIDE DEF bits, x
<1>7. Word(i) \in 0..(Fsize(m) - 1)
  <2>1. CASE m < n
    <3>1. Fsize(m) = 1 /\ Word(i) = 0
      BY <1>1, <1>5, <2>1, BucketFacts DEF Fsize
    <3>2. QED
      BY <3>1
  <2>2. CASE m = n
    <3>1. n \div n = 1
      BY <1>1
    <3>2. Fsize(m) = 1 /\ Word(i) = 0
      BY <1>1, <1>5, <2>2, <3>1, BucketFacts DEF Fsize
    <3>3. QED
      BY <3>2
  <2>3. CASE m = 2 * n
    <3>1. (2 * n + 0) \div n = 2
      <4>1. 2 \in Nat /\ 0 \in 0..(n - 1)
        BY <1>1
      <4> HIDE DEF n
      <4>2. QED
        BY <1>1, <4>1, QuotientUnique
    <3>2. (2 * n) \div n = 2
      BY <1>1, <3>1
    <3>3. Fsize(m) = 2 /\ Word(i) \in {0, 1}
      BY <1>1, <1>5, <2>3, <3>2, BucketFacts DEF Fsize
    <3>4. QED
      BY <3>3
  <2>4. QED
    <3>1. m \in {n \div 2, n, 2 * n}
      OBVIOUS
    <3>2. n \div 2 < n
      BY <1>1
    <3>3. QED
      BY <2>1, <2>2, <2>3, <3>1, <3>2
<1>8. Filled(m)[Word(i)] = x
  BY <1>6, <1>7
<1>9. x \in Nat
  BY <1>3
<1>10. BitOf(x, Shift(i) + 1) = 1
  <2>1. PICK c \in 0..(WordBuckets - 1) : Shift(i) = 2 * c
    BY <1>5, BucketFacts
  <2>2. Shift(i) + 1 \in 0..(FlagBits - 1)
    BY <1>5, BucketFacts
  <2>3. (2 * c + 1) % 2 = 1
    <3>1. c \in Nat
      BY <1>1
    <3>2. QED
      BY <3>1
  <2>4. BitOf(x, Shift(i) + 1) = (Shift(i) + 1) % 2
    BY <1>3, <1>4, <2>2
  <2>5. QED
    BY <2>1, <2>3, <2>4
<1>11. IsEmpty(Filled(m), i)
  BY <1>5, <1>8, <1>9, <1>10, PairFacts
<1>12. QED
  BY <1>11 DEF StateOf

(* The bits of a table are a state for each of its buckets (khash.h). *)
THEOREM SpecFlagsAreStates == Spec => []FlagsAreStates
<1>1. ASSUME word \in Nat PROVE FlagsAreStates
  <2>1. Flags \in [{0, 1} -> Nat]
    <3>1. val \in Nat
      BY <1>1, ValIsWord
    <3>2. ASSUME NEW w \in {0, 1}
          PROVE  (val \div Shl1[w * FlagBits]) % Shl1[FlagBits] \in Nat
      <4> DEFINE d == Shl1[w * FlagBits]
                 e == Shl1[FlagBits]
      <4>1. FlagBits \in Nat /\ w * FlagBits \in Nat
        BY FlagsAssumption DEF FlagBits
      <4>2. d \in Nat \ {0} /\ e \in Nat \ {0}
        BY <4>1, Shl1Facts
      <4> HIDE DEF d, e
      <4>3. val \div d \in Nat
        BY <3>1, <4>2, QuotientFacts
      <4>4. (val \div d) % e \in 0..(e - 1)
        BY <4>2, <4>3, QuotientFacts
      <4>5. QED
        BY <4>2, <4>4 DEF d, e
    <3>3. QED
      BY <3>2 DEF Flags
  <2> SUFFICES ASSUME \A i \in Buckets : ~(IsEmpty(Flags, i) /\ IsDel(Flags, i)),
                      NEW i \in Buckets
               PROVE  LET Is(flags, new) ==
                            \A b \in Buckets :
                              StateOf(flags, b) = IF b = i THEN new ELSE StateOf(Flags, b)
                      IN  /\ ~IsEither(Flags, i) => Is(SetIsDelTrue(Flags, i), "deleted")
                          /\ IsEmpty(Flags, i) => Is(SetIsEmptyFalse(Flags, i), "live")
                          /\ IsEither(Flags, i) => Is(SetIsBothFalse(Flags, i), "live")
    BY FilledFacts DEF FlagsAreStates
  <2> DEFINE Is(flags, new) ==
               \A b \in Buckets : StateOf(flags, b) = IF b = i THEN new ELSE StateOf(Flags, b)
             x == Flags[Word(i)]
             s == Shift(i)
             o == Or(x, Shl1[s], FlagBits)
             e == And(x, AllBut(2 * Shl1[s]), FlagBits)
             f == And(x, AllBut(3 * Shl1[s]), FlagBits)
  <2>2. /\ WordBuckets \in Nat \ {0} /\ i \in Nat /\ Word(i) \in {0, 1}
        /\ s \in Nat /\ s + 1 \in 0..(FlagBits - 1) /\ s \in 0..(FlagBits - 1)
    <3>1. WordBuckets \in Nat \ {0}
      BY FlagsAssumption
    <3>2. i \in Nat /\ i < 2 * WordBuckets
      BY <3>1 DEF Buckets
    <3>3. s \in Nat /\ s + 1 \in 0..(FlagBits - 1) /\ Word(i) \in {0, 1} /\ FlagBits = 2 * WordBuckets
      BY <3>2, BucketFacts
    <3>4. QED
      BY <3>1, <3>2, <3>3
  <2>3. x \in Nat
    BY <2>1, <2>2
  <2>4. /\ IsEmpty(Flags, i) <=> BitOf(x, s + 1) # 0
        /\ IsDel(Flags, i) <=> BitOf(x, s) # 0
        /\ IsEither(Flags, i) <=> IsEmpty(Flags, i) \/ IsDel(Flags, i)
    BY <2>2, <2>3, PairFacts
  <2>5. /\ SetIsDelTrue(Flags, i) = [Flags EXCEPT ![Word(i)] = o]
        /\ SetIsEmptyFalse(Flags, i) = [Flags EXCEPT ![Word(i)] = e]
        /\ SetIsBothFalse(Flags, i) = [Flags EXCEPT ![Word(i)] = f]
    BY <2>1, <2>2 DEF SetIsDelTrue, SetIsEmptyFalse, SetIsBothFalse
  <2>6. /\ o \in Nat /\ e \in Nat /\ f \in Nat
        /\ \A k \in 0..(FlagBits - 1) :
             /\ BitOf(o, k) = IF k = s THEN 1 ELSE BitOf(x, k)
             /\ BitOf(e, k) = IF k = s + 1 THEN 0 ELSE BitOf(x, k)
             /\ BitOf(f, k) = IF k \in {s, s + 1} THEN 0 ELSE BitOf(x, k)
    <3>1. SetsBits(x, s, o, e, f)
      <4> HIDE DEF x, s
      <4>1. QED
        BY <2>2, <2>3, MacroBits
    <3> HIDE DEF x, s, o, e, f
    <3>2. QED
      BY <3>1 DEF SetsBits
  <2>7. ASSUME NEW y \in Nat, NEW new,
               \A k \in 0..(FlagBits - 1) : k \notin {s, s + 1} => BitOf(y, k) = BitOf(x, k),
               new = IF BitOf(y, s + 1) # 0 THEN "empty"
                     ELSE IF BitOf(y, s) # 0 THEN "deleted" ELSE "live"
        PROVE  Is([Flags EXCEPT ![Word(i)] = y], new)
    <3> HIDE DEF Flags
    <3>1. LET flags == [Flags EXCEPT ![Word(i)] = y]
          IN  /\ \A b \in Buckets : b # i => StateOf(flags, b) = StateOf(Flags, b)
              /\ StateOf(flags, i) = new
      BY <2>1, <2>7, BucketChanges
    <3>2. QED
      BY <3>1
  <2> HIDE DEF Is, x, s, o, e, f
  <2>8. ~IsEither(Flags, i) => Is(SetIsDelTrue(Flags, i), "deleted")
    <3> SUFFICES ASSUME ~IsEither(Flags, i) PROVE Is([Flags EXCEPT ![Word(i)] = o], "deleted")
      BY <2>5
    <3>1. BitOf(o, s) = 1 /\ BitOf(o, s + 1) = 0
      BY <2>2, <2>4, <2>6
    <3>2. \A k \in 0..(FlagBits - 1) : k \notin {s, s + 1} => BitOf(o, k) = BitOf(x, k)
      BY <2>6
    <3>3. QED
      BY <2>6, <2>7, <3>1, <3>2
  <2>9. IsEmpty(Flags, i) => Is(SetIsEmptyFalse(Flags, i), "live")
    <3> SUFFICES ASSUME IsEmpty(Flags, i) PROVE Is([Flags EXCEPT ![Word(i)] = e], "live")
      BY <2>5
    <3>1. BitOf(e, s) = 0 /\ BitOf(e, s + 1) = 0
      BY <2>2, <2>4, <2>6
    <3>2. \A k \in 0..(FlagBits - 1) : k \notin {s, s + 1} => BitOf(e, k) = BitOf(x, k)
      BY <2>6
    <3>3. QED
      BY <2>6, <2>7, <3>1, <3>2
  <2>10. IsEither(Flags, i) => Is(SetIsBothFalse(Flags, i), "live")
    <3> SUFFICES ASSUME IsEither(Flags, i) PROVE Is([Flags EXCEPT ![Word(i)] = f], "live")
      BY <2>5
    <3>1. BitOf(f, s) = 0 /\ BitOf(f, s + 1) = 0
      BY <2>2, <2>6
    <3>2. \A k \in 0..(FlagBits - 1) : k \notin {s, s + 1} => BitOf(f, k) = BitOf(x, k)
      BY <2>6
    <3>3. QED
      BY <2>6, <2>7, <3>1, <3>2
  <2>11. QED
    BY <2>8, <2>9, <2>10 DEF Is
<1>2. QED
  BY <1>1, WordIsNat, PTL

-----------------------------------------------------------------------------
(* The hash functions: the mix of the integer keys. *)
(* Left is the product with a power of two, but for the bits shifted out. *)
LEMMA LeftFacts ==
  ASSUME NEW x \in HashWords, NEW s \in Nat
  PROVE  /\ Left(x, s) \in HashWords
         /\ \E d \in Nat : x * Shl1[s] = Left(x, s) + Shl1[HashBits] * d
<1> DEFINE M == Shl1[HashBits]
           p == Shl1[s]
<1>1. M \in Nat \ {0} /\ p \in Nat \ {0} /\ x \in Nat /\ HashWords = 0..(M - 1)
  BY HashWordFacts, Shl1Facts DEF HashWords
<1>2. HashBits \in Nat
  BY HashWordFacts
<1>3. CASE s < HashBits
  <2> DEFINE k == Shl1[HashBits - s]
             q == x \div k
             r == x % k
  <2>1. HashBits - s \in Nat /\ (HashBits - s) + s = HashBits
    BY <1>2, <1>3
  <2>2. k \in Nat \ {0} /\ M = k * p
    BY <2>1, Shl1Facts, Shl1Sum
  <2>3. Left(x, s) = r * p
    BY <1>3 DEF Left
  <2>4. q \in Nat /\ r \in 0..(k - 1) /\ x = q * k + r
    <3> HIDE DEF k
    <3>1. QED
      BY <1>1, <2>2, QuotientFacts
  <2> HIDE DEF M, p, k, q, r
  <2>5. x * p = r * p + M * q
    BY <1>1, <2>2, <2>4
  <2>6. r * p \in Nat /\ r * p <= (k - 1) * p
    <3>1. r <= k - 1 /\ k - 1 \in Nat /\ r \in Nat
      BY <2>2, <2>4
    <3>2. QED
      BY <1>1, <3>1, ProductGrows
  <2>7. (k - 1) * p = M - p
    BY <1>1, <2>2
  <2>8. r * p \in 0..(M - 1)
    <3> DEFINE y == r * p
               z == (k - 1) * p
    <3>1. y \in Nat /\ y <= z /\ z = M - p
      BY <2>6, <2>7
    <3> HIDE DEF y, z
    <3>2. y \in 0..(M - 1)
      BY <1>1, <3>1
    <3>3. QED
      BY <3>2 DEF y
  <2>9. QED
    BY <1>1, <2>3, <2>4, <2>5, <2>8 DEF M, p
<1>4. CASE ~(s < HashBits)
  <2> DEFINE k == Shl1[s - HashBits]
  <2>1. s - HashBits \in Nat /\ HashBits + (s - HashBits) = s
    BY <1>2, <1>4
  <2>2. k \in Nat /\ p = M * k
    BY <1>2, <2>1, Shl1Facts, Shl1Sum
  <2>3. Left(x, s) = 0
    BY <1>4 DEF Left
  <2> HIDE DEF M, p, k
  <2>4. x * p = 0 + M * (k * x) /\ k * x \in Nat
    BY <1>1, <2>2
  <2>5. QED
    BY <1>1, <2>3, <2>4 DEF M, p
<1>5. QED
  BY <1>3, <1>4

(* Words whose odd multiples differ by a multiple of the modulus are equal. *)
LEMMA OddMultiple ==
  ASSUME NEW x \in HashWords, NEW y \in HashWords, NEW a \in Nat, a % 2 = 1,
         NEW k \in Int, NEW c \in Int, NEW d \in Int,
         a * x + k = Shl1[HashBits] * c, a * y + k = Shl1[HashBits] * d
  PROVE  x = y
<1> DEFINE M == Shl1[HashBits]
<1>1. M \in Nat \ {0} /\ HashWords = 0..(M - 1)
  BY HashWordFacts DEF HashWords
<1>2. a * x + k = M * c /\ a * y + k = M * d
  OBVIOUS
<1>3. ASSUME NEW u \in HashWords, NEW v \in HashWords, NEW e \in Int, NEW f \in Int,
             a * u + k = M * e, a * v + k = M * f, u < v
      PROVE  FALSE
  <2> HIDE DEF M
  <2>1. u \in Nat /\ v \in Nat /\ v - u \in Nat \ {0} /\ v - u < M
    BY <1>1, <1>3
  <2>2. a * (v - u) = M * (f - e)
    <3>1. a * (v - u) = a * v - a * u
      BY <2>1
    <3>2. M * (f - e) = M * f - M * e
      BY <1>1
    <3> DEFINE au == a * u
               av == a * v
               me == M * e
               mf == M * f
    <3>3. au \in Int /\ av \in Int /\ me \in Int /\ mf \in Int
      BY <1>1, <2>1
    <3>4. au + k = me /\ av + k = mf
      BY <1>3
    <3> HIDE DEF au, av, me, mf
    <3>5. av - au = mf - me
      BY <3>3, <3>4
    <3>6. QED
      BY <3>1, <3>2, <3>5 DEF au, av, me, mf
  <2>3. f - e \in Nat
    <3>1. a * (v - u) >= 0
      <4>1. a * (v - u) \in Nat
        BY <2>1
      <4>2. QED
        BY <4>1
    <3>2. M * (f - e) >= 0 /\ f - e \in Int
      BY <2>2, <3>1
    <3>3. CASE f - e < 0
      <4>1. e - f \in Nat /\ 1 <= e - f /\ M \in Nat
        BY <1>1, <3>3
      <4>2. 1 * M <= (e - f) * M
        BY <4>1, ProductGrows
      <4>3. (e - f) * M = 0 - M * (f - e)
        BY <1>1
      <4>4. QED
        BY <1>1, <3>2, <4>2, <4>3
    <3>4. QED
      BY <3>2, <3>3
  <2>4. PICK g \in Nat : v - u = M * g
    <3>1. \A b, h \in Nat : a * b = M * h => \E g \in Nat : b = M * g
      <4>1. HashBits \in Nat
        BY HashWordFacts
      <4>2. \A q, b, h \in Nat : q % 2 = 1 /\ q * b = Shl1[HashBits] * h =>
                                 \E g \in Nat : b = Shl1[HashBits] * g
        BY <4>1, OddFactor, Zenon
      <4>3. QED
        BY <4>2 DEF M
    <3> DEFINE b == v - u
               h == f - e
    <3>2. b \in Nat /\ h \in Nat /\ a * b = M * h
      BY <2>1, <2>2, <2>3
    <3> HIDE DEF b, h
    <3>3. \E g \in Nat : b = M * g
      BY <3>1, <3>2
    <3>4. QED
      BY <3>3 DEF b
  <2>5. g # 0
    BY <1>1, <2>1, <2>4
  <2>6. 1 * M <= g * M
    BY <1>1, <2>5, ProductGrows
  <2>7. g * M = M * g
    BY <1>1
  <2>8. QED
    BY <1>1, <2>1, <2>4, <2>6, <2>7
<1>4. x \in Nat /\ y \in Nat
  BY HashWordFacts
<1>5. ~(x < y)
  BY <1>2, <1>3
<1>6. ~(y < x)
  BY <1>2, <1>3
<1>7. QED
  BY <1>4, <1>5, <1>6

(* No bit is set beyond the width. *)
LEMMA HighestBits ==
  ASSUME NEW x \in Nat, NEW w \in Nat, x < Shl1[w], NEW k \in Nat, w <= k
  PROVE  BitOf(x, k) = 0
<1>1. CASE w = k
  BY <1>1, HighBits
<1>2. CASE w < k
  <2>1. 2 * Shl1[w] <= Shl1[k] /\ Shl1[w] \in Nat /\ Shl1[k] \in Nat
    BY <1>2, Shl1Grows, Shl1Facts
  <2>2. x < Shl1[k]
    BY <2>1
  <2>3. QED
    BY <2>2, HighBits
<1>3. QED
  BY <1>1, <1>2

(* Different words keep different hashes through a line of the mix. *)
Mixes(mix) == /\ mix \in [HashWords -> HashWords]
              /\ \A x, y \in HashWords : mix[x] = mix[y] => x = y

LEMMA AddLeftMixes ==
  ASSUME NEW s \in Nat \ {0}
  PROVE  Mixes([x \in HashWords |-> AddLeft(x, s)])
<1> DEFINE M == Shl1[HashBits]
           p == Shl1[s]
<1>1. M \in Nat \ {0} /\ p \in Nat \ {0} /\ (1 + p) % 2 = 1
  <2>1. s - 1 \in Nat /\ s = (s - 1) + 1
    OBVIOUS
  <2>2. Shl1[s - 1] \in Nat \ {0} /\ p = 2 * Shl1[s - 1]
    BY <2>1, Shl1Facts
  <2>3. (1 + p) % 2 = 1
    BY <2>2
  <2>4. QED
    BY <2>2, <2>3, HashWordFacts
<1>2. ASSUME NEW x \in HashWords
      PROVE  /\ AddLeft(x, s) \in HashWords
             /\ \E c \in Int : (1 + p) * x + (0 - AddLeft(x, s)) = M * c
  <2> DEFINE l == Left(x, s)
  <2>1. x \in Nat /\ l \in Nat
    BY LeftFacts, HashWordFacts
  <2>2. PICK d \in Nat : x * p = l + M * d
    BY LeftFacts
  <2>3. x + l \in Nat /\ AddLeft(x, s) = Wrap(x + l)
    BY <2>1 DEF AddLeft
  <2>4. AddLeft(x, s) \in HashWords
    BY <2>3, HashWordFacts
  <2>5. PICK q \in Nat : x + l = AddLeft(x, s) + M * q
    BY <2>3, HashWordFacts
  <2>6. AddLeft(x, s) \in Nat
    BY <2>4, HashWordFacts
  <2> DEFINE v == AddLeft(x, s)
  <2> HIDE DEF M, p, l, v
  <2>7. (1 + p) * x + (0 - v) = M * (d + q)
    <3>1. (1 + p) * x = x + x * p /\ M * (d + q) = M * d + M * q
      BY <1>1, <2>1
    <3> DEFINE md == M * d
               mq == M * q
               xp == x * p
    <3>2. md \in Nat /\ mq \in Nat /\ xp \in Nat /\ xp = l + md /\ x + l = v + mq /\ v \in Nat
      BY <1>1, <2>1, <2>2, <2>5, <2>6 DEF v
    <3> HIDE DEF md, mq, xp
    <3>3. x + xp + (0 - v) = md + mq
      BY <2>1, <3>2
    <3>4. QED
      BY <3>1, <3>3 DEF md, mq, xp
  <2>8. QED
    BY <2>4, <2>7 DEF v
<1>3. ASSUME NEW x \in HashWords, NEW y \in HashWords, AddLeft(x, s) = AddLeft(y, s)
      PROVE  x = y
  <2> DEFINE k == 0 - AddLeft(x, s)
  <2>1. k \in Int
    <3>1. AddLeft(x, s) \in Nat
      BY <1>2, HashWordFacts
    <3>2. QED
      BY <3>1
  <2>2. \E c \in Int : (1 + p) * x + k = M * c
    BY <1>2
  <2>3. \E d \in Int : (1 + p) * y + k = M * d
    BY <1>2, <1>3
  <2> HIDE DEF k
  <2>4. 1 + p \in Nat
    BY <1>1
  <2>5. QED
    BY <1>1, <2>1, <2>2, <2>3, <2>4, OddMultiple
<1>4. QED
  BY <1>2, <1>3 DEF Mixes

LEMMA AddNotLeftMixes ==
  ASSUME NEW s \in Nat \ {0}
  PROVE  Mixes([x \in HashWords |-> AddNotLeft(x, s)])
<1> DEFINE M == Shl1[HashBits]
           p == Shl1[s]
<1>1. M \in Nat \ {0} /\ p - 1 \in Nat /\ (p - 1) % 2 = 1 /\ HashWords = 0..(M - 1)
  <2>1. s - 1 \in Nat /\ s = (s - 1) + 1
    OBVIOUS
  <2>2. Shl1[s - 1] \in Nat \ {0} /\ p = 2 * Shl1[s - 1]
    BY <2>1, Shl1Facts
  <2>3. p - 1 \in Nat /\ (p - 1) % 2 = 1
    BY <2>2
  <2>4. QED
    BY <2>3, HashWordFacts DEF HashWords
<1>2. ASSUME NEW x \in HashWords
      PROVE  /\ AddNotLeft(x, s) \in HashWords
             /\ \E c \in Int : (p - 1) * x + (AddNotLeft(x, s) + 1) = M * c
  <2> DEFINE l == Left(x, s)
             n == x + ((M - 1) - l)
             v == AddNotLeft(x, s)
  <2>1. x \in Nat /\ l \in 0..(M - 1)
    BY LeftFacts, HashWordFacts DEF HashWords
  <2>2. PICK d \in Nat : x * p = l + M * d
    BY LeftFacts
  <2>3. v = Wrap(n)
    BY DEF AddNotLeft, Complement
  <2> HIDE DEF M, p, l, v
  <2>4. n \in Nat
    BY <1>1, <2>1
  <2>5. v \in HashWords
    BY <2>3, <2>4, HashWordFacts
  <2>6. PICK q \in Nat : n = v + M * q
    BY <2>3, <2>4, HashWordFacts DEF M
  <2>7. v \in Nat /\ p \in Nat
    BY <1>1, <2>5, HashWordFacts, Shl1Facts DEF p
  <2>8. (p - 1) * x + (v + 1) = M * (d + 1 - q)
    <3>1. (p - 1) * x = x * p - x /\ M * (d + 1 - q) = M * d + M - M * q
      BY <1>1, <2>1, <2>7
    <3> DEFINE md == M * d
               mq == M * q
               xp == x * p
    <3>2. /\ md \in Nat /\ mq \in Nat /\ xp \in Nat
          /\ xp = l + md /\ x + ((M - 1) - l) = v + mq
      BY <1>1, <2>1, <2>2, <2>6, <2>7
    <3> HIDE DEF md, mq, xp
    <3>3. xp - x + (v + 1) = md + M - mq
      BY <1>1, <2>1, <2>7, <3>2
    <3>4. QED
      BY <3>1, <3>3 DEF md, mq, xp
  <2>9. QED
    BY <2>5, <2>8 DEF v
<1>3. ASSUME NEW x \in HashWords, NEW y \in HashWords, AddNotLeft(x, s) = AddNotLeft(y, s)
      PROVE  x = y
  <2> DEFINE k == AddNotLeft(x, s) + 1
  <2>1. k \in Int
    <3>1. AddNotLeft(x, s) \in Nat
      BY <1>2, HashWordFacts
    <3>2. QED
      BY <3>1
  <2>2. \E c \in Int : (p - 1) * x + k = M * c
    BY <1>2
  <2>3. \E d \in Int : (p - 1) * y + k = M * d
    BY <1>2, <1>3
  <2> HIDE DEF k
  <2>4. QED
    BY <1>1, <2>1, <2>2, <2>3, OddMultiple
<1>4. QED
  BY <1>2, <1>3 DEF Mixes

(* A word is known from the top: each bit was mixed with one further up. *)
LEMMA XorRightMixes ==
  ASSUME NEW s \in Nat \ {0}
  PROVE  Mixes([x \in HashWords |-> XorRight(x, s)])
<1>1. ASSUME NEW x \in HashWords
      PROVE  Right(x, s) \in Nat /\ \A k \in Nat : BitOf(Right(x, s), k) = BitOf(x, k + s)
  <2>1. x \in Nat /\ Shl1[s] \in Nat \ {0} /\ x < Shl1[HashBits] /\ HashBits \in Nat
    BY HashWordBelow, HashBitsAssumption, Shl1Facts
  <2>2. CASE s < HashBits
    <3>1. Right(x, s) = x \div Shl1[s] /\ Right(x, s) \in Nat
      BY <2>1, <2>2, QuotientFacts DEF Right
    <3>2. ASSUME NEW k \in Nat
          PROVE  BitOf(Right(x, s), k) = BitOf(x, k + s)
      <4>1. Shl1[k + s] = Shl1[s] * Shl1[k] /\ Shl1[k] \in Nat \ {0}
        <5>1. s + k = k + s /\ Shl1[s + k] = Shl1[s] * Shl1[k]
          BY Shl1Sum
        <5>2. QED
          BY <5>1, Shl1Facts
      <4>2. x \div Shl1[k + s] = (x \div Shl1[s]) \div Shl1[k]
        BY <2>1, <4>1, DivideTwice
      <4>3. QED
        BY <3>1, <4>2 DEF BitOf
    <3>3. QED
      BY <3>1, <3>2
  <2>3. CASE ~(s < HashBits)
    <3>1. Right(x, s) = 0
      BY <2>3 DEF Right
    <3>2. ASSUME NEW k \in Nat
          PROVE  BitOf(Right(x, s), k) = BitOf(x, k + s)
      <4>1. 0 < Shl1[k]
        BY Shl1Facts
      <4>2. BitOf(0, k) = 0
        BY <4>1, HighBits
      <4>3. k + s \in Nat /\ BitOf(x, k + s) = 0
        BY <2>1, <2>3, HighestBits
      <4>4. QED
        BY <3>1, <4>2, <4>3
    <3>3. QED
      BY <3>1, <3>2
  <2>4. QED
    BY <2>2, <2>3
<1>2. ASSUME NEW x \in HashWords
      PROVE  /\ XorRight(x, s) \in HashWords
             /\ \A k \in 0..(HashBits - 1) :
                  BitOf(XorRight(x, s), k) =
                    IF BitOf(x, k) = BitOf(x, k + s) THEN 0 ELSE 1
  <2>1. x \in Nat /\ Right(x, s) \in Nat /\ HashBits \in Nat
    BY <1>1, HashWordFacts
  <2> DEFINE r == Right(x, s)
             H == HashBits
  <2>2. \A k \in 0..(H - 1) : BitOf(r, k) = BitOf(x, k + s)
    BY <1>1, <2>1
  <2>3. XorRight(x, s) = Xor(x, r, H)
    BY DEF XorRight
  <2> HIDE DEF r, H
  <2>4. x \in Nat /\ r \in Nat /\ H \in Nat
    BY <2>1 DEF r, H
  <2>5. \A k \in 0..(H - 1) :
          BitOf(Xor(x, r, H), k) = IF BitOf(x, k) = BitOf(r, k) THEN 0 ELSE 1
    <3>1. \A k \in 0..(H - 1) :
            BitOf(Combine(Differ, x, r, H), k) = Differ[BitOf(x, k)][BitOf(r, k)]
      BY <2>4, TableFacts, CombineBits
    <3>2. \A k \in 0..(H - 1) : BitOf(x, k) \in {0, 1} /\ BitOf(r, k) \in {0, 1}
      BY <2>4, BitFacts
    <3>3. QED
      BY <3>1, <3>2, TableFacts DEF Xor
  <2>6. \A k \in 0..(H - 1) :
          BitOf(Xor(x, r, H), k) = IF BitOf(x, k) = BitOf(x, k + s) THEN 0 ELSE 1
    BY <2>2, <2>5
  <2>7. Xor(x, r, H) \in 0..(Shl1[H] - 1)
    BY <2>4, WordBitFacts
  <2>8. QED
    BY <2>3, <2>6, <2>7 DEF HashWords, H
<1>3. ASSUME NEW x \in HashWords, NEW y \in HashWords, XorRight(x, s) = XorRight(y, s)
      PROVE  x = y
  <2> DEFINE H == HashBits
             Good == {j \in Nat : \A k \in Nat : H <= k + j => BitOf(x, k) = BitOf(y, k)}
  <2>1. H \in Nat /\ x \in Nat /\ y \in Nat /\ x < Shl1[H] /\ y < Shl1[H]
    BY HashWordBelow, HashBitsAssumption
  <2>2. 0 \in Good
    <3>1. ASSUME NEW k \in Nat, H <= k + 0
          PROVE  BitOf(x, k) = BitOf(y, k)
      BY <2>1, <3>1, HighestBits
    <3>2. QED
      BY <3>1
  <2>3. ASSUME NEW j \in Nat, j \in Good
        PROVE  j + 1 \in Good
    <3>1. ASSUME NEW k \in Nat, H <= k + (j + 1)
          PROVE  BitOf(x, k) = BitOf(y, k)
      <4>1. CASE H <= k + j
        BY <2>3, <4>1
      <4>2. CASE ~(H <= k + j) /\ k < H
        <5>1. k \in 0..(H - 1) /\ k + s \in Nat /\ H <= (k + s) + j
          BY <2>1, <3>1, <4>2
        <5>2. BitOf(x, k + s) = BitOf(y, k + s)
          BY <2>3, <5>1
        <5>3. (IF BitOf(x, k) = BitOf(x, k + s) THEN 0 ELSE 1) =
              (IF BitOf(y, k) = BitOf(y, k + s) THEN 0 ELSE 1)
          BY <1>2, <1>3, <5>1
        <5>4. BitOf(x, k) \in {0, 1} /\ BitOf(y, k) \in {0, 1} /\ BitOf(x, k + s) \in {0, 1}
          BY <2>1, <5>1, BitFacts
        <5>5. QED
          BY <5>2, <5>3, <5>4
      <4>3. CASE ~(k < H)
        BY <2>1, <4>3, HighestBits
      <4>4. QED
        BY <4>1, <4>2, <4>3
    <3>2. QED
      BY <3>1
  <2> HIDE DEF Good
  <2>4. H \in Good
    BY <2>1, <2>2, <2>3, SetInduction
  <2>5. \A k \in 0..(H - 1) : BitOf(x, k) = BitOf(y, k)
    BY <2>1, <2>4 DEF Good
  <2>6. QED
    BY <2>1, <2>5, SameBits DEF HashWords
<1>4. QED
  BY <1>2, <1>3 DEF Mixes

(* Lines that mix, one after the other. *)
LEMMA MixesInTurn ==
  ASSUME NEW f, NEW g, Mixes(f), Mixes(g)
  PROVE  Mixes([x \in HashWords |-> g[f[x]]])
BY DEF Mixes

LEMMA WangHashMixes == Mixes([x \in HashWords |-> WangHash(x)])
<1> DEFINE not(s) == [x \in HashWords |-> AddNotLeft(x, s)]
           add(s) == [x \in HashWords |-> AddLeft(x, s)]
           xor(s) == [x \in HashWords |-> XorRight(x, s)]
           f1 == not(15)
           f2 == [x \in HashWords |-> xor(10)[f1[x]]]
           f3 == [x \in HashWords |-> add(3)[f2[x]]]
           f4 == [x \in HashWords |-> xor(6)[f3[x]]]
           f5 == [x \in HashWords |-> not(11)[f4[x]]]
           f6 == [x \in HashWords |-> xor(16)[f5[x]]]
<1>1. Mixes(not(15)) /\ Mixes(not(11))
  BY AddNotLeftMixes
<1>2. Mixes(xor(10)) /\ Mixes(xor(6)) /\ Mixes(xor(16))
  BY XorRightMixes
<1>3. Mixes(add(3))
  BY AddLeftMixes
<1>4. /\ \A x \in HashWords : not(15)[x] = AddNotLeft(x, 15) /\ not(11)[x] = AddNotLeft(x, 11)
      /\ \A x \in HashWords : xor(10)[x] = XorRight(x, 10) /\ xor(6)[x] = XorRight(x, 6)
                              /\ xor(16)[x] = XorRight(x, 16)
      /\ \A x \in HashWords : add(3)[x] = AddLeft(x, 3)
  OBVIOUS
<1> HIDE DEF not, add, xor
<1>5. Mixes(f1) /\ Mixes(f2) /\ Mixes(f3) /\ Mixes(f4) /\ Mixes(f5) /\ Mixes(f6)
  <2>1. Mixes(f1)
    BY <1>1
  <2> HIDE DEF f1
  <2>2. Mixes(f2)
    BY <1>2, <2>1, MixesInTurn
  <2> HIDE DEF f2
  <2>3. Mixes(f3)
    BY <1>3, <2>2, MixesInTurn
  <2> HIDE DEF f3
  <2>4. Mixes(f4)
    BY <1>2, <2>3, MixesInTurn
  <2> HIDE DEF f4
  <2>5. Mixes(f5)
    BY <1>1, <2>4, MixesInTurn
  <2> HIDE DEF f5
  <2>6. Mixes(f6)
    BY <1>2, <2>5, MixesInTurn
  <2>7. QED
    BY <2>1, <2>2, <2>3, <2>4, <2>5, <2>6
<1>6. ASSUME NEW x \in HashWords
      PROVE  f6[x] = WangHash(x)
  <2>1. /\ f1[x] \in HashWords /\ f2[x] \in HashWords /\ f3[x] \in HashWords
        /\ f4[x] \in HashWords /\ f5[x] \in HashWords
    <3> HIDE DEF f1, f2, f3, f4, f5
    <3>1. QED
      BY <1>5 DEF Mixes
  <2>2. f2[x] = xor(10)[f1[x]] /\ f3[x] = add(3)[f2[x]] /\ f4[x] = xor(6)[f3[x]]
        /\ f5[x] = not(11)[f4[x]] /\ f6[x] = xor(16)[f5[x]]
    OBVIOUS
  <2>3. f1[x] = AddNotLeft(x, 15)
    BY <1>4
  <2> HIDE DEF f1, f2, f3, f4, f5, f6
  <2>4. f2[x] = XorRight(f1[x], 10)
    BY <1>4, <2>1, <2>2
  <2>5. f3[x] = AddLeft(f2[x], 3)
    BY <1>4, <2>1, <2>2
  <2>6. f4[x] = XorRight(f3[x], 6)
    BY <1>4, <2>1, <2>2
  <2>7. f5[x] = AddNotLeft(f4[x], 11)
    BY <1>4, <2>1, <2>2
  <2>8. f6[x] = XorRight(f5[x], 16)
    BY <1>4, <2>1, <2>2
  <2>9. QED
    BY <2>3, <2>4, <2>5, <2>6, <2>7, <2>8 DEF WangHash
<1>7. f6 = [x \in HashWords |-> WangHash(x)]
  <2>1. f6 = [x \in HashWords |-> f6[x]]
    OBVIOUS
  <2> HIDE DEF f6
  <2>2. QED
    BY <1>6, <2>1
<1> HIDE DEF f6
<1>8. QED
  BY <1>5, <1>7

(* As many words as hashes: each one occurs. *)
LEMMA WangHashCovers == \A w \in HashWords : w \in WangHashes
<1> DEFINE f == [x \in HashWords |-> WangHash(x)]
<1>1. f \in Injection(HashWords, HashWords)
  BY WangHashMixes DEF Mixes, Injection, IsInjective
<1>2. IsFiniteSet(HashWords)
  <2>1. Shl1[HashBits] - 1 \in Int /\ 0 \in Int
    BY HashWordFacts
  <2>2. QED
    BY <2>1, FS_Interval DEF HashWords
<1>3. f \in Surjection(HashWords, HashWords)
  <2> HIDE DEF f
  <2>1. QED
    BY <1>1, <1>2, FS_Injection
<1>4. \A w \in HashWords : \E x \in HashWords : f[x] = w
  BY <1>3 DEF Surjection
<1>5. QED
  BY <1>4 DEF WangHashes, HashWords

(* __ac_Wang_hash is a permutation of the words, of any width. *)
THEOREM SpecEveryHashOccurs == Spec => []EveryHashOccurs
<1>1. word \in HashWords => EveryHashOccurs
  BY WangHashCovers DEF EveryHashOccurs
<1>2. QED
  BY <1>1, WordIsHashWord, PTL

-----------------------------------------------------------------------------
(* Integers that differ by a multiple of the modulus. *)
Congruent(a, b) == \E q \in Int : a = b + Shl1[HashBits] * q

LEMMA IntQuotient ==
  ASSUME NEW x \in Int, NEW d \in Nat \ {0}
  PROVE  x % d \in 0..(d - 1) /\ \E q \in Int : x = (x % d) + d * q
<1> DEFINE q == x \div d
           r == x % d
<1>1. q \in Int /\ r \in 0..(d - 1) /\ x = q * d + r
  OBVIOUS
<1> HIDE DEF q, r
<1>2. x = r + d * q
  BY <1>1
<1>3. QED
  BY <1>1, <1>2 DEF r

LEMMA CongruentSum ==
  ASSUME NEW a \in Int, NEW b \in Int, NEW c \in Int, NEW d \in Int,
         Congruent(a, b), Congruent(c, d)
  PROVE  Congruent(a + c, b + d)
<1> DEFINE M == Shl1[HashBits]
<1>1. M \in Int
  BY HashWordFacts
<1>2. PICK p \in Int : a = b + M * p
  BY DEF Congruent
<1>3. PICK q \in Int : c = d + M * q
  BY DEF Congruent
<1> HIDE DEF M
<1>4. a + c = (b + d) + M * (p + q)
  BY <1>1, <1>2, <1>3
<1>5. QED
  BY <1>4 DEF Congruent, M

LEMMA CongruentProduct ==
  ASSUME NEW a \in Int, NEW b \in Int, NEW c \in Int, Congruent(a, b)
  PROVE  Congruent(a * c, b * c)
<1> DEFINE M == Shl1[HashBits]
<1>1. M \in Int
  BY HashWordFacts
<1>2. PICK p \in Int : a = b + M * p
  BY DEF Congruent
<1> HIDE DEF M
<1>3. a * c = b * c + M * (p * c) /\ p * c \in Int
  BY <1>1, <1>2
<1>4. QED
  BY <1>3 DEF Congruent, M

LEMMA CongruentLaws ==
  /\ \A a \in Int : Congruent(a, a)
  /\ \A a, b \in Int : Congruent(a, b) => Congruent(b, a)
  /\ \A a, b, c \in Int : Congruent(a, b) /\ Congruent(b, c) => Congruent(a, c)
<1> DEFINE M == Shl1[HashBits]
<1>1. M \in Int
  BY HashWordFacts
<1>2. \A a, b : Congruent(a, b) <=> \E q \in Int : a = b + M * q
  BY DEF Congruent
<1> HIDE DEF M
<1>3. ASSUME NEW a \in Int
      PROVE  Congruent(a, a)
  <2>1. a = a + M * 0
    BY <1>1
  <2>2. QED
    BY <1>2, <2>1
<1>4. ASSUME NEW a \in Int, NEW b \in Int, Congruent(a, b)
      PROVE  Congruent(b, a)
  <2>1. PICK q \in Int : a = b + M * q
    BY <1>2, <1>4
  <2>2. b = a + M * (0 - q) /\ 0 - q \in Int
    BY <1>1, <2>1
  <2>3. QED
    BY <1>2, <2>2
<1>5. ASSUME NEW a \in Int, NEW b \in Int, NEW c \in Int, Congruent(a, b), Congruent(b, c)
      PROVE  Congruent(a, c)
  <2>1. PICK p \in Int : a = b + M * p
    BY <1>2, <1>5
  <2>2. PICK q \in Int : b = c + M * q
    BY <1>2, <1>5
  <2>3. a = c + M * (p + q) /\ p + q \in Int
    BY <1>1, <2>1, <2>2
  <2>4. QED
    BY <1>2, <2>3
<1>6. QED
  BY <1>3, <1>4, <1>5

(* Wrap gives the one word that is congruent. *)
LEMMA WrapFacts ==
  /\ \A x \in Int : Wrap(x) \in HashWords /\ Congruent(Wrap(x), x)
  /\ \A x \in Int : \A w \in HashWords : Congruent(w, x) => w = Wrap(x)
<1> DEFINE M == Shl1[HashBits]
<1>1. M \in Nat \ {0} /\ HashWords = 0..(M - 1)
  BY HashWordFacts DEF HashWords
<1>2. /\ \A a, b : Congruent(a, b) <=> \E q \in Int : a = b + M * q
      /\ \A x : Wrap(x) = x % M
  BY DEF Congruent, Wrap, Modulus
<1> HIDE DEF M
<1>3. ASSUME NEW x \in Int
      PROVE  Wrap(x) \in HashWords /\ \E q \in Int : x = Wrap(x) + M * q
  BY <1>1, <1>2, IntQuotient
<1>4. ASSUME NEW x \in Int
      PROVE  Congruent(Wrap(x), x)
  <2>1. PICK q \in Int : x = Wrap(x) + M * q
    BY <1>3
  <2> DEFINE w == Wrap(x)
  <2>2. w \in Nat /\ x = w + M * q
    BY <1>1, <1>3, <2>1
  <2> HIDE DEF w
  <2>3. w = x + M * (0 - q) /\ 0 - q \in Int
    BY <1>1, <2>2
  <2>4. QED
    BY <1>2, <2>3 DEF w
<1>5. ASSUME NEW u \in HashWords, NEW v \in HashWords, NEW q \in Int, u = v + M * q
      PROVE  u = v
  <2>1. u \in Nat /\ v \in Nat /\ u < M /\ v < M /\ M * q \in Int
    BY <1>1
  <2>2. CASE 1 <= q
    <3>1. 1 * M <= q * M
      BY <1>1, <2>2, ProductGrows
    <3>2. q * M = M * q
      BY <1>1
    <3>3. QED
      BY <1>1, <1>5, <2>1, <3>1, <3>2
  <2>3. CASE q <= -1
    <3>1. 1 * M <= (0 - q) * M
      BY <1>1, <2>3, ProductGrows
    <3>2. (0 - q) * M = 0 - M * q
      BY <1>1
    <3>3. QED
      BY <1>1, <1>5, <2>1, <3>1, <3>2
  <2>4. CASE q = 0
    BY <1>1, <1>5, <2>1, <2>4
  <2>5. QED
    BY <2>2, <2>3, <2>4
<1>6. ASSUME NEW x \in Int, NEW w \in HashWords, Congruent(w, x)
      PROVE  w = Wrap(x)
  <2>1. w \in Int /\ Wrap(x) \in HashWords /\ Wrap(x) \in Int
    <3>1. \A u \in HashWords : u \in Int
      BY HashWordBelow
    <3>2. QED
      BY <1>3, <3>1
  <2>2. Congruent(x, Wrap(x))
    BY <1>4, <2>1, CongruentLaws
  <2>3. Congruent(w, Wrap(x))
    BY <1>6, <2>1, <2>2, CongruentLaws
  <2>4. QED
    BY <1>2, <1>5, <2>1, <2>3
<1>7. QED
  BY <1>3, <1>4, <1>6

-----------------------------------------------------------------------------
(* The texts that MCBitOps makes of a word. *)
LEMMA TextFacts ==
  ASSUME word \in HashWords
  PROVE  /\ Text \in Seq(HashWords) /\ Len(Text) \in Nat \ {0} /\ Text[Len(Text)] = 0
         /\ \A i \in 1..(Len(Text) - 1) : Signed[i] \in Int /\ Text[i] = Wrap(Signed[i])
<1> DEFINE L == HashBits \div 2
<1>1. L \in Nat /\ DOMAIN Signed = 1..L
  BY HashBitsAssumption DEF Signed, Place
<1>2. ASSUME NEW i \in 1..L
      PROVE  Signed[i] \in Int
  <2> DEFINE d == Shl1[2 * (i - 1)]
             q == word \div d
             r == q % 4
  <2>1. 2 * (i - 1) \in Nat
    BY <1>1
  <2>2. d \in Nat \ {0} /\ word \in Nat
    BY <2>1, Shl1Facts, HashWordFacts
  <2>3. Signed[i] = SignedChars[1 + r]
    BY DEF Signed, Place
  <2> HIDE DEF d
  <2>4. q \in Nat
    BY <2>2, QuotientFacts
  <2> HIDE DEF q
  <2>5. r \in 0..3
    BY <2>4
  <2> HIDE DEF r
  <2>6. 1 + r \in {1, 2, 3, 4}
    BY <2>5
  <2>7. \A k \in {1, 2, 3, 4} : SignedChars[k] \in Int
    BY DEF SignedChars
  <2>8. QED
    BY <2>3, <2>6, <2>7
<1>3. \A i \in 1..(L + 1) : Text[i] = IF i \in DOMAIN Signed THEN Wrap(Signed[i]) ELSE 0
  BY DEF Text
<1>4. \A i \in 1..L : Text[i] = Wrap(Signed[i]) /\ Text[i] \in HashWords
  BY <1>1, <1>2, <1>3, WrapFacts
<1>5. Text[L + 1] = 0 /\ 0 \in HashWords
  <2>1. L + 1 \in 1..(L + 1) /\ L + 1 \notin 1..L
    BY <1>1
  <2>2. 0 \in HashWords
    BY HashWordFacts DEF HashWords
  <2>3. QED
    BY <1>1, <1>3, <2>1, <2>2
<1>6. Text = [i \in 1..(L + 1) |-> Text[i]]
  BY DEF Text
<1>7. \A i \in 1..(L + 1) : Text[i] \in HashWords
  <2> SUFFICES ASSUME NEW i \in 1..(L + 1) PROVE Text[i] \in HashWords
    OBVIOUS
  <2>1. i \in 1..L \/ i = L + 1
    BY <1>1
  <2>2. QED
    BY <1>4, <1>5, <2>1
<1> HIDE DEF L
<1>8. L + 1 \in Nat /\ Text \in [1..(L + 1) -> HashWords]
  BY <1>1, <1>6, <1>7
<1>9. Text \in Seq(HashWords) /\ Len(Text) = L + 1
  <2> DEFINE seq == Text
  <2>1. seq \in [1..(L + 1) -> HashWords]
    BY <1>8
  <2> HIDE DEF seq
  <2>2. seq \in Seq(HashWords) /\ Len(seq) = L + 1
    BY <1>8, <2>1
  <2>3. QED
    BY <2>2 DEF seq
<1>10. QED
  BY <1>1, <1>2, <1>4, <1>5, <1>9

(* The loop ends at the first terminator. *)
LEMMA TextLengthFacts ==
  ASSUME NEW text \in Seq(HashWords), Len(text) \in Nat \ {0}, text[Len(text)] = 0
  PROVE  /\ TextLength(text) \in 0..(Len(text) - 1)
         /\ text[TextLength(text) + 1] = 0
         /\ \A i \in 1..TextLength(text) : text[i] # 0
<1> DEFINE l == Len(text)
           I == {i \in 1..l : text[i] = 0}
           m == Min(I)
<1>1. l \in Nat \ {0} /\ l \in I
  OBVIOUS
<1>2. TextLength(text) = m - 1
  <2>1. SelectInSeq(text, LAMBDA char : char = 0) = IF I # {} THEN m ELSE 0
    BY DEF SelectInSeq
  <2>2. QED
    BY <1>1, <2>1 DEF TextLength
<1> HIDE DEF l
<1>3. I \in SUBSET Nat /\ I # {}
  BY <1>1
<1>4. \E i \in I : \A j \in I : i <= j
  BY <1>3, LeastElement, Zenon
<1>5. m \in I /\ \A j \in I : m <= j
  BY <1>4 DEF Min
<1> HIDE DEF m
<1>6. m \in 1..l /\ text[m] = 0
  BY <1>5
<1>7. \A i \in 1..(m - 1) : text[i] # 0
  <2> SUFFICES ASSUME NEW i \in 1..(m - 1), text[i] = 0 PROVE FALSE
    OBVIOUS
  <2>1. i \in I /\ i < m
    BY <1>1, <1>6
  <2>2. QED
    BY <1>5, <1>6, <2>1
<1>8. m - 1 \in 0..(l - 1) /\ (m - 1) + 1 = m
  BY <1>1, <1>6
<1>9. QED
  BY <1>2, <1>6, <1>7, <1>8 DEF l

-----------------------------------------------------------------------------
(* One round of the loop, (h << 5) - h + char, and what it is congruent to. *)
HashNext(h, char) == Wrap(Left(h, 5) - h + char)

LEMMA HashNextFacts ==
  ASSUME NEW h \in HashWords, NEW char \in HashWords
  PROVE  HashNext(h, char) \in HashWords /\ Congruent(HashNext(h, char), 31 * h + char)
<1> DEFINE M == Shl1[HashBits]
           l == Left(h, 5)
           x == l - h + char
<1>1. h \in Nat /\ char \in Nat /\ l \in Nat /\ M \in Nat
  BY LeftFacts, HashWordFacts
<1>2. Shl1[5] = 32
  <2>1. Shl1[0 + 1] = 2 /\ Shl1[1 + 1] = 2 * Shl1[1] /\ Shl1[2 + 1] = 2 * Shl1[2]
        /\ Shl1[3 + 1] = 2 * Shl1[3] /\ Shl1[4 + 1] = 2 * Shl1[4]
    BY Shl1Facts
  <2>2. QED
    BY <2>1
<1>3. PICK d \in Nat : h * 32 = l + M * d
  BY <1>2, LeftFacts
<1>4. x \in Int /\ HashNext(h, char) = Wrap(x)
  BY <1>1 DEF HashNext
<1>5. Congruent(x, 31 * h + char)
  <2> HIDE DEF M, l
  <2>1. x = (31 * h + char) + M * (0 - d) /\ 0 - d \in Int
    BY <1>1, <1>3
  <2>2. QED
    BY <2>1 DEF Congruent, M
<1>6. Wrap(x) \in HashWords /\ Wrap(x) \in Int /\ Congruent(Wrap(x), x)
  <2>1. Wrap(x) \in HashWords /\ Congruent(Wrap(x), x)
    BY <1>4, WrapFacts
  <2>2. QED
    BY <2>1, HashWordBelow
<1> HIDE DEF x
<1>7. 31 * h + char \in Int
  BY <1>1
<1>8. Congruent(Wrap(x), 31 * h + char)
  BY <1>4, <1>5, <1>6, <1>7, CongruentLaws
<1>9. QED
  BY <1>4, <1>6, <1>8

(* The loop, as a list of the hashes after each character. *)
LEMMA HashEquation ==
  ASSUME NEW text \in Seq(HashWords), Len(text) \in Nat \ {0}, text[Len(text)] = 0,
         NEW n, n = TextLength(text)
  PROVE  \E hash \in [0..n -> HashWords] :
           /\ hash[0] = 0
           /\ \A i \in 1..n : hash[i] = HashNext(hash[i - 1], text[i])
           /\ X31HashString(text) = hash[n]
<1> DEFINE step == [k \in Nat |-> [h \in HashWords |->
                      IF k < n THEN HashNext(h, text[k + 1]) ELSE h]]
           IsHash(f) == f = [i \in 0..n |-> IF i = 0 THEN 0
                                            ELSE HashNext(f[i - 1], text[i])]
           hash == CHOOSE f : IsHash(f)
<1>1. n \in Nat /\ n <= Len(text) - 1
  BY TextLengthFacts
<1>2. X31HashString(text) = hash[n]
  BY DEF X31HashString, HashNext
<1>3. \A i \in 1..n : text[i] \in HashWords
  <2>1. \A i \in 1..n : i \in 1..Len(text)
    BY <1>1
  <2>2. QED
    BY <2>1
<1>4. 0 \in HashWords
  <2>1. Shl1[HashBits] \in Nat \ {0}
    BY HashWordFacts
  <2>2. QED
    BY <2>1 DEF HashWords
<1>5. \A k \in Nat, h \in HashWords :
        (IF k < n THEN HashNext(h, text[k + 1]) ELSE h) \in HashWords
  <2> SUFFICES ASSUME NEW k \in Nat, NEW h \in HashWords, k < n
               PROVE  HashNext(h, text[k + 1]) \in HashWords
    OBVIOUS
  <2>1. k + 1 \in 1..n
    BY <1>1
  <2>2. QED
    BY <1>3, <2>1, HashNextFacts
<1>6. step \in [Nat -> [HashWords -> HashWords]]
  BY <1>5
<1>7. \A i \in 1..n, h \in HashWords : step[i - 1][h] = HashNext(h, text[i])
  <2> SUFFICES ASSUME NEW i \in 1..n, NEW h \in HashWords
               PROVE  step[i - 1][h] = HashNext(h, text[i])
    OBVIOUS
  <2>1. i - 1 \in Nat /\ i - 1 < n /\ (i - 1) + 1 = i
    BY <1>1
  <2>2. QED
    BY <2>1
<1> HIDE DEF step
<1>8. PICK f : f \in Runs(HashWords, 0, step, n)
  BY <1>1, <1>4, <1>6, RunExists
<1>9. IsHash(f)
  <2>1. \A i \in 0..n : f[i] = IF i = 0 THEN 0 ELSE HashNext(f[i - 1], text[i])
    <3> SUFFICES ASSUME NEW i \in 0..n, i # 0
                 PROVE  f[i] = HashNext(f[i - 1], text[i])
      BY <1>8 DEF Runs
    <3>1. i \in 1..n /\ i - 1 \in 0..(n - 1) /\ i - 1 \in 0..n /\ (i - 1) + 1 = i
      BY <1>1
    <3>2. f[(i - 1) + 1] = step[i - 1][f[i - 1]] /\ f[i - 1] \in HashWords
      BY <1>8, <3>1 DEF Runs
    <3>3. QED
      BY <1>7, <3>1, <3>2
  <2>2. f = [i \in 0..n |-> f[i]]
    BY <1>8 DEF Runs
  <2>3. QED
    BY <2>1, <2>2
<1>10. IsHash(hash)
  BY <1>9
<1> HIDE DEF hash
<1>11. hash[0] = 0 /\ \A i \in 1..n : hash[i] = HashNext(hash[i - 1], text[i])
  BY <1>1, <1>10
<1>12. hash \in [0..n -> HashWords]
  <2> DEFINE Good == {i \in Nat : i <= n => hash[i] \in HashWords}
  <2>1. 0 \in Good
    BY <1>4, <1>11
  <2>2. ASSUME NEW i \in Nat, i \in Good
        PROVE  i + 1 \in Good
    <3> SUFFICES ASSUME i + 1 <= n PROVE hash[i + 1] \in HashWords
      OBVIOUS
    <3>1. i + 1 \in 1..n /\ (i + 1) - 1 = i /\ hash[i] \in HashWords
      BY <1>1, <2>2
    <3>2. hash[i + 1] = HashNext(hash[i], text[i + 1])
      BY <1>11, <3>1
    <3>3. QED
      BY <1>3, <3>1, <3>2, HashNextFacts
  <2> HIDE DEF Good
  <2>3. \A i \in Nat : i \in Good
    BY <2>1, <2>2, SetInduction
  <2>4. \A i \in 0..n : hash[i] \in HashWords
    BY <1>1, <2>3 DEF Good
  <2>5. QED
    BY <1>10, <2>4
<1>13. QED
  BY <1>2, <1>11, <1>12

(* The powers of 31, and the sum of the characters times them. *)
LEMMA Power31Facts ==
  /\ Power31[0] = 1
  /\ \A k \in Nat : Power31[k] \in Int /\ Congruent(Power31[k + 1], 31 * Power31[k])
<1> DEFINE step == [k \in Nat |-> [n \in Nat |-> Wrap(31 * n)]]
           IsPower(f) == f = [k \in Nat |-> IF k = 0 THEN 1 ELSE Wrap(31 * f[k - 1])]
           power == CHOOSE f : IsPower(f)
<1>1. \A n \in Nat : 31 * n \in Nat /\ Wrap(31 * n) \in Nat
  <2> SUFFICES ASSUME NEW n \in Nat PROVE 31 * n \in Nat /\ Wrap(31 * n) \in Nat
    OBVIOUS
  <2>1. 31 * n \in Nat
    OBVIOUS
  <2>2. QED
    BY <2>1, HashWordFacts
<1>2. step \in [Nat -> [Nat -> Nat]] /\ 1 \in Nat
  BY <1>1
<1>3. \A k, n \in Nat : step[k][n] = Wrap(31 * n)
  OBVIOUS
<1> HIDE DEF step
<1>4. PICK f : IsRecursion(f, Nat, 1, step)
  BY <1>2, RecursionExists
<1>5. IsPower(f)
  <2>1. \A k \in Nat : f[k] = IF k = 0 THEN 1 ELSE Wrap(31 * f[k - 1])
    <3> SUFFICES ASSUME NEW k \in Nat, k # 0
                 PROVE  f[k] = Wrap(31 * f[k - 1])
      BY <1>4 DEF IsRecursion
    <3>1. k - 1 \in Nat /\ (k - 1) + 1 = k
      OBVIOUS
    <3>2. f[(k - 1) + 1] = step[k - 1][f[k - 1]] /\ f[k - 1] \in Nat
      BY <1>4, <3>1 DEF IsRecursion
    <3>3. QED
      BY <1>3, <3>1, <3>2
  <2>2. f = [k \in Nat |-> f[k]]
    BY <1>4 DEF IsRecursion
  <2>3. QED
    BY <2>1, <2>2
<1>6. IsPower(power) /\ Power31 = power
  BY <1>5 DEF Power31
<1> HIDE DEF power
<1>7. Power31[0] = 1 /\ \A k \in Nat : Power31[k + 1] = Wrap(31 * Power31[k])
  BY <1>6
<1>8. \A k \in Nat : Power31[k] \in Nat
  <2> DEFINE Good == {k \in Nat : Power31[k] \in Nat}
  <2>1. 0 \in Good /\ \A k \in Nat : k \in Good => k + 1 \in Good
    BY <1>1, <1>7
  <2> HIDE DEF Good
  <2>2. \A k \in Nat : k \in Good
    BY <2>1, SetInduction
  <2>3. QED
    BY <2>2 DEF Good
<1>9. ASSUME NEW k \in Nat
      PROVE  Power31[k] \in Int /\ Congruent(Power31[k + 1], 31 * Power31[k])
  <2>1. Power31[k] \in Int /\ 31 * Power31[k] \in Int
    BY <1>8
  <2>2. QED
    BY <1>7, <2>1, WrapFacts
<1>10. QED
  BY <1>7, <1>9

LEMMA PolynomialEquation ==
  ASSUME NEW n \in Nat, \A i \in 1..n : Signed[i] \in Int
  PROVE  \E sum \in [0..n -> Int] :
           /\ sum[0] = 0
           /\ \A i \in 1..n : sum[i] = sum[i - 1] + Signed[i] * Power31[n - i]
           /\ Polynomial(n) = sum[n]
<1> DEFINE term(i) == Signed[i] * Power31[n - i]
           step == [k \in Nat |-> [x \in Int |-> IF k < n THEN x + term(k + 1) ELSE x]]
           IsSum(f) == f = [i \in 0..n |-> IF i = 0 THEN 0 ELSE f[i - 1] + term(i)]
           sum == CHOOSE f : IsSum(f)
<1>1. Polynomial(n) = sum[n]
  BY DEF Polynomial
<1>2. ASSUME NEW i \in 1..n
      PROVE  term(i) \in Int
  <2>1. n - i \in Nat
    OBVIOUS
  <2>2. Power31[n - i] \in Int /\ Signed[i] \in Int
    BY <2>1, Power31Facts
  <2>3. QED
    BY <2>2
<1>3. \A i \in 1..n : term(i) = Signed[i] * Power31[n - i]
  OBVIOUS
<1> HIDE DEF term
<1>4. \A k \in Nat, x \in Int : (IF k < n THEN x + term(k + 1) ELSE x) \in Int
  <2> SUFFICES ASSUME NEW k \in Nat, NEW x \in Int, k < n PROVE x + term(k + 1) \in Int
    OBVIOUS
  <2>1. k + 1 \in 1..n
    OBVIOUS
  <2>2. QED
    BY <1>2, <2>1
<1>5. step \in [Nat -> [Int -> Int]]
  BY <1>4
<1>6. \A i \in 1..n, x \in Int : step[i - 1][x] = x + term(i)
  <2> SUFFICES ASSUME NEW i \in 1..n, NEW x \in Int PROVE step[i - 1][x] = x + term(i)
    OBVIOUS
  <2>1. i - 1 \in Nat /\ i - 1 < n /\ (i - 1) + 1 = i
    OBVIOUS
  <2>2. QED
    BY <2>1
<1> HIDE DEF step
<1>7. PICK f : f \in Runs(Int, 0, step, n)
  <2>1. 0 \in Int
    OBVIOUS
  <2>2. Runs(Int, 0, step, n) # {}
    BY <1>5, <2>1, RunExists, Zenon
  <2>3. QED
    BY <2>2
<1>8. IsSum(f)
  <2>1. \A i \in 0..n : f[i] = IF i = 0 THEN 0 ELSE f[i - 1] + term(i)
    <3> SUFFICES ASSUME NEW i \in 0..n, i # 0
                 PROVE  f[i] = f[i - 1] + term(i)
      BY <1>7 DEF Runs
    <3>1. i \in 1..n /\ i - 1 \in 0..(n - 1) /\ i - 1 \in 0..n /\ (i - 1) + 1 = i
      OBVIOUS
    <3>2. f[(i - 1) + 1] = step[i - 1][f[i - 1]] /\ f[i - 1] \in Int
      BY <1>7, <3>1 DEF Runs
    <3>3. QED
      BY <1>6, <3>1, <3>2
  <2>2. f = [i \in 0..n |-> f[i]]
    BY <1>7 DEF Runs
  <2>3. QED
    BY <2>1, <2>2
<1>9. IsSum(sum)
  BY <1>8
<1> HIDE DEF sum
<1>10. sum[0] = 0 /\ \A i \in 1..n : sum[i] = sum[i - 1] + term(i)
  BY <1>9
<1>11. sum \in [0..n -> Int]
  <2> DEFINE Good == {i \in Nat : i <= n => sum[i] \in Int}
  <2>1. 0 \in Good
    BY <1>10
  <2>2. ASSUME NEW i \in Nat, i \in Good
        PROVE  i + 1 \in Good
    <3> SUFFICES ASSUME i + 1 <= n PROVE sum[i + 1] \in Int
      OBVIOUS
    <3>1. i + 1 \in 1..n /\ (i + 1) - 1 = i /\ sum[i] \in Int
      BY <2>2
    <3>2. sum[i + 1] = sum[i] + term(i + 1)
      BY <1>10, <3>1
    <3>3. QED
      BY <1>2, <3>1, <3>2
  <2> HIDE DEF Good
  <2>3. \A i \in Nat : i \in Good
    BY <2>1, <2>2, SetInduction
  <2>4. \A i \in 0..n : sum[i] \in Int
    BY <2>3 DEF Good
  <2>5. QED
    BY <1>9, <2>4
<1>12. QED
  BY <1>1, <1>3, <1>10, <1>11

(* After k characters the hash, moved to its place, is the sum so far. *)
LEMMA HashIsSum ==
  ASSUME NEW n \in Nat, NEW hash \in [0..n -> HashWords], NEW sum \in [0..n -> Int],
         \A i \in 1..n : Signed[i] \in Int,
         hash[0] = 0, \A i \in 1..n : hash[i] = HashNext(hash[i - 1], Wrap(Signed[i])),
         sum[0] = 0, \A i \in 1..n : sum[i] = sum[i - 1] + Signed[i] * Power31[n - i]
  PROVE  hash[n] = Wrap(sum[n])
<1> DEFINE p == Power31
           Good == {k \in Nat : k <= n => Congruent(hash[k] * p[n - k], sum[k])}
<1>1. \A k \in 0..n : hash[k] \in HashWords /\ hash[k] \in Int /\ sum[k] \in Int
                      /\ p[n - k] \in Int
  <2> SUFFICES ASSUME NEW k \in 0..n
               PROVE  hash[k] \in HashWords /\ hash[k] \in Int /\ sum[k] \in Int
                      /\ p[n - k] \in Int
    OBVIOUS
  <2>1. hash[k] \in HashWords /\ sum[k] \in Int /\ n - k \in Nat
    OBVIOUS
  <2>2. QED
    BY <2>1, Power31Facts, HashWordBelow
<1>2. 0 \in Good
  <2>1. hash[0] * p[n - 0] = 0 /\ sum[0] = 0
    BY <1>1
  <2>2. Congruent(0, 0)
    BY CongruentLaws
  <2>3. QED
    BY <2>1, <2>2
<1>3. ASSUME NEW k \in Nat, k \in Good
      PROVE  k + 1 \in Good
  <2> SUFFICES ASSUME k + 1 <= n
               PROVE  Congruent(hash[k + 1] * p[n - (k + 1)], sum[k + 1])
    OBVIOUS
  <2> DEFINE j == n - (k + 1)
             h == hash[k]
             g == hash[k + 1]
             c == Signed[k + 1]
             u == p[j]
             v == p[n - k]
             s == sum[k]
  <2>1. j \in Nat /\ j + 1 = n - k /\ k \in 0..n /\ k + 1 \in 0..n /\ k + 1 \in 1..n
        /\ (k + 1) - 1 = k
    OBVIOUS
  <2>2. h \in HashWords /\ h \in Int /\ g \in Int /\ s \in Int /\ u \in Int /\ v \in Int
    BY <1>1, <2>1
  <2>3. c \in Int /\ Wrap(c) \in HashWords /\ Congruent(Wrap(c), c)
    BY <2>1, WrapFacts
  <2>4. Congruent(g, 31 * h + Wrap(c))
    <3>1. g = HashNext(h, Wrap(c))
      BY <2>1, <2>3
    <3>2. QED
      BY <2>2, <2>3, <3>1, HashNextFacts
  <2>5. Congruent(v, 31 * u)
    BY <2>1, Power31Facts
  <2>6. Congruent(h * v, s)
    BY <1>3, <2>1
  <2>7. sum[k + 1] = s + c * u
    BY <2>1
  <2> HIDE DEF j, h, g, c, u, v, s, Good
  <2>8. Wrap(c) \in Int /\ 31 * h \in Int /\ 31 * u \in Int
    <3>1. Wrap(c) \in Nat
      BY <2>3, HashWordBelow
    <3>2. QED
      BY <2>2, <3>1
  <2>9. Congruent(31 * h + Wrap(c), 31 * h + c)
    <3>1. Congruent(31 * h, 31 * h)
      BY <2>8, CongruentLaws
    <3>2. QED
      BY <2>3, <2>8, <3>1, CongruentSum
  <2>10. Congruent(g, 31 * h + c)
    <3>1. 31 * h + Wrap(c) \in Int /\ 31 * h + c \in Int
      BY <2>3, <2>8
    <3>2. QED
      BY <2>2, <2>4, <2>9, <3>1, CongruentLaws
  <2>11. Congruent(g * u, (31 * h + c) * u)
    <3>1. 31 * h + c \in Int
      BY <2>3, <2>8
    <3>2. QED
      BY <2>2, <2>10, <3>1, CongruentProduct
  <2>12. (31 * h + c) * u = (31 * u) * h + c * u
    BY <2>2, <2>3
  <2>13. Congruent((31 * u) * h, s)
    <3>1. Congruent(v * h, (31 * u) * h)
      BY <2>2, <2>5, <2>8, CongruentProduct
    <3>2. v * h = h * v /\ v * h \in Int /\ (31 * u) * h \in Int
      BY <2>2, <2>8
    <3>3. Congruent((31 * u) * h, v * h)
      BY <3>1, <3>2, CongruentLaws
    <3>4. Congruent(v * h, s)
      BY <2>6, <3>2
    <3>5. QED
      BY <2>2, <3>2, <3>3, <3>4, CongruentLaws
  <2>14. c * u \in Int /\ (31 * u) * h \in Int /\ g * u \in Int
    BY <2>2, <2>3, <2>8
  <2>15. Congruent((31 * u) * h + c * u, s + c * u)
    <3>1. Congruent(c * u, c * u)
      BY <2>14, CongruentLaws
    <3>2. QED
      BY <2>2, <2>13, <2>14, <3>1, CongruentSum
  <2>16. Congruent(g * u, s + c * u)
    <3>1. (31 * u) * h + c * u \in Int /\ s + c * u \in Int
      BY <2>2, <2>14
    <3>2. Congruent(g * u, (31 * u) * h + c * u)
      BY <2>11, <2>12
    <3>3. QED
      BY <2>14, <2>15, <3>1, <3>2, CongruentLaws
  <2>17. QED
    BY <2>7, <2>16 DEF g, u, j
<1> HIDE DEF Good
<1>4. n \in Good
  BY <1>2, <1>3, SetInduction
<1>5. Congruent(hash[n] * p[n - n], sum[n])
  BY <1>4 DEF Good
<1>6. p[n - n] = 1
  BY Power31Facts
<1>7. hash[n] * p[n - n] = hash[n]
  BY <1>1, <1>6
<1>8. QED
  BY <1>1, <1>5, <1>7, WrapFacts

(* __ac_X31_hash_string is the polynomial in 31, for words of any width. *)
THEOREM SpecHashIsPolynomial == Spec => []HashIsPolynomial
<1>1. word \in HashWords => HashIsPolynomial
  <2> SUFFICES ASSUME word \in HashWords PROVE HashIsPolynomial
    OBVIOUS
  <2> DEFINE text == Text
             l == Len(text)
             Ends(k) == text[k + 1] = 0 /\ \A i \in 1..k : text[i] # 0
             n == CHOOSE k \in 0..(l - 1) : Ends(k)
  <2>1. /\ text \in Seq(HashWords) /\ l \in Nat \ {0} /\ text[l] = 0
        /\ \A i \in 1..(l - 1) : Signed[i] \in Int /\ text[i] = Wrap(Signed[i])
    BY TextFacts
  <2>2. HashIsPolynomial <=> X31HashString(text) = Wrap(Polynomial(n))
    BY DEF HashIsPolynomial
  <2> HIDE DEF text
  <2>3. TextLength(text) \in 0..(l - 1) /\ Ends(TextLength(text))
    BY <2>1, TextLengthFacts
  <2>4. n \in 0..(l - 1) /\ Ends(n)
    BY <2>3
  <2> HIDE DEF n
  <2>5. n = TextLength(text)
    <3> DEFINE m == TextLength(text)
    <3>1. m \in 0..(l - 1) /\ Ends(m)
      BY <2>3
    <3> HIDE DEF m
    <3>2. m \in Nat /\ n \in Nat
      BY <2>1, <2>4, <3>1
    <3>3. ~(m < n)
      <4>1. m < n => m + 1 \in 1..n
        BY <3>2
      <4>2. QED
        BY <2>4, <3>1, <4>1
    <3>4. ~(n < m)
      <4>1. n < m => n + 1 \in 1..m
        BY <3>2
      <4>2. QED
        BY <2>4, <3>1, <4>1
    <3>5. QED
      BY <3>2, <3>3, <3>4 DEF m
  <2>6. n \in Nat /\ \A i \in 1..n : Signed[i] \in Int /\ text[i] = Wrap(Signed[i])
    BY <2>1, <2>4
  <2>7. PICK hash \in [0..n -> HashWords] :
          /\ hash[0] = 0
          /\ \A i \in 1..n : hash[i] = HashNext(hash[i - 1], text[i])
          /\ X31HashString(text) = hash[n]
    BY <2>1, <2>5, HashEquation
  <2>8. PICK sum \in [0..n -> Int] :
          /\ sum[0] = 0
          /\ \A i \in 1..n : sum[i] = sum[i - 1] + Signed[i] * Power31[n - i]
          /\ Polynomial(n) = sum[n]
    BY <2>6, PolynomialEquation
  <2>9. hash[n] = Wrap(sum[n])
    <3>1. \A i \in 1..n : hash[i] = HashNext(hash[i - 1], Wrap(Signed[i]))
      BY <2>6, <2>7
    <3>2. QED
      BY <2>6, <2>7, <2>8, <3>1, HashIsSum
  <2>10. QED
    BY <2>2, <2>7, <2>8, <2>9
<1>2. QED
  BY <1>1, WordIsHashWord, PTL
=============================================================================
