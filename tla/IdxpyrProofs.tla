---------------------------- MODULE IdxpyrProofs ----------------------------
(***************************************************************************)
(* Proofs about Idxpyr, for every width of block and size_t, every size    *)
(* and every sequence of calls: the rows fit their allocation, each row    *)
(* summarises the one below it, and idxpyr_getFirst finds the least index. *)
(***************************************************************************)
EXTENDS Idxpyr, NatProofs

-----------------------------------------------------------------------------
(* An index without its lowest i * BlockLog2 bits: what idxpyr_set has     *)
(* left of it when it comes to row i.                                      *)
Shifted(i, index) == index \div Shl1[i * BlockLog2]

LEMMA WidthFacts ==
  /\ BlockLog2 \in Nat \ {0} /\ SizeBits \in Nat
  /\ BlockBits \in Nat /\ BlockBits >= 2
  /\ MaxLog2 \in Nat /\ BlockLog2 <= MaxLog2 /\ MaxLog2 <= SizeBits - 1
<1>1. BlockLog2 \in Nat \ {0} /\ SizeBits \in Nat
  BY BlockAssumption, WidthAssumption
<1>2. Shl1[BlockLog2] \in Nat /\ 2 * Shl1[0] <= Shl1[BlockLog2] /\ Shl1[0] = 1
  BY <1>1, Shl1Facts, Shl1Grows
<1>3. QED
  BY <1>1, <1>2, IdxpyrAssumption DEF BlockBits, IDXPYR_MAX_INDEX_COUNT_LOG2

(* The widths of what the rows stand for, each BlockBits times the last. *)
LEMMA SpanFacts ==
  ASSUME NEW i \in Nat
  PROVE  /\ i * BlockLog2 \in Nat /\ (i + 1) * BlockLog2 \in Nat
         /\ (i + 1) * BlockLog2 = i * BlockLog2 + BlockLog2
         /\ Shl1[i * BlockLog2] \in Nat \ {0}
         /\ Shl1[(i + 1) * BlockLog2] = Shl1[i * BlockLog2] * BlockBits
<1>1. BlockLog2 \in Nat
  BY WidthFacts
<1>2. /\ i * BlockLog2 \in Nat /\ (i + 1) * BlockLog2 \in Nat
      /\ (i + 1) * BlockLog2 = i * BlockLog2 + BlockLog2
  BY <1>1
<1> DEFINE m == i * BlockLog2
<1>3. m \in Nat
  BY <1>2
<1> HIDE DEF m
<1>4. Shl1[m] \in Nat \ {0} /\ Shl1[m + BlockLog2] = Shl1[m] * Shl1[BlockLog2]
  BY <1>1, <1>3, Shl1Facts, Shl1Sum
<1>5. QED
  BY <1>2, <1>4 DEF BlockBits, m

(* An index on its way up: its block on a row and its bit there are what   *)
(* it is on that row, divided by the width of a block.                     *)
LEMMA ShiftedFacts ==
  ASSUME NEW i \in Nat, NEW x \in Nat
  PROVE  /\ Shifted(0, x) = x
         /\ Shifted(i, x) \in Nat
         /\ BlockIndex(i, x) = Shifted(i + 1, x)
         /\ BlockIndex(i, x) \in Nat
         /\ Bit(i, x) \in AllBits
         /\ Shifted(i, x) = BlockIndex(i, x) * BlockBits + Bit(i, x)
<1> DEFINE d == Shl1[i * BlockLog2]
           y == x \div d
<1>1. BlockBits \in Nat \ {0} /\ d \in Nat \ {0}
  BY WidthFacts, SpanFacts
<1>2. Shifted(0, x) = x
  BY WidthFacts, Shl1Facts DEF Shifted
<1>3. Shifted(i, x) = y /\ Bit(i, x) = y % BlockBits
  BY DEF Shifted, Bit
<1>4. BlockIndex(i, x) = x \div (d * BlockBits)
  BY SpanFacts DEF BlockIndex
<1> HIDE DEF d
<1>5. BlockIndex(i, x) = y \div BlockBits
  BY <1>1, <1>4, DivideTwice
<1>6. y \in Nat
  BY <1>1, QuotientFacts
<1> HIDE DEF y
<1>7. /\ y \div BlockBits \in Nat /\ y % BlockBits \in 0..(BlockBits - 1)
      /\ y = (y \div BlockBits) * BlockBits + (y % BlockBits)
  BY <1>1, <1>6, QuotientFacts
<1>8. BlockIndex(i, x) = Shifted(i + 1, x)
  BY DEF BlockIndex, Shifted
<1>9. QED
  BY <1>2, <1>3, <1>5, <1>6, <1>7, <1>8 DEF AllBits

(* Two indices on their way up keep their order. *)
LEMMA ShiftedGrows ==
  ASSUME NEW i \in Nat, NEW x \in Nat, NEW y \in Nat, x <= y
  PROVE  Shifted(i, x) <= Shifted(i, y)
BY SpanFacts, DivideGrows DEF Shifted

(* A block and a bit in it make one number only. *)
LEMMA PlaceUnique ==
  ASSUME NEW j \in Nat, NEW k \in Nat, NEW b \in AllBits, NEW c \in AllBits,
         j * BlockBits + b = k * BlockBits + c
  PROVE  j = k /\ b = c
<1>1. BlockBits \in Nat \ {0} /\ b \in 0..(BlockBits - 1) /\ c \in 0..(BlockBits - 1)
  BY WidthFacts DEF AllBits
<1>2. (j * BlockBits + b) \div BlockBits = j /\ (j * BlockBits + b) % BlockBits = b
  BY <1>1, QuotientUnique
<1>3. (k * BlockBits + c) \div BlockBits = k /\ (k * BlockBits + c) % BlockBits = c
  BY <1>1, QuotientUnique
<1>4. QED
  BY <1>2, <1>3

-----------------------------------------------------------------------------
(* The last block of a row for 2^n indices, and how many blocks there are. *)
LastBlock(n, i) == BlockIndex(i, Shl1[n] - 1)

LEMMA RowFacts ==
  ASSUME NEW n \in Nat, NEW i \in Nat
  PROVE  /\ (i + 1) * BlockLog2 <= n =>
              /\ RowLength(n, i) = Shl1[n - (i + 1) * BlockLog2]
              /\ RowLength(n, i) \in Nat \ {0}
              /\ LastBlock(n, i) = RowLength(n, i) - 1
         /\ n <= (i + 1) * BlockLog2 => LastBlock(n, i) = 0
<1> DEFINE m == (i + 1) * BlockLog2
           d == Shl1[m]
<1>1. m \in Nat /\ d \in Nat \ {0} /\ Shl1[n] \in Nat \ {0}
  BY SpanFacts, Shl1Facts
<1>2. LastBlock(n, i) = (Shl1[n] - 1) \div d /\ RowLength(n, i) = Shl1[n] \div d
  BY DEF LastBlock, BlockIndex, RowLength
<1> HIDE DEF m
<1>3. CASE m <= n
  <2> DEFINE q == Shl1[n - m]
  <2>1. n - m \in Nat /\ (n - m) + m = n
    BY <1>1, <1>3
  <2>2. q \in Nat \ {0} /\ Shl1[n] = q * d
    <3>1. Shl1[(n - m) + m] = Shl1[n - m] * Shl1[m]
      BY <1>1, <2>1, Shl1Sum
    <3>2. QED
      BY <2>1, <3>1, Shl1Facts
  <2> HIDE DEF d, q
  <2>3. Shl1[n] \div d = q
    <3>1. 0 \in 0..(d - 1) /\ Shl1[n] = q * d + 0
      BY <1>1, <2>2
    <3>2. QED
      BY <1>1, <2>2, <3>1, QuotientUnique
  <2>4. (Shl1[n] - 1) \div d = q - 1
    <3>1. /\ q - 1 \in Nat /\ d - 1 \in 0..(d - 1)
          /\ Shl1[n] - 1 = (q - 1) * d + (d - 1)
      BY <1>1, <2>2
    <3>2. QED
      BY <1>1, <3>1, QuotientUnique
  <2>5. n <= m => q = 1
    <3>1. n <= m => n - m = 0
      BY <1>1, <1>3
    <3>2. QED
      BY <3>1, Shl1Facts DEF q
  <2>6. QED
    BY <1>2, <1>3, <2>2, <2>3, <2>4, <2>5 DEF q, m
<1>4. CASE n < m
  <2>1. Shl1[n] <= d
    BY <1>1, <1>4, Shl1Grows
  <2> HIDE DEF d
  <2>2. Shl1[n] - 1 \in 0..(d - 1) /\ Shl1[n] - 1 = 0 * d + (Shl1[n] - 1)
    BY <1>1, <2>1
  <2>3. (Shl1[n] - 1) \div d = 0
    BY <1>1, <2>2, QuotientUnique
  <2>4. QED
    BY <1>1, <1>2, <1>4, <2>3 DEF m
<1>5. QED
  BY <1>1, <1>3, <1>4

(* The blocks that indices belong to are those up to the last one. *)
LEMMA RowDomain ==
  ASSUME NEW n \in Nat, NEW i \in Nat
  PROVE  /\ LastBlock(n, i) \in Nat
         /\ {BlockIndex(i, index) : index \in 0..(Shl1[n] - 1)} = 0..LastBlock(n, i)
<1> DEFINE d == Shl1[(i + 1) * BlockLog2]
           last == Shl1[n] - 1
           top == last \div d
<1>1. d \in Nat \ {0} /\ last \in Nat
  BY SpanFacts, Shl1Facts
<1>2. \A x : BlockIndex(i, x) = x \div d
  BY DEF BlockIndex
<1> HIDE DEF d, last
<1>3. top \in Nat /\ top * d <= last
  BY <1>1, QuotientFacts
<1>4. ASSUME NEW x \in 0..last
      PROVE  x \div d \in 0..top
  BY <1>1, DivideGrows, QuotientFacts
<1>5. ASSUME NEW j \in 0..top
      PROVE  \E x \in 0..last : x \div d = j
  <2>1. j * d \in Nat /\ j * d <= top * d
    BY <1>1, <1>3, ProductGrows
  <2>2. j * d + 0 = j * d /\ 0 \in 0..(d - 1) /\ j \in Nat
    BY <1>1, <2>1
  <2>3. (j * d) \div d = j
    BY <1>1, <2>2, QuotientUnique
  <2>4. QED
    BY <1>1, <1>3, <2>1, <2>3
<1>6. LastBlock(n, i) = top
  BY <1>2 DEF LastBlock, last
<1> HIDE DEF top
<1>7. {x \div d : x \in 0..last} = 0..top
  BY <1>4, <1>5
<1>8. {BlockIndex(i, index) : index \in 0..last} = 0..top
  BY <1>2, <1>7
<1>9. QED
  BY <1>3, <1>6, <1>8 DEF last
-----------------------------------------------------------------------------
(* As many rows as it takes for one block to stand for all of 2^n indices, *)
(* and the bits of that block that stand for something.                    *)
LEMMA HeightFacts ==
  ASSUME NEW n \in Nat, BlockLog2 <= n
  PROVE  /\ GetHeight(n) \in Nat \ {0}
         /\ (GetHeight(n) - 1) * BlockLog2 < n
         /\ n <= GetHeight(n) * BlockLog2
         /\ TopBitCount(n) = IF n = GetHeight(n) * BlockLog2 THEN 1
                             ELSE Shl1[n - (GetHeight(n) - 1) * BlockLog2]
<1> DEFINE m == n - BlockLog2
           q == m \div BlockLog2
           r == m % BlockLog2
           h == GetHeight(n)
<1>1. BlockLog2 \in Nat \ {0} /\ m \in Nat /\ n = m + BlockLog2
  BY WidthFacts
<1>2. h = 1 + (q + (IF r = 0 THEN 0 ELSE 1))
  BY DEF GetHeight, CeilDiv
<1>3. TopBitCount(n) = Shl1[r]
  BY DEF TopBitCount
<1> HIDE DEF m, h
<1>4. q \in Nat /\ r \in 0..(BlockLog2 - 1) /\ m = q * BlockLog2 + r
  BY <1>1, QuotientFacts
<1> HIDE DEF q, r
<1>5. q * BlockLog2 \in Nat /\ (q + 1) * BlockLog2 = q * BlockLog2 + BlockLog2
  BY <1>1, <1>4
<1>6. CASE r = 0
  <2>1. h = q + 1 /\ h - 1 = q
    BY <1>2, <1>4, <1>6
  <2>2. n = h * BlockLog2 /\ (h - 1) * BlockLog2 < n
    BY <1>1, <1>4, <1>5, <1>6, <2>1
  <2>3. QED
    BY <1>1, <1>3, <1>4, <1>6, <2>1, <2>2, Shl1Facts DEF h
<1>7. CASE r # 0
  <2>1. h = q + 2 /\ h - 1 = q + 1
    BY <1>2, <1>4, <1>7
  <2>2. h * BlockLog2 = (q + 1) * BlockLog2 + BlockLog2
    BY <1>1, <1>4, <2>1
  <2>3. n - (h - 1) * BlockLog2 = r
    BY <1>1, <1>4, <1>5, <2>1
  <2>4. (h - 1) * BlockLog2 < n /\ n < h * BlockLog2
    BY <1>1, <1>4, <1>5, <1>7, <2>1, <2>2
  <2>5. QED
    BY <1>1, <1>3, <1>4, <2>1, <2>3, <2>4 DEF h
<1>8. QED
  BY <1>6, <1>7

LEMMA HeightUnique ==
  ASSUME NEW n \in Nat, BlockLog2 <= n, NEW k \in Nat \ {0},
         (k - 1) * BlockLog2 < n, n <= k * BlockLog2
  PROVE  GetHeight(n) = k
<1> DEFINE h == GetHeight(n)
<1>1. h \in Nat \ {0} /\ (h - 1) * BlockLog2 < n /\ n <= h * BlockLog2
  BY HeightFacts
<1>2. BlockLog2 \in Nat
  BY WidthFacts
<1> HIDE DEF h
<1>3. ASSUME NEW a \in Nat \ {0}, NEW c \in Nat \ {0}, a < c,
             (c - 1) * BlockLog2 < n, n <= a * BlockLog2
      PROVE  FALSE
  <2>1. a * BlockLog2 <= (c - 1) * BlockLog2
    <3>1. a \in Nat /\ c - 1 \in Nat /\ a <= c - 1
      BY <1>3
    <3>2. QED
      BY <1>2, <3>1, ProductGrows
  <2>2. a * BlockLog2 \in Nat /\ (c - 1) * BlockLog2 \in Nat
    BY <1>2
  <2>3. QED
    BY <1>3, <2>1, <2>2
<1>4. ~(h < k) /\ ~(k < h)
  BY <1>1, <1>3
<1>5. QED
  BY <1>1, <1>4 DEF h

(* Twice the indices take the same rows, or one more. *)
LEMMA HeightOfBigger ==
  ASSUME NEW n \in Nat, BlockLog2 <= n
  PROVE  GetHeight(n + 1) =
           IF n = GetHeight(n) * BlockLog2 THEN GetHeight(n) + 1 ELSE GetHeight(n)
<1> DEFINE h == GetHeight(n)
<1>1. h \in Nat \ {0} /\ (h - 1) * BlockLog2 < n /\ n <= h * BlockLog2
  BY HeightFacts
<1> HIDE DEF h
<1>2. /\ BlockLog2 \in Nat \ {0} /\ h * BlockLog2 \in Nat /\ (h - 1) * BlockLog2 \in Nat
      /\ (h + 1) * BlockLog2 = h * BlockLog2 + BlockLog2
  BY <1>1, WidthFacts
<1>3. CASE n = h * BlockLog2
  <2>1. /\ h + 1 \in Nat \ {0} /\ (h + 1) - 1 = h
        /\ h * BlockLog2 < n + 1 /\ n + 1 <= (h + 1) * BlockLog2
    BY <1>1, <1>2, <1>3
  <2>2. GetHeight(n + 1) = h + 1
    BY <1>2, <2>1, HeightUnique
  <2>3. QED
    BY <1>3, <2>2 DEF h
<1>4. CASE n # h * BlockLog2
  <2>1. (h - 1) * BlockLog2 < n + 1 /\ n + 1 <= h * BlockLog2
    BY <1>1, <1>2, <1>4
  <2>2. GetHeight(n + 1) = h
    BY <1>1, <1>2, <2>1, HeightUnique
  <2>3. QED
    BY <1>4, <2>2 DEF h
<1>5. QED
  BY <1>3, <1>4

(* A row has BlockBits blocks below each of its own, and the top row one   *)
(* block, with a bit for each block below it.                              *)
LEMMA HeapFacts ==
  ASSUME NEW n \in Nat, BlockLog2 <= n, NEW i \in 0..(GetHeight(n) - 1)
  PROVE  /\ i = GetHeight(n) - 1 => LastBlock(n, i) = 0
         /\ i # GetHeight(n) - 1 =>
              /\ LastBlock(n, i) = RowLength(n, i) - 1
              /\ RowLength(n, i) \in Nat \ {0}
         /\ i # 0 =>
              /\ LastBlock(n, i - 1) = RowLength(n, i - 1) - 1
              /\ RowLength(n, i - 1) \in Nat \ {0}
              /\ i # GetHeight(n) - 1 => RowLength(n, i - 1) = RowLength(n, i) * BlockBits
              /\ i = GetHeight(n) - 1 => RowLength(n, i - 1) =
                   IF n = GetHeight(n) * BlockLog2 THEN BlockBits ELSE TopBitCount(n)
<1> DEFINE h == GetHeight(n)
<1>1. /\ h \in Nat \ {0} /\ (h - 1) * BlockLog2 < n /\ n <= h * BlockLog2
      /\ TopBitCount(n) = IF n = h * BlockLog2 THEN 1 ELSE Shl1[n - (h - 1) * BlockLog2]
  BY HeightFacts
<1> HIDE DEF h
<1>2. i \in 0..(h - 1) /\ i \in Nat
  BY <1>1 DEF h
<1>3. BlockLog2 \in Nat /\ (h - 1) * BlockLog2 \in Nat
  BY <1>1, WidthFacts
<1>4. i = h - 1 => LastBlock(n, i) = 0
  <2>1. i = h - 1 => n <= (i + 1) * BlockLog2
    BY <1>1, <1>2
  <2>2. QED
    BY <1>2, <2>1, RowFacts
<1>5. ASSUME NEW k \in Nat, k <= h - 1
      PROVE  k * BlockLog2 \in Nat /\ k * BlockLog2 <= (h - 1) * BlockLog2
  BY <1>1, <1>3, <1>5, ProductGrows
<1>6. ASSUME i # h - 1
      PROVE  /\ LastBlock(n, i) = RowLength(n, i) - 1
             /\ RowLength(n, i) \in Nat \ {0}
             /\ RowLength(n, i) = Shl1[n - (i + 1) * BlockLog2]
             /\ n - (i + 1) * BlockLog2 \in Nat
  <2>1. i + 1 \in Nat /\ i + 1 <= h - 1
    BY <1>1, <1>2, <1>6
  <2>2. (i + 1) * BlockLog2 \in Nat /\ (i + 1) * BlockLog2 <= n
    BY <1>1, <1>3, <1>5, <2>1
  <2>3. QED
    BY <1>2, <2>2, RowFacts
<1>7. ASSUME i # 0
      PROVE  /\ LastBlock(n, i - 1) = RowLength(n, i - 1) - 1
             /\ RowLength(n, i - 1) \in Nat \ {0}
             /\ RowLength(n, i - 1) = Shl1[n - i * BlockLog2]
             /\ n - i * BlockLog2 \in Nat
  <2>1. i - 1 \in Nat /\ (i - 1) + 1 = i
    BY <1>2, <1>7
  <2>2. i * BlockLog2 \in Nat /\ i * BlockLog2 <= n
    BY <1>1, <1>2, <1>3, <1>5
  <2>3. QED
    BY <2>1, <2>2, RowFacts
<1>8. ASSUME i # 0, i # h - 1
      PROVE  RowLength(n, i - 1) = RowLength(n, i) * BlockBits
  <2> DEFINE k == n - (i + 1) * BlockLog2
  <2>1. n - i * BlockLog2 = k + BlockLog2
    BY <1>2, <1>3
  <2>2. k \in Nat
    BY <1>6, <1>8
  <2> HIDE DEF k
  <2>3. Shl1[k + BlockLog2] = Shl1[k] * Shl1[BlockLog2]
    BY <1>3, <2>2, Shl1Sum
  <2>4. QED
    BY <1>6, <1>7, <1>8, <2>1, <2>3 DEF BlockBits, k
<1>9. ASSUME i # 0, i = h - 1
      PROVE  RowLength(n, i - 1) = IF n = h * BlockLog2 THEN BlockBits ELSE TopBitCount(n)
  <2>1. h * BlockLog2 - (h - 1) * BlockLog2 = BlockLog2
    BY <1>1, <1>3
  <2>2. QED
    BY <1>1, <1>7, <1>9, <2>1 DEF BlockBits
<1>10. QED
  BY <1>4, <1>6, <1>7, <1>8, <1>9 DEF h

(* The top block has one bit per block below it, or is full of them. *)
LEMMA TopFacts ==
  ASSUME NEW n \in Nat, BlockLog2 <= n
  PROVE  /\ TopBitCount(n) \in 1..(BlockBits - 1)
         /\ TopBitCount(n) = 1 <=> n = GetHeight(n) * BlockLog2
<1> DEFINE h == GetHeight(n)
           k == n - (h - 1) * BlockLog2
<1>1. /\ h \in Nat \ {0} /\ (h - 1) * BlockLog2 < n /\ n <= h * BlockLog2
      /\ TopBitCount(n) = IF n = h * BlockLog2 THEN 1 ELSE Shl1[k]
  BY HeightFacts
<1> HIDE DEF h
<1>2. /\ BlockLog2 \in Nat /\ h * BlockLog2 = (h - 1) * BlockLog2 + BlockLog2
      /\ (h - 1) * BlockLog2 \in Nat
  BY <1>1, WidthFacts
<1>3. BlockBits \in Nat /\ BlockBits >= 2
  BY WidthFacts
<1>4. ASSUME n # h * BlockLog2
      PROVE  Shl1[k] \in 2..(BlockBits - 1)
  <2>1. k \in Nat /\ 0 < k /\ k < BlockLog2
    BY <1>1, <1>2, <1>4
  <2> HIDE DEF k
  <2>2. /\ Shl1[k] \in Nat \ {0} /\ Shl1[0] = 1
        /\ 2 * Shl1[0] <= Shl1[k] /\ 2 * Shl1[k] <= Shl1[BlockLog2]
    BY <1>2, <2>1, Shl1Facts, Shl1Grows
  <2>3. QED
    BY <1>3, <2>2 DEF BlockBits
<1>5. QED
  BY <1>1, <1>3, <1>4 DEF h

(* Where a row starts: where the one below it starts, and its length on. *)
LEMMA OffsetFacts ==
  ASSUME NEW n \in Nat
  PROVE  /\ \A i \in Nat : RowOffset(n, i) \in Int
         /\ \A i \in Nat : RowOffset(n, i + 1) = RowOffset(n, i) + RowLength(n, i)
<1> DEFINE step == [k \in Nat |-> [sum \in Int |-> sum + RowLength(n, k)]]
<1>1. \A k \in Nat : RowLength(n, k) \in Int
  <2> SUFFICES ASSUME NEW k \in Nat PROVE RowLength(n, k) \in Int
    OBVIOUS
  <2> DEFINE d == Shl1[(k + 1) * BlockLog2]
  <2>1. d \in Nat \ {0} /\ Shl1[n] \in Nat
    BY SpanFacts, Shl1Facts
  <2> HIDE DEF d
  <2>2. Shl1[n] \div d \in Int
    BY <2>1, QuotientFacts
  <2>3. QED
    BY <2>2 DEF RowLength, d
<1>2. step \in [Nat -> [Int -> Int]] /\ 0 \in Int
  BY <1>1
<1>3. \A k \in Nat, sum \in Int : step[k][sum] = sum + RowLength(n, k)
  OBVIOUS
<1> HIDE DEF step
<1>4. PICK f : IsRecursion(f, Int, 0, step)
  BY <1>2, RecursionExists
<1>5. \A j \in Nat : f[j] = IF j = 0 THEN 0 ELSE f[j - 1] + RowLength(n, j - 1)
  <2> SUFFICES ASSUME NEW j \in Nat, j # 0 PROVE f[j] = f[j - 1] + RowLength(n, j - 1)
    BY <1>4 DEF IsRecursion
  <2>1. j - 1 \in Nat /\ (j - 1) + 1 = j
    OBVIOUS
  <2>2. QED
    BY <1>3, <1>4, <2>1 DEF IsRecursion
<1>6. f = [j \in Nat |-> IF j = 0 THEN 0 ELSE f[j - 1] + RowLength(n, j - 1)]
  BY <1>4, <1>5 DEF IsRecursion
<1> DEFINE offset == CHOOSE g :
             g = [j \in Nat |-> IF j = 0 THEN 0 ELSE g[j - 1] + RowLength(n, j - 1)]
<1>7. offset = [j \in Nat |-> IF j = 0 THEN 0 ELSE offset[j - 1] + RowLength(n, j - 1)]
  BY <1>6
<1>8. \A i : RowOffset(n, i) = offset[i]
  BY DEF RowOffset
<1> HIDE DEF offset
<1>9. \A i \in Nat : offset[i] \in Int
  <2> DEFINE Good == {i \in Nat : offset[i] \in Int}
  <2>1. 0 \in Good
    BY <1>7
  <2>2. ASSUME NEW i \in Nat, i \in Good
        PROVE  i + 1 \in Good
    BY <1>1, <1>7, <2>2
  <2> HIDE DEF Good
  <2>3. \A i \in Nat : i \in Good
    BY <2>1, <2>2, SetInduction
  <2>4. QED
    BY <2>3 DEF Good
<1>10. \A i \in Nat : offset[i + 1] = offset[i] + RowLength(n, i)
  BY <1>7
<1>11. QED
  BY <1>8, <1>9, <1>10
-----------------------------------------------------------------------------
(* The parts of the invariant, of any pyramid.  Its fields and sizes: *)
Sized(p) ==
  /\ p = [indexCountLog2 |-> p.indexCountLog2, height |-> p.height, rows |-> p.rows,
          offset |-> p.offset, storeSize |-> p.storeSize, stateInit |-> p.stateInit]
  /\ p.stateInit \in BOOLEAN
  /\ p.indexCountLog2 \in BlockLog2..MaxLog2
  /\ p.height = GetHeight(p.indexCountLog2)

(* Each row ends where the next begins, and the last with the allocation. *)
Fits(p) ==
  \A i \in 0..(p.height - 1) :
    p.offset[i] + LastBlock(p.indexCountLog2, i) + 1 =
      IF i = p.height - 1 THEN p.storeSize ELSE p.offset[i + 1]

(* The rows have the blocks that indices belong to. *)
HasRows(p) ==
  /\ DOMAIN p.rows = 0..(p.height - 1)
  /\ \A i \in 0..(p.height - 1) :
       p.rows[i] \in [0..LastBlock(p.indexCountLog2, i) -> SUBSET AllBits]

(* The bits of block j of row i + 1 that have a block below them with a bit. *)
Occupied(p, i, j) ==
  {b \in AllBits : /\ j * BlockBits + b \in DOMAIN p.rows[i]
                   /\ p.rows[i][j * BlockBits + b] # {}}

Summarised(p) ==
  \A i \in 1..(p.height - 1) :
    \A j \in DOMAIN p.rows[i] : p.rows[i][j] = Occupied(p, i - 1, j)

IsPyr(p) == Sized(p) /\ Fits(p)
IsUsable(p) == IsPyr(p) /\ HasRows(p) /\ Summarised(p)

IndicesOf(p) == 0..(Shl1[p.indexCountLog2] - 1)
MembersOf(p) == {index \in IndicesOf(p) : Get(p, index)}

LEMMA PyrFacts ==
  ASSUME NEW p, IsPyr(p)
  PROVE  /\ p.indexCountLog2 \in Nat /\ BlockLog2 <= p.indexCountLog2
         /\ p.height \in Nat \ {0} /\ p.height = GetHeight(p.indexCountLog2)
         /\ Shl1[p.indexCountLog2] \in Nat \ {0}
         /\ Shl1[p.indexCountLog2] <= IDXPYR_EMPTY
         /\ IndicesOf(p) \subseteq Nat
<1>1. /\ p.indexCountLog2 \in Nat /\ BlockLog2 <= p.indexCountLog2
      /\ p.indexCountLog2 < SizeBits /\ SizeBits \in Nat
      /\ p.height = GetHeight(p.indexCountLog2)
  BY WidthFacts DEF IsPyr, Sized
<1>2. p.height \in Nat \ {0}
  BY <1>1, HeightFacts
<1>3. Shl1[p.indexCountLog2] \in Nat \ {0} /\ Shl1[SizeBits] \in Nat \ {0}
  BY <1>1, Shl1Facts
<1>4. 2 * Shl1[p.indexCountLog2] <= Shl1[SizeBits]
  BY <1>1, Shl1Grows
<1>5. QED
  BY <1>1, <1>2, <1>3, <1>4 DEF IDXPYR_EMPTY, IndicesOf

(* The rows of a pyramid may be replaced and the rest stays. *)
LEMMA SetRows ==
  ASSUME NEW p, Sized(p), NEW rows
  PROVE  LET q == [p EXCEPT !.rows = rows]
         IN  /\ Sized(q) /\ q.rows = rows
             /\ q.indexCountLog2 = p.indexCountLog2 /\ q.height = p.height
             /\ q.offset = p.offset /\ q.storeSize = p.storeSize
             /\ q.stateInit = p.stateInit
             /\ Fits(p) => Fits(q)
<1> DEFINE q == [p EXCEPT !.rows = rows]
<1>1. q = [indexCountLog2 |-> p.indexCountLog2, height |-> p.height, rows |-> rows,
           offset |-> p.offset, storeSize |-> p.storeSize, stateInit |-> p.stateInit]
  BY DEF Sized
<1> HIDE DEF q
<1>2. /\ q.rows = rows
      /\ q.indexCountLog2 = p.indexCountLog2 /\ q.height = p.height
      /\ q.offset = p.offset /\ q.storeSize = p.storeSize
      /\ q.stateInit = p.stateInit
  BY <1>1
<1>3. Sized(q)
  BY <1>1, <1>2 DEF Sized
<1>4. Fits(p) => Fits(q)
  BY <1>2 DEF Fits
<1>5. QED
  BY <1>2, <1>3, <1>4 DEF q

(* An index's block and bit are there on every row, as are the blocks      *)
(* below a block that has any.                                             *)
LEMMA PathFacts ==
  ASSUME NEW p, IsPyr(p), NEW x \in IndicesOf(p), NEW i \in 0..(p.height - 1)
  PROVE  /\ BlockIndex(i, x) \in 0..LastBlock(p.indexCountLog2, i)
         /\ i = p.height - 1 => BlockIndex(i, x) = 0
<1> DEFINE n == p.indexCountLog2
<1>1. n \in Nat /\ x \in 0..(Shl1[n] - 1) /\ i \in Nat /\ BlockLog2 <= n
  BY PyrFacts DEF IndicesOf
<1>2. i = p.height - 1 => LastBlock(n, i) = 0
  BY PyrFacts, HeapFacts
<1> HIDE DEF n
<1>3. BlockIndex(i, x) \in {BlockIndex(i, index) : index \in 0..(Shl1[n] - 1)}
  BY <1>1
<1>4. BlockIndex(i, x) \in 0..LastBlock(n, i)
  BY <1>1, <1>3, RowDomain
<1>5. QED
  BY <1>2, <1>4 DEF n

(* The blocks below the first k of a row are the first k * BlockBits. *)
LEMMA PlaceInside ==
  ASSUME NEW j \in Nat, NEW k \in Nat, NEW b \in AllBits
  PROVE  /\ j * BlockBits + b \in Nat
         /\ j * BlockBits + b < k * BlockBits <=> j < k
<1>1. BlockBits \in Nat \ {0} /\ b \in Nat /\ b < BlockBits
  BY WidthFacts DEF AllBits
<1>2. j * BlockBits \in Nat /\ k * BlockBits \in Nat
  BY <1>1
<1>3. j < k => (j + 1) * BlockBits <= k * BlockBits
  <2>1. j + 1 \in Nat /\ (j < k => j + 1 <= k)
    OBVIOUS
  <2>2. QED
    BY <1>1, <2>1, ProductGrows
<1>4. (j + 1) * BlockBits = j * BlockBits + BlockBits
  BY <1>1
<1>5. k <= j => k * BlockBits <= j * BlockBits
  BY <1>1, ProductGrows
<1>6. QED
  BY <1>1, <1>2, <1>3, <1>4, <1>5

-----------------------------------------------------------------------------
(* idxpyr_setAll sets every index, and every row above to match. *)
LEMMA SetAllFacts ==
  ASSUME NEW p, IsPyr(p), HasRows(p), NEW state \in BOOLEAN
  PROVE  LET q == SetAll(p, state)
         IN  /\ IsUsable(q)
             /\ q.indexCountLog2 = p.indexCountLog2 /\ q.height = p.height
             /\ q.stateInit = p.stateInit
             /\ \A i \in 0..(p.height - 1) :
                  i # p.height - 1 =>
                    \A j \in 0..LastBlock(p.indexCountLog2, i) :
                      q.rows[i][j] = IF state THEN AllBits ELSE {}
             /\ MembersOf(q) = IF state THEN IndicesOf(p) ELSE {}
<1> DEFINE n == p.indexCountLog2
           h == p.height
           count == TopBitCount(n)
           filled == count = 1
           fill(i) == IF ~state THEN {}
                      ELSE IF i = h - 1 /\ ~filled THEN 0..(count - 1) ELSE AllBits
           rows == [i \in DOMAIN p.rows |-> [j \in DOMAIN p.rows[i] |-> fill(i)]]
           q == SetAll(p, state)
<1>1. /\ n \in Nat /\ BlockLog2 <= n /\ h \in Nat \ {0} /\ h = GetHeight(n)
      /\ IndicesOf(p) \subseteq Nat
  BY PyrFacts
<1>2. /\ BlockBits \in Nat /\ BlockBits >= 2
      /\ count \in 1..(BlockBits - 1)
      /\ filled <=> n = h * BlockLog2
  BY <1>1, WidthFacts, TopFacts
<1>3. q = [p EXCEPT !.rows = rows]
  BY DEF SetAll
<1>4. \A i \in 0..(h - 1) : fill(i) \in SUBSET AllBits
  <2>1. 0..(count - 1) \in SUBSET AllBits
    BY <1>2 DEF AllBits
  <2> HIDE DEF count, filled
  <2>2. QED
    BY <2>1
<1>5. DOMAIN p.rows = 0..(h - 1) /\ \A i \in 0..(h - 1) : DOMAIN p.rows[i] = 0..LastBlock(n, i)
  BY DEF HasRows
<1>6. rows = [i \in 0..(h - 1) |-> [j \in 0..LastBlock(n, i) |-> fill(i)]]
  BY <1>5
<1> HIDE DEF n, h, rows, q, fill
<1>7. /\ IsPyr(q) /\ q.rows = rows /\ q.indexCountLog2 = n /\ q.height = h
      /\ q.stateInit = p.stateInit
  BY <1>3, SetRows DEF IsPyr, n, h
<1>8. HasRows(q)
  BY <1>4, <1>6, <1>7 DEF HasRows
<1>9. ASSUME NEW i \in 0..(h - 1), NEW j \in 0..LastBlock(n, i)
      PROVE  q.rows[i][j] = fill(i)
  BY <1>6, <1>7
<1>10. ASSUME NEW i \in 1..(h - 1), NEW j \in 0..LastBlock(n, i)
       PROVE  fill(i) = {b \in AllBits : j * BlockBits + b \in 0..LastBlock(n, i - 1)
                                         /\ fill(i - 1) # {}}
  <2>1. i - 1 # h - 1 /\ i \in 0..(h - 1) /\ i # 0
    BY <1>1
  <2>2. CASE ~state
    BY <2>2 DEF fill
  <2>3. CASE state
    <3>1. 0 \in AllBits
      BY <1>2 DEF AllBits
    <3>2. fill(i - 1) = AllBits
      BY <2>1, <2>3 DEF fill
    <3> DEFINE length == RowLength(n, i - 1)
    <3>3. length \in Nat \ {0} /\ LastBlock(n, i - 1) = length - 1
      BY <1>1, <2>1, HeapFacts
    <3>4. CASE i # h - 1
      <4>1. /\ length = RowLength(n, i) * BlockBits
            /\ j \in Nat /\ j < RowLength(n, i) /\ RowLength(n, i) \in Nat
        BY <1>1, <2>1, <3>4, HeapFacts
      <4> HIDE DEF length
      <4>2. \A b \in AllBits : j * BlockBits + b \in Nat /\ j * BlockBits + b < length
        BY <4>1, PlaceInside
      <4>3. \A b \in AllBits : j * BlockBits + b \in 0..LastBlock(n, i - 1)
        BY <3>3, <4>2
      <4>4. fill(i) = AllBits
        BY <2>3, <3>4 DEF fill
      <4>5. QED
        BY <3>1, <3>2, <4>3, <4>4
    <3>5. CASE i = h - 1
      <4>1. length = IF filled THEN BlockBits ELSE count
        BY <1>1, <1>2, <2>1, <3>5, HeapFacts
      <4>2. j = 0
        BY <1>1, <2>1, <3>5, HeapFacts
      <4> HIDE DEF length, filled, count
      <4>3. \A b \in AllBits : j * BlockBits + b \in 0..LastBlock(n, i - 1) <=> b \in 0..(length - 1)
        BY <1>2, <3>3, <4>2 DEF AllBits
      <4>4. fill(i) = {b \in AllBits : b \in 0..(length - 1)}
        <5>1. CASE filled
          BY <3>5, <2>3, <4>1, <5>1 DEF fill, AllBits
        <5>2. CASE ~filled
          <6>1. fill(i) = 0..(length - 1)
            BY <3>5, <2>3, <4>1, <5>2 DEF fill
          <6>2. 0..(length - 1) \in SUBSET AllBits
            BY <1>2, <4>1, <5>2 DEF AllBits
          <6>3. QED
            BY <6>1, <6>2
        <5>3. QED
          BY <5>1, <5>2
      <4>5. QED
        BY <3>1, <3>2, <4>3, <4>4
    <3>6. QED
      BY <3>4, <3>5
  <2>4. QED
    BY <2>2, <2>3
<1>11. Summarised(q)
  <2>0. \A k \in 0..(h - 1) : DOMAIN q.rows[k] = 0..LastBlock(n, k)
    BY <1>7, <1>8 DEF HasRows
  <2> SUFFICES ASSUME NEW i \in 1..(h - 1), NEW j \in 0..LastBlock(n, i)
               PROVE  q.rows[i][j] = Occupied(q, i - 1, j)
    <3>1. \A i \in 1..(h - 1) : i \in 0..(h - 1)
      OBVIOUS
    <3>2. QED
      BY <1>7, <2>0, <3>1 DEF Summarised
  <2>1. i \in 0..(h - 1) /\ i - 1 \in 0..(h - 1)
    BY <1>1
  <2>2. DOMAIN q.rows[i - 1] = 0..LastBlock(n, i - 1)
    BY <2>0, <2>1
  <2>3. Occupied(q, i - 1, j) =
          {b \in AllBits : j * BlockBits + b \in 0..LastBlock(n, i - 1) /\ fill(i - 1) # {}}
    BY <1>9, <2>1, <2>2 DEF Occupied
  <2>4. q.rows[i][j] = fill(i)
    BY <1>9, <2>1
  <2>5. QED
    BY <1>10, <2>3, <2>4
<1>12. MembersOf(q) = IF state THEN IndicesOf(p) ELSE {}
  <2>1. fill(0) = IF state THEN AllBits ELSE {}
    <3>1. 0 = h - 1 => n = h * BlockLog2
      BY <1>1, WidthFacts, HeightFacts
    <3>2. QED
      BY <1>2, <3>1 DEF fill
  <2>2. ASSUME NEW x \in IndicesOf(p)
        PROVE  Get(q, x) <=> state
    <3>1. 0 \in 0..(h - 1) /\ x \in Nat
      BY <1>1
    <3>2. BlockIndex(0, x) \in 0..LastBlock(n, 0)
      BY <3>1, PathFacts DEF h, n
    <3>3. q.rows[0][BlockIndex(0, x)] = fill(0)
      BY <1>9, <3>1, <3>2
    <3>4. Bit(0, x) \in AllBits
      BY <3>1, ShiftedFacts
    <3>5. QED
      BY <2>1, <3>3, <3>4 DEF Get
  <2>3. IndicesOf(q) = IndicesOf(p)
    BY <1>7 DEF IndicesOf, n
  <2>4. QED
    BY <2>2, <2>3 DEF MembersOf
<1>13. ASSUME NEW i \in 0..(h - 1), i # h - 1, NEW j \in 0..LastBlock(n, i)
       PROVE  q.rows[i][j] = IF state THEN AllBits ELSE {}
  BY <1>9, <1>13 DEF fill
<1>14. QED
  BY <1>7, <1>8, <1>11, <1>12, <1>13 DEF IsUsable, q, n, h

(* idxpyr_make: a pyramid of at least one block per row, in one state. *)
LEMMA MakeFacts ==
  ASSUME NEW k \in 0..MaxLog2, NEW state \in BOOLEAN
  PROVE  LET q == Make(k, state)
         IN  /\ IsUsable(q)
             /\ q.indexCountLog2 = IF k < BlockLog2 THEN BlockLog2 ELSE k
             /\ q.stateInit = state
             /\ \A i \in 0..(q.height - 1) :
                  i # q.height - 1 =>
                    \A j \in 0..LastBlock(q.indexCountLog2, i) :
                      q.rows[i][j] = IF state THEN AllBits ELSE {}
             /\ MembersOf(q) = IF state THEN IndicesOf(q) ELSE {}
<1> DEFINE n == IF k < BlockLog2 THEN BlockLog2 ELSE k
           h == GetHeight(n)
           rows == [i \in 0..(h - 1) |-> [j \in 0..BlockIndex(i, Shl1[n] - 1) |-> {}]]
           offset == [i \in 0..(h - 1) |-> RowOffset(n, i)]
           p == [indexCountLog2 |-> n, height |-> h, rows |-> rows, offset |-> offset,
                 storeSize |-> RowOffset(n, h - 1) + 1, stateInit |-> state]
           q == Make(k, state)
<1>1. n \in BlockLog2..MaxLog2 /\ n \in Nat /\ BlockLog2 <= n
  BY WidthFacts
<1>2. q = SetAll(p, state)
  BY DEF Make
<1> HIDE DEF n
<1>3. h \in Nat \ {0}
  BY <1>1, HeightFacts
<1>4. rows = [i \in 0..(h - 1) |-> [j \in 0..LastBlock(n, i) |-> {}]]
  BY DEF LastBlock
<1> HIDE DEF h, q, rows, offset
<1>5. /\ p.indexCountLog2 = n /\ p.height = h /\ p.rows = rows /\ p.offset = offset
      /\ p.storeSize = RowOffset(n, h - 1) + 1 /\ p.stateInit = state
  OBVIOUS
<1>6. Sized(p)
  BY <1>1 DEF Sized, h
<1> HIDE DEF p
<1>7. Fits(p)
  <2> SUFFICES ASSUME NEW i \in 0..(h - 1)
               PROVE  p.offset[i] + LastBlock(n, i) + 1 =
                        IF i = h - 1 THEN p.storeSize ELSE p.offset[i + 1]
    BY <1>5 DEF Fits
  <2>1. i \in Nat /\ RowOffset(n, i) \in Int /\ p.offset[i] = RowOffset(n, i)
    BY <1>1, <1>5, OffsetFacts DEF offset
  <2>2. CASE i = h - 1
    <3>1. LastBlock(n, i) = 0
      BY <1>1, <2>2, HeapFacts DEF h
    <3>2. QED
      BY <1>5, <2>1, <2>2, <3>1
  <2>3. CASE i # h - 1
    <3>1. LastBlock(n, i) = RowLength(n, i) - 1 /\ RowLength(n, i) \in Nat
      BY <1>1, <2>3, HeapFacts DEF h
    <3>2. p.offset[i + 1] = RowOffset(n, i + 1)
      BY <1>3, <1>5, <2>3 DEF offset
    <3>3. RowOffset(n, i + 1) = RowOffset(n, i) + RowLength(n, i)
      BY <1>1, <2>1, OffsetFacts
    <3>4. QED
      BY <2>1, <2>3, <3>1, <3>2, <3>3
  <2>4. QED
    BY <2>2, <2>3
<1>8. HasRows(p)
  BY <1>4, <1>5 DEF HasRows
<1>9. IsPyr(p)
  BY <1>6, <1>7 DEF IsPyr
<1>10. /\ IsUsable(q) /\ q.indexCountLog2 = n /\ q.height = h /\ q.stateInit = state
       /\ \A i \in 0..(h - 1) :
            i # h - 1 =>
              \A j \in 0..LastBlock(n, i) : q.rows[i][j] = IF state THEN AllBits ELSE {}
       /\ MembersOf(q) = IF state THEN IndicesOf(p) ELSE {}
  BY <1>2, <1>5, <1>8, <1>9, SetAllFacts
<1>11. IndicesOf(q) = IndicesOf(p)
  BY <1>5, <1>10 DEF IndicesOf
<1>12. QED
  BY <1>10, <1>11 DEF q, n

(* idxpyr_set changes the index, and above it what that changes. *)
LEMMA SetFacts ==
  ASSUME NEW p, IsUsable(p), NEW x \in IndicesOf(p), NEW state \in BOOLEAN
  PROVE  LET q == Set(p, x, state)
         IN  /\ IsUsable(q)
             /\ q.indexCountLog2 = p.indexCountLog2 /\ q.stateInit = p.stateInit
             /\ MembersOf(q) = IF state THEN MembersOf(p) \cup {x} ELSE MembersOf(p) \ {x}
<1> DEFINE n == p.indexCountLog2
           h == p.height
           block(i) == BlockIndex(i, x)
           bit(i) == Bit(i, x)
           others(i) == p.rows[i][block(i)] \ {bit(i)}
           lower(i) == state \/ \E j \in 0..(i - 1) : others(j) # {}
           new(i) == others(i) \cup (IF lower(i) THEN {bit(i)} ELSE {})
           rows == [i \in DOMAIN p.rows |-> [p.rows[i] EXCEPT ![block(i)] = new(i)]]
           q == Set(p, x, state)
<1>1. /\ n \in Nat /\ BlockLog2 <= n /\ h \in Nat \ {0} /\ IndicesOf(p) \subseteq Nat
      /\ x \in Nat /\ IsPyr(p) /\ HasRows(p) /\ Summarised(p) /\ Sized(p)
  BY PyrFacts DEF IsUsable, IsPyr
<1>2. q = [p EXCEPT !.rows = rows]
  BY DEF Set
<1>3. DOMAIN p.rows = 0..(h - 1) /\ \A i \in 0..(h - 1) : DOMAIN p.rows[i] = 0..LastBlock(n, i)
  BY <1>1 DEF HasRows
<1>4. \A i \in 0..(h - 1) : p.rows[i] \in [0..LastBlock(n, i) -> SUBSET AllBits]
  BY <1>1 DEF HasRows
<1>5. \A i \in Nat : bit(i) \in AllBits /\ block(i) \in Nat
  BY <1>1, ShiftedFacts
<1>6. \A i \in 0..(h - 1) : i \in Nat /\ block(i) \in 0..LastBlock(n, i)
  BY <1>1, PathFacts
<1>7. \A i \in 0..(h - 1) : new(i) \in SUBSET AllBits
  <2> SUFFICES ASSUME NEW i \in 0..(h - 1) PROVE new(i) \in SUBSET AllBits
    OBVIOUS
  <2> HIDE DEF block, bit, lower
  <2>1. p.rows[i][block(i)] \in SUBSET AllBits
    BY <1>4, <1>6
  <2>2. QED
    BY <1>5, <1>6, <2>1
<1>8. \A i \in Nat : new(i) # {} <=> lower(i + 1)
  <2> SUFFICES ASSUME NEW i \in Nat PROVE new(i) # {} <=> lower(i + 1)
    OBVIOUS
  <2> HIDE DEF others
  <2>1. \A j : j \in 0..((i + 1) - 1) <=> (j = i \/ j \in 0..(i - 1))
    OBVIOUS
  <2>2. lower(i + 1) <=> lower(i) \/ others(i) # {}
    BY <2>1
  <2> HIDE DEF lower
  <2>3. QED
    BY <2>2
<1> HIDE DEF n, h, block, bit, others, lower, new, rows, q
<1>9. rows = [i \in 0..(h - 1) |-> [p.rows[i] EXCEPT ![block(i)] = new(i)]]
  BY <1>3 DEF rows
<1>10. /\ Sized(q) /\ Fits(q) /\ q.rows = rows /\ q.indexCountLog2 = n /\ q.height = h
       /\ q.stateInit = p.stateInit
  BY <1>1, <1>2, SetRows DEF IsPyr, n, h
<1>11. ASSUME NEW i \in 0..(h - 1)
       PROVE  /\ q.rows[i] \in [0..LastBlock(n, i) -> SUBSET AllBits]
              /\ \A j \in 0..LastBlock(n, i) :
                   q.rows[i][j] = IF j = block(i) THEN new(i) ELSE p.rows[i][j]
  <2>1. q.rows[i] = [p.rows[i] EXCEPT ![block(i)] = new(i)]
    BY <1>9, <1>10
  <2>2. new(i) \in SUBSET AllBits /\ p.rows[i] \in [0..LastBlock(n, i) -> SUBSET AllBits]
    BY <1>4, <1>7
  <2>3. QED
    BY <2>1, <2>2
<1>12. DOMAIN q.rows = 0..(h - 1)
  BY <1>9, <1>10
<1>13. HasRows(q)
  BY <1>10, <1>11, <1>12 DEF HasRows
<1>14. ASSUME NEW i \in 1..(h - 1), NEW j \in 0..LastBlock(n, i)
       PROVE  q.rows[i][j] = Occupied(q, i - 1, j)
  <2>1. i \in 0..(h - 1) /\ i - 1 \in 0..(h - 1) /\ i \in Nat /\ i - 1 \in Nat /\ (i - 1) + 1 = i
    BY <1>1 DEF h
  <2>2. j \in Nat
    OBVIOUS
  <2>3. DOMAIN q.rows[i - 1] = 0..LastBlock(n, i - 1) /\ DOMAIN p.rows[i - 1] = 0..LastBlock(n, i - 1)
    BY <1>3, <1>11, <2>1
  <2>4. p.rows[i][j] = Occupied(p, i - 1, j)
    BY <1>1, <1>3, <2>1 DEF Summarised, h
  <2>5. block(i - 1) = block(i) * BlockBits + bit(i)
    BY <1>1, <2>1, ShiftedFacts DEF block, bit
  <2>6. ASSUME NEW b \in AllBits
        PROVE  j * BlockBits + b = block(i - 1) <=> j = block(i) /\ b = bit(i)
    <3>1. block(i) \in Nat /\ bit(i) \in AllBits
      BY <1>5, <2>1
    <3>2. ASSUME j * BlockBits + b = block(i - 1)
          PROVE  j = block(i) /\ b = bit(i)
      <4> j * BlockBits + b = block(i) * BlockBits + bit(i)
        BY <2>5, <3>2
      <4> HIDE DEF block, bit
      <4> QED
        BY <2>2, <3>1, PlaceUnique
    <3>3. QED
      BY <2>5, <3>2
  <2>7. ASSUME NEW b \in AllBits, ~(j = block(i) /\ b = bit(i))
        PROVE  b \in Occupied(q, i - 1, j) <=> b \in Occupied(p, i - 1, j)
    <3> DEFINE k == j * BlockBits + b
    <3>1. k # block(i - 1)
      BY <2>6, <2>7
    <3>2. k \in 0..LastBlock(n, i - 1) => q.rows[i - 1][k] = p.rows[i - 1][k]
      BY <1>11, <2>1, <3>1
    <3>3. \A r : b \in Occupied(r, i - 1, j) <=>
                   k \in DOMAIN r.rows[i - 1] /\ r.rows[i - 1][k] # {}
      BY <2>7 DEF Occupied
    <3> HIDE DEF k
    <3>4. QED
      BY <2>3, <3>2, <3>3
  <2>8. j = block(i) => (bit(i) \in Occupied(q, i - 1, j) <=> lower(i))
    <3> SUFFICES ASSUME j = block(i)
                 PROVE  bit(i) \in Occupied(q, i - 1, j) <=> lower(i)
      OBVIOUS
    <3>1. bit(i) \in AllBits /\ j * BlockBits + bit(i) = block(i - 1)
      BY <1>5, <2>1, <2>6
    <3>2. block(i - 1) \in 0..LastBlock(n, i - 1) /\ q.rows[i - 1][block(i - 1)] = new(i - 1)
      BY <1>6, <1>11, <2>1
    <3>3. new(i - 1) # {} <=> lower(i)
      BY <1>8, <2>1
    <3>4. QED
      BY <2>3, <3>1, <3>2, <3>3 DEF Occupied
  <2>9. q.rows[i][j] = IF j = block(i) THEN new(i) ELSE p.rows[i][j]
    BY <1>11, <2>1
  <2>10. CASE j # block(i)
    <3>1. Occupied(q, i - 1, j) = Occupied(p, i - 1, j)
      <4>1. Occupied(q, i - 1, j) \subseteq AllBits /\ Occupied(p, i - 1, j) \subseteq AllBits
        BY DEF Occupied
      <4>2. QED
        BY <2>7, <2>10, <4>1
    <3>2. QED
      BY <2>4, <2>9, <2>10, <3>1
  <2>11. CASE j = block(i)
    <3>1. q.rows[i][j] = (Occupied(p, i - 1, j) \ {bit(i)}) \cup (IF lower(i) THEN {bit(i)} ELSE {})
      BY <2>4, <2>9, <2>11 DEF new, others
    <3>2. Occupied(q, i - 1, j) \subseteq AllBits /\ Occupied(p, i - 1, j) \subseteq AllBits
      BY DEF Occupied
    <3>3. \A b \in AllBits : b \in q.rows[i][j] <=> b \in Occupied(q, i - 1, j)
      BY <2>7, <2>8, <2>11, <3>1
    <3>4. q.rows[i][j] \subseteq AllBits
      BY <1>5, <2>1, <3>1, <3>2
    <3>5. QED
      BY <3>2, <3>3, <3>4
  <2>12. QED
    BY <2>10, <2>11
<1>15. Summarised(q)
  <2>1. \A i \in 1..(h - 1) : i \in 0..(h - 1)
    OBVIOUS
  <2>2. \A i \in 0..(h - 1) : DOMAIN q.rows[i] = 0..LastBlock(n, i)
    BY <1>11
  <2>3. QED
    BY <1>10, <1>14, <2>1, <2>2 DEF Summarised
<1>16. IsUsable(q)
  BY <1>10, <1>13, <1>15 DEF IsUsable, IsPyr
<1>17. IndicesOf(q) = IndicesOf(p)
  BY <1>10 DEF IndicesOf, n
<1>18. ASSUME NEW y \in IndicesOf(p)
       PROVE  Get(q, y) <=> IF y = x THEN state ELSE Get(p, y)
  <2>1. y \in Nat /\ 0 \in 0..(h - 1) /\ 0 \in Nat
    BY <1>1 DEF h
  <2>2. BlockIndex(0, y) \in 0..LastBlock(n, 0)
    BY <1>1, <2>1, PathFacts DEF n, h
  <2>3. q.rows[0][BlockIndex(0, y)] = IF BlockIndex(0, y) = block(0) THEN new(0) ELSE p.rows[0][BlockIndex(0, y)]
    BY <1>11, <2>1, <2>2
  <2>4. lower(0) <=> state
    BY DEF lower
  <2>5. CASE y = x
    <3>1. Bit(0, y) \in new(0) <=> state
      BY <2>4, <2>5 DEF new, others, bit
    <3>2. QED
      BY <2>3, <2>5, <3>1 DEF Get, block
  <2>6. CASE y # x
    <3>1. /\ x = BlockIndex(0, x) * BlockBits + Bit(0, x)
          /\ y = BlockIndex(0, y) * BlockBits + Bit(0, y)
      BY <1>1, <2>1, ShiftedFacts
    <3>2. ~(BlockIndex(0, y) = block(0) /\ Bit(0, y) = bit(0))
      BY <2>6, <3>1 DEF block, bit
    <3>3. BlockIndex(0, y) = block(0) => (Bit(0, y) \in new(0) <=> Bit(0, y) \in p.rows[0][block(0)])
      BY <3>2 DEF new, others
    <3>4. QED
      BY <2>3, <2>6, <3>3 DEF Get
  <2>7. QED
    BY <2>5, <2>6
<1>19. MembersOf(q) = IF state THEN MembersOf(p) \cup {x} ELSE MembersOf(p) \ {x}
  BY <1>17, <1>18 DEF MembersOf
<1>20. QED
  BY <1>10, <1>16, <1>19 DEF q, n
-----------------------------------------------------------------------------
(* A member has its bit on every row. *)
LEMMA MemberIsSeen ==
  ASSUME NEW p, IsUsable(p), NEW x \in MembersOf(p), NEW i \in 0..(p.height - 1)
  PROVE  Bit(i, x) \in p.rows[i][BlockIndex(i, x)]
<1> DEFINE h == p.height
           Good == {k \in Nat : k <= h - 1 => Bit(k, x) \in p.rows[k][BlockIndex(k, x)]}
<1>1. /\ h \in Nat \ {0} /\ IsPyr(p) /\ HasRows(p) /\ Summarised(p)
      /\ x \in IndicesOf(p) /\ x \in Nat
  BY PyrFacts DEF IsUsable, MembersOf
<1>2. 0 \in Good
  BY DEF MembersOf, Get
<1>3. ASSUME NEW k \in Nat, k \in Good
      PROVE  k + 1 \in Good
  <2> SUFFICES ASSUME k + 1 <= h - 1
               PROVE  Bit(k + 1, x) \in p.rows[k + 1][BlockIndex(k + 1, x)]
    OBVIOUS
  <2>1. k + 1 \in 1..(h - 1) /\ k \in 0..(h - 1) /\ k + 1 \in 0..(h - 1) /\ (k + 1) - 1 = k
    BY <1>1
  <2>2. p.rows[k][BlockIndex(k, x)] # {}
    BY <1>3, <2>1
  <2>3. BlockIndex(k, x) \in DOMAIN p.rows[k]
    BY <1>1, <2>1, PathFacts DEF HasRows
  <2>4. BlockIndex(k + 1, x) \in DOMAIN p.rows[k + 1]
    BY <1>1, <2>1, PathFacts DEF HasRows
  <2>5. /\ Bit(k + 1, x) \in AllBits
        /\ BlockIndex(k, x) = BlockIndex(k + 1, x) * BlockBits + Bit(k + 1, x)
    BY <1>1, <2>1, ShiftedFacts
  <2>6. p.rows[k + 1][BlockIndex(k + 1, x)] = Occupied(p, k, BlockIndex(k + 1, x))
    BY <1>1, <2>1, <2>4 DEF Summarised
  <2>7. QED
    BY <2>2, <2>3, <2>5, <2>6 DEF Occupied
<1> HIDE DEF Good
<1>4. i \in Good
  BY <1>1, <1>2, <1>3, SetInduction
<1>5. QED
  BY <1>1, <1>4 DEF Good

(* A bit on any row has a member behind it. *)
LEMMA BitHasMember ==
  ASSUME NEW p, IsUsable(p), NEW i \in 0..(p.height - 1),
         NEW j \in 0..LastBlock(p.indexCountLog2, i), NEW b \in p.rows[i][j]
  PROVE  \E x \in MembersOf(p) : Shifted(i, x) = j * BlockBits + b
<1> DEFINE n == p.indexCountLog2
           h == p.height
           Behind(k, m, c) == \E x \in MembersOf(p) : Shifted(k, x) = m * BlockBits + c
           Good == {k \in Nat : k <= h - 1 =>
                      \A m \in 0..LastBlock(n, k) : \A c \in p.rows[k][m] : Behind(k, m, c)}
<1>1. /\ h \in Nat \ {0} /\ IsPyr(p) /\ HasRows(p) /\ Summarised(p)
      /\ n \in Nat /\ BlockLog2 <= n /\ IndicesOf(p) \subseteq Nat
  BY PyrFacts DEF IsUsable
<1>2. ASSUME NEW k \in 0..(h - 1), NEW m \in 0..LastBlock(n, k), NEW c \in p.rows[k][m]
      PROVE  k \in Nat /\ m \in Nat /\ c \in AllBits /\ m * BlockBits + c \in Nat
  <2>1. p.rows[k][m] \in SUBSET AllBits
    BY <1>1 DEF HasRows
  <2>2. QED
    BY <2>1, PlaceInside
<1>3. 0 \in Good
  <2> SUFFICES ASSUME NEW m \in 0..LastBlock(n, 0), NEW c \in p.rows[0][m]
               PROVE  Behind(0, m, c)
    OBVIOUS
  <2> DEFINE y == m * BlockBits + c
  <2>1. m \in Nat /\ c \in AllBits /\ y \in Nat
    BY <1>1, <1>2
  <2>2. /\ RowLength(n, 0) \in Nat \ {0} /\ LastBlock(n, 0) = RowLength(n, 0) - 1
        /\ RowLength(n, 0) = Shl1[n - BlockLog2]
    <3>1. (0 + 1) * BlockLog2 = BlockLog2
      BY WidthFacts
    <3>2. QED
      BY <1>1, <3>1, RowFacts
  <2>3. Shl1[n] = RowLength(n, 0) * BlockBits
    <3>1. n - BlockLog2 \in Nat /\ BlockLog2 \in Nat /\ (n - BlockLog2) + BlockLog2 = n
      BY <1>1, WidthFacts
    <3>2. Shl1[(n - BlockLog2) + BlockLog2] = Shl1[n - BlockLog2] * Shl1[BlockLog2]
      BY <3>1, Shl1Sum
    <3>3. QED
      BY <2>2, <3>1, <3>2 DEF BlockBits
  <2>4. y < RowLength(n, 0) * BlockBits
    BY <2>1, <2>2, PlaceInside
  <2>5. y \in IndicesOf(p)
    <3>1. Shl1[n] \in Nat /\ y < Shl1[n]
      BY <1>1, <2>3, <2>4, Shl1Facts
    <3> HIDE DEF y
    <3>2. QED
      BY <2>1, <3>1 DEF IndicesOf
  <2>6. Shifted(0, y) = y /\ y = BlockIndex(0, y) * BlockBits + Bit(0, y)
    BY <2>1, ShiftedFacts
  <2>7. BlockIndex(0, y) = m /\ Bit(0, y) = c
    <3>1. BlockIndex(0, y) \in Nat /\ Bit(0, y) \in AllBits
      BY <2>1, ShiftedFacts
    <3> HIDE DEF y
    <3>2. BlockIndex(0, y) * BlockBits + Bit(0, y) = m * BlockBits + c
      BY <2>6 DEF y
    <3>3. QED
      BY <2>1, <3>1, <3>2, PlaceUnique
  <2>8. y \in MembersOf(p)
    BY <2>5, <2>7 DEF MembersOf, Get
  <2>9. QED
    BY <2>6, <2>8
<1>4. ASSUME NEW k \in Nat, k \in Good
      PROVE  k + 1 \in Good
  <2> SUFFICES ASSUME k + 1 <= h - 1, NEW m \in 0..LastBlock(n, k + 1),
                      NEW c \in p.rows[k + 1][m]
               PROVE  Behind(k + 1, m, c)
    OBVIOUS
  <2> DEFINE y == m * BlockBits + c
  <2>1. k + 1 \in 1..(h - 1) /\ k \in 0..(h - 1) /\ k + 1 \in 0..(h - 1) /\ (k + 1) - 1 = k
    BY <1>1
  <2>2. m \in Nat /\ c \in AllBits /\ y \in Nat
    BY <1>2, <2>1
  <2>3. p.rows[k + 1][m] = Occupied(p, k, m)
    BY <1>1, <2>1 DEF Summarised, HasRows
  <2>4. y \in 0..LastBlock(n, k) /\ p.rows[k][y] # {}
    BY <1>1, <2>1, <2>3 DEF Occupied, HasRows
  <2> HIDE DEF y
  <2>5. PICK e : e \in p.rows[k][y]
    BY <2>4
  <2>6. e \in AllBits
    BY <1>2, <2>1, <2>4, <2>5
  <2>7. PICK x \in MembersOf(p) : Shifted(k, x) = y * BlockBits + e
    BY <1>4, <2>1, <2>4, <2>5
  <2>8. x \in Nat
    BY <1>1 DEF MembersOf
  <2>9. /\ Shifted(k, x) = BlockIndex(k, x) * BlockBits + Bit(k, x)
        /\ BlockIndex(k, x) \in Nat /\ Bit(k, x) \in AllBits
        /\ BlockIndex(k, x) = Shifted(k + 1, x)
    BY <2>8, ShiftedFacts
  <2>10. BlockIndex(k, x) = y
    BY <2>2, <2>6, <2>7, <2>9, PlaceUnique
  <2>11. QED
    BY <2>9, <2>10 DEF y
<1> HIDE DEF Good
<1>5. i \in Good
  BY <1>1, <1>3, <1>4, SetInduction
<1>6. QED
  BY <1>1, <1>5 DEF Good

LEMMA TrailingZerosFacts ==
  ASSUME NEW block \in SUBSET AllBits, NEW m \in block, \A c \in block : m <= c
  PROVE  CountTrailingZeros(block) = m
<1>1. \A c \in block : c \in Nat
  BY WidthFacts DEF AllBits
<1>2. \A b \in block : (\A c \in block : b <= c) => b = m
  BY <1>1
<1>3. QED
  BY <1>2 DEF CountTrailingZeros

(* idxpyr_getFirst follows the least bits down to the least index. *)
LEMMA FirstFacts ==
  ASSUME NEW p, IsUsable(p)
  PROVE  IF MembersOf(p) = {} THEN GetFirst(p) = IDXPYR_EMPTY
         ELSE /\ GetFirst(p) \in MembersOf(p)
              /\ \A index \in MembersOf(p) : GetFirst(p) <= index
<1> DEFINE n == p.indexCountLog2
           h == p.height
           IsLower(f) == f = [i \in 0..(h - 1) |->
                                IF i = h - 1 THEN CountTrailingZeros(Top(p))
                                ELSE f[i + 1] * BlockBits
                                       + CountTrailingZeros(p.rows[i][f[i + 1]])]
           lower == CHOOSE f : IsLower(f)
<1>1. /\ h \in Nat \ {0} /\ IsPyr(p) /\ HasRows(p) /\ Summarised(p) /\ h = GetHeight(n)
      /\ n \in Nat /\ BlockLog2 <= n /\ MembersOf(p) \subseteq Nat
      /\ MembersOf(p) \subseteq IndicesOf(p)
  BY PyrFacts DEF IsUsable, MembersOf
<1>2. GetFirst(p) = IF Top(p) = {} THEN IDXPYR_EMPTY ELSE lower[0]
  BY DEF GetFirst
<1>3. h - 1 \in 0..(h - 1) /\ LastBlock(n, h - 1) = 0
  BY <1>1, HeapFacts
<1>4. CASE MembersOf(p) = {}
  <2>1. 0 \in 0..LastBlock(n, h - 1)
    BY <1>3
  <2>2. \A b : b \notin Top(p)
    BY <1>3, <1>4, <2>1, BitHasMember DEF Top
  <2>3. QED
    BY <1>2, <1>4, <2>2
<1>5. CASE MembersOf(p) # {}
  <2>1. PICK m \in MembersOf(p) : \A index \in MembersOf(p) : m <= index
    BY <1>1, <1>5, LeastElement
  <2>2. m \in Nat /\ m \in IndicesOf(p)
    BY <1>1
  <2>3. BlockIndex(h - 1, m) = 0 /\ Bit(h - 1, m) \in Top(p)
    BY <1>1, <1>3, <2>2, PathFacts, MemberIsSeen DEF Top
  <2>4. ASSUME NEW i \in 0..(h - 1)
        PROVE  /\ CountTrailingZeros(p.rows[i][BlockIndex(i, m)]) = Bit(i, m)
               /\ i \in Nat
               /\ Shifted(i, m) = BlockIndex(i, m) * BlockBits + Bit(i, m)
               /\ BlockIndex(i, m) = Shifted(i + 1, m)
    <3> DEFINE j == BlockIndex(i, m)
               block == p.rows[i][j]
    <3>0. i \in Nat /\ j \in 0..LastBlock(n, i)
      BY <1>1, <2>2, PathFacts
    <3>1. /\ j \in 0..LastBlock(n, i) /\ j \in Nat /\ Bit(i, m) \in AllBits /\ i \in Nat
          /\ Shifted(i, m) = j * BlockBits + Bit(i, m)
          /\ BlockIndex(i, m) = Shifted(i + 1, m)
      BY <2>2, <3>0, ShiftedFacts
    <3>2. block \in SUBSET AllBits /\ Bit(i, m) \in block
      BY <1>1, <3>1, MemberIsSeen DEF HasRows
    <3> HIDE DEF j
    <3>3. ASSUME NEW c \in block
          PROVE  Bit(i, m) <= c
      <4>1. PICK x \in MembersOf(p) : Shifted(i, x) = j * BlockBits + c
        BY <3>1, BitHasMember
      <4>2. Shifted(i, m) <= Shifted(i, x)
        BY <1>1, <2>1, <2>2, <3>1, <4>1, ShiftedGrows
      <4>3. j * BlockBits \in Nat /\ c \in Nat /\ Bit(i, m) \in Nat
        BY <3>1, <3>2, WidthFacts DEF AllBits
      <4>4. QED
        BY <3>1, <4>1, <4>2, <4>3
    <3>4. CountTrailingZeros(block) = Bit(i, m)
      BY <3>2, <3>3, TrailingZerosFacts
    <3>5. QED
      BY <3>1, <3>4 DEF j
  <2>5. CountTrailingZeros(Top(p)) = Shifted(h - 1, m)
    <3>1. /\ CountTrailingZeros(Top(p)) = Bit(h - 1, m)
          /\ Shifted(h - 1, m) = 0 * BlockBits + Bit(h - 1, m)
      BY <1>3, <2>3, <2>4 DEF Top
    <3>2. h - 1 \in Nat
      BY <1>1
    <3>3. Bit(h - 1, m) \in AllBits
      BY <2>2, <3>2, ShiftedFacts
    <3>4. Bit(h - 1, m) \in Nat /\ BlockBits \in Nat
      BY <3>3, WidthFacts DEF AllBits
    <3>5. QED
      BY <3>1, <3>4
  <2> DEFINE path == [i \in 0..(h - 1) |-> Shifted(i, m)]
  <2>6. IsLower(path)
    <3>1. ASSUME NEW i \in 0..(h - 1), i # h - 1
          PROVE  Shifted(i, m) = path[i + 1] * BlockBits
                                   + CountTrailingZeros(p.rows[i][path[i + 1]])
      <4>1. i + 1 \in 0..(h - 1)
        BY <1>1, <3>1
      <4>2. path[i + 1] = BlockIndex(i, m)
        BY <2>4, <4>1
      <4>3. QED
        BY <2>4, <4>2
    <3>2. QED
      BY <2>5, <3>1
  <2>7. IsLower(lower)
    BY <2>6
  <2> HIDE DEF lower
  <2> DEFINE Good == {k \in Nat : k <= h - 1 => lower[(h - 1) - k] = Shifted((h - 1) - k, m)}
  <2>8. 0 \in Good
    BY <1>3, <2>5, <2>7
  <2>9. ASSUME NEW k \in Nat, k \in Good
        PROVE  k + 1 \in Good
    <3> SUFFICES ASSUME k + 1 <= h - 1
                 PROVE  lower[(h - 1) - (k + 1)] = Shifted((h - 1) - (k + 1), m)
      OBVIOUS
    <3> DEFINE i == (h - 1) - (k + 1)
    <3>1. /\ i \in 0..(h - 1) /\ i # h - 1 /\ i + 1 = (h - 1) - k
          /\ lower[(h - 1) - k] = Shifted((h - 1) - k, m)
      BY <1>1, <2>9
    <3> HIDE DEF i
    <3>2. lower[i + 1] = Shifted(i + 1, m)
      BY <3>1
    <3>3. lower[i] = lower[i + 1] * BlockBits + CountTrailingZeros(p.rows[i][lower[i + 1]])
      BY <2>7, <3>1
    <3>4. lower[i] = Shifted(i, m)
      BY <2>4, <3>1, <3>2, <3>3
    <3>5. QED
      BY <3>4 DEF i
  <2> HIDE DEF Good
  <2>10. h - 1 \in Good
    BY <1>1, <2>8, <2>9, SetInduction
  <2>11. lower[0] = m
    <3>1. lower[0] = Shifted(0, m)
      BY <1>1, <2>10 DEF Good
    <3>2. QED
      BY <2>2, <3>1, ShiftedFacts
  <2>12. GetFirst(p) = m
    BY <1>2, <2>3, <2>11
  <2>13. QED
    BY <1>5, <2>1, <2>12
<1>6. QED
  BY <1>4, <1>5

(* idxpyr_popFirst takes the least member out, if there is one. *)
LEMMA PopFacts ==
  ASSUME NEW p, IsUsable(p)
  PROVE  LET q == PopFirst(p)
         IN  /\ IsUsable(q)
             /\ q.indexCountLog2 = p.indexCountLog2 /\ q.stateInit = p.stateInit
             /\ IF MembersOf(p) = {} THEN q = p
                ELSE \E first \in MembersOf(p) :
                       /\ \A other \in MembersOf(p) : first <= other
                       /\ MembersOf(q) = MembersOf(p) \ {first}
<1>1. CASE MembersOf(p) = {}
  <2>1. PopFirst(p) = p
    BY <1>1, FirstFacts DEF PopFirst
  <2>2. QED
    BY <1>1, <2>1
<1>2. CASE MembersOf(p) # {}
  <2> DEFINE first == GetFirst(p)
             q == PopFirst(p)
  <2>1. first \in MembersOf(p) /\ \A other \in MembersOf(p) : first <= other
    BY <1>2, FirstFacts
  <2>2. first \in IndicesOf(p) /\ first # IDXPYR_EMPTY
    <3>1. IsPyr(p) /\ first \in IndicesOf(p)
      BY <2>1 DEF IsUsable, MembersOf
    <3>2. QED
      BY <3>1, PyrFacts, WidthFacts, Shl1Facts DEF IndicesOf, IDXPYR_EMPTY
  <2>3. q = Set(p, first, FALSE)
    BY <2>2 DEF PopFirst
  <2> HIDE DEF first, q
  <2>4. /\ IsUsable(q)
        /\ q.indexCountLog2 = p.indexCountLog2 /\ q.stateInit = p.stateInit
        /\ MembersOf(q) = MembersOf(p) \ {first}
    BY <2>2, <2>3, SetFacts
  <2>5. QED
    BY <1>2, <2>1, <2>4 DEF q
<1>3. QED
  BY <1>1, <1>2

-----------------------------------------------------------------------------
(* The rows of a pyramid that has grown, all but its top one: each is      *)
(* twice as long as it was, and the new top has a bit for each of the old  *)
(* blocks below it.                                                        *)
LEMMA BiggerRowFacts ==
  ASSUME NEW n \in Nat, BlockLog2 <= n, NEW i \in Nat, i + 1 < GetHeight(n + 1)
  PROVE  /\ i \in 0..(GetHeight(n) - 1)
         /\ RowLength(n, i) \in Nat \ {0}
         /\ LastBlock(n, i) = RowLength(n, i) - 1
         /\ LastBlock(n + 1, i) = 2 * RowLength(n, i) - 1
         /\ i # 0 => RowLength(n, i - 1) = RowLength(n, i) * BlockBits
         /\ i + 2 = GetHeight(n + 1) => RowLength(n, i) = TopBitCount(n)
<1> DEFINE h == GetHeight(n)
           g == GetHeight(n + 1)
           m == (i + 1) * BlockLog2
           k == n - m
<1>1. /\ g \in Nat \ {0} /\ (g - 1) * BlockLog2 < n + 1
      /\ h \in Nat \ {0}
      /\ TopBitCount(n) = IF n = h * BlockLog2 THEN 1 ELSE Shl1[n - (h - 1) * BlockLog2]
      /\ g = IF n = h * BlockLog2 THEN h + 1 ELSE h
  <2>1. BlockLog2 \in Nat /\ n + 1 \in Nat /\ BlockLog2 <= n + 1
    BY WidthFacts
  <2>2. QED
    BY <2>1, HeightFacts, HeightOfBigger
<1> HIDE DEF g, h
<1>2. i + 1 \in Nat /\ i + 1 <= g - 1 /\ g - 1 \in Nat /\ i + 1 <= h /\ BlockLog2 \in Nat
  BY <1>1, WidthFacts DEF g
<1>3. m \in Nat /\ (g - 1) * BlockLog2 \in Nat /\ m <= (g - 1) * BlockLog2
  BY <1>2, ProductGrows
<1>4. k \in Nat /\ m <= n /\ m <= n + 1 /\ (n + 1) - m = k + 1
  BY <1>1, <1>3
<1>5. /\ RowLength(n, i) = Shl1[k] /\ RowLength(n, i) \in Nat \ {0}
      /\ LastBlock(n, i) = RowLength(n, i) - 1
  BY <1>4, RowFacts
<1>6. LastBlock(n + 1, i) = 2 * RowLength(n, i) - 1
  <2>1. n + 1 \in Nat
    OBVIOUS
  <2>2. LastBlock(n + 1, i) = RowLength(n + 1, i) - 1 /\ RowLength(n + 1, i) = Shl1[(n + 1) - m]
    BY <1>4, <2>1, RowFacts
  <2>3. Shl1[k + 1] = 2 * Shl1[k]
    BY <1>4, Shl1Facts
  <2>4. QED
    BY <1>4, <1>5, <2>2, <2>3
<1>7. ASSUME i # 0
      PROVE  RowLength(n, i - 1) = RowLength(n, i) * BlockBits
  <2>1. i - 1 \in Nat /\ (i - 1) + 1 = i
    BY <1>7
  <2>2. i * BlockLog2 \in Nat /\ m = i * BlockLog2 + BlockLog2
    BY SpanFacts
  <2>3. i * BlockLog2 <= n /\ n - i * BlockLog2 = k + BlockLog2
    BY <1>2, <1>4, <2>2
  <2>4. RowLength(n, i - 1) = Shl1[n - i * BlockLog2]
    BY <2>1, <2>3, RowFacts
  <2>5. Shl1[k + BlockLog2] = Shl1[k] * Shl1[BlockLog2]
    BY <1>2, <1>4, Shl1Sum
  <2>6. QED
    BY <1>5, <2>3, <2>4, <2>5 DEF BlockBits
<1>8. ASSUME i + 2 = g
      PROVE  RowLength(n, i) = TopBitCount(n)
  <2>1. CASE n = h * BlockLog2
    <3>1. i + 1 = h
      BY <1>1, <1>8, <2>1
    <3>2. k = 0
      BY <1>4, <2>1, <3>1
    <3>3. QED
      BY <1>1, <1>5, <2>1, <3>2, Shl1Facts
  <2>2. CASE n # h * BlockLog2
    <3>1. i + 1 = h - 1
      BY <1>1, <1>8, <2>2
    <3>2. QED
      BY <1>1, <1>5, <2>2, <3>1
  <2>3. QED
    BY <2>1, <2>2
<1>9. QED
  BY <1>1, <1>2, <1>5, <1>6, <1>7, <1>8 DEF g, h

(* idxpyr_increaseSize keeps the old indices as they are, and the new ones *)
(* start out in the state make was given, under rows that summarise both.  *)
LEMMA IncreaseFacts ==
  ASSUME NEW p, IsUsable(p), p.indexCountLog2 < MaxLog2
  PROVE  LET q == IncreaseSize(p)
         IN  /\ IsUsable(q)
             /\ q.indexCountLog2 = p.indexCountLog2 + 1 /\ q.stateInit = p.stateInit
             /\ MembersOf(q) = MembersOf(p) \cup
                  IF p.stateInit THEN Shl1[p.indexCountLog2]..(2 * Shl1[p.indexCountLog2] - 1)
                  ELSE {}
<1> DEFINE n == p.indexCountLog2
           h == p.height
           length(i) == RowLength(n, i)
           bigger == BiggerPyr(p)
           top == bigger.height - 1
           count == TopBitCount(n)
           resetMask == 0..(count - 1)
           resetBits == IF resetMask # {0} THEN Top(p)
                        ELSE IF Top(p) = {} THEN {} ELSE {0}
           fill == IF p.stateInit THEN AllBits ELSE {}
           new(i, j) == IF i = top THEN (bigger.rows[i][j] \ resetMask) \cup resetBits
                        ELSE IF j < length(i) THEN p.rows[i][j]
                        ELSE bigger.rows[i][j]
           rows == [i \in DOMAIN bigger.rows |-> [j \in DOMAIN bigger.rows[i] |-> new(i, j)]]
           q == IncreaseSize(p)
<1>1. /\ n \in Nat /\ BlockLog2 <= n /\ n + 1 <= MaxLog2 /\ h \in Nat \ {0} /\ h = GetHeight(n)
      /\ IsPyr(p) /\ HasRows(p) /\ Summarised(p) /\ p.stateInit \in BOOLEAN
      /\ Shl1[n] \in Nat \ {0} /\ IndicesOf(p) = 0..(Shl1[n] - 1)
  BY PyrFacts, WidthFacts DEF IsUsable, IsPyr, Sized, IndicesOf
<1>2. n + 1 \in 0..MaxLog2 /\ n + 1 \in Nat /\ BlockLog2 <= n + 1 /\ ~(n + 1 < BlockLog2)
  BY <1>1, WidthFacts
<1>3. q = [bigger EXCEPT !.rows = rows]
  BY DEF IncreaseSize
<1> HIDE DEF q, rows, new, resetBits, resetMask, count, n, h
<1>4. /\ IsUsable(bigger) /\ bigger.indexCountLog2 = n + 1 /\ bigger.stateInit = p.stateInit
      /\ \A i \in 0..top : i # top => \A j \in 0..LastBlock(n + 1, i) : bigger.rows[i][j] = fill
  BY <1>1, <1>2, MakeFacts DEF BiggerPyr, n
<1> HIDE DEF bigger, fill
<1>5. /\ top + 1 \in Nat \ {0} /\ top \in Nat \ {0} /\ top + 1 = GetHeight(n + 1)
      /\ IsPyr(bigger) /\ HasRows(bigger) /\ Summarised(bigger)
      /\ LastBlock(n + 1, top) = 0
  <2>1. /\ bigger.height \in Nat \ {0} /\ bigger.height = GetHeight(n + 1)
        /\ IsPyr(bigger) /\ HasRows(bigger) /\ Summarised(bigger)
    BY <1>4, PyrFacts DEF IsUsable
  <2>2. n + 1 <= GetHeight(n + 1) * BlockLog2
    BY <1>2, HeightFacts
  <2>3. bigger.height # 1
    BY <1>1, <2>1, <2>2, WidthFacts
  <2>4. top \in 0..(GetHeight(n + 1) - 1) /\ top = GetHeight(n + 1) - 1
    BY <2>1
  <2>5. LastBlock(n + 1, top) = 0
    BY <1>2, <2>4, HeapFacts
  <2>6. QED
    BY <2>1, <2>3, <2>5
<1>6. ASSUME NEW i \in 0..top, i # top
      PROVE  /\ i \in 0..(h - 1) /\ length(i) \in Nat \ {0}
             /\ LastBlock(n, i) = length(i) - 1
             /\ LastBlock(n + 1, i) = 2 * length(i) - 1
             /\ i # 0 => length(i - 1) = length(i) * BlockBits
             /\ i = top - 1 => length(i) = count
  BY <1>1, <1>5, <1>6, BiggerRowFacts DEF count
<1> HIDE DEF length, top
<1>7. /\ DOMAIN bigger.rows = 0..top
      /\ \A i \in 0..top : bigger.rows[i] \in [0..LastBlock(n + 1, i) -> SUBSET AllBits]
  BY <1>4, <1>5 DEF HasRows, top
<1>8. \A i \in 0..(h - 1) : p.rows[i] \in [0..LastBlock(n, i) -> SUBSET AllBits]
  BY <1>1 DEF HasRows, n, h
<1>9. rows = [i \in 0..top |-> [j \in 0..LastBlock(n + 1, i) |-> new(i, j)]]
  BY <1>7 DEF rows
(* The bits put into the top say which of the old blocks are not empty. *)
<1>10. /\ count \in 1..(BlockBits - 1) /\ resetMask = 0..(count - 1)
       /\ resetBits = {b \in 0..(count - 1) : p.rows[top - 1][b] # {}}
       /\ top - 1 \in 0..top /\ top - 1 # top /\ top - 1 \in 0..(h - 1)
       /\ LastBlock(n, top - 1) = count - 1 /\ length(top - 1) = count
  <2>1. /\ count \in 1..(BlockBits - 1)
        /\ count = 1 <=> n = h * BlockLog2
    BY <1>1, TopFacts DEF count
  <2>2. top + 1 = IF n = h * BlockLog2 THEN h + 1 ELSE h
    BY <1>1, <1>5, HeightOfBigger
  <2>3. top - 1 \in 0..top /\ top - 1 # top
    BY <1>5
  <2>4. /\ top - 1 \in 0..(h - 1) /\ LastBlock(n, top - 1) = count - 1
        /\ length(top - 1) = count
    BY <1>6, <2>3
  <2>5. resetMask = 0..(count - 1)
    BY DEF resetMask
  <2>6. DOMAIN p.rows[top - 1] = 0..(count - 1)
    BY <1>8, <2>4
  <2>7. CASE count = 1
    <3>1. top - 1 = h - 1
      BY <1>1, <1>5, <2>1, <2>2, <2>7
    <3>2. resetMask = {0}
      BY <2>5, <2>7
    <3>3. Top(p) = p.rows[top - 1][0]
      BY <3>1 DEF Top, h
    <3>4. resetBits = IF p.rows[top - 1][0] = {} THEN {} ELSE {0}
      BY <3>2, <3>3 DEF resetBits
    <3>5. 0..(count - 1) = {0}
      BY <2>7
    <3>6. resetBits = {b \in {0} : p.rows[top - 1][b] # {}}
      BY <3>4
    <3>7. QED
      BY <2>1, <2>3, <2>4, <2>5, <3>5, <3>6
  <2>8. CASE count # 1
    <3>1. top = h - 1 /\ top \in 1..(h - 1) /\ top \in 0..(h - 1)
      BY <1>1, <1>5, <2>1, <2>2, <2>8
    <3>2. resetMask # {0}
      <4>1. 1 \in 0..(count - 1)
        BY <2>1, <2>8
      <4>2. QED
        BY <2>5, <4>1
    <3>3. resetBits = p.rows[top][0]
      BY <3>1, <3>2 DEF resetBits, Top, h
    <3>4. LastBlock(n, top) = 0
      BY <1>1, <3>1, HeapFacts
    <3>5. 0 \in DOMAIN p.rows[top]
      BY <1>8, <3>1, <3>4
    <3>6. p.rows[top][0] = Occupied(p, top - 1, 0)
      BY <1>1, <3>1, <3>5 DEF Summarised, h
    <3>7. \A b \in AllBits : 0 * BlockBits + b = b
      BY WidthFacts DEF AllBits
    <3>8. Occupied(p, top - 1, 0) = {b \in AllBits : b \in 0..(count - 1) /\ p.rows[top - 1][b] # {}}
      BY <2>6, <3>7 DEF Occupied
    <3>9. \A b \in 0..(count - 1) : b \in AllBits
      BY <2>1, WidthFacts DEF AllBits
    <3>10. QED
      BY <2>1, <2>3, <2>4, <2>5, <3>3, <3>6, <3>8, <3>9
  <2>9. QED
    BY <2>7, <2>8
<1>11. ASSUME NEW i \in 0..top, NEW j \in 0..LastBlock(n + 1, i)
       PROVE  new(i, j) \in SUBSET AllBits
  <2>1. bigger.rows[i][j] \in SUBSET AllBits
    BY <1>7
  <2>2. CASE i = top
    <3>1. resetBits \in SUBSET AllBits
      <4>1. \A b \in 0..(count - 1) : b \in AllBits
        BY <1>10, WidthFacts DEF AllBits
      <4>2. QED
        BY <1>10, <4>1
    <3>2. QED
      BY <2>1, <2>2, <3>1 DEF new
  <2>3. CASE i # top
    <3>1. j < length(i) => j \in 0..LastBlock(n, i)
      BY <1>6, <2>3
    <3>2. j < length(i) => p.rows[i][j] \in SUBSET AllBits
      BY <1>6, <1>8, <2>3, <3>1
    <3>3. QED
      BY <2>1, <2>3, <3>2 DEF new
  <2>4. QED
    BY <2>2, <2>3
<1>12. /\ IsPyr(q) /\ q.rows = rows /\ q.indexCountLog2 = n + 1 /\ q.height = top + 1
       /\ q.stateInit = p.stateInit
  <2>1. bigger.height = top + 1
    BY <1>5, PyrFacts DEF top
  <2>2. QED
    BY <1>3, <1>4, <1>5, <2>1, SetRows DEF IsPyr
<1>13. (q.height - 1) = top
  BY <1>5, <1>12
<1>14. HasRows(q)
  BY <1>9, <1>11, <1>12, <1>13 DEF HasRows
<1>15. ASSUME NEW i \in 0..top, NEW j \in 0..LastBlock(n + 1, i)
       PROVE  q.rows[i][j] = new(i, j)
  BY <1>9, <1>12
<1>16. \A i \in 0..top : DOMAIN q.rows[i] = 0..LastBlock(n + 1, i)
  BY <1>9, <1>12
(* The old blocks of a row, and the new ones behind them. *)
<1>17. ASSUME NEW i \in 0..top, i # top, NEW j \in 0..LastBlock(n + 1, i)
       PROVE  q.rows[i][j] = IF j < length(i) THEN p.rows[i][j] ELSE bigger.rows[i][j]
  BY <1>15, <1>17 DEF new
<1>18. ASSUME NEW i \in 1..top, i # top, NEW j \in 0..LastBlock(n + 1, i)
       PROVE  q.rows[i][j] = Occupied(q, i - 1, j)
  <2>1. /\ i \in 0..top /\ i - 1 \in 0..top /\ i - 1 # top /\ i # 0 /\ i \in 1..top
    BY <1>5
  <2>2. /\ i \in 1..(h - 1) /\ i \in 0..(h - 1) /\ i - 1 \in 0..(h - 1)
        /\ length(i) \in Nat /\ length(i - 1) \in Nat
        /\ LastBlock(n, i) = length(i) - 1 /\ LastBlock(n, i - 1) = length(i - 1) - 1
        /\ LastBlock(n + 1, i - 1) = 2 * length(i - 1) - 1
        /\ length(i - 1) = length(i) * BlockBits
    BY <1>6, <1>18, <2>1
  <2>3. /\ DOMAIN p.rows[i - 1] = 0..(length(i - 1) - 1)
        /\ DOMAIN p.rows[i] = 0..(length(i) - 1)
        /\ DOMAIN q.rows[i - 1] = 0..(2 * length(i - 1) - 1)
        /\ DOMAIN bigger.rows[i - 1] = 0..(2 * length(i - 1) - 1)
        /\ DOMAIN bigger.rows[i] = 0..LastBlock(n + 1, i)
    BY <1>7, <1>8, <1>16, <2>1, <2>2
  <2>4. ASSUME NEW b \in AllBits
        PROVE  /\ j * BlockBits + b \in Nat
               /\ j * BlockBits + b < length(i - 1) <=> j < length(i)
    BY <2>2, PlaceInside
  <2>5. CASE j < length(i)
    <3>1. q.rows[i][j] = Occupied(p, i - 1, j)
      <4>1. j \in DOMAIN p.rows[i]
        BY <2>2, <2>3, <2>5
      <4>2. p.rows[i][j] = Occupied(p, i - 1, j)
        BY <1>1, <2>2, <4>1 DEF Summarised, h
      <4>3. QED
        BY <1>17, <1>18, <2>1, <2>5, <4>2
    <3>2. ASSUME NEW b \in AllBits
          PROVE  /\ j * BlockBits + b \in DOMAIN p.rows[i - 1]
                 /\ j * BlockBits + b \in DOMAIN q.rows[i - 1]
                 /\ q.rows[i - 1][j * BlockBits + b] = p.rows[i - 1][j * BlockBits + b]
      <4> DEFINE k == j * BlockBits + b
      <4>1. k \in Nat /\ k < length(i - 1)
        BY <2>4, <2>5
      <4> HIDE DEF k
      <4>2. k \in 0..(length(i - 1) - 1) /\ k \in 0..(2 * length(i - 1) - 1)
        BY <2>2, <4>1
      <4>3. q.rows[i - 1][k] = p.rows[i - 1][k]
        BY <1>17, <2>1, <2>2, <4>1, <4>2
      <4>4. QED
        BY <2>3, <4>2, <4>3 DEF k
    <3>3. QED
      BY <3>1, <3>2 DEF Occupied
  <2>6. CASE ~(j < length(i))
    <3>1. q.rows[i][j] = Occupied(bigger, i - 1, j)
      <4>1. bigger.rows[i][j] = Occupied(bigger, i - 1, j)
        BY <1>5, <2>1, <2>3 DEF Summarised, top
      <4>2. QED
        BY <1>17, <1>18, <2>1, <2>6, <4>1
    <3>2. ASSUME NEW b \in AllBits, j * BlockBits + b \in DOMAIN q.rows[i - 1]
          PROVE  q.rows[i - 1][j * BlockBits + b] = bigger.rows[i - 1][j * BlockBits + b]
      <4> DEFINE k == j * BlockBits + b
      <4>1. ~(k < length(i - 1)) /\ k \in DOMAIN q.rows[i - 1]
        BY <2>4, <2>6, <3>2
      <4> HIDE DEF k
      <4>2. q.rows[i - 1][k] = bigger.rows[i - 1][k]
        BY <1>16, <1>17, <2>1, <4>1
      <4>3. QED
        BY <4>2 DEF k
    <3>3. DOMAIN q.rows[i - 1] = DOMAIN bigger.rows[i - 1]
      BY <2>3
    <3>4. QED
      BY <3>1, <3>2, <3>3 DEF Occupied
  <2>7. QED
    BY <2>5, <2>6
<1>19. q.rows[top][0] = Occupied(q, top - 1, 0)
  <2> DEFINE length1 == LastBlock(n + 1, top - 1)
  <2>1. /\ DOMAIN q.rows[top - 1] = 0..length1
        /\ DOMAIN bigger.rows[top - 1] = 0..length1
        /\ length1 = 2 * count - 1
        /\ count \in Nat \ {0} /\ count < BlockBits /\ BlockBits \in Nat
    BY <1>6, <1>7, <1>10, <1>16, WidthFacts
  <2>2. q.rows[top][0] = (bigger.rows[top][0] \ resetMask) \cup resetBits
    <3>1. top \in 0..top /\ 0 \in 0..LastBlock(n + 1, top)
      BY <1>5
    <3>2. QED
      BY <1>15, <3>1 DEF new
  <2>3. bigger.rows[top][0] = Occupied(bigger, top - 1, 0)
    <3>1. top \in 1..top /\ 0 \in DOMAIN bigger.rows[top]
      BY <1>5, <1>7
    <3>2. QED
      BY <1>5, <3>1 DEF Summarised, top
  <2> HIDE DEF length1
  <2>4. \A b \in AllBits : b \in Nat /\ 0 * BlockBits + b = b
    BY <2>1 DEF AllBits
  <2>5. Occupied(bigger, top - 1, 0) =
          {b \in AllBits : b \in 0..length1 /\ bigger.rows[top - 1][b] # {}}
    BY <2>1, <2>4 DEF Occupied
  <2>6. Occupied(q, top - 1, 0) =
          {b \in AllBits : b \in 0..length1 /\ q.rows[top - 1][b] # {}}
    BY <2>1, <2>4 DEF Occupied
  <2>7. \A b \in 0..length1 : q.rows[top - 1][b] =
          IF b < count THEN p.rows[top - 1][b] ELSE bigger.rows[top - 1][b]
    BY <1>10, <1>17 DEF length1
  <2>8. \A b \in AllBits : /\ b \in 0..(count - 1) <=> b < count
                           /\ b < count => b \in 0..length1
    BY <2>1, <2>4
  <2>9. \A b \in 0..(count - 1) : b \in AllBits
    BY <2>1 DEF AllBits
  <2>10. ASSUME NEW b \in AllBits
         PROVE  b \in q.rows[top][0] <=> b \in Occupied(q, top - 1, 0)
    <3>1. CASE b < count
      BY <1>10, <2>2, <2>6, <2>7, <2>8, <3>1
    <3>2. CASE ~(b < count)
      BY <1>10, <2>2, <2>3, <2>5, <2>6, <2>7, <2>8, <3>2
    <3>3. QED
      BY <3>1, <3>2
  <2>11. q.rows[top][0] \in SUBSET AllBits
    <3>1. top \in 0..top /\ 0 \in 0..LastBlock(n + 1, top)
      BY <1>5
    <3>2. QED
      BY <1>11, <1>15, <3>1
  <2>12. QED
    BY <2>6, <2>10, <2>11
<1>20. Summarised(q)
  <2> SUFFICES ASSUME NEW i \in 1..top, NEW j \in DOMAIN q.rows[i]
               PROVE  q.rows[i][j] = Occupied(q, i - 1, j)
    BY <1>13 DEF Summarised
  <2>1. i \in 0..top
    BY <1>5
  <2>2. j \in 0..LastBlock(n + 1, i)
    BY <1>16, <2>1
  <2>3. CASE i = top
    <3>1. j = 0
      BY <1>5, <2>2, <2>3
    <3>2. QED
      BY <1>19, <2>3, <3>1
  <2>4. CASE i # top
    BY <1>18, <2>2, <2>4
  <2>5. QED
    BY <2>3, <2>4
<1>21. /\ Shl1[n + 1] = 2 * Shl1[n]
       /\ IndicesOf(q) = 0..(2 * Shl1[n] - 1)
  BY <1>1, <1>12, Shl1Facts DEF IndicesOf
<1>22. ASSUME NEW x \in IndicesOf(q)
       PROVE  Get(q, x) <=> IF x < Shl1[n] THEN Get(p, x) ELSE p.stateInit
  <2>1. x \in Nat /\ 0 \in 0..top /\ 0 # top
    BY <1>1, <1>5, <1>21
  <2>2. BlockIndex(0, x) \in 0..LastBlock(n + 1, 0) /\ Bit(0, x) \in AllBits
    <3>1. 0 \in 0..(q.height - 1) /\ 0 \in Nat
      BY <1>13, <2>1
    <3>2. BlockIndex(0, x) \in 0..LastBlock(n + 1, 0)
      BY <1>12, <3>1, PathFacts
    <3>3. QED
      BY <2>1, <3>1, <3>2, ShiftedFacts
  <2>3. q.rows[0][BlockIndex(0, x)] =
          IF BlockIndex(0, x) < length(0) THEN p.rows[0][BlockIndex(0, x)]
          ELSE bigger.rows[0][BlockIndex(0, x)]
    BY <1>17, <2>1, <2>2
  <2>4. length(0) \in Nat /\ LastBlock(n, 0) = length(0) - 1 /\ 0 \in 0..(h - 1)
    BY <1>6, <2>1
  <2>5. CASE x < Shl1[n]
    <3>1. x \in IndicesOf(p)
      BY <1>1, <2>1, <2>5
    <3>2. BlockIndex(0, x) \in 0..LastBlock(n, 0)
      BY <1>1, <2>4, <3>1, PathFacts DEF n, h
    <3>3. BlockIndex(0, x) < length(0)
      BY <2>4, <3>2
    <3>4. QED
      BY <2>3, <2>5, <3>3 DEF Get
  <2>6. CASE ~(x < Shl1[n])
    <3>1. length(0) = Shifted(1, Shl1[n])
      BY DEF length, RowLength, Shifted
    <3>2. BlockIndex(0, x) = Shifted(1, x)
      BY DEF BlockIndex, Shifted
    <3>3. Shifted(1, Shl1[n]) <= Shifted(1, x)
      BY <1>1, <2>1, <2>6, ShiftedGrows
    <3>4. BlockIndex(0, x) \in Nat
      BY <2>1, ShiftedFacts
    <3>5. ~(BlockIndex(0, x) < length(0))
      BY <2>4, <3>1, <3>2, <3>3, <3>4
    <3>6. bigger.rows[0][BlockIndex(0, x)] = fill
      BY <1>4, <2>1, <2>2
    <3>7. QED
      BY <2>2, <2>3, <2>6, <3>5, <3>6 DEF Get, fill
  <2>7. QED
    BY <2>5, <2>6
<1>23. MembersOf(q) = MembersOf(p) \cup
         IF p.stateInit THEN Shl1[n]..(2 * Shl1[n] - 1) ELSE {}
  <2>1. ASSUME NEW x
        PROVE  x \in IndicesOf(q) <=> x \in IndicesOf(p) \/ x \in Shl1[n]..(2 * Shl1[n] - 1)
    BY <1>1, <1>21
  <2>2. /\ \A x \in IndicesOf(p) : x < Shl1[n]
        /\ \A x \in Shl1[n]..(2 * Shl1[n] - 1) : ~(x < Shl1[n])
    BY <1>1
  <2>3. QED
    BY <1>22, <2>1, <2>2 DEF MembersOf
<1>24. QED
  BY <1>12, <1>14, <1>20, <1>23 DEF IsUsable, q, n

-----------------------------------------------------------------------------
(***************************************************************************)
(* The inductive invariant.  Sized and Fits hold of a destroyed pyramid    *)
(* too: idxpyr_destroy leaves all but the rows as they were.  RowsSummarise*)
(* needs HasRows to be inductive, for the blocks that set writes, and      *)
(* Sized for increaseSize, which takes the shape of the new top from the   *)
(* height and the number of indices.                                       *)
(***************************************************************************)
IInv ==
  /\ live \in BOOLEAN
  /\ IsPyr(pyr)
  /\ live => HasRows(pyr) /\ Summarised(pyr)

(* The abstract state while there is a pyramid, and while there is none. *)
LEMMA MappedFacts ==
  /\ Members = MembersOf(pyr) /\ Members' = MembersOf(pyr')
  /\ Indices = IndicesOf(pyr) /\ Indices' = IndicesOf(pyr')
BY DEF Members, Indices, MembersOf, IndicesOf

LEMMA TypeCorrectFacts == IInv => TypeOK
<1> SUFFICES ASSUME IInv PROVE TypeOK
  OBVIOUS
<1> DEFINE n == pyr.indexCountLog2
           h == pyr.height
<1>1. /\ live \in BOOLEAN /\ pyr.stateInit \in BOOLEAN /\ n \in BlockLog2..MaxLog2
      /\ h \in Nat \ {0} /\ n \in Nat /\ BlockLog2 <= n /\ h = GetHeight(n)
  BY PyrFacts DEF IInv, IsPyr, Sized
<1>2. (h - 1) * BlockLog2 < n /\ n <= h * BlockLog2
  BY <1>1, HeightFacts
<1>3. (h - 1) * BlockLog2 \in Nat /\ h * BlockLog2 \in Nat
  BY <1>1, WidthFacts
<1>4. Shl1[(h - 1) * BlockLog2] < Shl1[n]
  <2>1. /\ 2 * Shl1[(h - 1) * BlockLog2] <= Shl1[n]
        /\ Shl1[(h - 1) * BlockLog2] \in Nat \ {0}
        /\ Shl1[n] \in Nat
    BY <1>1, <1>2, <1>3, Shl1Facts, Shl1Grows
  <2>2. QED
    BY <2>1
<1>5. Shl1[n] <= Shl1[h * BlockLog2]
  <2> DEFINE k == h * BlockLog2
  <2>1. k \in Nat /\ n <= k /\ Shl1[n] \in Nat /\ Shl1[k] \in Nat
    BY <1>1, <1>2, <1>3, Shl1Facts
  <2> HIDE DEF k, n
  <2>2. n < k => 2 * Shl1[n] <= Shl1[k]
    BY <1>1, <2>1, Shl1Grows
  <2>3. Shl1[n] <= Shl1[k]
    BY <1>1, <2>1, <2>2
  <2>4. QED
    BY <2>3 DEF k
<1>6. ASSUME live
      PROVE  /\ DOMAIN pyr.rows = 0..(h - 1)
             /\ \A i \in DOMAIN pyr.rows :
                  pyr.rows[i] \in [{BlockIndex(i, index) : index \in Indices} -> SUBSET AllBits]
  <2>1. /\ DOMAIN pyr.rows = 0..(h - 1)
        /\ \A i \in 0..(h - 1) : pyr.rows[i] \in [0..LastBlock(n, i) -> SUBSET AllBits]
    BY <1>6 DEF IInv, HasRows
  <2>2. ASSUME NEW i \in 0..(h - 1)
        PROVE  {BlockIndex(i, index) : index \in Indices} = 0..LastBlock(n, i)
    <3>1. i \in Nat /\ Indices = 0..(Shl1[n] - 1)
      BY <1>1 DEF Indices
    <3> HIDE DEF n
    <3>2. {BlockIndex(i, index) : index \in 0..(Shl1[n] - 1)} = 0..LastBlock(n, i)
      BY <1>1, <3>1, RowDomain
    <3>3. QED
      BY <3>1, <3>2
  <2>3. QED
    BY <2>1, <2>2
<1>7. QED
  BY <1>1, <1>4, <1>5, <1>6 DEF TypeOK

-----------------------------------------------------------------------------
(* Each call of the API keeps the invariant and is a step of IndexSet, or  *)
(* changes nothing there: popFirst of an empty pyramid.                    *)
LEMMA MakeStep ==
  ASSUME IInv, NEW n \in MakeSizes, NEW state \in BOOLEAN, MakePyr(n, state)
  PROVE  IInv' /\ \E size \in {Shl1[k] : k \in BlockLog2..MaxLog2} : Abstract!Make(size, state)
<1>1. n \in 0..MaxLog2 /\ ~live /\ live' = TRUE /\ pyr' = Make(n, state)
  BY IdxpyrAssumption DEF MakePyr
<1> DEFINE k == pyr'.indexCountLog2
<1>2. /\ IsUsable(pyr') /\ pyr'.stateInit = state
      /\ MembersOf(pyr') = IF state THEN IndicesOf(pyr') ELSE {}
  BY <1>1, MakeFacts
<1>3. IInv'
  BY <1>1, <1>2 DEF IInv, IsUsable
<1>4. k \in BlockLog2..MaxLog2
  BY <1>2 DEF IsUsable, IsPyr, Sized
<1>5. Abstract!Make(Shl1[k], state)
  <2>1. (IF live THEN Members ELSE {})' = IF state THEN 0..(Shl1[k] - 1) ELSE {}
    BY <1>1, <1>2, MappedFacts DEF IndicesOf
  <2>2. (IF live THEN Shl1[pyr.indexCountLog2] ELSE 0)' = Shl1[k]
    BY <1>1
  <2>3. (live /\ pyr.stateInit)' = state
    BY <1>1, <1>2
  <2>4. QED
    BY <1>1, <2>1, <2>2, <2>3 DEF Abstract!Make, Abstract!Fresh
<1>6. QED
  BY <1>3, <1>4, <1>5

LEMMA SetStep ==
  ASSUME IInv, NEW index \in Touched, NEW state \in BOOLEAN, SetIndex(index, state)
  PROVE  IInv' /\ Abstract!Set(index, state)
<1>1. /\ live /\ live' = live /\ pyr' = Set(pyr, index, state)
      /\ index \in Nat /\ index < Shl1[pyr.indexCountLog2] /\ IsUsable(pyr)
  BY IdxpyrAssumption DEF SetIndex, IInv, IsUsable
<1>2. Shl1[pyr.indexCountLog2] \in Nat
  BY <1>1, PyrFacts DEF IsUsable
<1>3. index \in IndicesOf(pyr)
  BY <1>1, <1>2 DEF IndicesOf
<1>4. /\ IsUsable(pyr')
      /\ pyr'.indexCountLog2 = pyr.indexCountLog2 /\ pyr'.stateInit = pyr.stateInit
      /\ MembersOf(pyr') = IF state THEN MembersOf(pyr) \cup {index}
                           ELSE MembersOf(pyr) \ {index}
  BY <1>1, <1>3, SetFacts
<1>5. IInv'
  BY <1>1, <1>4 DEF IInv, IsUsable
<1>6. Abstract!Set(index, state)
  BY <1>1, <1>3, <1>4, MappedFacts DEF Abstract!Set, IndicesOf
<1>7. QED
  BY <1>5, <1>6

LEMMA SetAllStep ==
  ASSUME IInv, NEW state \in BOOLEAN, SetAllTo(state)
  PROVE  IInv' /\ Abstract!SetAll(state)
<1>1. live /\ live' = live /\ pyr' = SetAll(pyr, state) /\ IsPyr(pyr) /\ HasRows(pyr)
  BY DEF SetAllTo, IInv
<1>2. /\ IsUsable(pyr')
      /\ pyr'.indexCountLog2 = pyr.indexCountLog2 /\ pyr'.stateInit = pyr.stateInit
      /\ MembersOf(pyr') = IF state THEN IndicesOf(pyr) ELSE {}
  BY <1>1, SetAllFacts
<1>3. IInv'
  BY <1>1, <1>2 DEF IInv, IsUsable
<1>4. Abstract!SetAll(state)
  BY <1>1, <1>2, MappedFacts DEF Abstract!SetAll, Abstract!Fresh, IndicesOf
<1>5. QED
  BY <1>3, <1>4

LEMMA PopFirstStep ==
  ASSUME IInv, PopFirstIndex
  PROVE  IInv' /\ (Abstract!PopFirst \/ UNCHANGED vars)
<1>1. live /\ live' = live /\ pyr' = PopFirst(pyr) /\ IsUsable(pyr)
  BY DEF PopFirstIndex, IInv, IsUsable
<1>2. /\ IsUsable(pyr')
      /\ pyr'.indexCountLog2 = pyr.indexCountLog2 /\ pyr'.stateInit = pyr.stateInit
      /\ IF MembersOf(pyr) = {} THEN pyr' = pyr
         ELSE \E first \in MembersOf(pyr) :
                /\ \A other \in MembersOf(pyr) : first <= other
                /\ MembersOf(pyr') = MembersOf(pyr) \ {first}
  BY <1>1, PopFacts
<1>3. IInv'
  BY <1>1, <1>2 DEF IInv, IsUsable
<1>4. CASE MembersOf(pyr) = {}
  BY <1>1, <1>2, <1>3, <1>4 DEF vars
<1>5. CASE MembersOf(pyr) # {}
  <2>1. Abstract!PopFirst
    BY <1>1, <1>2, <1>5, MappedFacts DEF Abstract!PopFirst
  <2>2. QED
    BY <1>3, <2>1
<1>6. QED
  BY <1>4, <1>5

LEMMA IncreaseStep ==
  ASSUME IInv, IncreaseSizePyr
  PROVE  IInv' /\ Abstract!IncreaseSize
<1> DEFINE n == pyr.indexCountLog2
<1>1. live /\ live' = live /\ pyr' = IncreaseSize(pyr) /\ IsUsable(pyr) /\ n < MaxLog2
  BY DEF IncreaseSizePyr, IInv, IsUsable
<1>2. /\ IsUsable(pyr')
      /\ pyr'.indexCountLog2 = n + 1 /\ pyr'.stateInit = pyr.stateInit
      /\ MembersOf(pyr') = MembersOf(pyr) \cup
           IF pyr.stateInit THEN Shl1[n]..(2 * Shl1[n] - 1) ELSE {}
  BY <1>1, IncreaseFacts
<1>3. IInv'
  BY <1>1, <1>2 DEF IInv, IsUsable
<1>4. Shl1[n + 1] = 2 * Shl1[n]
  BY <1>1, PyrFacts, Shl1Facts DEF IsUsable
<1>5. Abstract!IncreaseSize
  BY <1>1, <1>2, <1>4, MappedFacts DEF Abstract!IncreaseSize, Abstract!Fresh
<1>6. QED
  BY <1>3, <1>5

LEMMA DestroyStep ==
  ASSUME IInv, DestroyPyr
  PROVE  IInv' /\ Abstract!Destroy
<1>1. live /\ live' = FALSE /\ pyr' = [pyr EXCEPT !.rows = NoRows] /\ IsPyr(pyr)
  BY DEF DestroyPyr, IInv
<1>2. IsPyr(pyr')
  BY <1>1, SetRows DEF IsPyr
<1>3. IInv'
  BY <1>1, <1>2 DEF IInv
<1>4. Abstract!Destroy
  BY <1>1 DEF Abstract!Destroy
<1>5. QED
  BY <1>3, <1>4

LEMMA InitStep ==
  ASSUME Init
  PROVE  IInv /\ Abstract!Init
<1> DEFINE p == Make(0, FALSE)
<1>1. pyr = [p EXCEPT !.rows = NoRows] /\ live = FALSE
  BY DEF Init
<1>2. IsPyr(p)
  <2>1. 0 \in 0..MaxLog2 /\ FALSE \in BOOLEAN
    BY WidthFacts
  <2>2. QED
    BY <2>1, MakeFacts DEF IsUsable
<1> HIDE DEF p
<1>3. IsPyr(pyr)
  BY <1>1, <1>2, SetRows DEF IsPyr
<1>4. QED
  BY <1>1, <1>3 DEF IInv, Abstract!Init

LEMMA NextStep ==
  ASSUME IInv, [Next]_vars
  PROVE  IInv' /\ [Abstract!Next]_Abstract!vars
<1>1. ASSUME NEW n \in MakeSizes, NEW state \in BOOLEAN, MakePyr(n, state)
      PROVE  IInv' /\ Abstract!Next
  BY <1>1, MakeStep DEF Abstract!Next
<1>2. ASSUME NEW index \in Touched, NEW state \in BOOLEAN, SetIndex(index, state)
      PROVE  IInv' /\ Abstract!Next
  BY <1>2, SetStep DEF Abstract!Next
<1>3. ASSUME NEW state \in BOOLEAN, SetAllTo(state)
      PROVE  IInv' /\ Abstract!Next
  BY <1>3, SetAllStep DEF Abstract!Next
<1>4. CASE IncreaseSizePyr
  BY <1>4, IncreaseStep DEF Abstract!Next
<1>5. CASE DestroyPyr
  BY <1>5, DestroyStep DEF Abstract!Next
<1>6. CASE UNCHANGED vars
  BY <1>6 DEF IInv, vars, Abstract!vars, Members, Indices
<1>7. CASE PopFirstIndex
  <2>1. CASE UNCHANGED vars
    BY <1>6, <2>1
  <2>2. CASE Abstract!PopFirst
    BY <1>7, <2>2, PopFirstStep DEF Abstract!Next
  <2>3. QED
    BY <1>7, <2>1, <2>2, PopFirstStep
<1>8. QED
  BY <1>1, <1>2, <1>3, <1>4, <1>5, <1>6, <1>7 DEF Next

LEMMA Invariance == Spec => []IInv
<1>1. Init => IInv
  BY InitStep
<1>2. IInv /\ [Next]_vars => IInv'
  BY NextStep
<1>3. QED
  BY <1>1, <1>2, PTL DEF Spec

(***************************************************************************)
(* The height of a pyramid is the least that covers its indices, and its   *)
(* rows have exactly the blocks that an index belongs to, for every width  *)
(* of block and whatever calls were made before.                           *)
(***************************************************************************)
THEOREM TypeCorrect == Spec => []TypeOK
BY Invariance, TypeCorrectFacts, PTL

(***************************************************************************)
(* The rows idxpyr_make lays out in one allocation never overlap, and the  *)
(* last block of the top row is the last of the allocation.                *)
(***************************************************************************)
THEOREM RowsFitStorage == Spec => []RowsFit
<1>1. IInv => RowsFit
  BY DEF IInv, IsPyr, Fits, RowsFit, LastBlock
<1>2. QED
  BY Invariance, <1>1, PTL

(***************************************************************************)
(* Every bit above row 0 tells the truth about the block below it, after   *)
(* any calls of set, setAll, popFirst and increaseSize.                    *)
(***************************************************************************)
THEOREM SummaryCorrect == Spec => []RowsSummarise
<1>1. IInv => RowsSummarise
  BY DEF IInv, Summarised, Occupied, RowsSummarise
<1>2. QED
  BY Invariance, <1>1, PTL

(***************************************************************************)
(* idxpyr_getFirst, which reads one block per row, returns the least of    *)
(* all the indices whose state is true.                                    *)
(***************************************************************************)
THEOREM FirstCorrect == Spec => []FirstIsLeast
<1>1. IInv => FirstIsLeast
  BY FirstFacts, MappedFacts DEF IInv, IsUsable, FirstIsLeast
<1>2. QED
  BY Invariance, <1>1, PTL

(***************************************************************************)
(* The pyramid implements IndexSet: set, setAll and popFirst do to the set *)
(* of indices what their names say, and increaseSize keeps the old ones.   *)
(***************************************************************************)
THEOREM ImplementsIndexSet == Spec => IndexSetSpec
<1>1. Init => Abstract!Init
  BY InitStep
<1>2. IInv /\ [Next]_vars => [Abstract!Next]_Abstract!vars
  BY NextStep
<1>3. QED
  BY Invariance, <1>1, <1>2, PTL DEF Spec, IndexSetSpec, Abstract!Spec
=============================================================================
