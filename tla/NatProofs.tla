----------------------------- MODULE NatProofs -----------------------------
(***************************************************************************)
(* Facts about the naturals that the proofs of several modules need:       *)
(* induction in forms that take sets and functions, where the library's    *)
(* take operators, division, and powers of two.                            *)
(***************************************************************************)
EXTENDS Powers, WellFoundedInduction, TLAPS

LessThan == {p \in Nat \X Nat : p[1] < p[2]}

(* Every non-empty set of naturals has a least element. *)
LEMMA LeastElement ==
  ASSUME NEW S \in SUBSET Nat, S # {}
  PROVE  \E n \in S : \A m \in S : n <= m
<1>1. IsWellFoundedOn(LessThan, Nat)
  <2>1. OpToRel(<, Nat) = LessThan
    BY DEF OpToRel, LessThan
  <2>2. QED
    BY <2>1, NatLessThanWellFounded
<1>2. PICK n \in S : \A m \in S : <<m, n>> \notin LessThan
  BY <1>1, WFMin
<1>3. \A m \in S : ~(m < n)
  BY <1>2 DEF LessThan
<1>4. QED
  BY <1>3

(* A set that holds 0 and the successor of each of its numbers holds all. *)
LEMMA SetInduction ==
  ASSUME NEW S, 0 \in S, \A n \in Nat : n \in S => n + 1 \in S
  PROVE  \A n \in Nat : n \in S
<1> DEFINE Bad == {n \in Nat : n \notin S}
<1> SUFFICES ASSUME Bad # {} PROVE FALSE
  OBVIOUS
<1>1. PICK n \in Bad : \A m \in Bad : n <= m
  BY LeastElement
<1>2. n - 1 \in Nat /\ n - 1 \notin Bad
  BY <1>1
<1>3. QED
  BY <1>2

-----------------------------------------------------------------------------
(* The functions that start and step as told, up to n. *)
Runs(S, start, step, n) ==
  {f \in [0..n -> S] : f[0] = start /\ \A k \in 0..(n - 1) : f[k + 1] = step[k][f[k]]}

LEMMA RunExists ==
  ASSUME NEW S, NEW start \in S, NEW step \in [Nat -> [S -> S]]
  PROVE  \A n \in Nat : Runs(S, start, step, n) # {}
<1> DEFINE Good == {n \in Nat : Runs(S, start, step, n) # {}}
<1>1. 0 \in Good
  <2>1. [i \in 0..0 |-> start] \in Runs(S, start, step, 0)
    BY DEF Runs
  <2>2. QED
    BY <2>1
<1>2. ASSUME NEW n \in Nat, n \in Good
      PROVE  n + 1 \in Good
  <2>1. PICK f : f \in Runs(S, start, step, n)
    BY <1>2
  <2> DEFINE g == [i \in 0..(n + 1) |-> IF i = n + 1 THEN step[n][f[n]] ELSE f[i]]
  <2>2. f \in [0..n -> S] /\ f[n] \in S /\ step[n][f[n]] \in S
    BY <2>1 DEF Runs
  <2>3. g \in [0..(n + 1) -> S]
    BY <2>2
  <2>4. ASSUME NEW k \in 0..n
        PROVE  g[k + 1] = step[k][g[k]]
    <3>1. g[k] = f[k]
      OBVIOUS
    <3>2. CASE k = n
      <4>1. g[n + 1] = step[n][f[n]]
        OBVIOUS
      <4> HIDE DEF g
      <4>2. QED
        BY <3>1, <3>2, <4>1
    <3>3. CASE k # n
      <4>1. k \in 0..(n - 1)
        BY <3>3
      <4>2. f[k + 1] = step[k][f[k]]
        BY <2>1, <4>1 DEF Runs
      <4>3. k + 1 \in 0..(n + 1) /\ k + 1 # n + 1
        BY <4>1
      <4>4. g[k + 1] = f[k + 1]
        BY <4>3
      <4>5. QED
        BY <3>1, <4>2, <4>4
    <3>4. QED
      BY <3>2, <3>3
  <2>5. g \in Runs(S, start, step, n + 1)
    <3>1. g[0] = start /\ (n + 1) - 1 = n
      BY <2>1 DEF Runs
    <3> HIDE DEF g
    <3>2. QED
      BY <2>3, <2>4, <3>1 DEF Runs
  <2>6. QED
    BY <2>5
<1> HIDE DEF Good
<1>3. \A n \in Nat : n \in Good
  BY <1>1, <1>2, SetInduction
<1>4. QED
  BY <1>3 DEF Good

LEMMA RunsAgree ==
  ASSUME NEW S, NEW start \in S, NEW step \in [Nat -> [S -> S]],
         NEW n \in Nat, NEW f \in Runs(S, start, step, n),
         NEW g \in Runs(S, start, step, n + 1)
  PROVE  f[n] = g[n]
<1> DEFINE Good == {k \in Nat : k <= n => f[k] = g[k]}
<1>1. 0 \in Good
  BY DEF Runs
<1>2. ASSUME NEW k \in Nat, k \in Good
      PROVE  k + 1 \in Good
  <2>1. CASE k + 1 <= n
    <3>1. k \in 0..(n - 1) /\ k \in 0..((n + 1) - 1) /\ f[k] = g[k]
      BY <1>2, <2>1
    <3>2. f[k + 1] = step[k][f[k]] /\ g[k + 1] = step[k][g[k]]
      BY <3>1 DEF Runs
    <3>3. QED
      BY <3>1, <3>2
  <2>2. QED
    BY <2>1
<1> HIDE DEF Good
<1>3. n \in Good
  BY <1>1, <1>2, SetInduction
<1>4. QED
  BY <1>3 DEF Good

(* f is the function that a recursive definition on the naturals defines. *)
IsRecursion(f, S, start, step) ==
  /\ f \in [Nat -> S]
  /\ f[0] = start
  /\ \A k \in Nat : f[k + 1] = step[k][f[k]]

LEMMA RecursionExists ==
  ASSUME NEW S, NEW start \in S, NEW step \in [Nat -> [S -> S]]
  PROVE  \E f : IsRecursion(f, S, start, step)
<1> DEFINE run(n) == CHOOSE f \in Runs(S, start, step, n) : TRUE
           F == [n \in Nat |-> run(n)[n]]
<1>1. \A n \in Nat : run(n) \in Runs(S, start, step, n)
  BY RunExists
<1> HIDE DEF run
<1>2. F \in [Nat -> S] /\ F[0] = start
  BY <1>1 DEF Runs
<1>3. ASSUME NEW k \in Nat
      PROVE  F[k + 1] = step[k][F[k]]
  <2>1. run(k)[k] = run(k + 1)[k]
    BY <1>1, RunsAgree
  <2>2. run(k + 1)[k + 1] = step[k][run(k + 1)[k]]
    BY <1>1 DEF Runs
  <2>3. QED
    BY <2>1, <2>2
<1> HIDE DEF F
<1>4. IsRecursion(F, S, start, step)
  BY <1>2, <1>3 DEF IsRecursion
<1>5. QED
  BY <1>4

-----------------------------------------------------------------------------
(* The product of naturals grows with each factor. *)
LEMMA ProductGrows ==
  ASSUME NEW a \in Nat, NEW b \in Nat, NEW d \in Nat, a <= b
  PROVE  a * d \in Nat /\ a * d <= b * d
<1>1. (b - a) * d >= 0
  BY SMT
<1>2. QED
  BY <1>1

(* Quotient and remainder are the only numbers of their kind. *)
LEMMA QuotientUnique ==
  ASSUME NEW d \in Nat \ {0}, NEW q \in Nat, NEW r \in 0..(d - 1)
  PROVE  (q * d + r) \div d = q /\ (q * d + r) % d = r
OBVIOUS

LEMMA QuotientFacts ==
  ASSUME NEW x \in Nat, NEW d \in Nat \ {0}
  PROVE  /\ x \div d \in Nat /\ x % d \in 0..(d - 1)
         /\ x = (x \div d) * d + (x % d)
OBVIOUS

(* Dividing twice is dividing by the product. *)
LEMMA DivideTwice ==
  ASSUME NEW x \in Nat, NEW c \in Nat \ {0}, NEW d \in Nat \ {0}
  PROVE  x \div (c * d) = (x \div c) \div d
<1> DEFINE y == x \div c
           r == x % c
           q == y \div d
           s == y % d
<1>1. y \in Nat /\ r \in 0..(c - 1) /\ x = y * c + r
  BY QuotientFacts
<1> HIDE DEF y, r
<1>2. q \in Nat /\ s \in 0..(d - 1) /\ y = q * d + s
  BY <1>1, QuotientFacts
<1> HIDE DEF q, s
<1>3. x = q * (c * d) + (s * c + r)
  <2>1. x = (q * d + s) * c + r
    BY <1>1, <1>2
  <2>2. (q * d + s) * c = q * (c * d) + s * c
    BY <1>2
  <2>3. QED
    BY <1>1, <1>2, <2>1, <2>2
<1>4. s * c + r \in 0..(c * d - 1)
  <2>1. s * c \in Nat /\ s * c <= (d - 1) * c
    BY <1>2, ProductGrows
  <2>2. (d - 1) * c = c * d - c
    OBVIOUS
  <2>3. QED
    BY <1>1, <2>1, <2>2
<1>5. c * d \in Nat \ {0}
  OBVIOUS
<1>6. x \div (c * d) = q
  <2> DEFINE p == c * d
             t == s * c + r
  <2>1. p \in Nat \ {0} /\ t \in 0..(p - 1) /\ x = q * p + t
    BY <1>3, <1>4, <1>5
  <2> HIDE DEF p, t
  <2>2. x \div p = q
    BY <1>2, <2>1, QuotientUnique
  <2>3. QED
    BY <2>2 DEF p
<1>7. QED
  BY <1>6 DEF q, y

(* Division keeps the order. *)
LEMMA DivideGrows ==
  ASSUME NEW x \in Nat, NEW y \in Nat, NEW d \in Nat \ {0}, x <= y
  PROVE  x \div d <= y \div d
<1> DEFINE p == x \div d
           q == y \div d
<1>1. /\ p \in Nat /\ q \in Nat /\ x % d \in 0..(d - 1) /\ y % d \in 0..(d - 1)
      /\ x = p * d + (x % d) /\ y = q * d + (y % d)
  BY QuotientFacts
<1> HIDE DEF p, q
<1>2. ASSUME q < p
      PROVE  FALSE
  <2> q + 1 \in Nat /\ q + 1 <= p
    BY <1>1, <1>2
  <2>1. (q + 1) * d <= p * d
    BY <1>1, <1>2, ProductGrows
  <2>2. (q + 1) * d = q * d + d
    BY <1>1
  <2>3. QED
    BY <1>1, <2>1, <2>2
<1>3. QED
  BY <1>1, <1>2 DEF p, q

-----------------------------------------------------------------------------
(* Shl1 satisfies its recursive definition. *)
LEMMA Shl1Equation ==
  Shl1 = [k \in Nat |-> IF k = 0 THEN 1 ELSE 2 * Shl1[k - 1]]
<1> DEFINE step == [k \in Nat |-> [n \in Nat |-> 2 * n]]
<1>1. step \in [Nat -> [Nat -> Nat]] /\ 1 \in Nat
  OBVIOUS
<1>2. \A n \in Nat, k \in Nat : step[k][n] = 2 * n
  OBVIOUS
<1> HIDE DEF step
<1>3. PICK f : IsRecursion(f, Nat, 1, step)
  BY <1>1, RecursionExists
<1>4. \A k \in Nat : f[k] = IF k = 0 THEN 1 ELSE 2 * f[k - 1]
  <2> SUFFICES ASSUME NEW k \in Nat, k # 0 PROVE f[k] = 2 * f[k - 1]
    BY <1>3 DEF IsRecursion
  <2>1. k - 1 \in Nat /\ (k - 1) + 1 = k
    OBVIOUS
  <2>2. QED
    BY <1>2, <1>3, <2>1 DEF IsRecursion
<1>5. f = [k \in Nat |-> IF k = 0 THEN 1 ELSE 2 * f[k - 1]]
  BY <1>3, <1>4 DEF IsRecursion
<1>6. QED
  BY <1>5 DEF Shl1

(* The powers of two are positive, and each is twice the one before. *)
LEMMA Shl1Facts ==
  /\ Shl1[0] = 1
  /\ \A k \in Nat : Shl1[k] \in Nat \ {0} /\ Shl1[k + 1] = 2 * Shl1[k]
<1>1. \A k \in Nat : Shl1[k] = IF k = 0 THEN 1 ELSE 2 * Shl1[k - 1]
  BY Shl1Equation
<1>2. \A k \in Nat : Shl1[k + 1] = 2 * Shl1[k]
  BY <1>1
<1> DEFINE Positive == {k \in Nat : Shl1[k] \in Nat \ {0}}
<1>3. \A k \in Nat : k \in Positive
  <2>1. 0 \in Positive /\ \A k \in Nat : k \in Positive => k + 1 \in Positive
    BY <1>1, <1>2
  <2> HIDE DEF Positive
  <2>2. QED
    BY <2>1, SetInduction
<1>4. QED
  BY <1>1, <1>2, <1>3

(* Adding exponents multiplies the powers. *)
LEMMA Shl1Sum == \A a, b \in Nat : Shl1[a + b] = Shl1[a] * Shl1[b]
<1> SUFFICES ASSUME NEW a \in Nat
             PROVE  \A b \in Nat : Shl1[a + b] = Shl1[a] * Shl1[b]
  OBVIOUS
<1> DEFINE Good == {b \in Nat : Shl1[a + b] = Shl1[a] * Shl1[b]}
<1>1. 0 \in Good
  BY Shl1Facts
<1>2. ASSUME NEW b \in Nat, b \in Good
      PROVE  b + 1 \in Good
  <2>1. /\ Shl1[a] \in Nat /\ Shl1[b] \in Nat
        /\ Shl1[b + 1] = 2 * Shl1[b] /\ Shl1[(a + b) + 1] = 2 * Shl1[a + b]
    BY Shl1Facts
  <2>2. (a + b) + 1 = a + (b + 1)
    OBVIOUS
  <2>3. Shl1[a] * (2 * Shl1[b]) = 2 * (Shl1[a] * Shl1[b])
    BY <2>1
  <2>4. Shl1[a + (b + 1)] = Shl1[a] * Shl1[b + 1]
    BY <1>2, <2>1, <2>2, <2>3
  <2>5. QED
    BY <2>4
<1> HIDE DEF Good
<1>3. \A b \in Nat : b \in Good
  BY <1>1, <1>2, SetInduction
<1>4. QED
  BY <1>3 DEF Good

(* A larger exponent makes a larger power. *)
LEMMA Shl1Grows == \A a, b \in Nat : a < b => 2 * Shl1[a] <= Shl1[b]
<1> SUFFICES ASSUME NEW a \in Nat, NEW b \in Nat, a < b
             PROVE  2 * Shl1[a] <= Shl1[b]
  OBVIOUS
<1> DEFINE d == b - (a + 1)
<1>1. d \in Nat /\ b = (a + 1) + d
  OBVIOUS
<1> HIDE DEF d
<1>2. /\ Shl1[a] \in Nat \ {0} /\ Shl1[d] \in Nat \ {0}
      /\ Shl1[a + 1] = 2 * Shl1[a] /\ Shl1[b] = Shl1[a + 1] * Shl1[d]
  <2>1. a + 1 \in Nat
    OBVIOUS
  <2>2. Shl1[(a + 1) + d] = Shl1[a + 1] * Shl1[d]
    BY <1>1, <2>1, Shl1Sum
  <2>3. QED
    BY <1>1, <2>2, Shl1Facts
<1>3. 1 * Shl1[a + 1] <= Shl1[d] * Shl1[a + 1]
  <2>1. 1 \in Nat /\ Shl1[d] \in Nat /\ Shl1[a + 1] \in Nat /\ 1 <= Shl1[d]
    BY <1>2
  <2>2. QED
    BY <2>1, ProductGrows
<1>4. QED
  BY <1>2, <1>3

(* Numbers with the same remainder differ by a multiple of the divisor. *)
LEMMA SameRemainder ==
  ASSUME NEW x \in Nat, NEW y \in Nat, x <= y, NEW n \in Nat \ {0}, x % n = y % n
  PROVE  \E d \in Nat : y = x + n * d
<1> DEFINE p == x \div n
           q == y \div n
           r == x % n
<1>1. /\ p \in Nat /\ q \in Nat /\ r \in Nat
      /\ x = p * n + r /\ y = q * n + r
  <2>1. p \in Nat /\ r \in 0..(n - 1) /\ x = p * n + r
    BY QuotientFacts
  <2>2. q \in Nat /\ y = q * n + (y % n)
    BY QuotientFacts
  <2>3. y % n = r
    OBVIOUS
  <2> HIDE DEF p, q, r
  <2>4. QED
    BY <2>1, <2>2, <2>3
<1>2. p <= q
  BY DivideGrows
<1> HIDE DEF p, q, r
<1>3. q - p \in Nat /\ y = x + n * (q - p)
  BY <1>1, <1>2
<1>4. QED
  BY <1>3

(* A power of two that divides a product divides the factor beside an odd one. *)
LEMMA OddFactor ==
  \A m \in Nat : \A a, b, d \in Nat :
    a % 2 = 1 /\ a * b = Shl1[m] * d => \E e \in Nat : b = Shl1[m] * e
<1> DEFINE Good == {m \in Nat : \A a, b, d \in Nat :
                      a % 2 = 1 /\ a * b = Shl1[m] * d => \E e \in Nat : b = Shl1[m] * e}
<1>1. 0 \in Good
  <2>1. \A b \in Nat : b = Shl1[0] * b
    BY Shl1Facts
  <2>2. QED
    BY <2>1
<1>2. ASSUME NEW m \in Nat, m \in Good
      PROVE  m + 1 \in Good
  <2> SUFFICES ASSUME NEW a \in Nat, NEW b \in Nat, NEW d \in Nat,
                      a % 2 = 1, a * b = Shl1[m + 1] * d
               PROVE  \E e \in Nat : b = Shl1[m + 1] * e
    OBVIOUS
  <2> DEFINE p == Shl1[m]
             c == b \div 2
             q == a \div 2
  <2>1. p \in Nat /\ Shl1[m + 1] = 2 * p
    BY Shl1Facts
  <2>2. q \in Nat /\ a = 2 * q + 1 /\ c \in Nat /\ (b = 2 * c \/ b = 2 * c + 1)
    OBVIOUS
  <2> HIDE DEF p, c, q
  <2>3. b = 2 * c
    <3> SUFFICES ASSUME b = 2 * c + 1 PROVE FALSE
      BY <2>2
    <3> DEFINE x == q * b + c
               y == p * d
    <3>1. a * b = 2 * x + 1
      <4>1. a * b = 2 * (q * b) + b
        BY <2>2
      <4>2. q * b \in Nat
        BY <2>2
      <4>3. QED
        BY <2>2, <4>1, <4>2
    <3>2. a * b = 2 * y
      BY <2>1
    <3>3. x \in Nat /\ y \in Nat
      BY <2>1, <2>2
    <3> HIDE DEF x, y
    <3>4. QED
      BY <3>1, <3>2, <3>3
  <2>4. a * c = p * d
    <3> DEFINE x == a * c
               y == p * d
    <3>1. a * b = 2 * x /\ a * b = 2 * y /\ x \in Nat /\ y \in Nat
      BY <2>1, <2>2, <2>3
    <3> HIDE DEF x, y
    <3>2. x = y
      BY <3>1
    <3>3. QED
      BY <3>2 DEF x, y
  <2>5. PICK e \in Nat : c = p * e
    BY <1>2, <2>2, <2>4 DEF p
  <2>6. b = Shl1[m + 1] * e
    BY <2>1, <2>3, <2>5
  <2>7. QED
    BY <2>6
<1> HIDE DEF Good
<1>3. \A m \in Nat : m \in Good
  BY <1>1, <1>2, SetInduction
<1>4. QED
  BY <1>3 DEF Good
=============================================================================
