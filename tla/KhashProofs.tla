---------------------------- MODULE KhashProofs ----------------------------
(***************************************************************************)
(* Proofs about Khash: what the functions of khash.h do to a table, and    *)
(* that every table they make is one in which each element is found, the   *)
(* counts are right and a probe ends.                                      *)
(***************************************************************************)
EXTENDS KhashForeach, KhashSteps, NatProofs, FunctionTheorems, FiniteSetTheorems

-----------------------------------------------------------------------------
(* The steps of a probe add up: s(s+1)/2 is a whole number. *)
LEMMA Triangle ==
  ASSUME NEW s \in Nat
  PROVE  (s * (s + 1)) \div 2 \in Nat /\ 2 * ((s * (s + 1)) \div 2) = s * (s + 1)
<1> DEFINE q == s \div 2
<1>1. q \in Nat /\ (s = 2 * q \/ s = 2 * q + 1)
  OBVIOUS
<1> HIDE DEF q
<1>2. CASE s = 2 * q
  <2> DEFINE p == q * (s + 1)
  <2>1. p \in Nat
    BY <1>1
  <2>2. s * (s + 1) = 2 * p
    BY <1>1, <1>2
  <2> HIDE DEF p
  <2>3. QED
    BY <2>1, <2>2
<1>3. CASE s = 2 * q + 1
  <2> DEFINE p == s * (q + 1)
  <2>1. p \in Nat
    BY <1>1
  <2>2. s * (s + 1) = 2 * p
    <3>1. s + 1 = 2 * (q + 1)
      BY <1>1, <1>3
    <3>2. s * (2 * (q + 1)) = 2 * (s * (q + 1))
      BY <1>1
    <3>3. QED
      BY <3>1, <3>2
  <2> HIDE DEF p
  <2>3. QED
    BY <2>1, <2>2
<1>4. QED
  BY <1>1, <1>2, <1>3

(* A probe stays in the table. *)
LEMMA ProbeInRange ==
  ASSUME NEW key \in Key, NEW s \in Nat, NEW n \in Nat \ {0}
  PROVE  Probe(key, s, n) \in 0..(n - 1)
<1> DEFINE x == Hash[key] + (s * (s + 1)) \div 2
<1>1. x \in Nat
  BY KhashAssumption, Triangle
<1>2. Probe(key, s, n) = x % n
  BY DEF Probe
<1> HIDE DEF x
<1>3. QED
  BY <1>1, <1>2, QuotientFacts

(***************************************************************************)
(* The first n steps of a probe meet n different buckets, if n is a power  *)
(* of two: (s - r)(s + r + 1) is no multiple of 2n, as one factor is odd   *)
(* and both are below 2n.                                                  *)
(***************************************************************************)
LEMMA ProbeDiffers ==
  ASSUME NEW k \in Nat, NEW key \in Key,
         NEW r \in 0..(Shl1[k] - 1), NEW s \in 0..(Shl1[k] - 1), r < s
  PROVE  Probe(key, r, Shl1[k]) # Probe(key, s, Shl1[k])
<1> DEFINE n == Shl1[k]
           x == (r * (r + 1)) \div 2
           y == (s * (s + 1)) \div 2
           H == Hash[key]
           a == s - r
           b == s + r + 1
<1> SUFFICES ASSUME Probe(key, r, n) = Probe(key, s, n) PROVE FALSE
  OBVIOUS
<1>1. n \in Nat \ {0} /\ Shl1[k + 1] = 2 * n
  BY Shl1Facts
<1> HIDE DEF n
<1>2. r \in Nat /\ s \in Nat /\ r < n /\ s < n
  BY <1>1 DEF n
<1>3. a \in Nat /\ b \in Nat /\ a # 0 /\ a < 2 * n /\ b # 0 /\ b < 2 * n
  BY <1>1, <1>2
<1>4. H \in Nat
  BY KhashAssumption
<1>5. x \in Nat /\ y \in Nat /\ 2 * x = r * (r + 1) /\ 2 * y = s * (s + 1)
  BY <1>2, Triangle
<1>6. s * (s + 1) - r * (r + 1) = a * b
  BY <1>2
<1>7. (H + x) % n = (H + y) % n
  BY DEF Probe
<1> HIDE DEF H, x, y
<1>8. a * b \in Nat
  BY <1>3
<1>9. 2 * y - 2 * x = a * b
  BY <1>5, <1>6
<1>10. H + x \in Nat /\ H + y \in Nat /\ H + x <= H + y
  BY <1>4, <1>5, <1>8, <1>9
<1>11. PICK d \in Nat : H + y = (H + x) + n * d
  BY <1>1, <1>7, <1>10, SameRemainder
<1>12. a * b = Shl1[k + 1] * d
  <2>1. n * d \in Nat /\ (2 * n) * d = 2 * (n * d)
    BY <1>1
  <2>2. y - x = n * d
    BY <1>4, <1>5, <1>11, <2>1
  <2>3. a * b = 2 * (n * d)
    BY <1>5, <1>9, <2>1, <2>2
  <2>4. QED
    BY <1>1, <2>1, <2>3
<1>13. ASSUME NEW e \in Nat PROVE a # (2 * n) * e /\ b # (2 * n) * e
  <2>1. CASE e = 0
    BY <1>1, <1>3, <2>1
  <2>2. CASE e >= 1
    <3>1. (2 * n) * e >= 2 * n
      <4>1. 1 * (2 * n) <= e * (2 * n)
        BY <1>1, <2>2, ProductGrows
      <4>2. QED
        BY <1>1, <4>1
    <3>2. QED
      BY <1>1, <1>3, <3>1
  <2>3. QED
    BY <2>1, <2>2
<1> HIDE DEF a, b
<1>14. \A u, v, w \in Nat :
        u % 2 = 1 /\ u * v = Shl1[k + 1] * w => \E e \in Nat : v = Shl1[k + 1] * e
  <2>1. k + 1 \in Nat
    OBVIOUS
  <2>2. QED
    BY <2>1, OddFactor
<1>15. CASE a % 2 = 1
  <2>1. \E e \in Nat : b = Shl1[k + 1] * e
    BY <1>3, <1>12, <1>15, <1>14
  <2>2. QED
    BY <1>1, <1>13, <2>1
<1>16. CASE b % 2 = 1
  <2>1. b * a = Shl1[k + 1] * d
    BY <1>3, <1>12
  <2>2. \E e \in Nat : a = Shl1[k + 1] * e
    BY <1>3, <1>16, <1>14, <2>1
  <2>3. QED
    BY <1>1, <1>13, <2>2
<1>17. a % 2 = 1 \/ b % 2 = 1
  BY <1>2 DEF a, b
<1>18. QED
  BY <1>15, <1>16, <1>17

(* The first n steps of a probe meet every one of n buckets. *)
LEMMA ProbeCovers ==
  ASSUME NEW k \in Nat, NEW key \in Key, NEW b \in 0..(Shl1[k] - 1)
  PROVE  \E s \in 0..(Shl1[k] - 1) : Probe(key, s, Shl1[k]) = b
<1> DEFINE n == Shl1[k]
           S == 0..(n - 1)
           f == [s \in S |-> Probe(key, s, n)]
<1>1. n \in Nat \ {0}
  BY Shl1Facts
<1>2. \A s \in S : Probe(key, s, n) \in S
  <2> HIDE DEF n
  <2>1. QED
    BY <1>1, ProbeInRange
<1>3. \A r, s \in S : r # s => Probe(key, r, n) # Probe(key, s, n)
  <2> SUFFICES ASSUME NEW r \in S, NEW s \in S, r # s
               PROVE  Probe(key, r, n) # Probe(key, s, n)
    OBVIOUS
  <2>1. CASE r < s
    BY <2>1, ProbeDiffers
  <2>2. CASE s < r
    BY <2>2, ProbeDiffers
  <2>3. r < s \/ s < r
    BY <1>1
  <2>4. QED
    BY <2>1, <2>2, <2>3
<1>4. f \in Injection(S, S)
  <2> HIDE DEF n, S
  <2>1. f \in [S -> S] /\ DOMAIN f = S
    BY <1>2
  <2>2. \A r, s \in S : f[r] = f[s] => r = s
    BY <1>3
  <2> HIDE DEF f
  <2>3. QED
    BY <2>1, <2>2 DEF Injection, IsInjective
<1>5. IsFiniteSet(S)
  <2>1. 0 \in Int /\ n - 1 \in Int
    BY <1>1
  <2> HIDE DEF n
  <2>2. IsFiniteSet(0..(n - 1))
    BY <2>1, FS_Interval
  <2>3. QED
    BY <2>2
<1> HIDE DEF S, f
<1>6. f \in Surjection(S, S)
  BY <1>4, <1>5, FS_Injection
<1>7. b \in S
  BY DEF S
<1>8. \E s \in S : f[s] = b
  BY <1>6, <1>7 DEF Surjection
<1>9. QED
  BY <1>8 DEF S, f

(* LeastStep returns the least of the steps, when there is one. *)
LEMMA LeastStepFacts ==
  ASSUME NEW n \in Nat \ {0}, NEW stops, NEW m \in 0..(2 * n - 1), m \in stops
  PROVE  /\ LeastStep(n, stops) \in 0..m /\ LeastStep(n, stops) \in stops
         /\ \A r \in 0..(LeastStep(n, stops) - 1) : r \notin stops
<1> DEFINE last == 2 * n - 1
           Ends(s) == {t \in s..last : t \in stops \/ t = last}
           least(s) == CHOOSE t \in Ends(s) : \A u \in Ends(s) : t <= u
           From(f) == f = [s \in 0..last |-> IF s \in stops \/ s = last THEN s
                                             ELSE f[s + 1]]
           found == [s \in 0..last |-> least(s)]
           from == CHOOSE f : From(f)
<1>1. last \in Nat
  OBVIOUS
<1> HIDE DEF last
<1>2. ASSUME NEW s \in 0..last
      PROVE  least(s) \in Ends(s) /\ \A u \in Ends(s) : least(s) <= u
  <2>1. Ends(s) \in SUBSET Nat /\ last \in Ends(s)
    BY <1>1
  <2> HIDE DEF Ends
  <2>2. \E t \in Ends(s) : \A u \in Ends(s) : t <= u
    BY <2>1, LeastElement
  <2>3. QED
    BY <2>2
<1> HIDE DEF least
<1>3. ASSUME NEW s \in 0..last, s \in stops \/ s = last
      PROVE  least(s) = s
  <2>1. s \in Ends(s) /\ \A u \in Ends(s) : s <= u /\ u \in Nat
    BY <1>1, <1>3
  <2>2. QED
    BY <1>2, <2>1
<1>4. ASSUME NEW s \in 0..last, s \notin stops, s # last
      PROVE  s + 1 \in 0..last /\ least(s) = least(s + 1)
  <2>1. s + 1 \in 0..last /\ Ends(s) = Ends(s + 1)
    BY <1>1, <1>4
  <2>2. QED
    BY <2>1 DEF least
<1>5. From(found)
  <2>1. \A s \in 0..last : found[s] = IF s \in stops \/ s = last THEN s
                                      ELSE found[s + 1]
    BY <1>3, <1>4
  <2>2. QED
    BY <2>1
<1> HIDE DEF found
<1>6. From(from)
  BY <1>5
<1>7. LeastStep(n, stops) = from[0]
  BY DEF LeastStep, last
<1> HIDE DEF from
<1>8. \A s \in 0..last : from[s] = IF s \in stops \/ s = last THEN s ELSE from[s + 1]
  BY <1>6
<1> HIDE DEF From
<1> DEFINE w == least(0)
<1>9. m \in Ends(0) /\ 0 \in 0..last
  BY <1>1 DEF last
<1>10. w \in 0..last /\ w <= m /\ (w \in stops \/ w = last)
  BY <1>2, <1>9
<1>11. w \in stops
  BY <1>9, <1>10
<1>12. \A r \in 0..(w - 1) : r \notin stops /\ r # last /\ r \in 0..last
  <2> SUFFICES ASSUME NEW r \in 0..(w - 1), r \in stops \/ r = last PROVE FALSE
    BY <1>1, <1>10
  <2>1. r \in Ends(0)
    BY <1>1, <1>10
  <2>2. w <= r
    BY <1>2, <1>9, <2>1
  <2>3. QED
    BY <1>10, <2>2
<1> HIDE DEF w
<1> DEFINE Good == {d \in Nat : d <= w => from[w - d] = w}
<1>13. 0 \in Good
  BY <1>8, <1>10
<1>14. ASSUME NEW d \in Nat, d \in Good PROVE d + 1 \in Good
  <2> SUFFICES ASSUME d + 1 <= w PROVE from[w - (d + 1)] = w
    OBVIOUS
  <2> DEFINE s == w - (d + 1)
  <2>1. s \in 0..(w - 1) /\ s + 1 = w - d
    BY <1>10
  <2>2. from[w - d] = w
    BY <1>10, <1>14
  <2> HIDE DEF s
  <2>3. from[s] = from[s + 1]
    BY <1>8, <1>12, <2>1
  <2>4. QED
    BY <2>1, <2>2, <2>3 DEF s
<1> HIDE DEF Good
<1>15. w \in Nat /\ w \in Good
  BY <1>10, <1>13, <1>14, SetInduction
<1>16. from[w - w] = w
  BY <1>15 DEF Good
<1>17. from[0] = w
  BY <1>15, <1>16
<1>18. QED
  BY <1>7, <1>10, <1>11, <1>12, <1>17

-----------------------------------------------------------------------------
(* Sizes of tables. *)
LEMMA PowerExceeds == \A k \in Nat : k < Shl1[k]
<1> DEFINE Good == {k \in Nat : k < Shl1[k]}
<1>1. 0 \in Good
  BY Shl1Facts
<1>2. \A k \in Nat : k \in Good => k + 1 \in Good
  BY Shl1Facts
<1> HIDE DEF Good
<1>3. \A k \in Nat : k \in Good
  BY <1>1, <1>2, SetInduction
<1>4. QED
  BY <1>3 DEF Good

(* A power of two is cut to 0 by a width that it is not below. *)
LEMMA CutPower ==
  ASSUME NEW k \in Nat
  PROVE  Shl1[k] % Shl1[KhintBits] = IF k < KhintBits THEN Shl1[k] ELSE 0
<1>1. KhintBits \in Nat
  BY WidthAssumption
<1>2. Shl1[k] \in Nat /\ Shl1[KhintBits] \in Nat \ {0}
  BY <1>1, Shl1Facts
<1>3. CASE k < KhintBits
  <2>1. 2 * Shl1[k] <= Shl1[KhintBits]
    BY <1>1, <1>3, Shl1Grows
  <2>2. QED
    BY <1>2, <1>3, <2>1
<1>4. CASE ~(k < KhintBits)
  <2>1. k - KhintBits \in Nat /\ (k - KhintBits) + KhintBits = k
    BY <1>1, <1>4
  <2>2. Shl1[k] = Shl1[k - KhintBits] * Shl1[KhintBits] /\ Shl1[k - KhintBits] \in Nat
    BY <1>1, <2>1, Shl1Sum, Shl1Facts
  <2>3. Shl1[k] = Shl1[k - KhintBits] * Shl1[KhintBits] + 0 /\ 0 \in 0..(Shl1[KhintBits] - 1)
    BY <1>2, <2>2
  <2>4. Shl1[k] % Shl1[KhintBits] = 0
    BY <1>2, <2>2, <2>3, QuotientUnique
  <2>5. QED
    BY <1>4, <2>4
<1>5. QED
  BY <1>3, <1>4

(* kroundup32 returns the least power of two that holds its argument, or 0 *)
(* if that is too wide.                                                    *)
LEMMA RoundUpFacts ==
  ASSUME NEW n \in Nat \ {0}
  PROVE  \E k \in 0..n : /\ RoundUp(n) = IF k < KhintBits THEN Shl1[k] ELSE 0
                         /\ n <= Shl1[k] /\ Shl1[k] < 2 * n
<1> DEFINE S == {k \in Nat : n <= Shl1[k]}
           P == {Shl1[k] : k \in 0..n}
<1>1. n \in S
  BY PowerExceeds, Shl1Facts
<1>2. PICK k \in S : \A m \in S : k <= m
  <2>1. S \in SUBSET Nat /\ S # {}
    BY <1>1
  <2> HIDE DEF S
  <2>2. QED
    BY <2>1, LeastElement
<1>3. k \in 0..n /\ n <= Shl1[k] /\ Shl1[k] \in Nat
  BY <1>1, <1>2, Shl1Facts
<1>4. Shl1[k] < 2 * n
  <2>1. CASE k = 0
    BY <2>1, Shl1Facts
  <2>2. CASE k # 0
    <3>1. k - 1 \in Nat /\ k - 1 \notin S /\ (k - 1) + 1 = k
      BY <1>2, <1>3, <2>2
    <3>2. Shl1[k - 1] < n /\ Shl1[k] = 2 * Shl1[k - 1] /\ Shl1[k - 1] \in Nat
      BY <3>1, Shl1Facts
    <3>3. QED
      BY <3>2
  <2>3. QED
    BY <2>1, <2>2
<1>5. \E p \in P : n <= p /\ p < 2 * n
  BY <1>3, <1>4
<1> DEFINE least == CHOOSE p \in P : n <= p /\ p < 2 * n
<1>6. RoundUp(n) = least % Shl1[KhintBits]
  BY DEF RoundUp
<1> HIDE DEF P
<1>7. least \in P /\ n <= least /\ least < 2 * n
  BY <1>5
<1> HIDE DEF least
<1>8. PICK m \in 0..n : least = Shl1[m]
  BY <1>7 DEF P
<1>9. RoundUp(n) = IF m < KhintBits THEN Shl1[m] ELSE 0
  BY <1>6, <1>8, CutPower
<1>10. QED
  BY <1>7, <1>8, <1>9

(* kh_resize's new size: a power of two from 4 on, whatever was asked for. *)
LEMMA NewSizeFacts ==
  ASSUME NEW asked \in Nat
  PROVE  /\ \E k \in Nat \ {0, 1} : /\ NewSize(asked) = Shl1[k]
                                    /\ k = 2 \/ (k <= asked /\ NewSize(asked) < 2 * asked)
         /\ NewSize(asked) \in Nat /\ NewSize(asked) >= 4
<1>1. Shl1[0] = 1 /\ Shl1[1] = 2 /\ Shl1[2] = 4
  <2>1. Shl1[0 + 1] = 2 * Shl1[0] /\ Shl1[1 + 1] = 2 * Shl1[1]
    BY Shl1Facts
  <2>2. QED
    BY <2>1, Shl1Facts
<1>2. CASE RoundUp(asked) < 4
  BY <1>1, <1>2 DEF NewSize
<1>3. CASE asked # 0 /\ ~(RoundUp(asked) < 4)
  <2>1. PICK k \in 0..asked : /\ RoundUp(asked) = IF k < KhintBits THEN Shl1[k] ELSE 0
                             /\ asked <= Shl1[k] /\ Shl1[k] < 2 * asked
    BY <1>3, RoundUpFacts
  <2>2. Shl1[k] \in Nat /\ RoundUp(asked) = Shl1[k]
    BY <1>3, <2>1, Shl1Facts
  <2>3. k \notin {0, 1} /\ NewSize(asked) = Shl1[k]
    BY <1>1, <1>3, <2>2 DEF NewSize
  <2>4. QED
    BY <1>3, <2>1, <2>2, <2>3
<1>4. CASE asked = 0
  BY <1>2, <1>4 DEF RoundUp
<1>5. QED
  BY <1>2, <1>3, <1>4

(* It holds what was asked for, if half of what khint_t can tell apart does. *)
LEMMA NewSizeHolds ==
  ASSUME NEW asked \in Nat, asked <= Shl1[KhintBits - 1]
  PROVE  NewSize(asked) >= asked
<1>1. KhintBits \in Nat /\ KhintBits - 1 \in Nat /\ (KhintBits - 1) + 1 = KhintBits
  BY WidthAssumption
<1>2. CASE asked = 0
  BY <1>2, NewSizeFacts
<1>3. CASE asked # 0
  <2>1. PICK k \in 0..asked : /\ RoundUp(asked) = IF k < KhintBits THEN Shl1[k] ELSE 0
                             /\ asked <= Shl1[k] /\ Shl1[k] < 2 * asked
    BY <1>3, RoundUpFacts
  <2>2. k < KhintBits
    <3>1. SUFFICES ASSUME KhintBits <= k PROVE FALSE
      BY <1>1
    <3>2. KhintBits - 1 < k
      BY <1>1, <3>1
    <3>3. 2 * Shl1[KhintBits - 1] <= Shl1[k] /\ Shl1[k] \in Nat /\ Shl1[KhintBits - 1] \in Nat
      BY <1>1, <3>2, Shl1Grows, Shl1Facts
    <3>4. QED
      BY <2>1, <3>3
  <2>3. RoundUp(asked) = Shl1[k] /\ Shl1[k] \in Nat
    BY <2>1, <2>2, Shl1Facts
  <2>4. QED
    BY <2>1, <2>3 DEF NewSize
<1>4. QED
  BY <1>2, <1>3

(* The bound on used buckets leaves one of at least four buckets unused. *)
LEMMA UpperFacts ==
  ASSUME NEW n \in Nat
  PROVE  /\ Upper(n) \in Nat
         /\ n >= 4 => Upper(n) < n
         /\ \A m \in Nat : 4 <= m /\ n <= m + 1 => n <= 2 * Upper(m)
         /\ \A m \in Nat : 4 <= m /\ 2 * n <= m => n < Upper(m)
BY DEF Upper

-----------------------------------------------------------------------------
(* Tables. *)
BucketsOf(t) == 0..(t.n_buckets - 1)
LiveIn(t) == {b \in BucketsOf(t) : t.flags[b] = "live"}
UsedIn(t) == {b \in BucketsOf(t) : t.flags[b] # "empty"}
Content(t) == {<<t.keys[b], t.vals[b]>> : b \in LiveIn(t)}

(* A probe for key gets to bucket b: none on the way was never used. *)
OnPath(flags, n, key, b) ==
  \E s \in 0..(n - 1) :
    Probe(key, s, n) = b /\ \A r \in 0..(s - 1) : flags[Probe(key, r, n)] # "empty"

Sizes == {0} \cup {Shl1[k] : k \in Nat \ {0, 1}}

(* A record with the fields of kh_name_t. *)
IsRecord(t) ==
  t = [n_buckets |-> t.n_buckets, size |-> t.size, n_occupied |-> t.n_occupied,
       upper_bound |-> t.upper_bound, flags |-> t.flags,
       keys |-> t.keys, vals |-> t.vals]

HasRoom(t) ==
  /\ t.n_buckets \in Sizes
  /\ t.flags \in [BucketsOf(t) -> {"empty", "deleted", "live"}]
  /\ BucketsOf(t) \subseteq DOMAIN t.keys /\ BucketsOf(t) \subseteq DOMAIN t.vals

(* Each element is on its key's path, and no key is there twice. *)
Findable(t) ==
  /\ \A b \in LiveIn(t) : /\ t.keys[b] \in Key /\ t.vals[b] \in Val
                          /\ OnPath(t.flags, t.n_buckets, t.keys[b], b)
  /\ \A b, c \in LiveIn(t) : t.keys[b] = t.keys[c] => b = c

Counted(t) ==
  /\ t.size = Cardinality(LiveIn(t)) /\ t.n_occupied = Cardinality(UsedIn(t))
  /\ t.upper_bound = Upper(t.n_buckets) /\ t.n_occupied <= t.upper_bound

IsTable(t) == IsRecord(t) /\ HasRoom(t) /\ Findable(t) /\ Counted(t)

LEMMA SizeFacts ==
  ASSUME NEW n \in Sizes
  PROVE  n \in Nat /\ (n = 0 \/ (n >= 4 /\ \E k \in Nat \ {0, 1} : n = Shl1[k]))
<1> SUFFICES ASSUME NEW k \in Nat \ {0, 1}, n = Shl1[k]
             PROVE  n \in Nat /\ n >= 4
  BY DEF Sizes
<1>1. Shl1[2] = 4
  <2>1. Shl1[0 + 1] = 2 * Shl1[0] /\ Shl1[1 + 1] = 2 * Shl1[1]
    BY Shl1Facts
  <2>2. QED
    BY <2>1, Shl1Facts
<1>2. k > 2 => 2 * Shl1[2] <= Shl1[k]
  BY Shl1Grows
<1>3. QED
  BY <1>1, <1>2, Shl1Facts

(* In a table that has buckets, at least one of them was never used. *)
LEMMA TableFacts ==
  ASSUME NEW t, IsTable(t)
  PROVE  /\ t.n_buckets \in Nat
         /\ IsFiniteSet(LiveIn(t)) /\ IsFiniteSet(UsedIn(t))
         /\ t.size \in Nat /\ t.n_occupied \in Nat /\ t.size <= t.n_occupied
         /\ t.n_buckets = 0 => t.size = 0
         /\ t.n_buckets # 0 =>
              /\ t.n_buckets >= 4 /\ t.n_occupied < t.n_buckets
              /\ \E k \in Nat \ {0, 1} : t.n_buckets = Shl1[k]
              /\ \E b \in BucketsOf(t) : t.flags[b] = "empty"
<1> DEFINE n == t.n_buckets
<1>1. /\ n \in Nat
      /\ n # 0 => n >= 4 /\ \E k \in Nat \ {0, 1} : n = Shl1[k]
  BY SizeFacts DEF IsTable, HasRoom
<1>2. IsFiniteSet(BucketsOf(t)) /\ Cardinality(BucketsOf(t)) = n
  <2>1. IsFiniteSet(0..(n - 1)) /\ Cardinality(0..(n - 1)) = n
    <3> HIDE DEF n
    <3>1. 0 \in Int /\ n - 1 \in Int
      BY <1>1
    <3>2. QED
      BY <1>1, <3>1, FS_Interval
  <2>2. QED
    BY <2>1 DEF BucketsOf
<1>3. /\ IsFiniteSet(UsedIn(t)) /\ Cardinality(UsedIn(t)) <= n
      /\ Cardinality(UsedIn(t)) \in Nat
      /\ Cardinality(UsedIn(t)) = n => UsedIn(t) = BucketsOf(t)
  <2>1. UsedIn(t) \in SUBSET BucketsOf(t)
    BY DEF UsedIn
  <2>2. QED
    BY <1>2, <2>1, FS_Subset, FS_CardinalityType
<1>4. /\ IsFiniteSet(LiveIn(t)) /\ Cardinality(LiveIn(t)) <= Cardinality(UsedIn(t))
      /\ Cardinality(LiveIn(t)) \in Nat
  <2>1. LiveIn(t) \in SUBSET UsedIn(t)
    BY DEF LiveIn, UsedIn
  <2>2. QED
    BY <1>3, <2>1, FS_Subset, FS_CardinalityType
<1>5. t.size = Cardinality(LiveIn(t)) /\ t.n_occupied = Cardinality(UsedIn(t))
  BY DEF IsTable, Counted
<1>6. n = 0 => t.size = 0
  BY <1>3, <1>4, <1>5
<1>7. n # 0 => t.n_occupied < n
  <2>1. t.n_occupied <= Upper(n)
    BY DEF IsTable, Counted
  <2> HIDE DEF n
  <2>2. n >= 4 => Upper(n) < n /\ Upper(n) \in Nat
    BY <1>1, UpperFacts
  <2>3. QED
    BY <1>1, <1>3, <1>5, <2>1, <2>2
<1>8. n # 0 => \E b \in BucketsOf(t) : t.flags[b] = "empty"
  <2> SUFFICES ASSUME n # 0, \A b \in BucketsOf(t) : t.flags[b] # "empty" PROVE FALSE
    OBVIOUS
  <2>1. UsedIn(t) = BucketsOf(t)
    BY DEF UsedIn
  <2>2. QED
    BY <1>1, <1>2, <1>5, <1>7, <2>1
<1>9. QED
  BY <1>1, <1>3, <1>4, <1>5, <1>6, <1>7, <1>8

(***************************************************************************)
(* Where the probe of kh_get and kh_put ends: at the bucket of the key or  *)
(* at an unused one, before it is back where it started.                   *)
(***************************************************************************)
Ends(t, key, s) ==
  \/ t.flags[Probe(key, s, t.n_buckets)] = "empty"
  \/ /\ t.flags[Probe(key, s, t.n_buckets)] = "live"
     /\ t.keys[Probe(key, s, t.n_buckets)] = key

LEMMA SearchFacts ==
  ASSUME NEW t, IsTable(t), t.n_buckets # 0, NEW key \in Key
  PROVE  LET s == LastStep(t, key)
         IN  /\ s \in 0..(t.n_buckets - 1)
             /\ Probe(key, s, t.n_buckets) \in BucketsOf(t)
             /\ Ends(t, key, s)
             /\ \A r \in 0..(s - 1) : ~Ends(t, key, r)
             /\ s > 0 => Probe(key, s, t.n_buckets) # Probe(key, 0, t.n_buckets)
<1> DEFINE n == t.n_buckets
           at(r) == Probe(key, r, n)
           stops == {r \in Nat : Ends(t, key, r) \/ (r > 0 /\ at(r) = at(0))}
           s == LastStep(t, key)
<1>1. PICK k \in Nat \ {0, 1} : n = Shl1[k]
  BY TableFacts
<1>2. n \in Nat \ {0}
  BY TableFacts
<1>3. PICK e \in BucketsOf(t) : t.flags[e] = "empty"
  BY TableFacts
<1>4. PICK m \in 0..(n - 1) : at(m) = e
  <2>1. e \in 0..(Shl1[k] - 1)
    BY <1>1 DEF BucketsOf
  <2>2. QED
    BY <1>1, <2>1, ProbeCovers
<1>5. m \in stops /\ m \in 0..(2 * n - 1)
  BY <1>2, <1>3, <1>4 DEF Ends
<1>6. s = LeastStep(n, stops)
  BY DEF LastStep, Ends
<1> HIDE DEF stops, s, n
<1>7. s \in 0..m /\ s \in stops /\ \A r \in 0..(s - 1) : r \notin stops
  BY <1>2, <1>5, <1>6, LeastStepFacts
<1>8. s \in 0..(n - 1)
  BY <1>2, <1>7
<1>9. s > 0 => at(s) # at(0)
  <2>1. 0 \in 0..(Shl1[k] - 1) /\ s \in 0..(Shl1[k] - 1)
    BY <1>1, <1>2, <1>8
  <2>2. 0 < s => Probe(key, 0, Shl1[k]) # Probe(key, s, Shl1[k])
    BY <2>1, ProbeDiffers
  <2>3. QED
    BY <1>1, <2>2
<1>10. Ends(t, key, s)
  BY <1>7, <1>9 DEF stops
<1>11. \A r \in 0..(s - 1) : ~Ends(t, key, r)
  BY <1>2, <1>7, <1>8 DEF stops
<1>12. at(s) \in 0..(n - 1)
  BY <1>2, <1>8, ProbeInRange
<1>13. QED
  BY <1>8, <1>9, <1>10, <1>11, <1>12 DEF n, s, BucketsOf

(* kh_get finds the bucket of a key that is there, and kh_end otherwise. *)
LEMMA GetFacts ==
  ASSUME NEW t, IsTable(t), NEW key \in Key
  PROVE  /\ \A b \in LiveIn(t) : t.keys[b] = key => Get(t, key) = b
         /\ (\A b \in LiveIn(t) : t.keys[b] # key) => Get(t, key) = t.n_buckets
<1> DEFINE n == t.n_buckets
           at(r) == Probe(key, r, n)
           s == LastStep(t, key)
<1>1. n \in Nat /\ t.flags \in [0..(n - 1) -> {"empty", "deleted", "live"}]
  BY TableFacts DEF IsTable, HasRoom, BucketsOf
<1>2. CASE n = 0
  <2>1. LiveIn(t) = {}
    BY <1>2 DEF LiveIn, BucketsOf
  <2>2. QED
    BY <1>2, <2>1 DEF Get
<1>3. CASE n # 0
  <2>1. /\ s \in 0..(n - 1) /\ at(s) \in 0..(n - 1) /\ Ends(t, key, s)
        /\ \A r \in 0..(s - 1) : ~Ends(t, key, r)
        /\ s > 0 => at(s) # at(0)
    BY <1>3, SearchFacts DEF BucketsOf
  <2>2. Get(t, key) = IF t.flags[at(s)] # "live" THEN n ELSE at(s)
    BY <1>3, <2>1 DEF Get
  <2> HIDE DEF s, n
  <2>3. ASSUME NEW b \in LiveIn(t), t.keys[b] = key
        PROVE  at(s) = b
    <3>1. PICK m \in 0..(n - 1) : at(m) = b /\ \A r \in 0..(m - 1) : t.flags[at(r)] # "empty"
      BY <2>3 DEF IsTable, Findable, OnPath, n
    <3>2. Ends(t, key, m)
      BY <2>3, <3>1 DEF Ends, LiveIn, n
    <3>3. ~(m < s)
      BY <1>1, <2>1, <3>1, <3>2
    <3>4. CASE m = s
      BY <3>1, <3>4
    <3>5. CASE s < m
      <4>1. t.flags[at(s)] # "empty"
        BY <1>1, <2>1, <3>1, <3>5
      <4>2. at(s) \in LiveIn(t) /\ t.keys[at(s)] = key
        BY <2>1, <4>1 DEF Ends, LiveIn, BucketsOf, n
      <4>3. QED
        BY <2>3, <4>2 DEF IsTable, Findable
    <3>6. QED
      BY <1>1, <2>1, <3>1, <3>3, <3>4, <3>5
  <2>4. ASSUME NEW b \in LiveIn(t), t.keys[b] = key
        PROVE  Get(t, key) = b
    BY <2>2, <2>3, <2>4 DEF LiveIn
  <2>5. ASSUME \A b \in LiveIn(t) : t.keys[b] # key
        PROVE  Get(t, key) = n
    <3>1. t.flags[at(s)] # "live"
      BY <2>1, <2>5 DEF Ends, LiveIn, BucketsOf, n
    <3>2. QED
      BY <2>2, <3>1
  <2>6. QED
    BY <2>4, <2>5 DEF n
<1>4. QED
  BY <1>2, <1>3

(***************************************************************************)
(* kh_put's bucket is the key's if it is there.  If not, it is one that    *)
(* holds no element and that a probe for the key gets to.                  *)
(***************************************************************************)
LEMMA PutBucketFacts ==
  ASSUME NEW t, IsTable(t), t.n_buckets # 0, NEW key \in Key
  PROVE  LET x == PutBucket(t, key)
         IN  /\ x \in BucketsOf(t)
             /\ \/ x \in LiveIn(t) /\ t.keys[x] = key
                \/ /\ x \notin LiveIn(t) /\ \A b \in LiveIn(t) : t.keys[b] # key
                   /\ OnPath(t.flags, t.n_buckets, key, x)
<1> DEFINE n == t.n_buckets
           at(r) == Probe(key, r, n)
           s == LastStep(t, key)
           D == {r \in 0..(s - 1) : t.flags[at(r)] = "deleted"}
           x == PutBucket(t, key)
<1>1. n \in Nat \ {0} /\ t.flags \in [0..(n - 1) -> {"empty", "deleted", "live"}]
  BY TableFacts DEF IsTable, HasRoom, BucketsOf
<1>2. /\ s \in 0..(n - 1) /\ at(s) \in 0..(n - 1) /\ Ends(t, key, s)
      /\ \A r \in 0..(s - 1) : ~Ends(t, key, r)
      /\ s > 0 => at(s) # at(0)
  BY SearchFacts DEF BucketsOf
<1>3. x = IF D # {} /\ t.flags[at(s)] = "empty" THEN at(Max(D)) ELSE at(s)
  BY <1>2 DEF PutBucket
<1>4. /\ \A b \in LiveIn(t) : t.keys[b] = key => Get(t, key) = b
      /\ (\A b \in LiveIn(t) : t.keys[b] # key) => Get(t, key) = n
  BY GetFacts
<1>5. Get(t, key) = IF t.flags[at(s)] # "live" THEN n ELSE at(s)
  BY <1>1, <1>2 DEF Get
<1> HIDE DEF s, n
<1>6. \A r \in 0..(s - 1) : t.flags[at(r)] # "empty"
  BY <1>2 DEF Ends, n
<1>7. CASE t.flags[at(s)] # "empty"
  <2>1. at(s) \in LiveIn(t) /\ t.keys[at(s)] = key
    BY <1>2, <1>7 DEF Ends, LiveIn, BucketsOf, n
  <2>2. x = at(s)
    BY <1>3, <1>7
  <2>3. QED
    BY <1>2, <2>1, <2>2 DEF LiveIn, BucketsOf
<1>8. CASE t.flags[at(s)] = "empty"
  <2>1. Get(t, key) = n
    BY <1>5, <1>8
  <2>2. \A b \in LiveIn(t) : t.keys[b] # key
    <3>1. \A b \in LiveIn(t) : b # n
      BY <1>1 DEF LiveIn, BucketsOf, n
    <3>2. QED
      BY <1>4, <2>1, <3>1
  <2>3. CASE D = {}
    <3>1. x = at(s)
      BY <1>3, <2>3
    <3>2. x \notin LiveIn(t)
      BY <1>8, <3>1 DEF LiveIn
    <3>3. OnPath(t.flags, n, key, x)
      BY <1>2, <1>6, <3>1 DEF OnPath
    <3> HIDE DEF x
    <3>4. QED
      BY <1>2, <2>2, <3>1, <3>2, <3>3 DEF BucketsOf, n, x
  <2>4. CASE D # {}
    <3> DEFINE m == Max(D)
    <3>1. m \in D
      <4>1. \E y \in D : \A z \in D : y >= z
        <5> DEFINE E == {u \in Nat : \E y \in D : u = s - y}
        <5>1. \A y \in D : y \in Nat /\ y < s /\ s - y \in E
          BY <1>1, <1>2
        <5>2. E \in SUBSET Nat /\ E # {}
          BY <2>4, <5>1
        <5>3. PICK u \in E : \A v \in E : u <= v
          <6> HIDE DEF E
          <6>1. QED
            BY <5>2, LeastElement
        <5>4. PICK y \in D : u = s - y
          BY <5>3
        <5> HIDE DEF D
        <5>5. \A z \in D : s - y <= s - z
          BY <5>1, <5>3, <5>4
        <5>6. s \in Nat
          BY <1>1, <1>2
        <5>7. \A z \in D : y >= z
          BY <5>1, <5>5, <5>6
        <5>8. QED
          BY <5>7
      <4> HIDE DEF D
      <4>2. QED
        BY <4>1 DEF Max
    <3>2. m \in 0..(s - 1) /\ t.flags[at(m)] = "deleted"
      BY <3>1
    <3>3. x = at(m)
      BY <1>3, <1>8, <2>4
    <3> HIDE DEF m, D, x
    <3>4. m \in 0..(n - 1) /\ \A r \in 0..(m - 1) : t.flags[at(r)] # "empty"
      BY <1>1, <1>2, <1>6, <3>2
    <3>5. at(m) \in 0..(n - 1)
      BY <1>1, <3>4, ProbeInRange
    <3>6. x \notin LiveIn(t)
      BY <3>2, <3>3 DEF LiveIn
    <3>7. OnPath(t.flags, n, key, x)
      BY <3>3, <3>4 DEF OnPath
    <3>8. QED
      BY <2>2, <3>3, <3>5, <3>6, <3>7 DEF BucketsOf, n, x
  <2>5. QED
    BY <2>3, <2>4
<1>9. QED
  BY <1>7, <1>8

-----------------------------------------------------------------------------
(* The functions of khash.h that do not rehash. *)

(* A path stays one while no bucket on it becomes an unused one. *)
LEMMA PathStays ==
  ASSUME NEW flags, NEW other, NEW n \in Nat \ {0}, NEW key \in Key, NEW b,
         \A c \in 0..(n - 1) : flags[c] # "empty" => other[c] # "empty",
         OnPath(flags, n, key, b)
  PROVE  OnPath(other, n, key, b)
<1>1. PICK s \in 0..(n - 1) :
        Probe(key, s, n) = b /\ \A r \in 0..(s - 1) : flags[Probe(key, r, n)] # "empty"
  BY DEF OnPath
<1>2. \A r \in 0..(s - 1) : Probe(key, r, n) \in 0..(n - 1)
  BY ProbeInRange
<1>3. \A r \in 0..(s - 1) : other[Probe(key, r, n)] # "empty"
  BY <1>1, <1>2
<1>4. QED
  BY <1>1, <1>3 DEF OnPath

(* kh_put of a key that is there changes its value and nothing else. *)
Overwritten(t, x, val) == [t EXCEPT !.vals[x] = val]

LEMMA OverwriteFacts ==
  ASSUME NEW t, IsTable(t), NEW x \in LiveIn(t), NEW val \in Val
  PROVE  LET u == Overwritten(t, x, val)
         IN  /\ IsTable(u) /\ u.n_buckets = t.n_buckets
             /\ LiveIn(u) = LiveIn(t) /\ u.keys = t.keys
             /\ Content(u) = {p \in Content(t) : p[1] # t.keys[x]} \cup {<<t.keys[x], val>>}
<1> DEFINE vals == [t.vals EXCEPT ![x] = val]
           u == Overwritten(t, x, val)
<1>1. u = [n_buckets |-> t.n_buckets, size |-> t.size, n_occupied |-> t.n_occupied,
           upper_bound |-> t.upper_bound, flags |-> t.flags,
           keys |-> t.keys, vals |-> vals]
  BY DEF IsTable, IsRecord, Overwritten
<1> HIDE DEF u
<1>2. /\ IsRecord(u) /\ u.n_buckets = t.n_buckets /\ u.size = t.size
      /\ u.n_occupied = t.n_occupied /\ u.upper_bound = t.upper_bound
      /\ u.flags = t.flags /\ u.keys = t.keys /\ u.vals = vals
  BY <1>1 DEF IsRecord
<1>3. BucketsOf(u) = BucketsOf(t) /\ LiveIn(u) = LiveIn(t) /\ UsedIn(u) = UsedIn(t)
  BY <1>2 DEF BucketsOf, LiveIn, UsedIn
<1>4. x \in DOMAIN t.vals /\ DOMAIN vals = DOMAIN t.vals
  BY DEF LiveIn, IsTable, HasRoom
<1>5. \A b \in LiveIn(t) : vals[b] = IF b = x THEN val ELSE t.vals[b]
  BY <1>4 DEF LiveIn, IsTable, HasRoom
<1> HIDE DEF vals
<1>6. HasRoom(u)
  BY <1>2, <1>3, <1>4 DEF IsTable, HasRoom
<1>7. Findable(u)
  BY <1>2, <1>3, <1>5 DEF IsTable, Findable
<1>8. Counted(u)
  BY <1>2, <1>3 DEF IsTable, Counted
<1>9. Content(u) = {p \in Content(t) : p[1] # t.keys[x]} \cup {<<t.keys[x], val>>}
  <2>1. Content(u) = {<<t.keys[b], vals[b]>> : b \in LiveIn(t)}
    BY <1>2, <1>3 DEF Content
  <2>2. \A b \in LiveIn(t) : b # x => t.keys[b] # t.keys[x]
    BY DEF IsTable, Findable
  <2>3. ASSUME NEW p \in Content(u)
        PROVE  p \in {q \in Content(t) : q[1] # t.keys[x]} \cup {<<t.keys[x], val>>}
    <3>1. PICK b \in LiveIn(t) : p = <<t.keys[b], vals[b]>>
      BY <2>1
    <3>2. QED
      BY <1>5, <2>2, <3>1 DEF Content
  <2>4. ASSUME NEW p \in Content(t), p[1] # t.keys[x]
        PROVE  p \in Content(u)
    <3>1. PICK b \in LiveIn(t) : p = <<t.keys[b], t.vals[b]>>
      BY DEF Content
    <3>2. vals[b] = t.vals[b]
      BY <1>5, <2>4, <3>1
    <3>3. QED
      BY <2>1, <3>1, <3>2
  <2>5. <<t.keys[x], val>> \in Content(u)
    BY <1>5, <2>1
  <2>6. QED
    BY <2>3, <2>4, <2>5
<1>10. QED
  BY <1>2, <1>3, <1>6, <1>7, <1>8, <1>9 DEF u, IsTable

(* kh_put of a new key adds it, and it is found where it was put. *)
Added(t, x, key, val) ==
  [t EXCEPT !.keys[x] = key, !.vals[x] = val, !.flags[x] = "live",
            !.size = @ + 1, !.n_occupied = @ + Occupied(t.flags[x])]

LEMMA AddFacts ==
  ASSUME NEW t, IsTable(t), NEW key \in Key, NEW val \in Val,
         NEW x \in BucketsOf(t), x \notin LiveIn(t),
         \A b \in LiveIn(t) : t.keys[b] # key,
         OnPath(t.flags, t.n_buckets, key, x),
         t.n_occupied < t.upper_bound
  PROVE  LET u == Added(t, x, key, val)
         IN  /\ IsTable(u) /\ u.n_buckets = t.n_buckets
             /\ LiveIn(u) = LiveIn(t) \cup {x} /\ u.keys[x] = key
             /\ \A b \in LiveIn(t) : u.keys[b] = t.keys[b]
             /\ Content(u) = Content(t) \cup {<<key, val>>}
<1> DEFINE n == t.n_buckets
           keys == [t.keys EXCEPT ![x] = key]
           vals == [t.vals EXCEPT ![x] = val]
           flags == [t.flags EXCEPT ![x] = "live"]
           occupied == t.n_occupied + Occupied(t.flags[x])
           u == Added(t, x, key, val)
<1>1. u = [n_buckets |-> n, size |-> t.size + 1, n_occupied |-> occupied,
           upper_bound |-> t.upper_bound, flags |-> flags,
           keys |-> keys, vals |-> vals]
  <2>1. u = [t EXCEPT !.keys = keys, !.vals = vals, !.flags = flags,
                      !.size = t.size + 1, !.n_occupied = occupied]
    BY DEF Added
  <2>2. IsRecord(t)
    BY DEF IsTable
  <2> HIDE DEF keys, vals, flags, occupied, u
  <2>3. QED
    BY <2>1, <2>2 DEF IsRecord
<1> HIDE DEF u
<1>2. /\ IsRecord(u) /\ u.n_buckets = n /\ u.size = t.size + 1
      /\ u.n_occupied = occupied /\ u.upper_bound = t.upper_bound
      /\ u.flags = flags /\ u.keys = keys /\ u.vals = vals
  BY <1>1 DEF IsRecord
<1>3. /\ BucketsOf(t) \subseteq DOMAIN t.keys /\ DOMAIN keys = DOMAIN t.keys
      /\ BucketsOf(t) \subseteq DOMAIN t.vals /\ DOMAIN vals = DOMAIN t.vals
      /\ \A b \in BucketsOf(t) : keys[b] = IF b = x THEN key ELSE t.keys[b]
      /\ \A b \in BucketsOf(t) : vals[b] = IF b = x THEN val ELSE t.vals[b]
  BY DEF IsTable, HasRoom
<1>4. /\ flags \in [BucketsOf(t) -> {"empty", "deleted", "live"}]
      /\ \A b \in BucketsOf(t) : flags[b] = IF b = x THEN "live" ELSE t.flags[b]
      /\ n \in Sizes
  BY DEF IsTable, HasRoom
<1> HIDE DEF keys, vals, flags
<1>5. /\ BucketsOf(u) = BucketsOf(t) /\ LiveIn(u) = LiveIn(t) \cup {x}
      /\ UsedIn(u) = UsedIn(t) \cup {x}
  <2>1. BucketsOf(u) = BucketsOf(t)
    BY <1>2 DEF BucketsOf
  <2>2. QED
    BY <1>2, <1>4, <2>1 DEF LiveIn, UsedIn
<1>6. /\ keys[x] = key /\ vals[x] = val
      /\ \A b \in LiveIn(t) : b # x /\ keys[b] = t.keys[b] /\ vals[b] = t.vals[b]
  BY <1>3 DEF LiveIn
<1>7. HasRoom(u)
  BY <1>2, <1>3, <1>4, <1>5 DEF HasRoom
<1>8. Findable(u)
  <2>1. \A c \in 0..(n - 1) : t.flags[c] # "empty" => flags[c] # "empty"
    BY <1>4 DEF BucketsOf
  <2>2. n \in Nat \ {0}
    BY TableFacts DEF BucketsOf
  <2>3. \A b, k : k \in Key /\ OnPath(t.flags, n, k, b) => OnPath(flags, n, k, b)
    <3> HIDE DEF n
    <3>1. QED
      BY <2>1, <2>2, PathStays
  <2>4. \A b \in LiveIn(t) : t.keys[b] \in Key /\ t.vals[b] \in Val /\ OnPath(flags, n, t.keys[b], b)
    BY <2>3 DEF IsTable, Findable
  <2>5. OnPath(flags, n, key, x)
    BY <2>3
  <2>6. \A b \in LiveIn(t) \cup {x} :
          keys[b] \in Key /\ vals[b] \in Val /\ OnPath(flags, n, keys[b], b)
    BY <1>6, <2>4, <2>5
  <2>7. \A b, c \in LiveIn(t) : t.keys[b] = t.keys[c] => b = c
    BY DEF IsTable, Findable
  <2>8. \A b, c \in LiveIn(t) \cup {x} : keys[b] = keys[c] => b = c
    BY <1>6, <2>7
  <2>9. QED
    BY <1>2, <1>5, <2>6, <2>8 DEF Findable
<1>9. Counted(u)
  <2>1. /\ IsFiniteSet(LiveIn(t)) /\ IsFiniteSet(UsedIn(t)) /\ t.size \in Nat
        /\ t.n_occupied \in Nat
    BY TableFacts
  <2>2. /\ t.size = Cardinality(LiveIn(t)) /\ t.n_occupied = Cardinality(UsedIn(t))
        /\ t.upper_bound = Upper(n) /\ n \in Nat
    BY TableFacts DEF IsTable, Counted
  <2>3. Cardinality(LiveIn(u)) = t.size + 1
    <3>1. Cardinality(LiveIn(t) \cup {x}) = Cardinality(LiveIn(t)) + 1
      BY <2>1, FS_AddElement
    <3>2. QED
      BY <1>5, <2>2, <3>1
  <2>4. occupied = IF x \in UsedIn(t) THEN t.n_occupied ELSE t.n_occupied + 1
    BY <2>1 DEF Occupied, UsedIn
  <2> HIDE DEF occupied
  <2>5. Cardinality(UsedIn(u)) = occupied
    <3>1. Cardinality(UsedIn(t) \cup {x}) =
            IF x \in UsedIn(t) THEN Cardinality(UsedIn(t)) ELSE Cardinality(UsedIn(t)) + 1
      BY <2>1, FS_AddElement
    <3>2. QED
      BY <1>5, <2>2, <2>4, <3>1
  <2>6. occupied <= t.upper_bound
    <3>1. Upper(n) \in Nat
      BY <2>2, UpperFacts
    <3>2. QED
      BY <2>1, <2>2, <2>4, <3>1
  <2>7. QED
    BY <1>2, <2>2, <2>3, <2>5, <2>6 DEF Counted
<1>10. Content(u) = Content(t) \cup {<<key, val>>}
  <2>1. Content(u) = {<<keys[b], vals[b]>> : b \in LiveIn(t) \cup {x}}
    BY <1>2, <1>5 DEF Content
  <2>2. QED
    BY <1>6, <2>1 DEF Content
<1>11. QED
  BY <1>2, <1>5, <1>6, <1>7, <1>8, <1>9, <1>10 DEF u, IsTable

(* kh_put, past its resize: the key has its value, and no other key changes. *)
LEMMA PutKeyFacts ==
  ASSUME NEW t, IsTable(t), t.n_occupied < t.upper_bound, NEW key \in Key, NEW val \in Val
  PROVE  LET u == PutKey(t, key, val)
         IN  /\ IsTable(u) /\ u.n_buckets = t.n_buckets
             /\ LiveIn(t) \subseteq LiveIn(u)
             /\ \A b \in LiveIn(t) : u.keys[b] = t.keys[b]
             /\ Content(u) = {p \in Content(t) : p[1] # key} \cup {<<key, val>>}
<1> DEFINE x == PutBucket(t, key)
           u == PutKey(t, key, val)
<1>1. t.n_buckets # 0
  <2>1. Upper(0) = 0
    BY DEF Upper
  <2>2. t.upper_bound = Upper(t.n_buckets)
    BY DEF IsTable, Counted
  <2>3. t.n_occupied \in Nat
    BY TableFacts
  <2>4. QED
    BY <2>1, <2>2, <2>3
<1>2. /\ x \in BucketsOf(t)
      /\ \/ x \in LiveIn(t) /\ t.keys[x] = key
         \/ /\ x \notin LiveIn(t) /\ \A b \in LiveIn(t) : t.keys[b] # key
            /\ OnPath(t.flags, t.n_buckets, key, x)
  BY <1>1, PutBucketFacts
<1>3. CASE x \in LiveIn(t) /\ t.keys[x] = key
  <2>1. t.flags[x] = "live"
    BY <1>3 DEF LiveIn
  <2>2. u = Overwritten(t, x, val)
    BY <2>1 DEF PutKey, Overwritten
  <2> HIDE DEF x, u
  <2>3. /\ IsTable(u) /\ u.n_buckets = t.n_buckets
        /\ LiveIn(u) = LiveIn(t) /\ u.keys = t.keys
        /\ Content(u) = {p \in Content(t) : p[1] # key} \cup {<<key, val>>}
    BY <1>3, <2>2, OverwriteFacts
  <2>4. QED
    BY <2>3 DEF u
<1>4. CASE x \notin LiveIn(t)
  <2>1. t.flags[x] # "live"
    BY <1>2, <1>4 DEF LiveIn
  <2>2. u = Added(t, x, key, val)
    BY <2>1 DEF PutKey, Added
  <2> HIDE DEF x, u
  <2>3. /\ IsTable(u) /\ u.n_buckets = t.n_buckets
        /\ LiveIn(u) = LiveIn(t) \cup {x}
        /\ \A b \in LiveIn(t) : u.keys[b] = t.keys[b]
        /\ Content(u) = Content(t) \cup {<<key, val>>}
    BY <1>2, <1>4, <2>2, AddFacts
  <2>4. \A p \in Content(t) : p[1] # key
    BY <1>2, <1>4 DEF Content
  <2>5. Content(u) = {p \in Content(t) : p[1] # key} \cup {<<key, val>>}
    BY <2>3, <2>4
  <2>6. QED
    BY <2>3, <2>5 DEF u
<1>5. QED
  BY <1>2, <1>3, <1>4

(* kh_del takes out the element in the bucket, if there is one. *)
LEMMA DelFacts ==
  ASSUME NEW t, IsTable(t), NEW x \in 0..t.n_buckets
  PROVE  LET u == Del(t, x)
         IN  /\ IsTable(u) /\ u.n_buckets = t.n_buckets /\ u.keys = t.keys
             /\ LiveIn(u) = LiveIn(t) \ {x}
             /\ Content(u) = {p \in Content(t) : x \in LiveIn(t) => p[1] # t.keys[x]}
<1>1. CASE x \notin LiveIn(t)
  <2>1. Del(t, x) = t
    <3>1. x # t.n_buckets => x \in BucketsOf(t)
      BY TableFacts DEF BucketsOf
    <3>2. QED
      BY <1>1, <3>1 DEF Del, LiveIn
  <2>2. QED
    BY <1>1, <2>1
<1>2. CASE x \in LiveIn(t)
  <2> DEFINE n == t.n_buckets
             flags == [t.flags EXCEPT ![x] = "deleted"]
             u == [t EXCEPT !.flags[x] = "deleted", !.size = @ - 1]
  <2>1. Del(t, x) = u
    <3>1. x # n /\ t.flags[x] = "live"
      BY <1>2, TableFacts DEF LiveIn, BucketsOf
    <3>2. QED
      BY <3>1 DEF Del
  <2>2. u = [n_buckets |-> n, size |-> t.size - 1, n_occupied |-> t.n_occupied,
             upper_bound |-> t.upper_bound, flags |-> flags,
             keys |-> t.keys, vals |-> t.vals]
    <3>1. u = [t EXCEPT !.flags = flags, !.size = t.size - 1]
      OBVIOUS
    <3>2. IsRecord(t)
      BY DEF IsTable
    <3> HIDE DEF flags, u
    <3>3. QED
      BY <3>1, <3>2 DEF IsRecord
  <2> HIDE DEF u
  <2>3. /\ IsRecord(u) /\ u.n_buckets = n /\ u.size = t.size - 1
        /\ u.n_occupied = t.n_occupied /\ u.upper_bound = t.upper_bound
        /\ u.flags = flags /\ u.keys = t.keys /\ u.vals = t.vals
    BY <2>2 DEF IsRecord
  <2>4. /\ flags \in [BucketsOf(t) -> {"empty", "deleted", "live"}]
        /\ \A b \in BucketsOf(t) : flags[b] = IF b = x THEN "deleted" ELSE t.flags[b]
        /\ n \in Sizes
    BY DEF IsTable, HasRoom
  <2> HIDE DEF flags
  <2>5. /\ BucketsOf(u) = BucketsOf(t) /\ LiveIn(u) = LiveIn(t) \ {x}
        /\ UsedIn(u) = UsedIn(t)
    <3>1. BucketsOf(u) = BucketsOf(t)
      BY <2>3 DEF BucketsOf
    <3>2. QED
      BY <1>2, <2>3, <2>4, <3>1 DEF LiveIn, UsedIn
  <2>6. HasRoom(u)
    BY <2>3, <2>4, <2>5 DEF IsTable, HasRoom
  <2>7. Findable(u)
    <3>1. \A c \in 0..(n - 1) : t.flags[c] # "empty" => flags[c] # "empty"
      BY <2>4 DEF BucketsOf
    <3>2. n \in Nat \ {0}
      <4>1. n \in Nat /\ x \in 0..(n - 1)
        BY <1>2, TableFacts DEF LiveIn, BucketsOf
      <4>2. QED
        BY <4>1
    <3>3. \A b, k : k \in Key /\ OnPath(t.flags, n, k, b) => OnPath(flags, n, k, b)
      <4> HIDE DEF n
      <4>1. QED
        BY <3>1, <3>2, PathStays
    <3>4. \A b \in LiveIn(t) :
            t.keys[b] \in Key /\ t.vals[b] \in Val /\ OnPath(flags, n, t.keys[b], b)
      BY <3>3 DEF IsTable, Findable
    <3>5. \A b, c \in LiveIn(t) : t.keys[b] = t.keys[c] => b = c
      BY DEF IsTable, Findable
    <3>6. QED
      BY <2>3, <2>5, <3>4, <3>5 DEF Findable
  <2>8. Counted(u)
    <3>1. Cardinality(LiveIn(u)) = Cardinality(LiveIn(t)) - 1
      BY <1>2, <2>5, TableFacts, FS_RemoveElement
    <3>2. QED
      BY <2>3, <2>5, <3>1 DEF IsTable, Counted
  <2>9. Content(u) = {p \in Content(t) : p[1] # t.keys[x]}
    <3>1. Content(u) = {<<t.keys[b], t.vals[b]>> : b \in LiveIn(t) \ {x}}
      BY <2>3, <2>5 DEF Content
    <3>2. \A b \in LiveIn(t) : b # x <=> t.keys[b] # t.keys[x]
      BY <1>2 DEF IsTable, Findable
    <3>3. \A p : p \in Content(u) <=>
                 \E b \in LiveIn(t) : b # x /\ p = <<t.keys[b], t.vals[b]>>
      BY <3>1
    <3>4. \A p : p \in Content(t) <=> \E b \in LiveIn(t) : p = <<t.keys[b], t.vals[b]>>
      BY DEF Content
    <3>5. QED
      BY <3>2, <3>3, <3>4
  <2>10. QED
    BY <1>2, <2>1, <2>3, <2>5, <2>6, <2>7, <2>8, <2>9 DEF IsTable
<1>3. QED
  BY <1>1, <1>2

(* A table whose buckets were never used holds nothing. *)
LEMMA UnusedFacts ==
  ASSUME NEW n \in Sizes, NEW keys, NEW vals,
         0..(n - 1) \subseteq DOMAIN keys, 0..(n - 1) \subseteq DOMAIN vals
  PROVE  LET u == [n_buckets |-> n, size |-> 0, n_occupied |-> 0,
                   upper_bound |-> Upper(n), flags |-> AllEmpty(n),
                   keys |-> keys, vals |-> vals]
         IN  IsTable(u) /\ LiveIn(u) = {} /\ Content(u) = {}
<1> DEFINE u == [n_buckets |-> n, size |-> 0, n_occupied |-> 0,
                 upper_bound |-> Upper(n), flags |-> AllEmpty(n),
                 keys |-> keys, vals |-> vals]
<1>1. /\ IsRecord(u) /\ u.n_buckets = n /\ u.size = 0 /\ u.n_occupied = 0
      /\ u.upper_bound = Upper(n) /\ u.flags = AllEmpty(n)
      /\ u.keys = keys /\ u.vals = vals
  BY DEF IsRecord
<1> HIDE DEF u
<1>2. BucketsOf(u) = 0..(n - 1) /\ LiveIn(u) = {} /\ UsedIn(u) = {}
  BY <1>1 DEF BucketsOf, LiveIn, UsedIn, AllEmpty
<1>3. HasRoom(u)
  BY <1>1, <1>2 DEF HasRoom, AllEmpty
<1>4. Findable(u) /\ Content(u) = {}
  BY <1>2 DEF Findable, Content
<1>5. Counted(u)
  <2>1. Upper(n) \in Nat
    BY SizeFacts, UpperFacts
  <2>2. QED
    BY <1>1, <1>2, <2>1, FS_EmptySet DEF Counted
<1>6. QED
  BY <1>1, <1>2, <1>3, <1>4, <1>5 DEF IsTable, u

LEMMA NoTableFacts == IsTable(NoTable) /\ NoTable.n_buckets = 0 /\ Content(NoTable) = {}
<1>1. 0 \in Sizes /\ Upper(0) = 0
  BY DEF Sizes, Upper
<1>2. 0..(0 - 1) \subseteq DOMAIN AllEmpty(0)
  BY DEF AllEmpty
<1>3. NoTable = [n_buckets |-> 0, size |-> 0, n_occupied |-> 0,
                 upper_bound |-> Upper(0), flags |-> AllEmpty(0),
                 keys |-> AllEmpty(0), vals |-> AllEmpty(0)]
  BY <1>1 DEF NoTable
<1>4. QED
  BY <1>1, <1>2, <1>3, UnusedFacts

(* kh_clear empties the table. *)
LEMMA ClearFacts ==
  ASSUME NEW t, IsTable(t)
  PROVE  /\ IsTable(Clear(t)) /\ Clear(t).n_buckets = t.n_buckets
         /\ Content(Clear(t)) = {}
<1>1. Clear(t) = [n_buckets |-> t.n_buckets, size |-> 0, n_occupied |-> 0,
                  upper_bound |-> Upper(t.n_buckets), flags |-> AllEmpty(t.n_buckets),
                  keys |-> t.keys, vals |-> t.vals]
  <2> DEFINE flags == AllEmpty(t.n_buckets)
  <2>1. Clear(t) = [t EXCEPT !.flags = flags, !.size = 0, !.n_occupied = 0]
    BY DEF Clear
  <2>2. IsRecord(t) /\ t.upper_bound = Upper(t.n_buckets)
    BY DEF IsTable, Counted
  <2> HIDE DEF flags
  <2>3. Clear(t) = [n_buckets |-> t.n_buckets, size |-> 0, n_occupied |-> 0,
                    upper_bound |-> t.upper_bound, flags |-> flags,
                    keys |-> t.keys, vals |-> t.vals]
    BY <2>1, <2>2 DEF IsRecord
  <2>4. QED
    BY <2>2, <2>3 DEF flags
<1>2. /\ t.n_buckets \in Sizes /\ 0..(t.n_buckets - 1) \subseteq DOMAIN t.keys
      /\ 0..(t.n_buckets - 1) \subseteq DOMAIN t.vals
  BY DEF IsTable, HasRoom, BucketsOf
<1>3. QED
  BY <1>1, <1>2, UnusedFacts

(* Moving keys and vals to other storage changes no element. *)
Restored(t, keys, vals) == [t EXCEPT !.keys = keys, !.vals = vals]

LEMMA RestoredIs ==
  ASSUME NEW t, IsRecord(t), NEW keys, NEW vals
  PROVE  Restored(t, keys, vals) =
           [n_buckets |-> t.n_buckets, size |-> t.size, n_occupied |-> t.n_occupied,
            upper_bound |-> t.upper_bound, flags |-> t.flags,
            keys |-> keys, vals |-> vals]
<1> DEFINE u == [t EXCEPT !.keys = keys]
<1>1. u = [n_buckets |-> t.n_buckets, size |-> t.size, n_occupied |-> t.n_occupied,
           upper_bound |-> t.upper_bound, flags |-> t.flags,
           keys |-> keys, vals |-> t.vals]
  BY DEF IsRecord
<1> HIDE DEF u
<1>2. [u EXCEPT !.vals = vals] =
        [n_buckets |-> t.n_buckets, size |-> t.size, n_occupied |-> t.n_occupied,
         upper_bound |-> t.upper_bound, flags |-> t.flags,
         keys |-> keys, vals |-> vals]
  BY <1>1
<1>3. Restored(t, keys, vals) = [u EXCEPT !.vals = vals]
  BY DEF Restored, u
<1>4. QED
  BY <1>2, <1>3

LEMMA MovedFacts ==
  ASSUME NEW t, IsTable(t), NEW keys, NEW vals,
         BucketsOf(t) \subseteq DOMAIN keys, BucketsOf(t) \subseteq DOMAIN vals,
         \A b \in BucketsOf(t) : keys[b] = t.keys[b] /\ vals[b] = t.vals[b]
  PROVE  LET u == Restored(t, keys, vals)
         IN  IsTable(u) /\ u.n_buckets = t.n_buckets /\ Content(u) = Content(t)
<1> DEFINE u == Restored(t, keys, vals)
<1>1. u = [n_buckets |-> t.n_buckets, size |-> t.size, n_occupied |-> t.n_occupied,
           upper_bound |-> t.upper_bound, flags |-> t.flags,
           keys |-> keys, vals |-> vals]
  <2>1. IsRecord(t)
    BY DEF IsTable
  <2>2. QED
    BY <2>1, RestoredIs
<1> HIDE DEF u
<1>2. /\ IsRecord(u) /\ u.n_buckets = t.n_buckets /\ u.size = t.size
      /\ u.n_occupied = t.n_occupied /\ u.upper_bound = t.upper_bound
      /\ u.flags = t.flags /\ u.keys = keys /\ u.vals = vals
  BY <1>1 DEF IsRecord
<1>3. BucketsOf(u) = BucketsOf(t) /\ LiveIn(u) = LiveIn(t) /\ UsedIn(u) = UsedIn(t)
  BY <1>2 DEF BucketsOf, LiveIn, UsedIn
<1>4. \A b \in LiveIn(t) : keys[b] = t.keys[b] /\ vals[b] = t.vals[b]
  BY DEF LiveIn
<1>5. HasRoom(u)
  BY <1>2, <1>3 DEF IsTable, HasRoom
<1>6. Findable(u)
  BY <1>2, <1>3, <1>4 DEF IsTable, Findable
<1>7. Counted(u)
  BY <1>2, <1>3 DEF IsTable, Counted
<1>8. Content(u) = Content(t)
  BY <1>2, <1>3, <1>4 DEF Content
<1>9. QED
  BY <1>2, <1>5, <1>6, <1>7, <1>8 DEF u, IsTable

(* realloc to no less room than the buckets need keeps what they hold. *)
LEMMA ReallocFacts ==
  ASSUME NEW a, NEW m \in Nat, NEW n \in Nat, m <= n, 0..(m - 1) \subseteq DOMAIN a
  PROVE  DOMAIN Realloc(a, n) = 0..(n - 1) /\ \A b \in 0..(m - 1) : Realloc(a, n)[b] = a[b]
BY DEF Realloc

(* A kh_resize that fails leaves the table as it was, except for its storage. *)
LEMMA FailedResizeFacts ==
  ASSUME NEW t, IsTable(t), NEW asked \in Nat, NEW keysMoved \in BOOLEAN,
         ResizeFails(t, asked, keysMoved)
  PROVE  LET u == FailedResize(t, asked, keysMoved)
         IN  IsTable(u) /\ u.n_buckets = t.n_buckets /\ Content(u) = Content(t)
<1>1. CASE ~keysMoved
  BY <1>1 DEF FailedResize
<1>2. CASE keysMoved
  <2> DEFINE n == NewSize(asked)
             keys == Realloc(t.keys, n)
             u == Restored(t, keys, t.vals)
  <2>1. n \in Nat /\ t.n_buckets \in Nat /\ t.n_buckets <= n
    BY <1>2, NewSizeFacts, TableFacts DEF ResizeFails
  <2>2. BucketsOf(t) \subseteq DOMAIN t.keys /\ BucketsOf(t) \subseteq DOMAIN t.vals
    BY DEF IsTable, HasRoom
  <2>3. /\ BucketsOf(t) \subseteq DOMAIN keys
        /\ \A b \in BucketsOf(t) : keys[b] = t.keys[b]
    <3> HIDE DEF n
    <3>1. /\ DOMAIN Realloc(t.keys, n) = 0..(n - 1)
          /\ \A b \in 0..(t.n_buckets - 1) : Realloc(t.keys, n)[b] = t.keys[b]
      BY <2>1, <2>2, ReallocFacts DEF BucketsOf
    <3>2. QED
      BY <2>1, <3>1 DEF BucketsOf
  <2>4. FailedResize(t, asked, keysMoved) = u
    <3>1. FailedResize(t, asked, keysMoved) = [t EXCEPT !.keys = keys]
      BY <1>2 DEF FailedResize
    <3> HIDE DEF keys
    <3>2. IsRecord(t)
      BY DEF IsTable
    <3>3. QED
      BY <3>1, <3>2 DEF IsRecord, Restored
  <2> HIDE DEF keys
  <2>5. IsTable(u) /\ u.n_buckets = t.n_buckets /\ Content(u) = Content(t)
    BY <2>2, <2>3, MovedFacts
  <2>6. QED
    BY <2>4, <2>5
<1>3. QED
  BY <1>1, <1>2

-----------------------------------------------------------------------------
(***************************************************************************)
(* The rehash.  Of its m old buckets some still wait, of its new ones some *)
(* are filled; they are different ones, and with the element in hand, if   *)
(* any, they hold the elements of the table.                               *)
(***************************************************************************)
Waiting(st, m) == {b \in 0..(m - 1) : st.flags[b] = "live"}
Filled(st) == {b \in 0..(st.n - 1) : st.newFlags[b] = "live"}
Holding(st, m) == Waiting(st, m) \cup Filled(st)

WorkFits(st, m) ==
  /\ m \in Nat /\ st.n \in Sizes /\ st.n # 0
  /\ st.flags \in [0..(m - 1) -> {"empty", "deleted", "live"}]
  /\ st.newFlags \in [0..(st.n - 1) -> {"empty", "live"}]
  /\ 0..(m - 1) \subseteq DOMAIN st.keys /\ 0..(st.n - 1) \subseteq DOMAIN st.keys
  /\ 0..(m - 1) \subseteq DOMAIN st.vals /\ 0..(st.n - 1) \subseteq DOMAIN st.vals

WorkApart(st, m, given) ==
  /\ Waiting(st, m) \cap Filled(st) = {}
  /\ given \in SUBSET (Key \X Val)
  /\ \A b \in Holding(st, m) : st.keys[b] \in Key /\ st.vals[b] \in Val
  /\ \A b, c \in Holding(st, m) : st.keys[b] = st.keys[c] => b = c
  /\ \A b \in Holding(st, m), p \in given : st.keys[b] # p[1]

WorkFindable(st) ==
  \A b \in Filled(st) : OnPath(st.newFlags, st.n, st.keys[b], b)

WorkKeeps(st, m, given, elements) ==
  {<<st.keys[b], st.vals[b]>> : b \in Holding(st, m)} \cup given = elements

WorkCounted(st, m, given, size) ==
  /\ size \in Nat /\ size < Upper(st.n)
  /\ Cardinality(Waiting(st, m)) + Cardinality(Filled(st)) + Cardinality(given) = size

Working(st, m, given, elements, size) ==
  /\ WorkFits(st, m) /\ WorkApart(st, m, given) /\ WorkFindable(st)
  /\ WorkKeeps(st, m, given, elements) /\ WorkCounted(st, m, given, size)

LEMMA WorkFinite ==
  ASSUME NEW st, NEW m, WorkFits(st, m)
  PROVE  /\ IsFiniteSet(Waiting(st, m)) /\ Cardinality(Waiting(st, m)) \in Nat
         /\ IsFiniteSet(Filled(st)) /\ Cardinality(Filled(st)) \in Nat
         /\ st.n \in Nat \ {0} /\ Upper(st.n) < st.n
         /\ \E k \in Nat \ {0, 1} : st.n = Shl1[k]
<1>1. m \in Nat /\ st.n \in Nat \ {0} /\ st.n >= 4 /\ \E k \in Nat \ {0, 1} : st.n = Shl1[k]
  BY SizeFacts DEF WorkFits
<1>2. IsFiniteSet(0..(m - 1)) /\ IsFiniteSet(0..(st.n - 1))
  <2>1. 0 \in Int /\ m - 1 \in Int /\ st.n - 1 \in Int
    BY <1>1
  <2>2. QED
    BY <2>1, FS_Interval
<1>3. Waiting(st, m) \in SUBSET (0..(m - 1)) /\ Filled(st) \in SUBSET (0..(st.n - 1))
  BY DEF Waiting, Filled
<1>4. QED
  BY <1>1, <1>2, <1>3, FS_Subset, FS_CardinalityType, UpperFacts

(* An element that is taken up from its old bucket is in hand. *)
ElementAt(st, b) == {<<st.keys[b], st.vals[b]>>}

TakenUp(u, st, src) ==
  /\ u.n = st.n /\ u.newFlags = st.newFlags /\ u.keys = st.keys /\ u.vals = st.vals
  /\ u.flags = [st.flags EXCEPT ![src] = "deleted"]

LEMMA TakeUpFacts ==
  ASSUME NEW st, NEW m, NEW elements, NEW size, Working(st, m, {}, elements, size),
         NEW src \in Waiting(st, m), NEW u, TakenUp(u, st, src)
  PROVE  /\ Working(u, m, ElementAt(st, src), elements, size)
         /\ Waiting(u, m) = Waiting(st, m) \ {src}
<1> USE DEF TakenUp, ElementAt
<1> DEFINE given == {<<st.keys[src], st.vals[src]>>}
<1>1. src \in 0..(m - 1) /\ \A b \in 0..(m - 1) : u.flags[b] = IF b = src THEN "deleted" ELSE st.flags[b]
  BY DEF Waiting, Working, WorkFits
<1>2. Waiting(u, m) = Waiting(st, m) \ {src} /\ Filled(u) = Filled(st)
  BY <1>1 DEF Waiting, Filled
<1>3. src \notin Filled(st)
  BY DEF Working, WorkApart
<1>4. Holding(u, m) = Holding(st, m) \ {src} /\ src \in Holding(st, m)
  BY <1>2, <1>3 DEF Holding
<1>5. WorkFits(u, m)
  BY <1>1 DEF Working, WorkFits
<1>6. WorkApart(u, m, given)
  <2>1. given \in SUBSET (Key \X Val)
    BY <1>4 DEF Working, WorkApart
  <2>2. \A b \in Holding(u, m), p \in given : u.keys[b] # p[1]
    BY <1>4 DEF Working, WorkApart
  <2> HIDE DEF given
  <2>3. QED
    BY <1>2, <1>4, <2>1, <2>2 DEF Working, WorkApart
<1>7. WorkFindable(u)
  BY <1>2 DEF Working, WorkFindable
<1>8. WorkKeeps(u, m, given, elements)
  BY <1>4 DEF Working, WorkKeeps
<1>9. WorkCounted(u, m, given, size)
  <2>1. /\ Cardinality(given) = 1 /\ Cardinality({}) = 0
        /\ Cardinality(Waiting(u, m)) = Cardinality(Waiting(st, m)) - 1
        /\ Cardinality(Waiting(st, m)) \in Nat /\ Cardinality(Filled(st)) \in Nat
    <3>1. /\ IsFiniteSet(Waiting(st, m)) /\ Cardinality(Waiting(st, m)) \in Nat
          /\ Cardinality(Filled(st)) \in Nat
      BY WorkFinite DEF Working
    <3>2. Cardinality(Waiting(st, m) \ {src}) = Cardinality(Waiting(st, m)) - 1
      BY <3>1, FS_RemoveElement
    <3>3. Cardinality(given) = 1 /\ Cardinality({}) = 0
      BY FS_EmptySet, FS_Singleton
    <3>4. QED
      BY <1>2, <3>1, <3>2, <3>3
  <2>2. size \in Nat /\ size < Upper(st.n)
        /\ Cardinality(Waiting(st, m)) + Cardinality(Filled(st)) + Cardinality({}) = size
    BY DEF Working, WorkCounted
  <2> HIDE DEF given
  <2>3. QED
    BY <1>2, <2>1, <2>2 DEF WorkCounted
<1>10. QED
  BY <1>2, <1>5, <1>6, <1>7, <1>8, <1>9 DEF Working

(***************************************************************************)
(* The element in hand goes to an unused bucket on its path.  What waits   *)
(* there, if anything, is in hand next.                                    *)
(***************************************************************************)
NextHand(st, m, spot) == IF spot \in Waiting(st, m) THEN ElementAt(st, spot) ELSE {}

Placed(u, st, m, spot, key, val) ==
  /\ u.n = st.n /\ u.newFlags = [st.newFlags EXCEPT ![spot] = "live"]
  /\ u.keys = [st.keys EXCEPT ![spot] = key] /\ u.vals = [st.vals EXCEPT ![spot] = val]
  /\ u.flags = IF spot \in Waiting(st, m) THEN [st.flags EXCEPT ![spot] = "deleted"] ELSE st.flags

LEMMA PlaceFacts ==
  ASSUME NEW st, NEW m, NEW elements, NEW size, NEW key, NEW val,
         Working(st, m, {<<key, val>>}, elements, size),
         NEW spot \in 0..(st.n - 1), st.newFlags[spot] = "empty",
         OnPath(st.newFlags, st.n, key, spot), NEW u, Placed(u, st, m, spot, key, val)
  PROVE  /\ Working(u, m, NextHand(st, m, spot), elements, size)
         /\ Waiting(u, m) = Waiting(st, m) \ {spot}
<1> USE DEF Placed, ElementAt
<1> DEFINE n == st.n
           W == Waiting(st, m)
           M == Filled(st)
           given == NextHand(st, m, spot)
<1>1. WorkFits(st, m) /\ WorkApart(st, m, {<<key, val>>}) /\ WorkFindable(st)
  BY DEF Working
<1>2. n \in Nat \ {0}
  BY <1>1, WorkFinite
<1>3. /\ \A b \in 0..(m - 1) : u.flags[b] = IF b \in W /\ b = spot THEN "deleted" ELSE st.flags[b]
      /\ u.flags \in [0..(m - 1) -> {"empty", "deleted", "live"}]
  BY <1>1 DEF WorkFits, Waiting
<1>4. /\ \A b \in 0..(n - 1) : u.newFlags[b] = IF b = spot THEN "live" ELSE st.newFlags[b]
      /\ u.newFlags \in [0..(n - 1) -> {"empty", "live"}]
  <2> DEFINE f == st.newFlags
             g == u.newFlags
             D == 0..(n - 1)
  <2>1. f \in [D -> {"empty", "live"}] /\ g = [f EXCEPT ![spot] = "live"] /\ spot \in D
    BY <1>1 DEF WorkFits
  <2> HIDE DEF f, g, D
  <2>2. g \in [D -> {"empty", "live"}] /\ \A b \in D : g[b] = IF b = spot THEN "live" ELSE f[b]
    BY <2>1
  <2>3. QED
    BY <2>2 DEF f, g, D
<1>5. Waiting(u, m) = W \ {spot}
  BY <1>3 DEF Waiting
<1>6. Filled(u) = M \cup {spot} /\ spot \notin M
  BY <1>4 DEF Filled
<1>7. /\ \A b \in DOMAIN st.keys : u.keys[b] = IF b = spot THEN key ELSE st.keys[b]
      /\ \A b \in DOMAIN st.vals : u.vals[b] = IF b = spot THEN val ELSE st.vals[b]
      /\ DOMAIN u.keys = DOMAIN st.keys /\ DOMAIN u.vals = DOMAIN st.vals
  OBVIOUS
<1>8. /\ Holding(st, m) \subseteq DOMAIN st.keys /\ Holding(st, m) \subseteq DOMAIN st.vals
      /\ spot \in DOMAIN st.keys /\ spot \in DOMAIN st.vals
  BY <1>1 DEF WorkFits, Holding, Waiting, Filled
<1>9. Holding(u, m) = Holding(st, m) \cup {spot}
  BY <1>5, <1>6 DEF Holding
<1>10. WorkFits(u, m)
  <2>1. u.n = n
    OBVIOUS
  <2> HIDE DEF n
  <2>2. QED
    BY <1>1, <1>3, <1>4, <1>7, <2>1 DEF WorkFits, n
<1>11. /\ key \in Key /\ val \in Val
       /\ \A b \in Holding(st, m) : st.keys[b] \in Key /\ st.vals[b] \in Val /\ st.keys[b] # key
       /\ \A b, c \in Holding(st, m) : st.keys[b] = st.keys[c] => b = c
       /\ W \cap M = {}
  BY <1>1 DEF WorkApart
<1>12. /\ u.keys[spot] = key /\ u.vals[spot] = val
       /\ \A b \in Holding(st, m) : b # spot => u.keys[b] = st.keys[b] /\ u.vals[b] = st.vals[b]
  BY <1>7, <1>8
<1>13. WorkApart(u, m, given)
  <2>1. Waiting(u, m) \cap Filled(u) = {}
    BY <1>5, <1>6, <1>11
  <2>2. given \in SUBSET (Key \X Val)
    BY <1>11 DEF NextHand, Holding
  <2>3. \A b \in Holding(u, m) : u.keys[b] \in Key /\ u.vals[b] \in Val
    BY <1>9, <1>11, <1>12
  <2>4. \A b, c \in Holding(u, m) : u.keys[b] = u.keys[c] => b = c
    BY <1>9, <1>11, <1>12
  <2>5. \A b \in Holding(u, m), p \in given : u.keys[b] # p[1]
    <3> SUFFICES ASSUME NEW b \in Holding(u, m), spot \in W PROVE u.keys[b] # st.keys[spot]
      BY DEF NextHand
    <3>1. spot \in Holding(st, m)
      BY DEF Holding
    <3>2. QED
      BY <1>9, <1>11, <1>12, <3>1
  <2> HIDE DEF given
  <2>6. QED
    BY <2>1, <2>2, <2>3, <2>4, <2>5 DEF WorkApart
<1>14. WorkFindable(u)
  <2>1. \A c \in 0..(n - 1) : st.newFlags[c] # "empty" => u.newFlags[c] # "empty"
    BY <1>4
  <2>2. \A b, k : k \in Key /\ OnPath(st.newFlags, n, k, b) => OnPath(u.newFlags, n, k, b)
    <3> HIDE DEF n
    <3>1. QED
      BY <1>2, <2>1, PathStays
  <2>3. OnPath(u.newFlags, n, u.keys[spot], spot)
    BY <1>11, <1>12, <2>2
  <2>4. \A b \in M : OnPath(u.newFlags, n, u.keys[b], b)
    <3>1. \A b \in M : b \in Holding(st, m) /\ b # spot
      BY <1>6 DEF Holding
    <3>2. \A b \in M : st.keys[b] \in Key /\ OnPath(st.newFlags, n, st.keys[b], b)
      BY <1>1, <1>11, <3>1 DEF WorkFindable
    <3>3. QED
      BY <1>12, <2>2, <3>1, <3>2
  <2>5. QED
    BY <1>6, <2>3, <2>4 DEF WorkFindable
<1>15. WorkKeeps(u, m, given, elements)
  <2> DEFINE old == {<<st.keys[b], st.vals[b]>> : b \in Holding(st, m)}
             new == {<<u.keys[b], u.vals[b]>> : b \in Holding(u, m)}
  <2>1. old \cup {<<key, val>>} = elements
    BY DEF Working, WorkKeeps
  <2>2. new \subseteq old \cup {<<key, val>>}
    BY <1>9, <1>12
  <2>3. given \subseteq old
    BY DEF NextHand, Holding
  <2>4. <<key, val>> \in new
    BY <1>9, <1>12
  <2>5. old \subseteq new \cup given
    <3> SUFFICES ASSUME NEW b \in Holding(st, m)
                 PROVE  <<st.keys[b], st.vals[b]>> \in new \cup given
      OBVIOUS
    <3>1. CASE b = spot
      <4>1. spot \in W
        BY <1>6, <3>1 DEF Holding
      <4>2. QED
        BY <3>1, <4>1 DEF NextHand
    <3>2. CASE b # spot
      BY <1>9, <1>12, <3>2
    <3>3. QED
      BY <3>1, <3>2
  <2>6. new \cup given = elements
    <3> HIDE DEF old, new, given
    <3>1. QED
      BY <2>1, <2>2, <2>3, <2>4, <2>5
  <2>7. QED
    BY <2>6 DEF WorkKeeps
<1>16. WorkCounted(u, m, given, size)
  <2>1. /\ IsFiniteSet(W) /\ Cardinality(W) \in Nat
        /\ IsFiniteSet(M) /\ Cardinality(M) \in Nat
    BY <1>1, WorkFinite
  <2>2. Cardinality(Filled(u)) = Cardinality(M) + 1
    <3>1. Cardinality(M \cup {spot}) = Cardinality(M) + 1
      BY <1>6, <2>1, FS_AddElement
    <3>2. QED
      BY <1>6, <3>1
  <2>3. Cardinality(Waiting(u, m)) + Cardinality(given) = Cardinality(W)
    <3>1. CASE spot \in W
      <4>1. Cardinality(W \ {spot}) = Cardinality(W) - 1
        BY <2>1, <3>1, FS_RemoveElement
      <4>2. Cardinality(given) = 1
        BY <3>1, FS_Singleton DEF NextHand
      <4>3. QED
        BY <1>5, <2>1, <4>1, <4>2
    <3>2. CASE spot \notin W
      <4>1. W \ {spot} = W /\ given = {} /\ Cardinality(given) = 0
        BY <3>2, FS_EmptySet DEF NextHand
      <4> HIDE DEF W, given
      <4>2. Waiting(u, m) = W
        BY <1>5, <4>1
      <4>3. QED
        BY <2>1, <4>1, <4>2
    <3>3. QED
      BY <3>1, <3>2
  <2>4. /\ size \in Nat /\ size < Upper(n) /\ Cardinality(W) + Cardinality(M) + 1 = size
    <3>1. Cardinality({<<key, val>>}) = 1
      BY FS_Singleton
    <3>2. QED
      BY <3>1 DEF Working, WorkCounted
  <2>5. /\ Cardinality(given) \in Nat /\ Cardinality(Waiting(u, m)) \in Nat
    <3>1. IsFiniteSet(given)
      BY FS_EmptySet, FS_Singleton DEF NextHand
    <3>2. QED
      BY <1>10, <3>1, WorkFinite, FS_CardinalityType
  <2> HIDE DEF W, M, given, n
  <2>6. Cardinality(Waiting(u, m)) + Cardinality(Filled(u)) + Cardinality(given) = size
    BY <2>1, <2>2, <2>3, <2>4, <2>5
  <2>7. u.n = n
    BY DEF n
  <2>8. QED
    BY <2>4, <2>6, <2>7 DEF WorkCounted
<1>17. QED
  BY <1>5, <1>10, <1>13, <1>14, <1>15, <1>16 DEF Working

(* One bucket of the new table at least is unused, and on the way of the probe. *)
LEMMA UnusedAhead ==
  ASSUME NEW st, NEW m, NEW elements, NEW size, NEW key, NEW val,
         Working(st, m, {<<key, val>>}, elements, size)
  PROVE  \E s \in 0..(st.n - 1) : st.newFlags[Probe(key, s, st.n)] = "empty"
<1> DEFINE n == st.n
<1>1. WorkFits(st, m) /\ key \in Key
  BY DEF Working, WorkApart
<1>2. /\ n \in Nat \ {0} /\ Cardinality(Filled(st)) \in Nat /\ Upper(n) < n /\ Upper(n) \in Nat
      /\ Cardinality(Waiting(st, m)) \in Nat
  BY <1>1, WorkFinite, UpperFacts
<1>3. PICK k \in Nat \ {0, 1} : n = Shl1[k]
  BY <1>1, WorkFinite
<1>4. \E e \in 0..(n - 1) : st.newFlags[e] = "empty"
  <2> SUFFICES ASSUME \A e \in 0..(n - 1) : st.newFlags[e] # "empty" PROVE FALSE
    OBVIOUS
  <2>1. Filled(st) = 0..(n - 1)
    BY <1>1 DEF WorkFits, Filled
  <2>2. Cardinality(0..(n - 1)) = n
    <3> HIDE DEF n
    <3>1. 0 \in Int /\ n - 1 \in Int
      BY <1>2
    <3>2. Cardinality(0..(n - 1)) = IF 0 > n - 1 THEN 0 ELSE (n - 1) - 0 + 1
      BY <3>1, FS_Interval
    <3>3. QED
      BY <1>2, <3>2
  <2>3. Cardinality({<<key, val>>}) = 1
    BY FS_Singleton
  <2>4. /\ size \in Nat /\ size < Upper(n)
        /\ Cardinality(Waiting(st, m)) + Cardinality(Filled(st)) + 1 = size
    BY <2>3 DEF Working, WorkCounted
  <2> HIDE DEF n
  <2>5. QED
    BY <1>2, <2>1, <2>2, <2>4
<1>5. PICK e \in 0..(n - 1) : st.newFlags[e] = "empty"
  BY <1>4
<1>6. PICK s \in 0..(n - 1) : Probe(key, s, n) = e
  <2>1. e \in 0..(Shl1[k] - 1)
    BY <1>3
  <2>2. \E s \in 0..(Shl1[k] - 1) : Probe(key, s, Shl1[k]) = e
    BY <1>1, <2>1, ProbeCovers
  <2>3. QED
    BY <1>3, <2>2
<1>7. QED
  BY <1>5, <1>6

(* So the loop of the probe ends, at a bucket that the element may have. *)
FreeBucket(st, key) ==
  LET free == {s \in Nat : st.newFlags[Probe(key, s, st.n)] = "empty"}
  IN  Probe(key, LeastStep(st.n, free), st.n)

LEMMA FreeBucketFacts ==
  ASSUME NEW st, NEW m, NEW elements, NEW size, NEW key, NEW val,
         Working(st, m, {<<key, val>>}, elements, size)
  PROVE  /\ FreeBucket(st, key) \in 0..(st.n - 1)
         /\ st.newFlags[FreeBucket(st, key)] = "empty"
         /\ OnPath(st.newFlags, st.n, key, FreeBucket(st, key))
<1> DEFINE n == st.n
           free == {s \in Nat : st.newFlags[Probe(key, s, n)] = "empty"}
           w == LeastStep(n, free)
<1>1. WorkFits(st, m) /\ key \in Key
  BY DEF Working, WorkApart
<1>2. n \in Nat \ {0}
  BY <1>1, WorkFinite
<1>6. PICK s \in 0..(n - 1) : st.newFlags[Probe(key, s, n)] = "empty"
  BY UnusedAhead
<1>7. s \in free /\ s \in 0..(2 * n - 1)
  BY <1>2, <1>6
<1> HIDE DEF n, free
<1>8. w \in 0..s /\ w \in free /\ \A r \in 0..(w - 1) : r \notin free
  BY <1>2, <1>7, LeastStepFacts
<1> HIDE DEF w
<1>9. w \in 0..(n - 1) /\ \A r \in 0..(w - 1) : st.newFlags[Probe(key, r, n)] # "empty"
  BY <1>2, <1>6, <1>8 DEF free
<1>10. Probe(key, w, n) \in 0..(n - 1)
  BY <1>1, <1>2, <1>9, ProbeInRange
<1>11. st.newFlags[Probe(key, w, n)] = "empty"
  BY <1>8 DEF free
<1>12. OnPath(st.newFlags, n, key, Probe(key, w, n))
  BY <1>9 DEF OnPath
<1>13. QED
  BY <1>10, <1>11, <1>12 DEF n, w, free, FreeBucket

-----------------------------------------------------------------------------
(* The rounds of the kick-out loop. *)
IsWork(st) ==
  {"key", "val", "flags", "newFlags", "keys", "vals", "n", "done", "left"} \subseteq DOMAIN st

HandOf(st) == IF st.done THEN {} ELSE {<<st.key, st.val>>}

AtRound(st, m, elements, size) ==
  IsWork(st) /\ st.done \in BOOLEAN /\ Working(st, m, HandOf(st), elements, size)

(* What a round does. *)
LEMMA KickOutIs ==
  ASSUME NEW st, IsWork(st), ~st.done
  PROVE  LET u     == KickOut(st)
             spot     == FreeBucket(st, st.key)
             kicks == spot \in DOMAIN st.flags /\ st.flags[spot] = "live"
         IN  /\ u.newFlags = [st.newFlags EXCEPT ![spot] = "live"]
             /\ u.keys = [st.keys EXCEPT ![spot] = st.key] /\ u.key = st.keys[spot]
             /\ u.vals = [st.vals EXCEPT ![spot] = st.val] /\ u.val = st.vals[spot]
             /\ u.flags = IF kicks THEN [st.flags EXCEPT ![spot] = "deleted"] ELSE st.flags
             /\ u.done = ~kicks
             /\ u.n = st.n /\ u.left = st.left /\ DOMAIN u = DOMAIN st
<1> DEFINE key == st.key
           val == st.val
           spot == FreeBucket(st, key)
           kicks == spot \in DOMAIN st.flags /\ st.flags[spot] = "live"
           marks == [st.newFlags EXCEPT ![spot] = "live"]
           keys == [st.keys EXCEPT ![spot] = key]
           vals == [st.vals EXCEPT ![spot] = val]
           flags == IF kicks THEN [st.flags EXCEPT ![spot] = "deleted"] ELSE st.flags
           u == KickOut(st)
<1>1. u = [st EXCEPT !.newFlags = marks, !.keys = keys, !.key = st.keys[spot],
                     !.vals = vals, !.val = st.vals[spot], !.flags = flags, !.done = ~kicks]
  BY DEF KickOut, ValKicked, MarkDeleted, FreeBucket
<1> HIDE DEF marks, keys, vals, flags, u, spot, kicks, key, val
<1>2. /\ u.newFlags = marks /\ u.keys = keys /\ u.key = st.keys[spot] /\ u.vals = vals
      /\ u.val = st.vals[spot] /\ u.flags = flags /\ u.done = ~kicks
      /\ u.n = st.n /\ u.left = st.left /\ DOMAIN u = DOMAIN st
  BY <1>1 DEF IsWork
<1>3. QED
  BY <1>2 DEF marks, keys, vals, flags, u, spot, kicks, key, val

(* A round goes on with one waiting element less, or it was the last. *)
LEMMA KickOutFacts ==
  ASSUME NEW st, NEW m, NEW elements, NEW size, AtRound(st, m, elements, size)
  PROVE  LET u == KickOut(st)
         IN  /\ AtRound(u, m, elements, size)
             /\ u.n = st.n /\ u.left = st.left
             /\ Waiting(u, m) \subseteq Waiting(st, m)
             /\ st.done => u = st
             /\ ~u.done => ~st.done /\ Cardinality(Waiting(u, m)) + 1 = Cardinality(Waiting(st, m))
<1>1. CASE st.done
  <2>1. KickOut(st) = st
    BY <1>1 DEF KickOut
  <2>2. QED
    BY <1>1, <2>1
<1>2. CASE ~st.done
  <2> DEFINE key == st.key
             val == st.val
             spot == FreeBucket(st, key)
             kicks == spot \in DOMAIN st.flags /\ st.flags[spot] = "live"
             marks == [st.newFlags EXCEPT ![spot] = "live"]
             keys == [st.keys EXCEPT ![spot] = key]
             vals == [st.vals EXCEPT ![spot] = val]
             flags == IF kicks THEN [st.flags EXCEPT ![spot] = "deleted"] ELSE st.flags
             u == KickOut(st)
  <2>1. Working(st, m, {<<key, val>>}, elements, size) /\ IsWork(st)
    BY <1>2 DEF AtRound, HandOf
  <2>2. /\ spot \in 0..(st.n - 1) /\ st.newFlags[spot] = "empty"
        /\ OnPath(st.newFlags, st.n, key, spot)
    <3> HIDE DEF key, val
    <3>1. QED
      BY <2>1, FreeBucketFacts
  <2>4. kicks <=> spot \in Waiting(st, m)
    <3>1. DOMAIN st.flags = 0..(m - 1)
      BY <2>1 DEF Working, WorkFits
    <3>2. QED
      BY <3>1 DEF Waiting
  <2>5. flags = IF spot \in Waiting(st, m) THEN [st.flags EXCEPT ![spot] = "deleted"] ELSE st.flags
    BY <2>4
  <2>6. /\ u.newFlags = marks /\ u.keys = keys /\ u.key = st.keys[spot] /\ u.vals = vals
        /\ u.val = st.vals[spot] /\ u.flags = flags /\ u.done = ~kicks
        /\ u.n = st.n /\ u.left = st.left /\ DOMAIN u = DOMAIN st
    BY <1>2, <2>1, KickOutIs
  <2> HIDE DEF marks, keys, vals, flags, u, spot, kicks, key, val
  <2>7. /\ Working(u, m, NextHand(st, m, spot), elements, size)
        /\ Waiting(u, m) = Waiting(st, m) \ {spot}
    <3>1. Placed(u, st, m, spot, key, val)
      BY <2>5, <2>6 DEF Placed, marks, keys, vals
    <3>2. Working(st, m, {<<key, val>>}, elements, size)
      BY <2>1
    <3>3. QED
      BY ONLY <2>2, <3>1, <3>2, PlaceFacts
  <2>8. u.done \in BOOLEAN /\ HandOf(u) = NextHand(st, m, spot)
    BY <2>4, <2>6 DEF HandOf, NextHand, ElementAt
  <2>9. AtRound(u, m, elements, size)
    BY <2>1, <2>6, <2>7, <2>8 DEF AtRound, IsWork
  <2>10. ~u.done => Cardinality(Waiting(u, m)) + 1 = Cardinality(Waiting(st, m))
    <3> SUFFICES ASSUME ~u.done
                 PROVE  Cardinality(Waiting(u, m)) + 1 = Cardinality(Waiting(st, m))
      OBVIOUS
    <3>1. spot \in Waiting(st, m)
      BY <2>4, <2>6
    <3>2. IsFiniteSet(Waiting(st, m)) /\ Cardinality(Waiting(st, m)) \in Nat
      BY <2>1, WorkFinite DEF Working
    <3>3. Cardinality(Waiting(st, m) \ {spot}) = Cardinality(Waiting(st, m)) - 1
      BY <3>1, <3>2, FS_RemoveElement
    <3>4. QED
      BY <2>7, <3>2, <3>3
  <2>11. Waiting(u, m) \subseteq Waiting(st, m)
    BY <2>7
  <2>12. QED
    BY <1>2, <2>6, <2>9, <2>10, <2>11 DEF u
<1>3. QED
  BY <1>1, <1>2

(* The states of the loop, round by round. *)
Rounds(f, st, count) ==
  f = [round \in 0..count |-> IF round = 0 THEN st ELSE KickOut(f[round - 1])]

LEMMA RoundsExist ==
  ASSUME NEW st, st.left \in Nat
  PROVE  \E f : Rounds(f, st, st.left + 1) /\ KickOuts(st) = f[st.left + 1]
<1> DEFINE Good == {n \in Nat : \E f : Rounds(f, st, n)}
<1>1. 0 \in Good
  <2>1. Rounds([round \in 0..0 |-> st], st, 0)
    BY DEF Rounds
  <2>2. QED
    BY <2>1
<1>2. ASSUME NEW n \in Nat, n \in Good PROVE n + 1 \in Good
  <2>1. PICK f : Rounds(f, st, n)
    BY <1>2
  <2> DEFINE g == [r \in 0..(n + 1) |-> IF r <= n THEN f[r] ELSE KickOut(f[n])]
  <2>2. \A r \in 0..n : f[r] = IF r = 0 THEN st ELSE KickOut(f[r - 1])
    BY <2>1 DEF Rounds
  <2>3. \A r \in 0..(n + 1) : g[r] = IF r = 0 THEN st ELSE KickOut(g[r - 1])
    <3> SUFFICES ASSUME NEW r \in 0..(n + 1)
                 PROVE  g[r] = IF r = 0 THEN st ELSE KickOut(g[r - 1])
      OBVIOUS
    <3>1. CASE r <= n
      BY <2>2, <3>1
    <3>2. CASE r = n + 1
      <4>1. g[r] = KickOut(f[n]) /\ g[r - 1] = f[n] /\ r # 0
        BY <3>2
      <4>2. QED
        BY <4>1
    <3>3. QED
      BY <3>1, <3>2
  <2>4. g = [r \in 0..(n + 1) |-> IF r = 0 THEN st ELSE KickOut(g[r - 1])]
    BY <2>3
  <2> HIDE DEF g
  <2>5. Rounds(g, st, n + 1)
    BY <2>4 DEF Rounds
  <2>6. QED
    BY <2>5
<1> HIDE DEF Good
<1>3. \A n \in Nat : n \in Good
  BY <1>1, <1>2, SetInduction
<1> DEFINE after == CHOOSE f : Rounds(f, st, st.left + 1)
<1>4. \E f : Rounds(f, st, st.left + 1)
  <2>1. st.left + 1 \in Good
    BY <1>3
  <2>2. QED
    BY <2>1 DEF Good
<1>5. Rounds(after, st, st.left + 1)
  BY <1>4
<1>6. KickOuts(st) = after[st.left + 1]
  BY DEF KickOuts, Rounds
<1>7. QED
  BY <1>5, <1>6

(* After r rounds, of which none was the last, r elements less wait. *)
IsRound(u, r, st, m, elements, size) ==
  /\ AtRound(u, m, elements, size) /\ u.n = st.n /\ u.left = st.left
  /\ Waiting(u, m) \subseteq Waiting(st, m)
  /\ ~u.done => Cardinality(Waiting(u, m)) + r <= Cardinality(Waiting(st, m))

LEMMA RoundsFacts ==
  ASSUME NEW st, NEW m, NEW elements, NEW size, AtRound(st, m, elements, size),
         NEW count \in Nat, NEW f, Rounds(f, st, count)
  PROVE  /\ f[0] = st
         /\ \A r \in 0..count : IsRound(f[r], r, st, m, elements, size)
         /\ \A r \in 1..count : f[r] = KickOut(f[r - 1])
<1> DEFINE w == Cardinality(Waiting(st, m))
           Fine(u, r) == IsRound(u, r, st, m, elements, size)
           Good == {r \in Nat : r <= count => Fine(f[r], r)}
<1>1. w \in Nat
  BY WorkFinite DEF AtRound, Working
<1>2. /\ f[0] = st
      /\ \A r \in 1..count : f[r] = KickOut(f[r - 1])
  BY DEF Rounds
<1>3. 0 \in Good
  <2>1. Fine(st, 0)
    BY <1>1 DEF IsRound
  <2> HIDE DEF Fine
  <2>2. QED
    BY <1>2, <2>1
<1>4. ASSUME NEW r \in Nat, r \in Good PROVE r + 1 \in Good
  <2> SUFFICES ASSUME r + 1 <= count PROVE Fine(f[r + 1], r + 1)
    OBVIOUS
  <2>1. f[r + 1] = KickOut(f[r]) /\ Fine(f[r], r)
    <3>1. r + 1 \in 1..count /\ (r + 1) - 1 = r /\ r <= count
      OBVIOUS
    <3> HIDE DEF Fine
    <3>2. QED
      BY <1>2, <1>4, <3>1
  <2> DEFINE v == f[r]
             u == KickOut(v)
  <2> HIDE DEF v
  <2>2. /\ AtRound(u, m, elements, size)
        /\ u.n = v.n /\ u.left = v.left
        /\ Waiting(u, m) \subseteq Waiting(v, m)
        /\ ~u.done => ~v.done /\ Cardinality(Waiting(u, m)) + 1 = Cardinality(Waiting(v, m))
    <3>1. AtRound(v, m, elements, size)
      BY <2>1 DEF v, IsRound
    <3>2. QED
      BY <3>1, KickOutFacts
  <2> HIDE DEF u
  <2>3. /\ v.n = st.n /\ v.left = st.left /\ Waiting(v, m) \subseteq Waiting(st, m)
        /\ ~v.done => Cardinality(Waiting(v, m)) + r <= w
        /\ Cardinality(Waiting(v, m)) \in Nat
    BY <2>1, WorkFinite DEF v, IsRound, AtRound, Working
  <2>4. Cardinality(Waiting(u, m)) \in Nat
    BY <2>2, WorkFinite DEF AtRound, Working
  <2> HIDE DEF w
  <2>5. ~u.done => Cardinality(Waiting(u, m)) + (r + 1) <= w
    BY <1>1, <2>2, <2>3, <2>4
  <2>6. Fine(u, r + 1)
    BY <2>2, <2>3, <2>5 DEF IsRound, w
  <2>7. QED
    BY <2>1, <2>6 DEF u, v
<1> HIDE DEF Good, Fine
<1>5. \A r \in Nat : r \in Good
  BY <1>3, <1>4, SetInduction
<1>6. \A r \in 0..count : Fine(f[r], r)
  BY <1>5 DEF Good
<1>7. QED
  BY <1>2, <1>6 DEF Fine

(* The loop ends: there are no more rounds than elements that wait, and one. *)
LEMMA KickOutsFacts ==
  ASSUME NEW st, NEW m, NEW elements, NEW size, AtRound(st, m, elements, size),
         st.left \in Nat, Cardinality(Waiting(st, m)) <= st.left
  PROVE  LET u == KickOuts(st)
         IN  /\ AtRound(u, m, elements, size) /\ u.done
             /\ u.n = st.n /\ u.left = st.left
             /\ Waiting(u, m) \subseteq Waiting(st, m)
<1> DEFINE k == st.left + 1
           w == Cardinality(Waiting(st, m))
           u == KickOuts(st)
<1>1. k \in Nat /\ w \in Nat /\ w < k
  BY WorkFinite DEF AtRound, Working
<1>2. PICK f : Rounds(f, st, k) /\ u = f[k]
  BY RoundsExist
<1> HIDE DEF k, u, w
<1>3. IsRound(u, k, st, m, elements, size)
  <2>1. \A r \in 0..k : IsRound(f[r], r, st, m, elements, size)
    BY <1>1, <1>2, RoundsFacts
  <2>2. QED
    BY <1>1, <1>2, <2>1
<1>4. Cardinality(Waiting(u, m)) \in Nat /\ (~u.done => Cardinality(Waiting(u, m)) + k <= w)
  BY <1>3, WorkFinite DEF IsRound, AtRound, Working, w
<1>5. u.done
  BY <1>1, <1>4
<1>6. QED
  BY <1>3, <1>5 DEF IsRound, u

-----------------------------------------------------------------------------
(* The loop over the old buckets, with no element in hand between its steps. *)
AtRest(st, m, elements, size) ==
  AtRound(st, m, elements, size) /\ st.done /\ st.left = size

(* The start of the rounds for the element of bucket j. *)
Lifted(st, src) ==
  [st EXCEPT !.flags = MarkDeleted(@, src), !.done = FALSE,
             !.key = st.keys[src], !.val = st.vals[src]]

IsLifted(u, st, src, m, elements, size) ==
  /\ u.flags = [st.flags EXCEPT ![src] = "deleted"] /\ u.newFlags = st.newFlags
  /\ u.keys = st.keys /\ u.vals = st.vals /\ u.n = st.n /\ u.left = size
  /\ u.key = st.keys[src] /\ u.val = st.vals[src] /\ ~u.done
  /\ AtRound(u, m, elements, size) /\ u.left \in Nat
  /\ Waiting(u, m) = Waiting(st, m) \ {src}
  /\ Cardinality(Waiting(u, m)) + 1 <= u.left

LEMMA LiftedFacts ==
  ASSUME NEW st, NEW m, NEW elements, NEW size, AtRest(st, m, elements, size),
         NEW src \in 0..(m - 1), st.flags[src] = "live"
  PROVE  IsLifted(Lifted(st, src), st, src, m, elements, size)
<1> DEFINE key == st.keys[src]
           val == st.vals[src]
           flags == [st.flags EXCEPT ![src] = "deleted"]
           u == Lifted(st, src)
<1>1. src \in Waiting(st, m)
  BY DEF Waiting
<1>2. IsWork(st) /\ st.left = size /\ Working(st, m, {}, elements, size)
  BY DEF AtRest, AtRound, HandOf
<1>3. u = [st EXCEPT !.flags = flags, !.done = FALSE, !.key = key, !.val = val]
  BY DEF Lifted, MarkDeleted
<1> HIDE DEF key, val, flags, u
<1>4. /\ u.flags = flags /\ u.done = FALSE /\ u.key = key /\ u.val = val
      /\ u.n = st.n /\ u.newFlags = st.newFlags /\ u.keys = st.keys
      /\ u.vals = st.vals /\ u.left = size /\ DOMAIN u = DOMAIN st
  BY <1>2, <1>3 DEF IsWork
<1>5. /\ Working(u, m, {<<key, val>>}, elements, size)
      /\ Waiting(u, m) = Waiting(st, m) \ {src}
  <2>1. TakenUp(u, st, src)
    BY <1>4 DEF TakenUp, flags
  <2>2. /\ Working(u, m, ElementAt(st, src), elements, size)
        /\ Waiting(u, m) = Waiting(st, m) \ {src}
    BY <1>1, <1>2, <2>1, TakeUpFacts
  <2>3. QED
    BY <2>2 DEF key, val, ElementAt
<1>6. AtRound(u, m, elements, size)
  BY <1>2, <1>4, <1>5 DEF AtRound, IsWork, HandOf
<1>7. u.left \in Nat /\ Cardinality(Waiting(u, m)) + 1 <= u.left
  <2>1. /\ Cardinality(Waiting(u, m)) \in Nat /\ Cardinality(Filled(u)) \in Nat
    BY <1>5, WorkFinite DEF Working
  <2>2. Cardinality({<<key, val>>}) = 1
    BY FS_Singleton
  <2>3. /\ size \in Nat
        /\ Cardinality(Waiting(u, m)) + Cardinality(Filled(u)) + 1 = size
    BY <1>5, <2>2 DEF Working, WorkCounted
  <2>4. QED
    BY <1>4, <2>1, <2>3
<1>8. QED
  <2>1. IsLifted(u, st, src, m, elements, size)
    BY <1>4, <1>5, <1>6, <1>7 DEF IsLifted, key, val, flags
  <2>2. QED
    BY <2>1 DEF u

LEMMA MoveFacts ==
  ASSUME NEW st, NEW m, NEW elements, NEW size, AtRest(st, m, elements, size),
         NEW src \in 0..(m - 1)
  PROVE  LET u == Move(st, src)
         IN  /\ AtRest(u, m, elements, size) /\ u.n = st.n
             /\ Waiting(u, m) \subseteq Waiting(st, m) \ {src}
<1>1. CASE st.flags[src] # "live"
  <2>1. Move(st, src) = st /\ src \notin Waiting(st, m)
    BY <1>1 DEF Move, Waiting
  <2>2. QED
    BY <2>1
<1>2. CASE st.flags[src] = "live"
  <2> DEFINE u == Lifted(st, src)
             v == KickOuts(u)
  <2>1. Move(st, src) = v
    BY <1>2 DEF Move, Lifted
  <2>2. /\ AtRound(u, m, elements, size) /\ u.left \in Nat
        /\ u.n = st.n /\ u.left = size
        /\ Waiting(u, m) = Waiting(st, m) \ {src}
        /\ Cardinality(Waiting(u, m)) + 1 <= u.left
    <3>1. IsLifted(u, st, src, m, elements, size)
      BY <1>2, LiftedFacts
    <3>2. QED
      BY <3>1 DEF IsLifted
  <2> HIDE DEF u
  <2>3. Cardinality(Waiting(u, m)) <= u.left
    <3>1. Cardinality(Waiting(u, m)) \in Nat
      BY <2>2, WorkFinite DEF AtRound, Working
    <3>2. QED
      BY <2>2, <3>1
  <2>4. /\ AtRound(v, m, elements, size) /\ v.done
        /\ v.n = u.n /\ v.left = u.left
        /\ Waiting(v, m) \subseteq Waiting(u, m)
    BY <2>2, <2>3, KickOutsFacts
  <2> HIDE DEF v
  <2>5. AtRest(v, m, elements, size) /\ v.n = st.n
        /\ Waiting(v, m) \subseteq Waiting(st, m) \ {src}
    BY <2>2, <2>4 DEF AtRest
  <2>6. QED
    BY <2>1, <2>5
<1>3. QED
  BY <1>1, <1>2

(* The states of the loop, bucket by bucket. *)
Moves(f, st, count) ==
  f = [src \in 0..count |-> IF src = 0 THEN st ELSE Move(f[src - 1], src - 1)]

LEMMA MovesExist ==
  ASSUME NEW st, NEW m \in Nat
  PROVE  \E f : Moves(f, st, m) /\ MoveEach(st, m) = f[m]
<1> DEFINE Good == {n \in Nat : \E f : Moves(f, st, n)}
<1>1. 0 \in Good
  <2>1. Moves([src \in 0..0 |-> st], st, 0)
    BY DEF Moves
  <2>2. QED
    BY <2>1
<1>2. ASSUME NEW n \in Nat, n \in Good PROVE n + 1 \in Good
  <2>1. PICK f : Moves(f, st, n)
    BY <1>2
  <2> DEFINE g == [src \in 0..(n + 1) |-> IF src <= n THEN f[src] ELSE Move(f[n], n)]
  <2>2. \A src \in 0..n : f[src] = IF src = 0 THEN st ELSE Move(f[src - 1], src - 1)
    BY <2>1 DEF Moves
  <2>3. \A src \in 0..(n + 1) : g[src] = IF src = 0 THEN st ELSE Move(g[src - 1], src - 1)
    <3> SUFFICES ASSUME NEW src \in 0..(n + 1)
                 PROVE  g[src] = IF src = 0 THEN st ELSE Move(g[src - 1], src - 1)
      OBVIOUS
    <3>1. CASE src <= n
      BY <2>2, <3>1
    <3>2. CASE src = n + 1
      <4>1. g[src] = Move(f[n], n) /\ g[src - 1] = f[n] /\ src # 0 /\ src - 1 = n
        BY <3>2
      <4>2. QED
        BY <4>1
    <3>3. QED
      BY <3>1, <3>2
  <2>4. g = [src \in 0..(n + 1) |-> IF src = 0 THEN st ELSE Move(g[src - 1], src - 1)]
    BY <2>3
  <2> HIDE DEF g
  <2>5. Moves(g, st, n + 1)
    BY <2>4 DEF Moves
  <2>6. QED
    BY <2>5
<1> HIDE DEF Good
<1>3. m \in Good
  BY <1>1, <1>2, SetInduction
<1> DEFINE moves == CHOOSE f : Moves(f, st, m)
<1>4. Moves(moves, st, m)
  BY <1>3 DEF Good
<1>5. MoveEach(st, m) = moves[m]
  BY DEF MoveEach, Moves
<1>6. QED
  BY <1>4, <1>5

(* After the loop has passed bucket j, it does not wait any more. *)
LEMMA MovesFacts ==
  ASSUME NEW st, NEW m, NEW elements, NEW size, AtRest(st, m, elements, size),
         NEW f, Moves(f, st, m)
  PROVE  /\ f[0] = st
         /\ \A src \in 1..m : f[src] = Move(f[src - 1], src - 1)
         /\ \A src \in 0..m : /\ AtRest(f[src], m, elements, size) /\ f[src].n = st.n
                            /\ \A b \in 0..(src - 1) : b \notin Waiting(f[src], m)
<1>1. m \in Nat
  BY DEF AtRest, AtRound, Working, WorkFits
<1> DEFINE Fine(u, src) ==
             /\ AtRest(u, m, elements, size) /\ u.n = st.n
             /\ \A b \in 0..(src - 1) : b \notin Waiting(u, m)
           Good == {src \in Nat : src <= m => Fine(f[src], src)}
<1>2. /\ f[0] = st
      /\ \A src \in 1..m : f[src] = Move(f[src - 1], src - 1)
  BY <1>1 DEF Moves
<1>3. 0 \in Good
  BY <1>2
<1>4. ASSUME NEW src \in Nat, src \in Good PROVE src + 1 \in Good
  <2> SUFFICES ASSUME src + 1 <= m PROVE Fine(f[src + 1], src + 1)
    OBVIOUS
  <2> DEFINE v == f[src]
             u == Move(v, src)
  <2>1. f[src + 1] = u /\ Fine(v, src) /\ src \in 0..(m - 1)
    <3>1. src + 1 \in 1..m /\ (src + 1) - 1 = src /\ src <= m
      BY <1>1
    <3>2. f[src + 1] = Move(f[(src + 1) - 1], (src + 1) - 1)
      BY <1>2, <3>1
    <3>3. QED
      BY <1>1, <1>4, <3>1, <3>2
  <2> HIDE DEF v
  <2>2. /\ AtRest(u, m, elements, size) /\ u.n = v.n
        /\ Waiting(u, m) \subseteq Waiting(v, m) \ {src}
    BY <2>1, MoveFacts
  <2> HIDE DEF u
  <2>3. QED
    BY <1>1, <2>1, <2>2
<1> HIDE DEF Good
<1>5. \A src \in Nat : src \in Good
  BY <1>3, <1>4, SetInduction
<1>6. \A src \in 0..m : Fine(f[src], src)
  BY <1>1, <1>5 DEF Good
<1>7. QED
  BY <1>2, <1>6

(* After the loop no old bucket waits. *)
LEMMA MoveEachFacts ==
  ASSUME NEW st, NEW m, NEW elements, NEW size, AtRest(st, m, elements, size)
  PROVE  LET u == MoveEach(st, m)
         IN  AtRest(u, m, elements, size) /\ u.n = st.n /\ Waiting(u, m) = {}
<1>1. m \in Nat /\ m \in 0..m
  BY DEF AtRest, AtRound, Working, WorkFits
<1>2. PICK f : Moves(f, st, m) /\ MoveEach(st, m) = f[m]
  BY <1>1, MovesExist
<1>3. /\ AtRest(f[m], m, elements, size) /\ f[m].n = st.n
      /\ \A b \in 0..(m - 1) : b \notin Waiting(f[m], m)
  BY <1>1, <1>2, MovesFacts
<1>4. Waiting(f[m], m) = {}
  BY <1>3 DEF Waiting
<1>5. QED
  BY <1>2, <1>3, <1>4

-----------------------------------------------------------------------------
(* Where kh_resize starts its loop, and the table it ends with. *)
Started(t, n) ==
  [key |-> MISSING, flags |-> t.flags,
   keys |-> IF t.n_buckets < n THEN Realloc(t.keys, n) ELSE t.keys,
   vals |-> IF t.n_buckets < n THEN Realloc(t.vals, n) ELSE t.vals,
   val |-> MISSING, n |-> n, newFlags |-> AllEmpty(n), done |-> TRUE, left |-> t.size]

Finished(size, n, flags, keys, vals) ==
  [n_buckets |-> n, size |-> size, n_occupied |-> size, upper_bound |-> Upper(n),
   flags |-> flags, keys |-> keys, vals |-> vals]

LEMMA StartFacts ==
  ASSUME NEW t, IsTable(t), NEW n \in Sizes, n # 0, t.size < Upper(n)
  PROVE  AtRest(Started(t, n), t.n_buckets, Content(t), t.size)
<1> DEFINE m == t.n_buckets
           st == Started(t, n)
           keys == IF m < n THEN Realloc(t.keys, n) ELSE t.keys
           vals == IF m < n THEN Realloc(t.vals, n) ELSE t.vals
<1>1. /\ IsWork(st) /\ st.flags = t.flags /\ st.keys = keys /\ st.vals = vals
      /\ st.n = n /\ st.newFlags = AllEmpty(n) /\ st.done = TRUE /\ st.left = t.size
  BY DEF Started, IsWork
<1>2. m \in Nat /\ n \in Nat /\ t.size \in Nat
  BY TableFacts, SizeFacts
<1>3. 0..(m - 1) \subseteq DOMAIN t.keys /\ 0..(m - 1) \subseteq DOMAIN t.vals
  BY DEF IsTable, HasRoom, BucketsOf
<1>4. /\ 0..(m - 1) \subseteq DOMAIN keys /\ 0..(n - 1) \subseteq DOMAIN keys
      /\ 0..(m - 1) \subseteq DOMAIN vals /\ 0..(n - 1) \subseteq DOMAIN vals
      /\ \A b \in 0..(m - 1) : keys[b] = t.keys[b] /\ vals[b] = t.vals[b]
  <2>1. CASE m < n
    <3>1. /\ DOMAIN Realloc(t.keys, n) = 0..(n - 1) /\ DOMAIN Realloc(t.vals, n) = 0..(n - 1)
          /\ \A b \in 0..(m - 1) : /\ Realloc(t.keys, n)[b] = t.keys[b]
                                   /\ Realloc(t.vals, n)[b] = t.vals[b]
      <4>1. /\ DOMAIN Realloc(t.keys, n) = 0..(n - 1)
            /\ \A b \in 0..(m - 1) : Realloc(t.keys, n)[b] = t.keys[b]
        <5> HIDE DEF m
        <5>1. QED
          BY <1>2, <1>3, <2>1 DEF Realloc
      <4>2. /\ DOMAIN Realloc(t.vals, n) = 0..(n - 1)
            /\ \A b \in 0..(m - 1) : Realloc(t.vals, n)[b] = t.vals[b]
        <5> HIDE DEF m
        <5>1. QED
          BY <1>2, <1>3, <2>1 DEF Realloc
      <4>3. QED
        BY <4>1, <4>2
    <3>2. QED
      BY <1>2, <2>1, <3>1
  <2>2. CASE ~(m < n)
    BY <1>2, <1>3, <2>2
  <2>3. QED
    BY <2>1, <2>2
<1> HIDE DEF st, keys, vals
<1>5. Waiting(st, m) = LiveIn(t) /\ Filled(st) = {} /\ Holding(st, m) = LiveIn(t)
  BY <1>1 DEF Waiting, Filled, Holding, LiveIn, BucketsOf, AllEmpty
<1>6. \A b \in LiveIn(t) : st.keys[b] = t.keys[b] /\ st.vals[b] = t.vals[b]
  BY <1>1, <1>4 DEF LiveIn, BucketsOf
<1>7. WorkFits(st, m)
  BY <1>1, <1>2, <1>4 DEF WorkFits, IsTable, HasRoom, BucketsOf, AllEmpty
<1>8. WorkApart(st, m, {}) /\ WorkFindable(st)
  BY <1>5, <1>6 DEF WorkApart, WorkFindable, IsTable, Findable
<1>9. WorkKeeps(st, m, {}, Content(t))
  BY <1>5, <1>6 DEF WorkKeeps, Content
<1>10. WorkCounted(st, m, {}, t.size)
  BY <1>1, <1>2, <1>5, FS_EmptySet DEF WorkCounted, IsTable, Counted
<1>11. QED
  BY <1>1, <1>7, <1>8, <1>9, <1>10 DEF AtRest, AtRound, HandOf, Working, st

LEMMA FinishFacts ==
  ASSUME NEW st, NEW m, NEW elements, NEW size, Working(st, m, {}, elements, size),
         Waiting(st, m) = {}, NEW keys, NEW vals,
         0..(st.n - 1) \subseteq DOMAIN keys, 0..(st.n - 1) \subseteq DOMAIN vals,
         \A b \in 0..(st.n - 1) : keys[b] = st.keys[b] /\ vals[b] = st.vals[b]
  PROVE  LET u == Finished(size, st.n, st.newFlags, keys, vals)
         IN  IsTable(u) /\ u.n_buckets = st.n /\ u.n_occupied = size /\ Content(u) = elements
<1> DEFINE u == Finished(size, st.n, st.newFlags, keys, vals)
<1>1. /\ IsRecord(u) /\ u.n_buckets = st.n /\ u.size = size /\ u.n_occupied = size
      /\ u.upper_bound = Upper(st.n) /\ u.flags = st.newFlags
      /\ u.keys = keys /\ u.vals = vals
  BY DEF Finished, IsRecord
<1> HIDE DEF u
<1>2. Working(st, m, {}, elements, size) /\ WorkFits(st, m)
  BY DEF Working
<1>3. /\ BucketsOf(u) = 0..(st.n - 1) /\ LiveIn(u) = Filled(st) /\ UsedIn(u) = Filled(st)
      /\ Holding(st, m) = Filled(st)
  <2>1. BucketsOf(u) = 0..(st.n - 1)
    BY <1>1 DEF BucketsOf
  <2>2. LiveIn(u) = Filled(st)
    BY <1>1, <2>1 DEF LiveIn, Filled
  <2>3. \A b \in 0..(st.n - 1) : st.newFlags[b] \in {"empty", "live"}
    BY <1>2 DEF WorkFits
  <2>4. UsedIn(u) = Filled(st)
    BY <1>1, <2>1, <2>3 DEF UsedIn, Filled
  <2>5. Holding(st, m) = Filled(st)
    BY DEF Holding
  <2>6. QED
    BY <2>1, <2>2, <2>4, <2>5
<1>4. \A b \in Filled(st) : keys[b] = st.keys[b] /\ vals[b] = st.vals[b]
  BY DEF Filled
<1>5. HasRoom(u)
  BY <1>1, <1>2, <1>3 DEF HasRoom, WorkFits
<1>6. Findable(u)
  BY <1>1, <1>2, <1>3, <1>4 DEF Findable, Working, WorkApart, WorkFindable
<1>7. Counted(u)
  <2>1. size \in Nat /\ size < Upper(st.n) /\ Cardinality({}) = 0
        /\ Cardinality(Waiting(st, m)) + Cardinality(Filled(st)) + Cardinality({}) = size
    BY <1>2, FS_EmptySet DEF Working, WorkCounted
  <2>2. Cardinality(Filled(st)) \in Nat /\ st.n \in Nat /\ Upper(st.n) \in Nat
    BY <1>2, WorkFinite, UpperFacts
  <2>3. QED
    BY <1>1, <1>3, <2>1, <2>2 DEF Counted
<1>8. Content(u) = elements
  BY <1>1, <1>2, <1>3, <1>4 DEF Content, Working, WorkKeeps
<1>9. QED
  BY <1>1, <1>5, <1>6, <1>7, <1>8 DEF IsTable, u

(* A rehash changes the number of buckets and where the elements are. *)
LEMMA ResizeFacts ==
  ASSUME NEW t, IsTable(t), NEW asked \in Nat
  PROVE  LET u == Resize(t, asked)
         IN  /\ IsTable(u) /\ Content(u) = Content(t)
             /\ TooSmall(t, asked) => u = t
             /\ ~TooSmall(t, asked) => /\ u.n_buckets = NewSize(asked)
                                       /\ u.n_occupied = t.size
                                       /\ t.size < Upper(NewSize(asked))
<1>1. CASE TooSmall(t, asked)
  <2>1. Resize(t, asked) = t
    BY <1>1 DEF Resize
  <2>2. QED
    BY <1>1, <2>1
<1>2. CASE ~TooSmall(t, asked)
  <2> DEFINE n == NewSize(asked)
             m == t.n_buckets
             st == MoveEach(Started(t, n), m)
             keys == IF m > n THEN Realloc(st.keys, n) ELSE st.keys
             vals == IF m > n THEN Realloc(st.vals, n) ELSE st.vals
             u == Finished(t.size, n, st.newFlags, keys, vals)
  <2>1. Resize(t, asked) = u
    BY <1>2 DEF Resize, Finished, Started
  <2>2. n \in Sizes /\ n \in Nat /\ n >= 4 /\ m \in Nat /\ t.size \in Nat /\ t.size < Upper(n)
    <3>1. \E k \in Nat \ {0, 1} : n = Shl1[k]
      BY NewSizeFacts
    <3>2. Upper(n) \in Nat
      BY NewSizeFacts, UpperFacts
    <3>3. ~(t.size >= Upper(n))
      BY <1>2 DEF TooSmall
    <3>4. n \in Nat /\ n >= 4 /\ m \in Nat /\ t.size \in Nat
      BY NewSizeFacts, TableFacts
    <3>5. n \in Sizes
      BY <3>1 DEF Sizes
    <3> HIDE DEF n, m
    <3>6. QED
      BY <3>2, <3>3, <3>4, <3>5
  <2>3. AtRest(Started(t, n), m, Content(t), t.size)
    <3> HIDE DEF n
    <3>1. QED
      BY <2>2, StartFacts
  <2>4. Started(t, n).n = n
    BY DEF Started
  <2> HIDE DEF n, m
  <2>5. AtRest(st, m, Content(t), t.size) /\ st.n = n /\ Waiting(st, m) = {}
    BY <2>3, <2>4, MoveEachFacts
  <2> HIDE DEF st
  <2>6. 0..(n - 1) \subseteq DOMAIN st.keys /\ 0..(n - 1) \subseteq DOMAIN st.vals
        /\ 0..(m - 1) \subseteq DOMAIN st.keys /\ 0..(m - 1) \subseteq DOMAIN st.vals
    BY <2>5 DEF AtRest, AtRound, Working, WorkFits
  <2>7. /\ 0..(n - 1) \subseteq DOMAIN keys /\ 0..(n - 1) \subseteq DOMAIN vals
        /\ \A b \in 0..(n - 1) : keys[b] = st.keys[b] /\ vals[b] = st.vals[b]
    <3>1. /\ DOMAIN Realloc(st.keys, n) = 0..(n - 1) /\ DOMAIN Realloc(st.vals, n) = 0..(n - 1)
          /\ \A b \in 0..(n - 1) : /\ Realloc(st.keys, n)[b] = st.keys[b]
                                   /\ Realloc(st.vals, n)[b] = st.vals[b]
      <4>1. /\ DOMAIN Realloc(st.keys, n) = 0..(n - 1)
            /\ \A b \in 0..(n - 1) : Realloc(st.keys, n)[b] = st.keys[b]
        BY <2>2, <2>6 DEF Realloc
      <4>2. /\ DOMAIN Realloc(st.vals, n) = 0..(n - 1)
            /\ \A b \in 0..(n - 1) : Realloc(st.vals, n)[b] = st.vals[b]
        BY <2>2, <2>6 DEF Realloc
      <4>3. QED
        BY <4>1, <4>2
    <3>2. QED
      BY <2>6, <3>1
  <2> HIDE DEF keys, vals
  <2>8. IsTable(u) /\ u.n_buckets = n /\ u.n_occupied = t.size /\ Content(u) = Content(t)
    <3>1. Working(st, m, {}, Content(t), t.size)
      BY <2>5 DEF AtRest, AtRound, HandOf
    <3>2. QED
      BY <2>5, <2>7, <3>1, FinishFacts
  <2>9. QED
    BY <1>2, <2>1, <2>2, <2>8 DEF n
<1>3. QED
  BY <1>1, <1>2

(* Of two table sizes the larger is at least twice the smaller. *)
LEMMA PowersApart ==
  ASSUME NEW m \in Sizes, NEW n \in Sizes, m < n
  PROVE  2 * m <= n
<1>1. CASE m = 0
  BY <1>1, SizeFacts
<1>2. CASE m # 0
  <2>1. PICK k \in Nat : m = Shl1[k]
    BY <1>2, SizeFacts
  <2>2. PICK l \in Nat : n = Shl1[l]
    <3>1. n # 0
      BY <1>2, SizeFacts
    <3>2. QED
      BY <3>1, SizeFacts
  <2>3. CASE k < l
    BY <2>1, <2>2, <2>3, Shl1Grows
  <2>4. CASE l < k
    <3>1. 2 * n <= m /\ m \in Nat /\ n \in Nat
      BY <2>1, <2>2, <2>4, Shl1Grows, Shl1Facts
    <3>2. QED
      BY <3>1
  <2>5. CASE k = l
    <3>1. m \in Nat /\ m = n
      BY <2>1, <2>2, <2>5, Shl1Facts
    <3>2. QED
      BY <3>1
  <2>6. QED
    BY <2>3, <2>4, <2>5
<1>3. QED
  BY <1>1, <1>2

(* kh_put has room for one more element once it has resized. *)
LEMMA ReadyFacts ==
  ASSUME NEW t, IsTable(t), t.n_buckets < Shl1[KhintBits - 1]
  PROVE  LET u == Ready(t)
         IN  IsTable(u) /\ Content(u) = Content(t) /\ u.n_occupied < u.upper_bound
<1>1. CASE ~NeedsResize(t)
  <2>1. t.n_occupied \in Nat /\ t.upper_bound = Upper(t.n_buckets) /\ t.n_buckets \in Nat
    BY TableFacts DEF IsTable, Counted
  <2>2. t.upper_bound \in Nat
    BY <2>1, UpperFacts
  <2>3. QED
    BY <1>1, <2>1, <2>2 DEF Ready, NeedsResize
<1>2. CASE NeedsResize(t)
  <2> DEFINE asked == PutSize(t)
             n == NewSize(asked)
             m == t.n_buckets
             u == Resize(t, asked)
  <2>1. /\ m \in Nat /\ t.size \in Nat /\ t.size <= m
        /\ m = 0 => t.size = 0
    <3>1. /\ m \in Nat /\ t.size \in Nat /\ t.n_occupied \in Nat /\ t.size <= t.n_occupied
          /\ m = 0 => t.size = 0
          /\ m # 0 => t.n_occupied < m
      BY TableFacts
    <3> HIDE DEF m
    <3>2. QED
      BY <3>1
  <2>2. asked \in Nat /\ (asked = m + 1 \/ (asked = m - 1 /\ m > 2 * t.size))
    BY <2>1 DEF PutSize
  <2>3. n \in Nat /\ n >= 4 /\ n >= asked
    <3>1. Shl1[KhintBits - 1] \in Nat
      BY WidthAssumption, Shl1Facts
    <3>2. m < Shl1[KhintBits - 1]
      OBVIOUS
    <3> HIDE DEF asked, m
    <3>3. asked <= Shl1[KhintBits - 1]
      BY <2>1, <2>2, <3>1, <3>2
    <3>4. QED
      BY <2>2, <3>3, NewSizeFacts, NewSizeHolds
  <2>4. t.size < Upper(n)
    <3>1. Upper(n) = (154 * n + 100) \div 200
      BY DEF Upper
    <3> HIDE DEF n, m, asked
    <3>2. CASE asked = m - 1 /\ m > 2 * t.size
      BY <2>1, <2>3, <3>1, <3>2
    <3>3. CASE asked = m + 1
      <4>1. m # 0 => 2 * m <= n
        <5>1. m \in Sizes /\ n \in Sizes
          <6>1. \E k \in Nat \ {0, 1} : n = Shl1[k]
            BY <2>2, NewSizeFacts DEF n
          <6>2. QED
            BY <6>1 DEF IsTable, HasRoom, Sizes, m
        <5>2. QED
          BY <2>1, <2>3, <3>3, <5>1, PowersApart
      <4>2. QED
        BY <2>1, <2>3, <3>1, <3>3, <4>1
    <3>4. QED
      BY <2>2, <3>2, <3>3
  <2>5. ~TooSmall(t, asked)
    <3>1. Upper(n) \in Nat
      BY <2>3, UpperFacts
    <3>2. TooSmall(t, asked) <=> t.size >= Upper(n)
      BY DEF TooSmall
    <3> HIDE DEF n, asked
    <3>3. QED
      BY <2>1, <2>4, <3>1, <3>2
  <2>6. /\ IsTable(u) /\ Content(u) = Content(t) /\ u.n_buckets = n /\ u.n_occupied = t.size
    <3> HIDE DEF asked
    <3>1. QED
      BY <2>2, <2>5, ResizeFacts
  <2>7. Ready(t) = u /\ u.upper_bound = Upper(u.n_buckets)
    BY <1>2, <2>6 DEF Ready, IsTable, Counted
  <2> HIDE DEF u, n
  <2>8. QED
    BY <2>4, <2>6, <2>7 DEF u
<1>3. QED
  BY <1>1, <1>2

-----------------------------------------------------------------------------
(* The map a table stands for depends on its elements alone. *)
LEMMA MapFacts ==
  ASSUME NEW t, IsTable(t), NEW key \in Key
  PROVE  /\ \A p \in Content(t) : p[1] = key => MapOf(t)[key] = p[2] /\ p[2] \in Val
         /\ (\A p \in Content(t) : p[1] # key) => MapOf(t)[key] = MISSING
<1> DEFINE x == Get(t, key)
<1>1. MapOf(t)[key] = IF x = t.n_buckets THEN MISSING ELSE t.vals[x]
  BY DEF MapOf
<1> HIDE DEF x
<1>2. ASSUME NEW p \in Content(t), p[1] = key
      PROVE  MapOf(t)[key] = p[2] /\ p[2] \in Val
  <2>1. PICK b \in LiveIn(t) : p = <<t.keys[b], t.vals[b]>>
    BY DEF Content
  <2>2. x = b
    BY <1>2, <2>1, GetFacts DEF x
  <2>3. b # t.n_buckets
    BY TableFacts DEF LiveIn, BucketsOf
  <2>4. t.vals[b] \in Val
    BY DEF IsTable, Findable
  <2>5. QED
    BY <1>1, <2>1, <2>2, <2>3, <2>4
<1>3. ASSUME \A p \in Content(t) : p[1] # key PROVE MapOf(t)[key] = MISSING
  <2>1. \A b \in LiveIn(t) : t.keys[b] # key
    <3> SUFFICES ASSUME NEW b \in LiveIn(t) PROVE t.keys[b] # key
      OBVIOUS
    <3>1. <<t.keys[b], t.vals[b]>> \in Content(t)
      BY DEF Content
    <3>2. QED
      BY <1>3, <3>1
  <2>2. x = t.n_buckets
    BY <2>1, GetFacts DEF x
  <2>3. QED
    BY <1>1, <2>2
<1>4. QED
  BY <1>2, <1>3

LEMMA SameMap ==
  ASSUME NEW t, NEW u, IsTable(t), IsTable(u), Content(u) = Content(t)
  PROVE  MapOf(u) = MapOf(t)
<1>1. \A key \in Key : MapOf(u)[key] = MapOf(t)[key]
  <2> SUFFICES ASSUME NEW key \in Key PROVE MapOf(u)[key] = MapOf(t)[key]
    OBVIOUS
  <2>1. CASE \E p \in Content(t) : p[1] = key
    BY <2>1, MapFacts
  <2>2. CASE \A p \in Content(t) : p[1] # key
    BY <2>2, MapFacts
  <2>3. QED
    BY <2>1, <2>2
<1> DEFINE f == MapOf(t)
           g == MapOf(u)
<1>2. f = [key \in Key |-> f[key]] /\ g = [key \in Key |-> g[key]]
  BY DEF MapOf
<1> HIDE DEF f, g
<1>3. \A key \in Key : g[key] = f[key]
  BY <1>1 DEF f, g
<1>4. f = g
  BY <1>2, <1>3
<1>5. QED
  BY <1>4 DEF f, g

(* Replacing what the table holds for one key changes the map there only. *)
LEMMA OneKeyChanges ==
  ASSUME NEW t, NEW u, IsTable(t), IsTable(u), NEW key \in Key, NEW new,
         \A p : p[1] # key => (p \in Content(u) <=> p \in Content(t)),
         MapOf(u)[key] = new
  PROVE  MapOf(u) = [MapOf(t) EXCEPT ![key] = new]
<1>1. ASSUME NEW k \in Key, k # key PROVE MapOf(u)[k] = MapOf(t)[k]
  <2>1. CASE \E p \in Content(t) : p[1] = k
    BY <1>1, <2>1, MapFacts
  <2>2. CASE \A p \in Content(t) : p[1] # k
    BY <1>1, <2>2, MapFacts
  <2>3. QED
    BY <2>1, <2>2
<1> DEFINE f == MapOf(t)
           g == MapOf(u)
<1>2. f = [k \in Key |-> f[k]] /\ g = [k \in Key |-> g[k]]
  BY DEF MapOf
<1> HIDE DEF f, g
<1>3. \A k \in Key : g[k] = IF k = key THEN new ELSE f[k]
  BY <1>1 DEF f, g
<1>4. g = [f EXCEPT ![key] = new]
  <2>1. [f EXCEPT ![key] = new] = [k \in Key |-> IF k = key THEN new ELSE f[k]]
    BY <1>2
  <2>2. g = [k \in Key |-> IF k = key THEN new ELSE f[k]]
    BY <1>2, <1>3
  <2>3. QED
    BY <2>1, <2>2
<1>5. QED
  BY <1>4 DEF f, g

LEMMA EmptyMap ==
  ASSUME NEW t, IsTable(t), Content(t) = {}
  PROVE  MapOf(t) = Store!Empty
<1> DEFINE f == MapOf(t)
<1>1. \A key \in Key : f[key] = MISSING
  BY MapFacts
<1>2. f = [key \in Key |-> f[key]]
  BY DEF MapOf
<1> HIDE DEF f
<1>3. f = [key \in Key |-> MISSING]
  BY <1>1, <1>2
<1>4. QED
  BY <1>3 DEF f, Store!Empty

-----------------------------------------------------------------------------
(***************************************************************************)
(* The inductive invariant: h is a table, of a size within the bound.      *)
(***************************************************************************)
BoundedSizes ==
  {n \in {0} \cup {Shl1[k] : k \in 2..MaxBuckets} : n < Shl1[KhintBits - 1]}

IInv == IsTable(h) /\ h.n_buckets \in BoundedSizes

LEMMA HalfFits ==
  /\ Shl1[KhintBits - 1] \in Nat \ {0}
  /\ NoWrap => MaxBuckets < Shl1[KhintBits - 1]
<1>1. Shl1[KhintBits - 1] \in Nat \ {0}
  BY WidthAssumption, Shl1Facts
<1>2. QED
  BY <1>1, KhashAssumption DEF NoWrap

LEMMA WithinBound ==
  ASSUME NoWrap, NEW t, IsTable(t), t.n_buckets <= MaxBuckets
  PROVE  t.n_buckets \in BoundedSizes
<1>0. MaxBuckets < Shl1[KhintBits - 1] /\ t.n_buckets \in Nat /\ t.n_buckets < Shl1[KhintBits - 1]
  BY HalfFits, TableFacts, KhashAssumption
<1>1. CASE t.n_buckets = 0
  BY <1>0, <1>1 DEF BoundedSizes
<1>2. CASE t.n_buckets # 0
  <2>1. PICK k \in Nat \ {0, 1} : t.n_buckets = Shl1[k]
    BY <1>2, TableFacts
  <2>2. k < Shl1[k] /\ Shl1[k] \in Nat
    BY PowerExceeds, Shl1Facts
  <2>3. k \in 2..MaxBuckets
    BY <2>1, <2>2, KhashAssumption
  <2>4. QED
    BY <1>0, <2>1, <2>3 DEF BoundedSizes
<1>3. QED
  BY <1>1, <1>2

LEMMA InitFacts ==
  ASSUME Init
  PROVE  IInv /\ Store!Init
<1>1. IsTable(h) /\ h.n_buckets = 0 /\ Content(h) = {} /\ call = <<"keep">>
  BY NoTableFacts DEF Init
<1>2. 0 \in BoundedSizes
  BY HalfFits DEF BoundedSizes
<1>3. QED
  BY <1>1, <1>2, EmptyMap DEF IInv, Store!Init

(* What every call of the interface leaves behind, and what it does to the map. *)
LEMMA StepFacts ==
  ASSUME NoWrap, IInv, Next
  PROVE  IInv' /\ Store!Next
<1> DEFINE Fine == IInv' /\ Store!Next
<1> USE DEF IInv
<1>1. ASSUME NEW key \in Key, NEW val \in Val, PutVal(key, val) PROVE Fine
  <2> DEFINE t == Ready(h)
             u == PutKey(t, key, val)
  <2>1. IsTable(t) /\ Content(t) = Content(h) /\ t.n_occupied < t.upper_bound
    BY ReadyFacts DEF BoundedSizes
  <2>2. t.n_buckets <= MaxBuckets /\ h' = u /\ call' = <<"put", key, val>>
    BY <1>1 DEF PutVal
  <2> HIDE DEF t
  <2>3. /\ IsTable(u) /\ u.n_buckets = t.n_buckets
        /\ Content(u) = {p \in Content(t) : p[1] # key} \cup {<<key, val>>}
    BY <2>1, PutKeyFacts
  <2> HIDE DEF u
  <2>4. u.n_buckets \in BoundedSizes
    BY <2>1, <2>2, <2>3, WithinBound
  <2>5. MapOf(u)[key] = val
    <3>1. <<key, val>> \in Content(u)
      BY <2>3
    <3>2. QED
      BY <2>3, <3>1, MapFacts
  <2>6. MapOf(u) = [MapOf(t) EXCEPT ![key] = val]
    BY <2>1, <2>3, <2>5, OneKeyChanges
  <2>7. MapOf(t) = MapOf(h)
    BY <2>1, SameMap
  <2>8. MapOf(h)' = MapOf(u)
    BY <2>2
  <2>9. Store!Put(key, val)
    BY <2>2, <2>6, <2>7, <2>8 DEF Store!Put
  <2>10. QED
    BY <2>2, <2>3, <2>4, <2>9 DEF Store!Next
<1>2. ASSUME NEW asked \in Asked, ResizeTo(asked) PROVE Fine
  <2> DEFINE u == Resize(h, asked)
  <2>1. asked \in Nat /\ asked <= MaxBuckets /\ h' = u /\ call' = <<"keep">>
    BY <1>2, KhashAssumption DEF ResizeTo
  <2>2. /\ IsTable(u) /\ Content(u) = Content(h)
        /\ TooSmall(h, asked) => u = h
        /\ ~TooSmall(h, asked) => u.n_buckets = NewSize(asked)
    BY <2>1, ResizeFacts
  <2> HIDE DEF u
  <2>3. u.n_buckets \in BoundedSizes
    <3>1. PICK k \in Nat \ {0, 1} :
            NewSize(asked) = Shl1[k] /\ (k = 2 \/ (k <= asked /\ NewSize(asked) < 2 * asked))
      BY <2>1, NewSizeFacts
    <3>2. k \in 2..MaxBuckets
      BY <2>1, <3>1, KhashAssumption
    <3>3. NewSize(asked) < Shl1[KhintBits - 1]
      <4>1. 2 * MaxBuckets <= Shl1[KhintBits - 1] /\ Shl1[KhintBits - 1] \in Nat
        BY HalfFits DEF NoWrap
      <4>2. Shl1[2] = 4
        <5>1. Shl1[0 + 1] = 2 * Shl1[0] /\ Shl1[1 + 1] = 2 * Shl1[1]
          BY Shl1Facts
        <5>2. QED
          BY <5>1, Shl1Facts
      <4>3. NewSize(asked) = 4 \/ NewSize(asked) < 2 * asked
        BY <3>1, <4>2
      <4>4. NewSize(asked) \in Nat /\ MaxBuckets \in Nat /\ MaxBuckets >= 4
        BY <2>1, NewSizeFacts, KhashAssumption
      <4>5. QED
        BY <2>1, <4>1, <4>3, <4>4
    <3>4. QED
      BY <2>2, <3>1, <3>2, <3>3 DEF BoundedSizes, IInv
  <2>4. MapOf(u) = MapOf(h)
    BY <2>2, SameMap
  <2>5. MapOf(h)' = MapOf(u)
    BY <2>1
  <2>6. Store!Keep
    BY <2>1, <2>4, <2>5 DEF Store!Keep
  <2>7. QED
    BY <2>1, <2>2, <2>3, <2>6 DEF Store!Next
<1>3. ASSUME NEW asked \in Nat, NEW keysMoved \in BOOLEAN,
             ResizeFails(h, asked, keysMoved), h' = FailedResize(h, asked, keysMoved),
             call' = <<"keep">>
      PROVE  Fine
  <2> DEFINE u == FailedResize(h, asked, keysMoved)
  <2>1. IsTable(u) /\ u.n_buckets = h.n_buckets /\ Content(u) = Content(h)
    BY <1>3, FailedResizeFacts
  <2> HIDE DEF u
  <2>2. MapOf(u) = MapOf(h)
    BY <2>1, SameMap
  <2>3. h' = u /\ MapOf(h)' = MapOf(u)
    BY <1>3 DEF u
  <2>4. Store!Keep
    BY <1>3, <2>2, <2>3 DEF Store!Keep
  <2>5. QED
    BY <2>1, <2>3, <2>4 DEF Store!Next
<1>4. ASSUME NEW keysMoved \in BOOLEAN, PutWithoutMemory(keysMoved) PROVE Fine
  <2>1. PutSize(h) \in Nat
    <3>1. h.n_buckets \in Nat /\ h.size \in Nat
      BY TableFacts
    <3>2. QED
      BY <3>1 DEF PutSize
  <2>2. /\ ResizeFails(h, PutSize(h), keysMoved) /\ h' = FailedResize(h, PutSize(h), keysMoved)
        /\ call' = <<"keep">>
    BY <1>4 DEF PutWithoutMemory
  <2> HIDE DEF Fine
  <2>3. QED
    BY <1>3, <2>1, <2>2
<1>5. ASSUME NEW asked \in Asked, NEW keysMoved \in BOOLEAN,
             ResizeWithoutMemory(asked, keysMoved)
      PROVE  Fine
  <2>1. asked \in Nat
    BY KhashAssumption
  <2>2. /\ ResizeFails(h, asked, keysMoved) /\ h' = FailedResize(h, asked, keysMoved)
        /\ call' = <<"keep">>
    BY <1>5 DEF ResizeWithoutMemory
  <2> HIDE DEF Fine
  <2>3. QED
    BY <1>3, <2>1, <2>2
<1>6. ASSUME NEW x \in 0..MaxBuckets, DelBucket(x) PROVE Fine
  <2> DEFINE u == Del(h, x)
             key == h.keys[x]
  <2>1. /\ h' = u /\ x \in 0..h.n_buckets
        /\ call' = IF x \in LiveIn(h) THEN <<"del", key>> ELSE <<"keep">>
    <3>1. h.n_buckets \in Nat
      BY TableFacts
    <3>2. x <= h.n_buckets /\ x \in Nat
      BY <1>6 DEF DelBucket
    <3>3. x \in LiveIn(h) <=> x # h.n_buckets /\ h.flags[x] = "live"
      BY <3>1, <3>2 DEF LiveIn, BucketsOf
    <3>4. QED
      BY <1>6, <3>1, <3>2, <3>3 DEF DelBucket
  <2>2. /\ IsTable(u) /\ u.n_buckets = h.n_buckets
        /\ Content(u) = {p \in Content(h) : x \in LiveIn(h) => p[1] # key}
    BY <2>1, DelFacts
  <2> HIDE DEF u
  <2>3. CASE x \notin LiveIn(h)
    <3>1. Content(u) = Content(h)
      BY <2>2, <2>3
    <3>2. MapOf(u) = MapOf(h)
      BY <2>2, <3>1, SameMap
    <3>3. MapOf(h)' = MapOf(u)
      BY <2>1
    <3>4. Store!Keep
      BY <2>1, <2>3, <3>2, <3>3 DEF Store!Keep
    <3>5. QED
      BY <2>1, <2>2, <3>4 DEF Store!Next
  <2>4. CASE x \in LiveIn(h)
    <3>1. key \in Key
      BY <2>4 DEF IsTable, Findable
    <3> HIDE DEF key
    <3>2. MapOf(u)[key] = MISSING
      BY <2>2, <2>4, <3>1, MapFacts
    <3>3. \A p : p[1] # key => (p \in Content(u) <=> p \in Content(h))
      BY <2>2
    <3>4. MapOf(u) = [MapOf(h) EXCEPT ![key] = MISSING]
      BY <2>2, <3>1, <3>2, <3>3, OneKeyChanges
    <3>5. MapOf(h)' = MapOf(u)
      BY <2>1
    <3>6. Store!Del(key)
      BY <2>1, <2>4, <3>4, <3>5 DEF Store!Del
    <3>7. QED
      BY <2>1, <2>2, <3>1, <3>6 DEF Store!Next
  <2>5. QED
    BY <2>3, <2>4
<1>7. ASSUME NEW u, h' = u, IsTable(u), u.n_buckets \in BoundedSizes, Content(u) = {},
             call' = <<"clear">>
      PROVE  Fine
  <2>1. MapOf(u) = Store!Empty
    BY <1>7, EmptyMap
  <2>2. MapOf(h)' = MapOf(u)
    BY <1>7
  <2>3. Store!Clear
    BY <1>7, <2>1, <2>2 DEF Store!Clear
  <2>4. QED
    BY <1>7, <2>3 DEF Store!Next
<1>8. ASSUME ClearTable PROVE Fine
  <2>1. IsTable(Clear(h)) /\ Clear(h).n_buckets = h.n_buckets /\ Content(Clear(h)) = {}
    BY ClearFacts
  <2>2. h' = Clear(h) /\ call' = <<"clear">>
    BY <1>8 DEF ClearTable
  <2> HIDE DEF Fine
  <2>3. QED
    BY <1>7, <2>1, <2>2
<1>9. ASSUME Destroy PROVE Fine
  <2>1. h' = NoTable /\ NoTable.n_buckets \in BoundedSizes /\ call' = <<"clear">>
    BY <1>9, NoTableFacts, HalfFits DEF Destroy, BoundedSizes
  <2> HIDE DEF Fine
  <2>2. QED
    BY <1>7, <2>1, NoTableFacts
<1> HIDE DEF Fine
<1>10. Fine
  BY <1>1, <1>2, <1>4, <1>5, <1>6, <1>8, <1>9 DEF Next
<1>11. QED
  BY <1>10 DEF Fine

LEMMA IInvHolds ==
  ASSUME NoWrap
  PROVE  Spec => []IInv
<1>1. Init => IInv
  BY InitFacts
<1>2. IInv /\ [Next]_vars => IInv'
  <2>1. IInv /\ Next => IInv'
    BY StepFacts
  <2>2. IInv /\ UNCHANGED vars => IInv'
    BY DEF IInv, vars
  <2>3. QED
    BY <2>1, <2>2
<1>3. QED
  BY <1>1, <1>2, PTL DEF Spec

-----------------------------------------------------------------------------
LEMMA TypeFacts == IInv => TypeOK
<1> SUFFICES ASSUME IInv PROVE TypeOK
  OBVIOUS
<1>1. HasRoom(h) /\ Findable(h) /\ Buckets = BucketsOf(h) /\ With({"live"}) = LiveIn(h)
  BY DEF IInv, IsTable, Buckets, BucketsOf, With, LiveIn
<1>2. QED
  BY <1>1 DEF IInv, BoundedSizes, HasRoom, Findable, TypeOK

(***************************************************************************)
(* The number of buckets is none or a power of two from four on, each      *)
(* bucket has flags and room for a key and a value, and live buckets hold  *)
(* keys and values, whatever the hashes are and however often kh_resize    *)
(* ran out of memory.                                                      *)
(***************************************************************************)
THEOREM TypeCorrect ==
  ASSUME NoWrap
  PROVE  Spec => []TypeOK
<1>1. QED
  BY IInvHolds, TypeFacts, PTL

LEMMA FoundFacts == IInv => LiveIsFound
<1> SUFFICES ASSUME IInv, NEW b \in LiveIn(h) PROVE Get(h, h.keys[b]) = b
  BY DEF LiveIsFound, With, LiveIn, Buckets, BucketsOf
<1> DEFINE key == h.keys[b]
<1>1. key \in Key
  BY DEF IInv, IsTable, Findable
<1> HIDE DEF key
<1>2. \A c \in LiveIn(h) : h.keys[c] = key => Get(h, key) = c
  BY <1>1, GetFacts DEF IInv
<1>3. QED
  BY <1>2 DEF key

(***************************************************************************)
(* kh_get finds every element: no order of kh_put, kh_del, kh_clear and    *)
(* kh_resize, with memory or without, cuts an element off from its key's   *)
(* probe or enters a key twice.                                            *)
(***************************************************************************)
THEOREM FoundCorrect ==
  ASSUME NoWrap
  PROVE  Spec => []LiveIsFound
<1>1. QED
  BY IInvHolds, FoundFacts, PTL

LEMMA CountFacts == IInv => CountsRight
<1> SUFFICES ASSUME IInv PROVE CountsRight
  OBVIOUS
<1>1. With({"live"}) = LiveIn(h)
  BY DEF With, LiveIn, Buckets, BucketsOf
<1>2. With({"live", "deleted"}) = UsedIn(h)
  BY DEF With, UsedIn, Buckets, BucketsOf, IInv, IsTable, HasRoom
<1>3. QED
  BY <1>1, <1>2 DEF CountsRight, IInv, IsTable, Counted

(***************************************************************************)
(* kh_size and n_occupied are the numbers of live and of used buckets,     *)
(* after every kh_put, kh_del, kh_clear and kh_resize.                     *)
(***************************************************************************)
THEOREM CountsCorrect ==
  ASSUME NoWrap
  PROVE  Spec => []CountsRight
<1>1. QED
  BY IInvHolds, CountFacts, PTL

LEMMA EndFacts == IInv => ProbeEnds
<1> SUFFICES ASSUME IInv, h.n_buckets # 0 PROVE With({"empty"}) # {}
  BY DEF ProbeEnds
<1>1. \E b \in BucketsOf(h) : h.flags[b] = "empty"
  BY TableFacts DEF IInv
<1>2. QED
  BY <1>1 DEF With, Buckets, BucketsOf

(***************************************************************************)
(* A table with buckets has one that was never used, so each probe of      *)
(* kh_put and kh_resize, which meets every bucket, comes to its end.       *)
(***************************************************************************)
THEOREM ProbesEnd ==
  ASSUME NoWrap
  PROVE  Spec => []ProbeEnds
<1>1. QED
  BY IInvHolds, EndFacts, PTL

LEMMA RehashFacts == IInv => RehashKeepsMap
<1> SUFFICES ASSUME IInv, NEW asked \in Asked PROVE MapOf(Resize(h, asked)) = MapOf(h)
  BY DEF RehashKeepsMap
<1> DEFINE u == Resize(h, asked)
<1>1. IsTable(h) /\ asked \in Nat
  BY KhashAssumption DEF IInv
<1>2. IsTable(u) /\ Content(u) = Content(h)
  BY <1>1, ResizeFacts
<1> HIDE DEF u
<1>3. MapOf(u) = MapOf(h)
  BY <1>1, <1>2, SameMap
<1>4. QED
  BY <1>3 DEF u

(***************************************************************************)
(* A rehash in place, to any size the caller may ask for and from any      *)
(* table there can be, leaves every key its value (kh_resize).             *)
(***************************************************************************)
THEOREM RehashCorrect ==
  ASSUME NoWrap
  PROVE  Spec => []RehashKeepsMap
<1>1. QED
  BY IInvHolds, RehashFacts, PTL

(***************************************************************************)
(* The table is a map: kh_put sets the value of one key, kh_del takes one  *)
(* key out, kh_clear and kh_destroy take out all, and a kh_resize or a     *)
(* call that finds no memory changes none.                                 *)
(***************************************************************************)
THEOREM ImplementsKeyedStore ==
  ASSUME NoWrap
  PROVE  Spec => KeyedStoreSpec
<1>1. Init => Store!Init
  BY InitFacts
<1>2. IInv /\ [Next]_vars => [Store!Next]_<<MapOf(h), call>>
  <2>1. IInv /\ Next => Store!Next
    BY StepFacts
  <2>2. UNCHANGED vars => UNCHANGED <<MapOf(h), call>>
    BY DEF vars
  <2>3. QED
    BY <2>1, <2>2
<1>3. QED
  BY IInvHolds, <1>1, <1>2, PTL DEF Spec, KeyedStoreSpec, Store!Spec

-----------------------------------------------------------------------------
(***************************************************************************)
(* The loops over a Khash: kh_foreach, and those that kh_resize is made    *)
(* of, which implement the one step that Khash has.                        *)
(***************************************************************************)
(* What the block of code in a kh_foreach leaves of the elements. *)
Stays(t, u) ==
  /\ u.n_buckets = t.n_buckets
  /\ \A b \in LiveIn(t) :
       t.keys[b] \in LiveKeys(u) => b \in LiveIn(u) /\ u.keys[b] = t.keys[b]

LEMMA LiveKeysIs ==
  ASSUME NEW t
  PROVE  \A key : key \in LiveKeys(t) <=> \E b \in LiveIn(t) : t.keys[b] = key
BY DEF LiveKeys, LiveIn, BucketsOf

LEMMA BodyFacts ==
  ASSUME NoWrap, IInv, Body
  PROVE  IInv' /\ Stays(h, h')
<1> USE DEF IInv
<1>1. CASE UNCHANGED vars
  BY <1>1, LiveKeysIs DEF Stays, vars
<1>2. ASSUME NEW x \in 0..MaxBuckets, DelBucket(x) PROVE IInv' /\ Stays(h, h')
  <2> DEFINE u == Del(h, x)
  <2>1. IInv'
    BY <1>2, StepFacts DEF Next
  <2>2. h' = u /\ x \in 0..h.n_buckets
    BY <1>2, TableFacts DEF DelBucket
  <2>3. /\ IsTable(u) /\ u.n_buckets = h.n_buckets /\ u.keys = h.keys
        /\ LiveIn(u) = LiveIn(h) \ {x}
    BY <2>2, DelFacts
  <2> HIDE DEF u
  <2>4. ASSUME NEW b \in LiveIn(h), h.keys[b] \in LiveKeys(u)
        PROVE  b \in LiveIn(u) /\ u.keys[b] = h.keys[b]
    <3>1. PICK c \in LiveIn(u) : u.keys[c] = h.keys[b]
      BY <2>4, LiveKeysIs
    <3>2. c = b
      BY <2>3, <3>1 DEF IsTable, Findable
    <3>3. QED
      BY <2>3, <3>1, <3>2
  <2>5. QED
    BY <2>1, <2>2, <2>3, <2>4 DEF Stays
<1>3. ASSUME PutStays, NEW key \in Key, NEW val \in Val, PutVal(key, val)
      PROVE  IInv' /\ Stays(h, h')
  <2> DEFINE u == PutKey(h, key, val)
  <2>1. IInv'
    BY <1>3, StepFacts DEF Next
  <2>2. h' = u
    BY <1>3 DEF PutStays, PutVal, Ready
  <2>3. h.n_occupied < h.upper_bound
    <3>1. Ready(h) = h
      BY <1>3 DEF PutStays, Ready
    <3>2. QED
      BY <3>1, ReadyFacts DEF BoundedSizes
  <2>4. /\ u.n_buckets = h.n_buckets /\ LiveIn(h) \subseteq LiveIn(u)
        /\ \A b \in LiveIn(h) : u.keys[b] = h.keys[b]
    BY <2>3, PutKeyFacts
  <2> HIDE DEF u
  <2>5. QED
    BY <2>1, <2>2, <2>4 DEF Stays
<1>4. QED
  BY <1>1, <1>2, <1>3 DEF Body

-----------------------------------------------------------------------------
(***************************************************************************)
(* The inductive invariant of kh_foreach: the keys that are due are those  *)
(* of buckets from iter on, the keys that are done of buckets before it.   *)
(***************************************************************************)
Ahead(t, at) == {t.keys[b] : b \in {c \in LiveIn(t) : c >= at}}
Behind(t, at) == {t.keys[b] : b \in {c \in LiveIn(t) : c < at}}

Looping ==
  /\ iter \in 0..h.n_buckets
  /\ due \subseteq Ahead(h, iter) /\ done \subseteq Behind(h, iter)

ForeachInv == IInv /\ (iter # NONE => Looping)

LEMMA ForeachStep ==
  ASSUME NoWrap, ForeachInv, ForeachNext
  PROVE  ForeachInv'
<1> USE DEF ForeachInv
<1>1. h.n_buckets \in Nat /\ NONE \notin Nat
  BY TableFacts DEF IInv, NONE
<1>2. CASE UseBetween
  <2>1. IInv' /\ iter' = NONE
    BY <1>2, StepFacts DEF UseBetween, loopVars
  <2>2. QED
    BY <2>1 DEF NONE
<1>3. CASE ForeachBegin
  <2>1. IInv' /\ iter' = 0 /\ h' = h /\ due' = LiveKeys(h) /\ done' = {}
    BY <1>3 DEF ForeachBegin, IInv, vars
  <2>2. LiveKeys(h) \subseteq Ahead(h, 0)
    BY <1>1, LiveKeysIs DEF Ahead, LiveIn, BucketsOf
  <2>3. Looping'
    BY <1>1, <2>1, <2>2 DEF Looping
  <2>4. QED
    BY <2>1, <2>3
<1>4. CASE ForeachSkip
  <2>1. /\ IInv' /\ iter' = iter + 1 /\ h' = h /\ due' = due /\ done' = done
        /\ h.flags[iter] # "live" /\ iter \in 0..(h.n_buckets - 1) /\ Looping
    BY <1>1, <1>4 DEF ForeachSkip, IInv, Looping, vars
  <2>2. Ahead(h, iter) \subseteq Ahead(h, iter + 1) /\ Behind(h, iter) \subseteq Behind(h, iter + 1)
    BY <1>1, <2>1 DEF Ahead, Behind, LiveIn, BucketsOf
  <2>3. Looping'
    BY <1>1, <2>1, <2>2 DEF Looping
  <2>4. QED
    BY <2>1, <2>3
<1>5. CASE ForeachVisit
  <2> DEFINE key == h.keys[iter]
             u == h'
  <2>1. /\ Body /\ iter' = iter + 1
        /\ due' = (due \ {key}) \cap LiveKeys(u)
        /\ done' = (done \cup {key}) \cap LiveKeys(u)
        /\ h.flags[iter] = "live" /\ iter \in 0..(h.n_buckets - 1) /\ Looping
    BY <1>1, <1>5 DEF ForeachVisit, Looping
  <2>2. IInv' /\ Stays(h, u)
    BY <2>1, BodyFacts
  <2>3. iter \in LiveIn(h)
    BY <2>1 DEF LiveIn, BucketsOf
  <2>4. h' = u
    OBVIOUS
  <2> HIDE DEF u
  <2>5. ASSUME NEW k \in due, k # key, k \in LiveKeys(u) PROVE k \in Ahead(u, iter + 1)
    <3>1. PICK b \in LiveIn(h) : k = h.keys[b] /\ b >= iter
      BY <2>1 DEF Looping, Ahead
    <3>2. b \in LiveIn(u) /\ u.keys[b] = k
      BY <2>2, <2>5, <3>1 DEF Stays
    <3>3. b \in Nat /\ iter \in Nat /\ b # iter
      BY <1>1, <2>1, <2>5, <3>1 DEF LiveIn, BucketsOf
    <3>4. b >= iter + 1
      BY <3>1, <3>3
    <3>5. QED
      BY <3>2, <3>4 DEF Ahead
  <2>6. ASSUME NEW k \in done \cup {key}, k \in LiveKeys(u) PROVE k \in Behind(u, iter + 1)
    <3>1. \E b \in LiveIn(h) : k = h.keys[b] /\ b <= iter
      <4>1. CASE k = key
        BY <1>1, <2>1, <2>3, <4>1
      <4>2. CASE k \in done
        <5>1. PICK b \in LiveIn(h) : k = h.keys[b] /\ b < iter
          BY <2>1, <4>2 DEF Looping, Behind
        <5>2. b \in Nat /\ iter \in Nat
          BY <1>1, <2>1 DEF LiveIn, BucketsOf
        <5>3. QED
          BY <5>1, <5>2
      <4>3. QED
        BY <4>1, <4>2
    <3>2. PICK b \in LiveIn(h) : k = h.keys[b] /\ b <= iter
      BY <3>1
    <3>3. b \in LiveIn(u) /\ u.keys[b] = k
      BY <2>2, <2>6, <3>2 DEF Stays
    <3>4. b \in Nat /\ iter \in Nat
      BY <1>1, <2>1 DEF LiveIn, BucketsOf
    <3>5. b < iter + 1
      BY <3>2, <3>4
    <3>6. QED
      BY <3>3, <3>5 DEF Behind
  <2>7. due' \subseteq Ahead(u, iter + 1) /\ done' \subseteq Behind(u, iter + 1)
    BY <2>1, <2>5, <2>6
  <2>8. u.n_buckets = h.n_buckets
    BY <2>2 DEF Stays
  <2>9. Looping'
    <3>1. iter + 1 \in 0..u.n_buckets
      BY <1>1, <2>1, <2>8
    <3>2. QED
      BY <2>1, <2>4, <2>7, <3>1 DEF Looping
  <2>10. QED
    BY <2>2, <2>9
<1>6. CASE ForeachEnd
  BY <1>6 DEF ForeachEnd, IInv, vars
<1>7. QED
  BY <1>2, <1>3, <1>4, <1>5, <1>6 DEF ForeachNext

LEMMA VisitedFacts == ForeachInv => VisitedOnce
<1> SUFFICES ASSUME ForeachInv, iter # NONE
             PROVE  /\ \A key \in due : Get(h, key) >= iter /\ Get(h, key) # h.n_buckets
                    /\ \A key \in done : Get(h, key) < iter
  BY DEF VisitedOnce
<1> USE DEF ForeachInv
<1>1. \A b \in LiveIn(h) : Get(h, h.keys[b]) = b
  BY FoundFacts DEF LiveIsFound, With, Buckets, LiveIn, BucketsOf
<1>2. \A b \in LiveIn(h) : b # h.n_buckets
  BY TableFacts DEF IInv, LiveIn, BucketsOf
<1>3. QED
  BY <1>1, <1>2 DEF Looping, Ahead, Behind

(***************************************************************************)
(* kh_foreach comes to each element once, whatever its code deletes, and   *)
(* whatever it enters without a rehash.                                    *)
(***************************************************************************)
THEOREM VisitsOnce ==
  ASSUME NoWrap
  PROVE  ForeachSpec => []VisitedOnce
<1>1. ForeachInit => ForeachInv
  BY InitFacts DEF ForeachInit, ForeachInv
<1>2. ForeachInv /\ [ForeachNext]_foreachVars => ForeachInv'
  <2>1. ForeachInv /\ UNCHANGED foreachVars => ForeachInv'
    BY DEF ForeachInv, IInv, Looping, foreachVars, loopVars, vars
  <2>2. QED
    BY <2>1, ForeachStep
<1>3. QED
  BY <1>1, <1>2, VisitedFacts, PTL DEF ForeachSpec

-----------------------------------------------------------------------------
(* The record a rehash works on, with some of its fields set. *)
Rewritten(t, flags, keys, vals) == [t EXCEPT !.keys = keys, !.vals = vals, !.flags = flags]

LEMMA RewrittenFacts ==
  ASSUME NEW t, IsRecord(t), NEW flags, NEW keys, NEW vals
  PROVE  LET u == Rewritten(t, flags, keys, vals)
         IN  /\ IsRecord(u) /\ u.n_buckets = t.n_buckets /\ u.size = t.size
             /\ u.flags = flags /\ u.keys = keys /\ u.vals = vals
<1> DEFINE v == Restored(t, keys, vals)
           u == Rewritten(t, flags, keys, vals)
<1>1. v = [n_buckets |-> t.n_buckets, size |-> t.size, n_occupied |-> t.n_occupied,
           upper_bound |-> t.upper_bound, flags |-> t.flags,
           keys |-> keys, vals |-> vals]
  BY RestoredIs
<1>2. u = [v EXCEPT !.flags = flags]
  BY DEF Rewritten, Restored
<1> HIDE DEF v
<1>3. u = [n_buckets |-> t.n_buckets, size |-> t.size, n_occupied |-> t.n_occupied,
           upper_bound |-> t.upper_bound, flags |-> flags,
           keys |-> keys, vals |-> vals]
  BY <1>1, <1>2
<1> HIDE DEF u
<1>4. QED
  BY <1>3 DEF IsRecord, u

LEMMA RewrittenAtOnce ==
  ASSUME NEW t, IsRecord(t)
  PROVE  /\ t = Rewritten(t, t.flags, t.keys, t.vals)
         /\ \A flags : [t EXCEPT !.flags = flags] = Rewritten(t, flags, t.keys, t.vals)
         /\ \A keys, vals : [t EXCEPT !.keys = keys, !.vals = vals]
                              = Rewritten(t, t.flags, keys, vals)
<1>1. \A flags, keys, vals :
        Rewritten(t, flags, keys, vals) = [Restored(t, keys, vals) EXCEPT !.flags = flags]
  BY DEF Rewritten, Restored
<1>2. \A keys, vals : Restored(t, keys, vals) =
           [n_buckets |-> t.n_buckets, size |-> t.size, n_occupied |-> t.n_occupied,
            upper_bound |-> t.upper_bound, flags |-> t.flags,
            keys |-> keys, vals |-> vals]
  BY RestoredIs
<1>3. Restored(t, t.keys, t.vals) = t
  BY <1>2 DEF IsRecord
<1>4. \A keys, vals : [Restored(t, keys, vals) EXCEPT !.flags = t.flags] = Restored(t, keys, vals)
  <2> SUFFICES ASSUME NEW keys, NEW vals
               PROVE  [Restored(t, keys, vals) EXCEPT !.flags = t.flags] = Restored(t, keys, vals)
    OBVIOUS
  <2> DEFINE v == Restored(t, keys, vals)
  <2>1. v = [n_buckets |-> t.n_buckets, size |-> t.size, n_occupied |-> t.n_occupied,
             upper_bound |-> t.upper_bound, flags |-> t.flags,
             keys |-> keys, vals |-> vals]
    BY <1>2
  <2> HIDE DEF v
  <2>2. [v EXCEPT !.flags = t.flags] = v
    BY <2>1
  <2>3. QED
    BY <2>2 DEF v
<1>5. t = Rewritten(t, t.flags, t.keys, t.vals)
  BY <1>1, <1>3, <1>4
<1>6. \A flags : [t EXCEPT !.flags = flags] = Rewritten(t, flags, t.keys, t.vals)
  BY <1>1, <1>3
<1>7. \A keys, vals : [t EXCEPT !.keys = keys, !.vals = vals] = Rewritten(t, t.flags, keys, vals)
  <2>1. \A keys, vals : Restored(t, keys, vals) = Rewritten(t, t.flags, keys, vals)
    BY <1>1, <1>4
  <2>2. QED
    BY <2>1 DEF Restored
<1>8. QED
  BY <1>5, <1>6, <1>7

(* Working is about five fields. *)
LEMMA WorkingSame ==
  ASSUME NEW st, NEW m, NEW taken, NEW elements, NEW size,
         Working(st, m, taken, elements, size), NEW u, u.n = st.n,
         u.flags = st.flags, u.newFlags = st.newFlags, u.keys = st.keys, u.vals = st.vals
  PROVE  Working(u, m, taken, elements, size) /\ Waiting(u, m) = Waiting(st, m)
<1>1. /\ Waiting(u, m) = Waiting(st, m) /\ Filled(u) = Filled(st)
      /\ Holding(u, m) = Holding(st, m)
  BY DEF Waiting, Filled, Holding
<1>2. WorkFits(u, m)
  BY DEF Working, WorkFits
<1>3. WorkApart(u, m, taken)
  BY <1>1 DEF Working, WorkApart
<1>4. WorkFindable(u)
  BY <1>1 DEF Working, WorkFindable
<1>5. WorkKeeps(u, m, taken, elements)
  BY <1>1 DEF Working, WorkKeeps
<1>6. WorkCounted(u, m, taken, size)
  BY <1>1 DEF Working, WorkCounted
<1>7. QED
  BY <1>1, <1>2, <1>3, <1>4, <1>5, <1>6 DEF Working

(* The i of the loop is where Probe says the probe is. *)
LEMMA ProbeNext ==
  ASSUME NEW key \in Key, NEW s \in Nat, NEW n \in Nat \ {0}
  PROVE  Probe(key, s + 1, n) = (Probe(key, s, n) + (s + 1)) % n
<1> DEFINE x == Hash[key] + (s * (s + 1)) \div 2
           y == Hash[key] + ((s + 1) * ((s + 1) + 1)) \div 2
           c == s + 1
<1>1. x \in Nat /\ y \in Nat /\ c \in Nat /\ y = x + c
  <2> DEFINE p == (s * (s + 1)) \div 2
             q == ((s + 1) * ((s + 1) + 1)) \div 2
  <2>1. p \in Nat /\ 2 * p = s * (s + 1) /\ q \in Nat /\ 2 * q = (s + 1) * ((s + 1) + 1)
    BY Triangle
  <2>2. (s + 1) * ((s + 1) + 1) = s * (s + 1) + 2 * (s + 1)
    OBVIOUS
  <2>3. Hash[key] \in Nat /\ x = Hash[key] + p /\ y = Hash[key] + q
    BY KhashAssumption
  <2> HIDE DEF p, q, x, y
  <2>4. 2 * q = 2 * p + 2 * (s + 1)
    BY <2>1, <2>2
  <2>5. q = p + (s + 1)
    BY <2>1, <2>4
  <2>6. QED
    BY <2>1, <2>3, <2>5
<1>2. Probe(key, s, n) = x % n /\ Probe(key, s + 1, n) = y % n
  BY DEF Probe
<1> HIDE DEF x, y, c
<1> DEFINE q1 == x \div n
           r1 == x % n
           q2 == (r1 + c) \div n
           r2 == (r1 + c) % n
<1>3. q1 \in Nat /\ r1 \in 0..(n - 1) /\ x = q1 * n + r1
  BY <1>1, QuotientFacts
<1> HIDE DEF q1, r1
<1>4. q2 \in Nat /\ r2 \in 0..(n - 1) /\ r1 + c = q2 * n + r2
  <2>1. r1 + c \in Nat
    BY <1>1, <1>3
  <2>2. QED
    BY <2>1, QuotientFacts
<1> HIDE DEF q2, r2
<1>5. y = (q1 + q2) * n + r2
  <2>1. (q1 + q2) * n = q1 * n + q2 * n
    BY <1>3, <1>4
  <2> DEFINE a == q1 * n
             b == q2 * n
  <2>2. a \in Nat /\ b \in Nat
    BY <1>3, <1>4
  <2> HIDE DEF a, b
  <2>3. y = a + b + r2
    BY <1>1, <1>3, <1>4, <2>2 DEF a, b
  <2>4. QED
    BY <2>1, <2>3 DEF a, b
<1>6. y % n = r2
  <2>1. q1 + q2 \in Nat
    BY <1>3, <1>4
  <2>2. QED
    BY <1>4, <1>5, <2>1, QuotientUnique
<1>7. QED
  BY <1>2, <1>6 DEF c, r1, r2

-----------------------------------------------------------------------------
(***************************************************************************)
(* The inductive invariant of kh_resize.  While it runs, its arrays are    *)
(* at work as in KhashProofs; the scan has left no element behind, and the *)
(* probe has met no empty bucket so far.                                   *)
(***************************************************************************)
Now == [flags |-> h.flags, newFlags |-> newFlags, keys |-> h.keys, vals |-> h.vals,
        n |-> new_n_buckets]
InHand == IF hand = MISSING THEN {} ELSE {hand}
Passed(buckets) == \A b \in buckets : b \notin Waiting(Now, h.n_buckets)

Resizing ==
  /\ IsRecord(h) /\ new_n_buckets <= MaxBuckets /\ j \in 0..h.n_buckets
  /\ put = MISSING \/ put \in Key \X Val
  /\ Working(Now, h.n_buckets, InHand, Content(before), h.size)

Scanning == hand = MISSING /\ Passed(0..(j - 1))

Probing ==
  /\ hand \in Key \X Val /\ j # h.n_buckets /\ Passed(0..j)
  /\ step \in 0..(new_n_buckets - 1) /\ i = Probe(hand[1], step, new_n_buckets)
  /\ \A r \in 0..(step - 1) : newFlags[Probe(hand[1], r, new_n_buckets)] # "empty"

StepsInv ==
  /\ pc \in {"caller", "scan", "probe"}
  /\ pc = "caller" => IInv
  /\ pc # "caller" => Resizing
  /\ pc = "scan" => Scanning
  /\ pc = "probe" => Probing

LEMMA NowIs ==
  /\ Now.flags = h.flags /\ Now.newFlags = newFlags /\ Now.keys = h.keys
  /\ Now.vals = h.vals /\ Now.n = new_n_buckets
BY DEF Now

LEMMA ResizingFacts ==
  ASSUME Resizing
  PROVE  /\ h.n_buckets \in Nat /\ new_n_buckets \in Nat \ {0}
         /\ DOMAIN h.flags = 0..(h.n_buckets - 1)
         /\ newFlags \in [0..(new_n_buckets - 1) -> {"empty", "live"}]
<1>1. WorkFits(Now, h.n_buckets)
  BY DEF Resizing, Working
<1>2. QED
  BY <1>1, WorkFinite, NowIs DEF WorkFits

LEMMA BeginIs ==
  ASSUME StepsInv, NEW asked \in Nat, NEW putFor, Begin(asked, putFor)
  PROVE  LET n  == NewSize(asked)
             st == Started(h, n)
         IN  /\ IInv /\ pc' = "scan" /\ ~TooSmall(h, asked) /\ n \in Nat /\ n <= MaxBuckets
             /\ new_n_buckets' = n /\ newFlags' = AllEmpty(n) /\ j' = 0 /\ hand' = MISSING
             /\ before' = h /\ put' = putFor
             /\ IsRecord(h)' /\ h'.n_buckets = h.n_buckets /\ h'.size = h.size
             /\ st.n = n /\ st.flags = h'.flags /\ st.newFlags = AllEmpty(n)
             /\ st.keys = h'.keys /\ st.vals = h'.vals
             /\ AtRest(st, h.n_buckets, Content(h), h.size)
<1> DEFINE n == NewSize(asked)
           keys == IF h.n_buckets < n THEN Realloc(h.keys, n) ELSE h.keys
           vals == IF h.n_buckets < n THEN Realloc(h.vals, n) ELSE h.vals
           u == Rewritten(h, h.flags, keys, vals)
<1>1. /\ IInv /\ pc' = "scan" /\ ~TooSmall(h, asked) /\ n <= MaxBuckets
      /\ new_n_buckets' = n /\ newFlags' = AllEmpty(n) /\ j' = 0 /\ hand' = MISSING
      /\ before' = h /\ put' = putFor
  BY DEF Begin, StepsInv
<1>2. h' = u
  <2>1. h' = IF h.n_buckets < n THEN [h EXCEPT !.keys = Realloc(@, n), !.vals = Realloc(@, n)]
                                ELSE h
    BY DEF Begin
  <2>2. IsRecord(h)
    BY <1>1 DEF IInv, IsTable
  <2> HIDE DEF n
  <2>3. CASE h.n_buckets < n
    <3>1. h' = [h EXCEPT !.keys = keys, !.vals = vals]
      BY <2>1, <2>3
    <3> HIDE DEF keys, vals
    <3>2. Rewritten(h, h.flags, keys, vals) = [h EXCEPT !.keys = keys, !.vals = vals]
      <4>1. \A k, v : [h EXCEPT !.keys = k, !.vals = v] = Rewritten(h, h.flags, k, v)
        BY <2>2, RewrittenAtOnce
      <4>2. QED
        BY <4>1, Zenon
    <3>3. QED
      BY <3>1, <3>2
  <2>4. CASE ~(h.n_buckets < n)
    BY <2>1, <2>2, <2>4, RewrittenAtOnce
  <2>5. QED
    BY <2>3, <2>4
<1>3. n \in Sizes /\ n # 0 /\ n \in Nat /\ h.n_buckets \in Nat /\ h.size < Upper(n)
  <2>1. \E k \in Nat \ {0, 1} : n = Shl1[k]
    BY NewSizeFacts
  <2>2. n \in Nat /\ n >= 4 /\ Upper(n) \in Nat /\ h.n_buckets \in Nat /\ h.size \in Nat
    BY <1>1, NewSizeFacts, UpperFacts, TableFacts DEF IInv
  <2>3. ~(h.size >= Upper(n))
    BY <1>1 DEF TooSmall
  <2> HIDE DEF n
  <2>4. QED
    BY <2>1, <2>2, <2>3 DEF Sizes
<1> HIDE DEF n
<1>4. AtRest(Started(h, n), h.n_buckets, Content(h), h.size)
  BY <1>1, <1>3, StartFacts DEF IInv
<1>5. /\ Started(h, n).n = n /\ Started(h, n).flags = h.flags
      /\ Started(h, n).newFlags = AllEmpty(n)
      /\ Started(h, n).keys = keys /\ Started(h, n).vals = vals
  BY DEF Started
<1> HIDE DEF keys, vals
<1>6. /\ IsRecord(u) /\ u.n_buckets = h.n_buckets /\ u.size = h.size
      /\ u.flags = h.flags /\ u.keys = keys /\ u.vals = vals
  BY <1>1, RewrittenFacts DEF IInv, IsTable
<1> HIDE DEF u
<1>7. QED
  BY <1>1, <1>2, <1>3, <1>4, <1>5, <1>6 DEF n

LEMMA BeginFacts ==
  ASSUME StepsInv, NEW asked \in Nat, NEW putFor, putFor = MISSING \/ putFor \in Key \X Val,
         Begin(asked, putFor)
  PROVE  StepsInv'
<1> DEFINE n == NewSize(asked)
           st == Started(h, n)
           v == Now'
<1>1. /\ IInv /\ pc' = "scan" /\ n <= MaxBuckets
      /\ new_n_buckets' = n /\ newFlags' = AllEmpty(n) /\ j' = 0 /\ hand' = MISSING
      /\ before' = h /\ put' = putFor
      /\ IsRecord(h)' /\ h'.n_buckets = h.n_buckets /\ h'.size = h.size
      /\ st.n = n /\ st.flags = h'.flags /\ st.newFlags = AllEmpty(n)
      /\ st.keys = h'.keys /\ st.vals = h'.vals
      /\ AtRest(st, h.n_buckets, Content(h), h.size)
  BY BeginIs
<1> HIDE DEF n, st
<1>2. /\ v.n = st.n /\ v.flags = st.flags /\ v.newFlags = st.newFlags
      /\ v.keys = st.keys /\ v.vals = st.vals
  BY <1>1 DEF Now
<1>3. Working(st, h.n_buckets, {}, Content(h), h.size)
  BY <1>1 DEF AtRest, AtRound, HandOf
<1>4. InHand' = {} /\ h.n_buckets \in Nat
  BY <1>1, TableFacts DEF InHand, IInv
<1> HIDE DEF v
<1>5. Working(v, h.n_buckets, {}, Content(h), h.size)
  BY <1>2, <1>3, WorkingSame
<1>6. Resizing'
  BY <1>1, <1>4, <1>5 DEF Resizing, v
<1>7. Scanning'
  BY <1>1 DEF Scanning, Passed
<1>8. QED
  BY <1>1, <1>6, <1>7 DEF StepsInv

LEMMA CallFacts ==
  ASSUME NoWrap, StepsInv, Call
  PROVE  StepsInv'
<1>1. ASSUME NEW asked \in Asked, Begin(asked, MISSING) PROVE StepsInv'
  <2>1. asked \in Nat
    BY KhashAssumption
  <2>2. QED
    BY <1>1, <2>1, BeginFacts
<1>2. ASSUME NEW key \in Key, NEW val \in Val, PutBegins(key, val) PROVE StepsInv'
  <2>1. PutSize(h) \in Nat
    <3>1. IsTable(h)
      BY <1>2 DEF PutBegins, Begin, StepsInv, IInv
    <3>2. h.n_buckets \in Nat /\ h.size \in Nat
      BY <3>1, TableFacts
    <3>3. QED
      BY <3>2 DEF PutSize
  <2>2. <<key, val>> \in Key \X Val /\ Begin(PutSize(h), <<key, val>>)
    BY <1>2 DEF PutBegins
  <2>3. QED
    BY <2>1, <2>2, BeginFacts
<1>3. ASSUME AtOnce PROVE StepsInv'
  <2>1. IInv /\ Next /\ pc' = "caller"
    BY <1>3 DEF AtOnce, StepsInv, PutAtOnce, Next
  <2>2. QED
    BY <2>1, StepFacts DEF StepsInv
<1>4. QED
  BY <1>1, <1>2, <1>3 DEF Call

-----------------------------------------------------------------------------
(* What a step of kh_resize that rewrites the table does to the work. *)
LEMMA RewriteFacts ==
  ASSUME Resizing, NEW flags, NEW keys, NEW vals, h' = Rewritten(h, flags, keys, vals),
         new_n_buckets' = new_n_buckets, before' = before, put' = put
  PROVE  /\ IsRecord(h)' /\ h'.n_buckets = h.n_buckets /\ h'.size = h.size
         /\ Now' = [flags |-> flags, newFlags |-> newFlags', keys |-> keys,
                    vals |-> vals, n |-> new_n_buckets]
         /\ /\ Working(Now', h.n_buckets, InHand', Content(before), h.size)
            /\ j' \in 0..h.n_buckets
            => Resizing'
<1> DEFINE u == Rewritten(h, flags, keys, vals)
<1>1. /\ IsRecord(u) /\ u.n_buckets = h.n_buckets /\ u.size = h.size
      /\ u.flags = flags /\ u.keys = keys /\ u.vals = vals
  BY RewrittenFacts DEF Resizing
<1>2. h' = u
  OBVIOUS
<1> HIDE DEF u
<1>3. IsRecord(h)' /\ h'.n_buckets = h.n_buckets /\ h'.size = h.size
  BY <1>1, <1>2
<1>4. Now' = [flags |-> flags, newFlags |-> newFlags', keys |-> keys,
              vals |-> vals, n |-> new_n_buckets]
  BY <1>1, <1>2 DEF Now
<1>5. ASSUME Working(Now', h.n_buckets, InHand', Content(before), h.size),
             j' \in 0..h.n_buckets
      PROVE  Resizing'
  BY <1>3, <1>5 DEF Resizing
<1>6. QED
  BY <1>3, <1>4, <1>5

LEMMA PassFacts ==
  ASSUME StepsInv, PassBucket
  PROVE  StepsInv'
<1>1. /\ Resizing /\ Scanning /\ pc' = "scan" /\ j # h.n_buckets /\ h.flags[j] # "live"
      /\ j' = j + 1 /\ hand' = hand /\ UNCHANGED <<h, newFlags, new_n_buckets, before, put>>
  BY DEF PassBucket, StepsInv, vars
<1>2. j \in 0..(h.n_buckets - 1) /\ j + 1 \in 0..h.n_buckets
  BY <1>1, ResizingFacts DEF Resizing
<1>3. Now' = Now /\ InHand' = InHand
  BY <1>1 DEF Now, InHand
<1>4. Resizing'
  BY <1>1, <1>2, <1>3 DEF Resizing
<1>5. \A b \in 0..((j + 1) - 1) : b \notin Waiting(Now, h.n_buckets)
  <2>1. j \notin Waiting(Now, h.n_buckets)
    BY <1>1, NowIs DEF Waiting
  <2>2. QED
    BY <1>1, <1>2, <2>1 DEF Scanning, Passed
<1>6. Scanning'
  BY <1>1, <1>3, <1>5 DEF Scanning, Passed
<1>7. QED
  BY <1>1, <1>4, <1>6 DEF StepsInv

LEMMA TakeFacts ==
  ASSUME StepsInv, TakeUp
  PROVE  StepsInv'
<1> DEFINE m == h.n_buckets
           n == new_n_buckets
           flags == [h.flags EXCEPT ![j] = "deleted"]
           taken == <<h.keys[j], h.vals[j]>>
           u == Now'
<1>1. /\ Resizing /\ Scanning /\ pc' = "probe" /\ j # m /\ h.flags[j] = "live"
      /\ hand' = taken /\ h' = [h EXCEPT !.flags = flags]
      /\ i' = Probe(taken[1], 0, n) /\ step' = 0
      /\ UNCHANGED <<newFlags, new_n_buckets, j, before, put>>
  BY DEF TakeUp, StepsInv, MarkDeleted, Start
<1>2. m \in Nat /\ n \in Nat \ {0} /\ j \in 0..(m - 1) /\ j \in 0..m
  BY <1>1, ResizingFacts DEF Resizing
<1>3. j \in Waiting(Now, m)
  BY <1>1, <1>2, NowIs DEF Waiting
<1>4. Working(Now, m, {}, Content(before), h.size)
  BY <1>1 DEF Resizing, Scanning, InHand
<1> HIDE DEF flags
<1>5. h' = Rewritten(h, flags, h.keys, h.vals)
  BY <1>1, RewrittenAtOnce DEF Resizing
<1>6. /\ IsRecord(h)' /\ h'.n_buckets = m /\ h'.size = h.size
      /\ u = [flags |-> flags, newFlags |-> newFlags', keys |-> h.keys,
              vals |-> h.vals, n |-> n]
  BY <1>1, <1>5, RewriteFacts
<1>7. /\ u.n = Now.n /\ u.newFlags = Now.newFlags /\ u.keys = Now.keys
      /\ u.vals = Now.vals /\ u.flags = [Now.flags EXCEPT ![j] = "deleted"]
  BY <1>1, <1>6, NowIs DEF flags
<1>8. taken = <<Now.keys[j], Now.vals[j]>>
  BY NowIs
<1> HIDE DEF taken, u, m
<1>9. /\ Working(u, m, {taken}, Content(before), h.size)
      /\ Waiting(u, m) = Waiting(Now, m) \ {j}
  <2>1. TakenUp(u, Now, j)
    BY <1>7 DEF TakenUp
  <2>2. /\ Working(u, m, ElementAt(Now, j), Content(before), h.size)
        /\ Waiting(u, m) = Waiting(Now, m) \ {j}
    BY <1>3, <1>4, <2>1, TakeUpFacts
  <2>3. QED
    BY <1>8, <2>2 DEF ElementAt
<1>10. taken \in Key \X Val
  BY <1>9 DEF Working, WorkApart
<1>11. InHand' = {taken}
  BY <1>1, <1>10, HandAssumption DEF InHand
<1>12. Resizing'
  BY <1>1, <1>2, <1>5, <1>9, <1>11, RewriteFacts DEF u, m
<1>13. \A b \in 0..j : b \notin Waiting(u, m)
  BY <1>1, <1>2, <1>9 DEF Scanning, Passed, m
<1>14. Probing'
  <2>1. Passed(0..j)'
    BY <1>1, <1>6, <1>13 DEF Passed, u
  <2>2. 0 \in 0..(n - 1) /\ 0..(0 - 1) = {}
    BY <1>2
  <2>3. j' # h'.n_buckets /\ j' = j
    BY <1>1, <1>6
  <2>4. QED
    BY <1>1, <1>10, <2>1, <2>2, <2>3 DEF Probing
<1>15. QED
  BY <1>1, <1>12, <1>14 DEF StepsInv

LEMMA ProbeOnFacts ==
  ASSUME StepsInv, ProbeOn
  PROVE  StepsInv'
<1> DEFINE n == new_n_buckets
           key == hand[1]
           val == hand[2]
<1>1. /\ Resizing /\ Probing /\ pc' = "probe" /\ newFlags[i] # "empty"
      /\ step' = step + 1 /\ i' = (i + (step + 1)) % n
      /\ UNCHANGED <<h, newFlags, new_n_buckets, j, hand, before, put>>
  BY DEF ProbeOn, StepsInv, Longer, vars
<1>2. Now' = Now /\ InHand' = InHand
  BY <1>1 DEF Now, InHand
<1>3. /\ n \in Nat \ {0} /\ step \in 0..(n - 1) /\ key \in Key
      /\ i = Probe(key, step, n)
      /\ \A r \in 0..(step - 1) : newFlags[Probe(key, r, n)] # "empty"
  BY <1>1, ResizingFacts DEF Probing
<1>4. Working(Now, h.n_buckets, {<<key, val>>}, Content(before), h.size)
  <2>1. hand = <<key, val>> /\ hand # MISSING
    BY <1>1, HandAssumption DEF Probing
  <2>2. InHand = {<<key, val>>}
    BY <2>1 DEF InHand
  <2>3. QED
    BY <1>1, <2>2 DEF Resizing
<1> HIDE DEF key, val, n
<1>5. \A r \in 0..((step + 1) - 1) : newFlags[Probe(key, r, n)] # "empty"
  BY <1>1, <1>3
<1>6. step + 1 \in 0..(n - 1)
  <2>1. PICK s \in 0..(n - 1) : newFlags[Probe(key, s, n)] = "empty"
    <3>1. \E s \in 0..(Now.n - 1) : Now.newFlags[Probe(key, s, Now.n)] = "empty"
      BY <1>4, UnusedAhead
    <3>2. QED
      BY <3>1, NowIs DEF n
  <2>2. s \notin 0..((step + 1) - 1)
    BY <1>5, <2>1
  <2>3. QED
    BY <1>3, <2>1, <2>2
<1>7. i' = Probe(key, step + 1, n)
  BY <1>1, <1>3, ProbeNext DEF n
<1>8. Resizing'
  BY <1>1, <1>2 DEF Resizing
<1>9. Passed(0..j)'
  BY <1>1, <1>2 DEF Passed, Probing
<1>10. Probing'
  BY <1>1, <1>5, <1>6, <1>7, <1>9 DEF Probing, key, n
<1>11. QED
  BY <1>1, <1>8, <1>10 DEF StepsInv

(***************************************************************************)
(* The end of a probe: the element in hand is written to bucket i, which   *)
(* an element that waits there leaves (Evict), or not (Settle).            *)
(***************************************************************************)
PlaceInHand(flags) ==
  /\ pc = "probe" /\ newFlags[i] = "empty"
  /\ newFlags' = [newFlags EXCEPT ![i] = "live"]
  /\ Write(flags)
  /\ flags = IF i \in Waiting(Now, h.n_buckets) THEN [h.flags EXCEPT ![i] = "deleted"]
                                                ELSE h.flags
  /\ UNCHANGED <<new_n_buckets, before, put>>

LEMMA PlaceInHandFacts ==
  ASSUME StepsInv, NEW flags, PlaceInHand(flags)
  PROVE  /\ Working(Now', h.n_buckets, NextHand(Now, h.n_buckets, i), Content(before), h.size)
         /\ Waiting(Now', h.n_buckets) \subseteq Waiting(Now, h.n_buckets)
         /\ IsRecord(h)' /\ h'.n_buckets = h.n_buckets /\ h'.size = h.size
<1> DEFINE m == h.n_buckets
           n == new_n_buckets
           key == hand[1]
           val == hand[2]
           keys == [h.keys EXCEPT ![i] = key]
           vals == [h.vals EXCEPT ![i] = val]
           u == Now'
<1>1. /\ Resizing /\ Probing /\ newFlags[i] = "empty"
      /\ newFlags' = [newFlags EXCEPT ![i] = "live"]
      /\ h' = Rewritten(h, flags, keys, vals)
      /\ UNCHANGED <<new_n_buckets, before, put>>
  BY DEF PlaceInHand, StepsInv, Write, Rewritten
<1>2. flags = IF i \in Waiting(Now, m) THEN [h.flags EXCEPT ![i] = "deleted"] ELSE h.flags
  BY DEF PlaceInHand
<1>3. /\ n \in Nat \ {0} /\ step \in 0..(n - 1) /\ key \in Key /\ val \in Val
      /\ i = Probe(key, step, n)
      /\ \A r \in 0..(step - 1) : newFlags[Probe(key, r, n)] # "empty"
  BY <1>1, ResizingFacts DEF Probing
<1>4. i \in 0..(n - 1)
  BY <1>3, ProbeInRange
<1>5. OnPath(Now.newFlags, Now.n, key, i)
  BY <1>3, NowIs DEF OnPath
<1>6. Working(Now, m, {<<key, val>>}, Content(before), h.size)
  <2>1. hand = <<key, val>> /\ hand # MISSING
    BY <1>1, HandAssumption DEF Probing
  <2>2. InHand = {<<key, val>>}
    BY <2>1 DEF InHand
  <2>3. QED
    BY <1>1, <2>2 DEF Resizing
<1> HIDE DEF keys, vals
<1>7. /\ IsRecord(h)' /\ h'.n_buckets = m /\ h'.size = h.size
      /\ u = [flags |-> flags, newFlags |-> newFlags', keys |-> keys,
              vals |-> vals, n |-> n]
  BY <1>1, RewriteFacts
<1> HIDE DEF u, key, val
<1>8. Placed(u, Now, m, i, key, val)
  BY <1>1, <1>2, <1>7, NowIs DEF Placed, keys, vals
<1>9. i \in 0..(Now.n - 1) /\ Now.newFlags[i] = "empty"
  BY <1>1, <1>4, NowIs
<1> HIDE DEF m, n
<1>10. /\ Working(u, m, NextHand(Now, m, i), Content(before), h.size)
       /\ Waiting(u, m) = Waiting(Now, m) \ {i}
  BY <1>5, <1>6, <1>8, <1>9, PlaceFacts
<1>11. QED
  BY <1>7, <1>10 DEF u, m

LEMMA OccupiedIs ==
  ASSUME Resizing, i \in Nat
  PROVE  OccupiedByOld <=> i \in Waiting(Now, h.n_buckets)
BY ResizingFacts, NowIs DEF OccupiedByOld, Waiting

LEMMA InProbe ==
  ASSUME StepsInv, pc = "probe"
  PROVE  /\ Resizing /\ Probing /\ i \in Nat
         /\ h.n_buckets \in Nat /\ j \in 0..(h.n_buckets - 1)
<1>1. Resizing /\ Probing
  BY DEF StepsInv
<1>2. /\ new_n_buckets \in Nat \ {0} /\ hand[1] \in Key /\ step \in Nat
      /\ i = Probe(hand[1], step, new_n_buckets)
  BY <1>1, ResizingFacts DEF Probing
<1>3. i \in Nat
  BY <1>2, ProbeInRange
<1>4. h.n_buckets \in Nat /\ j \in 0..(h.n_buckets - 1)
  BY <1>1, ResizingFacts DEF Resizing, Probing
<1>5. QED
  BY <1>1, <1>3, <1>4

LEMMA EvictFacts ==
  ASSUME StepsInv, Evict
  PROVE  StepsInv'
<1> DEFINE m == h.n_buckets
           n == new_n_buckets
           next == <<h.keys[i], h.vals[i]>>
           flags == [h.flags EXCEPT ![i] = "deleted"]
<1>1. /\ pc = "probe" /\ pc' = pc /\ OccupiedByOld /\ hand' = next
      /\ i' = Probe(next[1], 0, n) /\ step' = 0
      /\ UNCHANGED <<new_n_buckets, j, before, put>>
  BY DEF Evict, Start
<1>2. /\ Resizing /\ Probing /\ i \in Nat /\ m \in Nat /\ j \in 0..(m - 1) /\ n \in Nat \ {0}
  BY <1>1, InProbe, ResizingFacts
<1>3. i \in Waiting(Now, m)
  BY <1>1, <1>2, OccupiedIs
<1>4. PlaceInHand(flags)
  BY <1>3 DEF PlaceInHand, Evict, MarkDeleted
<1>5. /\ Working(Now', m, NextHand(Now, m, i), Content(before), h.size)
      /\ Waiting(Now', m) \subseteq Waiting(Now, m)
      /\ IsRecord(h)' /\ h'.n_buckets = m /\ h'.size = h.size
  <2> HIDE DEF flags
  <2>1. QED
    BY <1>4, PlaceInHandFacts
<1>6. NextHand(Now, m, i) = {next}
  BY <1>3, NowIs DEF NextHand, ElementAt
<1> HIDE DEF next, m, n
<1>7. next \in Key \X Val
  BY <1>5, <1>6 DEF Working, WorkApart
<1>8. InHand' = {next}
  BY <1>1, <1>7, HandAssumption DEF InHand
<1>9. Resizing'
  <2>1. j \in 0..m
    BY <1>2
  <2>2. QED
    BY <1>1, <1>2, <1>5, <1>6, <1>8, <2>1 DEF Resizing
<1>10. Passed(0..j)'
  BY <1>1, <1>2, <1>5 DEF Probing, Passed, m
<1>11. Probing'
  <2>1. 0 \in 0..(n - 1) /\ 0..(0 - 1) = {} /\ j # m
    BY <1>2
  <2>2. QED
    BY <1>1, <1>5, <1>7, <1>10, <2>1 DEF Probing, n
<1>12. QED
  BY <1>1, <1>9, <1>11 DEF StepsInv

LEMMA SettleFacts ==
  ASSUME StepsInv, Settle
  PROVE  StepsInv'
<1> DEFINE m == h.n_buckets
<1>1. /\ pc = "probe" /\ pc' = "scan" /\ ~OccupiedByOld /\ hand' = MISSING /\ j' = j + 1
      /\ UNCHANGED <<new_n_buckets, before, put>>
  BY DEF Settle
<1>2. /\ Resizing /\ Probing /\ i \in Nat /\ m \in Nat /\ j \in 0..(m - 1)
  BY <1>1, InProbe
<1>3. i \notin Waiting(Now, m)
  BY <1>1, <1>2, OccupiedIs
<1>4. PlaceInHand(h.flags)
  BY <1>3 DEF PlaceInHand, Settle
<1>5. /\ Working(Now', m, NextHand(Now, m, i), Content(before), h.size)
      /\ Waiting(Now', m) \subseteq Waiting(Now, m)
      /\ IsRecord(h)' /\ h'.n_buckets = m /\ h'.size = h.size
  BY <1>4, PlaceInHandFacts
<1>6. NextHand(Now, m, i) = {} /\ InHand' = {}
  BY <1>1, <1>3 DEF NextHand, InHand
<1> HIDE DEF m
<1>7. Resizing'
  <2>1. j + 1 \in 0..m
    BY <1>2
  <2>2. QED
    BY <1>1, <1>2, <1>5, <1>6, <2>1 DEF Resizing
<1>8. Scanning'
  <2>1. (j + 1) - 1 = j
    BY <1>2
  <2>2. \A b \in 0..j : b \notin Waiting(Now, m)
    BY <1>2 DEF Probing, Passed, m
  <2>3. QED
    BY <1>1, <1>5, <2>1, <2>2 DEF Scanning, Passed
<1>9. QED
  BY <1>1, <1>7, <1>8 DEF StepsInv

LEMMA FinishedFacts ==
  ASSUME NoWrap, StepsInv, Finish
  PROVE  StepsInv'
<1> DEFINE m == h.n_buckets
           n == new_n_buckets
           keys == IF m > n THEN Realloc(h.keys, n) ELSE h.keys
           vals == IF m > n THEN Realloc(h.vals, n) ELSE h.vals
           u == Rehashed
<1>1. /\ Resizing /\ Scanning /\ pc' = "caller" /\ j = m
      /\ h' = IF put = MISSING THEN u ELSE PutKey(u, put[1], put[2])
  BY DEF Finish, StepsInv
<1>2. m \in Nat /\ n \in Nat \ {0} /\ n <= MaxBuckets
  BY <1>1, ResizingFacts DEF Resizing
<1>3. Waiting(Now, m) = {}
  BY <1>1 DEF Scanning, Passed, Waiting
<1>4. Working(Now, m, {}, Content(before), h.size)
  BY <1>1 DEF Resizing, Scanning, InHand
<1>5. /\ 0..(n - 1) \subseteq DOMAIN h.keys /\ 0..(n - 1) \subseteq DOMAIN h.vals
  BY <1>4, NowIs DEF Working, WorkFits
<1>6. /\ 0..(n - 1) \subseteq DOMAIN keys /\ 0..(n - 1) \subseteq DOMAIN vals
      /\ \A b \in 0..(n - 1) : keys[b] = h.keys[b] /\ vals[b] = h.vals[b]
  BY <1>2, <1>5 DEF Realloc
<1>7. u = Finished(h.size, n, newFlags, keys, vals)
  BY DEF Rehashed, Finished
<1> HIDE DEF keys, vals, u, m, n
<1>8. /\ IsTable(u) /\ u.n_buckets = n /\ u.n_occupied = h.size
  <2> DEFINE v == Finished(h.size, Now.n, Now.newFlags, keys, vals)
  <2>1. IsTable(v) /\ v.n_buckets = Now.n /\ v.n_occupied = h.size
    <3>1. /\ 0..(Now.n - 1) \subseteq DOMAIN keys /\ 0..(Now.n - 1) \subseteq DOMAIN vals
          /\ \A b \in 0..(Now.n - 1) : keys[b] = Now.keys[b] /\ vals[b] = Now.vals[b]
      BY <1>6, NowIs DEF n
    <3>2. QED
      BY <1>3, <1>4, <3>1, FinishFacts
  <2>2. v = u
    BY <1>7, NowIs DEF n
  <2> HIDE DEF v
  <2>3. QED
    BY <2>1, <2>2, NowIs DEF n
<1>9. u.n_occupied < u.upper_bound
  <2>1. h.size < Upper(n)
    BY <1>4, NowIs DEF Working, WorkCounted, n
  <2>2. u.upper_bound = Upper(n)
    BY <1>8 DEF IsTable, Counted
  <2>3. QED
    BY <1>8, <2>1, <2>2
<1>10. CASE put = MISSING
  BY <1>1, <1>2, <1>8, <1>10, WithinBound DEF StepsInv, IInv
<1>11. CASE put # MISSING
  <2> DEFINE v == PutKey(u, put[1], put[2])
  <2>1. put[1] \in Key /\ put[2] \in Val /\ h' = v
    BY <1>1, <1>11 DEF Resizing
  <2>2. IsTable(v) /\ v.n_buckets = u.n_buckets
    BY <1>8, <1>9, <2>1, PutKeyFacts
  <2> HIDE DEF v
  <2>3. v.n_buckets \in BoundedSizes
    BY <1>2, <1>8, <2>2, WithinBound
  <2>4. QED
    BY <1>1, <2>1, <2>2, <2>3 DEF StepsInv, IInv
<1>12. QED
  BY <1>10, <1>11

-----------------------------------------------------------------------------
LEMMA StepsStep ==
  ASSUME NoWrap, StepsInv, [StepsNext]_stepsVars
  PROVE  StepsInv'
<1>1. CASE UNCHANGED stepsVars
  BY <1>1 DEF StepsInv, IInv, Resizing, Scanning, Probing, Passed, Now, InHand,
              stepsVars, vars, locals
<1>2. CASE StepsNext
  BY <1>2, CallFacts, PassFacts, TakeFacts, ProbeOnFacts, EvictFacts, SettleFacts,
     FinishedFacts DEF StepsNext, RunResize
<1>3. QED
  BY <1>1, <1>2

LEMMA LostFacts == StepsInv => NothingLost
<1> SUFFICES ASSUME StepsInv, pc # "caller" PROVE NothingLost
  BY DEF NothingLost
<1>1. Working(Now, h.n_buckets, InHand, Content(before), h.size)
  BY DEF StepsInv, Resizing
<1>2. /\ waiting = Waiting(Now, h.n_buckets) /\ moved = Filled(Now)
      /\ waiting \cup moved = Holding(Now, h.n_buckets)
  BY NowIs DEF waiting, moved, Waiting, Filled, Holding
<1>3. waiting \cap moved = {}
  BY <1>1, <1>2 DEF Working, WorkApart
<1>4. Cardinality(waiting) + Cardinality(moved) + Cardinality(InHand) = h.size
  BY <1>1, <1>2 DEF Working, WorkCounted
<1>5. ElementsAt(h, waiting \cup moved) \cup InHand = Content(before)
  BY <1>1, <1>2, NowIs DEF Working, WorkKeeps, ElementsAt
<1>6. Content(before) = ElementsAt(before, {b \in 0..(before.n_buckets - 1) :
                                              before.flags[b] = "live"})
  BY DEF Content, LiveIn, BucketsOf, ElementsAt
<1>7. QED
  BY <1>3, <1>4, <1>5, <1>6 DEF NothingLost, InHand

(***************************************************************************)
(* At every moment of a rehash in place, whatever the hashes and sizes     *)
(* are, each element is in one place, and the elements are those there     *)
(* were when it began.                                                     *)
(***************************************************************************)
THEOREM LosesNothing ==
  ASSUME NoWrap
  PROVE  StepsSpec => []NothingLost
<1>1. StepsInit => StepsInv
  BY InitFacts DEF StepsInit, StepsInv
<1>2. StepsInv /\ [StepsNext]_stepsVars => StepsInv'
  BY StepsStep
<1>3. QED
  BY <1>1, <1>2, LostFacts, PTL DEF StepsSpec

-----------------------------------------------------------------------------
(***************************************************************************)
(* KhashSteps implements Khash.  Until it returns, a kh_resize has not     *)
(* happened; then it is the Resize of KhashOps.                            *)
(***************************************************************************)
Seen == IF pc = "caller" THEN h ELSE before

(* The operators of the instance are those of KhashOps. *)
LEMMA SameSizes ==
  /\ \A asked : Atomic!NewSize(asked) = NewSize(asked)
  /\ \A n : Atomic!AllEmpty(n) = AllEmpty(n) /\ Atomic!Upper(n) = Upper(n)
  /\ \A a, n : Atomic!Realloc(a, n) = Realloc(a, n)
BY DEF Atomic!NewSize, NewSize, Atomic!RoundUp, RoundUp, Atomic!Shl1, Shl1,
       Atomic!AllEmpty, AllEmpty, Atomic!Upper, Upper, Atomic!Realloc, Realloc

LEMMA SameTooSmall == \A t, asked : Atomic!TooSmall(t, asked) <=> TooSmall(t, asked)
BY SameSizes DEF Atomic!TooSmall, TooSmall

LEMMA SameMoveEach == \A st, n : Atomic!MoveEach(st, n) = MoveEach(st, n)
BY DEF Atomic!LeastStep, LeastStep, Atomic!Probe, Probe, Atomic!KickOut, KickOut,
       Atomic!ValKicked, ValKicked, Atomic!MarkDeleted, MarkDeleted,
       Atomic!KickOuts, KickOuts, Atomic!Move, Move, Atomic!MoveEach, MoveEach

LEMMA SameResize ==
  ASSUME NEW t, NEW asked
  PROVE  Atomic!Resize(t, asked) = Resize(t, asked)
BY SameSizes, SameTooSmall, SameMoveEach DEF Resize, Atomic!Resize

LEMMA SamePutBucket ==
  ASSUME NEW t, NEW key
  PROVE  Atomic!PutBucket(t, key) = PutBucket(t, key)
<1>1. Atomic!LastStep(t, key) = LastStep(t, key)
  BY DEF Atomic!LeastStep, LeastStep, Atomic!Probe, Probe, Atomic!LastStep, LastStep
<1>2. /\ \A k, s, n : Atomic!Probe(k, s, n) = Probe(k, s, n)
      /\ \A S : Atomic!Max(S) = Max(S)
  BY DEF Atomic!Probe, Probe, Atomic!Max, Max
<1>3. QED
  BY <1>1, <1>2 DEF Atomic!PutBucket, PutBucket

LEMMA SamePutKey ==
  ASSUME NEW t, NEW key, NEW val
  PROVE  Atomic!PutKey(t, key, val) = PutKey(t, key, val)
BY SamePutBucket DEF Atomic!PutKey, PutKey, Atomic!Occupied, Occupied

LEMMA SameReady ==
  ASSUME NEW t
  PROVE  /\ Atomic!NeedsResize(t) <=> NeedsResize(t)
         /\ Atomic!PutSize(t) = PutSize(t) /\ Atomic!Ready(t) = Ready(t)
<1>1. (Atomic!NeedsResize(t) <=> NeedsResize(t)) /\ Atomic!PutSize(t) = PutSize(t)
  BY DEF Atomic!NeedsResize, NeedsResize, Atomic!PutSize, PutSize
<1>2. Atomic!Resize(t, PutSize(t)) = Resize(t, PutSize(t))
  BY SameResize
<1>3. QED
  BY <1>1, <1>2 DEF Atomic!Ready, Ready

LEMMA SameFailure ==
  ASSUME NEW t, NEW asked, NEW keysMoved
  PROVE  /\ Atomic!ResizeFails(t, asked, keysMoved) <=> ResizeFails(t, asked, keysMoved)
         /\ Atomic!FailedResize(t, asked, keysMoved) = FailedResize(t, asked, keysMoved)
BY SameSizes, SameTooSmall
   DEF Atomic!ResizeFails, ResizeFails, Atomic!FailedResize, FailedResize

LEMMA SameDel == \A t, x : Atomic!Del(t, x) = Del(t, x)
BY DEF Atomic!Del, Del

LEMMA SameClear ==
  /\ \A t : Atomic!Clear(t) = Clear(t)
  /\ Atomic!NoTable = NoTable
BY SameSizes DEF Atomic!Clear, Clear, Atomic!NoTable, NoTable

(* What the actions of the instance say of the table seen. *)
LEMMA SeenPut ==
  ASSUME NEW key, NEW val, Ready(Seen).n_buckets <= MaxBuckets,
         Seen' = PutKey(Ready(Seen), key, val), call' = <<"put", key, val>>
  PROVE  Atomic!PutVal(key, val)
<1>1. Atomic!Ready(Seen) = Ready(Seen)
  BY SameReady
<1>2. QED
  BY <1>1, SamePutKey DEF Atomic!PutVal, Seen

LEMMA SeenResize ==
  ASSUME NEW asked, Seen' = Resize(Seen, asked), call' = <<"keep">>
  PROVE  Atomic!ResizeTo(asked)
<1>1. Atomic!Resize(Seen, asked) = Resize(Seen, asked)
  BY SameResize
<1>2. QED
  BY <1>1 DEF Atomic!ResizeTo, Seen

LEMMA SeenAtOnce ==
  ASSUME AtOnce
  PROVE  Atomic!Next
<1>1. pc = "caller" /\ pc' = "caller"
  BY DEF AtOnce
<1>2. Seen = h /\ Seen' = h'
  BY <1>1 DEF Seen
<1>3. ASSUME NEW key \in Key, NEW val \in Val, PutAtOnce(key, val) PROVE Atomic!Next
  <2>1. Atomic!PutVal(key, val)
    BY <1>2, <1>3, SeenPut DEF PutAtOnce, PutVal
  <2>2. QED
    BY <2>1 DEF Atomic!Next
<1>4. ASSUME NEW keysMoved \in BOOLEAN, PutWithoutMemory(keysMoved) PROVE Atomic!Next
  <2>1. Atomic!PutWithoutMemory(keysMoved)
    BY <1>2, <1>4, SameReady, SameFailure DEF PutWithoutMemory, Atomic!PutWithoutMemory, Seen
  <2>2. QED
    BY <2>1 DEF Atomic!Next
<1>5. ASSUME NEW keysMoved \in BOOLEAN, NEW asked \in Asked,
             ResizeWithoutMemory(asked, keysMoved)
      PROVE  Atomic!Next
  <2>1. Atomic!ResizeWithoutMemory(asked, keysMoved)
    BY <1>2, <1>5, SameFailure DEF ResizeWithoutMemory, Atomic!ResizeWithoutMemory, Seen
  <2>2. QED
    BY <2>1 DEF Atomic!Next
<1>6. ASSUME NEW x \in 0..MaxBuckets, DelBucket(x) PROVE Atomic!Next
  <2>1. Atomic!DelBucket(x)
    BY <1>2, <1>6, SameDel DEF DelBucket, Atomic!DelBucket, Seen
  <2>2. QED
    BY <2>1 DEF Atomic!Next
<1>7. ASSUME ClearTable PROVE Atomic!Next
  BY <1>2, <1>7, SameClear DEF ClearTable, Atomic!ClearTable, Seen, Atomic!Next
<1>8. ASSUME Destroy PROVE Atomic!Next
  BY <1>2, <1>8, SameClear DEF Destroy, Atomic!Destroy, Seen, Atomic!Next
<1>9. QED
  BY <1>3, <1>4, <1>5, <1>6, <1>7, <1>8 DEF AtOnce
-----------------------------------------------------------------------------
(* The states of the loops of a Resize, and of the rounds from one of them. *)
CourseOf(t, n) ==
  CHOOSE f : /\ Moves(f, Started(t, n), t.n_buckets)
             /\ MoveEach(Started(t, n), t.n_buckets) = f[t.n_buckets]
ChainOf(st) ==
  CHOOSE f : Rounds(f, st, st.left + 1) /\ KickOuts(st) = f[st.left + 1]

(* The rehash gets to the size that the call asked for. *)
Asks(asked) ==
  /\ NewSize(asked) = new_n_buckets /\ ~TooSmall(before, asked)
  /\ put = MISSING => asked \in Asked
  /\ put # MISSING => NeedsResize(before) /\ asked = PutSize(before)

Agrees(st) ==
  /\ st.flags = h.flags /\ st.newFlags = newFlags /\ st.keys = h.keys
  /\ st.vals = h.vals /\ st.n = new_n_buckets

Course == CourseOf(before, new_n_buckets)
Chain == ChainOf(Lifted(Course[j], j))

OnRound(st) ==
  /\ Agrees(st) /\ ~st.done
  /\ st.key = hand[1] /\ st.val = hand[2]

(***************************************************************************)
(* The inductive invariant of the refinement: the arrays of kh_resize are  *)
(* those of a state of the loops in Resize.                                *)
(***************************************************************************)
OnCourse ==
  /\ pc # "caller" =>
       /\ IsTable(before) /\ before.n_buckets = h.n_buckets /\ before.size = h.size
       /\ \E asked \in Nat : Asks(asked)
  /\ pc = "scan" => Agrees(Course[j])
  /\ pc = "probe" =>
       /\ Course[j].flags[j] = "live"
       /\ \E r \in 0..h.size : OnRound(Chain[r])

CourseInv == StepsInv /\ OnCourse

LEMMA CourseFacts ==
  ASSUME NEW t, IsTable(t), NEW n \in Sizes, n # 0, t.size < Upper(n)
  PROVE  LET f == CourseOf(t, n)
         IN  /\ f[0] = Started(t, n)
             /\ f[t.n_buckets] = MoveEach(Started(t, n), t.n_buckets)
             /\ \A b \in 0..(t.n_buckets - 1) : f[b + 1] = Move(f[b], b)
             /\ \A b \in 0..t.n_buckets : AtRest(f[b], t.n_buckets, Content(t), t.size)
<1> DEFINE st == Started(t, n)
           m == t.n_buckets
           f == CourseOf(t, n)
<1>1. AtRest(st, m, Content(t), t.size)
  BY StartFacts
<1>2. m \in Nat
  BY TableFacts
<1> HIDE DEF st
<1>3. Moves(f, st, m) /\ MoveEach(st, m) = f[m]
  BY <1>2, MovesExist DEF CourseOf, st
<1> HIDE DEF f, m
<1>4. /\ f[0] = st
      /\ \A b \in 1..m : f[b] = Move(f[b - 1], b - 1)
      /\ \A b \in 0..m : AtRest(f[b], m, Content(t), t.size)
  <2> DEFINE elements == Content(t)
             size == t.size
  <2>1. AtRest(st, m, elements, size)
    BY <1>1 DEF m
  <2> HIDE DEF elements, size
  <2>2. /\ f[0] = st
        /\ \A b \in 1..m : f[b] = Move(f[b - 1], b - 1)
        /\ \A b \in 0..m : AtRest(f[b], m, elements, size)
    BY <1>3, <2>1, MovesFacts
  <2>3. QED
    BY <2>2 DEF elements, size
<1>5. \A b \in 0..(m - 1) : f[b + 1] = Move(f[b], b)
  <2> SUFFICES ASSUME NEW b \in 0..(m - 1) PROVE f[b + 1] = Move(f[b], b)
    OBVIOUS
  <2>1. b + 1 \in 1..m /\ (b + 1) - 1 = b
    BY <1>2 DEF m
  <2>2. QED
    BY <1>4, <2>1
<1>6. QED
  BY <1>3, <1>4, <1>5 DEF st, m, f

LEMMA ChainFacts ==
  ASSUME NEW st, NEW m, NEW elements, NEW size, AtRest(st, m, elements, size),
         NEW b \in 0..(m - 1), st.flags[b] = "live"
  PROVE  LET u == Lifted(st, b)
             f == ChainOf(u)
         IN  /\ IsLifted(u, st, b, m, elements, size) /\ f[0] = u
             /\ \A r \in 0..size :
                  /\ AtRound(f[r], m, elements, size)
                  /\ f[r + 1] = KickOut(f[r])
                  /\ ~f[r].done => r < size
                  /\ f[r].done => Move(st, b) = f[r]
<1> DEFINE u == Lifted(st, b)
           f == ChainOf(u)
           v == KickOuts(u)
           k == size + 1
<1>1. IsLifted(u, st, b, m, elements, size)
  BY LiftedFacts
<1>2. Move(st, b) = v
  BY DEF Move, Lifted
<1> HIDE DEF u
<1>3. /\ AtRound(u, m, elements, size) /\ u.left = size /\ size \in Nat
      /\ Cardinality(Waiting(u, m)) + 1 <= size
  BY <1>1 DEF IsLifted
<1>4. Rounds(f, u, k) /\ v = f[k]
  <2>1. Rounds(f, u, u.left + 1) /\ KickOuts(u) = f[u.left + 1]
    BY <1>3, RoundsExist DEF ChainOf
  <2> HIDE DEF f, v
  <2>2. QED
    BY <1>3, <2>1 DEF v
<1>5. k \in Nat
  BY <1>3
<1> HIDE DEF f, v, k
<1>6. /\ f[0] = u
      /\ \A r \in 0..k : IsRound(f[r], r, u, m, elements, size)
      /\ \A r \in 1..k : f[r] = KickOut(f[r - 1])
  BY <1>3, <1>4, <1>5, RoundsFacts
<1>7. \A r \in 0..size : f[r + 1] = KickOut(f[r])
  <2> SUFFICES ASSUME NEW r \in 0..size PROVE f[r + 1] = KickOut(f[r])
    OBVIOUS
  <2>1. r + 1 \in 1..k /\ (r + 1) - 1 = r
    BY <1>3 DEF k
  <2>2. QED
    BY <1>6, <2>1
<1>8. \A r \in 0..k : f[r].done => f[k] = f[r]
  <2> SUFFICES ASSUME NEW r \in 0..k, f[r].done PROVE f[k] = f[r]
    OBVIOUS
  <2> DEFINE Same == {s \in Nat : r + s <= k => f[r + s] = f[r]}
  <2>1. 0 \in Same
    BY <1>5
  <2>2. ASSUME NEW s \in Nat, s \in Same PROVE s + 1 \in Same
    <3> SUFFICES ASSUME r + (s + 1) <= k PROVE f[r + (s + 1)] = f[r]
      OBVIOUS
    <3>1. r + s \in 0..size /\ r + (s + 1) = (r + s) + 1 /\ r + s <= k
      BY <1>3, <1>5 DEF k
    <3>2. f[r + (s + 1)] = KickOut(f[r + s]) /\ f[r + s] = f[r]
      BY <1>7, <2>2, <3>1
    <3>3. QED
      BY <3>2 DEF KickOut
  <2> HIDE DEF Same
  <2>3. \A s \in Nat : s \in Same
    BY <2>1, <2>2, SetInduction
  <2>4. k - r \in Nat /\ r + (k - r) = k
    BY <1>5
  <2>5. k - r \in Same
    BY <2>3, <2>4
  <2>6. QED
    BY <1>5, <2>4, <2>5 DEF Same
<1>9. ASSUME NEW r \in 0..size
      PROVE  /\ AtRound(f[r], m, elements, size)
             /\ ~f[r].done => r < size
             /\ f[r].done => v = f[r]
  <2> DEFINE x == f[r]
  <2>1. IsRound(x, r, u, m, elements, size)
    BY <1>3, <1>6 DEF k
  <2>2. f[r].done => v = f[r]
    BY <1>3, <1>4, <1>8 DEF k
  <2> HIDE DEF x
  <2>3. /\ Cardinality(Waiting(u, m)) \in Nat /\ Cardinality(Waiting(x, m)) \in Nat
    BY <1>3, <2>1, WorkFinite DEF IsRound, AtRound, Working
  <2>4. ~x.done => r < size
    BY <1>3, <2>1, <2>3 DEF IsRound
  <2>5. QED
    BY <2>1, <2>2, <2>4 DEF x, IsRound
<1>10. QED
  BY <1>1, <1>2, <1>6, <1>7, <1>9 DEF u, f, v

-----------------------------------------------------------------------------
(* The size that the new table gets is one that CourseFacts is about. *)
LEMMA NewSizeFits ==
  ASSUME NEW t, IsTable(t), NEW asked \in Nat, ~TooSmall(t, asked)
  PROVE  NewSize(asked) \in Sizes /\ NewSize(asked) # 0 /\ t.size < Upper(NewSize(asked))
<1> DEFINE n == NewSize(asked)
<1>1. \E k \in Nat \ {0, 1} : n = Shl1[k]
  BY NewSizeFacts
<1>2. n \in Nat /\ n >= 4 /\ Upper(n) \in Nat /\ t.size \in Nat
  BY NewSizeFacts, UpperFacts, TableFacts
<1>3. ~(t.size >= Upper(n))
  BY DEF TooSmall
<1> HIDE DEF n
<1>4. n \in Sizes /\ n # 0 /\ t.size < Upper(n)
  BY <1>1, <1>2, <1>3 DEF Sizes
<1>5. QED
  BY <1>4 DEF n

LEMMA OnCourseFacts ==
  ASSUME CourseInv, pc # "caller"
  PROVE  /\ Course[0] = Started(before, new_n_buckets)
         /\ Course[h.n_buckets] = MoveEach(Started(before, new_n_buckets), h.n_buckets)
         /\ \A b \in 0..(h.n_buckets - 1) : Course[b + 1] = Move(Course[b], b)
         /\ \A b \in 0..h.n_buckets :
              AtRest(Course[b], h.n_buckets, Content(before), h.size)
<1> DEFINE f == Course
<1>1. PICK asked \in Nat : Asks(asked)
  BY DEF CourseInv, OnCourse
<1>2. /\ IsTable(before) /\ before.n_buckets = h.n_buckets /\ before.size = h.size
  BY DEF CourseInv, OnCourse
<1>3. new_n_buckets \in Sizes /\ new_n_buckets # 0 /\ before.size < Upper(new_n_buckets)
  BY <1>1, <1>2, NewSizeFits DEF Asks
<1>4. /\ f[0] = Started(before, new_n_buckets)
      /\ f[before.n_buckets] = MoveEach(Started(before, new_n_buckets), before.n_buckets)
      /\ \A b \in 0..(before.n_buckets - 1) : f[b + 1] = Move(f[b], b)
      /\ \A b \in 0..before.n_buckets :
           AtRest(f[b], before.n_buckets, Content(before), before.size)
  BY <1>2, <1>3, CourseFacts DEF Course
<1> HIDE DEF f
<1>5. QED
  BY <1>2, <1>4 DEF f

(* The part of the invariant that a step of kh_resize leaves alone. *)
LEMMA SameCourse ==
  ASSUME CourseInv, pc # "caller", UNCHANGED <<before, new_n_buckets, put>>,
         h'.n_buckets = h.n_buckets, h'.size = h.size
  PROVE  /\ Course' = Course
         /\ IsTable(before)' /\ before'.n_buckets = h'.n_buckets /\ before'.size = h'.size
         /\ \E asked \in Nat : Asks(asked)'
<1>1. Course' = Course
  BY DEF Course
<1>2. /\ IsTable(before) /\ before.n_buckets = h.n_buckets /\ before.size = h.size
      /\ \E asked \in Nat : Asks(asked)
  BY DEF CourseInv, OnCourse
<1>3. \E asked \in Nat : Asks(asked)'
  BY <1>2 DEF Asks
<1>4. QED
  BY <1>1, <1>2, <1>3

LEMMA CourseBegins ==
  ASSUME CourseInv, NEW asked \in Nat, NEW putFor, Begin(asked, putFor),
         putFor = MISSING => asked \in Asked,
         putFor # MISSING => NeedsResize(h) /\ asked = PutSize(h)
  PROVE  OnCourse'
<1> DEFINE n == NewSize(asked)
           st == Started(h, n)
<1>1. /\ IInv /\ pc' = "scan" /\ ~TooSmall(h, asked)
      /\ new_n_buckets' = n /\ newFlags' = AllEmpty(n) /\ j' = 0
      /\ before' = h /\ put' = putFor
      /\ h'.n_buckets = h.n_buckets /\ h'.size = h.size
      /\ st.n = n /\ st.flags = h'.flags /\ st.newFlags = AllEmpty(n)
      /\ st.keys = h'.keys /\ st.vals = h'.vals
  BY BeginIs DEF CourseInv
<1>2. Asks(asked)'
  BY <1>1 DEF Asks
<1>3. IsTable(h)
  BY <1>1 DEF IInv
<1>4. Course'[0] = st
  <2>1. n \in Sizes /\ n # 0 /\ h.size < Upper(n)
    BY <1>1, <1>3, NewSizeFits
  <2> HIDE DEF n
  <2>2. CourseOf(h, n)[0] = st
    BY <1>3, <2>1, CourseFacts
  <2>3. Course' = CourseOf(h, n)
    BY <1>1 DEF Course
  <2>4. QED
    BY <2>2, <2>3
<1> HIDE DEF n, st
<1>5. Agrees(Course[j])'
  BY <1>1, <1>4 DEF Agrees
<1>6. QED
  BY <1>1, <1>2, <1>3, <1>5 DEF OnCourse

LEMMA CoursePasses ==
  ASSUME CourseInv, PassBucket
  PROVE  OnCourse'
<1>1. /\ pc = "scan" /\ pc' = "scan" /\ j # h.n_buckets /\ h.flags[j] # "live" /\ j' = j + 1
      /\ UNCHANGED <<h, newFlags, new_n_buckets, before, put>>
  BY DEF PassBucket, vars
<1>2. Agrees(Course[j])
  BY <1>1 DEF CourseInv, OnCourse
<1>3. j \in 0..(h.n_buckets - 1)
  BY <1>1, ResizingFacts DEF CourseInv, StepsInv, Resizing
<1>4. Course[j + 1] = Course[j]
  <2>1. Course[j + 1] = Move(Course[j], j)
    BY <1>1, <1>3, OnCourseFacts
  <2>2. Course[j].flags[j] # "live"
    BY <1>1, <1>2 DEF Agrees
  <2>3. QED
    BY <2>1, <2>2 DEF Move
<1>5. /\ Course' = Course
      /\ IsTable(before)' /\ before'.n_buckets = h'.n_buckets /\ before'.size = h'.size
      /\ \E asked \in Nat : Asks(asked)'
  BY <1>1, SameCourse
<1>6. Agrees(Course[j])'
  BY <1>1, <1>2, <1>4, <1>5 DEF Agrees
<1>7. QED
  BY <1>1, <1>5, <1>6 DEF OnCourse

LEMMA CourseTakesUp ==
  ASSUME CourseInv, TakeUp
  PROVE  OnCourse'
<1> DEFINE m == h.n_buckets
           st == Course[j]
           u == Lifted(st, j)
           flags == [h.flags EXCEPT ![j] = "deleted"]
<1>1. /\ pc = "scan" /\ pc' = "probe" /\ j # m /\ h.flags[j] = "live"
      /\ hand' = <<h.keys[j], h.vals[j]>> /\ h' = [h EXCEPT !.flags = flags]
      /\ UNCHANGED <<newFlags, new_n_buckets, j, before, put>>
  BY DEF TakeUp, MarkDeleted
<1>2. Resizing /\ Agrees(st)
  BY <1>1 DEF CourseInv, OnCourse, StepsInv
<1>3. j \in 0..(m - 1) /\ j \in 0..m
  BY <1>1, <1>2, ResizingFacts DEF Resizing
<1> HIDE DEF flags
<1>4. h' = Rewritten(h, flags, h.keys, h.vals) /\ IsRecord(h)
  BY <1>1, <1>2, RewrittenAtOnce DEF Resizing
<1>5. /\ h'.n_buckets = m /\ h'.size = h.size /\ h'.flags = flags
      /\ h'.keys = h.keys /\ h'.vals = h.vals
  BY <1>4, RewrittenFacts
<1>6. /\ Course' = Course
      /\ IsTable(before)' /\ before'.n_buckets = h'.n_buckets /\ before'.size = h'.size
      /\ \E asked \in Nat : Asks(asked)'
  BY <1>1, <1>5, SameCourse
<1>7. AtRest(st, m, Content(before), h.size) /\ st.flags[j] = "live"
  BY <1>1, <1>2, <1>3, OnCourseFacts DEF Agrees
<1> HIDE DEF st
<1>8. IsLifted(u, st, j, m, Content(before), h.size) /\ ChainOf(u)[0] = u
  BY <1>3, <1>7, ChainFacts
<1>9. /\ u.flags = [st.flags EXCEPT ![j] = "deleted"] /\ u.newFlags = st.newFlags
      /\ u.keys = st.keys /\ u.vals = st.vals /\ u.n = st.n
      /\ u.key = st.keys[j] /\ u.val = st.vals[j] /\ ~u.done
  BY <1>8 DEF IsLifted
<1> HIDE DEF u
<1>10. Chain'[0] = u
  <2>1. Chain' = ChainOf(u)
    BY <1>1, <1>6 DEF Chain, u, st
  <2>2. QED
    BY <1>8, <2>1
<1>11. OnRound(Chain[0])'
  <2>1. /\ u.flags = h'.flags /\ u.newFlags = newFlags' /\ u.keys = h'.keys
        /\ u.vals = h'.vals /\ u.n = new_n_buckets'
    BY <1>1, <1>2, <1>5, <1>9 DEF Agrees, flags
  <2>2. u.key = hand'[1] /\ u.val = hand'[2]
    BY <1>1, <1>2, <1>9 DEF Agrees
  <2>3. QED
    BY <1>9, <1>10, <2>1, <2>2 DEF OnRound, Agrees
<1>12. \E r \in 0..h'.size : OnRound(Chain[r])'
  <2>1. 0 \in 0..h'.size
    BY <1>2, <1>5 DEF Resizing, Working, WorkCounted
  <2>2. QED
    BY <1>11, <2>1
<1>13. (Course[j].flags[j] = "live")'
  BY <1>1, <1>6, <1>7 DEF st
<1>14. QED
  BY <1>1, <1>6, <1>12, <1>13 DEF OnCourse

LEMMA CourseProbesOn ==
  ASSUME CourseInv, ProbeOn
  PROVE  OnCourse'
<1>1. /\ pc = "probe" /\ pc' = "probe"
      /\ UNCHANGED <<h, newFlags, new_n_buckets, j, hand, before, put>>
  BY DEF ProbeOn, vars
<1>2. /\ Course' = Course
      /\ IsTable(before)' /\ before'.n_buckets = h'.n_buckets /\ before'.size = h'.size
      /\ \E asked \in Nat : Asks(asked)'
  BY <1>1, SameCourse
<1>3. Chain' = Chain
  BY <1>1, <1>2 DEF Chain
<1>4. \E r \in 0..h.size : OnRound(Chain[r])
  BY <1>1 DEF CourseInv, OnCourse
<1>5. \E r \in 0..h'.size : OnRound(Chain[r])'
  BY <1>1, <1>3, <1>4 DEF OnRound, Agrees
<1>6. (Course[j].flags[j] = "live")'
  BY <1>1, <1>2 DEF CourseInv, OnCourse
<1>7. QED
  BY <1>1, <1>2, <1>5, <1>6 DEF OnCourse

-----------------------------------------------------------------------------
(* The end of a probe is a round of the kick-out loop. *)
LEMMA FreeBucketIs ==
  ASSUME StepsInv, pc = "probe", newFlags[i] = "empty", NEW st, OnRound(st)
  PROVE  FreeBucket(st, st.key) = i
<1> DEFINE n == new_n_buckets
           key == hand[1]
           free == {s \in Nat : newFlags[Probe(key, s, n)] = "empty"}
           w == LeastStep(n, free)
<1>1. /\ n \in Nat \ {0} /\ step \in 0..(n - 1) /\ i = Probe(key, step, n)
      /\ \A r \in 0..(step - 1) : newFlags[Probe(key, r, n)] # "empty"
  BY ResizingFacts DEF StepsInv, Probing
<1>2. FreeBucket(st, st.key) = Probe(key, w, n)
  BY DEF OnRound, Agrees, FreeBucket
<1>3. step \in free /\ step \in 0..(2 * n - 1)
  BY <1>1
<1>4. \A r \in 0..(step - 1) : r \notin free
  BY <1>1
<1> HIDE DEF n, key, free
<1>5. w \in 0..step /\ w \in free
  BY <1>1, <1>3, LeastStepFacts
<1> HIDE DEF w
<1>6. w = step
  BY <1>1, <1>4, <1>5
<1>7. QED
  BY <1>1, <1>2, <1>6

Written(u) ==
  /\ u.newFlags = [newFlags EXCEPT ![i] = "live"] /\ u.n = new_n_buckets
  /\ u.keys = [h.keys EXCEPT ![i] = hand[1]] /\ u.vals = [h.vals EXCEPT ![i] = hand[2]]
  /\ u.flags = IF OccupiedByOld THEN [h.flags EXCEPT ![i] = "deleted"] ELSE h.flags
  /\ u.done = ~OccupiedByOld
  /\ u.key = h.keys[i] /\ u.val = h.vals[i]

LEMMA NextRound ==
  ASSUME CourseInv, pc = "probe", newFlags[i] = "empty"
  PROVE  \E r \in 0..h.size : /\ r + 1 \in 0..h.size /\ Written(Chain[r + 1])
                              /\ ~OccupiedByOld => Course[j + 1] = Chain[r + 1]
<1> DEFINE m == h.n_buckets
           st == Course[j]
           elements == Content(before)
           size == h.size
<1>1. StepsInv /\ Resizing /\ Probing /\ i \in Nat /\ m \in Nat /\ j \in 0..(m - 1) /\ j \in 0..m
  BY InProbe DEF CourseInv
<1>2. PICK r \in 0..size : OnRound(Chain[r])
  BY DEF CourseInv, OnCourse
<1>3. /\ AtRest(st, m, elements, size) /\ st.flags[j] = "live"
      /\ Course[j + 1] = Move(st, j)
  BY <1>1, OnCourseFacts DEF CourseInv, OnCourse
<1>4. Chain = ChainOf(Lifted(st, j))
  BY DEF Chain
<1>5. size \in Nat
  BY <1>1 DEF Resizing, Working, WorkCounted
<1> DEFINE f == Chain
<1> HIDE DEF st, f, elements, size, m
<1>6. \A q \in 0..size :
        /\ AtRound(f[q], m, elements, size) /\ f[q + 1] = KickOut(f[q])
        /\ ~f[q].done => q < size
        /\ f[q].done => Move(st, j) = f[q]
  BY <1>1, <1>3, <1>4, ChainFacts DEF f
<1> DEFINE x == f[r]
           u == KickOut(x)
<1>7. OnRound(x) /\ IsWork(x) /\ ~x.done /\ r + 1 \in 0..size
  <2>1. AtRound(x, m, elements, size) /\ (~x.done => r < size)
    BY <1>6
  <2>2. OnRound(x) /\ ~x.done
    BY <1>2 DEF OnRound, f
  <2>3. QED
    BY <1>5, <2>1, <2>2 DEF AtRound
<1>8. f[r + 1] = u /\ (u.done => Move(st, j) = u)
  BY <1>6, <1>7
<1> HIDE DEF x
<1>9. FreeBucket(x, x.key) = i
  BY <1>1, <1>7, FreeBucketIs
<1> DEFINE kicks == i \in DOMAIN x.flags /\ x.flags[i] = "live"
<1>10. /\ u.newFlags = [x.newFlags EXCEPT ![i] = "live"]
       /\ u.keys = [x.keys EXCEPT ![i] = x.key] /\ u.key = x.keys[i]
       /\ u.vals = [x.vals EXCEPT ![i] = x.val] /\ u.val = x.vals[i]
       /\ u.flags = IF kicks THEN [x.flags EXCEPT ![i] = "deleted"] ELSE x.flags
       /\ u.done = ~kicks /\ u.n = x.n
  BY <1>7, <1>9, KickOutIs
<1>11. kicks = OccupiedByOld
  BY <1>1, <1>7, ResizingFacts DEF OnRound, Agrees, OccupiedByOld, m
<1> HIDE DEF u, kicks
<1>12. Written(u)
  BY <1>7, <1>10, <1>11 DEF Written, OnRound, Agrees
<1>13. Written(f[r + 1]) /\ (~OccupiedByOld => Course[j + 1] = f[r + 1])
  BY <1>3, <1>8, <1>12 DEF Written
<1>14. QED
  BY <1>7, <1>13 DEF f, size

LEMMA CourseEvicts ==
  ASSUME CourseInv, Evict
  PROVE  OnCourse'
<1> DEFINE flags == [h.flags EXCEPT ![i] = "deleted"]
           keys == [h.keys EXCEPT ![i] = hand[1]]
           vals == [h.vals EXCEPT ![i] = hand[2]]
<1>1. /\ pc = "probe" /\ pc' = "probe" /\ newFlags[i] = "empty" /\ OccupiedByOld
      /\ newFlags' = [newFlags EXCEPT ![i] = "live"] /\ hand' = <<h.keys[i], h.vals[i]>>
      /\ h' = Rewritten(h, flags, keys, vals)
      /\ UNCHANGED <<new_n_buckets, j, before, put>>
  BY DEF Evict, MarkDeleted, Write, Rewritten
<1>2. IsRecord(h)
  BY <1>1 DEF CourseInv, StepsInv, Resizing
<1> HIDE DEF flags, keys, vals
<1>3. /\ h'.n_buckets = h.n_buckets /\ h'.size = h.size /\ h'.flags = flags
      /\ h'.keys = keys /\ h'.vals = vals
  BY <1>1, <1>2, RewrittenFacts
<1>4. /\ Course' = Course
      /\ IsTable(before)' /\ before'.n_buckets = h'.n_buckets /\ before'.size = h'.size
      /\ \E asked \in Nat : Asks(asked)'
  BY <1>1, <1>3, SameCourse
<1>5. Chain' = Chain /\ (Course[j].flags[j] = "live")'
  BY <1>1, <1>4 DEF Chain, CourseInv, OnCourse
<1>6. PICK r \in 0..h.size : r + 1 \in 0..h.size /\ Written(Chain[r + 1])
  BY <1>1, NextRound
<1>7. OnRound(Chain[r + 1])'
  BY <1>1, <1>3, <1>5, <1>6 DEF Written, OnRound, Agrees, flags, keys, vals
<1>8. \E q \in 0..h'.size : OnRound(Chain[q])'
  BY <1>3, <1>6, <1>7
<1>9. QED
  BY <1>1, <1>4, <1>5, <1>8 DEF OnCourse

LEMMA CourseSettles ==
  ASSUME CourseInv, Settle
  PROVE  OnCourse'
<1> DEFINE keys == [h.keys EXCEPT ![i] = hand[1]]
           vals == [h.vals EXCEPT ![i] = hand[2]]
<1>1. /\ pc = "probe" /\ pc' = "scan" /\ newFlags[i] = "empty" /\ ~OccupiedByOld
      /\ newFlags' = [newFlags EXCEPT ![i] = "live"] /\ j' = j + 1
      /\ h' = Rewritten(h, h.flags, keys, vals)
      /\ UNCHANGED <<new_n_buckets, before, put>>
  BY DEF Settle, Write, Rewritten
<1>2. IsRecord(h)
  BY <1>1 DEF CourseInv, StepsInv, Resizing
<1> HIDE DEF keys, vals
<1>3. /\ h'.n_buckets = h.n_buckets /\ h'.size = h.size /\ h'.flags = h.flags
      /\ h'.keys = keys /\ h'.vals = vals
  BY <1>1, <1>2, RewrittenFacts
<1>4. /\ Course' = Course
      /\ IsTable(before)' /\ before'.n_buckets = h'.n_buckets /\ before'.size = h'.size
      /\ \E asked \in Nat : Asks(asked)'
  BY <1>1, <1>3, SameCourse
<1>5. Written(Course[j + 1])
  BY <1>1, NextRound
<1>6. Agrees(Course[j])'
  BY <1>1, <1>3, <1>4, <1>5 DEF Written, Agrees, keys, vals
<1>7. QED
  BY <1>1, <1>4, <1>6 DEF OnCourse

-----------------------------------------------------------------------------
(* At the end of its loops kh_resize has what Resize computes. *)
LEMMA RehashedIs ==
  ASSUME CourseInv, pc = "scan", j = h.n_buckets, NEW asked \in Nat, Asks(asked)
  PROVE  Rehashed = Resize(before, asked)
<1> DEFINE n == new_n_buckets
           m == h.n_buckets
           st == MoveEach(Started(before, n), m)
<1>1. /\ before.n_buckets = m /\ before.size = h.size
      /\ NewSize(asked) = n /\ ~TooSmall(before, asked)
  BY DEF CourseInv, OnCourse, Asks
<1>2. st.flags = h.flags /\ st.newFlags = newFlags /\ st.keys = h.keys /\ st.vals = h.vals
  BY OnCourseFacts DEF CourseInv, OnCourse, Agrees
<1>3. Resize(before, asked) =
        Finished(h.size, n, st.newFlags, IF m > n THEN Realloc(st.keys, n) ELSE st.keys,
                                         IF m > n THEN Realloc(st.vals, n) ELSE st.vals)
  BY <1>1 DEF Resize, Finished, Started
<1> HIDE DEF st
<1>4. QED
  BY <1>2, <1>3 DEF Rehashed, Finished

LEMMA FinishSeen ==
  ASSUME CourseInv, Finish
  PROVE  Atomic!Next
<1>1. /\ pc = "scan" /\ pc' = "caller" /\ j = h.n_buckets
      /\ h' = IF put = MISSING THEN Rehashed ELSE PutKey(Rehashed, put[1], put[2])
      /\ call' = IF put = MISSING THEN <<"keep">> ELSE <<"put", put[1], put[2]>>
  BY DEF Finish
<1>2. PICK asked \in Nat : Asks(asked)
  BY <1>1 DEF CourseInv, OnCourse
<1>3. Rehashed = Resize(before, asked)
  BY <1>1, <1>2, RehashedIs
<1>4. Seen = before /\ Seen' = h'
  BY <1>1 DEF Seen
<1>5. CASE put = MISSING
  <2>1. asked \in Asked /\ Seen' = Resize(Seen, asked)
    BY <1>1, <1>2, <1>3, <1>4, <1>5 DEF Asks
  <2>2. Atomic!ResizeTo(asked)
    BY <1>1, <1>5, <2>1, SeenResize
  <2>3. QED
    BY <2>1, <2>2 DEF Atomic!Next
<1>6. CASE put # MISSING
  <2>1. /\ put[1] \in Key /\ put[2] \in Val /\ new_n_buckets <= MaxBuckets
    BY <1>1, <1>6 DEF CourseInv, StepsInv, Resizing
  <2>2. Ready(Seen) = Rehashed
    BY <1>2, <1>3, <1>4, <1>6 DEF Asks, Ready
  <2>3. Rehashed.n_buckets = new_n_buckets
    BY DEF Rehashed
  <2>4. Seen' = PutKey(Rehashed, put[1], put[2])
    BY <1>1, <1>4, <1>6
  <2>5. Atomic!PutVal(put[1], put[2])
    BY <1>1, <1>6, <2>1, <2>2, <2>3, <2>4, SeenPut
  <2>6. QED
    BY <2>1, <2>5 DEF Atomic!Next
<1>7. QED
  BY <1>5, <1>6

LEMMA BeginSeen ==
  ASSUME CourseInv, NEW asked \in Nat, NEW putFor, Begin(asked, putFor),
         putFor = MISSING => asked \in Asked,
         putFor # MISSING => NeedsResize(h) /\ asked = PutSize(h)
  PROVE  OnCourse' /\ UNCHANGED <<Seen, call>>
<1>1. pc = "caller" /\ pc' = "scan" /\ before' = h /\ call' = call
  BY DEF Begin
<1>2. QED
  BY <1>1, CourseBegins DEF Seen

LEMMA CallSeen ==
  ASSUME CourseInv, Call
  PROVE  OnCourse' /\ (Atomic!Next \/ UNCHANGED <<Seen, call>>)
<1>1. ASSUME NEW asked \in Asked, Begin(asked, MISSING)
      PROVE  OnCourse' /\ UNCHANGED <<Seen, call>>
  <2>1. asked \in Nat
    BY KhashAssumption
  <2>2. QED
    BY <1>1, <2>1, BeginSeen
<1>2. ASSUME NEW key \in Key, NEW val \in Val, PutBegins(key, val)
      PROVE  OnCourse' /\ UNCHANGED <<Seen, call>>
  <2>1. IsTable(h)
    BY <1>2 DEF PutBegins, Begin, CourseInv, StepsInv, IInv
  <2>2. PutSize(h) \in Nat
    BY <2>1, TableFacts DEF PutSize
  <2>3. NeedsResize(h) /\ Begin(PutSize(h), <<key, val>>)
    BY <1>2 DEF PutBegins
  <2>4. <<key, val>> # MISSING
    BY HandAssumption
  <2>5. QED
    BY <2>2, <2>3, <2>4, BeginSeen
<1>3. ASSUME AtOnce PROVE OnCourse' /\ Atomic!Next
  <2>1. pc' = "caller"
    BY <1>3 DEF AtOnce
  <2>2. QED
    BY <1>3, <2>1, SeenAtOnce DEF OnCourse
<1>4. QED
  BY <1>1, <1>2, <1>3 DEF Call

LEMMA CourseStep ==
  ASSUME NoWrap, CourseInv, [StepsNext]_stepsVars
  PROVE  CourseInv' /\ (Atomic!Next \/ UNCHANGED <<Seen, call>>)
<1>1. StepsInv'
  BY StepsStep DEF CourseInv
<1>2. CASE UNCHANGED stepsVars
  <2>1. UNCHANGED <<h, call, pc, new_n_buckets, newFlags, j, hand, before, put>>
    BY <1>2 DEF stepsVars, vars, locals
  <2>2. Course' = Course
    BY <2>1 DEF Course
  <2>3. Chain' = Chain
    BY <2>1, <2>2 DEF Chain
  <2>4. OnCourse'
    BY <2>1, <2>2, <2>3 DEF CourseInv, OnCourse, Asks, Agrees, OnRound
  <2>5. QED
    BY <1>1, <2>1, <2>4 DEF CourseInv, Seen
<1>3. CASE Call
  BY <1>1, <1>3, CallSeen DEF CourseInv
<1>4. ASSUME PassBucket \/ TakeUp \/ ProbeOn \/ Evict \/ Settle
      PROVE  OnCourse' /\ UNCHANGED <<Seen, call>>
  <2>1. OnCourse'
    BY <1>4, CoursePasses, CourseTakesUp, CourseProbesOn, CourseEvicts, CourseSettles
  <2>2. pc # "caller" /\ pc' # "caller" /\ before' = before /\ call' = call
    BY <1>4 DEF PassBucket, TakeUp, ProbeOn, Evict, Settle, vars
  <2>3. QED
    BY <2>1, <2>2 DEF Seen
<1>5. CASE Finish
  <2>1. pc' = "caller"
    BY <1>5 DEF Finish
  <2>2. QED
    BY <1>1, <1>5, <2>1, FinishSeen DEF CourseInv, OnCourse
<1>6. QED
  BY <1>1, <1>2, <1>3, <1>4, <1>5 DEF StepsNext, RunResize, CourseInv

(***************************************************************************)
(* The loops of kh_resize, which evict elements from buckets that the old  *)
(* and the new table share, are the one step that Khash has for them: what *)
(* holds of Khash holds of them, for all hashes and sizes.                 *)
(***************************************************************************)
THEOREM ImplementsKhash ==
  ASSUME NoWrap
  PROVE  StepsSpec => KhashSpec
<1>1. StepsInit => CourseInv /\ Atomic!Init
  <2> SUFFICES ASSUME StepsInit PROVE CourseInv /\ Atomic!Init
    OBVIOUS
  <2>1. StepsInv /\ OnCourse
    BY InitFacts DEF StepsInit, StepsInv, OnCourse
  <2>2. Atomic!Init
    BY SameClear DEF StepsInit, Init, Atomic!Init
  <2>3. QED
    BY <2>1, <2>2 DEF CourseInv
<1>2. CourseInv /\ [StepsNext]_stepsVars =>
        CourseInv' /\ [Atomic!Next]_(Atomic!vars)
  BY CourseStep DEF Seen, Atomic!vars
<1>3. QED
  BY <1>1, <1>2, PTL DEF StepsSpec, KhashSpec, Atomic!Spec
=============================================================================
