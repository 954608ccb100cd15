--------------------------- MODULE ClustersProofs ---------------------------
(***************************************************************************)
(* Proofs about Clusters, for any number of clusters that leaves           *)
(* 1 << capacityLog2 of the two ring buffers inside an int: every index is *)
(* in one of them, once, every cluster has one owner, and the functions    *)
(* implement ClusterQueue.                                                 *)
(***************************************************************************)
EXTENDS Clusters, NatProofs, SequenceTheorems, FiniteSetTheorems

-----------------------------------------------------------------------------
(* A sequence that has each member of a set once, and nothing else.        *)
Lists(w, S) ==
  /\ w \in Seq(S)
  /\ \A i, j \in 1..Len(w) : w[i] = w[j] => i = j
  /\ \A x \in S : \E i \in 1..Len(w) : w[i] = x

LEMMA ListsNothing == Lists(<<>>, {})
<1>1. <<>> \in Seq({}) /\ Len(<<>>) = 0
  BY EmptySeq
<1>2. QED
  BY <1>1 DEF Lists

LEMMA ListsCardinality ==
  ASSUME NEW S, NEW w, Lists(w, S)
  PROVE  IsFiniteSet(S) /\ Cardinality(S) = Len(w)
<1>1. Len(w) \in Nat /\ w \in [1..Len(w) -> S]
  BY LenProperties DEF Lists
<1>2. w \in Bijection(1..Len(w), S)
  BY <1>1 DEF Lists, Bijection, Injection, Surjection, IsInjective
<1>3. IsFiniteSet(1..Len(w)) /\ Cardinality(1..Len(w)) = Len(w)
  BY <1>1, FS_Interval
<1>4. QED
  BY <1>2, <1>3, FS_Bijection DEF ExistsBijection

LEMMA ListsAppend ==
  ASSUME NEW S, NEW w, Lists(w, S), NEW x, x \notin S
  PROVE  Lists(Append(w, x), S \cup {x})
<1> DEFINE T == S \cup {x}
           v == Append(w, x)
<1>1. w \in Seq(T) /\ Len(w) \in Nat /\ w \in [1..Len(w) -> S]
  BY LenProperties, SeqMonotonic DEF Lists
<1>2. /\ v \in Seq(T) /\ Len(v) = Len(w) + 1
      /\ \A i \in 1..Len(w) : v[i] = w[i]
      /\ v[Len(w) + 1] = x
  BY <1>1, AppendProperties
<1> HIDE DEF v
<1>3. ASSUME NEW i \in 1..Len(v), NEW j \in 1..Len(v), v[i] = v[j]
      PROVE  i = j
  BY <1>1, <1>2, <1>3 DEF Lists
<1>4. ASSUME NEW y \in T
      PROVE  \E i \in 1..Len(v) : v[i] = y
  <2>1. CASE y = x
    BY <1>1, <1>2, <2>1
  <2>2. CASE y \in S
    <3>1. PICK i \in 1..Len(w) : w[i] = y
      BY <2>2 DEF Lists
    <3>2. i \in 1..Len(v) /\ v[i] = y
      BY <1>1, <1>2, <3>1
    <3>3. QED
      BY <3>2
  <2>3. QED
    BY <2>1, <2>2
<1>5. QED
  BY <1>2, <1>3, <1>4 DEF Lists, v

LEMMA ListsTail ==
  ASSUME NEW S, NEW w, Lists(w, S), w # <<>>
  PROVE  /\ Lists(Tail(w), S \ {Head(w)})
         /\ Head(w) \in S
<1> DEFINE T == S \ {Head(w)}
           v == Tail(w)
<1>1. /\ w \in Seq(S) /\ Len(w) \in Nat \ {0} /\ Head(w) = w[1] /\ Head(w) \in S
      /\ v \in Seq(S) /\ Len(v) = Len(w) - 1
      /\ \A i \in 1..Len(v) : v[i] = w[i + 1]
  BY HeadTailProperties, EmptySeq DEF Lists
<1> HIDE DEF v
<1>2. \A i \in 1..Len(v) : i + 1 \in 1..Len(w) /\ i + 1 # 1
  BY <1>1
<1>3. \A i \in 1..Len(v) : v[i] \in T
  <2> SUFFICES ASSUME NEW i \in 1..Len(v) PROVE v[i] \in T
    OBVIOUS
  <2>1. /\ v[i] = w[i + 1] /\ i + 1 \in 1..Len(w) /\ i + 1 # 1 /\ 1 \in 1..Len(w)
    BY <1>1, <1>2
  <2>2. w[i + 1] \in S /\ w[i + 1] # w[1]
    BY <1>1, <2>1, ElementOfSeq DEF Lists
  <2>3. QED
    BY <1>1, <2>1, <2>2
<1>4. v \in Seq(T)
  <2>1. v \in [1..Len(v) -> T] /\ Len(v) \in Nat
    BY <1>1, <1>3, LenProperties
  <2>2. QED
    BY <2>1
<1>5. ASSUME NEW i \in 1..Len(v), NEW j \in 1..Len(v), v[i] = v[j]
      PROVE  i = j
  <2>1. w[i + 1] = w[j + 1] /\ i + 1 \in 1..Len(w) /\ j + 1 \in 1..Len(w)
    BY <1>1, <1>2, <1>5
  <2>2. i + 1 = j + 1
    BY <2>1 DEF Lists
  <2>3. QED
    BY <1>1, <2>2
<1>6. ASSUME NEW y \in T
      PROVE  \E i \in 1..Len(v) : v[i] = y
  <2>1. PICK i \in 1..Len(w) : w[i] = y
    BY DEF Lists
  <2>2. i # 1
    BY <1>1, <2>1
  <2>3. i - 1 \in 1..Len(v) /\ v[i - 1] = y
    BY <1>1, <2>1, <2>2
  <2>4. QED
    BY <2>3
<1>7. QED
  BY <1>1, <1>4, <1>5, <1>6 DEF Lists, v

LEMMA ListsFront ==
  ASSUME NEW S, NEW w, Lists(w, S), w # <<>>
  PROVE  /\ Lists(Front(w), S \ {Last(w)})
         /\ Last(w) \in S
<1> DEFINE T == S \ {Last(w)}
           v == Front(w)
           n == Len(w) - 1
<1>1. w \in Seq(S) /\ n \in Nat /\ Last(w) = w[n + 1] /\ n + 1 = Len(w)
  BY EmptySeq DEF Lists, Last
<1>2. n + 1 \in 1..Len(w) /\ Last(w) \in S
  BY <1>1, ElementOfSeq
<1>3. v = SubSeq(w, 1, n)
  BY DEF Front
<1>4. /\ v \in Seq(S) /\ Len(v) = n
      /\ \A i \in 1..n : v[i] = w[i]
  <2>1. \A i \in 1..n : w[i] \in S
    BY <1>1, ElementOfSeq
  <2>2. QED
    BY <1>1, <1>3, <2>1, SubSeqProperties
<1> HIDE DEF v, n
<1>5. \A i \in 1..n : i \in 1..Len(w) /\ i # n + 1
  BY <1>1
<1>6. \A i \in 1..n : v[i] \in T
  BY <1>1, <1>2, <1>4, <1>5, ElementOfSeq DEF Lists
<1>7. v \in Seq(T)
  <2>1. v \in [1..n -> T]
    BY <1>4, <1>6, LenProperties
  <2>2. QED
    BY <1>1, <2>1
<1>8. ASSUME NEW i \in 1..n, NEW j \in 1..n, v[i] = v[j]
      PROVE  i = j
  BY <1>4, <1>5, <1>8 DEF Lists
<1>9. ASSUME NEW y \in T
      PROVE  \E i \in 1..n : v[i] = y
  <2>1. PICK i \in 1..Len(w) : w[i] = y
    BY DEF Lists
  <2>2. i \in 1..n /\ v[i] = y
    BY <1>1, <1>4, <2>1
  <2>3. QED
    BY <2>2
<1>10. QED
  BY <1>2, <1>4, <1>7, <1>8, <1>9 DEF Lists, v

(* Two lists without a common member are one, and a list in two parts is two. *)
LEMMA ListsConcat ==
  ASSUME NEW S, NEW T, NEW w, NEW v, Lists(w, S), Lists(v, T), S \cap T = {}
  PROVE  Lists(w \o v, S \cup T)
<1> DEFINE U == S \cup T
           m == Len(w)
           n == Len(v)
           c == w \o v
<1>1. w \in Seq(U) /\ v \in Seq(U) /\ m \in Nat /\ n \in Nat
  BY SeqMonotonic, LenProperties DEF Lists
<1>2. /\ c \in Seq(U) /\ Len(c) = m + n
      /\ \A i \in 1..(m + n) : c[i] = IF i <= m THEN w[i] ELSE v[i - m]
  BY <1>1, ConcatProperties
<1>3. /\ \A i \in 1..m : w[i] \in S
      /\ \A i \in 1..n : v[i] \in T
  BY ElementOfSeq DEF Lists
<1> HIDE DEF c, m, n
<1>4. ASSUME NEW i \in 1..(m + n), NEW j \in 1..(m + n), c[i] = c[j]
      PROVE  i = j
  <2>1. CASE i <= m /\ j <= m
    <3>1. i \in 1..m /\ j \in 1..m /\ w[i] = w[j]
      BY <1>1, <1>2, <1>4, <2>1
    <3>2. QED
      BY <3>1 DEF Lists, m
  <2>2. CASE ~(i <= m) /\ ~(j <= m)
    <3>1. i - m \in 1..n /\ j - m \in 1..n /\ v[i - m] = v[j - m]
      BY <1>1, <1>2, <1>4, <2>2
    <3>2. i - m = j - m
      BY <3>1 DEF Lists, n
    <3>3. QED
      BY <1>1, <3>2
  <2>3. CASE i <= m /\ ~(j <= m)
    <3>1. i \in 1..m /\ j - m \in 1..n /\ c[i] = w[i] /\ c[j] = v[j - m]
      BY <1>1, <1>2, <2>3
    <3>2. QED
      BY <1>3, <1>4, <3>1
  <2>4. CASE ~(i <= m) /\ j <= m
    <3>1. i - m \in 1..n /\ j \in 1..m /\ c[i] = v[i - m] /\ c[j] = w[j]
      BY <1>1, <1>2, <2>4
    <3>2. QED
      BY <1>3, <1>4, <3>1
  <2>5. QED
    BY <2>1, <2>2, <2>3, <2>4
<1>5. ASSUME NEW y \in U
      PROVE  \E i \in 1..(m + n) : c[i] = y
  <2>1. CASE y \in S
    <3>1. PICK i \in 1..m : w[i] = y
      BY <2>1 DEF Lists, m
    <3>2. i \in 1..(m + n) /\ c[i] = y
      BY <1>1, <1>2, <3>1
    <3>3. QED
      BY <3>2
  <2>2. CASE y \in T
    <3>1. PICK i \in 1..n : v[i] = y
      BY <2>2 DEF Lists, n
    <3>2. i + m \in 1..(m + n) /\ c[i + m] = y
      BY <1>1, <1>2, <3>1
    <3>3. QED
      BY <3>2
  <2>3. QED
    BY <2>1, <2>2
<1>6. QED
  BY <1>2, <1>4, <1>5 DEF Lists, c

LEMMA ListsParts ==
  ASSUME NEW S, NEW w \in Seq(S), NEW v \in Seq(S), Lists(w \o v, S)
  PROVE  /\ Lists(w, ToSet(w)) /\ Lists(v, ToSet(v))
         /\ ToSet(w) \cap ToSet(v) = {}
         /\ ToSet(w) \cup ToSet(v) = S
<1> DEFINE m == Len(w)
           n == Len(v)
           c == w \o v
<1>1. /\ m \in Nat /\ n \in Nat
      /\ w \in [1..m -> S] /\ v \in [1..n -> S]
      /\ DOMAIN w = 1..m /\ DOMAIN v = 1..n
  BY LenProperties
<1>2. /\ Len(c) = m + n
      /\ \A i \in 1..(m + n) : c[i] = IF i <= m THEN w[i] ELSE v[i - m]
  BY ConcatProperties
<1> HIDE DEF c, m, n
<1>3. /\ \A i, j \in 1..(m + n) : c[i] = c[j] => i = j
      /\ \A x \in S : \E i \in 1..(m + n) : c[i] = x
  BY <1>2 DEF Lists, c
<1>4. /\ \A i \in 1..m : i \in 1..(m + n) /\ c[i] = w[i]
      /\ \A i \in 1..n : i + m \in 1..(m + n) /\ c[i + m] = v[i]
      /\ \A i \in 1..(m + n) : i \in 1..m \/ (i - m \in 1..n /\ c[i] = v[i - m])
  BY <1>1, <1>2
<1>5. ToSet(w) = {w[i] : i \in 1..m} /\ ToSet(v) = {v[i] : i \in 1..n}
  BY <1>1 DEF ToSet
<1>6. w \in Seq(ToSet(w)) /\ v \in Seq(ToSet(v))
  <2>1. w \in [1..m -> ToSet(w)] /\ v \in [1..n -> ToSet(v)]
    BY <1>1, <1>5
  <2>2. QED
    BY <1>1, <2>1
<1>7. \A i, j \in 1..m : w[i] = w[j] => i = j
  BY <1>3, <1>4
<1>8. ASSUME NEW i \in 1..n, NEW j \in 1..n, v[i] = v[j]
      PROVE  i = j
  <2>1. c[i + m] = c[j + m] /\ i + m \in 1..(m + n) /\ j + m \in 1..(m + n)
    BY <1>4, <1>8
  <2>2. i + m = j + m
    BY <1>3, <2>1
  <2>3. QED
    BY <1>1, <2>2
<1>9. ASSUME NEW i \in 1..m, NEW j \in 1..n
      PROVE  w[i] # v[j]
  <2>1. i # j + m
    BY <1>1
  <2>2. /\ c[i] = w[i] /\ c[j + m] = v[j]
        /\ i \in 1..(m + n) /\ j + m \in 1..(m + n)
    BY <1>4
  <2>3. QED
    BY <1>3, <2>1, <2>2
<1>10. Lists(w, ToSet(w)) /\ Lists(v, ToSet(v))
  BY <1>5, <1>6, <1>7, <1>8 DEF Lists, m, n
<1>11. ToSet(w) \cap ToSet(v) = {}
  BY <1>5, <1>9
<1>12. ToSet(w) \cup ToSet(v) = S
  <2>1. \A x \in S : x \in ToSet(w) \/ x \in ToSet(v)
    BY <1>3, <1>4, <1>5
  <2>2. \A x \in ToSet(w) \cup ToSet(v) : x \in S
    BY <1>1, <1>5
  <2>3. QED
    BY <2>1, <2>2
<1>13. QED
  BY <1>10, <1>11, <1>12

LEMMA ListsBoth ==
  ASSUME NEW X, NEW S, NEW w \in Seq(X), NEW v \in Seq(X), Lists(w \o v, S)
  PROVE  w \in Seq(S) /\ v \in Seq(S)
<1> DEFINE m == Len(w)
           n == Len(v)
           c == w \o v
<1>1. m \in Nat /\ n \in Nat /\ w \in [1..m -> X] /\ v \in [1..n -> X]
  BY LenProperties
<1>2. /\ Len(c) = m + n
      /\ \A i \in 1..(m + n) : c[i] = IF i <= m THEN w[i] ELSE v[i - m]
  BY ConcatProperties
<1>3. \A i \in 1..(m + n) : c[i] \in S
  BY <1>2, ElementOfSeq DEF Lists
<1> HIDE DEF c, m, n
<1>4. /\ \A i \in 1..m : i \in 1..(m + n) /\ c[i] = w[i]
      /\ \A i \in 1..n : i + m \in 1..(m + n) /\ c[i + m] = v[i]
  BY <1>1, <1>2
<1>5. /\ \A i \in 1..m : w[i] \in S
      /\ \A i \in 1..n : v[i] \in S
  BY <1>3, <1>4
<1>6. w \in [1..m -> S] /\ v \in [1..n -> S]
  BY <1>1, <1>5
<1>7. QED
  BY <1>1, <1>6

(* The first of the second list becomes the last of the first one. *)
LEMMA ListsTake ==
  ASSUME NEW X, NEW S, NEW w \in Seq(X), NEW v \in Seq(X), Lists(w \o v, S), v # <<>>
  PROVE  /\ Lists(Append(w, Head(v)) \o Tail(v), S)
         /\ Head(v) \in S
         /\ Head(v) \notin ToSet(w)
<1>1. /\ Lists(w, ToSet(w)) /\ Lists(v, ToSet(v))
      /\ ToSet(w) \cap ToSet(v) = {} /\ ToSet(w) \cup ToSet(v) = S
  BY ListsBoth, ListsParts
<1>2. Lists(Tail(v), ToSet(v) \ {Head(v)}) /\ Head(v) \in ToSet(v)
  BY <1>1, ListsTail
<1>3. Head(v) \notin ToSet(w)
  BY <1>1, <1>2
<1>4. Lists(Append(w, Head(v)), ToSet(w) \cup {Head(v)})
  BY <1>1, <1>3, ListsAppend
<1> DEFINE A == ToSet(w) \cup {Head(v)}
           B == ToSet(v) \ {Head(v)}
<1>5. A \cap B = {} /\ A \cup B = S
  BY <1>1, <1>2
<1> HIDE DEF A, B
<1>6. Lists(Append(w, Head(v)) \o Tail(v), A \cup B)
  BY <1>2, <1>4, <1>5, ListsConcat DEF A, B
<1>7. QED
  BY <1>1, <1>2, <1>3, <1>5, <1>6

(* The last of the second list becomes the last of the first one. *)
LEMMA ListsTakeLast ==
  ASSUME NEW X, NEW S, NEW w \in Seq(X), NEW v \in Seq(X), Lists(w \o v, S), v # <<>>
  PROVE  Lists(Append(w, Last(v)) \o Front(v), S)
<1>1. /\ Lists(w, ToSet(w)) /\ Lists(v, ToSet(v))
      /\ ToSet(w) \cap ToSet(v) = {} /\ ToSet(w) \cup ToSet(v) = S
  BY ListsBoth, ListsParts
<1>2. Lists(Front(v), ToSet(v) \ {Last(v)}) /\ Last(v) \in ToSet(v)
  BY <1>1, ListsFront
<1>3. Lists(Append(w, Last(v)), ToSet(w) \cup {Last(v)})
  BY <1>1, <1>2, ListsAppend
<1> DEFINE A == ToSet(w) \cup {Last(v)}
           B == ToSet(v) \ {Last(v)}
<1>4. A \cap B = {} /\ A \cup B = S
  BY <1>1, <1>2
<1> HIDE DEF A, B
<1>5. Lists(Append(w, Last(v)) \o Front(v), A \cup B)
  BY <1>2, <1>3, <1>4, ListsConcat DEF A, B
<1>6. QED
  BY <1>4, <1>5

(* The first of the first list becomes the last of the second one, or goes. *)
LEMMA ListsRelease ==
  ASSUME NEW X, NEW S, NEW w \in Seq(X), NEW v \in Seq(X), Lists(w \o v, S), w # <<>>
  PROVE  /\ Lists(Tail(w) \o Append(v, Head(w)), S)
         /\ Lists(Tail(w) \o v, S \ {Head(w)})
         /\ Head(w) \in S
         /\ Head(w) \notin ToSet(v)
<1>1. /\ Lists(w, ToSet(w)) /\ Lists(v, ToSet(v))
      /\ ToSet(w) \cap ToSet(v) = {} /\ ToSet(w) \cup ToSet(v) = S
  BY ListsBoth, ListsParts
<1>2. Lists(Tail(w), ToSet(w) \ {Head(w)}) /\ Head(w) \in ToSet(w)
  BY <1>1, ListsTail
<1>3. Head(w) \notin ToSet(v)
  BY <1>1, <1>2
<1>4. Lists(Append(v, Head(w)), ToSet(v) \cup {Head(w)})
  BY <1>1, <1>3, ListsAppend
<1> DEFINE A == ToSet(w) \ {Head(w)}
           B == ToSet(v)
           C == ToSet(v) \cup {Head(w)}
<1>5. /\ A \cap B = {} /\ A \cup B = S \ {Head(w)}
      /\ A \cap C = {} /\ A \cup C = S
  BY <1>1, <1>2
<1> HIDE DEF A, B, C
<1>6. Lists(Tail(w) \o v, A \cup B)
  BY <1>1, <1>2, <1>5, ListsConcat DEF A, B
<1>7. Lists(Tail(w) \o Append(v, Head(w)), A \cup C)
  BY <1>2, <1>4, <1>5, ListsConcat DEF A, C
<1>8. QED
  BY <1>1, <1>2, <1>3, <1>5, <1>6, <1>7

(* One more member joins the first list. *)
LEMMA ListsJoin ==
  ASSUME NEW X, NEW S, NEW w \in Seq(X), NEW v \in Seq(X), Lists(w \o v, S),
         NEW x, x \notin S
  PROVE  Lists(Append(w, x) \o v, S \cup {x})
<1>1. /\ Lists(w, ToSet(w)) /\ Lists(v, ToSet(v))
      /\ ToSet(w) \cap ToSet(v) = {} /\ ToSet(w) \cup ToSet(v) = S
  BY ListsBoth, ListsParts
<1>2. Lists(Append(w, x), ToSet(w) \cup {x})
  BY <1>1, ListsAppend
<1> DEFINE A == ToSet(w) \cup {x}
           B == ToSet(v)
<1>3. A \cap B = {} /\ A \cup B = S \cup {x}
  BY <1>1
<1> HIDE DEF A, B
<1>4. Lists(Append(w, x) \o v, A \cup B)
  BY <1>1, <1>2, <1>3, ListsConcat DEF A, B
<1>5. QED
  BY <1>3, <1>4

-----------------------------------------------------------------------------
(* What circbuf.c does to a buffer holds of the two buffers of indices.    *)
R == INSTANCE CircbufProofs WITH
  Elem <- Nat, MaxCapacityLog2 <- 0, buf <- pool, owner <- heap

(* What the module assumes of its constants. *)
LEMMA RingAssumption ==
  NULL \notin Nat /\ 0 \in Nat /\ 0 <= SizeBits - 3
BY ClusterAssumption, CountAssumption, WidthAssumption

LEMMA SameShl1 == Ring!Shl1 = Shl1 /\ R!Shl1 = Shl1
BY DEF Ring!Shl1, Shl1, R!Shl1

LEMMA SameBuffers ==
  \A b : /\ Ring!IsBuffer(b) = R!IsBuffer(b)
         /\ Ring!Contents(b) = R!Contents(b)
         /\ Ring!Full(b) = R!Full(b)
         /\ Ring!FrontIndex(b) = R!FrontIndex(b)
         /\ Ring!PopBack(b) = R!PopBack(b)
<1>1. \A b : Ring!IsBuffer(b) = R!IsBuffer(b)
  BY SameShl1 DEF Ring!IsBuffer, R!IsBuffer
<1>2. \A b : Ring!Contents(b) = R!Contents(b)
  BY DEF Ring!Contents, R!Contents, Ring!Rotate, R!Rotate
<1>3. \A b : Ring!Full(b) = R!Full(b)
  BY SameShl1 DEF Ring!Full, R!Full, Ring!IntShl1, R!IntShl1
<1>4. \A b : Ring!FrontIndex(b) = R!FrontIndex(b)
  BY DEF Ring!FrontIndex, R!FrontIndex, Ring!Rotate, R!Rotate
<1>5. \A b : Ring!PopBack(b) = R!PopBack(b)
  BY DEF Ring!PopBack, R!PopBack, Ring!Rotate, R!Rotate
<1>6. QED
  BY <1>1, <1>2, <1>3, <1>4, <1>5

LEMMA SamePuts ==
  /\ \A k : Ring!Make(k) = R!Make(k)
  /\ \A b, e : /\ Ring!Put(b, e) = R!Put(b, e)
               /\ Ring!DynamicPut(b, e) = R!DynamicPut(b, e)
<1>1. \A k : Ring!Make(k) = R!Make(k)
  BY SameShl1 DEF Ring!Make, R!Make
<1>2. \A b, e : Ring!Put(b, e) = R!Put(b, e)
  BY DEF Ring!Put, R!Put, Ring!Rotate, R!Rotate
<1>3. \A b, k : Ring!Resize(b, k) = R!Resize(b, k)
  <2>1. \A k : Ring!IntShl1(k) = R!IntShl1(k)
    BY SameShl1 DEF Ring!IntShl1, R!IntShl1
  <2> SUFFICES ASSUME NEW b, NEW k PROVE Ring!Resize(b, k) = R!Resize(b, k)
    OBVIOUS
  <2>2. Ring!Make(k) = R!Make(k) /\ Ring!IntShl1(b.capacityLog2) = R!IntShl1(b.capacityLog2)
    BY <1>1, <2>1
  <2>3. QED
    BY <2>2 DEF Ring!Resize, R!Resize
<1>4. \A b, e : Ring!DynamicPut(b, e) = R!DynamicPut(b, e)
  BY <1>2, <1>3, SameBuffers DEF Ring!DynamicPut, R!DynamicPut
<1>5. QED
  BY <1>1, <1>2, <1>4

LEMMA RingFields ==
  ASSUME NEW b, Ring!IsBuffer(b)
  PROVE  /\ b.capacityLog2 \in Nat
         /\ b.length \in 0..Shl1[b.capacityLog2]
         /\ Len(Ring!Contents(b)) = b.length
         /\ Ring!Contents(b) \in Seq(Nat \cup {NULL})
         /\ b.length \in Nat
         /\ Ring!Contents(b) = <<>> => b.length = 0
<1>1. NULL \notin Nat /\ 0 \in Nat /\ 0 <= SizeBits - 3
  BY RingAssumption
<1>2. R!IsBuffer(b)
  BY SameBuffers
<1>3. /\ b.capacityLog2 \in Nat
      /\ b.length \in 0..Shl1[b.capacityLog2]
      /\ Shl1[b.capacityLog2] \in Nat
  BY <1>1, <1>2, WidthAssumption, SameShl1, R!FieldFacts
<1>4. Len(R!Contents(b)) = b.length /\ R!Contents(b) \in Seq(Nat \cup {NULL})
  BY <1>1, <1>2, WidthAssumption, R!ContentsFacts
<1>5. Ring!Contents(b) = R!Contents(b)
  BY SameBuffers
<1>6. QED
  BY <1>3, <1>4, <1>5, EmptySeq

LEMMA RingMake ==
  ASSUME NEW k \in Nat
  PROVE  /\ Ring!IsBuffer(Ring!Make(k)) /\ Ring!Contents(Ring!Make(k)) = <<>>
         /\ Ring!Make(k).capacityLog2 = k /\ Ring!Make(k).length = 0
<1>1. NULL \notin Nat /\ 0 \in Nat /\ 0 <= SizeBits - 3
  BY RingAssumption
<1>2. R!IsBuffer(R!Make(k)) /\ R!Contents(R!Make(k)) = <<>> /\ R!Make(k).capacityLog2 = k
  BY <1>1, WidthAssumption, R!MakeFacts
<1>3. R!Make(k).length = 0
  BY DEF R!Make
<1>4. QED
  BY <1>2, <1>3, SameBuffers, SamePuts

LEMMA RingPut ==
  ASSUME NEW b, Ring!IsBuffer(b), NEW e \in Nat, b.length < Shl1[b.capacityLog2]
  PROVE  /\ Ring!IsBuffer(Ring!Put(b, e))
         /\ Ring!Put(b, e).capacityLog2 = b.capacityLog2
         /\ Ring!Contents(Ring!Put(b, e)) = Append(Ring!Contents(b), e)
<1>1. NULL \notin Nat /\ 0 \in Nat /\ 0 <= SizeBits - 3
  BY RingAssumption
<1>2. R!IsBuffer(b) /\ b.length < R!Shl1[b.capacityLog2]
  BY SameBuffers, SameShl1
<1>3. /\ R!IsBuffer(R!Put(b, e))
      /\ R!Put(b, e).capacityLog2 = b.capacityLog2
      /\ R!Contents(R!Put(b, e)) = Append(R!Contents(b), e)
  BY <1>1, <1>2, WidthAssumption, R!PutFacts
<1>4. QED
  BY <1>3, SameBuffers, SamePuts

LEMMA RingDynamicPut ==
  ASSUME NEW b, Ring!IsBuffer(b), b.capacityLog2 < IntBits - 1, NEW e \in Nat
  PROVE  /\ Ring!IsBuffer(Ring!DynamicPut(b, e))
         /\ Ring!Contents(Ring!DynamicPut(b, e)) = Append(Ring!Contents(b), e)
         /\ \/ Shl1[Ring!DynamicPut(b, e).capacityLog2] = Shl1[b.capacityLog2]
            \/ Shl1[Ring!DynamicPut(b, e).capacityLog2] = 2 * b.length
<1>1. NULL \notin Nat /\ 0 \in Nat /\ 0 <= SizeBits - 3
  BY RingAssumption
<1>2. R!IsBuffer(b)
  BY SameBuffers
<1>3. /\ R!IsBuffer(R!DynamicPut(b, e))
      /\ R!Contents(R!DynamicPut(b, e)) = Append(R!Contents(b), e)
      /\ R!DynamicPut(b, e).capacityLog2 =
           IF R!Full(b) THEN b.capacityLog2 + 1 ELSE b.capacityLog2
  BY <1>1, <1>2, WidthAssumption, R!DynamicPutFacts
<1>4. R!Full(b) => b.length = R!Shl1[b.capacityLog2]
  BY <1>1, <1>2, WidthAssumption, R!FullFacts
<1>5. Shl1[b.capacityLog2 + 1] = 2 * Shl1[b.capacityLog2]
  BY RingFields, Shl1Facts
<1>6. QED
  BY <1>3, <1>4, <1>5, SameBuffers, SamePuts, SameShl1

LEMMA RingPop ==
  ASSUME NEW b, Ring!IsBuffer(b), b.length # 0
  PROVE  /\ Ring!IsBuffer(Ring!PopBack(b))
         /\ Ring!PopBack(b).capacityLog2 = b.capacityLog2
         /\ Ring!Contents(b) # <<>>
         /\ Back(b) = Head(Ring!Contents(b))
         /\ Ring!Contents(Ring!PopBack(b)) = Tail(Ring!Contents(b))
<1>1. NULL \notin Nat /\ 0 \in Nat /\ 0 <= SizeBits - 3
  BY RingAssumption
<1>2. R!IsBuffer(b)
  BY SameBuffers
<1>3. /\ R!IsBuffer(R!PopBack(b))
      /\ R!PopBack(b).capacityLog2 = b.capacityLog2
      /\ R!Contents(b) # <<>>
      /\ b.a[b.start] = Head(R!Contents(b))
      /\ R!Contents(R!PopBack(b)) = Tail(R!Contents(b))
  BY <1>1, <1>2, WidthAssumption, R!PopFacts
<1>4. QED
  BY <1>3, SameBuffers DEF Back

LEMMA RingFront ==
  ASSUME NEW b, Ring!IsBuffer(b), b.length # 0
  PROVE  b.a[Ring!FrontIndex(b)] = Last(Ring!Contents(b))
<1>1. NULL \notin Nat /\ 0 \in Nat /\ 0 <= SizeBits - 3
  BY RingAssumption
<1>2. R!IsBuffer(b)
  BY SameBuffers
<1>3. b.a[R!FrontIndex(b)] = R!Contents(b)[b.length]
  BY <1>1, <1>2, WidthAssumption, R!FrontFacts
<1>4. QED
  BY <1>3, RingFields, SameBuffers DEF Last

(* The indices of a buffer are those its window holds. *)
LEMMA RingIndices ==
  ASSUME NEW b, Ring!IsBuffer(b)
  PROVE  Indices(b) = ToSet(Ring!Contents(b))
<1>1. DOMAIN Ring!Contents(b) = 1..b.length
  BY RingFields, LenProperties
<1>2. QED
  BY <1>1 DEF Indices, ToSet

-----------------------------------------------------------------------------
(* count indices, from first on.                                           *)
Run(first, count) == [i \in 1..count |-> first + i - 1]

LEMMA RunConcat ==
  ASSUME NEW n \in Nat, NEW m \in Nat
  PROVE  Run(0, n) \o Run(n, m) = Run(0, n + m)
<1> DEFINE w == Run(0, n)
           v == Run(n, m)
           r == Run(0, n + m)
<1>1. /\ w \in [1..n -> Nat] /\ v \in [1..m -> Nat] /\ r \in [1..(n + m) -> Nat]
      /\ \A i \in 1..n : w[i] = i - 1
      /\ \A i \in 1..m : v[i] = n + i - 1
      /\ \A i \in 1..(n + m) : r[i] = i - 1
  BY DEF Run
<1> HIDE DEF w, v, r
<1>2. /\ w \in Seq(Nat) /\ v \in Seq(Nat) /\ r \in Seq(Nat)
      /\ Len(w) = n /\ Len(v) = m /\ Len(r) = n + m
  <2>1. w \in Seq(Nat) /\ Len(w) = n /\ v \in Seq(Nat) /\ Len(v) = m
    BY <1>1, LenProperties
  <2> DEFINE k == n + m
  <2>2. k \in Nat /\ r \in [1..k -> Nat]
    BY <1>1
  <2> HIDE DEF k
  <2>3. r \in Seq(Nat) /\ Len(r) = k
    BY <2>2, LenProperties
  <2>4. QED
    BY <2>1, <2>3 DEF k
<1>3. /\ w \o v \in Seq(Nat) /\ Len(w \o v) = n + m
      /\ \A i \in 1..(n + m) : (w \o v)[i] = IF i <= n THEN w[i] ELSE v[i - n]
  BY <1>2, ConcatProperties
<1>4. ASSUME NEW i \in 1..(n + m) PROVE (w \o v)[i] = r[i]
  <2>1. CASE i <= n
    <3>1. i \in 1..n
      BY <2>1
    <3>2. QED
      BY <1>1, <1>3, <2>1, <3>1
  <2>2. CASE ~(i <= n)
    <3>1. i - n \in 1..m /\ n + (i - n) - 1 = i - 1
      BY <2>2
    <3>2. QED
      BY <1>1, <1>3, <2>2, <3>1
  <2>3. QED
    BY <2>1, <2>2
<1>5. QED
  BY <1>2, <1>3, <1>4, SeqEqual DEF w, v, r

(* The first of the second list becomes the last of the first one: their    *)
(* order stays.                                                             *)
LEMMA MoveHead ==
  ASSUME NEW X, NEW w \in Seq(X), NEW v \in Seq(X), v # <<>>
  PROVE  Append(w, Head(v)) \o Tail(v) = w \o v
<1> DEFINE x == Head(v)
           t == Tail(v)
<1>1. /\ x \in X /\ t \in Seq(X) /\ Len(t) = Len(v) - 1 /\ x = v[1]
      /\ \A i \in 1..Len(t) : t[i] = v[i + 1]
      /\ Len(v) \in Nat \ {0}
  BY HeadTailProperties, EmptySeq
<1> HIDE DEF x, t
<1>2. Append(w, x) = w \o <<x>> /\ <<x>> \in Seq(X) /\ Len(<<x>>) = 1 /\ <<x>>[1] = x
  BY <1>1, AppendIsConcat
<1>3. (w \o <<x>>) \o t = w \o (<<x>> \o t)
  BY <1>1, <1>2, ConcatAssociative
<1> DEFINE s == <<x>> \o t
<1>4. /\ s \in Seq(X) /\ Len(s) = Len(v)
      /\ \A i \in 1..Len(v) : s[i] = IF i <= 1 THEN <<x>>[i] ELSE t[i - 1]
  <2>1. /\ s \in Seq(X) /\ Len(s) = 1 + Len(t)
        /\ \A i \in 1..(1 + Len(t)) : s[i] = IF i <= 1 THEN <<x>>[i] ELSE t[i - 1]
    BY <1>1, <1>2, ConcatProperties
  <2>2. 1 + Len(t) = Len(v)
    BY <1>1
  <2>3. QED
    BY <2>1, <2>2
<1> HIDE DEF s
<1>5. ASSUME NEW i \in 1..Len(v) PROVE s[i] = v[i]
  <2>1. CASE i = 1
    BY <1>1, <1>2, <1>4, <2>1
  <2>2. CASE i # 1
    <3>1. i - 1 \in 1..Len(t) /\ (i - 1) + 1 = i /\ ~(i <= 1)
      BY <1>1, <2>2
    <3>2. QED
      BY <1>1, <1>4, <3>1
  <2>3. QED
    BY <2>1, <2>2
<1>6. s = v
  BY <1>4, <1>5, SeqEqual
<1>7. QED
  BY <1>2, <1>3, <1>6 DEF s, x, t

LEMMA RunFacts ==
  ASSUME NEW first \in Nat, NEW count \in Nat
  PROVE  /\ Lists(Run(first, count), first..(first + count - 1))
         /\ Len(Run(first, count)) = count
         /\ Run(first, 0) = <<>>
         /\ Append(Run(first, count), first + count) = Run(first, count + 1)
<1> DEFINE r == Run(first, count)
           S == first..(first + count - 1)
<1>1. r \in [1..count -> S] /\ \A i \in 1..count : r[i] = first + i - 1
  BY DEF Run
<1>2. r \in Seq(S) /\ Len(r) = count
  BY <1>1, LenProperties
<1>3. Lists(r, S)
  <2>1. \A i, j \in 1..count : r[i] = r[j] => i = j
    BY <1>1
  <2>2. ASSUME NEW x \in S PROVE \E i \in 1..count : r[i] = x
    <3>1. x - first + 1 \in 1..count /\ r[x - first + 1] = x
      BY <1>1
    <3>2. QED
      BY <3>1
  <2>3. QED
    BY <1>2, <2>1, <2>2 DEF Lists
<1>4. Run(first, 0) = <<>>
  BY DEF Run
<1>5. Append(r, first + count) = Run(first, count + 1)
  <2> DEFINE s == Run(first, count + 1)
  <2>1. s \in [1..(count + 1) -> Nat] /\ \A i \in 1..(count + 1) : s[i] = first + i - 1
    BY DEF Run
  <2>2. s \in Seq(Nat) /\ Len(s) = count + 1
    BY <2>1, LenProperties
  <2>3. r \in Seq(Nat)
    BY <1>1, <1>2
  <2> HIDE DEF r, s
  <2>4. /\ Append(r, first + count) \in Seq(Nat)
        /\ Len(Append(r, first + count)) = count + 1
        /\ \A i \in 1..count : Append(r, first + count)[i] = r[i]
        /\ Append(r, first + count)[count + 1] = first + count
    BY <1>2, <2>3, AppendProperties
  <2>5. \A i \in 1..(count + 1) : Append(r, first + count)[i] = s[i]
    BY <1>1, <2>1, <2>4
  <2>6. Append(r, first + count) = s
    BY <2>2, <2>4, <2>5, SeqEqual
  <2>7. QED
    BY <2>6 DEF r, s
<1>6. QED
  BY <1>2, <1>3, <1>4, <1>5

(* A power of two that the int's largest exceeds has a smaller exponent. *)
LEMMA PowerBelow ==
  ASSUME NEW k \in Nat, Shl1[k] < Shl1[IntBits - 1]
  PROVE  k < IntBits - 1
<1>1. IntBits - 1 \in Nat
  BY WidthAssumption
<1>2. Shl1[k] \in Nat /\ Shl1[IntBits - 1] \in Nat
  BY <1>1, Shl1Facts
<1>3. CASE k > IntBits - 1
  <2>1. 2 * Shl1[IntBits - 1] <= Shl1[k]
    BY <1>1, <1>3, Shl1Grows
  <2>2. QED
    BY <1>2, <2>1
<1>4. QED
  BY <1>1, <1>2, <1>3

(* The loop of addClusterIndices: each index is put, in order. *)
DynamicPuts(f, ring, first, count) ==
  f = [i \in 0..count |-> IF i = 0 THEN ring
                          ELSE Ring!DynamicPut(f[i - 1], first + i - 1)]

LEMMA DynamicPutsExist ==
  ASSUME NEW ring, NEW first \in Nat, NEW count \in Nat
  PROVE  \E f : /\ DynamicPuts(f, ring, first, count)
                /\ PutEach(Ring!DynamicPut, ring, first, count) = f[count]
<1> DEFINE Good == {n \in Nat : \E f : DynamicPuts(f, ring, first, n)}
<1>1. 0 \in Good
  <2>1. DynamicPuts([i \in 0..0 |-> ring], ring, first, 0)
    BY DEF DynamicPuts
  <2>2. QED
    BY <2>1
<1>2. ASSUME NEW n \in Nat, n \in Good PROVE n + 1 \in Good
  <2>1. PICK f : DynamicPuts(f, ring, first, n)
    BY <1>2
  <2> DEFINE g == [i \in 0..(n + 1) |-> IF i <= n THEN f[i]
                                        ELSE Ring!DynamicPut(f[n], first + n)]
  <2>2. \A i \in 0..n : f[i] = IF i = 0 THEN ring
                               ELSE Ring!DynamicPut(f[i - 1], first + i - 1)
    BY <2>1 DEF DynamicPuts
  <2>3. (n + 1) - 1 = n /\ first + (n + 1) - 1 = first + n
    OBVIOUS
  <2>4. \A i \in 0..(n + 1) : g[i] = IF i = 0 THEN ring
                                     ELSE Ring!DynamicPut(g[i - 1], first + i - 1)
    <3> SUFFICES ASSUME NEW i \in 0..(n + 1)
                 PROVE  g[i] = IF i = 0 THEN ring
                               ELSE Ring!DynamicPut(g[i - 1], first + i - 1)
      OBVIOUS
    <3>1. CASE i <= n
      BY <2>2, <3>1
    <3>2. CASE i = n + 1
      <4>1. g[i] = Ring!DynamicPut(f[n], first + n) /\ g[i - 1] = f[n] /\ i # 0
        BY <2>3, <3>2
      <4>2. QED
        BY <2>3, <3>2, <4>1
    <3>3. QED
      BY <3>1, <3>2
  <2>5. g = [i \in 0..(n + 1) |-> IF i = 0 THEN ring
                                  ELSE Ring!DynamicPut(g[i - 1], first + i - 1)]
    BY <2>4
  <2> HIDE DEF g
  <2>6. DynamicPuts(g, ring, first, n + 1)
    BY <2>5 DEF DynamicPuts
  <2>7. QED
    BY <2>6
<1> HIDE DEF Good
<1>3. \A n \in Nat : n \in Good
  BY <1>1, <1>2, SetInduction
<1> DEFINE put == CHOOSE f : DynamicPuts(f, ring, first, count)
<1>4. DynamicPuts(put, ring, first, count)
  BY <1>3 DEF Good
<1>5. PutEach(Ring!DynamicPut, ring, first, count) = put[count]
  BY DEF PutEach, DynamicPuts
<1>6. QED
  BY <1>4, <1>5

(* Into an empty buffer the loop puts the indices, in order, and the capacity *)
(* stays within twice their number, or what it was.                           *)
LEMMA DynamicPutsFacts ==
  ASSUME NEW ring, NEW first \in Nat, NEW count \in Nat, NEW bound \in Nat,
         Ring!IsBuffer(ring), Ring!Contents(ring) = <<>>,
         Shl1[ring.capacityLog2] <= bound, 2 * count <= bound,
         bound < Shl1[IntBits - 1]
  PROVE  LET filled == PutEach(Ring!DynamicPut, ring, first, count)
         IN  /\ Ring!IsBuffer(filled)
             /\ Ring!Contents(filled) = Run(first, count)
             /\ Shl1[filled.capacityLog2] <= bound
<1>1. PICK f : /\ DynamicPuts(f, ring, first, count)
               /\ PutEach(Ring!DynamicPut, ring, first, count) = f[count]
  BY DynamicPutsExist
<1>2. \A i \in 0..count : f[i] = IF i = 0 THEN ring
                                 ELSE Ring!DynamicPut(f[i - 1], first + i - 1)
  BY <1>1 DEF DynamicPuts
<1> DEFINE Filled(b, n) == /\ Ring!IsBuffer(b)
                           /\ Ring!Contents(b) = Run(first, n)
                           /\ Shl1[b.capacityLog2] <= bound
           Good == {n \in Nat : n <= count => Filled(f[n], n)}
<1>3. 0 \in Good
  <2>1. Run(first, 0) = <<>>
    BY RunFacts
  <2>2. 0 \in 0..count /\ f[0] = ring
    BY <1>2
  <2>3. Filled(f[0], 0)
    BY <2>1, <2>2
  <2>4. QED
    BY <2>3
<1>4. ASSUME NEW n \in Nat, n \in Good PROVE n + 1 \in Good
  <2> SUFFICES ASSUME n + 1 <= count PROVE Filled(f[n + 1], n + 1)
    OBVIOUS
  <2>1. Filled(f[n], n)
    BY <1>4
  <2>2. f[n + 1] = Ring!DynamicPut(f[n], first + n)
    <3>1. /\ n + 1 \in 0..count /\ n + 1 # 0
          /\ (n + 1) - 1 = n /\ first + (n + 1) - 1 = first + n
      OBVIOUS
    <3>2. f[n + 1] = Ring!DynamicPut(f[(n + 1) - 1], first + (n + 1) - 1)
      BY <1>2, <3>1
    <3>3. QED
      BY <3>1, <3>2
  <2>3. /\ f[n].capacityLog2 \in Nat /\ f[n].length = n
        /\ Shl1[f[n].capacityLog2] \in Nat
    <3>1. Len(Run(first, n)) = n
      BY RunFacts
    <3>2. /\ f[n].capacityLog2 \in Nat
          /\ f[n].length = Len(Ring!Contents(f[n]))
      BY <2>1, RingFields
    <3>3. QED
      BY <2>1, <3>1, <3>2, Shl1Facts
  <2>4. f[n].capacityLog2 < IntBits - 1
    <3>1. IntBits - 1 \in Nat
      BY WidthAssumption
    <3>2. Shl1[IntBits - 1] \in Nat
      BY <3>1, Shl1Facts
    <3>3. Shl1[f[n].capacityLog2] < Shl1[IntBits - 1]
      BY <2>1, <2>3, <3>2
    <3>4. QED
      BY <2>3, <3>3, PowerBelow
  <2>5. first + n \in Nat
    OBVIOUS
  <2> DEFINE b == f[n]
             d == Ring!DynamicPut(b, first + n)
  <2>6. /\ Ring!IsBuffer(d)
        /\ Ring!Contents(d) = Append(Ring!Contents(b), first + n)
        /\ \/ Shl1[d.capacityLog2] = Shl1[b.capacityLog2]
           \/ Shl1[d.capacityLog2] = 2 * b.length
    <3> HIDE DEF b
    <3>1. Ring!IsBuffer(b) /\ b.capacityLog2 < IntBits - 1
      BY <2>1, <2>4 DEF b
    <3>2. QED
      BY <2>5, <3>1, RingDynamicPut
  <2> HIDE DEF b, d
  <2>7. Ring!Contents(d) = Run(first, n + 1)
    BY <2>1, <2>6, RunFacts DEF b
  <2>8. Shl1[d.capacityLog2] <= bound
    BY <2>1, <2>3, <2>6 DEF b
  <2>9. QED
    BY <2>2, <2>6, <2>7, <2>8 DEF b, d
<1> HIDE DEF Good
<1>5. \A n \in Nat : n \in Good
  BY <1>3, <1>4, SetInduction
<1>6. QED
  BY <1>1, <1>5 DEF Good

(* initClusterFifos: four free indices, none of which is in use. *)
LEMMA InitFacts ==
  ASSUME 8 < Shl1[IntBits - 1]
  PROVE  LET fifos == InitClusterFifos
         IN  /\ fifos = [allocated   |-> Ring!Make(2),
                         clusterLut  |-> [i \in 0..3 |-> NULL],
                         unallocated |-> fifos.unallocated]
             /\ Ring!IsBuffer(fifos.unallocated)
             /\ fifos.unallocated.capacityLog2 = 2
             /\ Ring!Contents(fifos.unallocated) = Run(0, 4)
<1>1. Shl1[1] = 2 /\ Shl1[2] = 4 /\ Shl1[3] = 8
  <2>1. Shl1[0 + 1] = 2 * Shl1[0] /\ Shl1[1 + 1] = 2 * Shl1[1] /\ Shl1[2 + 1] = 2 * Shl1[2]
    BY Shl1Facts
  <2>2. QED
    BY <2>1, Shl1Facts
<1>2. IntShl1(2) = 4
  <2>1. 2 < IntBits - 1
    <3>1. IntBits - 1 \in Nat
      BY WidthAssumption
    <3>2. Shl1[IntBits - 1] \in Nat
      BY <3>1, Shl1Facts
    <3>3. Shl1[2] < Shl1[IntBits - 1]
      BY <1>1, <3>2
    <3>4. QED
      BY <3>3, PowerBelow
  <2>2. QED
    BY <1>1, <2>1, WidthAssumption DEF IntShl1
<1> DEFINE b0 == Ring!Make(2)
           b1 == Ring!Put(b0, 0)
           b2 == Ring!Put(b1, 1)
           b3 == Ring!Put(b2, 2)
           b4 == Ring!Put(b3, 3)
           filled == PutEach(Ring!Put, b0, 0, 4)
<1>3. filled = b4
  <2> DEFINE IsPut(f) == f = [i \in 0..4 |-> IF i = 0 THEN b0
                                              ELSE Ring!Put(f[i - 1], 0 + i - 1)]
             g == [i \in 0..4 |-> IF i = 0 THEN b0 ELSE IF i = 1 THEN b1
                                  ELSE IF i = 2 THEN b2 ELSE IF i = 3 THEN b3 ELSE b4]
             put == CHOOSE f : IsPut(f)
  <2>1. IsPut(g)
    <3>1. /\ g[0] = b0 /\ g[1] = b1 /\ g[2] = b2 /\ g[3] = b3 /\ g[4] = b4
      OBVIOUS
    <3>2. ASSUME NEW i \in 0..4
          PROVE  g[i] = IF i = 0 THEN b0 ELSE Ring!Put(g[i - 1], 0 + i - 1)
      <4>1. i = 0 \/ i = 1 \/ i = 2 \/ i = 3 \/ i = 4
        OBVIOUS
      <4> HIDE DEF g
      <4>2. QED
        BY <3>1, <4>1
    <3>3. QED
      BY <3>2
  <2>2. filled = put[4]
    BY DEF PutEach
  <2>3. IsPut(put)
    <3> HIDE DEF IsPut, g
    <3>1. QED
      BY <2>1
  <2> HIDE DEF put, filled
  <2>4. \A i \in 0..4 : put[i] = IF i = 0 THEN b0 ELSE Ring!Put(put[i - 1], 0 + i - 1)
    BY <2>3
  <2>5. /\ put[0] = b0 /\ put[1] = Ring!Put(put[0], 0) /\ put[2] = Ring!Put(put[1], 1)
        /\ put[3] = Ring!Put(put[2], 2) /\ put[4] = Ring!Put(put[3], 3)
    BY <2>4
  <2>6. QED
    BY <2>2, <2>5
<1> HIDE DEF filled
<1> DEFINE Holds(b, n) == /\ Ring!IsBuffer(b) /\ b.capacityLog2 = 2
                          /\ Ring!Contents(b) = Run(0, n)
<1>4. ASSUME NEW b, NEW n \in 0..3, Holds(b, n)
      PROVE  Holds(Ring!Put(b, n), n + 1)
  <2>1. b.length = n /\ b.length < Shl1[b.capacityLog2] /\ n \in Nat
    <3>1. n \in Nat /\ 0 \in Nat
      OBVIOUS
    <3>2. Len(Run(0, n)) = n
      BY <3>1, RunFacts
    <3>3. b.length = Len(Ring!Contents(b))
      BY <1>4, RingFields
    <3>4. b.length = n /\ b.capacityLog2 = 2
      BY <1>4, <3>2, <3>3
    <3>5. QED
      BY <1>1, <3>1, <3>4
  <2>2. /\ Ring!IsBuffer(Ring!Put(b, n)) /\ Ring!Put(b, n).capacityLog2 = 2
        /\ Ring!Contents(Ring!Put(b, n)) = Append(Run(0, n), n)
    BY <1>4, <2>1, RingPut
  <2>3. Append(Run(0, n), 0 + n) = Run(0, n + 1)
    BY <2>1, RunFacts
  <2>4. QED
    BY <2>1, <2>2, <2>3
<1>5. Holds(b0, 0)
  BY RingMake, RunFacts
<1> HIDE DEF Holds, b0
<1>6. Holds(b4, 4)
  <2>1. Holds(b1, 0 + 1)
    BY <1>4, <1>5
  <2>2. Holds(b2, 1 + 1)
    BY <1>4, <2>1
  <2>3. Holds(b3, 2 + 1)
    BY <1>4, <2>2
  <2>4. Holds(b4, 3 + 1)
    BY <1>4, <2>3
  <2>5. QED
    BY <2>4
<1>7. InitClusterFifos = [allocated   |-> b0,
                          clusterLut  |-> [i \in 0..3 |-> NULL],
                          unallocated |-> filled]
  BY <1>2 DEF InitClusterFifos, b0, filled
<1>8. QED
  BY <1>3, <1>6, <1>7 DEF Holds, b0

-----------------------------------------------------------------------------
(* A record of an mp_pool_t's cluster part.                                *)
IsPool(p) ==
  p = [allocated           |-> p.allocated,
       unallocated         |-> p.unallocated,
       clusterLut          |-> p.clusterLut,
       freeClusters        |-> p.freeClusters,
       freeClusterCountMax |-> p.freeClusterCountMax,
       elementsPerCluster  |-> p.elementsPerCluster,
       frontElementCount   |-> p.frontElementCount,
       frontElementIndex   |-> p.frontElementIndex]

(* The indices of a ring, oldest first. *)
Window(ring) == Ring!Contents(ring)

(* The two rings list the n indices of the table, in an order that starts *)
(* with the allocated ones, and their capacities are at most 2 * n.       *)
Indexed(p, n) ==
  /\ n \in Nat /\ 4 <= n
  /\ n <= 4 \/ n <= 2 * Cardinality(Cluster)
  /\ p.clusterLut \in [0..(n - 1) -> Cluster \cup {NULL}]
  /\ Ring!IsBuffer(p.allocated) /\ Shl1[p.allocated.capacityLog2] <= 2 * n
  /\ Ring!IsBuffer(p.unallocated) /\ Shl1[p.unallocated.capacityLog2] <= 2 * n
  /\ Lists(Window(p.allocated) \o Window(p.unallocated), 0..(n - 1))

(* The rings list the indices in the order in which they were made. *)
InOrder(p) == Window(p.allocated) \o Window(p.unallocated) = Run(0, LutSize(p))

(* The clusters in use, oldest first. *)
InUse(p) ==
  [i \in 1..Len(Window(p.allocated)) |-> p.clusterLut[Window(p.allocated)[i]]]

(* The clusters in use and the spare ones list those malloc has handed out. *)
Owned(p, clusters) ==
  /\ clusters \subseteq Cluster
  /\ Lists(InUse(p) \o p.freeClusters, clusters)
  /\ InUse(p) \in Seq(Cluster)
  /\ p.freeClusters \in Seq(Cluster)
  /\ p.freeClusterCountMax \in Nat
  /\ Len(p.freeClusters) <= p.freeClusterCountMax

LEMMA CountFacts ==
  /\ Cardinality(Cluster) \in Nat
  /\ Shl1[IntBits - 1] \in Nat
  /\ 8 < Shl1[IntBits - 1]
  /\ Shl1[2] = 4
<1>1. IntBits - 1 \in Nat /\ 3 < IntBits - 1 /\ 3 \in Nat
  BY WidthAssumption, CountAssumption
<1>2. Shl1[1] = 2 /\ Shl1[2] = 4 /\ Shl1[3] = 8
  <2>1. Shl1[0 + 1] = 2 * Shl1[0] /\ Shl1[1 + 1] = 2 * Shl1[1] /\ Shl1[2 + 1] = 2 * Shl1[2]
    BY Shl1Facts
  <2>2. QED
    BY <2>1, Shl1Facts
<1>3. 2 * Shl1[3] <= Shl1[IntBits - 1]
  BY <1>1, Shl1Grows
<1>4. Shl1[IntBits - 1] \in Nat
  BY <1>1, Shl1Facts
<1>5. QED
  BY <1>2, <1>3, <1>4, CountAssumption, FS_CardinalityType

(* The rings' windows, and that a ring that is put into has an int capacity. *)
LEMMA IndexedFacts ==
  ASSUME NEW p, NEW n, Indexed(p, n)
  PROVE  /\ LutSize(p) = n
         /\ 2 * n \in Nat /\ 2 * n < Shl1[IntBits - 1]
         /\ Window(p.allocated) \in Seq(0..(n - 1))
         /\ Window(p.unallocated) \in Seq(0..(n - 1))
         /\ Len(Window(p.allocated)) = p.allocated.length
         /\ Len(Window(p.unallocated)) = p.unallocated.length
         /\ Len(Window(p.allocated)) + Len(Window(p.unallocated)) = n
         /\ p.allocated.capacityLog2 < IntBits - 1
         /\ p.unallocated.capacityLog2 < IntBits - 1
<1> DEFINE a == Window(p.allocated)
           u == Window(p.unallocated)
<1>1. n \in Nat /\ 4 <= n /\ DOMAIN p.clusterLut = 0..(n - 1)
  BY DEF Indexed
<1>2. LutSize(p) = n
  <2>1. 0 \in Int /\ n - 1 \in Int
    BY <1>1
  <2>2. Cardinality(0..(n - 1)) = IF 0 > n - 1 THEN 0 ELSE (n - 1) - 0 + 1
    BY <2>1, FS_Interval
  <2>3. QED
    BY <1>1, <2>2 DEF LutSize
<1>3. 2 * n \in Nat /\ 2 * n < Shl1[IntBits - 1]
  BY CountFacts, CountAssumption DEF Indexed
<1>4. /\ a \in Seq(Nat \cup {NULL}) /\ u \in Seq(Nat \cup {NULL})
      /\ Len(a) = p.allocated.length /\ Len(u) = p.unallocated.length
      /\ p.allocated.capacityLog2 \in Nat /\ p.unallocated.capacityLog2 \in Nat
  BY RingFields DEF Indexed, Window
<1>5. Lists(a \o u, 0..(n - 1))
  BY DEF Indexed
<1>6. a \in Seq(0..(n - 1)) /\ u \in Seq(0..(n - 1))
  BY <1>4, <1>5, ListsBoth
<1>7. Len(a) + Len(u) = n
  <2>1. Cardinality(0..(n - 1)) = Len(a \o u)
    BY <1>5, ListsCardinality
  <2>2. Len(a \o u) = Len(a) + Len(u)
    BY <1>4, ConcatProperties
  <2>3. QED
    BY <1>1, <1>2, <2>1, <2>2 DEF LutSize
<1>8. /\ Shl1[p.allocated.capacityLog2] < Shl1[IntBits - 1]
      /\ Shl1[p.unallocated.capacityLog2] < Shl1[IntBits - 1]
  <2>1. /\ Shl1[p.allocated.capacityLog2] \in Nat
        /\ Shl1[p.unallocated.capacityLog2] \in Nat
    BY <1>4, Shl1Facts
  <2>2. /\ Shl1[p.allocated.capacityLog2] <= 2 * n
        /\ Shl1[p.unallocated.capacityLog2] <= 2 * n
    BY DEF Indexed
  <2>3. QED
    BY <1>3, <2>1, <2>2, CountFacts
<1>9. p.allocated.capacityLog2 < IntBits - 1 /\ p.unallocated.capacityLog2 < IntBits - 1
  BY <1>4, <1>8, PowerBelow
<1>10. QED
  BY <1>2, <1>3, <1>4, <1>6, <1>7, <1>9

(* Clusters in use and spare ones are as many as the heap has handed out. *)
LEMMA OwnedFacts ==
  ASSUME NEW p, NEW clusters, Owned(p, clusters)
  PROVE  /\ IsFiniteSet(clusters)
         /\ Cardinality(clusters) = Len(InUse(p)) + Len(p.freeClusters)
         /\ Cardinality(clusters) <= Cardinality(Cluster)
         /\ clusters = ToSet(InUse(p)) \cup ToSet(p.freeClusters)
<1>1. /\ Lists(InUse(p) \o p.freeClusters, clusters)
      /\ InUse(p) \in Seq(Cluster) /\ p.freeClusters \in Seq(Cluster)
      /\ clusters \subseteq Cluster
  BY DEF Owned
<1>2. Len(InUse(p) \o p.freeClusters) = Len(InUse(p)) + Len(p.freeClusters)
  BY <1>1, ConcatProperties
<1>3. /\ IsFiniteSet(clusters)
      /\ Cardinality(clusters) = Len(InUse(p)) + Len(p.freeClusters)
  BY <1>1, <1>2, ListsCardinality
<1>4. Cardinality(clusters) <= Cardinality(Cluster)
  BY <1>1, CountAssumption, FS_Subset
<1>5. clusters = ToSet(InUse(p)) \cup ToSet(p.freeClusters)
  BY <1>1, ListsBoth, ListsParts
<1>6. QED
  BY <1>3, <1>4, <1>5

-----------------------------------------------------------------------------
(* addClusterIndices, called when no index is unallocated. *)
LEMMA AddIndicesFacts ==
  ASSUME NEW p, NEW n, IsPool(p), Indexed(p, n), p.unallocated.length = 0,
         n <= Cardinality(Cluster)
  PROVE  LET q == AddClusterIndices(p)
         IN  /\ q = [p EXCEPT !.clusterLut = q.clusterLut, !.unallocated = q.unallocated]
             /\ IsPool(q)
             /\ Indexed(q, 2 * n)
             /\ InUse(q) = InUse(p)
             /\ q.unallocated.length # 0
             /\ InOrder(p) => InOrder(q)
<1> DEFINE q == AddClusterIndices(p)
           lut == [i \in 0..(2 * n - 1) |-> IF i < n THEN p.clusterLut[i] ELSE NULL]
           ring == PutEach(Ring!DynamicPut, p.unallocated, n, n)
           a == Window(p.allocated)
<1>1. /\ n \in Nat /\ 4 <= n /\ 2 * n \in Nat
      /\ LutSize(p) = n
      /\ p.clusterLut \in [0..(n - 1) -> Cluster \cup {NULL}]
      /\ a \in Seq(0..(n - 1))
      /\ Len(Window(p.unallocated)) = 0
      /\ 2 * n \in Nat /\ 2 * n < Shl1[IntBits - 1]
      /\ Window(p.unallocated) \in Seq(0..(n - 1))
  BY IndexedFacts DEF Indexed
<1>2. Window(p.unallocated) = <<>>
  BY <1>1, EmptySeq
<1>3. Lists(a, 0..(n - 1))
  <2>1. a \o Window(p.unallocated) = a
    BY <1>1, <1>2, ConcatEmptySeq
  <2>2. QED
    BY <2>1 DEF Indexed
<1>4. q = [p EXCEPT !.clusterLut = lut, !.unallocated = ring]
  <2>1. FirstNewIndex(LutSize(p)) = n
    BY <1>1 DEF FirstNewIndex
  <2>2. QED
    BY <1>1, <2>1 DEF AddClusterIndices
<1>5. /\ Ring!IsBuffer(ring) /\ Window(ring) = Run(n, n)
      /\ Shl1[ring.capacityLog2] <= 2 * n
  <2>1. Ring!IsBuffer(p.unallocated) /\ Shl1[p.unallocated.capacityLog2] <= 2 * n
    BY DEF Indexed
  <2>2. Ring!Contents(p.unallocated) = <<>>
    BY <1>2 DEF Window
  <2>3. QED
    BY <1>1, <2>1, <2>2, DynamicPutsFacts DEF Window
<1> HIDE DEF ring, lut, q
<1>6. q = [allocated           |-> p.allocated,
           unallocated         |-> ring,
           clusterLut          |-> lut,
           freeClusters        |-> p.freeClusters,
           freeClusterCountMax |-> p.freeClusterCountMax,
           elementsPerCluster  |-> p.elementsPerCluster,
           frontElementCount   |-> p.frontElementCount,
           frontElementIndex   |-> p.frontElementIndex]
  BY <1>4 DEF IsPool
<1>7. /\ q.allocated = p.allocated /\ q.unallocated = ring /\ q.clusterLut = lut
      /\ IsPool(q)
  BY <1>6 DEF IsPool
<1>8. lut \in [0..(2 * n - 1) -> Cluster \cup {NULL}]
      /\ \A i \in 0..(n - 1) : lut[i] = p.clusterLut[i]
  <2>1. \A i \in 0..(2 * n - 1) : i < n => i \in 0..(n - 1)
    BY <1>1
  <2>2. \A i \in 0..(n - 1) : i \in 0..(2 * n - 1) /\ i < n
    BY <1>1
  <2>3. QED
    BY <1>1, <2>1, <2>2 DEF lut
<1>9. Lists(a \o Window(ring), 0..(2 * n - 1))
  <2>1. Lists(Run(n, n), n..(n + n - 1))
    BY <1>1, RunFacts
  <2> DEFINE A == 0..(n - 1)
             B == n..(n + n - 1)
  <2>2. A \cap B = {} /\ A \cup B = 0..(2 * n - 1)
    BY <1>1
  <2> HIDE DEF A, B
  <2>3. Lists(a \o Run(n, n), A \cup B)
    BY <1>3, <2>1, <2>2, ListsConcat DEF A, B
  <2>4. QED
    BY <1>5, <2>2, <2>3
<1>10. Indexed(q, 2 * n)
  <2>1. Ring!IsBuffer(p.allocated) /\ Shl1[p.allocated.capacityLog2] <= 2 * n
    BY DEF Indexed
  <2>2. /\ Shl1[p.allocated.capacityLog2] <= 2 * (2 * n)
        /\ Shl1[ring.capacityLog2] <= 2 * (2 * n)
        /\ 4 <= 2 * n /\ 2 * n <= 2 * Cardinality(Cluster)
    <3>1. p.allocated.capacityLog2 \in Nat /\ ring.capacityLog2 \in Nat
      BY <1>5, <2>1, RingFields
    <3>2. Shl1[p.allocated.capacityLog2] \in Nat /\ Shl1[ring.capacityLog2] \in Nat
      BY <3>1, Shl1Facts
    <3> DEFINE old == Shl1[p.allocated.capacityLog2]
               new == Shl1[ring.capacityLog2]
               all == Cardinality(Cluster)
    <3>3. old \in Nat /\ new \in Nat /\ old <= 2 * n /\ new <= 2 * n
      BY <1>5, <2>1, <3>2
    <3>4. all \in Nat /\ n <= all
      BY CountFacts
    <3> HIDE DEF old, new, all
    <3>5. old <= 2 * (2 * n) /\ new <= 2 * (2 * n)
      BY <1>1, <3>3
    <3>6. 4 <= 2 * n /\ 2 * n <= 2 * all
      BY <1>1, <3>4
    <3>7. QED
      BY <3>5, <3>6 DEF old, new, all
  <2>3. QED
    BY <1>1, <1>5, <1>7, <1>8, <1>9, <2>1, <2>2 DEF Indexed
<1>11. InUse(q) = InUse(p)
  <2>1. \A i \in 1..Len(a) : a[i] \in 0..(n - 1)
    BY <1>1, ElementOfSeq
  <2>2. \A i \in 1..Len(a) : lut[a[i]] = p.clusterLut[a[i]]
    BY <1>8, <2>1
  <2>3. QED
    BY <1>7, <2>2 DEF InUse
<1>12. q.unallocated.length # 0
  <2>1. Len(Run(n, n)) = n
    BY <1>1, RunFacts
  <2>2. QED
    BY <1>1, <1>5, <1>7, <2>1, RingFields DEF Window
<1>13. q = [p EXCEPT !.clusterLut = q.clusterLut, !.unallocated = q.unallocated]
  BY <1>4, <1>7
<1>14. InOrder(p) => InOrder(q)
  <2>1. LutSize(q) = 2 * n /\ n + n = 2 * n
    BY <1>1, <1>10, IndexedFacts
  <2>2. a \o <<>> = a
    BY <1>1, ConcatEmptySeq
  <2>3. Run(0, n) \o Run(n, n) = Run(0, n + n)
    BY <1>1, RunConcat
  <2>4. QED
    BY <1>1, <1>2, <1>5, <1>7, <2>1, <2>2, <2>3 DEF InOrder
<1>15. QED
  BY <1>7, <1>10, <1>11, <1>12, <1>13, <1>14 DEF q

(* The first unallocated index becomes the last allocated one, and its entry *)
(* of the table a cluster's.                                                  *)
LEMMA TakeIndexFacts ==
  ASSUME NEW p, NEW n, Indexed(p, n), p.unallocated.length # 0, NEW c \in Cluster,
         NEW q,
         q.allocated = Ring!DynamicPut(p.allocated, Back(p.unallocated)),
         q.unallocated = Ring!PopBack(p.unallocated),
         q.clusterLut = [p.clusterLut EXCEPT ![Back(p.unallocated)] = c]
  PROVE  /\ Indexed(q, n)
         /\ Window(q.allocated) = Append(Window(p.allocated), Back(p.unallocated))
         /\ InUse(q) = Append(InUse(p), c)
         /\ InOrder(p) => InOrder(q)
<1> DEFINE a == Window(p.allocated)
           u == Window(p.unallocated)
           index == Back(p.unallocated)
           S == 0..(n - 1)
<1>1. /\ n \in Nat /\ 4 <= n /\ a \in Seq(S) /\ u \in Seq(S)
      /\ p.clusterLut \in [S -> Cluster \cup {NULL}]
      /\ Ring!IsBuffer(p.allocated) /\ Ring!IsBuffer(p.unallocated)
      /\ Shl1[p.allocated.capacityLog2] <= 2 * n
      /\ Shl1[p.unallocated.capacityLog2] <= 2 * n
      /\ p.allocated.capacityLog2 < IntBits - 1
      /\ Lists(a \o u, S)
      /\ Len(a) = p.allocated.length /\ Len(a) + Len(u) = n
      /\ n <= 4 \/ n <= 2 * Cardinality(Cluster)
  BY IndexedFacts DEF Indexed
<1>2. /\ Ring!IsBuffer(q.unallocated) /\ u # <<>> /\ index = Head(u)
      /\ q.unallocated.capacityLog2 = p.unallocated.capacityLog2
      /\ Window(q.unallocated) = Tail(u)
  BY <1>1, RingPop DEF Window
<1>3. Lists(Append(a, index) \o Tail(u), S) /\ index \in S /\ index \notin ToSet(a)
  BY <1>1, <1>2, ListsTake
<1> HIDE DEF index
<1>4. index \in Nat
  BY <1>3
<1>5. /\ Ring!IsBuffer(q.allocated) /\ Window(q.allocated) = Append(a, index)
      /\ \/ Shl1[q.allocated.capacityLog2] = Shl1[p.allocated.capacityLog2]
         \/ Shl1[q.allocated.capacityLog2] = 2 * p.allocated.length
  <2> DEFINE ring == p.allocated
  <2>1. Ring!IsBuffer(ring) /\ ring.capacityLog2 < IntBits - 1
    BY <1>1
  <2> HIDE DEF ring
  <2>2. /\ Ring!IsBuffer(Ring!DynamicPut(ring, index))
        /\ Ring!Contents(Ring!DynamicPut(ring, index)) = Append(Ring!Contents(ring), index)
        /\ \/ Shl1[Ring!DynamicPut(ring, index).capacityLog2] = Shl1[ring.capacityLog2]
           \/ Shl1[Ring!DynamicPut(ring, index).capacityLog2] = 2 * ring.length
    BY <1>4, <2>1, RingDynamicPut
  <2>3. QED
    BY <2>2 DEF Window, index, ring
<1>6. Shl1[q.allocated.capacityLog2] <= 2 * n
  <2>1. Len(a) \in Nat /\ Len(u) \in Nat
    BY <1>1, LenProperties
  <2>2. QED
    BY <1>1, <1>5, <2>1
<1>7. q.clusterLut \in [S -> Cluster \cup {NULL}]
  BY <1>1
<1>8. Indexed(q, n)
  <2>1. Lists(Window(q.allocated) \o Window(q.unallocated), S)
    BY <1>2, <1>3, <1>5
  <2>2. Shl1[q.unallocated.capacityLog2] <= 2 * n
    BY <1>1, <1>2
  <2>3. QED
    BY <1>1, <1>2, <1>5, <1>6, <1>7, <2>1, <2>2 DEF Indexed
<1>9. InUse(q) = Append(InUse(p), c)
  <2> DEFINE m == Len(a)
             before == InUse(p)
             after == InUse(q)
  <2>1. /\ Append(a, index) \in Seq(S) /\ Len(Append(a, index)) = m + 1
        /\ \A i \in 1..m : Append(a, index)[i] = a[i]
        /\ Append(a, index)[m + 1] = index
        /\ m \in Nat
    <3>1. m \in Nat
      BY <1>1, LenProperties
    <3>2. Append(a, index) \in Seq(S) /\ Len(Append(a, index)) = m + 1
      BY <1>1, <1>3, AppendProperties
    <3>3. /\ \A i \in 1..m : Append(a, index)[i] = a[i]
          /\ Append(a, index)[m + 1] = index
      BY <1>1, <1>3, AppendProperties
    <3>4. QED
      BY <3>1, <3>2, <3>3
  <2>2. \A i \in 1..m : a[i] \in S /\ a[i] # index
    <3>1. \A i \in 1..m : a[i] \in S /\ i \in DOMAIN a
      BY <1>1, ElementOfSeq, LenProperties
    <3>2. QED
      BY <1>3, <3>1 DEF ToSet
  <2>3. after = [i \in 1..(m + 1) |-> q.clusterLut[Append(a, index)[i]]]
    BY <1>5, <2>1 DEF InUse
  <2>4. before = [i \in 1..m |-> p.clusterLut[a[i]]]
    BY DEF InUse
  <2>5. q.clusterLut[index] = c
        /\ \A i \in 1..m : q.clusterLut[a[i]] = p.clusterLut[a[i]]
    BY <1>1, <1>3, <2>2 DEF index
  <2> DEFINE D == Cluster \cup {NULL}
  <2>6. before \in Seq(D) /\ Len(before) = m
    <3>1. before \in [1..m -> D]
      BY <1>1, <2>2, <2>4
    <3>2. QED
      BY <2>1, <3>1, LenProperties
  <2>7. after \in Seq(D) /\ Len(after) = m + 1
    <3>1. \A i \in 1..(m + 1) : Append(a, index)[i] \in S
      BY <2>1, ElementOfSeq
    <3>2. after \in [1..(m + 1) -> D]
      BY <1>7, <2>3, <3>1
    <3>3. m + 1 \in Nat
      BY <2>1
    <3>4. QED
      BY <3>2, <3>3, LenProperties
  <2> HIDE DEF before, after, m
  <2>8. /\ Append(before, c) \in Seq(D) /\ Len(Append(before, c)) = m + 1
        /\ \A i \in 1..m : Append(before, c)[i] = before[i]
        /\ Append(before, c)[m + 1] = c
    BY <2>6, AppendProperties
  <2>9. ASSUME NEW i \in 1..(m + 1)
        PROVE  after[i] = Append(before, c)[i]
    <3>1. CASE i \in 1..m
      <4>1. i \in 1..(m + 1) /\ after[i] = q.clusterLut[Append(a, index)[i]]
        BY <2>1, <2>3, <3>1
      <4>2. after[i] = p.clusterLut[a[i]]
        BY <2>1, <2>5, <3>1, <4>1
      <4>3. QED
        BY <2>4, <2>8, <3>1, <4>2
    <3>2. CASE i = m + 1
      BY <2>1, <2>3, <2>5, <2>8, <3>2
    <3>3. m \in Nat
      BY <2>1
    <3>4. i \in 1..m \/ i = m + 1
      BY <3>3
    <3>5. QED
      BY <3>1, <3>2, <3>4
  <2>10. after = Append(before, c)
    BY <2>7, <2>8, <2>9, SeqEqual
  <2>11. QED
    BY <2>10 DEF before, after
<1>10. InOrder(p) => InOrder(q)
  <2>1. LutSize(p) = n /\ LutSize(q) = n
    BY <1>8, IndexedFacts
  <2>2. Append(a, index) \o Tail(u) = a \o u
    <3>1. a \in Seq(S) /\ u \in Seq(S) /\ u # <<>>
      BY <1>1, <1>2
    <3> HIDE DEF a, u, S
    <3>2. Append(a, Head(u)) \o Tail(u) = a \o u
      BY <3>1, MoveHead
    <3>3. QED
      BY <1>2, <3>2
  <2>3. QED
    BY <1>2, <1>5, <2>1, <2>2 DEF InOrder
<1>11. QED
  BY <1>5, <1>8, <1>9, <1>10 DEF index

(* addFrontCluster: a spare cluster, or one from malloc, is the last in use. *)
NextCluster(p, fresh) == IF NeedsMalloc(p) THEN fresh ELSE Last(p.freeClusters)

LEMMA AddFrontFacts ==
  ASSUME NEW p, NEW n, IsPool(p), Indexed(p, n), NEW clusters, Owned(p, clusters),
         NEW fresh \in IF NeedsMalloc(p) THEN Cluster \ clusters ELSE {NULL}
  PROVE  LET q == AddFrontCluster(p, fresh)
         IN  /\ IsPool(q)
             /\ \E m : Indexed(q, m) /\ n <= m
             /\ Owned(q, clusters \cup ({fresh} \ {NULL}))
             /\ \E x : Window(q.allocated) = Append(Window(p.allocated), x)
             /\ InUse(q) = Append(InUse(p), NextCluster(p, fresh))
             /\ NextCluster(p, fresh) \in Cluster
             /\ q.freeClusters = FreeLeft(p)
             /\ q.freeClusterCountMax = p.freeClusterCountMax
             /\ q.elementsPerCluster = p.elementsPerCluster
             /\ q.frontElementCount = 0 /\ q.frontElementIndex = 0
             /\ InOrder(p) => InOrder(q)
<1> DEFINE q == AddFrontCluster(p, fresh)
           c == NextCluster(p, fresh)
           ready == IF p.unallocated.length = 0 THEN AddClusterIndices(p) ELSE p
           index == Back(ready.unallocated)
           used_ == InUse(p)
           free == p.freeClusters
           after == clusters \cup ({fresh} \ {NULL})
<1>1. PICK m : /\ IsPool(ready) /\ Indexed(ready, m) /\ n <= m
               /\ ready.unallocated.length # 0
               /\ InUse(ready) = used_
               /\ ready = [p EXCEPT !.clusterLut = ready.clusterLut,
                                    !.unallocated = ready.unallocated]
               /\ InOrder(p) => InOrder(ready)
  <2>1. CASE p.unallocated.length = 0
    <3>1. n <= Cardinality(Cluster)
      <4>1. /\ Len(Window(p.allocated)) + Len(Window(p.unallocated)) = n
            /\ Len(Window(p.unallocated)) = 0 /\ n \in Nat
            /\ Window(p.allocated) \in Seq(0..(n - 1))
        BY <2>1, IndexedFacts DEF Indexed
      <4>2. Len(Window(p.allocated)) = n
        BY <4>1, LenProperties
      <4>3. InUse(p) \in Seq(Cluster) /\ DOMAIN InUse(p) = 1..n
        BY <4>2 DEF InUse, Owned
      <4>4. Len(InUse(p)) = n
        BY <4>1, <4>3, LenProperties
      <4>5. Len(p.freeClusters) \in Nat
        BY LenProperties DEF Owned
      <4>6. n + Len(p.freeClusters) <= Cardinality(Cluster)
        BY <4>4, OwnedFacts
      <4>7. QED
        BY <4>1, <4>5, <4>6, CountFacts
    <3>2. n <= 2 * n /\ n <= n
      BY DEF Indexed
    <3>3. QED
      BY <2>1, <3>1, <3>2, AddIndicesFacts
  <2>2. CASE p.unallocated.length # 0
    <3>1. p = [p EXCEPT !.clusterLut = p.clusterLut, !.unallocated = p.unallocated]
      BY DEF IsPool
    <3>2. n <= n
      BY DEF Indexed
    <3>3. QED
      BY <2>2, <3>1, <3>2
  <2>3. QED
    BY <2>1, <2>2
<1>2. /\ ready.allocated = p.allocated
      /\ ready.freeClusters = p.freeClusters
      /\ ready.freeClusterCountMax = p.freeClusterCountMax
      /\ ready.elementsPerCluster = p.elementsPerCluster
  <2> DEFINE lut == ready.clusterLut
             un == ready.unallocated
  <2>1. ready = [p EXCEPT !.clusterLut = lut, !.unallocated = un]
    BY <1>1
  <2> HIDE DEF ready, lut, un
  <2>2. QED
    BY <2>1 DEF IsPool
<1>3. q = [ready EXCEPT
             !.freeClusters      = FreeLeft(p),
             !.unallocated       = Ring!PopBack(@),
             !.allocated         = Ring!DynamicPut(@, index),
             !.clusterLut[index] = c,
             !.frontElementCount = 0,
             !.frontElementIndex = 0]
  BY DEF AddFrontCluster, NextCluster
<1> HIDE DEF ready, index, c, q
<1>4. q = [allocated           |-> Ring!DynamicPut(ready.allocated, index),
           unallocated         |-> Ring!PopBack(ready.unallocated),
           clusterLut          |-> [ready.clusterLut EXCEPT ![index] = c],
           freeClusters        |-> FreeLeft(p),
           freeClusterCountMax |-> ready.freeClusterCountMax,
           elementsPerCluster  |-> ready.elementsPerCluster,
           frontElementCount   |-> 0,
           frontElementIndex   |-> 0]
  BY <1>1, <1>3 DEF IsPool
<1>5. /\ q.allocated = Ring!DynamicPut(ready.allocated, index)
      /\ q.unallocated = Ring!PopBack(ready.unallocated)
      /\ q.clusterLut = [ready.clusterLut EXCEPT ![index] = c]
      /\ q.freeClusters = FreeLeft(p)
      /\ q.freeClusterCountMax = p.freeClusterCountMax
      /\ q.elementsPerCluster = p.elementsPerCluster
      /\ q.frontElementCount = 0 /\ q.frontElementIndex = 0
      /\ IsPool(q)
  BY <1>2, <1>4 DEF IsPool
<1>6. /\ clusters \subseteq Cluster /\ used_ \in Seq(Cluster) /\ free \in Seq(Cluster)
      /\ Lists(used_ \o free, clusters)
      /\ p.freeClusterCountMax \in Nat /\ Len(free) <= p.freeClusterCountMax
      /\ Len(free) \in Nat
  BY LenProperties DEF Owned
<1>7. /\ c \in Cluster
      /\ Lists(Append(used_, c) \o FreeLeft(p), after)
      /\ FreeLeft(p) \in Seq(Cluster)
      /\ Len(FreeLeft(p)) <= Len(free) /\ Len(FreeLeft(p)) \in Nat
      /\ after \subseteq Cluster
  <2>1. CASE NeedsMalloc(p)
    <3>1. free = <<>> /\ FreeLeft(p) = free /\ c = fresh
      BY <2>1 DEF NeedsMalloc, FreeLeft, c, NextCluster
    <3>2. fresh \in Cluster /\ fresh \notin clusters /\ fresh # NULL
      BY <2>1, ClusterAssumption
    <3>3. after = clusters \cup {fresh}
      BY <3>2
    <3> HIDE DEF used_, free, after
    <3>4. Lists(Append(used_, c) \o free, clusters \cup {c})
      BY <1>6, <3>1, <3>2, ListsJoin
    <3>5. QED
      BY <1>6, <3>1, <3>2, <3>3, <3>4
  <2>2. CASE ~NeedsMalloc(p)
    <3>1. free # <<>> /\ FreeLeft(p) = Front(free) /\ c = Last(free)
      BY <2>2 DEF NeedsMalloc, FreeLeft, c, NextCluster
    <3>2. after = clusters
      BY <2>2
    <3> HIDE DEF used_, free, after
    <3>3. Lists(Append(used_, Last(free)) \o Front(free), clusters)
      BY <1>6, <3>1, ListsTakeLast
    <3>4. /\ Last(free) \in Cluster
          /\ Front(free) \in Seq(Cluster)
          /\ Len(Front(free)) = Len(free) - 1 /\ Len(free) # 0
      <4>1. Len(free) # 0
        BY <1>6, <3>1, EmptySeq
      <4>2. Len(free) \in 1..Len(free)
        BY <1>6, <4>1
      <4>3. \A i \in 1..(Len(free) - 1) : free[i] \in Cluster
        BY <1>6, ElementOfSeq
      <4>4. Last(free) \in Cluster
        BY <1>6, <4>2, ElementOfSeq DEF Last
      <4>5. /\ Front(free) \in Seq(Cluster) /\ Len(Front(free)) = Len(free) - 1
        <5> DEFINE k == Len(free) - 1
        <5>1. k \in Nat /\ k <= Len(free) /\ Front(free) = SubSeq(free, 1, k)
          BY <1>6, <4>1 DEF Front
        <5>2. \A i \in 1..k : free[i] \in Cluster
          BY <4>3
        <5> HIDE DEF k
        <5>3. SubSeq(free, 1, k) \in Seq(Cluster) /\ Len(SubSeq(free, 1, k)) = k
          BY <1>6, <5>1, <5>2, SubSeqProperties
        <5>4. QED
          BY <5>1, <5>3 DEF k
      <4>6. QED
        BY <4>1, <4>4, <4>5
    <3>5. QED
      BY <1>6, <3>1, <3>2, <3>3, <3>4
  <2>3. QED
    BY <2>1, <2>2
<1>8. /\ Indexed(q, m)
      /\ Window(q.allocated) = Append(Window(p.allocated), index)
      /\ InUse(q) = Append(used_, c)
      /\ InOrder(p) => InOrder(q)
  <2>1. /\ Indexed(q, m)
        /\ Window(q.allocated) = Append(Window(ready.allocated), index)
        /\ InUse(q) = Append(InUse(ready), c)
        /\ InOrder(ready) => InOrder(q)
    BY <1>1, <1>5, <1>7, TakeIndexFacts DEF index
  <2>2. QED
    BY <1>1, <1>2, <2>1
<1>9. Owned(q, after)
  <2>1. Append(used_, c) \in Seq(Cluster)
    BY <1>6, <1>7, AppendProperties
  <2>2. /\ Lists(InUse(q) \o q.freeClusters, after) /\ InUse(q) \in Seq(Cluster)
        /\ q.freeClusters \in Seq(Cluster) /\ after \subseteq Cluster
    BY <1>5, <1>7, <1>8, <2>1
  <2>3. q.freeClusterCountMax \in Nat /\ Len(q.freeClusters) <= q.freeClusterCountMax
    BY <1>5, <1>6, <1>7
  <2>4. QED
    BY <2>2, <2>3 DEF Owned
<1>10. QED
  BY <1>1, <1>5, <1>7, <1>8, <1>9 DEF c, q

(* removeBackCluster: the first cluster in use becomes spare, or is freed. *)
LEMMA RemoveFacts ==
  ASSUME NEW p, NEW n, IsPool(p), Indexed(p, n), NEW clusters, Owned(p, clusters),
         p.allocated.length # 0
  PROVE  LET q == RemoveBackCluster(p)
         IN  /\ IsPool(q)
             /\ Indexed(q, n)
             /\ Owned(q, clusters \ FreedByRemove(p))
             /\ Window(p.allocated) # <<>> /\ Back(p.allocated) = Head(Window(p.allocated))
             /\ Window(q.allocated) = Tail(Window(p.allocated))
             /\ InUse(p) # <<>> /\ InUse(q) = Tail(InUse(p))
             /\ p.clusterLut[Back(p.allocated)] = Head(InUse(p))
             /\ Head(InUse(p)) \notin ToSet(p.freeClusters)
             /\ q = [p EXCEPT !.allocated = q.allocated, !.unallocated = q.unallocated,
                              !.freeClusters = IF KeepsBack(p)
                                                 THEN Append(@, Head(InUse(p))) ELSE @]
<1> DEFINE q == RemoveBackCluster(p)
           a == Window(p.allocated)
           u == Window(p.unallocated)
           S == 0..(n - 1)
           index == Back(p.allocated)
           c == p.clusterLut[index]
           inUseBefore == InUse(p)
           free == p.freeClusters
           freeAfter == IF KeepsBack(p) THEN Append(free, c) ELSE free
           after == clusters \ FreedByRemove(p)
<1>1. /\ n \in Nat /\ 4 <= n /\ a \in Seq(S) /\ u \in Seq(S)
      /\ p.clusterLut \in [S -> Cluster \cup {NULL}]
      /\ Ring!IsBuffer(p.allocated) /\ Ring!IsBuffer(p.unallocated)
      /\ Shl1[p.allocated.capacityLog2] <= 2 * n
      /\ Shl1[p.unallocated.capacityLog2] <= 2 * n
      /\ p.unallocated.capacityLog2 < IntBits - 1
      /\ Lists(a \o u, S)
      /\ Len(u) = p.unallocated.length /\ Len(a) + Len(u) = n
      /\ n <= 4 \/ n <= 2 * Cardinality(Cluster)
  BY IndexedFacts DEF Indexed
<1>2. /\ Ring!IsBuffer(Ring!PopBack(p.allocated)) /\ a # <<>> /\ index = Head(a)
      /\ Ring!PopBack(p.allocated).capacityLog2 = p.allocated.capacityLog2
      /\ Window(Ring!PopBack(p.allocated)) = Tail(a)
  BY <1>1, RingPop DEF Window
<1>3. /\ Lists(Tail(a) \o Append(u, index), S) /\ index \in S
  <2>1. a \in Seq(S) /\ u \in Seq(S) /\ Lists(a \o u, S) /\ a # <<>> /\ index = Head(a)
    BY <1>1, <1>2
  <2> HIDE DEF a, u, index, S
  <2>2. Lists(Tail(a) \o Append(u, Head(a)), S)
    BY <2>1, ListsRelease
  <2>3. Head(a) \in S
    BY <2>1, ListsRelease
  <2>4. QED
    BY <2>1, <2>2, <2>3
<1>4. q = [p EXCEPT
             !.allocated    = Ring!PopBack(p.allocated),
             !.unallocated  = Ring!DynamicPut(p.unallocated, index),
             !.freeClusters = freeAfter]
  BY DEF RemoveBackCluster, IsPool
<1> HIDE DEF index, q, freeAfter
<1>5. q = [allocated           |-> Ring!PopBack(p.allocated),
           unallocated         |-> Ring!DynamicPut(p.unallocated, index),
           clusterLut          |-> p.clusterLut,
           freeClusters        |-> freeAfter,
           freeClusterCountMax |-> p.freeClusterCountMax,
           elementsPerCluster  |-> p.elementsPerCluster,
           frontElementCount   |-> p.frontElementCount,
           frontElementIndex   |-> p.frontElementIndex]
  BY <1>4 DEF IsPool
<1>6. /\ q.allocated = Ring!PopBack(p.allocated)
      /\ q.unallocated = Ring!DynamicPut(p.unallocated, index)
      /\ q.clusterLut = p.clusterLut
      /\ q.freeClusters = freeAfter
      /\ q.freeClusterCountMax = p.freeClusterCountMax
      /\ IsPool(q)
  BY <1>5 DEF IsPool
<1>7. /\ Ring!IsBuffer(q.unallocated) /\ Window(q.unallocated) = Append(u, index)
      /\ \/ Shl1[q.unallocated.capacityLog2] = Shl1[p.unallocated.capacityLog2]
         \/ Shl1[q.unallocated.capacityLog2] = 2 * p.unallocated.length
  <2> DEFINE ring == p.unallocated
  <2>1. Ring!IsBuffer(ring) /\ ring.capacityLog2 < IntBits - 1 /\ index \in Nat
    BY <1>1, <1>3
  <2>2. q.unallocated = Ring!DynamicPut(ring, index)
    BY <1>6
  <2> HIDE DEF ring
  <2>3. /\ Ring!IsBuffer(q.unallocated)
        /\ Ring!Contents(q.unallocated) = Append(Ring!Contents(ring), index)
        /\ \/ Shl1[q.unallocated.capacityLog2] = Shl1[ring.capacityLog2]
           \/ Shl1[q.unallocated.capacityLog2] = 2 * ring.length
    BY <2>1, <2>2, RingDynamicPut
  <2>4. QED
    BY <2>3 DEF Window, ring
<1>8. Indexed(q, n)
  <2>1. Shl1[q.unallocated.capacityLog2] <= 2 * n
    <3>1. Len(a) \in Nat /\ Len(u) \in Nat
      BY <1>1, LenProperties
    <3>2. QED
      BY <1>1, <1>7, <3>1
  <2>2. Lists(Window(q.allocated) \o Window(q.unallocated), S)
    BY <1>2, <1>3, <1>6, <1>7
  <2>3. QED
    BY <1>1, <1>2, <1>6, <1>7, <2>1, <2>2 DEF Indexed
<1>9. /\ inUseBefore # <<>> /\ InUse(q) = Tail(inUseBefore)
      /\ c = Head(inUseBefore) /\ inUseBefore \in Seq(Cluster)
  <2> DEFINE m == Len(a)
             later == InUse(q)
  <2>1. /\ m \in Nat \ {0} /\ index = a[1]
        /\ Tail(a) \in Seq(S) /\ Len(Tail(a)) = m - 1
        /\ \A i \in 1..(m - 1) : Tail(a)[i] = a[i + 1]
    <3>1. m \in Nat \ {0}
      BY <1>1, <1>2, EmptySeq, LenProperties
    <3>2. QED
      BY <1>1, <1>2, <3>1, HeadTailProperties
  <2>2. inUseBefore = [i \in 1..m |-> p.clusterLut[a[i]]] /\ inUseBefore \in Seq(Cluster)
    BY DEF InUse, Owned
  <2>3. later = [i \in 1..(m - 1) |-> p.clusterLut[Tail(a)[i]]]
    BY <1>2, <1>6, <2>1 DEF InUse
  <2> HIDE DEF m, inUseBefore, later
  <2>4. Len(inUseBefore) = m /\ inUseBefore[1] = c /\ inUseBefore # <<>>
    <3>1. DOMAIN inUseBefore = 1..m /\ 1 \in 1..m
      BY <2>1, <2>2
    <3>2. Len(inUseBefore) = m
      BY <2>1, <2>2, <3>1, LenProperties
    <3>3. QED
      BY <2>1, <2>2, <3>1, <3>2, EmptySeq
  <2>5. /\ Head(inUseBefore) = c
        /\ Tail(inUseBefore) \in Seq(Cluster) /\ Len(Tail(inUseBefore)) = m - 1
        /\ \A i \in 1..(m - 1) : Tail(inUseBefore)[i] = inUseBefore[i + 1]
    <3>1. inUseBefore \in Seq(Cluster) /\ inUseBefore # <<>>
      BY <2>2, <2>4
    <3>2. Head(inUseBefore) = c /\ Tail(inUseBefore) \in Seq(Cluster)
      BY <2>4, <3>1, HeadTailProperties
    <3>3. Len(Tail(inUseBefore)) = m - 1
      BY <2>4, <3>1, HeadTailProperties
    <3>4. \A i \in 1..(m - 1) : Tail(inUseBefore)[i] = inUseBefore[i + 1]
      BY <3>1, <3>3, HeadTailProperties
    <3>5. QED
      BY <3>2, <3>3, <3>4
  <2>6. \A i \in 1..(m - 1) : i + 1 \in 1..m
    BY <2>1
  <2>7. \A i \in 1..(m - 1) : later[i] = Tail(inUseBefore)[i]
    BY <2>1, <2>2, <2>3, <2>5, <2>6
  <2>8. later = Tail(inUseBefore)
    <3>1. Tail(inUseBefore) = [i \in 1..(m - 1) |-> Tail(inUseBefore)[i]]
      BY <2>5, LenProperties
    <3>2. QED
      BY <2>3, <2>7, <3>1
  <2>9. QED
    BY <2>2, <2>4, <2>5, <2>8 DEF later
<1>10. /\ Lists(inUseBefore \o free, clusters) /\ free \in Seq(Cluster)
       /\ clusters \subseteq Cluster /\ Len(free) \in Nat
       /\ p.freeClusterCountMax \in Nat /\ Len(free) <= p.freeClusterCountMax
  BY LenProperties DEF Owned
<1>11. /\ Lists(Tail(inUseBefore) \o Append(free, c), clusters)
       /\ Lists(Tail(inUseBefore) \o free, clusters \ {c})
       /\ c \in clusters /\ c \notin ToSet(free)
  <2>1. /\ inUseBefore \in Seq(Cluster) /\ free \in Seq(Cluster)
        /\ Lists(inUseBefore \o free, clusters) /\ inUseBefore # <<>>
    BY <1>9, <1>10
  <2> HIDE DEF inUseBefore, free, c
  <2>2. /\ Lists(Tail(inUseBefore) \o Append(free, Head(inUseBefore)), clusters)
        /\ Lists(Tail(inUseBefore) \o free, clusters \ {Head(inUseBefore)})
    BY <2>1, ListsRelease
  <2>3. Head(inUseBefore) \in clusters /\ Head(inUseBefore) \notin ToSet(free)
    BY <2>1, ListsRelease
  <2>4. QED
    BY <1>9, <2>2, <2>3
<1>12. Owned(q, after)
  <2>1. Tail(inUseBefore) \in Seq(Cluster)
    BY <1>9, HeadTailProperties
  <2>2. Lists(Tail(inUseBefore) \o freeAfter, after)
    BY <1>11 DEF freeAfter, FreedByRemove, index
  <2>3. freeAfter \in Seq(Cluster) /\ Len(freeAfter) <= p.freeClusterCountMax
    <3>1. CASE KeepsBack(p)
      <4>1. c \in Cluster /\ Len(free) < p.freeClusterCountMax /\ freeAfter = Append(free, c)
        BY <1>10, <1>11, <3>1 DEF KeepsBack, freeAfter
      <4> HIDE DEF c, free
      <4>2. Append(free, c) \in Seq(Cluster) /\ Len(Append(free, c)) = Len(free) + 1
        BY <1>10, <4>1, AppendProperties
      <4>3. QED
        BY <1>10, <4>1, <4>2
    <3>2. CASE ~KeepsBack(p)
      BY <1>10, <3>2 DEF freeAfter
    <3>3. QED
      BY <3>1, <3>2
  <2>4. after \subseteq Cluster
    BY <1>10
  <2>5. QED
    BY <1>6, <1>9, <1>10, <2>1, <2>2, <2>3, <2>4 DEF Owned
<1>13. q = [p EXCEPT !.allocated = q.allocated, !.unallocated = q.unallocated,
                     !.freeClusters = IF KeepsBack(p) THEN Append(@, Head(inUseBefore))
                                                      ELSE @]
  <2>1. freeAfter = IF KeepsBack(p) THEN Append(free, Head(inUseBefore)) ELSE free
    BY <1>9 DEF freeAfter
  <2> HIDE DEF inUseBefore
  <2>2. QED
    BY <1>4, <1>6, <2>1 DEF IsPool
<1>14. QED
  BY <1>2, <1>6, <1>8, <1>9, <1>11, <1>12, <1>13 DEF q, index

-----------------------------------------------------------------------------
(* The inductive invariant: nothing before mp_init and after mp_destroy, and *)
(* between them a pool whose indices and clusters are listed once each.      *)
IInv ==
  IF live
    THEN /\ IsPool(pool)
         /\ Indexed(pool, LutSize(pool))
         /\ Owned(pool, heap)
         /\ pool.elementsPerCluster \in ElementsPerCluster
         /\ pool.frontElementCount = pool.frontElementIndex
         /\ pool.frontElementIndex \in 0..pool.elementsPerCluster
    ELSE pool = NoPool /\ heap = {}

LEMMA SizesPositive == ElementsPerCluster \subseteq Nat \ {0}
<1>1. \A k \in 0..(IntBits - 2) : Shl1[k] \in Nat \ {0}
  BY WidthAssumption, Shl1Facts
<1>2. QED
  BY <1>1, SettingsAssumption

(* A pool's table without a cluster in use. *)
LEMMA NothingInUse ==
  ASSUME NEW p, Window(p.allocated) = <<>>
  PROVE  InUse(p) = <<>>
<1>1. Len(Window(p.allocated)) = 0
  BY EmptySeq
<1>2. QED
  BY <1>1 DEF InUse

LEMMA NoPoolFacts ==
  /\ IsPool(NoPool)
  /\ Ring!IsBuffer(NoPool.allocated) /\ Ring!IsBuffer(NoPool.unallocated)
  /\ Window(NoPool.allocated) = <<>> /\ InUse(NoPool) = <<>>
  /\ NoPool.freeClusters = <<>> /\ NoPool.freeClusterCountMax = 0
  /\ NoPool.elementsPerCluster = 0
  /\ NoPool.frontElementCount = 0 /\ NoPool.frontElementIndex = 0
  /\ NoPool.clusterLut = [i \in {} |-> NULL]
<1> DEFINE made == Ring!Make(0)
<1>1. Ring!IsBuffer(made) /\ Window(made) = <<>>
  BY RingMake DEF Window
<1> HIDE DEF made
<1>2. NoPool = [allocated |-> made, unallocated |-> made,
                clusterLut |-> [i \in {} |-> NULL], freeClusters |-> <<>>,
                freeClusterCountMax |-> 0, elementsPerCluster |-> 0,
                frontElementCount |-> 0, frontElementIndex |-> 0]
  BY DEF NoPool, made
<1>3. /\ NoPool.allocated = made /\ NoPool.unallocated = made
      /\ NoPool.freeClusters = <<>> /\ NoPool.freeClusterCountMax = 0
      /\ NoPool.elementsPerCluster = 0 /\ IsPool(NoPool)
      /\ NoPool.frontElementCount = 0 /\ NoPool.frontElementIndex = 0
      /\ NoPool.clusterLut = [i \in {} |-> NULL]
  BY <1>2 DEF IsPool
<1>4. InUse(NoPool) = <<>>
  BY <1>1, <1>3, NothingInUse
<1>5. QED
  BY <1>1, <1>3, <1>4

LEMMA InitIInv == Init => IInv
BY DEF Init, IInv

(* mp_init leaves one cluster in use, with nothing in it. *)
HasSettings(p, size, max) == p.elementsPerCluster = size /\ p.freeClusterCountMax = max

LEMMA InitPoolFacts ==
  ASSUME NEW size, NEW max \in Nat, NEW fresh \in Cluster
  PROVE  LET p == InitClusters(size, max, fresh)
         IN  /\ IsPool(p)
             /\ Indexed(p, LutSize(p))
             /\ Owned(p, {fresh})
             /\ p.allocated.length = 1
             /\ InUse(p) = <<fresh>>
             /\ p.freeClusters = <<>> /\ HasSettings(p, size, max)
             /\ p.frontElementCount = 0 /\ p.frontElementIndex = 0
             /\ InOrder(p)
<1> DEFINE fifos == InitClusterFifos
           empty == [allocated           |-> fifos.allocated,
                     unallocated         |-> fifos.unallocated,
                     clusterLut          |-> fifos.clusterLut,
                     freeClusters        |-> <<>>,
                     freeClusterCountMax |-> max,
                     elementsPerCluster  |-> size,
                     frontElementCount   |-> 0,
                     frontElementIndex   |-> 0]
           p == InitClusters(size, max, fresh)
<1>1. /\ fifos = [allocated   |-> Ring!Make(2),
                  clusterLut  |-> [i \in 0..3 |-> NULL],
                  unallocated |-> fifos.unallocated]
      /\ Ring!IsBuffer(fifos.unallocated)
      /\ fifos.unallocated.capacityLog2 = 2
      /\ Ring!Contents(fifos.unallocated) = Run(0, 4)
  BY CountFacts, InitFacts
<1> DEFINE rings == fifos
           made == Ring!Make(2)
           lut == [i \in 0..3 |-> NULL]
<1>2. p = AddFrontCluster(empty, fresh)
  BY DEF InitClusters
<1>3. /\ fifos.allocated = made /\ fifos.clusterLut = lut
  <2> HIDE DEF fifos, made, lut
  <2>1. fifos = [allocated |-> made, clusterLut |-> lut, unallocated |-> fifos.unallocated]
    BY <1>1 DEF made, lut
  <2>2. QED
    BY <2>1
<1> HIDE DEF fifos, p
<1>4. /\ IsPool(empty)
      /\ empty.allocated = made /\ empty.unallocated = fifos.unallocated
      /\ empty.clusterLut = lut /\ empty.freeClusters = <<>>
      /\ empty.freeClusterCountMax = max /\ empty.elementsPerCluster = size
  BY <1>3 DEF IsPool
<1> HIDE DEF empty, made, lut
<1>5. /\ Ring!IsBuffer(made) /\ Window(made) = <<>> /\ made.capacityLog2 = 2
  BY RingMake DEF Window, made
<1>6. Indexed(empty, 4) /\ InOrder(empty)
  <2>1. Lists(Run(0, 4), 0..3) /\ Run(0, 4) \in Seq(0..3)
    <3>1. Lists(Run(0, 4), 0..(0 + 4 - 1))
      BY RunFacts
    <3>2. 0 + 4 - 1 = 3
      OBVIOUS
    <3>3. QED
      BY <3>1, <3>2 DEF Lists
  <2>2. Window(made) \o Window(fifos.unallocated) = Run(0, 4)
    BY <1>1, <1>5, <2>1, ConcatEmptySeq DEF Window
  <2>3. lut \in [0..3 -> Cluster \cup {NULL}]
    BY DEF lut
  <2>4. Shl1[made.capacityLog2] <= 8 /\ Shl1[fifos.unallocated.capacityLog2] <= 8
    BY <1>1, <1>5, CountFacts
  <2>5. 4 - 1 = 3 /\ 2 * 4 = 8
    OBVIOUS
  <2>6. Indexed(empty, 4)
    BY <1>1, <1>4, <1>5, <2>1, <2>2, <2>3, <2>4, <2>5 DEF Indexed
  <2>7. LutSize(empty) = 4
    BY <2>6, IndexedFacts
  <2>8. QED
    BY <1>4, <2>2, <2>6, <2>7 DEF InOrder
<1>7. InUse(empty) = <<>>
  BY <1>4, <1>5, NothingInUse
<1>8. Owned(empty, {})
  <2>1. <<>> \in Seq(Cluster) /\ Len(<<>>) = 0
    BY EmptySeq
  <2>2. <<>> \o <<>> = <<>>
    BY <2>1, ConcatEmptySeq
  <2>3. QED
    BY <1>4, <1>7, <2>1, <2>2, ListsNothing DEF Owned
<1>9. fresh # NULL /\ {} \cup ({fresh} \ {NULL}) = {fresh}
  BY ClusterAssumption
<1>10. /\ IsPool(p) /\ \E m : Indexed(p, m)
       /\ Owned(p, {} \cup ({fresh} \ {NULL}))
       /\ \E x : Window(p.allocated) = Append(Window(empty.allocated), x)
       /\ InUse(p) = Append(InUse(empty), NextCluster(empty, fresh))
       /\ p.freeClusters = FreeLeft(empty)
       /\ p.freeClusterCountMax = empty.freeClusterCountMax
       /\ p.elementsPerCluster = empty.elementsPerCluster
       /\ p.frontElementCount = 0 /\ p.frontElementIndex = 0
       /\ InOrder(p)
  <2>1. NeedsMalloc(empty)
    BY <1>4 DEF NeedsMalloc
  <2>2. fresh \in IF NeedsMalloc(empty) THEN Cluster \ {} ELSE {NULL}
    BY <2>1
  <2> DEFINE n == 4
             nothing == {}
  <2>3. Indexed(empty, n)
    BY <1>6
  <2>4. Owned(empty, nothing) /\ nothing \cup ({fresh} \ {NULL}) = {} \cup ({fresh} \ {NULL})
        /\ fresh \in IF NeedsMalloc(empty) THEN Cluster \ nothing ELSE {NULL}
    BY <1>8, <2>2
  <2> HIDE DEF n, nothing
  <2>5. /\ IsPool(p) /\ \E m : Indexed(p, m) /\ n <= m
        /\ Owned(p, nothing \cup ({fresh} \ {NULL}))
        /\ \E x : Window(p.allocated) = Append(Window(empty.allocated), x)
        /\ InUse(p) = Append(InUse(empty), NextCluster(empty, fresh))
        /\ p.freeClusters = FreeLeft(empty)
        /\ p.freeClusterCountMax = empty.freeClusterCountMax
        /\ p.elementsPerCluster = empty.elementsPerCluster
        /\ p.frontElementCount = 0 /\ p.frontElementIndex = 0
        /\ InOrder(empty) => InOrder(p)
    BY <1>2, <1>4, <2>3, <2>4, AddFrontFacts
  <2>6. QED
    BY <1>6, <2>4, <2>5
<1>11. Indexed(p, LutSize(p))
  BY <1>10, IndexedFacts
<1>12. InUse(p) = <<fresh>> /\ p.freeClusters = <<>>
  <2>1. NextCluster(empty, fresh) = fresh /\ FreeLeft(empty) = <<>>
    BY <1>4 DEF NextCluster, NeedsMalloc, FreeLeft
  <2>2. Append(<<>>, fresh) = <<fresh>>
    OBVIOUS
  <2>3. QED
    BY <1>7, <1>10, <2>1, <2>2
<1>13. p.allocated.length = 1
  <2>1. Len(Append(<<>>, 0)) = 1
    OBVIOUS
  <2>2. PICK x : Window(p.allocated) = Append(<<>>, x)
    BY <1>4, <1>5, <1>10
  <2>3. Len(Append(<<>>, x)) = 1
    OBVIOUS
  <2>4. Len(Window(p.allocated)) = p.allocated.length
    BY <1>11, IndexedFacts
  <2>5. QED
    BY <2>2, <2>3, <2>4
<1>14. QED
  BY <1>4, <1>9, <1>10, <1>11, <1>12, <1>13 DEF p, HasSettings

LEMMA InitPoolIInv ==
  ASSUME IInv, NEW size \in ElementsPerCluster, NEW max \in 0..MaxFreeClusters,
         InitPool(size, max)
  PROVE  IInv'
<1>1. heap = {} /\ live' = TRUE /\ max \in Nat /\ 0 \in 0..size
  BY SizesPositive, SettingsAssumption DEF InitPool, IInv
<1>2. PICK fresh \in Cluster : pool' = InitClusters(size, max, fresh) /\ heap' = {fresh}
  BY <1>1 DEF InitPool
<1>3. /\ IsPool(pool') /\ Indexed(pool', LutSize(pool')) /\ Owned(pool', {fresh})
      /\ pool'.allocated.length = 1 /\ pool'.elementsPerCluster = size
      /\ pool'.frontElementCount = 0 /\ pool'.frontElementIndex = 0
  BY <1>1, <1>2, InitPoolFacts DEF HasSettings
<1>4. QED
  BY <1>1, <1>2, <1>3 DEF IInv

(* takeNextLocation counts one more element in the cluster it fills. *)
LEMMA ReadyFacts ==
  ASSUME NEW p, IsPool(p), Indexed(p, LutSize(p)), NEW clusters, Owned(p, clusters),
         p.elementsPerCluster \in Nat \ {0}, p.frontElementCount = p.frontElementIndex,
         p.frontElementIndex \in 0..p.elementsPerCluster,
         NEW fresh \in IF NeedsFrontCluster(p) /\ NeedsMalloc(p)
                         THEN Cluster \ clusters ELSE {NULL}
  PROVE  LET q == Ready(p, fresh)
         IN  /\ IsPool(q) /\ Indexed(q, LutSize(q)) /\ LutSize(p) <= LutSize(q)
             /\ Owned(q, clusters \cup ({fresh} \ {NULL}))
             /\ NeedsFrontCluster(p) => q.allocated.length # 0
             /\ q.elementsPerCluster = p.elementsPerCluster
             /\ q.freeClusterCountMax = p.freeClusterCountMax
             /\ q.frontElementCount = q.frontElementIndex
             /\ q.frontElementIndex \in 0..(p.elementsPerCluster - 1)
             /\ InOrder(p) => InOrder(q)
<1> DEFINE q == Ready(p, fresh)
           n == LutSize(p)
<1>1. CASE NeedsFrontCluster(p)
  <2>1. q = AddFrontCluster(p, fresh)
    BY <1>1 DEF Ready
  <2>2. fresh \in IF NeedsMalloc(p) THEN Cluster \ clusters ELSE {NULL}
    BY <1>1
  <2> HIDE DEF q, n
  <2>3. /\ IsPool(q) /\ \E m : Indexed(q, m) /\ n <= m
        /\ Owned(q, clusters \cup ({fresh} \ {NULL}))
        /\ \E x : Window(q.allocated) = Append(Window(p.allocated), x)
        /\ q.freeClusterCountMax = p.freeClusterCountMax
        /\ q.elementsPerCluster = p.elementsPerCluster
        /\ q.frontElementCount = 0 /\ q.frontElementIndex = 0
        /\ InOrder(p) => InOrder(q)
    BY <2>1, <2>2, AddFrontFacts DEF n
  <2>4. Indexed(q, LutSize(q)) /\ n <= LutSize(q)
    BY <2>3, IndexedFacts
  <2>5. q.allocated.length # 0
    <3>1. PICK x : Window(q.allocated) = Append(Window(p.allocated), x)
      BY <2>3
    <3>2. Window(p.allocated) \in Seq(0..(n - 1))
      BY IndexedFacts DEF n
    <3>3. Window(p.allocated) \in Seq((0..(n - 1)) \cup {x})
      BY <3>2, SeqMonotonic
    <3>4. /\ Len(Append(Window(p.allocated), x)) = Len(Window(p.allocated)) + 1
          /\ Len(Window(p.allocated)) \in Nat
      BY <3>3, AppendProperties, LenProperties
    <3>5. Len(Window(q.allocated)) = q.allocated.length
      BY <2>4, IndexedFacts
    <3>6. QED
      BY <3>1, <3>4, <3>5
  <2>6. 0 \in 0..(p.elementsPerCluster - 1)
    OBVIOUS
  <2>7. QED
    BY <2>3, <2>4, <2>5, <2>6 DEF q, n
<1>2. CASE ~NeedsFrontCluster(p)
  <2>1. q = p
    BY <1>2 DEF Ready
  <2>2. fresh = NULL /\ clusters \cup ({fresh} \ {NULL}) = clusters
    BY <1>2
  <2>3. p.frontElementIndex \in 0..(p.elementsPerCluster - 1)
    BY <1>2 DEF NeedsFrontCluster
  <2>4. n <= n
    BY DEF Indexed
  <2>5. QED
    BY <1>2, <2>1, <2>2, <2>3, <2>4
<1>3. QED
  BY <1>1, <1>2

LEMMA TakeIInv ==
  ASSUME IInv, Take
  PROVE  IInv'
<1>1. PICK fresh \in IF NeedsFrontCluster(pool) /\ NeedsMalloc(pool)
                       THEN Cluster \ heap ELSE {NULL} :
        /\ pool' = TakeNextLocation(pool, fresh)
        /\ heap' = heap \cup ({fresh} \ {NULL})
  BY DEF Take, TakeWith, FreshClusters
<1> DEFINE q == Ready(pool, fresh)
           size == pool.elementsPerCluster
<1>2. /\ live /\ live' = TRUE /\ size \in ElementsPerCluster /\ size \in Nat \ {0}
      /\ IsPool(pool) /\ Indexed(pool, LutSize(pool)) /\ Owned(pool, heap)
      /\ pool.frontElementCount = pool.frontElementIndex
      /\ pool.frontElementIndex \in 0..size
  BY SizesPositive DEF Take, TakeWith, IInv
<1>3. /\ IsPool(q) /\ Indexed(q, LutSize(q)) /\ Owned(q, heap')
      /\ q.elementsPerCluster = size /\ q.frontElementCount = q.frontElementIndex
      /\ q.frontElementIndex \in 0..(size - 1)
  BY <1>1, <1>2, ReadyFacts
<1>4. pool' = [q EXCEPT !.frontElementCount = @ + 1, !.frontElementIndex = @ + 1]
  BY <1>1 DEF TakeNextLocation
<1> HIDE DEF q, size
<1>5. pool' = [allocated           |-> q.allocated,
               unallocated         |-> q.unallocated,
               clusterLut          |-> q.clusterLut,
               freeClusters        |-> q.freeClusters,
               freeClusterCountMax |-> q.freeClusterCountMax,
               elementsPerCluster  |-> q.elementsPerCluster,
               frontElementCount   |-> q.frontElementCount + 1,
               frontElementIndex   |-> q.frontElementIndex + 1]
  BY <1>3, <1>4 DEF IsPool
<1>6. /\ IsPool(pool')
      /\ pool'.allocated = q.allocated /\ pool'.unallocated = q.unallocated
      /\ pool'.clusterLut = q.clusterLut /\ pool'.freeClusters = q.freeClusters
      /\ pool'.freeClusterCountMax = q.freeClusterCountMax
      /\ pool'.elementsPerCluster = q.elementsPerCluster
      /\ pool'.frontElementCount = q.frontElementCount + 1
      /\ pool'.frontElementIndex = q.frontElementIndex + 1
  BY <1>5 DEF IsPool
<1>7. Indexed(pool', LutSize(pool')) /\ Owned(pool', heap')
  BY <1>3, <1>6 DEF Indexed, Owned, LutSize, InUse
<1>8. pool'.frontElementIndex \in 0..size /\ pool'.elementsPerCluster = size
  BY <1>2, <1>3, <1>6
<1>9. QED
  BY <1>2, <1>3, <1>6, <1>7, <1>8 DEF IInv, size

LEMMA RemoveBackIInv ==
  ASSUME IInv, RemoveBack
  PROVE  IInv'
<1> DEFINE q == RemoveBackCluster(pool)
           n == LutSize(pool)
<1>1. /\ live /\ live' = TRUE /\ pool' = q /\ heap' = heap \ FreedByRemove(pool)
      /\ IsPool(pool) /\ Indexed(pool, n) /\ Owned(pool, heap)
      /\ pool.allocated.length # 0
      /\ pool.elementsPerCluster \in ElementsPerCluster
      /\ pool.frontElementCount = pool.frontElementIndex
      /\ pool.frontElementIndex \in 0..pool.elementsPerCluster
  BY DEF RemoveBack, IInv
<1> HIDE DEF q, n
<1>2. /\ IsPool(q) /\ Indexed(q, n) /\ Owned(q, heap')
      /\ Window(pool.allocated) # <<>>
      /\ Window(q.allocated) = Tail(Window(pool.allocated))
      /\ q = [pool EXCEPT !.allocated = q.allocated, !.unallocated = q.unallocated,
                          !.freeClusters = IF KeepsBack(pool)
                                             THEN Append(@, Head(InUse(pool))) ELSE @]
  BY <1>1, RemoveFacts DEF q
<1>3. LutSize(q) = n
  BY <1>2, IndexedFacts
<1>4. /\ q.elementsPerCluster = pool.elementsPerCluster
      /\ q.frontElementCount = pool.frontElementCount
      /\ q.frontElementIndex = pool.frontElementIndex
  <2> DEFINE free == IF KeepsBack(pool) THEN Append(pool.freeClusters, Head(InUse(pool)))
                                        ELSE pool.freeClusters
             a == q.allocated
             u == q.unallocated
  <2>1. q = [pool EXCEPT !.allocated = a, !.unallocated = u, !.freeClusters = free]
    BY <1>1, <1>2 DEF IsPool
  <2> HIDE DEF free, a, u
  <2>2. QED
    BY <1>1, <2>1 DEF IsPool
<1>5. QED
  BY <1>1, <1>2, <1>3, <1>4 DEF IInv

(* mp_destroy frees the clusters in use and the spare ones. *)
LEMMA DestroyFacts ==
  ASSUME NEW p, NEW n, Indexed(p, n), NEW clusters, Owned(p, clusters)
  PROVE  FreedByDestroy(p) = clusters
<1>1. clusters = ToSet(InUse(p)) \cup ToSet(p.freeClusters)
  BY OwnedFacts
<1> DEFINE a == Window(p.allocated)
<1>2. a \in Seq(0..(n - 1)) /\ DOMAIN a = 1..Len(a)
  BY IndexedFacts, LenProperties
<1>3. Indices(p.allocated) = {a[i] : i \in 1..Len(a)}
  BY <1>2, RingIndices DEF Indexed, Window, ToSet
<1>4. ToSet(InUse(p)) = {p.clusterLut[a[i]] : i \in 1..Len(a)}
  BY DEF InUse, ToSet
<1> HIDE DEF a
<1>5. {p.clusterLut[i] : i \in Indices(p.allocated)} = {p.clusterLut[a[i]] : i \in 1..Len(a)}
  BY <1>3
<1>6. QED
  BY <1>1, <1>4, <1>5 DEF FreedByDestroy

LEMMA DestroyPoolIInv ==
  ASSUME IInv, DestroyPool
  PROVE  IInv'
<1>1. heap' = {}
  BY DestroyFacts DEF DestroyPool, IInv
<1>2. QED
  BY <1>1 DEF DestroyPool, IInv

LEMMA NextIInv == IInv /\ [Next]_vars => IInv'
<1> SUFFICES ASSUME IInv, [Next]_vars PROVE IInv'
  OBVIOUS
<1>1. CASE \E size \in ElementsPerCluster, max \in 0..MaxFreeClusters : InitPool(size, max)
  BY <1>1, InitPoolIInv
<1>2. CASE Take
  BY <1>2, TakeIInv
<1>3. CASE RemoveBack
  BY <1>3, RemoveBackIInv
<1>4. CASE DestroyPool
  BY <1>4, DestroyPoolIInv
<1>5. CASE UNCHANGED vars
  <2>1. pool' = pool /\ heap' = heap /\ live' = live
    BY <1>5 DEF vars
  <2>2. QED
    BY <2>1 DEF IInv
<1>6. QED
  BY <1>1, <1>2, <1>3, <1>4, <1>5 DEF Next

LEMMA InductiveInvariant == Spec => []IInv
BY InitIInv, NextIInv, PTL DEF Spec

-----------------------------------------------------------------------------
(* The ring buffers are consistent with themselves, the spare clusters are *)
(* clusters, and the count of elements in the front one is its index.      *)
THEOREM TypeCorrect == Spec => []TypeOK
<1>1. IInv => TypeOK
  <2> SUFFICES ASSUME IInv PROVE TypeOK
    OBVIOUS
  <2>1. CASE live
    BY <2>1 DEF IInv, Indexed, Owned, TypeOK
  <2>2. CASE ~live
    <3>1. pool = NoPool /\ heap = {}
      BY <2>2 DEF IInv
    <3>2. 0 \in 0..0 /\ <<>> \in Seq(Cluster)
      BY EmptySeq
    <3>3. QED
      BY <3>1, <3>2, NoPoolFacts DEF TypeOK
  <2>3. QED
    BY <2>1, <2>2
<1>2. QED
  BY <1>1, InductiveInvariant, PTL

(* Every index of the cluster table is in one of the two ring buffers, once. *)
THEOREM IndicesCorrect == Spec => []IndicesPartition
<1>1. IInv => IndicesPartition
  <2> SUFFICES ASSUME IInv, live PROVE IndicesPartition
    BY DEF IndicesPartition
  <2> DEFINE n == LutSize(pool)
             a == Window(pool.allocated)
             u == Window(pool.unallocated)
  <2>1. Indexed(pool, n)
    BY DEF IInv
  <2> HIDE DEF n
  <2>2. /\ a \in Seq(0..(n - 1)) /\ u \in Seq(0..(n - 1))
        /\ Lists(a \o u, 0..(n - 1)) /\ DOMAIN pool.clusterLut = 0..(n - 1)
        /\ Len(a) = pool.allocated.length /\ Len(u) = pool.unallocated.length
        /\ Len(a) + Len(u) = n
    BY <2>1, IndexedFacts DEF Indexed
  <2>3. ToSet(a) \cup ToSet(u) = 0..(n - 1)
    BY <2>2, ListsParts
  <2>4. Indices(pool.allocated) = ToSet(a) /\ Indices(pool.unallocated) = ToSet(u)
    BY <2>1, RingIndices DEF Indexed, Window
  <2>5. QED
    BY <2>2, <2>3, <2>4 DEF IndicesPartition, n
<1>2. QED
  BY <1>1, InductiveInvariant, PTL

LEMMA SameInUse == inUse = InUse(pool) /\ allocated = Window(pool.allocated)
BY DEF inUse, InUse, allocated, Window

(* The pool has each allocated cluster in one place, in use or spare, and no *)
(* other, and no more spare ones than its setting.                           *)
THEOREM OwnershipCorrect == Spec => []ClustersOwnedOnce
<1>1. IInv => ClustersOwnedOnce
  <2> SUFFICES ASSUME IInv PROVE ClustersOwnedOnce
    OBVIOUS
  <2>1. CASE live
    <3>1. Owned(pool, heap)
      BY <2>1 DEF IInv
    <3>2. /\ Cardinality(heap) = Len(InUse(pool)) + Len(pool.freeClusters)
          /\ heap = ToSet(InUse(pool)) \cup ToSet(pool.freeClusters)
      BY <3>1, OwnedFacts
    <3>3. Len(pool.freeClusters) <= pool.freeClusterCountMax
      BY <3>1 DEF Owned
    <3>4. QED
      BY <3>2, <3>3, SameInUse DEF ClustersOwnedOnce
  <2>2. CASE ~live
    <3>1. /\ heap = {} /\ InUse(pool) = <<>> /\ pool.freeClusters = <<>>
          /\ pool.freeClusterCountMax = 0
      BY <2>2, NoPoolFacts DEF IInv
    <3>2. ToSet(<<>>) = {} /\ Len(<<>>) = 0 /\ Cardinality({}) = 0
      BY FS_EmptySet DEF ToSet
    <3>3. QED
      BY <3>1, <3>2, SameInUse DEF ClustersOwnedOnce
  <2>3. QED
    BY <2>1, <2>2
<1>2. QED
  BY <1>1, InductiveInvariant, PTL

-----------------------------------------------------------------------------
LEMMA ListsToSet ==
  ASSUME NEW S, NEW w, Lists(w, S)
  PROVE  ToSet(w) = S
<1>1. w \in Seq(S) /\ DOMAIN w = 1..Len(w)
  BY LenProperties DEF Lists
<1>2. \A i \in 1..Len(w) : w[i] \in S
  BY <1>1, ElementOfSeq
<1>3. ToSet(w) = {w[i] : i \in 1..Len(w)}
  BY <1>1 DEF ToSet
<1>4. QED
  BY <1>2, <1>3 DEF Lists

(* The spare clusters as a set: what is taken from it and what joins it. *)
LEMMA SpareFacts ==
  ASSUME NEW p, NEW clusters, Owned(p, clusters)
  PROVE  /\ NeedsMalloc(p) <=> ToSet(p.freeClusters) = {}
         /\ Cardinality(ToSet(p.freeClusters)) = Len(p.freeClusters)
         /\ ~NeedsMalloc(p) =>
              /\ Last(p.freeClusters) \in ToSet(p.freeClusters)
              /\ ToSet(Front(p.freeClusters)) =
                   ToSet(p.freeClusters) \ {Last(p.freeClusters)}
         /\ \A c : c \notin ToSet(p.freeClusters) =>
              ToSet(Append(p.freeClusters, c)) = ToSet(p.freeClusters) \cup {c}
<1> DEFINE free == p.freeClusters
<1>1. Lists(free, ToSet(free)) /\ free \in Seq(Cluster)
  <2>1. InUse(p) \in Seq(Cluster) /\ free \in Seq(Cluster)
        /\ Lists(InUse(p) \o free, clusters)
    BY DEF Owned
  <2>2. InUse(p) \in Seq(clusters) /\ free \in Seq(clusters)
    BY <2>1, ListsBoth
  <2> HIDE DEF free
  <2>3. QED
    BY <2>1, <2>2, ListsParts
<1> HIDE DEF free
<1>2. Cardinality(ToSet(free)) = Len(free)
  BY <1>1, ListsCardinality
<1>3. ASSUME free # <<>>
      PROVE  /\ Last(free) \in ToSet(free)
             /\ ToSet(Front(free)) = ToSet(free) \ {Last(free)}
  BY <1>1, <1>3, ListsFront, ListsToSet
<1>4. ASSUME free = <<>> PROVE ToSet(free) = {}
  BY <1>4 DEF ToSet
<1>5. ASSUME NEW c, c \notin ToSet(free)
      PROVE  ToSet(Append(free, c)) = ToSet(free) \cup {c}
  <2>1. Lists(Append(free, c), ToSet(free) \cup {c})
    BY <1>1, <1>5, ListsAppend
  <2>2. QED
    BY <2>1, ListsToSet
<1>6. QED
  BY <1>2, <1>3, <1>4, <1>5 DEF NeedsMalloc, free

(* Each call is one of ClusterQueue's actions. *)
LEMMA InitPoolImplements ==
  ASSUME IInv, NEW size \in ElementsPerCluster, NEW max \in 0..MaxFreeClusters,
         InitPool(size, max)
  PROVE  Queue!Make(size, max)
<1>1. heap = {} /\ ~live /\ live' = TRUE /\ max \in Nat
  BY SettingsAssumption DEF InitPool, IInv
<1>2. PICK fresh \in Cluster : pool' = InitClusters(size, max, fresh) /\ heap' = {fresh}
  BY <1>1 DEF InitPool
<1>3. /\ InUse(pool') = <<fresh>> /\ pool'.freeClusters = <<>>
      /\ pool'.freeClusterCountMax = max /\ pool'.elementsPerCluster = size
      /\ pool'.frontElementIndex = 0
  <2> DEFINE p == InitClusters(size, max, fresh)
  <2>1. /\ InUse(p) = <<fresh>> /\ p.freeClusters = <<>>
        /\ p.freeClusterCountMax = max /\ p.elementsPerCluster = size
        /\ p.frontElementIndex = 0
    <3>1. max \in Nat /\ fresh \in Cluster
      BY <1>1
    <3>2. /\ p.freeClusters = <<>> /\ InUse(p) = <<fresh>>
          /\ HasSettings(p, size, max) /\ p.frontElementIndex = 0
      BY <3>1, InitPoolFacts
    <3>3. QED
      BY <3>2 DEF HasSettings
  <2> HIDE DEF p
  <2>2. pool' = p
    BY <1>2 DEF p
  <2>3. QED
    BY <2>1, <2>2
<1>4. inUse' = <<fresh>> /\ ToSet(pool'.freeClusters) = {}
  <2>1. inUse' = InUse(pool')
    BY DEF inUse, InUse, allocated, Window
  <2>2. QED
    BY <1>3, <2>1 DEF ToSet
<1>5. QED
  BY <1>1, <1>2, <1>3, <1>4 DEF Queue!Make

LEMMA TakeImplements ==
  ASSUME IInv, Take
  PROVE  Queue!Take \/ Queue!TakeFromNext
<1>1. PICK fresh \in IF NeedsFrontCluster(pool) /\ NeedsMalloc(pool)
                       THEN Cluster \ heap ELSE {NULL} :
        /\ pool' = TakeNextLocation(pool, fresh)
        /\ heap' = heap \cup ({fresh} \ {NULL})
  BY DEF Take, TakeWith, FreshClusters
<1> DEFINE q == Ready(pool, fresh)
           size == pool.elementsPerCluster
           free == pool.freeClusters
           c == NextCluster(pool, fresh)
<1>2. /\ live /\ live' = TRUE /\ size \in Nat \ {0}
      /\ IsPool(pool) /\ Indexed(pool, LutSize(pool)) /\ Owned(pool, heap)
      /\ pool.frontElementCount = pool.frontElementIndex
      /\ pool.frontElementIndex \in 0..size
  BY SizesPositive DEF Take, TakeWith, IInv
<1>3. IsPool(q)
  BY <1>1, <1>2, ReadyFacts
<1>4. /\ inUse = InUse(pool) /\ inUse' = InUse(pool')
  BY DEF inUse, InUse, allocated, Window
<1>5. /\ InUse(pool') = InUse(q)
      /\ pool'.freeClusters = q.freeClusters
      /\ pool'.freeClusterCountMax = q.freeClusterCountMax
      /\ pool'.elementsPerCluster = q.elementsPerCluster
      /\ pool'.frontElementIndex = q.frontElementIndex + 1
  <2>1. pool' = [q EXCEPT !.frontElementCount = @ + 1, !.frontElementIndex = @ + 1]
    BY <1>1 DEF TakeNextLocation
  <2> HIDE DEF q
  <2>2. /\ pool'.allocated = q.allocated /\ pool'.clusterLut = q.clusterLut
        /\ pool'.freeClusters = q.freeClusters
        /\ pool'.freeClusterCountMax = q.freeClusterCountMax
        /\ pool'.elementsPerCluster = q.elementsPerCluster
        /\ pool'.frontElementIndex = q.frontElementIndex + 1
    BY <1>3, <2>1 DEF IsPool
  <2>3. QED
    BY <2>2 DEF InUse
<1>6. CASE ~NeedsFrontCluster(pool)
  <2>1. q = pool /\ heap' = heap
    BY <1>1, <1>6 DEF Ready
  <2>2. pool.frontElementIndex < size
    BY <1>2, <1>6 DEF NeedsFrontCluster
  <2> HIDE DEF q
  <2>3. QED
    BY <1>2, <1>4, <1>5, <2>1, <2>2 DEF Queue!Take
<1>7. CASE NeedsFrontCluster(pool)
  <2>1. q = AddFrontCluster(pool, fresh) /\ pool.frontElementIndex = size
    BY <1>7 DEF Ready, NeedsFrontCluster
  <2>2. fresh \in IF NeedsMalloc(pool) THEN Cluster \ heap ELSE {NULL}
    BY <1>7
  <2> HIDE DEF q, c
  <2>3. /\ InUse(q) = Append(InUse(pool), c)
        /\ q.freeClusters = FreeLeft(pool)
        /\ q.freeClusterCountMax = pool.freeClusterCountMax
        /\ q.elementsPerCluster = size /\ q.frontElementIndex = 0
    BY <1>2, <2>1, <2>2, AddFrontFacts DEF c
  <2>4. /\ NeedsMalloc(pool) <=> ToSet(free) = {}
        /\ ~NeedsMalloc(pool) => /\ Last(free) \in ToSet(free)
                                 /\ ToSet(Front(free)) = ToSet(free) \ {Last(free)}
    BY <1>2, SpareFacts
  <2>5. heap = ToSet(InUse(pool)) \cup ToSet(free)
    BY <1>2, OwnedFacts
  <2>6. /\ c \in IF ToSet(free) = {} THEN Cluster \ heap ELSE ToSet(free)
        /\ ToSet(FreeLeft(pool)) = ToSet(free) \ {c}
        /\ heap' = heap \cup {c}
    <3>1. CASE NeedsMalloc(pool)
      <4>1. c = fresh /\ fresh \in Cluster \ heap /\ fresh # NULL
        BY <2>2, <3>1, ClusterAssumption DEF c, NextCluster
      <4>2. FreeLeft(pool) = free
        BY <3>1 DEF FreeLeft, NeedsMalloc
      <4>3. QED
        BY <1>1, <2>4, <3>1, <4>1, <4>2
    <3>2. CASE ~NeedsMalloc(pool)
      <4>1. c = Last(free) /\ fresh = NULL /\ FreeLeft(pool) = Front(free)
        BY <2>2, <3>2 DEF c, NextCluster, FreeLeft
      <4>2. QED
        BY <1>1, <2>4, <2>5, <3>2, <4>1
    <3>3. QED
      BY <3>1, <3>2
  <2>7. pool'.frontElementIndex = 1
    BY <1>5, <2>3
  <2>8. QED
    BY <1>2, <1>4, <1>5, <2>1, <2>3, <2>6, <2>7 DEF Queue!TakeFromNext
<1>8. QED
  BY <1>6, <1>7

LEMMA RemoveBackImplements ==
  ASSUME IInv, RemoveBack
  PROVE  Queue!Remove
<1> DEFINE q == RemoveBackCluster(pool)
           n == LutSize(pool)
           free == pool.freeClusters
           c == Head(InUse(pool))
<1>1. /\ live /\ live' = TRUE /\ pool' = q /\ heap' = heap \ FreedByRemove(pool)
      /\ IsPool(pool) /\ Indexed(pool, n) /\ Owned(pool, heap)
      /\ pool.allocated.length # 0
  BY DEF RemoveBack, IInv
<1> HIDE DEF q, n
<1>2. /\ InUse(q) = Tail(InUse(pool))
      /\ pool.clusterLut[Back(pool.allocated)] = c
      /\ c \notin ToSet(free)
      /\ q = [pool EXCEPT !.allocated = q.allocated, !.unallocated = q.unallocated,
                          !.freeClusters = IF KeepsBack(pool) THEN Append(@, c) ELSE @]
  BY <1>1, RemoveFacts DEF q
<1>3. /\ q.freeClusters = IF KeepsBack(pool) THEN Append(free, c) ELSE free
      /\ q.freeClusterCountMax = pool.freeClusterCountMax
      /\ q.elementsPerCluster = pool.elementsPerCluster
      /\ q.frontElementIndex = pool.frontElementIndex
  <2> DEFINE later == IF KeepsBack(pool) THEN Append(free, c) ELSE free
             a == q.allocated
             u == q.unallocated
  <2>1. q = [pool EXCEPT !.allocated = a, !.unallocated = u, !.freeClusters = later]
    BY <1>1, <1>2 DEF IsPool
  <2> HIDE DEF later, a, u
  <2>2. /\ q.freeClusters = later
        /\ q.freeClusterCountMax = pool.freeClusterCountMax
        /\ q.elementsPerCluster = pool.elementsPerCluster
        /\ q.frontElementIndex = pool.frontElementIndex
    BY <1>1, <2>1 DEF IsPool
  <2>3. QED
    BY <2>2 DEF later
<1>4. /\ inUse = InUse(pool) /\ inUse' = InUse(pool')
  BY DEF inUse, InUse, allocated, Window
<1>5. InUse(pool) # <<>>
  <2>1. /\ Len(Window(pool.allocated)) = pool.allocated.length
        /\ Window(pool.allocated) \in Seq(0..(n - 1))
    BY <1>1, IndexedFacts
  <2>2. Len(Window(pool.allocated)) \in Nat
    BY <2>1, LenProperties
  <2>3. InUse(pool) \in Seq(Cluster) /\ DOMAIN InUse(pool) = 1..Len(Window(pool.allocated))
    BY <1>1 DEF InUse, Owned
  <2>4. Len(InUse(pool)) = Len(Window(pool.allocated))
    BY <2>2, <2>3, LenProperties
  <2>5. QED
    BY <1>1, <2>1, <2>4, EmptySeq
<1>6. /\ Cardinality(ToSet(free)) = Len(free)
      /\ ToSet(Append(free, c)) = ToSet(free) \cup {c}
  BY <1>1, <1>2, SpareFacts
<1> HIDE DEF free, c
<1>7. /\ live /\ live' = live /\ inUse # <<>> /\ inUse' = Tail(inUse)
       /\ c = Head(inUse) /\ free = pool.freeClusters
       /\ pool'.freeClusters = q.freeClusters
       /\ pool'.freeClusterCountMax = pool.freeClusterCountMax
       /\ pool'.elementsPerCluster = pool.elementsPerCluster
       /\ pool'.frontElementIndex = pool.frontElementIndex
       /\ Queue!Cardinality(ToSet(free)) = Cardinality(ToSet(free))
  <2>1. Queue!Cardinality(ToSet(free)) = Cardinality(ToSet(free))
    BY DEF Queue!Cardinality, Cardinality
  <2>2. QED
    BY <1>1, <1>2, <1>3, <1>4, <1>5, <2>1 DEF free, c
<1>8. CASE KeepsBack(pool)
  <2>1. FreedByRemove(pool) = {} /\ Cardinality(ToSet(free)) < pool.freeClusterCountMax
    BY <1>6, <1>8 DEF FreedByRemove, KeepsBack, free
  <2>2. ToSet(q.freeClusters) = ToSet(free) \cup {c} /\ heap' = heap
    BY <1>1, <1>3, <1>6, <1>8, <2>1
  <2>3. QED
    BY <1>7, <2>1, <2>2 DEF Queue!Remove
<1>9. CASE ~KeepsBack(pool)
  <2>1. FreedByRemove(pool) = {c} /\ ~(Cardinality(ToSet(free)) < pool.freeClusterCountMax)
    BY <1>2, <1>6, <1>9 DEF FreedByRemove, KeepsBack, free
  <2>2. ToSet(q.freeClusters) = ToSet(free) /\ heap' = heap \ {c}
    BY <1>1, <1>3, <1>9, <2>1
  <2>3. QED
    BY <1>7, <2>1, <2>2 DEF Queue!Remove
<1>10. QED
  BY <1>8, <1>9

LEMMA DestroyPoolImplements ==
  ASSUME IInv, DestroyPool
  PROVE  Queue!Destroy
<1>1. /\ live /\ live' = FALSE /\ pool' = NoPool /\ heap' = {}
  BY DestroyFacts DEF DestroyPool, IInv
<1>2. inUse' = <<>> /\ ToSet(pool'.freeClusters) = {}
  <2>1. inUse' = InUse(pool')
    BY DEF inUse, InUse, allocated, Window
  <2>2. ToSet(<<>>) = {}
    BY DEF ToSet
  <2>3. QED
    BY <1>1, <2>1, <2>2, NoPoolFacts
<1>3. /\ pool'.freeClusterCountMax = 0 /\ pool'.elementsPerCluster = 0
      /\ pool'.frontElementIndex = 0
  BY <1>1, NoPoolFacts
<1>4. QED
  BY <1>1, <1>2, <1>3 DEF Queue!Destroy

(* The cluster functions implement a queue of clusters with spare ones. *)
THEOREM ImplementsClusterQueue == Spec => ClusterQueueSpec
<1>1. Init => Queue!Init
  <2> SUFFICES ASSUME Init PROVE Queue!Init
    OBVIOUS
  <2>1. pool = NoPool /\ live = FALSE /\ heap = {}
    BY DEF Init
  <2>2. inUse = <<>>
    BY <2>1, NoPoolFacts, SameInUse
  <2>3. ToSet(<<>>) = {}
    BY DEF ToSet
  <2>4. QED
    BY <2>1, <2>2, <2>3, NoPoolFacts DEF Queue!Init
<1>2. IInv /\ [Next]_vars => [Queue!Next]_(Queue!vars)
  <2> SUFFICES ASSUME IInv, [Next]_vars PROVE [Queue!Next]_(Queue!vars)
    OBVIOUS
  <2>1. ASSUME NEW size \in ElementsPerCluster, NEW max \in 0..MaxFreeClusters,
               InitPool(size, max)
        PROVE  Queue!Next
    BY <2>1, InitPoolImplements DEF Queue!Next
  <2>2. CASE Take
    BY <2>2, TakeImplements DEF Queue!Next
  <2>3. CASE RemoveBack
    BY <2>3, RemoveBackImplements DEF Queue!Next
  <2>4. CASE DestroyPool
    BY <2>4, DestroyPoolImplements DEF Queue!Next
  <2>5. CASE UNCHANGED vars
    <3>1. pool' = pool /\ heap' = heap /\ live' = live
      BY <2>5 DEF vars
    <3>2. inUse' = inUse
      BY <3>1 DEF inUse, allocated
    <3>3. QED
      BY <3>1, <3>2 DEF Queue!vars
  <2>6. QED
    BY <2>1, <2>2, <2>3, <2>4, <2>5 DEF Next
<1>3. QED
  BY <1>1, <1>2, InductiveInvariant, PTL DEF Spec, ClusterQueueSpec, Queue!Spec

-----------------------------------------------------------------------------
(* The locations in the clusters of a list of indices, all of them in every *)
(* cluster but the last, and those below top in the last one.               *)
Slots(a, size, top) ==
  {l \in Nat : /\ l \div size \in ToSet(a)
               /\ l \div size = Last(a) => l % size < top}

LEMMA LastOfAppend ==
  ASSUME NEW X, NEW a \in Seq(X), NEW x \in X
  PROVE  Last(Append(a, x)) = x
<1>1. /\ Len(Append(a, x)) = Len(a) + 1
      /\ Append(a, x)[Len(a) + 1] = x
  BY AppendProperties
<1>2. QED
  BY <1>1 DEF Last

LEMMA LastOfTail ==
  ASSUME NEW X, NEW a \in Seq(X), Len(a) > 1
  PROVE  Last(Tail(a)) = Last(a)
<1>1. Len(a) \in Nat /\ a # <<>>
  BY EmptySeq, LenProperties
<1>2. Len(Tail(a)) = Len(a) - 1
  BY <1>1, HeadTailProperties
<1>3. \A i \in 1..Len(Tail(a)) : Tail(a)[i] = a[i + 1]
  BY <1>1, HeadTailProperties
<1>4. Len(a) - 1 \in 1..Len(Tail(a)) /\ (Len(a) - 1) + 1 = Len(a)
  BY <1>1, <1>2
<1>5. Tail(a)[Len(a) - 1] = a[Len(a)]
  BY <1>3, <1>4
<1>6. QED
  BY <1>2, <1>5 DEF Last

LEMMA SlotsFirst ==
  ASSUME NEW x \in Nat, NEW size \in Nat \ {0}
  PROVE  Slots(<<x>>, size, 0) = {}
<1>1. ToSet(<<x>>) = {x} /\ Last(<<x>>) = x
  BY DEF ToSet, Last
<1>2. ASSUME NEW l \in Slots(<<x>>, size, 0) PROVE FALSE
  <2>1. l \in Nat /\ l % size < 0
    BY <1>1 DEF Slots
  <2>2. l % size \in 0..(size - 1)
    BY <2>1, QuotientFacts
  <2>3. QED
    BY <2>1, <2>2
<1>3. QED
  BY <1>2

(* A cluster more, with nothing taken from it, when all of the last is taken. *)
LEMMA SlotsNext ==
  ASSUME NEW A \in SUBSET Nat, NEW a, Lists(a, A), NEW x \in Nat, x \notin A,
         NEW size \in Nat \ {0}
  PROVE  Slots(Append(a, x), size, 0) = Slots(a, size, size)
<1>1. /\ ToSet(a) = A /\ ToSet(Append(a, x)) = A \cup {x}
      /\ Last(Append(a, x)) = x
  <2>1. ToSet(a) = A
    BY ListsToSet
  <2>2. Lists(Append(a, x), A \cup {x})
    BY ListsAppend
  <2>3. ToSet(Append(a, x)) = A \cup {x}
    BY <2>2, ListsToSet
  <2>4. a \in Seq(A \cup {x})
    BY SeqMonotonic DEF Lists
  <2>5. QED
    BY <2>1, <2>3, <2>4, LastOfAppend
<1>2. \A l \in Nat : l % size < size /\ ~(l % size < 0)
  BY QuotientFacts
<1>3. QED
  BY <1>1, <1>2 DEF Slots

(* One location more of the last cluster. *)
LEMMA SlotsMore ==
  ASSUME NEW A \in SUBSET Nat, NEW a, Lists(a, A), a # <<>>,
         NEW size \in Nat \ {0}, NEW top \in 0..(size - 1)
  PROVE  /\ Slots(a, size, top + 1) = Slots(a, size, top) \cup {Last(a) * size + top}
         /\ Last(a) * size + top \notin Slots(a, size, top)
<1> DEFINE last == Last(a)
           next == last * size + top
<1>1. last \in A /\ ToSet(a) = A /\ last \in Nat
  BY ListsFront, ListsToSet
<1> HIDE DEF last
<1>2. next \div size = last /\ next % size = top /\ next \in Nat
  BY <1>1, QuotientUnique
<1>3. ASSUME NEW l \in Nat, l \div size = last, l % size = top PROVE l = next
  BY <1>3, QuotientFacts
<1> HIDE DEF next
<1>4. \A l \in Nat : l % size \in 0..(size - 1)
  BY QuotientFacts
<1>5. \A l \in Nat : l % size < top + 1 <=> (l % size < top \/ l % size = top)
  <2>1. \A r \in 0..(size - 1) : r < top + 1 <=> (r < top \/ r = top)
    OBVIOUS
  <2>2. QED
    BY <1>4, <2>1
<1>6. Slots(a, size, top + 1) = Slots(a, size, top) \cup {next}
  <2>1. ASSUME NEW l \in Slots(a, size, top + 1) PROVE l \in Slots(a, size, top) \cup {next}
    BY <1>3, <1>5, <2>1 DEF Slots, last
  <2>2. ASSUME NEW l \in Slots(a, size, top) PROVE l \in Slots(a, size, top + 1)
    BY <1>5, <2>2 DEF Slots
  <2>3. next \in Slots(a, size, top + 1)
    BY <1>1, <1>2 DEF Slots
  <2>4. QED
    BY <2>1, <2>2, <2>3
<1>7. next \notin Slots(a, size, top)
  <2>1. ~(top < top)
    OBVIOUS
  <2>2. QED
    BY <1>2, <2>1 DEF Slots, last
<1>8. QED
  BY <1>6, <1>7 DEF next, last

(* Without the first cluster, which is not the last one, size locations less. *)
LEMMA SlotsLess ==
  ASSUME NEW A \in SUBSET Nat, NEW a, Lists(a, A), Len(a) > 1,
         NEW size \in Nat \ {0}, NEW top, IsFiniteSet(Slots(a, size, top))
  PROVE  /\ Slots(Tail(a), size, top) =
              {l \in Slots(a, size, top) : l \div size # Head(a)}
         /\ IsFiniteSet(Slots(Tail(a), size, top))
         /\ Cardinality(Slots(Tail(a), size, top)) =
              Cardinality(Slots(a, size, top)) - size
<1> DEFINE h == Head(a)
           all == Slots(a, size, top)
           left == Slots(Tail(a), size, top)
           block == (h * size)..(h * size + size - 1)
<1>1. /\ a \in Seq(A) /\ Len(a) \in Nat /\ a # <<>> /\ a \in Seq(Nat)
  <2>1. a \in Seq(A)
    BY DEF Lists
  <2>2. Len(a) \in Nat /\ a \in Seq(Nat)
    BY <2>1, LenProperties, SeqMonotonic
  <2>3. QED
    BY <2>1, <2>2, EmptySeq
<1>2. /\ ToSet(a) = A /\ ToSet(Tail(a)) = A \ {h} /\ h \in A /\ h \in Nat
  <2>1. Lists(Tail(a), A \ {h}) /\ h \in A
    BY <1>1, ListsTail
  <2>2. QED
    BY <2>1, ListsToSet
<1>3. Last(Tail(a)) = Last(a) /\ Last(a) # h
  <2>1. Last(Tail(a)) = Last(a)
    BY <1>1, LastOfTail
  <2>2. h = a[1] /\ Last(a) = a[Len(a)] /\ 1 \in 1..Len(a) /\ Len(a) \in 1..Len(a) /\ Len(a) # 1
    <3>1. h = a[1]
      BY <1>1, HeadTailProperties
    <3>2. 1 \in 1..Len(a) /\ Len(a) \in 1..Len(a) /\ Len(a) # 1
      <4> DEFINE n == Len(a)
      <4>1. n \in Nat /\ n > 1
        BY <1>1
      <4> HIDE DEF n
      <4>2. 1 \in 1..n /\ n \in 1..n /\ n # 1
        BY <4>1
      <4>3. QED
        BY <4>2 DEF n
    <3>3. QED
      BY <3>1, <3>2 DEF Last
  <2>3. QED
    BY <2>1, <2>2 DEF Lists
<1>4. left = {l \in all : l \div size # h}
  BY <1>2, <1>3 DEF Slots
<1>5. \A l \in Nat : l \in block <=> l \div size = h
  <2>1. h * size \in Nat
    BY <1>2
  <2>2. ASSUME NEW l \in block PROVE l \div size = h
    <3>1. l - h * size \in 0..(size - 1) /\ l = h * size + (l - h * size)
      BY <2>1, <2>2
    <3>2. (h * size + (l - h * size)) \div size = h
      BY <1>2, <3>1, QuotientUnique
    <3>3. QED
      BY <3>1, <3>2
  <2>3. ASSUME NEW l \in Nat, l \div size = h PROVE l \in block
    <3>1. l = (l \div size) * size + (l % size) /\ l % size \in 0..(size - 1)
      BY QuotientFacts
    <3>2. QED
      BY <2>1, <2>3, <3>1
  <2>4. QED
    BY <2>2, <2>3
<1>6. block \subseteq Nat /\ IsFiniteSet(block) /\ Cardinality(block) = size
  <2> DEFINE b == h * size
  <2>1. b \in Nat
    BY <1>2
  <2> HIDE DEF b
  <2>2. b \in Int /\ b + size - 1 \in Int /\ ~(b > b + size - 1)
    BY <2>1
  <2>3. IsFiniteSet(b..(b + size - 1))
        /\ Cardinality(b..(b + size - 1)) = (b + size - 1) - b + 1
    BY <2>2, FS_Interval
  <2>4. (b + size - 1) - b + 1 = size /\ b..(b + size - 1) \subseteq Nat
    BY <2>1
  <2>5. QED
    BY <2>3, <2>4 DEF b
<1> HIDE DEF h, block
<1>7. all \subseteq Nat
  BY DEF Slots
<1>8. all \cap block = block
  <2>1. ASSUME NEW l \in block PROVE l \in all
    BY <1>2, <1>3, <1>5, <1>6, <2>1 DEF Slots
  <2>2. QED
    BY <2>1
<1> HIDE DEF all, left
<1>9. left = all \ block
  BY <1>4, <1>5, <1>7
<1>10. IsFiniteSet(left) /\ Cardinality(left) = Cardinality(all) - size
  <2>1. IsFiniteSet(all)
    BY DEF all
  <2>2. QED
    BY <1>6, <1>8, <1>9, <2>1, FS_Difference
<1>11. QED
  BY <1>4, <1>10 DEF h, all, left

(* What is known of the allocated indices while a pool is live. *)
LEMMA AllocatedFacts ==
  ASSUME NEW p, NEW n, Indexed(p, n), p.allocated.length # 0
  PROVE  LET a == Window(p.allocated)
         IN  /\ a # <<>>
             /\ Lists(a, ToSet(a)) /\ ToSet(a) \in SUBSET Nat
             /\ ToSet(a) = Indices(p.allocated)
             /\ p.allocated.a[Ring!FrontIndex(p.allocated)] = Last(a)
             /\ Last(a) \in 0..(n - 1)
<1> DEFINE a == Window(p.allocated)
           u == Window(p.unallocated)
           S == 0..(n - 1)
<1>1. /\ a \in Seq(S) /\ u \in Seq(S) /\ Lists(a \o u, S)
      /\ Len(a) = p.allocated.length /\ n \in Nat
      /\ Ring!IsBuffer(p.allocated)
  BY IndexedFacts DEF Indexed
<1>2. a # <<>>
  <2>1. Len(<<>>) = 0
    OBVIOUS
  <2>2. QED
    BY <1>1, <2>1
<1>3. ToSet(a) = Indices(p.allocated)
  BY <1>1, RingIndices DEF Window
<1>4. p.allocated.a[Ring!FrontIndex(p.allocated)] = Last(a)
  BY <1>1, RingFront DEF Window
<1> HIDE DEF a, u
<1>5. Lists(a, ToSet(a)) /\ ToSet(a) \cup ToSet(u) = S
  BY <1>1, ListsParts
<1>6. Last(a) \in ToSet(a)
  BY <1>2, <1>5, ListsFront
<1>7. ToSet(a) \in SUBSET Nat /\ Last(a) \in S
  BY <1>1, <1>5, <1>6
<1>8. QED
  BY <1>2, <1>3, <1>4, <1>5, <1>7 DEF a

(* mp_id_t tells the locations of a cluster table of this size apart. *)
Fits(p) == LutSize(p) * p.elementsPerCluster <= Shl1[IdBits]

(* The locations taken are those in the clusters in use, up to the front. *)
HasTaken(p, locations) ==
  LET a == Window(p.allocated)
  IN  IF a = <<>> THEN locations = {}
      ELSE /\ locations = Slots(a, p.elementsPerCluster, p.frontElementIndex)
           /\ IsFiniteSet(locations)
           /\ Cardinality(locations) =
                (Len(a) - 1) * p.elementsPerCluster + p.frontElementIndex

Located == live /\ Fits(pool) => HasTaken(pool, used)

(* The table never shrinks: if its locations fit, they did before. *)
LEMMA FitsBefore ==
  ASSUME NEW p, NEW q, Indexed(p, LutSize(p)), Indexed(q, LutSize(q)),
         LutSize(p) <= LutSize(q), p.elementsPerCluster \in Nat,
         q.elementsPerCluster = p.elementsPerCluster, Fits(q)
  PROVE  Fits(p)
<1> DEFINE m == LutSize(p)
           n == LutSize(q)
           size == p.elementsPerCluster
           limit == Shl1[IdBits]
<1>1. m \in Nat /\ n \in Nat /\ m <= n /\ size \in Nat /\ n * size <= limit
  BY DEF Indexed, Fits
<1>2. limit \in Nat
  BY ClusterAssumption, Shl1Facts
<1> HIDE DEF m, n, size, limit
<1>3. m * size <= n * size /\ m * size \in Nat /\ n * size \in Nat
  BY <1>1, ProductGrows
<1>4. m * size <= limit
  BY <1>1, <1>2, <1>3
<1>5. QED
  BY <1>4 DEF m, size, limit, Fits

(* The ring of the allocated indices is empty when its window is. *)
LEMMA NoneAllocated ==
  ASSUME NEW p, NEW n, Indexed(p, n)
  PROVE  Window(p.allocated) = <<>> <=> p.allocated.length = 0
<1>1. /\ Window(p.allocated) \in Seq(0..(n - 1))
      /\ Len(Window(p.allocated)) = p.allocated.length
  BY IndexedFacts
<1>2. QED
  BY <1>1, EmptySeq

LEMMA InitPoolLocated ==
  ASSUME IInv, NEW size \in ElementsPerCluster, NEW max \in 0..MaxFreeClusters,
         InitPool(size, max)
  PROVE  Located'
<1>1. heap = {} /\ max \in Nat /\ used' = {} /\ size \in Nat \ {0}
  BY SizesPositive, SettingsAssumption DEF InitPool, IInv
<1>2. PICK fresh \in Cluster : pool' = InitClusters(size, max, fresh)
  BY <1>1 DEF InitPool
<1> DEFINE p == InitClusters(size, max, fresh)
           a == Window(p.allocated)
<1>3. /\ Indexed(p, LutSize(p)) /\ p.allocated.length = 1
      /\ p.elementsPerCluster = size /\ p.frontElementIndex = 0
  <2>1. /\ Indexed(p, LutSize(p)) /\ p.allocated.length = 1
        /\ HasSettings(p, size, max) /\ p.frontElementIndex = 0
    BY <1>1, InitPoolFacts
  <2> HIDE DEF p
  <2>2. QED
    BY <2>1 DEF HasSettings
<1> HIDE DEF p
<1>4. a \in Seq(0..(LutSize(p) - 1)) /\ Len(a) = 1 /\ LutSize(p) \in Nat
  BY <1>3, IndexedFacts DEF Indexed
<1>5. a = <<a[1]>> /\ a[1] \in Nat
  <2>1. a \in [1..1 -> 0..(LutSize(p) - 1)]
    BY <1>4, LenProperties
  <2> HIDE DEF a
  <2>2. QED
    BY <1>4, <2>1
<1>6. Slots(a, size, 0) = {}
  BY <1>1, <1>5, SlotsFirst
<1>7. IsFiniteSet({}) /\ Cardinality({}) = 0 /\ (1 - 1) * size + 0 = 0
  BY <1>1, FS_EmptySet
<1>8. HasTaken(p, {})
  BY <1>3, <1>4, <1>6, <1>7, EmptySeq DEF HasTaken
<1>9. QED
  BY <1>1, <1>2, <1>8 DEF Located, p

(* addFrontCluster changes no location: the cluster before it is full. *)
LEMMA ReadyLocated ==
  ASSUME NEW p, NEW n, IsPool(p), Indexed(p, n), NEW clusters, Owned(p, clusters),
         p.elementsPerCluster \in Nat \ {0},
         NEW fresh \in IF NeedsFrontCluster(p) /\ NeedsMalloc(p)
                         THEN Cluster \ clusters ELSE {NULL},
         NEW locations, HasTaken(p, locations)
  PROVE  HasTaken(Ready(p, fresh), locations)
<1> DEFINE size == p.elementsPerCluster
           a == Window(p.allocated)
           q == AddFrontCluster(p, fresh)
<1>1. CASE ~NeedsFrontCluster(p)
  BY <1>1 DEF Ready
<1>2. CASE NeedsFrontCluster(p)
  <2>1. fresh \in IF NeedsMalloc(p) THEN Cluster \ clusters ELSE {NULL}
    BY <1>2
  <2>2. /\ \E m : Indexed(q, m)
        /\ \E x : Window(q.allocated) = Append(Window(p.allocated), x)
        /\ q.elementsPerCluster = size /\ q.frontElementIndex = 0
    BY <2>1, AddFrontFacts
  <2> HIDE DEF q
  <2>3. PICK x : Window(q.allocated) = Append(a, x)
    BY <2>2
  <2>4. PICK m : Indexed(q, m)
    BY <2>2
  <2> DEFINE b == Append(a, x)
             S == ToSet(a)
  <2>5. /\ b \in Seq(0..(m - 1)) /\ m \in Nat
        /\ Lists(b \o Window(q.unallocated), 0..(m - 1))
        /\ Window(q.unallocated) \in Seq(0..(m - 1))
    BY <2>3, <2>4, IndexedFacts DEF Indexed
  <2>6. a \in Seq(0..(n - 1)) /\ Len(a) \in Nat
    BY IndexedFacts, LenProperties
  <2> HIDE DEF a
  <2>7. /\ Len(b) = Len(a) + 1 /\ \A i \in 1..Len(a) : b[i] = a[i]
        /\ b[Len(a) + 1] = x
    <3>1. a \in Seq((0..(n - 1)) \cup {x})
      BY <2>6, SeqMonotonic
    <3>2. QED
      BY <3>1, AppendProperties
  <2>8. x \in Nat
    <3>1. Len(a) + 1 \in 1..Len(b)
      BY <2>6, <2>7
    <3> HIDE DEF b
    <3>2. b[Len(a) + 1] \in 0..(m - 1)
      BY <2>5, <3>1, ElementOfSeq
    <3>3. QED
      BY <2>7, <3>2
  <2>9. Window(q.allocated) = b /\ b # <<>>
    BY <2>3, <2>6, <2>7
  <2>10. CASE a = <<>>
    <3>1. locations = {} /\ b = <<x>>
      BY <2>10 DEF HasTaken, a
    <3>2. Slots(b, size, 0) = {} /\ Len(b) = 1
      BY <2>8, <3>1, SlotsFirst
    <3>3. IsFiniteSet({}) /\ Cardinality({}) = 0 /\ (1 - 1) * size + 0 = 0
      BY FS_EmptySet
    <3> HIDE DEF b
    <3>4. HasTaken(q, locations)
      BY <2>2, <2>9, <3>1, <3>2, <3>3 DEF HasTaken
    <3>5. QED
      BY <1>2, <3>4 DEF Ready, q
  <2>11. CASE a # <<>>
    <3>1. /\ Lists(a, S) /\ S \in SUBSET Nat /\ a \in Seq(S)
      BY <2>11, AllocatedFacts, NoneAllocated DEF Lists, a
    <3>2. Lists(b, ToSet(b))
      <4> HIDE DEF b
      <4>1. QED
        BY <2>5, ListsParts
    <3>3. x \notin S
      <4> SUFFICES ASSUME x \in S PROVE FALSE
        OBVIOUS
      <4>1. PICK i \in 1..Len(a) : a[i] = x
        BY <3>1 DEF Lists
      <4>2. i \in 1..Len(b) /\ Len(a) + 1 \in 1..Len(b) /\ b[i] = b[Len(a) + 1]
            /\ i # Len(a) + 1
        BY <2>6, <2>7, <4>1
      <4>3. QED
        BY <3>2, <4>2 DEF Lists
    <3>4. Slots(b, size, 0) = Slots(a, size, size)
      BY <2>8, <3>1, <3>3, SlotsNext
    <3>5. /\ locations = Slots(a, size, size) /\ IsFiniteSet(locations)
          /\ Cardinality(locations) = (Len(a) - 1) * size + size
      BY <1>2, <2>11 DEF HasTaken, NeedsFrontCluster, a
    <3>6. (Len(a) - 1) * size + size = (Len(b) - 1) * size + 0
      <4>1. \A k \in Nat : (k - 1) * size + size = k * size
        <5> HIDE DEF size
        <5>1. size \in Nat
          BY DEF size
        <5>2. QED
          BY <5>1
      <4>2. Len(b) - 1 = Len(a) /\ Len(a) * size + 0 = Len(a) * size
        BY <2>6, <2>7
      <4>3. (Len(a) - 1) * size + size = Len(a) * size
        BY <2>6, <4>1
      <4>4. QED
        BY <4>2, <4>3
    <3> HIDE DEF b
    <3>7. HasTaken(q, locations)
      BY <2>2, <2>9, <3>4, <3>5, <3>6 DEF HasTaken
    <3>8. QED
      BY <1>2, <3>7 DEF Ready, q
  <2>12. QED
    BY <2>10, <2>11
<1>3. QED
  BY <1>1, <1>2

(* A location that fits is no multiple of the limit away from where it is. *)
LEMMA LocationFits ==
  ASSUME NEW last \in Nat, NEW size \in Nat \ {0}, NEW top \in 0..(size - 1),
         NEW n \in Nat, last + 1 <= n, NEW limit \in Nat, n * size <= limit
  PROVE  (last * size + top) % limit = last * size + top
<1>1. (last + 1) * size <= n * size /\ (last + 1) * size = last * size + size
  <2>1. last + 1 \in Nat
    OBVIOUS
  <2>2. QED
    BY <2>1, ProductGrows
<1> DEFINE x == last * size
           y == n * size
<1>2. x \in Nat /\ y \in Nat /\ x + size <= y /\ y <= limit
  BY <1>1
<1> HIDE DEF x, y
<1>3. x + top < limit /\ x + top \in Nat
  BY <1>2
<1>4. (x + top) % limit = x + top
  BY <1>3
<1>5. QED
  BY <1>4 DEF x

LEMMA TakeLocated ==
  ASSUME IInv, Located, Take
  PROVE  Located'
<1>1. PICK fresh \in IF NeedsFrontCluster(pool) /\ NeedsMalloc(pool)
                       THEN Cluster \ heap ELSE {NULL} :
        /\ pool' = TakeNextLocation(pool, fresh)
        /\ used' = IF pool'.allocated.length = 0 THEN used
                   ELSE used \cup {NextLocation(pool, fresh)}
  BY DEF Take, TakeWith, FreshClusters
<1> DEFINE q == Ready(pool, fresh)
           size == pool.elementsPerCluster
           n == LutSize(q)
           a == Window(q.allocated)
           top == q.frontElementIndex
           next == Last(a) * size + top
<1>2. /\ live /\ size \in ElementsPerCluster /\ size \in Nat \ {0}
      /\ IsPool(pool) /\ Indexed(pool, LutSize(pool)) /\ Owned(pool, heap)
      /\ pool.frontElementCount = pool.frontElementIndex
      /\ pool.frontElementIndex \in 0..size
  BY SizesPositive DEF Take, TakeWith, IInv
<1>3. /\ IsPool(q) /\ Indexed(q, n) /\ LutSize(pool) <= n
      /\ q.elementsPerCluster = size /\ top \in 0..(size - 1)
  BY <1>1, <1>2, ReadyFacts
<1>4. pool' = [q EXCEPT !.frontElementCount = @ + 1, !.frontElementIndex = @ + 1]
  BY <1>1 DEF TakeNextLocation
<1> HIDE DEF q
<1>5. /\ pool'.allocated = q.allocated /\ pool'.elementsPerCluster = size
      /\ pool'.frontElementIndex = top + 1 /\ pool'.clusterLut = q.clusterLut
  BY <1>3, <1>4 DEF IsPool
<1> SUFFICES ASSUME Fits(pool') PROVE HasTaken(pool', used')
  BY DEF Located
<1>6. Fits(q) /\ n * size <= Shl1[IdBits]
  BY <1>3, <1>5 DEF Fits, LutSize
<1>7. HasTaken(q, used)
  <2>1. Fits(pool)
    BY <1>2, <1>3, <1>6, FitsBefore
  <2>2. HasTaken(pool, used)
    BY <1>2, <2>1 DEF Located
  <2>3. QED
    BY <1>1, <1>2, <2>2, ReadyLocated DEF q
<1> HIDE DEF n, size
<1>8. CASE q.allocated.length = 0
  <2>1. a = <<>> /\ used' = used
    BY <1>1, <1>3, <1>5, <1>8, NoneAllocated
  <2>2. used = {}
    BY <1>7, <2>1 DEF HasTaken
  <2>3. QED
    BY <1>5, <2>1, <2>2 DEF HasTaken
<1>9. CASE q.allocated.length # 0
  <2>1. /\ a # <<>> /\ Lists(a, ToSet(a)) /\ ToSet(a) \in SUBSET Nat
        /\ q.allocated.a[Ring!FrontIndex(q.allocated)] = Last(a)
        /\ Last(a) \in 0..(n - 1) /\ n \in Nat
    BY <1>3, <1>9, AllocatedFacts DEF Indexed
  <2>2. NextLocation(pool, fresh) = next
    <3>1. FrontClusterIndex(q) = Last(a)
      BY <2>1, ClusterAssumption DEF FrontClusterIndex
    <3>2. NextLocation(pool, fresh) = next % Shl1[IdBits]
      BY <3>1 DEF NextLocation, q, size
    <3> DEFINE last == Last(a)
               limit == Shl1[IdBits]
    <3>3. last \in 0..(n - 1) /\ n \in Nat /\ n * size <= limit
      BY <1>6, <2>1
    <3>4. limit \in Nat
      BY ClusterAssumption, Shl1Facts
    <3>5. size \in Nat \ {0} /\ top \in 0..(size - 1)
      BY <1>2, <1>3 DEF size
    <3> HIDE DEF last, limit, top
    <3>6. last \in Nat /\ last + 1 <= n
      BY <3>3
    <3>7. (last * size + top) % limit = last * size + top
      BY <3>3, <3>4, <3>5, <3>6, LocationFits
    <3>8. QED
      BY <3>2, <3>7 DEF last, limit
  <2>3. /\ Slots(a, size, top + 1) = Slots(a, size, top) \cup {next}
        /\ next \notin Slots(a, size, top)
    BY <1>2, <1>3, <2>1, SlotsMore DEF size
  <2>4. /\ used = Slots(a, size, top) /\ IsFiniteSet(used)
        /\ Cardinality(used) = (Len(a) - 1) * size + top
    BY <1>3, <1>7, <2>1 DEF HasTaken
  <2> HIDE DEF next
  <2>5. used' = used \cup {next} /\ next \notin used
    BY <1>1, <1>5, <1>9, <2>2, <2>3, <2>4
  <2>6. used' = Slots(a, size, top + 1)
    BY <2>3, <2>4, <2>5
  <2>7. IsFiniteSet(used') /\ Cardinality(used') = Cardinality(used) + 1
    BY <2>4, <2>5, FS_AddElement
  <2>8. Cardinality(used') = (Len(a) - 1) * size + (top + 1)
    <3> DEFINE x == (Len(a) - 1) * size
    <3>1. Len(a) \in Nat
      BY <2>1, LenProperties DEF Lists
    <3>2. x \in Int /\ top \in Nat
      BY <1>2, <1>3, <3>1 DEF size
    <3> HIDE DEF x
    <3>3. (x + top) + 1 = x + (top + 1)
      BY <3>2
    <3>4. Cardinality(used') = (x + top) + 1
      BY <2>4, <2>7 DEF x
    <3>5. QED
      BY <3>3, <3>4 DEF x
  <2>9. QED
    BY <1>5, <2>1, <2>6, <2>7, <2>8 DEF HasTaken
<1>10. QED
  BY <1>8, <1>9

(* The only cluster has every location that was taken. *)
LEMMA SlotsOfOne ==
  ASSUME NEW A, NEW a \in Seq(A), Len(a) = 1, NEW size, NEW top, NEW l \in Slots(a, size, top)
  PROVE  l \div size = Head(a)
<1>1. a # <<>>
  <2> SUFFICES ASSUME a = <<>> PROVE FALSE
    OBVIOUS
  <2>1. Len(a) = 0
    BY EmptySeq
  <2>2. QED
    BY <2>1
<1>2. Head(a) = a[1] /\ ToSet(a) = {a[1]}
  BY <1>1, HeadTailProperties DEF ToSet
<1>3. QED
  BY <1>1, <1>2 DEF Slots

LEMMA RemoveBackLocated ==
  ASSUME IInv, Located, RemoveBack
  PROVE  Located'
<1> DEFINE q == RemoveBackCluster(pool)
           n == LutSize(pool)
           a == Window(pool.allocated)
           size == pool.elementsPerCluster
           top == pool.frontElementIndex
<1>1. /\ live /\ pool' = q /\ size \in Nat \ {0}
      /\ used' = {l \in used : l \div size # Back(pool.allocated)}
      /\ IsPool(pool) /\ Indexed(pool, n) /\ Owned(pool, heap)
      /\ pool.allocated.length # 0 /\ top \in 0..size
  BY SizesPositive DEF RemoveBack, IInv
<1> HIDE DEF q, n
<1>2. /\ Back(pool.allocated) = Head(a)
      /\ Window(q.allocated) = Tail(a) /\ Indexed(q, n)
      /\ q = [pool EXCEPT !.allocated = q.allocated, !.unallocated = q.unallocated,
                          !.freeClusters = IF KeepsBack(pool)
                                             THEN Append(@, Head(InUse(pool))) ELSE @]
  BY <1>1, RemoveFacts DEF q
<1>3. q.elementsPerCluster = size /\ q.frontElementIndex = top
  <2> DEFINE free == IF KeepsBack(pool) THEN Append(pool.freeClusters, Head(InUse(pool)))
                                        ELSE pool.freeClusters
             x == q.allocated
             u == q.unallocated
  <2>1. q = [pool EXCEPT !.allocated = x, !.unallocated = u, !.freeClusters = free]
    BY <1>1, <1>2 DEF IsPool
  <2> HIDE DEF free, x, u
  <2>2. QED
    BY <1>1, <2>1 DEF IsPool
<1>4. /\ Lists(a, ToSet(a)) /\ ToSet(a) \in SUBSET Nat
      /\ a \in Seq(ToSet(a)) /\ a # <<>> /\ Len(a) \in Nat
  <2>1. Lists(a, ToSet(a)) /\ ToSet(a) \in SUBSET Nat /\ a # <<>>
    BY <1>1, AllocatedFacts
  <2>2. QED
    BY <2>1, LenProperties DEF Lists
<1>5. Len(Tail(a)) = Len(a) - 1 /\ Len(a) >= 1 /\ Tail(a) \in Seq(ToSet(a))
  <2>1. Len(Tail(a)) = Len(a) - 1 /\ Tail(a) \in Seq(ToSet(a))
    BY <1>4, HeadTailProperties
  <2>2. Len(a) # 0
    BY <1>4, EmptySeq
  <2>3. QED
    BY <1>4, <2>1, <2>2
<1> SUFFICES ASSUME Fits(pool') PROVE HasTaken(q, used')
  BY <1>1 DEF Located
<1>6. /\ used = Slots(a, size, top) /\ IsFiniteSet(used)
      /\ Cardinality(used) = (Len(a) - 1) * size + top
  <2>1. LutSize(q) = n
    BY <1>2, IndexedFacts
  <2>2. Fits(pool)
    BY <1>1, <1>3, <2>1 DEF Fits, n
  <2>3. QED
    BY <1>1, <1>4, <2>2 DEF Located, HasTaken
<1> HIDE DEF a, size, top
<1>7. CASE Len(a) = 1
  <2>1. Tail(a) = <<>>
    <3>1. Len(Tail(a)) = 0
      BY <1>5, <1>7
    <3>2. QED
      BY <1>5, <3>1, EmptySeq
  <2>2. used' = {}
    BY <1>1, <1>2, <1>4, <1>6, <1>7, SlotsOfOne
  <2>3. QED
    BY <1>2, <2>1, <2>2 DEF HasTaken
<1>8. CASE Len(a) > 1
  <2>1. /\ Slots(Tail(a), size, top) = {l \in Slots(a, size, top) : l \div size # Head(a)}
        /\ IsFiniteSet(Slots(Tail(a), size, top))
        /\ Cardinality(Slots(Tail(a), size, top)) = Cardinality(Slots(a, size, top)) - size
    BY <1>1, <1>4, <1>6, <1>8, SlotsLess
  <2>2. used' = Slots(Tail(a), size, top)
    BY <1>1, <1>2, <1>6, <2>1
  <2>3. Cardinality(used') = (Len(Tail(a)) - 1) * size + top
    <3> DEFINE x == (Len(a) - 1) * size
               y == (Len(a) - 1 - 1) * size
    <3>1. x \in Int /\ y \in Int /\ top \in Int /\ size \in Int /\ x - size = y
      BY <1>1, <1>4
    <3>2. (Len(Tail(a)) - 1) * size = y
      BY <1>5
    <3>3. Cardinality(used') = Cardinality(used) - size /\ Cardinality(used) = x + top
      BY <1>6, <2>1, <2>2
    <3> HIDE DEF x, y
    <3>4. Cardinality(used') = y + top
      BY <3>1, <3>3
    <3>5. QED
      BY <3>2, <3>4
  <2>4. Tail(a) # <<>>
    <3>1. Len(Tail(a)) # 0
      BY <1>4, <1>5, <1>8
    <3>2. QED
      BY <1>5, <3>1, EmptySeq
  <2>5. QED
    BY <1>2, <1>3, <2>1, <2>2, <2>3, <2>4 DEF HasTaken
<1>9. QED
  BY <1>4, <1>5, <1>7, <1>8

(* No two elements of allocated clusters share a location, as long as mp_id_t *)
(* can tell the locations of the cluster table apart.                         *)
THEOREM LocationsCorrect == Spec => []LocationsDistinct
<1>1. Init => Located
  BY DEF Init, Located
<1>2. IInv /\ Located /\ [Next]_vars => Located'
  <2> SUFFICES ASSUME IInv, Located, [Next]_vars PROVE Located'
    OBVIOUS
  <2>1. CASE \E size \in ElementsPerCluster, max \in 0..MaxFreeClusters :
               InitPool(size, max)
    BY <2>1, InitPoolLocated
  <2>2. CASE Take
    BY <2>2, TakeLocated
  <2>3. CASE RemoveBack
    BY <2>3, RemoveBackLocated
  <2>4. CASE DestroyPool
    BY <2>4 DEF DestroyPool, Located
  <2>5. CASE UNCHANGED vars
    BY <2>5 DEF vars, Located
  <2>6. QED
    BY <2>1, <2>2, <2>3, <2>4, <2>5 DEF Next
<1>3. IInv /\ Located => LocationsDistinct
  <2> SUFFICES ASSUME IInv, Located, live, Fits(pool) PROVE LocationsDistinct
    BY DEF LocationsDistinct, Fits
  <2> DEFINE a == Window(pool.allocated)
  <2>1. Indexed(pool, LutSize(pool)) /\ HasTaken(pool, used)
    BY DEF IInv, Located
  <2>2. allocated = a
    BY SameInUse
  <2>3. CASE a = <<>>
    BY <2>1, <2>2, <2>3 DEF HasTaken, LocationsDistinct
  <2>4. CASE a # <<>>
    <3>1. ToSet(a) = Indices(pool.allocated)
      BY <2>1, <2>4, AllocatedFacts, NoneAllocated
    <3>2. QED
      BY <2>1, <2>2, <2>4, <3>1 DEF HasTaken, Slots, LocationsDistinct
  <2>5. QED
    BY <2>3, <2>4
<1>4. QED
  BY <1>1, <1>2, <1>3, InductiveInvariant, PTL DEF Spec
=============================================================================
