----------------------------- MODULE KvecProofs -----------------------------
(***************************************************************************)
(* Proofs about Kvec, for any names, values, capacities and indices: what  *)
(* kv_roundup32 returns, what each macro does to an array's elements, the  *)
(* type invariant and the refinement of Vector.                            *)
(***************************************************************************)
EXTENDS Kvec, NatProofs, SequenceTheorems

(* The functions that satisfy the equation of RoundUp up to n. *)
Tables(n) ==
  {f \in [0..n -> Nat] :
     \A x \in 0..n : f[x] = IF x <= 1 THEN x ELSE 2 * f[(x + 1) \div 2]}

(* Half of a number above 1, rounded up, is a smaller one. *)
LEMMA HalfIsLess ==
  ASSUME NEW x \in Nat, x > 1
  PROVE  /\ (x + 1) \div 2 \in 0..(x - 1)
         /\ x <= 2 * ((x + 1) \div 2)
OBVIOUS

LEMMA TableExists == \A n \in Nat : Tables(n) # {}
<1> DEFINE Bad == {n \in Nat : Tables(n) = {}}
<1> SUFFICES ASSUME Bad # {} PROVE FALSE
  OBVIOUS
<1>1. PICK n \in Bad : \A m \in Bad : n <= m
  BY LeastElement
<1>2. n # 0
  <2>1. [x \in 0..0 |-> 0] \in Tables(0)
    BY DEF Tables
  <2>2. QED
    BY <2>1
<1>3. PICK f : f \in Tables(n - 1)
  BY <1>1, <1>2
<1> DEFINE g == [x \in 0..n |-> IF x < n THEN f[x]
                                ELSE IF n <= 1 THEN n ELSE 2 * f[(n + 1) \div 2]]
<1>4. g \in [0..n -> Nat]
  <2>1. n > 1 => f[(n + 1) \div 2] \in Nat
    BY <1>3, HalfIsLess DEF Tables
  <2>2. QED
    BY <1>3, <2>1 DEF Tables
<1>5. ASSUME NEW x \in 0..n
      PROVE  g[x] = IF x <= 1 THEN x ELSE 2 * g[(x + 1) \div 2]
  <2>1. x > 1 => (x + 1) \div 2 \in 0..(n - 1)
    BY HalfIsLess
  <2>2. CASE x = n
    BY <2>1, <2>2
  <2>3. CASE x # n
    <3>1. x \in 0..(n - 1)
      BY <2>3
    <3>2. f[x] = IF x <= 1 THEN x ELSE 2 * f[(x + 1) \div 2]
      BY <1>3, <3>1 DEF Tables
    <3>3. QED
      BY <2>1, <3>1, <3>2
  <2>4. QED
    BY <2>2, <2>3
<1>6. g \in Tables(n)
  BY <1>4, <1>5 DEF Tables
<1>7. QED
  BY <1>6

LEMMA TablesAgree ==
  ASSUME NEW n \in Nat, NEW m \in Nat, n <= m,
         NEW f \in Tables(n), NEW g \in Tables(m)
  PROVE  \A x \in 0..n : f[x] = g[x]
<1> DEFINE Bad == {x \in 0..n : f[x] # g[x]}
<1> SUFFICES ASSUME Bad # {} PROVE FALSE
  OBVIOUS
<1>1. PICK x \in Bad : \A y \in Bad : x <= y
  <2>1. Bad \in SUBSET Nat
    OBVIOUS
  <2>2. QED
    BY <2>1, LeastElement
<1>2. x > 1
  BY DEF Tables
<1>3. (x + 1) \div 2 \in 0..(x - 1)
  BY <1>2, HalfIsLess
<1>4. f[(x + 1) \div 2] = g[(x + 1) \div 2]
  BY <1>1, <1>3
<1>5. f[x] = 2 * f[(x + 1) \div 2] /\ g[x] = 2 * g[(x + 1) \div 2]
  BY <1>2 DEF Tables
<1>6. QED
  BY <1>4, <1>5

(* RoundUp satisfies its recursive definition. *)
LEMMA RoundUpEquation ==
  RoundUp = [x \in Nat |-> IF x <= 1 THEN x ELSE 2 * RoundUp[(x + 1) \div 2]]
<1> DEFINE table(n) == CHOOSE f \in Tables(n) : TRUE
           F == [n \in Nat |-> table(n)[n]]
<1>1. \A n \in Nat : table(n) \in Tables(n)
  BY TableExists
<1> HIDE DEF table
<1>2. ASSUME NEW x \in Nat
      PROVE  F[x] = IF x <= 1 THEN x ELSE 2 * F[(x + 1) \div 2]
  <2>1. CASE x <= 1
    BY <1>1, <2>1 DEF Tables
  <2>2. CASE x > 1
    <3> DEFINE half == (x + 1) \div 2
    <3>1. half \in 0..(x - 1) /\ half \in Nat /\ half <= x
      BY <2>2, HalfIsLess
    <3> HIDE DEF half
    <3>2. table(half)[half] = table(x)[half]
      BY <1>1, <3>1, TablesAgree
    <3>3. table(x)[x] = 2 * table(x)[half]
      BY <1>1, <2>2 DEF Tables, half
    <3>4. F[x] = 2 * F[half]
      BY <3>1, <3>2, <3>3
    <3>5. QED
      BY <2>2, <3>4 DEF half
  <2>3. QED
    BY <2>1, <2>2
<1>3. F = [x \in Nat |-> IF x <= 1 THEN x ELSE 2 * F[(x + 1) \div 2]]
  BY <1>2
<1>4. QED
  BY <1>3 DEF RoundUp

(* kv_roundup32 returns no less than it is given. *)
LEMMA RoundUpFacts == \A x \in Nat : RoundUp[x] \in Nat /\ x <= RoundUp[x]
<1>1. \A x \in Nat : RoundUp[x] = IF x <= 1 THEN x ELSE 2 * RoundUp[(x + 1) \div 2]
  BY RoundUpEquation
<1> DEFINE Bad == {x \in Nat : ~(RoundUp[x] \in Nat /\ x <= RoundUp[x])}
<1> SUFFICES ASSUME Bad # {} PROVE FALSE
  OBVIOUS
<1>2. PICK x \in Bad : \A y \in Bad : x <= y
  BY LeastElement
<1>3. x > 1
  BY <1>1
<1> DEFINE half == (x + 1) \div 2
<1>4. half \in 0..(x - 1) /\ x <= 2 * half
  BY <1>3, HalfIsLess
<1> HIDE DEF half
<1>5. half \notin Bad
  BY <1>2, <1>4
<1>6. RoundUp[half] \in Nat /\ half <= RoundUp[half]
  BY <1>4, <1>5
<1>7. RoundUp[x] = 2 * RoundUp[half]
  BY <1>1, <1>3 DEF half
<1>8. QED
  BY <1>4, <1>6, <1>7

-----------------------------------------------------------------------------
Content == Val \cup {NULL}

(* The fields of a kvec_t. *)
LEMMA FieldFacts ==
  ASSUME NEW v, IsVec(v)
  PROVE  /\ v.m \in Nat /\ v.n \in Nat /\ v.n <= v.m
         /\ v.a \in [0..(v.m - 1) -> Content]
         /\ v = [n |-> v.n, m |-> v.m, a |-> v.a]
BY DEF IsVec, Content

(* What EXCEPT does to a record of three fields. *)
LEMMA SetField ==
  ASSUME NEW v, v = [n |-> v.n, m |-> v.m, a |-> v.a], NEW x
  PROVE  /\ [v EXCEPT !.n = x] = [n |-> x, m |-> v.m, a |-> v.a]
         /\ [v EXCEPT !.m = x] = [n |-> v.n, m |-> x, a |-> v.a]
         /\ [v EXCEPT !.a = x] = [n |-> v.n, m |-> v.m, a |-> x]
OBVIOUS

(* A record of such fields is one. *)
LEMMA FieldsMake ==
  ASSUME NEW m \in Nat, NEW n \in 0..m, NEW a \in [0..(m - 1) -> Content]
  PROVE  IsVec([n |-> n, m |-> m, a |-> a])
BY DEF IsVec, Content

LEMMA ElementsFacts ==
  ASSUME NEW v, IsVec(v)
  PROVE  /\ Elements(v) \in Seq(Content)
         /\ Len(Elements(v)) = v.n
         /\ \A k \in 1..v.n : Elements(v)[k] = v.a[k - 1]
<1>1. v.n \in Nat /\ \A k \in 1..v.n : v.a[k - 1] \in Content
  BY FieldFacts
<1>2. Elements(v) \in [1..v.n -> Content]
  BY <1>1 DEF Elements
<1>3. Elements(v) \in Seq(Content)
  BY <1>1, <1>2, SeqDef
<1>4. DOMAIN Elements(v) = 1..v.n
  BY <1>2
<1>5. QED
  BY <1>1, <1>3, <1>4, LenProperties DEF Elements

(* Two arrays have the same elements if they have as many, and the same. *)
LEMMA SameElements ==
  ASSUME NEW v, IsVec(v), NEW w, IsVec(w), v.n = w.n,
         \A i \in 0..(v.n - 1) : v.a[i] = w.a[i]
  PROVE  Elements(v) = Elements(w)
<1>1. v.n \in Nat
  BY FieldFacts
<1>2. \A k \in 1..v.n : v.a[k - 1] = w.a[k - 1]
  BY <1>1
<1>3. QED
  BY <1>2 DEF Elements

LEMMA InitFacts == IsVec(KvInit) /\ Elements(KvInit) = <<>>
<1>1. IsVec(KvInit)
  <2>1. 0..(0 - 1) = {}
    OBVIOUS
  <2>2. [i \in {} |-> NULL] \in [0..(0 - 1) -> Content]
    BY <2>1
  <2>3. 0 \in Nat /\ 0 \in 0..0
    OBVIOUS
  <2>4. IsVec([n |-> 0, m |-> 0, a |-> [i \in {} |-> NULL]])
    BY <2>2, <2>3, FieldsMake
  <2>5. QED
    BY <2>4 DEF KvInit
<1>2. Elements(KvInit) \in Seq(Content) /\ Len(Elements(KvInit)) = 0
  BY <1>1, ElementsFacts DEF KvInit
<1>3. QED
  BY <1>1, <1>2, EmptySeq

(* kv_resize to no less than the size keeps the elements. *)
LEMMA ResizeFacts ==
  ASSUME NEW v, IsVec(v), NEW m \in Nat, v.n <= m
  PROVE  /\ IsVec(KvResize(v, m))
         /\ KvResize(v, m).n = v.n
         /\ KvResize(v, m).m = m
         /\ \A i \in 0..(v.n - 1) : KvResize(v, m).a[i] = v.a[i]
         /\ Elements(KvResize(v, m)) = Elements(v)
<1> DEFINE a == [i \in 0..(m - 1) |-> IF i < v.m THEN v.a[i] ELSE NULL]
           w == KvResize(v, m)
<1>1. w = [n |-> v.n, m |-> m, a |-> a]
  <2> DEFINE u == [v EXCEPT !.m = m]
  <2>1. u = [n |-> v.n, m |-> m, a |-> v.a]
    BY FieldFacts, SetField
  <2>2. u = [n |-> u.n, m |-> u.m, a |-> u.a] /\ u.n = v.n /\ u.m = m
    BY <2>1
  <2>3. w = [u EXCEPT !.a = a]
    BY DEF KvResize
  <2> HIDE DEF u, a
  <2>4. QED
    BY <2>2, <2>3, SetField
<1>2. a \in [0..(m - 1) -> Content]
  BY FieldFacts DEF Content
<1>3. \A i \in 0..(v.n - 1) : a[i] = v.a[i]
  BY FieldFacts
<1> HIDE DEF a, w
<1>4. IsVec(w)
  BY <1>1, <1>2, FieldFacts, FieldsMake
<1>5. w.n = v.n /\ w.m = m /\ w.a = a
  BY <1>1
<1>6. Elements(w) = Elements(v)
  BY <1>3, <1>4, <1>5, SameElements
<1>7. QED
  BY <1>3, <1>4, <1>5, <1>6 DEF w

(* After the test of kv_push there is room for one more. *)
LEMMA ReadyFacts ==
  ASSUME NEW v, IsVec(v)
  PROVE  /\ IsVec(KvReady(v))
         /\ KvReady(v).n = v.n
         /\ v.n < KvReady(v).m
         /\ Elements(KvReady(v)) = Elements(v)
<1>1. CASE v.n = v.m
  <2> DEFINE m == IF v.m = 0 THEN 2 ELSE 2 * v.m
  <2>1. m \in Nat /\ v.n < m /\ v.n <= m
    BY <1>1, FieldFacts
  <2>2. KvReady(v) = KvResize(v, m)
    BY <1>1 DEF KvReady
  <2> HIDE DEF m
  <2>3. QED
    BY <2>1, <2>2, ResizeFacts
<1>2. CASE v.n # v.m
  BY <1>2, FieldFacts DEF KvReady
<1>3. QED
  BY <1>1, <1>2

(* An element more: the entry that was behind the last one. *)
LEMMA LongerFacts ==
  ASSUME NEW v, IsVec(v), v.n < v.m
  PROVE  LET w == [v EXCEPT !.n = @ + 1]
         IN  /\ IsVec(w)
             /\ v.a[v.n] \in Content
             /\ Elements(w) = Append(Elements(v), v.a[v.n])
<1> DEFINE w == [v EXCEPT !.n = @ + 1]
<1>1. w = [n |-> v.n + 1, m |-> v.m, a |-> v.a]
  BY FieldFacts, SetField
<1>2. IsVec(w)
  BY <1>1, FieldFacts, FieldsMake
<1>3. v.n \in Nat /\ v.a[v.n] \in Content /\ w.n = v.n + 1 /\ w.a = v.a
  BY <1>1, FieldFacts
<1> HIDE DEF w
<1> DEFINE longer == Append(Elements(v), v.a[v.n])
<1>4. longer \in Seq(Content) /\ Len(longer) = v.n + 1
  BY <1>3, ElementsFacts, AppendProperties
<1>5. ASSUME NEW k \in 1..(v.n + 1)
      PROVE  Elements(w)[k] = longer[k]
  <2>1. Elements(w)[k] = v.a[k - 1]
    BY <1>2, <1>3, ElementsFacts
  <2>2. CASE k = v.n + 1
    BY <1>3, <2>1, <2>2, ElementsFacts, AppendProperties
  <2>3. CASE k # v.n + 1
    <3>1. k \in 1..v.n
      BY <1>3, <2>3
    <3>2. QED
      BY <1>3, <2>1, <3>1, ElementsFacts, AppendProperties
  <2>4. QED
    BY <2>2, <2>3
<1>6. Elements(w) \in Seq(Content) /\ Len(Elements(w)) = v.n + 1
  BY <1>2, <1>3, ElementsFacts
<1>7. Elements(w) = longer
  BY <1>4, <1>5, <1>6, SeqEqual
<1>8. QED
  BY <1>2, <1>3, <1>7 DEF w

(* An assignment to an entry of the storage. *)
Written(v, i, x) == [v EXCEPT !.a[i] = x]

LEMMA WriteFacts ==
  ASSUME NEW v, IsVec(v), NEW i \in 0..(v.m - 1), NEW x \in Content
  PROVE  /\ IsVec(Written(v, i, x))
         /\ Written(v, i, x).n = v.n
         /\ Written(v, i, x).m = v.m
         /\ Written(v, i, x).a = [v.a EXCEPT ![i] = x]
         /\ i < v.n => Elements(Written(v, i, x)) = [Elements(v) EXCEPT ![i + 1] = x]
         /\ v.n <= i => Elements(Written(v, i, x)) = Elements(v)
<1> DEFINE a == [v.a EXCEPT ![i] = x]
           w == [v EXCEPT !.a = a]
<1>1. w = [n |-> v.n, m |-> v.m, a |-> a]
  BY FieldFacts, SetField
<1>2. a \in [0..(v.m - 1) -> Content]
  BY FieldFacts
<1>3. IsVec(w)
  BY <1>1, <1>2, FieldFacts, FieldsMake
<1>4. w.n = v.n /\ w.m = v.m /\ w.a = a
  BY <1>1
<1> HIDE DEF w
<1>5. ASSUME i < v.n
      PROVE  Elements(w) = [Elements(v) EXCEPT ![i + 1] = x]
  <2>1. DOMAIN Elements(w) = 1..v.n /\ DOMAIN Elements(v) = 1..v.n
    BY <1>4 DEF Elements
  <2>2. ASSUME NEW k \in 1..v.n
        PROVE  Elements(w)[k] = [Elements(v) EXCEPT ![i + 1] = x][k]
    <3>1. k \in Int /\ k - 1 \in 0..(v.m - 1)
      BY FieldFacts
    <3>2. Elements(w)[k] = a[k - 1] /\ Elements(v)[k] = v.a[k - 1]
      BY <1>4 DEF Elements
    <3>3. a[k - 1] = IF k = i + 1 THEN x ELSE v.a[k - 1]
      BY <3>1, FieldFacts
    <3>4. QED
      BY <2>1, <3>2, <3>3
  <2>3. Elements(w) = [k \in 1..v.n |-> Elements(w)[k]]
    BY <1>4 DEF Elements
  <2>4. QED
    BY <2>1, <2>2, <2>3
<1>6. ASSUME v.n <= i
      PROVE  Elements(w) = Elements(v)
  BY <1>4, <1>6, FieldFacts DEF Elements
<1>7. QED
  BY <1>3, <1>4, <1>5, <1>6 DEF w, Written

(* kv_staticPush appends. *)
LEMMA StaticPushFacts ==
  ASSUME NEW v, IsVec(v), v.n < v.m, NEW x \in Content
  PROVE  /\ IsVec(KvStaticPush(v, x))
         /\ Elements(KvStaticPush(v, x)) = Append(Elements(v), x)
<1> DEFINE w == Written(v, v.n, x)
<1>1. v.n \in 0..(v.m - 1) /\ v.n <= v.n
  BY FieldFacts
<1> HIDE DEF w
<1>2. /\ IsVec(w) /\ w.n = v.n /\ w.m = v.m /\ w.a = [v.a EXCEPT ![v.n] = x]
      /\ Elements(w) = Elements(v)
  BY <1>1, WriteFacts DEF w
<1>3. w.a[w.n] = x
  BY <1>1, <1>2, FieldFacts
<1>4. KvStaticPush(v, x) = [w EXCEPT !.n = @ + 1]
  BY DEF KvStaticPush, Written, w
<1>5. QED
  BY <1>2, <1>3, <1>4, LongerFacts

(* kv_push appends, growing the storage before when it has to. *)
LEMMA PushFacts ==
  ASSUME NEW v, IsVec(v), NEW x \in Content
  PROVE  /\ IsVec(KvPush(v, x))
         /\ Elements(KvPush(v, x)) = Append(Elements(v), x)
<1> DEFINE ready == KvReady(v)
<1>1. /\ IsVec(ready) /\ ready.n < ready.m
      /\ Elements(ready) = Elements(v)
  BY ReadyFacts
<1> HIDE DEF ready
<1>2. QED
  BY <1>1, StaticPushFacts DEF KvPush, ready

(* kv_pop takes the last element off. *)
LEMMA PopFacts ==
  ASSUME NEW v, IsVec(v), v.n # 0
  PROVE  /\ IsVec(KvPop(v))
         /\ Elements(v) # <<>>
         /\ Elements(KvPop(v)) = SubSeq(Elements(v), 1, Len(Elements(v)) - 1)
<1> DEFINE w == KvPop(v)
<1>1. w = [n |-> v.n - 1, m |-> v.m, a |-> v.a]
  BY FieldFacts, SetField DEF KvPop
<1>2. v.n - 1 \in 0..v.m
  BY FieldFacts
<1>3. IsVec(w) /\ w.n = v.n - 1 /\ w.a = v.a
  BY <1>1, <1>2, FieldFacts, FieldsMake
<1> HIDE DEF w
<1> DEFINE s == Elements(v)
           shorter == SubSeq(s, 1, v.n - 1)
<1>4. s \in Seq(Content) /\ Len(s) = v.n /\ v.n \in Nat \ {0}
  BY FieldFacts, ElementsFacts
<1>5. \A k \in 1..v.n : s[k] \in Content
  BY <1>4, ElementOfSeq
<1>6. /\ shorter \in Seq(Content) /\ Len(shorter) = v.n - 1
      /\ \A k \in 1..(v.n - 1) : shorter[k] = s[k]
  BY <1>4, <1>5, SubSeqProperties
<1>7. Elements(w) \in Seq(Content) /\ Len(Elements(w)) = v.n - 1
  BY <1>3, ElementsFacts
<1> HIDE DEF shorter
<1>8. ASSUME NEW k \in 1..(v.n - 1)
      PROVE  Elements(w)[k] = shorter[k]
  <2>1. k \in 1..w.n /\ k \in 1..v.n
    BY <1>3, <1>4
  <2>2. Elements(w)[k] = v.a[k - 1]
    BY <1>3, <2>1, ElementsFacts
  <2>3. s[k] = v.a[k - 1]
    BY <2>1, ElementsFacts
  <2>4. QED
    BY <1>6, <2>2, <2>3
<1>9. Elements(w) = shorter
  BY <1>6, <1>7, <1>8, SeqEqual
<1>10. s # <<>>
  BY <1>4, EmptySeq
<1>11. QED
  BY <1>3, <1>4, <1>9, <1>10 DEF w, shorter

(* kv_a reaches its index and keeps the elements there were. *)
LEMMA ReachFacts ==
  ASSUME NEW v, IsVec(v), NEW i \in Nat
  PROVE  /\ IsVec(KvReach(v, i))
         /\ KvReach(v, i).n = IF v.n <= i THEN i + 1 ELSE v.n
         /\ \A k \in 0..(v.n - 1) : KvReach(v, i).a[k] = v.a[k]
         /\ i < v.n => KvReach(v, i) = v
<1> DEFINE r == KvReach(v, i)
<1>1. CASE v.m <= i
  <2> DEFINE m == RoundUp[i + 1]
             w == KvResize(v, m)
  <2>1. m \in Nat /\ i + 1 <= m /\ i + 1 \in 0..m
    BY RoundUpFacts
  <2> HIDE DEF m
  <2>2. v.n <= m /\ v.n <= i
    BY <1>1, <2>1, FieldFacts
  <2>3. /\ IsVec(w) /\ w.m = m
        /\ \A k \in 0..(v.n - 1) : w.a[k] = v.a[k]
    BY <2>1, <2>2, ResizeFacts
  <2> HIDE DEF w
  <2>4. r = [w EXCEPT !.n = i + 1]
    BY <1>1 DEF KvReach, Outside, w, m
  <2>5. r = [n |-> i + 1, m |-> w.m, a |-> w.a]
    BY <2>3, <2>4, FieldFacts, SetField
  <2>6. IsVec(r)
    BY <2>1, <2>3, <2>5, FieldFacts, FieldsMake
  <2>7. QED
    BY <2>2, <2>3, <2>5, <2>6, FieldFacts
<1>2. CASE v.n <= i /\ i < v.m
  <2>1. r = [v EXCEPT !.n = i + 1]
    BY <1>2, FieldFacts DEF KvReach, Outside
  <2>2. r = [n |-> i + 1, m |-> v.m, a |-> v.a]
    BY <2>1, FieldFacts, SetField
  <2>3. IsVec(r)
    BY <1>2, <2>2, FieldFacts, FieldsMake
  <2>4. QED
    BY <1>2, <2>2, <2>3, FieldFacts
<1>3. CASE i < v.n
  <2>1. r = v
    BY <1>3, FieldFacts DEF KvReach, Outside
  <2>2. QED
    BY <1>3, <2>1, FieldFacts
<1>4. QED
  BY <1>1, <1>2, <1>3, FieldFacts

(* kv_copy leaves the destination with the source's elements. *)
LEMMA CopyFacts ==
  ASSUME NEW v1, IsVec(v1), NEW v0, IsVec(v0)
  PROVE  /\ IsVec(KvCopy(v1, v0))
         /\ Elements(KvCopy(v1, v0)) = Elements(v0)
<1> DEFINE c == IF v1.m < v0.n THEN KvResize(v1, v0.n) ELSE v1
           a == [i \in DOMAIN c.a |-> IF i < v0.n THEN v0.a[i] ELSE c.a[i]]
           w == KvCopy(v1, v0)
<1>1. IsVec(c) /\ v0.n <= c.m
  <2>1. CASE v1.m < v0.n
    <3>1. v0.n \in Nat /\ v1.n <= v0.n
      BY <2>1, FieldFacts
    <3>2. QED
      BY <2>1, <3>1, ResizeFacts
  <2>2. CASE ~(v1.m < v0.n)
    BY <2>2, FieldFacts
  <2>3. QED
    BY <2>1, <2>2
<1>2. w = [c EXCEPT !.n = v0.n, !.a = a]
  BY DEF KvCopy
<1> HIDE DEF c, w
<1>3. w = [n |-> v0.n, m |-> c.m, a |-> a]
  <2> DEFINE u == [c EXCEPT !.n = v0.n]
  <2> HIDE DEF a
  <2>1. u = [n |-> v0.n, m |-> c.m, a |-> c.a]
    <3>1. c = [n |-> c.n, m |-> c.m, a |-> c.a]
      BY <1>1, FieldFacts
    <3>2. QED
      BY <3>1, SetField
  <2>2. u = [n |-> u.n, m |-> u.m, a |-> u.a] /\ u.n = v0.n /\ u.m = c.m
    BY <2>1
  <2>3. w = [u EXCEPT !.a = a]
    BY <1>2
  <2> HIDE DEF u
  <2>4. QED
    BY <2>2, <2>3, SetField
<1>4. a \in [0..(c.m - 1) -> Content]
  <2>1. c.a \in [0..(c.m - 1) -> Content] /\ c.m \in Nat
    BY <1>1, FieldFacts
  <2>2. \A i \in 0..(c.m - 1) : i < v0.n => v0.a[i] \in Content
    BY <2>1, FieldFacts
  <2>3. QED
    BY <2>1, <2>2
<1>5. \A i \in 0..(v0.n - 1) : a[i] = v0.a[i]
  BY <1>1, FieldFacts
<1> HIDE DEF a
<1>6. IsVec(w)
  BY <1>1, <1>3, <1>4, FieldFacts, FieldsMake
<1>7. w.n = v0.n /\ w.a = a
  BY <1>3
<1>8. Elements(w) = Elements(v0)
  BY <1>5, <1>6, <1>7, SameElements
<1>9. QED
  BY <1>6, <1>8 DEF w
-----------------------------------------------------------------------------
(* The new value of one array, in the code and in the abstraction. *)
LEMMA UpdateStep ==
  ASSUME TypeOK, NEW v \in Name, NEW r, IsVec(r), Becomes(v, r)
  PROVE  /\ TypeOK'
         /\ array' = [array EXCEPT ![v] = Elements(r)]
         /\ array[v] = Elements(vec[v])
<1>1. vec' = [vec EXCEPT ![v] = r] /\ vec = [w \in Name |-> vec[w]]
  BY DEF Becomes, TypeOK
<1>2. vec' = [w \in Name |-> IF w = v THEN r ELSE vec[w]]
  BY <1>1
<1>3. \A w \in Name : vec'[w] = IF w = v THEN r ELSE vec[w]
  BY <1>2
<1>4. vec' = [w \in Name |-> vec'[w]]
  BY <1>2
<1>5. \A w \in Name : IsVec(vec'[w])
  BY <1>3 DEF TypeOK
<1>6. array' = [w \in Name |-> Elements(vec'[w])]
  BY DEF array
<1>7. array = [w \in Name |-> Elements(vec[w])]
  BY DEF array
<1>8. [array EXCEPT ![v] = Elements(r)]
        = [w \in Name |-> IF w = v THEN Elements(r) ELSE Elements(vec[w])]
  BY <1>7
<1>9. array' = [array EXCEPT ![v] = Elements(r)]
  BY <1>3, <1>6, <1>8
<1>10. QED
  BY <1>4, <1>5, <1>7, <1>9 DEF TypeOK

(* kv_push and kv_staticPush append a value. *)
LEMMA PushStep ==
  ASSUME TypeOK, NEW v \in Name, NEW x \in Val, Push(v, x) \/ StaticPush(v, x)
  PROVE  TypeOK' /\ Arrays!AppendOne(v)
<1>1. IsVec(vec[v]) /\ x \in Content
  BY DEF TypeOK, Content
<1>2. CASE Push(v, x)
  <2> DEFINE r == KvPush(vec[v], x)
  <2>1. IsVec(r) /\ Elements(r) = Append(Elements(vec[v]), x)
    BY <1>1, PushFacts
  <2>2. Becomes(v, r)
    BY <1>2 DEF Push
  <2> HIDE DEF r
  <2>3. /\ TypeOK' /\ array' = [array EXCEPT ![v] = Elements(r)]
        /\ array[v] = Elements(vec[v])
    BY <2>1, <2>2, UpdateStep
  <2>4. QED
    BY <1>1, <2>1, <2>3 DEF Arrays!AppendOne, Arrays!Becomes, Content
<1>3. CASE StaticPush(v, x)
  <2> DEFINE r == KvStaticPush(vec[v], x)
  <2>1. vec[v].n < vec[v].m
    BY <1>1, <1>3, FieldFacts DEF StaticPush, KvFull
  <2>2. IsVec(r) /\ Elements(r) = Append(Elements(vec[v]), x)
    BY <1>1, <2>1, StaticPushFacts
  <2>3. Becomes(v, r)
    BY <1>3 DEF StaticPush
  <2> HIDE DEF r
  <2>4. /\ TypeOK' /\ array' = [array EXCEPT ![v] = Elements(r)]
        /\ array[v] = Elements(vec[v])
    BY <2>2, <2>3, UpdateStep
  <2>5. QED
    BY <1>1, <2>2, <2>4 DEF Arrays!AppendOne, Arrays!Becomes, Content
<1>4. QED
  BY <1>2, <1>3

(* kv_pushp appends whatever was behind the last element. *)
LEMMA PushpStep ==
  ASSUME TypeOK, NEW v \in Name, Pushp(v)
  PROVE  TypeOK' /\ Arrays!AppendOne(v)
<1> DEFINE ready == KvReady(vec[v])
           r == [ready EXCEPT !.n = @ + 1]
           x == ready.a[ready.n]
<1>1. IsVec(vec[v])
  BY DEF TypeOK
<1>2. IsVec(ready) /\ ready.n < ready.m /\ Elements(ready) = Elements(vec[v])
  BY <1>1, ReadyFacts
<1>3. Becomes(v, r)
  BY DEF Pushp
<1> HIDE DEF ready
<1>4. IsVec(r) /\ x \in Content /\ Elements(r) = Append(Elements(vec[v]), x)
  BY <1>2, LongerFacts
<1> HIDE DEF r, x
<1>5. /\ TypeOK' /\ array' = [array EXCEPT ![v] = Elements(r)]
      /\ array[v] = Elements(vec[v])
  BY <1>3, <1>4, UpdateStep
<1>6. QED
  BY <1>4, <1>5 DEF Arrays!AppendOne, Arrays!Becomes, Content

(* kv_pop removes the last element. *)
LEMMA PopStep ==
  ASSUME TypeOK, NEW v \in Name, Pop(v)
  PROVE  TypeOK' /\ Arrays!RemoveLast(v)
<1> DEFINE r == KvPop(vec[v])
<1>1. IsVec(vec[v]) /\ vec[v].n # 0 /\ Becomes(v, r)
  BY DEF TypeOK, Pop, KvEmpty
<1>2. /\ IsVec(r) /\ Elements(vec[v]) # <<>>
      /\ Elements(r) = SubSeq(Elements(vec[v]), 1, Len(Elements(vec[v])) - 1)
  BY <1>1, PopFacts
<1> HIDE DEF r
<1>3. /\ TypeOK' /\ array' = [array EXCEPT ![v] = Elements(r)]
      /\ array[v] = Elements(vec[v])
  BY <1>1, <1>2, UpdateStep
<1>4. QED
  BY <1>2, <1>3 DEF Arrays!RemoveLast, Arrays!Becomes

(* kv_resize to no less than the size leaves every array as it is. *)
LEMMA ReserveStep ==
  ASSUME TypeOK, NEW v \in Name, NEW m \in Nat, Reserve(v, m)
  PROVE  TypeOK' /\ UNCHANGED array
<1> DEFINE r == KvResize(vec[v], m)
<1>1. IsVec(vec[v])
  BY DEF TypeOK
<1>2. vec[v].n <= m /\ Becomes(v, r)
  BY <1>1, FieldFacts DEF Reserve
<1>3. IsVec(r) /\ Elements(r) = Elements(vec[v])
  BY <1>1, <1>2, ResizeFacts
<1> HIDE DEF r
<1>4. /\ TypeOK' /\ array' = [array EXCEPT ![v] = Elements(r)]
      /\ array[v] = Elements(vec[v])
  BY <1>2, <1>3, UpdateStep
<1>5. array = [w \in Name |-> array[w]]
  BY DEF array
<1>6. QED
  BY <1>3, <1>4, <1>5

(* kv_copy makes one array what another is. *)
LEMMA CopyStep ==
  ASSUME TypeOK, NEW v \in Name, NEW w \in Name, Copy(v, w)
  PROVE  TypeOK' /\ Arrays!Copy(v, w)
<1> DEFINE r == KvCopy(vec[v], vec[w])
<1>1. IsVec(vec[v]) /\ IsVec(vec[w]) /\ Becomes(v, r)
  BY DEF TypeOK, Copy
<1>2. IsVec(r) /\ Elements(r) = Elements(vec[w])
  BY <1>1, CopyFacts
<1> HIDE DEF r
<1>3. TypeOK' /\ array' = [array EXCEPT ![v] = Elements(r)]
  BY <1>1, <1>2, UpdateStep
<1>4. array[w] = Elements(vec[w])
  BY DEF array
<1>5. QED
  BY <1>2, <1>3, <1>4 DEF Arrays!Copy, Arrays!Becomes

(* kv_destroy and kv_init leave an empty array. *)
LEMMA DestroyStep ==
  ASSUME TypeOK, NEW v \in Name, DestroyInit(v)
  PROVE  TypeOK' /\ Arrays!Destroy(v)
<1>1. TypeOK' /\ array' = [array EXCEPT ![v] = Elements(KvInit)]
  BY InitFacts, UpdateStep DEF DestroyInit
<1>2. QED
  BY <1>1, InitFacts DEF Arrays!Destroy, Arrays!Becomes

(* An assignment through kv_a, to an element or past the last one. *)
LEMMA AssignFacts ==
  ASSUME NEW v, IsVec(v), NEW i \in Nat, NEW x \in Val
  PROVE  LET r == Written(KvReach(v, i), i, x)
         IN  /\ IsVec(r)
             /\ i < v.n => Elements(r) = [Elements(v) EXCEPT ![i + 1] = x]
             /\ v.n <= i => /\ Len(Elements(r)) = i + 1
                            /\ SubSeq(Elements(r), 1, v.n) = Elements(v)
                            /\ Elements(r)[i + 1] = x
<1> DEFINE w == KvReach(v, i)
           r == Written(w, i, x)
<1>1. /\ IsVec(w)
      /\ w.n = IF v.n <= i THEN i + 1 ELSE v.n
      /\ \A k \in 0..(v.n - 1) : w.a[k] = v.a[k]
      /\ i < v.n => w = v
  BY ReachFacts
<1> HIDE DEF w
<1>2. i \in 0..(w.m - 1) /\ i < w.n /\ x \in Content
  BY <1>1, FieldFacts DEF Content
<1>3. /\ IsVec(r) /\ r.n = w.n
      /\ r.a = [w.a EXCEPT ![i] = x]
      /\ Elements(r) = [Elements(w) EXCEPT ![i + 1] = x]
  BY <1>1, <1>2, WriteFacts
<1> HIDE DEF r
<1>4. ASSUME v.n <= i
      PROVE  /\ Len(Elements(r)) = i + 1
             /\ SubSeq(Elements(r), 1, v.n) = Elements(v)
             /\ Elements(r)[i + 1] = x
  <2> DEFINE s == Elements(r)
             start == SubSeq(s, 1, v.n)
  <2>1. r.n = i + 1 /\ v.n \in Nat
    BY <1>1, <1>3, <1>4, FieldFacts
  <2>2. s \in Seq(Content) /\ Len(s) = i + 1
    BY <1>3, <2>1, ElementsFacts
  <2>3. ASSUME NEW k \in 1..(i + 1)
        PROVE  s[k] = r.a[k - 1]
    <3>1. k \in 1..r.n
      BY <2>1
    <3>2. IsVec(r)
      BY <1>3
    <3>3. QED
      BY <3>1, <3>2, ElementsFacts
  <2>4. \A k \in 1..v.n : s[k] \in Content
    BY <1>4, <2>1, <2>2, ElementOfSeq
  <2>5. ASSUME NEW k \in 1..v.n
        PROVE  s[k] = Elements(v)[k]
    <3> w.m \in Nat
      BY <1>1, FieldFacts
    <3>1. /\ k \in 1..(i + 1) /\ k - 1 # i
          /\ k - 1 \in 0..(v.n - 1) /\ k - 1 \in 0..(w.m - 1)
      BY <1>2, <1>4, <2>1
    <3>2. r.a[k - 1] = w.a[k - 1]
      BY <1>1, <1>3, <3>1, FieldFacts
    <3>3. Elements(v)[k] = v.a[k - 1]
      BY ElementsFacts
    <3>4. QED
      BY <1>1, <2>3, <3>1, <3>2, <3>3
  <2>6. s[i + 1] = x
    <3>1. r.a[i] = x
      BY <1>1, <1>2, <1>3, FieldFacts
    <3>2. QED
      BY <2>3, <3>1
  <2> HIDE DEF s
  <2>7. /\ start \in Seq(Content) /\ Len(start) = v.n
        /\ \A k \in 1..v.n : start[k] = s[k]
    BY <2>1, <2>4, SubSeqProperties
  <2> HIDE DEF start
  <2>8. start = Elements(v)
    BY <2>1, <2>5, <2>7, ElementsFacts, SeqEqual
  <2>9. QED
    BY <2>2, <2>6, <2>8 DEF s, start
<1>5. QED
  BY <1>1, <1>3, <1>4 DEF r, w

LEMMA AssignStep ==
  ASSUME TypeOK, NEW v \in Name, NEW i \in Nat, NEW x \in Val, AssignAt(v, i, x)
  PROVE  TypeOK' /\ (Arrays!AssignInside(v) \/ Arrays!AssignPastEnd(v))
<1> DEFINE old == vec[v]
           r == Written(KvReach(old, i), i, x)
<1>1. IsVec(old) /\ Becomes(v, r)
  BY DEF TypeOK, AssignAt, Written
<1> HIDE DEF old
<1>2. /\ IsVec(r)
      /\ i < old.n => Elements(r) = [Elements(old) EXCEPT ![i + 1] = x]
      /\ old.n <= i => /\ Len(Elements(r)) = i + 1
                       /\ SubSeq(Elements(r), 1, old.n) = Elements(old)
                       /\ Elements(r)[i + 1] = x
  BY <1>1, AssignFacts
<1> HIDE DEF r
<1>3. /\ TypeOK' /\ array' = [array EXCEPT ![v] = Elements(r)]
      /\ array[v] = Elements(old)
  BY <1>1, <1>2, UpdateStep DEF old
<1>4. old.n \in Nat /\ Len(Elements(old)) = old.n /\ DOMAIN Elements(old) = 1..old.n
  BY <1>1, FieldFacts, ElementsFacts DEF Elements
<1>5. CASE i < old.n
  <2>1. i + 1 \in DOMAIN array[v]
    BY <1>3, <1>4, <1>5
  <2>2. array' = [array EXCEPT ![v] = [array[v] EXCEPT ![i + 1] = x]]
    BY <1>2, <1>3, <1>5
  <2>3. QED
    BY <1>3, <2>1, <2>2 DEF Arrays!AssignInside, Arrays!Becomes
<1>6. CASE old.n <= i
  <2>1. v \in DOMAIN array
    BY DEF array
  <2>2. array'[v] = Elements(r)
    BY <1>3, <2>1
  <2>3. Len(array[v]) < Len(array'[v])
    BY <1>2, <1>3, <1>4, <1>6, <2>2
  <2>4. SubSeq(array'[v], 1, Len(array[v])) = array[v]
    BY <1>2, <1>3, <1>4, <1>6, <2>2
  <2>5. array'[v][Len(array'[v])] \in Val
    BY <1>2, <1>6, <2>2
  <2>6. QED
    BY <1>3, <2>2, <2>3, <2>4, <2>5 DEF Arrays!AssignPastEnd, Arrays!Becomes
<1>7. QED
  BY <1>4, <1>5, <1>6, <1>3

(* Arrays start empty. *)
LEMMA InitStep ==
  ASSUME Init
  PROVE  TypeOK /\ Arrays!Init
<1>1. \A v \in Name : vec[v] = KvInit
  BY DEF Init
<1>2. vec = [v \in Name |-> vec[v]]
  BY DEF Init
<1>3. TypeOK
  BY <1>1, <1>2, InitFacts DEF TypeOK
<1>4. Arrays!Init
  BY <1>1, InitFacts DEF Arrays!Init, array
<1>5. QED
  BY <1>3, <1>4

(* Every step keeps the type invariant and is a step of Vector or none. *)
LEMMA NextStep ==
  ASSUME TypeOK, [Next]_vec
  PROVE  TypeOK' /\ [Arrays!Next]_array
<1>1. ASSUME NEW v \in Name, NEW x \in Val, Push(v, x) \/ StaticPush(v, x)
      PROVE  TypeOK' /\ [Arrays!Next]_array
  BY <1>1, PushStep DEF Arrays!Next
<1>2. ASSUME NEW v \in Name, Pushp(v)
      PROVE  TypeOK' /\ [Arrays!Next]_array
  BY <1>2, PushpStep DEF Arrays!Next
<1>3. ASSUME NEW v \in Name, Pop(v)
      PROVE  TypeOK' /\ [Arrays!Next]_array
  BY <1>3, PopStep DEF Arrays!Next
<1>4. ASSUME NEW v \in Name, NEW i \in Index, NEW x \in Val, AssignAt(v, i, x)
      PROVE  TypeOK' /\ [Arrays!Next]_array
  <2>1. i \in Nat
    BY KvecAssumption
  <2>2. QED
    BY <1>4, <2>1, AssignStep DEF Arrays!Next
<1>5. ASSUME NEW v \in Name, NEW m \in Reserved, Reserve(v, m)
      PROVE  TypeOK' /\ [Arrays!Next]_array
  <2>1. m \in Nat
    BY KvecAssumption
  <2>2. QED
    BY <1>5, <2>1, ReserveStep
<1>6. ASSUME NEW v \in Name, NEW w \in Name, Copy(v, w)
      PROVE  TypeOK' /\ [Arrays!Next]_array
  BY <1>6, CopyStep DEF Arrays!Next
<1>7. ASSUME NEW v \in Name, DestroyInit(v)
      PROVE  TypeOK' /\ [Arrays!Next]_array
  BY <1>7, DestroyStep DEF Arrays!Next
<1>8. CASE UNCHANGED vec
  BY <1>8 DEF TypeOK, array
<1>9. CASE Next
  BY <1>1, <1>2, <1>3, <1>4, <1>5, <1>6, <1>7, <1>9 DEF Next
<1>10. QED
  BY <1>8, <1>9

(***************************************************************************)
(* No array of kvec.h ever has more elements than storage, for all values, *)
(* capacities and indices, whatever calls were made before.                *)
(***************************************************************************)
THEOREM TypeCorrect == Spec => []TypeOK
<1>1. Init => TypeOK
  BY InitStep
<1>2. TypeOK /\ [Next]_vec => TypeOK'
  BY NextStep
<1>3. QED
  BY <1>1, <1>2, PTL DEF Spec

(***************************************************************************)
(* The arrays of kvec.h implement Vector: growing, reserving and assigning *)
(* past the end keep every element in its place, and no macro disturbs an  *)
(* array that is not its own.                                              *)
(***************************************************************************)
THEOREM ImplementsVector == Spec => VectorSpec
<1>1. Init => Arrays!Init
  BY InitStep
<1>2. TypeOK /\ [Next]_vec => [Arrays!Next]_array
  BY NextStep
<1>3. Spec => []TypeOK
  BY TypeCorrect
<1>4. QED
  BY <1>1, <1>2, <1>3, PTL DEF Spec, VectorSpec, Arrays!Spec
=============================================================================
