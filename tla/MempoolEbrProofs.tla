-------------------------- MODULE MempoolEbrProofs --------------------------
(***************************************************************************)
(* Proofs about MempoolEbr, for every width of int, size_t, ids and blocks *)
(* and any settings and clusters: the pool is one of Clusters, ids and     *)
(* locations are handed out one to one, elements lie within their cluster. *)
(***************************************************************************)
EXTENDS MempoolEbr, ClustersProofs

-----------------------------------------------------------------------------
(* What is proved of the pyramid and of the bit tricks holds of them here. *)
P == INSTANCE IdxpyrProofs WITH
  MakeSizes <- {}, MaxLog2 <- BlockLog2 + 1, Touched <- {},
  pyr <- freeIds, live <- live

B == INSTANCE BitOpsProofs WITH WordBuckets <- 1, HashBits <- 1, word <- 0

LEMMA PyramidAssumption ==
  /\ IntBits \in Nat \ {0, 1} /\ SizeBits \in Nat /\ IntBits <= SizeBits
  /\ BlockLog2 \in Nat \ {0} /\ BlockLog2 < SizeBits
  /\ BlockLog2 + 1 \in BlockLog2..P!IDXPYR_MAX_INDEX_COUNT_LOG2
  /\ {} \subseteq 0..(BlockLog2 + 1)
  /\ {} \subseteq Nat
<1>1. /\ IntBits \in Nat \ {0, 1} /\ SizeBits \in Nat /\ IntBits <= SizeBits
      /\ BlockLog2 \in Nat \ {0} /\ BlockLog2 + 1 < SizeBits
  BY WidthAssumption, MempoolAssumption
<1>2. QED
  BY <1>1 DEF P!IDXPYR_MAX_INDEX_COUNT_LOG2

LEMMA SamePowers ==
  Ids!Shl1 = Shl1 /\ P!Shl1 = Shl1 /\ B!Shl1 = Shl1
BY DEF Ids!Shl1, P!Shl1, B!Shl1, Shl1

LEMMA SameBits ==
  /\ \A x, y, w : And(x, y, w) = B!And(x, y, w)
  /\ B!WordBits = WordBits
  /\ \A x : Log2Envelope(x) = B!Log2Envelope(x)
<1>1. \A x, y, w : And(x, y, w) = B!And(x, y, w)
  BY DEF And, B!And, Combine, B!Combine, Both, B!Both
<1>2. B!WordBits = WordBits
  BY SamePowers DEF B!WordBits, WordBits
<1>3. \A x : LeastBit(x) = B!LeastBit(x)
  BY <1>1, <1>2, SamePowers DEF LeastBit, B!LeastBit, NotDecrement, B!NotDecrement
<1>4. \A x : MultipleBits(x) = B!MultipleBits(x)
  BY <1>3 DEF MultipleBits, B!MultipleBits
<1>5. \A x : FindLastSet(x) = B!FindLastSet(x)
  BY DEF FindLastSet, B!FindLastSet, UpperHalf, B!UpperHalf, UpperPart, B!UpperPart,
         Halves, B!Halves, WordBits, B!WordBits, And, B!And, Combine, B!Combine,
         Both, B!Both, Shl1, B!Shl1
<1>6. QED
  BY <1>1, <1>2, <1>4, <1>5 DEF Log2Envelope, B!Log2Envelope

LEMMA SamePyramids ==
  /\ Ids!BlockBits = P!BlockBits /\ Ids!BlockBits = Shl1[BlockLog2]
  /\ Ids!IDXPYR_EMPTY = P!IDXPYR_EMPTY /\ Ids!IDXPYR_EMPTY = Shl1[SizeBits] - 1
  /\ \A p : Ids!GetFirst(p) = P!GetFirst(p)
  /\ \A p, x, state : Ids!Set(p, x, state) = P!Set(p, x, state)
  /\ \A p, state : Ids!SetAll(p, state) = P!SetAll(p, state)
  /\ \A k, state : Ids!Make(k, state) = P!Make(k, state)
  /\ \A p : Ids!PopFirst(p) = P!PopFirst(p)
  /\ \A p : Ids!IncreaseSize(p) = P!IncreaseSize(p)
<1>1. /\ Ids!BlockBits = P!BlockBits /\ Ids!BlockBits = Shl1[BlockLog2]
      /\ Ids!IDXPYR_EMPTY = P!IDXPYR_EMPTY /\ Ids!IDXPYR_EMPTY = Shl1[SizeBits] - 1
      /\ Ids!AllBits = P!AllBits
  BY SamePowers DEF Ids!BlockBits, P!BlockBits, Ids!IDXPYR_EMPTY, P!IDXPYR_EMPTY,
                    Ids!AllBits, P!AllBits
<1>2. /\ \A i, x : Ids!BlockIndex(i, x) = P!BlockIndex(i, x)
      /\ \A i, x : Ids!Bit(i, x) = P!Bit(i, x)
      /\ \A n, i : Ids!RowLength(n, i) = P!RowLength(n, i)
      /\ \A n : Ids!TopBitCount(n) = P!TopBitCount(n)
      /\ \A p : Ids!Top(p) = P!Top(p)
      /\ \A n : Ids!GetHeight(n) = P!GetHeight(n)
      /\ \A block : Ids!CountTrailingZeros(block) = P!CountTrailingZeros(block)
  BY <1>1, SamePowers
     DEF Ids!BlockIndex, P!BlockIndex, Ids!Bit, P!Bit, Ids!RowLength, P!RowLength,
         Ids!TopBitCount, P!TopBitCount, Ids!Top, P!Top, Ids!GetHeight, P!GetHeight,
         Ids!CeilDiv, P!CeilDiv, Ids!CountTrailingZeros, P!CountTrailingZeros
<1>3. \A n, i : Ids!RowOffset(n, i) = P!RowOffset(n, i)
  BY <1>2 DEF Ids!RowOffset, P!RowOffset
<1>4. \A p : Ids!GetFirst(p) = P!GetFirst(p)
  BY DEF Ids!GetFirst, P!GetFirst, Ids!IDXPYR_EMPTY, P!IDXPYR_EMPTY, Ids!Top, P!Top,
         Ids!CountTrailingZeros, P!CountTrailingZeros,
         Ids!BlockBits, P!BlockBits, Ids!Shl1, P!Shl1
<1>5. \A p, x, state : Ids!Set(p, x, state) = P!Set(p, x, state)
  BY DEF Ids!Set, P!Set, Ids!BlockIndex, P!BlockIndex, Ids!Bit, P!Bit,
         Ids!BlockBits, P!BlockBits, Ids!Shl1, P!Shl1
<1>6. \A p, state : Ids!SetAll(p, state) = P!SetAll(p, state)
  BY DEF Ids!SetAll, P!SetAll, Ids!TopBitCount, P!TopBitCount, Ids!AllBits, P!AllBits,
         Ids!BlockBits, P!BlockBits, Ids!Shl1, P!Shl1
<1>7. \A k, state : Ids!Make(k, state) = P!Make(k, state)
  BY <1>2, <1>3, <1>6, SamePowers DEF Ids!Make, P!Make
<1>8. \A p : Ids!PopFirst(p) = P!PopFirst(p)
  BY <1>1, <1>4, <1>5 DEF Ids!PopFirst, P!PopFirst
<1>9. \A p : Ids!IncreaseSize(p) = P!IncreaseSize(p)
  <2> DEFINE grown(p, bigger) ==
             [bigger EXCEPT !.rows = [i \in DOMAIN @ |-> [j \in DOMAIN @[i] |->
               IF i = bigger.height - 1
                 THEN (@[i][j] \ (0..(Ids!TopBitCount(p.indexCountLog2) - 1)))
                        \cup (IF 0..(Ids!TopBitCount(p.indexCountLog2) - 1) # {0}
                                THEN Ids!Top(p)
                                ELSE IF Ids!Top(p) = {} THEN {} ELSE {0})
               ELSE IF j < Ids!RowLength(p.indexCountLog2, i) THEN p.rows[i][j]
               ELSE @[i][j]]]]
             grownP(p, bigger) ==
             [bigger EXCEPT !.rows = [i \in DOMAIN @ |-> [j \in DOMAIN @[i] |->
               IF i = bigger.height - 1
                 THEN (@[i][j] \ (0..(P!TopBitCount(p.indexCountLog2) - 1)))
                        \cup (IF 0..(P!TopBitCount(p.indexCountLog2) - 1) # {0}
                                THEN P!Top(p)
                                ELSE IF P!Top(p) = {} THEN {} ELSE {0})
               ELSE IF j < P!RowLength(p.indexCountLog2, i) THEN p.rows[i][j]
               ELSE @[i][j]]]]
  <2>1. \A p, bigger : grown(p, bigger) = grownP(p, bigger)
    BY DEF Ids!RowLength, P!RowLength, Ids!TopBitCount, P!TopBitCount, Ids!Top, P!Top,
           Ids!Shl1, P!Shl1
  <2>2. \A p : Ids!IncreaseSize(p) = grown(p, Ids!BiggerPyr(p))
    BY DEF Ids!IncreaseSize
  <2>3. \A p : P!IncreaseSize(p) = grownP(p, P!BiggerPyr(p))
    BY DEF P!IncreaseSize
  <2>4. \A p : Ids!BiggerPyr(p) = P!BiggerPyr(p)
    BY <1>7 DEF Ids!BiggerPyr, P!BiggerPyr
  <2> HIDE DEF grown, grownP
  <2>5. QED
    BY <2>1, <2>2, <2>3, <2>4
<1>10. QED
  BY <1>1, <1>4, <1>5, <1>6, <1>7, <1>8, <1>9

-----------------------------------------------------------------------------
(* The bit tricks: an element's offset, and the size mp_init gives a cluster. *)
LEMMA OffsetBelow ==
  ASSUME NEW w \in Nat, NEW x \in Nat, NEW m \in Nat
  PROVE  And(x, m, w) \in Nat /\ And(x, m, w) <= m
<1>1. 1 \in Nat \ {0} /\ WordLog2 \in Nat \ {0}
  BY WordAssumption
<1>2. B!And(x, m, w) <= m
  BY <1>1, B!AndAtMost
<1>3. B!And(x, m, w) \in Nat
  <2>1. B!Both \in B!Tables
    BY <1>1, B!TableFacts
  <2>2. B!Combine(B!Both, x, m, w) \in 0..(B!Shl1[w] - 1)
    BY <1>1, <2>1, B!CombineBounded
  <2>3. QED
    BY <2>2 DEF B!And
<1>4. QED
  BY <1>2, <1>3, SameBits

LEMMA EnvelopeOf ==
  ASSUME NEW x \in Nat, x < Shl1[WordBits]
  PROVE  /\ Log2Envelope(x) \in Nat /\ x <= Shl1[Log2Envelope(x)]
         /\ Log2Envelope(x) # 0 => Shl1[Log2Envelope(x) - 1] < x
<1>1. x < B!Shl1[B!WordBits] /\ WordLog2 \in Nat \ {0}
  BY SameBits, SamePowers, WordAssumption
<1>2. QED
  BY <1>1, SameBits, SamePowers, B!EnvelopeFacts

-----------------------------------------------------------------------------
(* A step of the pool is one of Clusters, or leaves the clusters alone.    *)
LEMMA SizeIsPower ==
  ASSUME NEW s \in Settings, SettingsError(s) = "0"
  PROVE  /\ EnvelopedElementsPerCluster(s) \in ElementsPerCluster
         /\ s.freeClusterCountMax \in 0..MaxFreeClusters
         /\ s.elementSize \in Nat
<1> DEFINE n == s.elementsPerCluster
           k == Log2Envelope(n)
<1>1. /\ n \in Nat /\ n <= Shl1[IntBits - 2] /\ s.elementSize \in Nat
      /\ s.freeClusterCountMax \in 0..MaxFreeClusters
  BY PoolSettingsAssumption
<1>2. /\ IntBits - 2 \in Nat /\ IntBits - 2 < SizeBits
      /\ SizeBits \in Nat /\ SizeBits = WordBits
  BY WidthAssumption, MempoolAssumption
<1>3. n < Shl1[WordBits]
  <2>1. /\ 2 * Shl1[IntBits - 2] <= Shl1[SizeBits]
        /\ Shl1[IntBits - 2] \in Nat \ {0} /\ Shl1[SizeBits] \in Nat
    BY <1>2, Shl1Facts, Shl1Grows
  <2>2. QED
    BY <1>1, <1>2, <2>1
<1>4. k \in Nat /\ (k # 0 => Shl1[k - 1] < n)
  BY <1>1, <1>3, EnvelopeOf
<1> HIDE DEF k
<1>5. k <= IntBits - 2
  <2>1. CASE k = 0
    BY <1>2, <2>1
  <2>2. CASE k # 0
    <3>1. k - 1 \in Nat
      BY <1>4, <2>2
    <3>2. Shl1[k - 1] \in Nat /\ Shl1[IntBits - 2] \in Nat
      BY <1>2, <3>1, Shl1Facts
    <3>3. Shl1[k - 1] < Shl1[IntBits - 2]
      BY <1>1, <1>4, <2>2, <3>2
    <3>4. k - 1 < IntBits - 2
      <4> SUFFICES ASSUME IntBits - 2 <= k - 1 PROVE FALSE
        BY <1>2, <3>1
      <4>1. IntBits - 2 = k - 1 \/ IntBits - 2 < k - 1
        BY <1>2, <3>1
      <4>2. QED
        BY <1>2, <3>1, <3>2, <3>3, <4>1, Shl1Grows
    <3>5. QED
      BY <1>2, <1>4, <3>4
  <2>3. QED
    BY <2>1, <2>2
<1>6. IntShl1(k) = Shl1[k]
  <2>1. k % IntBits = k /\ k # IntBits - 1
    BY <1>2, <1>4, <1>5, WidthAssumption
  <2>2. QED
    BY <2>1 DEF IntShl1
<1>7. EnvelopedElementsPerCluster(s) = Shl1[k]
  BY <1>6 DEF EnvelopedElementsPerCluster, k
<1>8. Shl1[k] \in ElementsPerCluster
  BY <1>4, <1>5, PoolSettingsAssumption
<1>9. QED
  BY <1>1, <1>7, <1>8

LEMMA PoolStep ==
  ASSUME [MempoolNext]_mempoolVars
  PROVE  [Next]_vars
<1>1. ASSUME NEW s \in Settings, MpInitFails(s) \/ MpInit(s)
      PROVE  [Next]_vars
  <2>1. CASE MpInitFails(s)
    BY <2>1 DEF MpInitFails, poolVars
  <2>2. CASE MpInit(s)
    BY <2>2, SizeIsPower DEF MpInit, Next
  <2>3. QED
    BY <1>1, <2>1, <2>2
<1>2. CASE MpAlloc
  BY <1>2 DEF MpAlloc, Take, Next
<1>3. ASSUME NEW id \in AskedIds, MpFree(id) \/ MpAccess(id)
      PROVE  UNCHANGED vars
  BY <1>3 DEF MpFree, MpAccess, poolVars
<1>4. CASE MpDestroy
  BY <1>4 DEF MpDestroy, Next
<1>5. CASE UNCHANGED mempoolVars
  BY <1>5 DEF mempoolVars, poolVars
<1>6. QED
  BY <1>1, <1>2, <1>3, <1>4, <1>5 DEF MempoolNext

LEMMA PoolIsClusters == MempoolSpec => Spec
<1>1. MempoolInit => Init
  BY DEF MempoolInit
<1>2. [MempoolNext]_mempoolVars => [Next]_vars
  BY PoolStep
<1>3. QED
  BY <1>1, <1>2, PTL DEF MempoolSpec, Spec

-----------------------------------------------------------------------------
(* The elements handed out: the clusters before the front one are full.    *)
TakenOf(p) == (p.allocated.length - 1) * p.elementsPerCluster + p.frontElementIndex

(* While indices are allocated in order, the front cluster's is the greatest. *)
LEMMA OrderFacts ==
  ASSUME NEW p, NEW n, Indexed(p, n), InOrder(p), p.allocated.length # 0
  PROVE  /\ p.allocated.length \in Nat \ {0}
         /\ p.allocated.a[Ring!FrontIndex(p.allocated)] = p.allocated.length - 1
         /\ Indices(p.allocated) = 0..(p.allocated.length - 1)
<1> DEFINE a == Window(p.allocated)
           u == Window(p.unallocated)
           l == p.allocated.length
<1>1. /\ a \in Seq(0..(n - 1)) /\ u \in Seq(0..(n - 1))
      /\ Len(a) = l /\ Len(u) = p.unallocated.length /\ Len(a) + Len(u) = n
      /\ LutSize(p) = n
  BY IndexedFacts
<1>2. /\ a # <<>> /\ ToSet(a) = Indices(p.allocated)
      /\ p.allocated.a[Ring!FrontIndex(p.allocated)] = Last(a)
  BY AllocatedFacts
<1>3. a \o u = [i \in 1..n |-> 0 + i - 1]
  BY <1>1 DEF InOrder, Run
<1> HIDE DEF a, u
<1>4. l \in Nat /\ l # 0 /\ Len(u) \in Nat /\ DOMAIN a = 1..l
  BY <1>1, LenProperties
<1>5. \A i \in 1..l : a[i] = i - 1
  <2>1. \A i \in 1..(Len(a) + Len(u)) : (a \o u)[i] = IF i <= Len(a) THEN a[i]
                                                      ELSE u[i - Len(a)]
    BY <1>1, ConcatProperties
  <2>2. ASSUME NEW i \in 1..l
        PROVE  a[i] = i - 1
    <3>1. i \in 1..n /\ i <= Len(a)
      BY <1>1, <1>4
    <3>2. (a \o u)[i] = a[i]
      BY <1>1, <2>1, <3>1
    <3>3. (a \o u)[i] = 0 + i - 1
      BY <1>3, <3>1
    <3>4. QED
      BY <3>2, <3>3
  <2>3. QED
    BY <2>2
<1>6. Last(a) = l - 1
  BY <1>1, <1>4, <1>5 DEF Last
<1>7. ToSet(a) = 0..(l - 1)
  <2>1. ToSet(a) = {a[i] : i \in 1..l}
    BY <1>4 DEF ToSet
  <2>2. \A x \in 0..(l - 1) : x + 1 \in 1..l /\ a[x + 1] = x
    BY <1>4, <1>5
  <2>3. \A i \in 1..l : a[i] \in 0..(l - 1)
    BY <1>4, <1>5
  <2>4. QED
    BY <2>1, <2>2, <2>3
<1>8. QED
  BY <1>2, <1>4, <1>6, <1>7

(* addFrontCluster hands out nothing. *)
LEMMA ReadyTaken ==
  ASSUME NEW p, NEW n, IsPool(p), Indexed(p, n), NEW clusters, Owned(p, clusters),
         p.allocated.length # 0, p.elementsPerCluster \in Nat,
         NEW fresh \in IF NeedsFrontCluster(p) /\ NeedsMalloc(p)
                         THEN Cluster \ clusters ELSE {NULL}
  PROVE  TakenOf(Ready(p, fresh)) = TakenOf(p)
<1> DEFINE size == p.elementsPerCluster
           a == Window(p.allocated)
           l == p.allocated.length
           q == AddFrontCluster(p, fresh)
<1>1. CASE ~NeedsFrontCluster(p)
  BY <1>1 DEF Ready
<1>2. CASE NeedsFrontCluster(p)
  <2>1. fresh \in IF NeedsMalloc(p) THEN Cluster \ clusters ELSE {NULL}
    BY <1>2
  <2>2. /\ \E m : Indexed(q, m)
        /\ \E x : Window(q.allocated) = Append(Window(p.allocated), x)
        /\ q.elementsPerCluster = size /\ q.frontElementIndex = 0
    BY <2>1, AddFrontFacts
  <2> HIDE DEF q
  <2>3. PICK x : Window(q.allocated) = Append(a, x)
    BY <2>2
  <2>4. Len(Window(q.allocated)) = q.allocated.length
    BY <2>2, IndexedFacts
  <2>5. a \in Seq(0..(n - 1)) /\ Len(a) = l
    BY IndexedFacts
  <2> HIDE DEF a
  <2>6. a \in Seq((0..(n - 1)) \cup {x})
    BY <2>5, SeqMonotonic
  <2>7. Len(Append(a, x)) = l + 1 /\ l \in Nat
    BY <2>5, <2>6, AppendProperties, LenProperties
  <2>8. q.allocated.length = l + 1
    BY <2>3, <2>4, <2>7
  <2>9. p.frontElementIndex = size
    BY <1>2 DEF NeedsFrontCluster
  <2>10. (l + 1 - 1) * size + 0 = (l - 1) * size + size
    BY <2>7
  <2>11. TakenOf(q) = (l + 1 - 1) * size + 0
    <3>1. q.elementsPerCluster = size
      BY <2>2
    <3>2. q.frontElementIndex = 0
      BY <2>2
    <3>3. QED
      BY <2>7, <2>8, <3>1, <3>2 DEF TakenOf
  <2>12. TakenOf(p) = (l - 1) * size + size
    BY <2>9 DEF TakenOf
  <2>13. Ready(p, fresh) = q
    BY <1>2 DEF Ready, q
  <2>14. TakenOf(q) = TakenOf(p)
    BY <2>10, <2>11, <2>12, Zenon
  <2>15. QED
    BY <2>13, <2>14
<1>3. QED
  BY <1>1, <1>2

(* takeNextLocation counts the locations up, and adds no cluster but in order. *)
LEMMA TakeNumbers ==
  ASSUME IInv, live, InOrder(pool), pool.allocated.length # 0,
         TakenOf(pool) < Shl1[IdBits],
         NEW fresh \in FreshClusters, TakeWith(fresh)
  PROVE  /\ NextLocation(pool, fresh) = TakenOf(pool)
         /\ TakenOf(pool) \in Nat
         /\ TakenOf(pool') = TakenOf(pool) + 1
         /\ InOrder(pool') /\ pool'.allocated.length # 0
         /\ pool'.elementsPerCluster = pool.elementsPerCluster
<1> DEFINE q == Ready(pool, fresh)
           size == pool.elementsPerCluster
           l == q.allocated.length
           top == q.frontElementIndex
<1>1. /\ size \in Nat \ {0}
      /\ IsPool(pool) /\ Indexed(pool, LutSize(pool)) /\ Owned(pool, heap)
      /\ pool.frontElementCount = pool.frontElementIndex
      /\ pool.frontElementIndex \in 0..size
  BY SizesPositive DEF IInv
<1>2. fresh \in IF NeedsFrontCluster(pool) /\ NeedsMalloc(pool)
                  THEN Cluster \ heap ELSE {NULL}
  BY DEF FreshClusters
<1>3. /\ IsPool(q) /\ Indexed(q, LutSize(q)) /\ l # 0
      /\ q.elementsPerCluster = size /\ top \in 0..(size - 1)
      /\ InOrder(q)
  <2>1. /\ IsPool(q) /\ Indexed(q, LutSize(q))
        /\ NeedsFrontCluster(pool) => l # 0
        /\ q.elementsPerCluster = size /\ top \in 0..(size - 1)
        /\ InOrder(q)
    BY <1>1, <1>2, ReadyFacts
  <2>2. ~NeedsFrontCluster(pool) => q = pool
    BY DEF Ready
  <2>3. QED
    BY <2>1, <2>2
<1>4. TakenOf(q) = TakenOf(pool)
  BY <1>1, <1>2, ReadyTaken
<1>5. pool' = [q EXCEPT !.frontElementCount = @ + 1, !.frontElementIndex = @ + 1]
  BY DEF TakeWith, TakeNextLocation
<1>6. NextLocation(pool, fresh) = (FrontClusterIndex(q) * size + top) % Shl1[IdBits]
  BY DEF NextLocation
<1> HIDE DEF q
<1>7. l \in Nat \ {0} /\ FrontClusterIndex(q) = l - 1
  <2>1. l \in Nat \ {0} /\ q.allocated.a[Ring!FrontIndex(q.allocated)] = l - 1
    BY <1>3, OrderFacts
  <2>2. l - 1 # NULL
    BY <2>1, ClusterAssumption
  <2>3. QED
    BY <2>1, <2>2 DEF FrontClusterIndex
<1>8. TakenOf(q) = (l - 1) * size + top /\ TakenOf(q) \in Nat
  <2>1. (l - 1) * size \in Nat
    BY <1>1, <1>7
  <2>2. TakenOf(q) = (l - 1) * size + top
    BY <1>3 DEF TakenOf
  <2>3. QED
    BY <1>1, <1>3, <2>1, <2>2
<1>9. NextLocation(pool, fresh) = TakenOf(pool)
  <2>1. Shl1[IdBits] \in Nat \ {0}
    BY ClusterAssumption, Shl1Facts
  <2>2. NextLocation(pool, fresh) = TakenOf(q) % Shl1[IdBits]
    BY <1>6, <1>7, <1>8
  <2>3. TakenOf(q) % Shl1[IdBits] = TakenOf(q)
    BY <1>4, <1>8, <2>1
  <2>4. QED
    BY <1>4, <2>2, <2>3
<1>10. /\ pool'.allocated = q.allocated /\ pool'.unallocated = q.unallocated
       /\ pool'.clusterLut = q.clusterLut
       /\ pool'.elementsPerCluster = size /\ pool'.frontElementIndex = top + 1
  BY <1>3, <1>5 DEF IsPool
<1>11. InOrder(pool') /\ pool'.allocated.length # 0
  BY <1>3, <1>10 DEF InOrder, LutSize
<1>12. TakenOf(pool') = TakenOf(q) + 1
  <2> DEFINE x == (l - 1) * size
  <2>1. x \in Nat
    BY <1>1, <1>7
  <2>2. TakenOf(pool') = x + (top + 1)
    BY <1>10 DEF TakenOf
  <2>3. TakenOf(q) = x + top
    BY <1>8
  <2> HIDE DEF x
  <2>4. QED
    BY <1>1, <1>3, <2>1, <2>2, <2>3
<1>13. QED
  BY <1>4, <1>8, <1>9, <1>10, <1>11, <1>12

-----------------------------------------------------------------------------
(* The pyramid of ids: what mp_init makes of it, what mp_alloc pops, and how *)
(* it grows when it is empty.                                                *)
LEMMA BlockFacts ==
  /\ Ids!BlockBits \in Nat /\ 2 <= Ids!BlockBits
  /\ Ids!BlockBits = Shl1[BlockLog2] /\ BlockLog2 \in Nat
  /\ Shl1[IdBits] \in Nat /\ Ids!BlockBits <= Shl1[IdBits]
  /\ Shl1[BlockLog2 + 1] = 2 * Ids!BlockBits
  /\ Shl1[SizeBits] \in Nat /\ 4 * Ids!BlockBits <= Shl1[SizeBits]
<1>1. /\ BlockLog2 \in Nat \ {0} /\ IdBits \in Nat /\ BlockLog2 <= IdBits
      /\ BlockLog2 + 1 < SizeBits /\ SizeBits \in Nat /\ BlockLog2 + 1 \in Nat
  BY MempoolAssumption, ClusterAssumption, WidthAssumption
<1>2. /\ Shl1[BlockLog2] \in Nat /\ Shl1[IdBits] \in Nat /\ Shl1[SizeBits] \in Nat
      /\ Shl1[0] = 1 /\ Shl1[BlockLog2 + 1] = 2 * Shl1[BlockLog2]
  BY <1>1, Shl1Facts
<1>3. 2 * Shl1[0] <= Shl1[BlockLog2]
  BY <1>1, Shl1Grows
<1>4. BlockLog2 = IdBits \/ 2 * Shl1[BlockLog2] <= Shl1[IdBits]
  BY <1>1, Shl1Grows
<1>5. 2 * Shl1[BlockLog2 + 1] <= Shl1[SizeBits]
  BY <1>1, Shl1Grows
<1>6. QED
  BY <1>1, <1>2, <1>3, <1>4, <1>5, SamePyramids

LEMMA MakeIds ==
  LET q == Ids!Set(Ids!SetAll(Ids!Make(BlockLog2, TRUE), TRUE), 0, FALSE)
  IN  /\ P!IsUsable(q)
      /\ q.indexCountLog2 = BlockLog2 /\ q.stateInit = TRUE
      /\ P!MembersOf(q) = 1..(Ids!BlockBits - 1)
<1> DEFINE made == P!Make(BlockLog2, TRUE)
           full == P!SetAll(made, TRUE)
           q == P!Set(full, 0, FALSE)
<1>1. BlockLog2 \in 0..(BlockLog2 + 1) /\ TRUE \in BOOLEAN /\ FALSE \in BOOLEAN
  BY PyramidAssumption
<1>2. P!IsUsable(made) /\ made.indexCountLog2 = BlockLog2 /\ made.stateInit = TRUE
  BY <1>1, PyramidAssumption, P!MakeFacts
<1> HIDE DEF made
<1>3. P!IsPyr(made) /\ P!HasRows(made)
  BY <1>2 DEF P!IsUsable
<1>4. /\ P!IsUsable(full)
      /\ full.indexCountLog2 = BlockLog2 /\ full.stateInit = TRUE
      /\ P!MembersOf(full) = P!IndicesOf(made)
  BY <1>1, <1>2, <1>3, PyramidAssumption, P!SetAllFacts
<1>5. /\ P!IndicesOf(made) = 0..(Ids!BlockBits - 1)
      /\ P!IndicesOf(full) = 0..(Ids!BlockBits - 1)
  BY <1>2, <1>4, SamePowers, BlockFacts DEF P!IndicesOf
<1> HIDE DEF full
<1>6. 0 \in P!IndicesOf(full)
  BY <1>5, BlockFacts
<1>7. /\ P!IsUsable(q)
      /\ q.indexCountLog2 = BlockLog2 /\ q.stateInit = TRUE
      /\ P!MembersOf(q) = P!MembersOf(full) \ {0}
  BY <1>1, <1>4, <1>6, PyramidAssumption, P!SetFacts
<1>8. P!MembersOf(q) = 1..(Ids!BlockBits - 1)
  <2>1. P!MembersOf(q) = (0..(Ids!BlockBits - 1)) \ {0}
    BY <1>4, <1>5, <1>7, Zenon
  <2>2. (0..(Ids!BlockBits - 1)) \ {0} = 1..(Ids!BlockBits - 1)
    BY BlockFacts
  <2>3. QED
    BY <2>1, <2>2, Zenon
<1>9. q = Ids!Set(Ids!SetAll(Ids!Make(BlockLog2, TRUE), TRUE), 0, FALSE)
  BY SamePyramids DEF made, full
<1> HIDE DEF q
<1>10. QED
  BY <1>7, <1>8, <1>9

LEMMA PopId ==
  ASSUME NEW p, P!IsUsable(p), P!MembersOf(p) # {}
  PROVE  LET q == Ids!PopFirst(p)
             first == Ids!GetFirst(p)
         IN  /\ P!IsUsable(q)
             /\ q.indexCountLog2 = p.indexCountLog2 /\ q.stateInit = p.stateInit
             /\ first \in P!MembersOf(p) /\ \A id \in P!MembersOf(p) : first <= id
             /\ first # Ids!IDXPYR_EMPTY
             /\ P!MembersOf(q) = P!MembersOf(p) \ {first}
<1> DEFINE q == Ids!PopFirst(p)
           first == Ids!GetFirst(p)
<1>1. first \in P!MembersOf(p) /\ \A id \in P!MembersOf(p) : first <= id
  <2>1. first = P!GetFirst(p)
    BY SamePyramids
  <2>2. QED
    BY <2>1, PyramidAssumption, P!FirstFacts
<1>2. first # Ids!IDXPYR_EMPTY
  <2>1. P!IsPyr(p) /\ first \in P!IndicesOf(p)
    BY <1>1 DEF P!IsUsable, P!MembersOf
  <2>2. /\ P!Shl1[p.indexCountLog2] \in Nat \ {0}
        /\ P!Shl1[p.indexCountLog2] <= P!IDXPYR_EMPTY
    BY <2>1, PyramidAssumption, P!PyrFacts
  <2>3. first < P!Shl1[p.indexCountLog2] /\ first \in Nat
    BY <2>1, <2>2 DEF P!IndicesOf
  <2>4. P!IDXPYR_EMPTY \in Int
    BY SamePyramids, BlockFacts
  <2>5. QED
    BY <2>2, <2>3, <2>4, SamePyramids
<1>3. q = P!Set(p, first, FALSE)
  BY <1>2, SamePyramids DEF Ids!PopFirst
<1>4. first \in P!IndicesOf(p) /\ FALSE \in BOOLEAN
  BY <1>1 DEF P!MembersOf
<1> HIDE DEF q, first
<1>5. /\ P!IsUsable(q)
      /\ q.indexCountLog2 = p.indexCountLog2 /\ q.stateInit = p.stateInit
      /\ P!MembersOf(q) = P!MembersOf(p) \ {first}
  BY <1>3, <1>4, PyramidAssumption, P!SetFacts
<1>6. QED
  BY <1>1, <1>2, <1>5 DEF q, first

LEMMA EmptyIds ==
  ASSUME NEW p, P!IsUsable(p), P!MembersOf(p) = {}
  PROVE  Ids!GetFirst(p) = Ids!IDXPYR_EMPTY
BY SamePyramids, PyramidAssumption, P!FirstFacts

LEMMA GrowIds ==
  ASSUME NEW p, P!IsUsable(p), P!MembersOf(p) = {},
         p.indexCountLog2 = BlockLog2, p.stateInit = TRUE
  PROVE  LET q == Ids!Set(Ids!IncreaseSize(p), 0, FALSE)
         IN  /\ P!IsUsable(q)
             /\ P!MembersOf(q) = Ids!BlockBits..(2 * Ids!BlockBits - 1)
<1> DEFINE bigger == P!IncreaseSize(p)
           q == P!Set(bigger, 0, FALSE)
<1>1. p.indexCountLog2 < BlockLog2 + 1
  BY PyramidAssumption
<1>2. /\ P!IsUsable(bigger) /\ bigger.indexCountLog2 = BlockLog2 + 1
      /\ P!MembersOf(bigger) = P!MembersOf(p) \cup
           IF p.stateInit THEN P!Shl1[p.indexCountLog2]..(2 * P!Shl1[p.indexCountLog2] - 1)
           ELSE {}
  BY <1>1, PyramidAssumption, P!IncreaseFacts
<1> HIDE DEF bigger
<1>3. P!MembersOf(bigger) = Ids!BlockBits..(2 * Ids!BlockBits - 1)
  BY <1>2, SamePowers, BlockFacts
<1>4. 0 \in P!IndicesOf(bigger) /\ FALSE \in BOOLEAN
  BY <1>2, SamePowers, BlockFacts DEF P!IndicesOf
<1>5. P!IsUsable(q) /\ P!MembersOf(q) = P!MembersOf(bigger) \ {0}
  BY <1>2, <1>4, PyramidAssumption, P!SetFacts
<1>6. P!MembersOf(q) = Ids!BlockBits..(2 * Ids!BlockBits - 1)
  <2> DEFINE new == Ids!BlockBits..(2 * Ids!BlockBits - 1)
  <2>1. 0 \notin new
    BY BlockFacts
  <2> HIDE DEF new
  <2>2. P!MembersOf(q) = new \ {0}
    BY <1>3, <1>5, Zenon DEF new
  <2>3. P!MembersOf(q) = new
    BY <2>1, <2>2
  <2>4. QED
    BY <2>3 DEF new
<1>7. q = Ids!Set(Ids!IncreaseSize(p), 0, FALSE)
  BY SamePyramids DEF bigger
<1> HIDE DEF q
<1>8. QED
  BY <1>5, <1>6, <1>7

-----------------------------------------------------------------------------
(* The ids are handed out in the order 1, 2, ..., and 0 when the pyramid has *)
(* run empty; the locations from 0 on.                                       *)
LocationOf(id) == IF id = 0 THEN Ids!BlockBits - 1 ELSE id - 1

(* After t calls of mp_alloc: the ids held, and those left in the pyramid. *)
IdsDivided(t) ==
  \/ /\ t \in 0..(Ids!BlockBits - 1)
     /\ held = 1..t
     /\ freeIds.indexCountLog2 = BlockLog2 /\ freeIds.stateInit = TRUE
     /\ P!MembersOf(freeIds) = (t + 1)..(Ids!BlockBits - 1)
  \/ /\ t = Ids!BlockBits
     /\ held = 0..(Ids!BlockBits - 1)
     /\ P!MembersOf(freeIds) = Ids!BlockBits..(2 * Ids!BlockBits - 1)

(* The inductive invariant of the ids: the table has the location of every  *)
(* id held; once it is full, every id in the pyramid lies past its end.     *)
Numbered ==
  IF live
    THEN /\ InOrder(pool) /\ pool.allocated.length # 0
         /\ elementSize \in Nat
         /\ locationLut = [n |-> IF TakenOf(pool) = Ids!BlockBits THEN 1 ELSE 0,
                           m |-> Ids!BlockBits, a |-> locationLut.a]
         /\ locationLut.a \in [0..(Ids!BlockBits - 1) -> Nat \cup {NULL}]
         /\ \A id \in held : locationLut.a[id] = LocationOf(id)
         /\ P!IsUsable(freeIds)
         /\ IdsDivided(TakenOf(pool))
    ELSE held = {} /\ locationLut = Vec!KvInit

(* mp_init gives the table a block of entries and the pyramid the ids but 0. *)
LEMMA InitNumbered ==
  ASSUME NEW s \in Settings, MpInit(s)
  PROVE  Numbered'
<1> DEFINE size == EnvelopedElementsPerCluster(s)
           max == s.freeClusterCountMax
           b == Ids!BlockBits
<1>1. /\ size \in ElementsPerCluster /\ max \in 0..MaxFreeClusters
      /\ s.elementSize \in Nat
      /\ size \in Nat \ {0} /\ max \in Nat
  <2>1. SettingsError(s) = "0"
    BY DEF MpInit
  <2>2. size \in ElementsPerCluster /\ max \in 0..MaxFreeClusters /\ s.elementSize \in Nat
    BY <2>1, SizeIsPower
  <2> HIDE DEF size, max
  <2>3. QED
    BY <2>2, SizesPositive, SettingsAssumption
<1> HIDE DEF size, max
<1>2. PICK fresh \in Cluster : pool' = InitClusters(size, max, fresh)
  BY DEF MpInit, InitPool, size, max
<1>3. /\ live' = TRUE /\ elementSize' = s.elementSize /\ held' = {}
      /\ locationLut' = Vec!KvResize(Vec!KvInit, b)
      /\ freeIds' = Ids!Set(Ids!SetAll(Ids!Make(BlockLog2, TRUE), TRUE), 0, FALSE)
  BY DEF MpInit, InitPool
<1>4. /\ InOrder(pool') /\ pool'.allocated.length = 1
      /\ HasSettings(pool', size, max) /\ pool'.frontElementIndex = 0
  BY <1>1, <1>2, InitPoolFacts
<1>5. TakenOf(pool') = 0
  BY <1>1, <1>4 DEF TakenOf, HasSettings
<1>6. /\ locationLut' = [n |-> 0, m |-> b, a |-> locationLut'.a]
      /\ locationLut'.a \in [0..(b - 1) -> Nat \cup {NULL}]
  <2> DEFINE a == [i \in 0..(b - 1) |-> IF i < 0 THEN [j \in {} |-> NULL][i] ELSE NULL]
  <2> DEFINE v == Vec!KvInit
  <2>1. v = [n |-> 0, m |-> 0, a |-> [j \in {} |-> NULL]]
    BY DEF Vec!KvInit
  <2>2. Vec!KvResize(v, b) = [n |-> 0, m |-> b,
                              a |-> [i \in 0..(b - 1) |-> IF i < v.m THEN v.a[i] ELSE NULL]]
    <3> DEFINE f == [i \in 0..(b - 1) |-> IF i < v.m THEN v.a[i] ELSE NULL]
               w == Vec!KvResize(v, b)
    <3>1. v = [n |-> v.n, m |-> v.m, a |-> v.a] /\ v.n = 0
      BY <2>1
    <3> HIDE DEF v
    <3>2. w = [v EXCEPT !.m = b, !.a = f]
      BY DEF Vec!KvResize
    <3> HIDE DEF f, w
    <3>3. w = [n |-> 0, m |-> b, a |-> f]
      BY <3>1, <3>2
    <3>4. QED
      BY <3>3 DEF f, w
  <2>3. locationLut' = [n |-> 0, m |-> b, a |-> a]
    BY <1>3, <2>1, <2>2
  <2>4. a \in [0..(b - 1) -> Nat \cup {NULL}]
    BY BlockFacts
  <2> HIDE DEF a
  <2>5. QED
    BY <2>3, <2>4
<1>7. /\ P!IsUsable(freeIds')
      /\ freeIds'.indexCountLog2 = BlockLog2 /\ freeIds'.stateInit = TRUE
      /\ P!MembersOf(freeIds') = 1..(b - 1)
  BY <1>3, MakeIds
<1>8. 0 # b /\ 0 \in 0..(b - 1) /\ 1..0 = {} /\ 0 + 1 = 1 /\ 1 # 0
  BY BlockFacts
<1>9. QED
  BY <1>1, <1>3, <1>4, <1>5, <1>6, <1>7, <1>8 DEF Numbered, IdsDivided

(* mp_alloc while the pyramid has an id: the least, and the next location. *)
LEMMA AllocPopped ==
  ASSUME IInv, Numbered, live, NEW t, t = TakenOf(pool), t \in 0..(Ids!BlockBits - 1),
         held = 1..t, freeIds.indexCountLog2 = BlockLog2, freeIds.stateInit = TRUE,
         P!MembersOf(freeIds) = (t + 1)..(Ids!BlockBits - 1),
         t + 1 # Ids!BlockBits, MpAlloc
  PROVE  Numbered' /\ held' # held
<1> DEFINE b == Ids!BlockBits
           lut == locationLut
<1>1. /\ b \in Nat /\ 2 <= b /\ b <= Shl1[IdBits] /\ Shl1[IdBits] \in Nat
      /\ t \in Nat /\ t + 1 \in 0..(b - 1) /\ t + 1 # 0 /\ (t + 1) - 1 = t
  <2>1. b \in Nat /\ 2 <= b /\ b <= Shl1[IdBits] /\ Shl1[IdBits] \in Nat
    BY BlockFacts
  <2>2. t \in 0..(b - 1) /\ t + 1 # b
    OBVIOUS
  <2> HIDE DEF b
  <2>3. QED
    BY <2>1, <2>2
<1>2. /\ InOrder(pool) /\ pool.allocated.length # 0 /\ elementSize \in Nat /\ P!IsUsable(freeIds)
      /\ lut = [n |-> 0, m |-> b, a |-> lut.a]
      /\ lut.a \in [0..(b - 1) -> Nat \cup {NULL}]
      /\ \A id \in held : lut.a[id] = LocationOf(id)
  BY <1>1 DEF Numbered
<1>3. /\ P!IsUsable(Ids!PopFirst(freeIds))
      /\ Ids!PopFirst(freeIds).indexCountLog2 = BlockLog2
      /\ Ids!PopFirst(freeIds).stateInit = TRUE
      /\ Ids!GetFirst(freeIds) = t + 1 /\ Ids!GetFirst(freeIds) # Ids!IDXPYR_EMPTY
      /\ P!MembersOf(Ids!PopFirst(freeIds)) = (t + 2)..(b - 1)
  <2> DEFINE q == Ids!PopFirst(freeIds)
             first == Ids!GetFirst(freeIds)
  <2>1. t + 1 \in P!MembersOf(freeIds)
    BY <1>1
  <2>2. /\ P!IsUsable(q)
        /\ q.indexCountLog2 = BlockLog2 /\ q.stateInit = TRUE
        /\ first \in P!MembersOf(freeIds) /\ \A id \in P!MembersOf(freeIds) : first <= id
        /\ first # Ids!IDXPYR_EMPTY
        /\ P!MembersOf(q) = P!MembersOf(freeIds) \ {first}
    BY <1>2, <2>1, PopId
  <2> HIDE DEF q, first, b
  <2>3. first = t + 1
    <3>1. first \in (t + 1)..(b - 1) /\ first <= t + 1
      BY <2>1, <2>2 DEF b
    <3>2. QED
      BY <1>1, <3>1
  <2>4. P!MembersOf(q) = ((t + 1)..(b - 1)) \ {t + 1}
    BY <2>2, <2>3 DEF b
  <2>5. ((t + 1)..(b - 1)) \ {t + 1} = (t + 2)..(b - 1)
    BY <1>1
  <2>6. P!MembersOf(q) = (t + 2)..(b - 1)
    BY <2>4, <2>5, Zenon
  <2>7. QED
    BY <2>2, <2>3, <2>6 DEF q, first, b
<1>4. PICK fresh \in FreshClusters :
        /\ TakeWith(fresh)
        /\ lut' = [lut EXCEPT !.a[t + 1] = NextLocation(pool, fresh)]
  BY <1>3 DEF MpAlloc
<1>5. /\ freeIds' = Ids!PopFirst(freeIds) /\ held' = held \cup {t + 1}
      /\ elementSize' = elementSize
  BY <1>3 DEF MpAlloc
<1>6. /\ NextLocation(pool, fresh) = t /\ TakenOf(pool') = t + 1
      /\ InOrder(pool') /\ pool'.allocated.length # 0
  BY <1>1, <1>2, <1>4, TakeNumbers
<1>7. live' = TRUE
  BY <1>4 DEF TakeWith
<1>8. /\ lut' = [n |-> 0, m |-> b, a |-> [lut.a EXCEPT ![t + 1] = t]]
      /\ lut'.a = [lut.a EXCEPT ![t + 1] = t]
  <2> DEFINE a == [lut.a EXCEPT ![t + 1] = t]
  <2>1. lut' = [lut EXCEPT !.a = a]
    BY <1>4, <1>6
  <2> HIDE DEF a, b
  <2>2. lut' = [n |-> 0, m |-> b, a |-> a]
    BY <1>2, <2>1
  <2>3. QED
    BY <2>2 DEF a
<1>9. held' = 1..(t + 1) /\ held' # held
  <2>1. (1..t) \cup {t + 1} = 1..(t + 1) /\ t + 1 \notin 1..t
    BY <1>1
  <2>2. QED
    BY <1>5, <2>1
<1>10. lut'.a \in [0..(b - 1) -> Nat \cup {NULL}]
  BY <1>1, <1>2, <1>8
<1>11. \A id \in held' : lut'.a[id] = LocationOf(id)
  <2> SUFFICES ASSUME NEW id \in held' PROVE lut'.a[id] = LocationOf(id)
    OBVIOUS
  <2>1. id \in 1..(t + 1) /\ t + 1 \in 0..(b - 1) /\ id \in 0..(b - 1)
    BY <1>1, <1>9
  <2>2. CASE id = t + 1
    BY <1>1, <1>2, <1>8, <2>1, <2>2 DEF LocationOf
  <2>3. CASE id # t + 1
    <3>1. id \in held
      BY <2>1, <2>3
    <3>2. QED
      BY <1>2, <1>8, <2>1, <2>3, <3>1
  <2>4. QED
    BY <2>2, <2>3
<1>12. IdsDivided(t + 1)'
  <2>1. t + 1 \in 0..(b - 1) /\ (t + 1) + 1 = t + 2
    BY <1>1
  <2>2. QED
    BY <1>3, <1>5, <1>9, <2>1 DEF IdsDivided
<1>13. QED
  BY <1>2, <1>3, <1>5, <1>6, <1>7, <1>8, <1>9, <1>10, <1>11, <1>12 DEF Numbered

(* mp_alloc when the pyramid has run empty: id 0, and the pyramid grows. *)
LEMMA AllocPushed ==
  ASSUME IInv, Numbered, live, NEW t, t = TakenOf(pool), t = Ids!BlockBits - 1,
         held = 1..t, freeIds.indexCountLog2 = BlockLog2, freeIds.stateInit = TRUE,
         P!MembersOf(freeIds) = {}, MpAlloc
  PROVE  Numbered' /\ held' # held
<1> DEFINE b == Ids!BlockBits
           lut == locationLut
<1>1. b \in Nat /\ 2 <= b /\ b <= Shl1[IdBits] /\ Shl1[IdBits] \in Nat
  BY BlockFacts
<1>2. /\ InOrder(pool) /\ pool.allocated.length # 0 /\ elementSize \in Nat /\ P!IsUsable(freeIds)
      /\ lut = [n |-> 0, m |-> b, a |-> lut.a]
      /\ lut.a \in [0..(b - 1) -> Nat \cup {NULL}]
      /\ \A id \in held : lut.a[id] = LocationOf(id)
  BY <1>1 DEF Numbered
<1>3. lut.n = 0 /\ lut.m = b /\ 0 % Shl1[IdBits] = 0
  BY <1>1, <1>2
<1>4. Ids!GetFirst(freeIds) = Ids!IDXPYR_EMPTY
  BY <1>2, EmptyIds
<1>5. PICK fresh \in FreshClusters :
        /\ TakeWith(fresh)
        /\ lut' = Vec!KvPush(lut, NextLocation(pool, fresh))
  BY <1>4 DEF MpAlloc
<1>6. /\ freeIds' = Ids!Set(Ids!IncreaseSize(freeIds), 0, FALSE)
      /\ held' = held \cup {0} /\ elementSize' = elementSize
  BY <1>3, <1>4 DEF MpAlloc
<1>7. /\ NextLocation(pool, fresh) = t /\ TakenOf(pool') = t + 1
      /\ InOrder(pool') /\ pool'.allocated.length # 0
  BY <1>1, <1>2, <1>5, TakeNumbers
<1>8. live' = TRUE
  BY <1>5 DEF TakeWith
<1>9. /\ lut' = [n |-> 1, m |-> b, a |-> [lut.a EXCEPT ![0] = t]]
      /\ lut'.a = [lut.a EXCEPT ![0] = t]
  <2> DEFINE a == [lut.a EXCEPT ![0] = t]
  <2> DEFINE u == [lut EXCEPT !.a[lut.n] = t]
  <2>1. Vec!KvReady(lut) = lut
    BY <1>1, <1>3 DEF Vec!KvReady
  <2>2. lut' = [u EXCEPT !.n = @ + 1]
    BY <1>5, <1>7, <2>1 DEF Vec!KvPush, Vec!KvStaticPush
  <2>3. u = [lut EXCEPT !.a = a]
    BY <1>3
  <2> HIDE DEF a, b, u
  <2>4. u = [n |-> 0, m |-> b, a |-> a]
    BY <1>2, <2>3
  <2>5. u.n + 1 = 1
    BY <2>4
  <2>6. lut' = [n |-> 1, m |-> b, a |-> a]
    BY <2>2, <2>4, <2>5
  <2>7. QED
    BY <2>6 DEF a
<1>10. held' = 0..(b - 1) /\ held' # held
  BY <1>1, <1>6
<1>11. lut'.a \in [0..(b - 1) -> Nat \cup {NULL}]
  BY <1>1, <1>2, <1>9
<1>12. \A id \in held' : lut'.a[id] = LocationOf(id)
  <2> SUFFICES ASSUME NEW id \in held' PROVE lut'.a[id] = LocationOf(id)
    OBVIOUS
  <2>1. id \in 0..(b - 1) /\ 0 \in 0..(b - 1)
    BY <1>1, <1>10
  <2>2. CASE id = 0
    BY <1>2, <1>9, <2>1, <2>2 DEF LocationOf
  <2>3. CASE id # 0
    <3>1. id \in held
      BY <1>1, <2>1, <2>3
    <3>2. QED
      BY <1>2, <1>9, <2>1, <2>3, <3>1
  <2>4. QED
    BY <2>2, <2>3
<1>13. P!IsUsable(freeIds') /\ P!MembersOf(freeIds') = b..(2 * b - 1)
  BY <1>2, <1>6, GrowIds
<1>14. t + 1 = b
  BY <1>1
<1>15. IdsDivided(b)'
  BY <1>10, <1>13 DEF IdsDivided
<1>16. QED
  <2>1. TakenOf(pool') = b
    BY <1>7, <1>14
  <2> HIDE DEF b
  <2>2. QED
    BY <1>2, <1>6, <1>7, <1>8, <1>9, <1>10, <1>11, <1>12, <1>13, <1>15, <2>1
       DEF Numbered, b

LEMMA AllocNumbered ==
  ASSUME IInv, Numbered, MpAlloc
  PROVE  Numbered' /\ held' # held
<1> DEFINE b == Ids!BlockBits
           t == TakenOf(pool)
<1>1. live
  BY DEF MpAlloc, TakeWith
<1>2. IdsDivided(t) /\ P!IsUsable(freeIds)
  BY <1>1 DEF Numbered
<1>3. b \in Nat /\ 2 <= b
  BY BlockFacts
<1>4. CASE /\ t \in 0..(b - 1)
           /\ held = 1..t
           /\ freeIds.indexCountLog2 = BlockLog2 /\ freeIds.stateInit = TRUE
           /\ P!MembersOf(freeIds) = (t + 1)..(b - 1)
  <2> HIDE DEF t
  <2>1. CASE t + 1 # b
    BY <1>1, <1>4, <2>1, AllocPopped DEF t
  <2>2. CASE t + 1 = b
    <3>1. t = b - 1 /\ P!MembersOf(freeIds) = {}
      BY <1>3, <1>4, <2>2
    <3>2. QED
      BY <1>1, <1>4, <3>1, AllocPushed DEF t
  <2>3. QED
    BY <2>1, <2>2
<1>5. CASE t = b /\ P!MembersOf(freeIds) = b..(2 * b - 1)
  <2>1. locationLut.m = b
    BY <1>1 DEF Numbered
  <2>2. b \in P!MembersOf(freeIds)
    BY <1>3, <1>5
  <2>3. Ids!GetFirst(freeIds) \in b..(2 * b - 1) /\ Ids!GetFirst(freeIds) # Ids!IDXPYR_EMPTY
    BY <1>2, <1>5, <2>2, PopId
  <2>4. Ids!GetFirst(freeIds) < locationLut.m
    BY <2>3 DEF MpAlloc
  <2>5. QED
    BY <1>3, <2>1, <2>3, <2>4
<1>6. QED
  BY <1>2, <1>4, <1>5 DEF IdsDivided

-----------------------------------------------------------------------------
(* The type of what the ids are kept in, in a pool whose ids are numbered. *)
LEMMA NumberedFacts ==
  ASSUME Numbered, IInv
  PROVE  /\ held \subseteq 0..(Ids!BlockBits - 1)
         /\ held # {} => live
         /\ locationLut.n \in {0, 1} /\ locationLut.n <= locationLut.m
         /\ DOMAIN locationLut.a = 0..(locationLut.m - 1)
         /\ \A id \in held : /\ locationLut.a[id] = LocationOf(id)
                             /\ LocationOf(id) \in Nat
                             /\ LocationOf(id) < TakenOf(pool)
<1>1. Ids!BlockBits \in Nat /\ 2 <= Ids!BlockBits
  BY BlockFacts
<1>2. CASE ~live
  <2>1. held = {} /\ locationLut = [n |-> 0, m |-> 0, a |-> [i \in {} |-> NULL]]
    BY <1>2 DEF Numbered, Vec!KvInit
  <2>2. DOMAIN locationLut.a = {} /\ 0..(0 - 1) = {}
    BY <2>1
  <2>3. QED
    BY <2>1, <2>2
<1>3. CASE live
  <2> DEFINE t == TakenOf(pool)
             b == Ids!BlockBits
  <2>1. /\ locationLut = [n |-> IF t = b THEN 1 ELSE 0, m |-> b, a |-> locationLut.a]
        /\ locationLut.a \in [0..(b - 1) -> Nat \cup {NULL}]
        /\ \A id \in held : locationLut.a[id] = LocationOf(id)
        /\ \/ t \in 0..(b - 1) /\ held = 1..t
           \/ t = b /\ held = 0..(b - 1)
    BY <1>3 DEF Numbered, IdsDivided
  <2> HIDE DEF t
  <2>2. held \subseteq 0..(b - 1)
    BY <1>1, <2>1
  <2>3. \A id \in held : LocationOf(id) \in Nat /\ LocationOf(id) < t
    BY <1>1, <2>1 DEF LocationOf
  <2>4. locationLut.n = (IF t = b THEN 1 ELSE 0) /\ locationLut.m = b
    BY <2>1
  <2>5. QED
    BY <1>1, <1>3, <2>1, <2>2, <2>3, <2>4 DEF t
<1>4. QED
  BY <1>2, <1>3

LEMMA StepNumbered == IInv /\ Numbered /\ [MempoolNext]_mempoolVars => Numbered'
<1> SUFFICES ASSUME IInv, Numbered, [MempoolNext]_mempoolVars
             PROVE  Numbered'
  OBVIOUS
<1>1. ASSUME UNCHANGED poolVars
      PROVE  Numbered'
  BY <1>1 DEF poolVars, vars, idVars, Numbered, IdsDivided
<1>2. ASSUME NEW s \in Settings, MpInitFails(s) \/ MpInit(s)
      PROVE  Numbered'
  <2>1. CASE MpInitFails(s)
    BY <1>1, <2>1 DEF MpInitFails
  <2>2. CASE MpInit(s)
    BY <2>2, InitNumbered
  <2>3. QED
    BY <1>2, <2>1, <2>2
<1>3. CASE MpAlloc
  BY <1>3, AllocNumbered
<1>4. ASSUME NEW id \in AskedIds, MpFree(id) \/ MpAccess(id)
      PROVE  Numbered'
  <2>1. ~IdExists(id) \/ id = 0
    <3>1. id \in Nat
      BY MempoolAssumption
    <3>2. locationLut.n \in {0, 1}
      BY NumberedFacts
    <3>3. QED
      BY <3>1, <3>2 DEF IdExists
  <2>2. QED
    BY <1>1, <1>4, <2>1 DEF MpFree, MpAccess
<1>5. CASE MpDestroy
  BY <1>5 DEF MpDestroy, DestroyPool, Numbered
<1>6. CASE UNCHANGED mempoolVars
  BY <1>1, <1>6 DEF mempoolVars
<1>7. QED
  BY <1>2, <1>3, <1>4, <1>5, <1>6 DEF MempoolNext

(* Both invariants together, that of Clusters and that of the ids. *)
LEMMA MempoolInvariant == MempoolSpec => [](IInv /\ Numbered)
<1>1. MempoolInit => Numbered
  BY DEF MempoolInit, Init, Numbered
<1>2. MempoolSpec => []IInv
  BY PoolIsClusters, InductiveInvariant, PTL
<1>3. QED
  BY <1>1, <1>2, StepNumbered, PTL DEF MempoolSpec

(* The table's sizes, mp_init's power of two, and ids that fit mp_id_t. *)
THEOREM MempoolTypeCorrect == MempoolSpec => []MempoolTypeOK
<1>1. IInv /\ Numbered => MempoolTypeOK
  <2> SUFFICES ASSUME IInv, Numbered PROVE MempoolTypeOK
    OBVIOUS
  <2>1. /\ locationLut.n <= locationLut.m
        /\ DOMAIN locationLut.a = 0..(locationLut.m - 1)
        /\ held \subseteq 0..(Ids!BlockBits - 1)
    BY NumberedFacts
  <2>2. live => pool.elementsPerCluster \in {Shl1[k] : k \in 0..(IntBits - 2)}
    BY PoolSettingsAssumption DEF IInv
  <2>3. held \subseteq 0..NoId
    BY <2>1, BlockFacts DEF NoId
  <2>4. QED
    BY <2>1, <2>2, <2>3 DEF MempoolTypeOK
<1>2. QED
  BY <1>1, MempoolInvariant, PTL

(* The ids held have different locations, in clusters that are allocated. *)
THEOREM IdsHaveOwnLocations == MempoolSpec => []LocationsOfIdsDistinct
<1>1. IInv /\ Numbered => LocationsOfIdsDistinct
  <2> SUFFICES ASSUME IInv, Numbered PROVE LocationsOfIdsDistinct
    OBVIOUS
  <2> DEFINE l == pool.allocated.length
             size == pool.elementsPerCluster
  <2>1. /\ held \subseteq 0..(Ids!BlockBits - 1)
        /\ held # {} => live
        /\ \A id \in held : /\ locationLut.a[id] = LocationOf(id)
                            /\ LocationOf(id) \in Nat
                            /\ LocationOf(id) < TakenOf(pool)
    BY NumberedFacts
  <2>2. \A i, j \in held : locationLut.a[i] = locationLut.a[j] => i = j
    <3> SUFFICES ASSUME NEW i \in held, NEW j \in held,
                        LocationOf(i) = LocationOf(j)
                 PROVE  i = j
      BY <2>1
    <3>1. i \in 0..(Ids!BlockBits - 1) /\ j \in 0..(Ids!BlockBits - 1)
      BY <2>1
    <3>2. QED
      BY <3>1, BlockFacts DEF LocationOf
  <2>3. ASSUME NEW id \in held
        PROVE  locationLut.a[id] \div size \in Indices(pool.allocated)
    <3> DEFINE x == LocationOf(id)
    <3>1. /\ live /\ size \in Nat \ {0} /\ pool.frontElementIndex \in 0..size
          /\ Indexed(pool, LutSize(pool)) /\ l # 0 /\ InOrder(pool)
      BY <2>1, SizesPositive DEF IInv, Numbered
    <3>2. l \in Nat \ {0} /\ Indices(pool.allocated) = 0..(l - 1)
      BY <3>1, OrderFacts
    <3>3. x \in Nat /\ x < (l - 1) * size + pool.frontElementIndex
      BY <2>1 DEF TakenOf
    <3> HIDE DEF x, l, size
    <3>4. x < l * size /\ l * size \in Nat
      <4>1. (l - 1) * size \in Nat /\ l * size = (l - 1) * size + size
        BY <3>1, <3>2
      <4>2. QED
        BY <3>1, <3>3, <4>1
    <3>5. /\ x \div size \in Nat /\ x % size \in 0..(size - 1)
          /\ x = (x \div size) * size + (x % size)
      BY <3>1, <3>3, QuotientFacts
    <3>6. x \div size < l
      <4> DEFINE d == x \div size
      <4>1. d \in Nat /\ d * size <= x /\ d * size \in Nat
        BY <3>1, <3>3, <3>5
      <4> HIDE DEF d
      <4>2. SUFFICES ASSUME l <= d PROVE FALSE
        BY <3>2, <4>1 DEF d
      <4>3. l * size <= d * size
        BY <3>1, <3>2, <4>1, <4>2, ProductGrows
      <4>4. QED
        BY <3>3, <3>4, <4>1, <4>3
    <3>7. locationLut.a[id] = x
      BY <2>1 DEF x
    <3>8. QED
      BY <3>2, <3>5, <3>6, <3>7
  <2>4. QED
    BY <2>2, <2>3 DEF LocationsOfIdsDistinct
<1>2. QED
  BY <1>1, MempoolInvariant, PTL

(* An element and its id lie within their cluster. *)
THEOREM StoreIsInCluster == MempoolSpec => []StoreInCluster
<1>1. IInv /\ Numbered => StoreInCluster
  <2> SUFFICES ASSUME IInv, Numbered, NEW id \in held
               PROVE  ElementStore(pool, locationLut.a[id])[2] + elementSize + sizeofId
                        <= (elementSize + sizeofId) * pool.elementsPerCluster
    BY DEF StoreInCluster
  <2> DEFINE n == pool.elementsPerCluster
             size == elementSize + sizeofId
             x == And(locationLut.a[id], (n - 1) * size, WordBits)
  <2>1. live /\ locationLut.a[id] \in Nat
    BY NumberedFacts
  <2>2. n \in Nat \ {0} /\ elementSize \in Nat
    BY <2>1, SizesPositive DEF IInv, Numbered
  <2>3. sizeofId \in Nat /\ size \in Nat
    BY <2>2, ClusterAssumption DEF sizeofId
  <2>4. WordBits \in Nat
    BY WidthAssumption, MempoolAssumption
  <2>5. ElementStore(pool, locationLut.a[id])[2] = x
    BY DEF ElementStore, ElementStoreOffset
  <2> HIDE DEF n, size, x
  <2>6. (n - 1) * size \in Nat /\ (n - 1) * size + size = size * n
    BY <2>2, <2>3
  <2>7. x \in Nat /\ x <= (n - 1) * size
    BY <2>1, <2>4, <2>6, OffsetBelow DEF x
  <2>8. x + size <= size * n
    <3> DEFINE y == (n - 1) * size
               z == size * n
    <3>1. y \in Nat /\ y + size = z /\ x <= y
      BY <2>6, <2>7
    <3> HIDE DEF y, z
    <3>2. x + size <= z
      BY <2>3, <2>7, <3>1
    <3>3. QED
      BY <3>2 DEF z
  <2>9. x + elementSize + sizeofId = x + size
    BY <2>2, <2>3, <2>7 DEF size
  <2>10. QED
    BY <2>5, <2>8, <2>9 DEF size, n
<1>2. QED
  BY <1>1, MempoolInvariant, PTL

(* mp_alloc never returns an id that is held. *)
THEOREM AllocIsFresh == MempoolSpec => AllocReturnsNewId
<1> DEFINE Fresh == live /\ live' /\ pool' # pool => held' # held
<1>1. IInv /\ Numbered /\ [MempoolNext]_mempoolVars => [Fresh]_mempoolVars
  <2> SUFFICES ASSUME IInv, Numbered, MempoolNext PROVE Fresh
    OBVIOUS
  <2>1. ASSUME NEW s \in Settings, MpInitFails(s) \/ MpInit(s)
        PROVE  Fresh
    BY <2>1 DEF MpInitFails, MpInit, InitPool
  <2>2. CASE MpAlloc
    BY <2>2, AllocNumbered
  <2>3. ASSUME NEW id \in AskedIds, MpFree(id) \/ MpAccess(id)
        PROVE  Fresh
    BY <2>3 DEF MpFree, MpAccess, poolVars, vars
  <2>4. CASE MpDestroy
    BY <2>4 DEF MpDestroy, DestroyPool
  <2>5. QED
    BY <2>1, <2>2, <2>3, <2>4 DEF MempoolNext
<1>2. QED
  BY <1>1, MempoolInvariant, PTL DEF MempoolSpec, AllocReturnsNewId

(* _idExists denies each id that mp_alloc has returned, but for 0, which *)
(* mp_free does not take; so mp_free gives no id back, in any pool.      *)
THEOREM HeldIdsDenied == MempoolSpec => []HeldDenied
<1>1. IInv /\ Numbered => HeldDenied
  <2> SUFFICES ASSUME IInv, Numbered, NEW id \in held PROVE id = 0 \/ ~IdExists(id)
    BY DEF HeldDenied
  <2>1. id \in 0..(Ids!BlockBits - 1) /\ locationLut.n \in {0, 1}
    BY NumberedFacts
  <2>2. QED
    BY <2>1, BlockFacts DEF IdExists
<1>2. QED
  BY <1>1, MempoolInvariant, PTL

(* mp_alloc hands out the ids of the first block in order, and then 0. *)
THEOREM IdsComeInOrder == MempoolSpec => []IdsInOrder
<1>1. IInv /\ Numbered => IdsInOrder
  <2> SUFFICES ASSUME Numbered, NEW id \in held
               PROVE  1..(IF id = 0 THEN Ids!BlockBits - 1 ELSE id) \subseteq held
    BY DEF IdsInOrder
  <2>1. live /\ IdsDivided(TakenOf(pool))
    BY DEF Numbered
  <2>2. Ids!BlockBits \in Nat
    BY BlockFacts
  <2>3. \/ \E t \in 0..(Ids!BlockBits - 1) : held = 1..t
        \/ held = 0..(Ids!BlockBits - 1)
    BY <2>1 DEF IdsDivided
  <2>4. QED
    BY <2>2, <2>3
<1>2. QED
  BY <1>1, MempoolInvariant, PTL
=============================================================================
