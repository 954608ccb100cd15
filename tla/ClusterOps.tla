----------------------------- MODULE ClusterOps -----------------------------
(***************************************************************************)
(* The clusters of mempoolEbr.c: the part of mp_pool_t that says where     *)
(* elements are stored, and the private functions on it.  A cluster is an  *)
(* allocated block of memory; its index is its place in clusterLut, and is *)
(* in one of two ring buffers that hold indices where Circbuf has          *)
(* pointers.  In the code NULL and index 0 are the same bits; here they    *)
(* differ, and where a slot that nothing was written to may be read, NULL  *)
(* is read as 0.                                                           *)
(***************************************************************************)
EXTENDS Shift, FiniteSets, SequencesExt

CONSTANTS
  Cluster,  \* the blocks malloc may return
  NULL,     \* what is in a slot or an entry that nothing was written to
  IdBits    \* width of mp_id_t (16)

ASSUME ClusterAssumption == NULL \notin Cluster \cup Nat /\ IdBits \in Nat

Ring == INSTANCE CircbufOps WITH Elem <- Nat

(* What circbuf_popBack returns for a ring that is not empty. *)
Back(ring) == ring.a[ring.start]

Indices(ring) == {Ring!Contents(ring)[i] : i \in 1..ring.length}

(* kv_max(pool->clusterLut), which is kv_size as well. *)
LutSize(pool) == Cardinality(DOMAIN pool.clusterLut)

(* Puts count indices, from first on, one after the other. *)
PutEach(PutOne(_, _), ring, first, count) ==
  LET put[i \in 0..count] == IF i = 0 THEN ring ELSE PutOne(put[i - 1], first + i - 1)
  IN  put[count]

-----------------------------------------------------------------------------
(* initClusterFifos *)
InitClusterFifos ==
  LET count == IntShl1(2)
  IN  [allocated   |-> Ring!Make(2),
       clusterLut  |-> [i \in 0..(count - 1) |-> NULL],
       unallocated |-> PutEach(Ring!Put, Ring!Make(2), 0, count)]

(* addClusterIndices: the table doubles, its new indices are unallocated. *)
FirstNewIndexPastIt(count) == count + 1                        \* mutant
FirstNewIndex(count) == count
AddClusterIndices(pool) ==
  LET count == LutSize(pool)
  IN  [pool EXCEPT
         !.clusterLut  = [i \in 0..(2 * count - 1) |-> IF i < count THEN @[i] ELSE NULL],
         !.unallocated = PutEach(Ring!DynamicPut, @, FirstNewIndex(count), count)]

NeedsMalloc(pool) == pool.freeClusters = <<>>
FreeLeftKept(pool) == pool.freeClusters                        \* mutant
FreeLeft(pool) == IF NeedsMalloc(pool) THEN <<>> ELSE Front(pool.freeClusters)

(* addFrontCluster; fresh is what malloc returns when it is called. *)
AddFrontCluster(pool, fresh) ==
  LET ready == IF pool.unallocated.length = 0 THEN AddClusterIndices(pool) ELSE pool
      index == Back(ready.unallocated)
  IN  [ready EXCEPT
         !.freeClusters      = FreeLeft(pool),
         !.unallocated       = Ring!PopBack(@),
         !.allocated         = Ring!DynamicPut(@, index),
         !.clusterLut[index] = IF NeedsMalloc(pool) THEN fresh ELSE Last(pool.freeClusters),
         !.frontElementCount = 0,
         !.frontElementIndex = 0]

(* removeBackCluster, past its assertion, and what it gives to free(). *)
KeepsBackOneMore(pool) ==                                      \* mutant
  Len(pool.freeClusters) <= pool.freeClusterCountMax
KeepsBack(pool) == Len(pool.freeClusters) < pool.freeClusterCountMax
RemoveBackCluster(pool) ==
  LET index == Back(pool.allocated)
  IN  [pool EXCEPT
         !.allocated    = Ring!PopBack(@),
         !.unallocated  = Ring!DynamicPut(@, index),
         !.freeClusters = IF KeepsBack(pool)
                            THEN Append(@, pool.clusterLut[index]) ELSE @]
FreedByRemove(pool) ==
  IF KeepsBack(pool) THEN {} ELSE {pool.clusterLut[Back(pool.allocated)]}

(* destroyClusterFifos, and the loop of mp_destroy over the free clusters. *)
FreedByDestroy(pool) ==
  {pool.clusterLut[i] : i \in Indices(pool.allocated)} \cup ToSet(pool.freeClusters)

-----------------------------------------------------------------------------
(***************************************************************************)
(* takeNextLocation: the pool it leaves and the location it returns.  The  *)
(* element index is below elementsPerCluster, a power of two, so shifting  *)
(* the cluster index and or-ing the element index is to multiply and add.  *)
(***************************************************************************)
NeedsFrontClusterLate(pool) ==                                 \* mutant
  pool.frontElementIndex = pool.elementsPerCluster + 1
NeedsFrontCluster(pool) == pool.frontElementIndex = pool.elementsPerCluster
Ready(pool, fresh) ==
  IF NeedsFrontCluster(pool) THEN AddFrontCluster(pool, fresh) ELSE pool
(* With no allocated cluster it is what is left in the ring's first slot. *)
FrontClusterIndex(pool) ==
  LET slot == pool.allocated.a[Ring!FrontIndex(pool.allocated)]
  IN  IF slot = NULL THEN 0 ELSE slot
NextLocationStaleFront(pool, fresh) ==                         \* mutant
  LET ready == Ready(pool, fresh)
  IN  (FrontClusterIndex(pool) * pool.elementsPerCluster + ready.frontElementIndex)
        % Shl1[IdBits]
NextLocation(pool, fresh) ==
  LET ready == Ready(pool, fresh)
  IN  (FrontClusterIndex(ready) * pool.elementsPerCluster + ready.frontElementIndex)
        % Shl1[IdBits]
TakeNextLocation(pool, fresh) ==
  [Ready(pool, fresh) EXCEPT !.frontElementCount = @ + 1, !.frontElementIndex = @ + 1]

(* The cluster part of mp_init. *)
InitClusters(elementsPerCluster, freeClusterCountMax, fresh) ==
  LET fifos == InitClusterFifos
  IN  AddFrontCluster(
        [allocated           |-> fifos.allocated,
         unallocated         |-> fifos.unallocated,
         clusterLut          |-> fifos.clusterLut,
         freeClusters        |-> <<>>,
         freeClusterCountMax |-> freeClusterCountMax,
         elementsPerCluster  |-> elementsPerCluster,
         frontElementCount   |-> 0,
         frontElementIndex   |-> 0], fresh)
=============================================================================
