------------------------------ MODULE Clusters ------------------------------
(***************************************************************************)
(* The clusters of one mp_pool_t through its life: mp_init, any number of  *)
(* takeNextLocation (the cluster part of mp_alloc) and removeBackCluster   *)
(* (which so far only a unit test calls), and mp_destroy.  malloc may      *)
(* return any cluster that is not in use; it never fails, and the code     *)
(* does not test that.                                                     *)
(***************************************************************************)
EXTENDS ClusterOps

CONSTANTS
  ElementsPerCluster,  \* settings.elementsPerCluster, as enveloped by mp_init
  MaxFreeClusters      \* bound on settings.freeClusterCountMax

ASSUME SettingsAssumption ==
  /\ ElementsPerCluster \subseteq {Shl1[k] : k \in 0..(IntBits - 2)}
  /\ MaxFreeClusters \in Nat

(* 1 << capacityLog2 stays inside an int for the tables of that many clusters; *)
(* the 16 bits of mp_id_t run out of locations before: see LocationsDistinct.  *)
ASSUME CountAssumption ==
  /\ IsFiniteSet(Cluster)
  /\ 4 < IntBits
  /\ 4 * Cardinality(Cluster) < Shl1[IntBits - 1]

VARIABLES
  pool,  \* the cluster part of the mp_pool_t
  live,  \* mp_init has been called, and mp_destroy has not
  heap,  \* the clusters malloc has returned and free has not got back
  used   \* the locations taken from clusters that are still allocated

vars == <<pool, live, heap, used>>

(* mp_init's memset: nothing is allocated before the first call. *)
NoPool ==
  [allocated |-> Ring!Make(0), unallocated |-> Ring!Make(0),
   clusterLut |-> [i \in {} |-> NULL], freeClusters |-> <<>>,
   freeClusterCountMax |-> 0, elementsPerCluster |-> 0,
   frontElementCount |-> 0, frontElementIndex |-> 0]

Init ==
  /\ pool = NoPool
  /\ live = FALSE
  /\ heap = {}
  /\ used = {}

-----------------------------------------------------------------------------
InitPool(n, m) ==
  /\ ~live
  /\ \E fresh \in Cluster \ heap :
       /\ pool' = InitClusters(n, m, fresh)
       /\ heap' = heap \cup {fresh}
  /\ live' = TRUE
  /\ used' = {}

(* What malloc may return to addFrontCluster, when that calls it.  Memory *)
(* is bounded: no call when malloc would have nothing to return.          *)
FreshClusters ==
  IF NeedsFrontCluster(pool) /\ NeedsMalloc(pool) THEN Cluster \ heap ELSE {NULL}

(* A location that is taken with no allocated cluster is in none. *)
TakeWith(fresh) ==
  /\ live
  /\ pool' = TakeNextLocation(pool, fresh)
  /\ heap' = heap \cup ({fresh} \ {NULL})
  /\ used' = IF pool'.allocated.length = 0 THEN used
              ELSE used \cup {NextLocation(pool, fresh)}
  /\ UNCHANGED live

Take == \E fresh \in FreshClusters : TakeWith(fresh)

(* The assertion lets the last cluster go, which is the one being filled. *)
RemoveBack ==
  /\ live
  /\ pool.allocated.length # 0
  /\ pool' = RemoveBackCluster(pool)
  /\ heap' = heap \ FreedByRemove(pool)
  /\ used' = {l \in used : l \div pool.elementsPerCluster # Back(pool.allocated)}
  /\ UNCHANGED live

DestroyPool ==
  /\ live
  /\ heap' = heap \ FreedByDestroy(pool)
  /\ pool' = NoPool
  /\ live' = FALSE
  /\ used' = {}

Next ==
  \/ \E n \in ElementsPerCluster, m \in 0..MaxFreeClusters : InitPool(n, m)
  \/ Take
  \/ RemoveBack
  \/ DestroyPool

Spec == Init /\ [][Next]_vars

-----------------------------------------------------------------------------
allocated == Ring!Contents(pool.allocated)

(* The clusters in use, oldest first. *)
inUse == [i \in 1..Len(allocated) |-> pool.clusterLut[allocated[i]]]

(* Type invariant: both ring buffers are consistent with themselves. *)
TypeOK ==
  /\ Ring!IsBuffer(pool.allocated)
  /\ Ring!IsBuffer(pool.unallocated)
  /\ pool.clusterLut \in [DOMAIN pool.clusterLut -> Cluster \cup {NULL}]
  /\ pool.freeClusters \in Seq(Cluster)
  /\ pool.frontElementCount = pool.frontElementIndex
  /\ pool.frontElementIndex \in 0..pool.elementsPerCluster
  /\ heap \subseteq Cluster

(***************************************************************************)
(* Every index of the cluster table is in exactly one of the two ring      *)
(* buffers, once, however often clusters came and went and the table grew  *)
(* (what mp_initInitializesClusterFifos counts after mp_init).             *)
(***************************************************************************)
IndicesPartition ==
  live =>
    /\ Indices(pool.allocated) \cup Indices(pool.unallocated) = DOMAIN pool.clusterLut
    /\ pool.allocated.length + pool.unallocated.length = LutSize(pool)

(***************************************************************************)
(* The pool has each allocated cluster in one place, in use or spare, and  *)
(* no other: an index that is not allocated may still be beside a freed    *)
(* cluster in the table (removeBackCluster clears nothing), so mp_destroy  *)
(* neither leaks nor frees twice, and no spare is kept beyond the setting. *)
(***************************************************************************)
ClustersOwnedOnce ==
  /\ heap = ToSet(inUse) \cup ToSet(pool.freeClusters)
  /\ Cardinality(heap) = Len(inUse) + Len(pool.freeClusters)
  /\ Len(pool.freeClusters) <= pool.freeClusterCountMax

(***************************************************************************)
(* No two elements of allocated clusters share a location: the locations   *)
(* taken are as many as the calls that took them, in allocated clusters,   *)
(* and in the front one below frontElementIndex (takeNextLocation,         *)
(* addFrontCluster), until the table has grown to more locations than      *)
(* mp_id_t can tell apart: from then on the cut to its width may give two  *)
(* elements one location, however few are in use.                          *)
(***************************************************************************)
LocationsDistinct ==
  live /\ LutSize(pool) * pool.elementsPerCluster <= Shl1[IdBits] =>
    LET n == pool.elementsPerCluster
    IN  IF allocated = <<>> THEN used = {}
        ELSE /\ Cardinality(used) = (Len(allocated) - 1) * n + pool.frontElementIndex
             /\ \A l \in used : /\ l \div n \in Indices(pool.allocated)
                                /\ l \div n = Last(allocated) =>
                                     l % n < pool.frontElementIndex

(***************************************************************************)
(* A comment in takeNextLocation says of the front index: "it's the end of *)
(* allocatedClusterIndices".  The cluster a location is taken from without *)
(* a new one being added is allocated, then.  Not so after the last        *)
(* cluster was removed.                                                    *)
(***************************************************************************)
FrontIsEndOfAllocated ==
  live /\ ~NeedsFrontCluster(pool) => FrontClusterIndex(pool) \in Indices(pool.allocated)

-----------------------------------------------------------------------------
Queue == INSTANCE ClusterQueue WITH
  queue    <- inUse,
  spare    <- ToSet(pool.freeClusters),
  maxSpare <- pool.freeClusterCountMax,
  filled   <- pool.frontElementIndex,
  size     <- pool.elementsPerCluster,
  Sizes    <- ElementsPerCluster,
  MaxSpare <- MaxFreeClusters

(* Refinement: a queue of clusters, the last being filled, with spare ones. *)
ClusterQueueSpec == Queue!Spec
=============================================================================
