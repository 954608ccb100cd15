----------------------------- MODULE MCClusters -----------------------------
(***************************************************************************)
(* Clusters for TLC.  The clusters are interchangeable, so a symmetry set. *)
(* States that differ only in what is left in the table at unallocated     *)
(* indices are seen as one: addFrontCluster writes an entry before its     *)
(* index is allocated, and nothing else reads it.                          *)
(***************************************************************************)
EXTENDS Clusters

MCElementsPerCluster == {1, 2}
ClusterSymmetry == Permutations(Cluster)

WithoutLeftovers ==
  <<[pool EXCEPT !.clusterLut = [i \in Indices(pool.allocated) |-> @[i]]],
    LutSize(pool), live, heap, used>>
=============================================================================
