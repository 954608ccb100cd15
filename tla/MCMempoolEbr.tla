---------------------------- MODULE MCMempoolEbr ----------------------------
(***************************************************************************)
(* MempoolEbr for TLC: settings that fail, settings whose elementsPer-     *)
(* Cluster is a power of two or has to become one; clusters are            *)
(* interchangeable, so a symmetry set.                                     *)
(***************************************************************************)
EXTENDS MempoolEbr

MCSettings ==
  [elementSize : {0, 1, 2}, elementsPerCluster : {0, 2, 3, 4, 7},
   freeClusterCountMax : {0}]
MCElementsPerCluster == {Shl1[k] : k \in 0..(IntBits - 2)}
MCAskedIds == {1, 16, 65535}
ClusterSymmetry == Permutations(Cluster)
=============================================================================
