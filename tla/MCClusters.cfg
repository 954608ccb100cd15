SPECIFICATION Spec
CONSTANTS
  IntBits = 16
  SizeBits = 16
  IdBits = 3
  Cluster = {c1, c2, c3, c4, c5}
  NULL = NULL
  ElementsPerCluster <- MCElementsPerCluster
  MaxFreeClusters = 2
SYMMETRY ClusterSymmetry
VIEW WithoutLeftovers
INVARIANTS
  TypeOK
  IndicesPartition
  ClustersOwnedOnce
  LocationsDistinct
PROPERTIES
  ClusterQueueSpec
