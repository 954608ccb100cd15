SPECIFICATION MempoolSpec
CONSTANTS
  IntBits = 16
  SizeBits = 16
  WordLog2 = 4
  IdBits = 16
  BlockLog2 = 4
  Cluster = {c1, c2, c3, c4}
  NULL = NULL
  ElementsPerCluster <- MCElementsPerCluster
  MaxFreeClusters = 0
  Settings <- MCSettings
  AskedIds <- MCAskedIds
SYMMETRY ClusterSymmetry
INVARIANTS
  StoresDistinct
