SPECIFICATION ForeachSpec
CONSTANTS
  Key = {"a", "b", "c", "d"}
  Val = {v1, v2}
  MISSING = MISSING
  Hash <- MCHash
  Asked = {1, 8}
  MaxBuckets = 8
  KhintBits = 8
VIEW WithoutLeftovers
INVARIANTS
  TypeOK
  LiveIsFound
  CountsRight
  ProbeEnds
  RehashKeepsMap
  VisitedOnce
PROPERTIES
  KeyedStoreSpec
