SPECIFICATION Spec
CONSTANTS
  IntBits = 16
  SizeBits = 16
  BlockLog2 = 3
  MaxLog2 = 7
  MakeSizes <- MCMakeSizes
  Touched <- MCTouched
INVARIANTS
  TypeOK
  RowsFit
  RowsSummarise
  FirstIsLeast
PROPERTIES
  IndexSetSpec
