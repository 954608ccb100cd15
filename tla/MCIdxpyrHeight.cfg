SPECIFICATION Spec
CONSTANTS
  IntBits = 8
  SizeBits = 8
  BlockLog2 = 3
  MaxLog2 = 7
  MakeSizes <- MCMakeSizes
  Touched <- MCTouched
INVARIANTS
  HeightFits
