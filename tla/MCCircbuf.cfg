SPECIFICATION Spec
CONSTANTS
  IntBits = 8
  SizeBits = 8
  Elem = {e1, e2, e3, e4, e5}
  NULL = NULL
  MaxCapacityLog2 = 2
SYMMETRY ElemSymmetry
INVARIANTS
  TypeOK
  OwnedOnce
PROPERTIES
  FrontIsLastPut
  NeverFreesTaken
  FifoSpec
