SPECIFICATION Spec
CONSTANTS
  IntBits = 3
  SizeBits = 6
  Elem = {e1, e2, e3, e4, e5}
  NULL = NULL
  MaxCapacityLog2 = 2
SYMMETRY ElemSymmetry
INVARIANTS
  StorageHoldsWindow
