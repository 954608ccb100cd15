SPECIFICATION Spec
CONSTANTS
  Name = {u, w}
  Val = {x, y}
  NULL = NULL
  Reserved = {1, 3}
  Index = {0, 2}
  MaxSize = 3
SYMMETRY Interchangeable
INVARIANTS
  TypeOK
PROPERTIES
  VectorSpec
