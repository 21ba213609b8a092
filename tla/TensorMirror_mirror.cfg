SPECIFICATION Spec
CONSTANTS
  m1 = m1
  m2 = m2
  b1 = b1
  b2 = b2
  x = x
  y = y
  NoBlock = NoBlock
  NoArray = NoArray
  Mirrors <- MCMirrors
  Blocks <- MCBlocks
  Values <- MCValues
  Cells = {1, 2}
  MaxMarks = 3
SYMMETRY Symmetry
INVARIANTS
  TypeOK
  LazyTransfers
PROPERTIES
  ImplementsMirroredArray
