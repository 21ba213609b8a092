SPECIFICATION AnyClientSpec
CONSTANTS
  t1 = t1
  t2 = t2
  p1 = p1
  p2 = p2
  p3 = p3
  cpu = cpu
  vulkan = vulkan
  NoBackend = NoBackend
  Gone = Gone
  NullPtr = NullPtr
  Tensors <- MCTensors
  Ptrs <- MCTwoPtrs
  Backends <- MCBackends
  Volatile <- MCVolatile
  Shapes <- MCTwoShapes
  Sizes <- MCSizes
  RawSizes <- MCRawSizes
  CapsOf <- MCCapsOf
  SizeModulus = 64
  MaxAllocs = 3
  MaxAliases = 1
SYMMETRY MCSmallSymmetry
CHECK_DEADLOCK FALSE
PROPERTIES
  HandoutsOwned
