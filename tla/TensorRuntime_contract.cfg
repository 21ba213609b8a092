SPECIFICATION Spec
CONSTANTS
  t1 = t1
  t2 = t2
  p1 = p1
  p2 = p2
  p3 = p3
  cpu = cpu
  vulkan = vulkan
  NoBackend = NoBackend
  Gone = Gone
  NullPtr = NullPtr
  Tensors <- MCTensors
  Ptrs <- MCPtrs
  Backends <- MCBackends
  Volatile <- MCVolatile
  Shapes <- MCShapes
  Sizes <- MCSizes
  RawSizes <- MCRawSizes
  CapsOf <- MCCapsOf
  SizeModulus = 64
  MaxAllocs = 3
  MaxAliases = 1
SYMMETRY MCSymmetry
INVARIANTS
  TypeOK
  PoolIntegrity
  TensorsBacked
  ExclusiveBlocks
  NoLeak
  NoUndefined
  CountsBalance
  PeakCoversFootprint
PROPERTIES
  ImplementsStore
  PeakTracksFootprint
