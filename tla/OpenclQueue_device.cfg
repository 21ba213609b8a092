SPECIFICATION Spec
CONSTANTS
  t1 = t1
  t2 = t2
  b1 = b1
  b2 = b2
  NoBlock = NoBlock
  NoValue = NoValue
  Tensors <- MCTensors
  Blocks <- MCBlocks
  Values <- MCValues
  Kernels <- MCKernels
  Arity <- MCArity
  Output <- MCOutput
  Compute <- MCCompute
  MaxQueued = 2
INVARIANTS
  TypeOK
PROPERTIES
  ImplementsSyncDevice
  SyncSettles
  CallsReturn
