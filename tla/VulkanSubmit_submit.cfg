SPECIFICATION Spec
CONSTANTS
  t1 = t1
  t2 = t2
  Staging = Staging
  NoValue = NoValue
  Tensors <- MCTensors
  Values <- MCValues
  Kernels <- MCKernels
  Arity <- MCArity
  Output <- MCOutput
  Compute <- MCCompute
  WaitsFail = FALSE
INVARIANTS
  TypeOK
  NoResidue
PROPERTIES
  DeviceUndisturbed
  ResultsHonest
  ImplementsSyncDevice
  CallsReturn
