SPECIFICATION Spec
CONSTANTS
  t1 = t1
  t2 = t2
  Staging = Staging
  NoValue = NoValue
  Tensors <- MCTensors
  Values <- MCValues
  Kernels <- MCKernels
  Arity <- MCArity
  Output <- MCOutput
  Compute <- MCCompute
  WaitsFail = TRUE
PROPERTIES
  DeviceUndisturbed
