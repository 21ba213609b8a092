SPECIFICATION Spec
CONSTANTS
  x = x
  y = y
  Null = Null
  NoTensor = NoTensor
  NoKernel = NoKernel
  IntMax = 7
  SizeMod = 256
  GroupWidth = 2
  MaxGroups = 2
  MaxRange = 48
  Arrays <- MCArrays
  Values <- MCValues
  Product <- MCProduct
  Graphs <- MCGraphs
  Requests <- MCRequests
  ClientKernels <- MCClientKernels
INVARIANTS
  TypeOK
  NothingLeft
  UniqueHandle
  PinnedWhileLeft
  LaunchSound
PROPERTIES
  ImplementsGraphEvaluation
  CallsReturn
