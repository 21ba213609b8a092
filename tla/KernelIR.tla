------------------------------ MODULE KernelIR ------------------------------
(***************************************************************************)
(* The kernel descriptions of gpubridge_ir.c: what the builders make, what *)
(* the validators accept, and what a launch then hands to a device whose   *)
(* kernels count in int, in the widths of the machine.                     *)
(***************************************************************************)
EXTENDS Integers, Sequences

CONSTANTS
  IntMax,  (* INT_MAX: of int, int32_t and cl_int.                          *)
  SizeMod  (* One more than SIZE_MAX.                                       *)

\* A size_t is more than twice as wide as an int (LP64: 31 bits and 64).
ASSUME WidthAssumption ==
  /\ IntMax \in Nat \ {0}
  /\ SizeMod \in Nat
  /\ 4 * (IntMax * IntMax) < SizeMod

\* (int32_t)n, (cl_int)n
AsInt(n) ==
  LET low == n % (2 * (IntMax + 1)) IN
  IF low <= IntMax THEN low ELSE low - 2 * (IntMax + 1)

-----------------------------------------------------------------------------
(***************************************************************************)
(* Arguments and kernels.  A kernel for vector_add_f32 is a                *)
(* GpuBridgeKernelIR: its arguments have a length, and only its global     *)
(* size, the lanes, is ever read.                                          *)
(***************************************************************************)

Ops == {"vector_add", "matmul", "reduce_sum", "broadcast_add", "relu", "other"}

Arguments == [f32 : BOOLEAN, rank : Int, shape : Nat \X Nat, use : {"in", "out", "inout"}]

\* `given` is the number of arguments the call brings.
Kernels ==
  {k \in [op : Ops, args : Seq(Arguments), given : Nat, lanes : Nat] :
     k.op = "vector_add" => \A i \in 1 .. Len(k.args) : k.args[i].rank = 1}

F32(rank, rows, cols, use) ==
  [f32 |-> TRUE, rank |-> rank, shape |-> <<rows, cols>>, use |-> use]

\* tensor_element_count()
ElementCount(rank, shape) ==
  IF rank = 1 THEN shape[1] ELSE (shape[1] * shape[2]) % SizeMod

\* What tensor_alloc_impl() asks the backend for.
Bytes(rank, shape) == (4 * ElementCount(rank, shape)) % SizeMod

Kernel(op, args, lanes) == [op |-> op, args |-> args, given |-> Len(args), lanes |-> lanes]

InitVectorAddF32(n) ==
  Kernel("vector_add", <<F32(1, n, 0, "in"), F32(1, n, 0, "in"), F32(1, n, 0, "out")>>, n)

InitMatmulF32(m, k, n) ==
  Kernel("matmul", <<F32(2, m, k, "in"), F32(2, k, n, "in"), F32(2, m, n, "out")>>, 0)

InitReduceSumF32(n) ==
  Kernel("reduce_sum", <<F32(1, n, 0, "in"), F32(1, 1, 0, "out")>>, 0)

InitBroadcastAddF32(rows, cols) ==
  Kernel("broadcast_add", <<F32(2, rows, cols, "inout"), F32(1, cols, 0, "in")>>, 0)

InitReluF32(rank, shape) ==
  LET cols == IF rank = 2 THEN shape[2] ELSE 0 IN
  Kernel("relu", <<F32(rank, shape[1], cols, "in"), F32(rank, shape[1], cols, "out")>>, 0)

-----------------------------------------------------------------------------
(***************************************************************************)
(* Validation                                                              *)
(***************************************************************************)

\* Mutant of Conforms: the shape of a product is not looked at.
ConformsInside(k) ==
  LET arg(i) == k.args[i]
      dim(i, d) == k.args[i].shape[d] IN
  CASE k.op = "matmul" ->
         /\ Len(k.args) = 3 /\ k.given = 3
         /\ \A i \in 1 .. 3 : arg(i).rank = 2
         /\ dim(1, 2) = dim(2, 1)
    [] k.op = "reduce_sum" ->
         Len(k.args) = 2 /\ k.given = 2 /\ dim(2, 1) = 1
    [] k.op = "broadcast_add" ->
         /\ Len(k.args) = 2 /\ k.given = 2
         /\ arg(1).rank = 2
         /\ dim(2, 1) = dim(1, 2)
    [] k.op = "relu" ->
         /\ Len(k.args) = 2 /\ k.given = 2
         /\ arg(1).rank = arg(2).rank /\ arg(1).shape = arg(2).shape
    [] OTHER -> FALSE

\* The checks of each operation.  REDUCE_SUM has none of its ranks, nor
\* BROADCAST_ADD of the bias'.
Conforms(k) ==
  LET arg(i) == k.args[i]
      dim(i, d) == k.args[i].shape[d] IN
  CASE k.op = "matmul" ->
         /\ Len(k.args) = 3 /\ k.given = 3
         /\ \A i \in 1 .. 3 : arg(i).rank = 2
         /\ dim(1, 2) = dim(2, 1)
         /\ dim(3, 1) = dim(1, 1) /\ dim(3, 2) = dim(2, 2)
    [] k.op = "reduce_sum" ->
         Len(k.args) = 2 /\ k.given = 2 /\ dim(2, 1) = 1
    [] k.op = "broadcast_add" ->
         /\ Len(k.args) = 2 /\ k.given = 2
         /\ arg(1).rank = 2
         /\ dim(2, 1) = dim(1, 2)
    [] k.op = "relu" ->
         /\ Len(k.args) = 2 /\ k.given = 2
         /\ arg(1).rank = arg(2).rank /\ arg(1).shape = arg(2).shape
    [] OTHER -> FALSE

\* The checks of every argument.
WellShaped(arg) ==
  /\ arg.f32
  /\ arg.rank \in {1, 2}
  /\ arg.shape[1] # 0
  /\ arg.rank = 2 => arg.shape[2] # 0

ValidateTensorKernel(k) == (\A i \in 1 .. Len(k.args) : WellShaped(k.args[i])) /\ Conforms(k)

ValidateKernel(k) ==
  /\ k.op = "vector_add"
  /\ Len(k.args) = 3 /\ k.given = 3
  /\ k.lanes # 0
  /\ \A i \in 1 .. 3 : /\ k.args[i].f32
                       /\ k.args[i].shape[1] = k.lanes
                       /\ k.args[i].use = IF i = 3 THEN "out" ELSE "in"

\* gpuBridgeLaunchKernel() serves vector_add_f32, gpuBridgeLaunchTensorKernel() the rest.
Validates(k) == ValidateKernel(k) \/ ValidateTensorKernel(k)

-----------------------------------------------------------------------------
(***************************************************************************)
(* Launch                                                                  *)
(***************************************************************************)

\* The sizes a launch passes to the backend: m, k, n; n; rows, cols; count; n.
Dimensions(k) ==
  CASE k.op = "matmul" -> <<k.args[1].shape[1], k.args[1].shape[2], k.args[2].shape[2]>>
    [] k.op = "reduce_sum" -> <<k.args[1].shape[1]>>
    [] k.op = "broadcast_add" -> k.args[1].shape
    [] k.op = "relu" -> <<ElementCount(k.args[1].rank, k.args[1].shape)>>
    [] OTHER -> <<k.lanes>>

\* What the backend passes on to the device.
DeviceDimensions(k) == [i \in 1 .. Len(Dimensions(k)) |-> AsInt(Dimensions(k)[i])]

\* How many elements of each argument a kernel with the sizes d works on, from the
\* first to the last.
Extent(op, d) ==
  CASE op = "matmul" -> <<d[1] * d[2], d[2] * d[3], d[1] * d[3]>>
    [] op = "reduce_sum" -> <<d[1], 1>>
    [] op = "broadcast_add" -> <<d[1] * d[2], d[2]>>
    [] op = "relu" -> <<d[1], d[1]>>
    [] OTHER -> <<d[1], d[1], d[1]>>

\* Can indexes of a type with so many numbers from 0 on reach all of them?
IndexesFit(op, d, numbers) == \A i \in 1 .. Len(Extent(op, d)) : Extent(op, d)[i] <= numbers

\* Do the buffers allocated for the arguments hold them?
BuffersFit(k, d) ==
  \A i \in 1 .. Len(k.args) :
    4 * Extent(k.op, d)[i] <= Bytes(k.args[i].rank, k.args[i].shape)

=============================================================================
