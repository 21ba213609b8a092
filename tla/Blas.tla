-------------------------------- MODULE Blas --------------------------------
(***************************************************************************)
(* GpuBridge-BLAS (gpubridge_blas.c): the one handle, the runtime session  *)
(* it pins, and the steps of one single-precision product.                 *)
(*                                                                         *)
(* Of the runtime this module keeps which backend is in session and the    *)
(* tensors of the product.  The device is atomic: OpenclQueue and          *)
(* VulkanSubmit show that OpenCL's and Vulkan's look so to a caller.       *)
(***************************************************************************)
EXTENDS KernelIR

CONSTANTS
  Arrays, Null,            (* The host's arrays; a NULL pointer.             *)
  Values,                  (* What an array or a tensor may hold.            *)
  NoTensor, NoKernel,
  Product(_, _, _, _, _),  (* Product(m, k, n, v, w): of v [m, k], w [k, n]. *)
  GroupWidth,              (* Rows, or columns, of a work group: 16.         *)
  MaxGroups,               (* The Vulkan device's maxComputeWorkGroupCount   *)
  MaxRange                 (* and maxStorageBufferRange.                     *)

ASSUME LimitsAssumption ==
  GroupWidth \in Nat \ {0} /\ MaxGroups \in Nat /\ MaxRange \in Nat

ASSUME ProductAssumption ==
  \A m, k, n \in 1 .. IntMax, v, w \in Values : Product(m, k, n, v, w) \in Values

ASSUME NamesAssumption == Null \notin Arrays /\ NoTensor \notin Values

VARIABLES
  session,      (* the backend in session                                   *)
  handle_live,  (* g_handle_live                                            *)
  holders,      (* whose handle variable is not NULL                        *)
  touched,      (* history: another call has changed the session since the  *)
                (* live handle was created                                  *)
  host,         (* the arrays                                               *)
  device,       (* a_dev, b_dev, c_dev                                      *)
  status,       (* gpuBridgeBlasSgemm()'s local                             *)
  launched      (* history: the kernel the last call gave to the backend    *)

handleVars == <<session, handle_live, holders, touched>>

Sessions == {"none", "cpu", "opencl", "vulkan"}
Operands == {"a", "b", "c"}
NoTensors == [x \in Operands |-> NoTensor]

BlasInit ==
  /\ session = "none"
  /\ handle_live = FALSE
  /\ holders = {}
  /\ touched = FALSE
  /\ host \in [Arrays -> Values]
  /\ device = NoTensors
  /\ status = "success"
  /\ launched = NoKernel

-----------------------------------------------------------------------------
(***************************************************************************)
(* The handle                                                              *)
(***************************************************************************)

\* Mutant of BlasCreateSucceeds: g_handle_live is not looked at.
BlasCreateAgain(h) ==
  /\ session' = "opencl"
  /\ handle_live' = TRUE
  /\ holders' = holders \cup {h}
  /\ touched' = FALSE

\* gpuBridgeBlasCreate() into h's variable.
BlasCreateSucceeds(h) ==
  /\ ~handle_live
  /\ session' = "opencl"
  /\ handle_live' = TRUE
  /\ holders' = holders \cup {h}
  /\ touched' = FALSE

\* Mutant of BlasCreateFails: gpuBridgeSetBackend()'s result is not looked at.
BlasCreateUnpinned(h) ==
  \/ /\ holders' = holders \ {h}
     /\ UNCHANGED <<session, handle_live, touched>>
  \/ /\ ~handle_live
     /\ session' = "none"
     /\ handle_live' = TRUE
     /\ holders' = holders \cup {h}
     /\ touched' = FALSE

\* h's variable is NULL, also when it is the one that held the live handle.  With
\* no handle live, memory may run out, or OpenCL be unavailable, which ends the
\* session that was open.
BlasCreateFails(h) ==
  /\ holders' = holders \ {h}
  /\ \/ UNCHANGED session
     \/ ~handle_live /\ session' = "none"
  /\ UNCHANGED <<handle_live, touched>>

\* gpuBridgeBlasDestroy(); the holder forgets the handle.
BlasDestroy(h) ==
  /\ h \in holders
  /\ session' = "none"
  /\ handle_live' = FALSE
  /\ holders' = holders \ {h}
  /\ touched' = FALSE

-----------------------------------------------------------------------------
(***************************************************************************)
(* gpuBridgeBlasSgemm(p)                                                   *)
(***************************************************************************)

\* What it returns before it touches the device; "success" if it goes on.
Refused(p) ==
  CASE p.transposed -> "unsupported parameter"
    [] p.scaling = "null" -> "invalid value"
    [] p.scaling # "one and zero" -> "unsupported parameter"
    [] Null \in {p.a, p.b, p.output} -> "invalid value"
    [] p.m <= 0 \/ p.n <= 0 \/ p.k <= 0 -> "invalid value"
    [] p.lda # p.k \/ p.ldb # p.n \/ p.ldc # p.n -> "invalid value"
    [] OTHER -> "success"

\* The kernel it launches, and the shapes it allocates.
MatmulOf(p) == InitMatmulF32(p.m, p.k, p.n)
ArgOf(p, x) == MatmulOf(p).args[CASE x = "a" -> 1 [] x = "b" -> 2 [] x = "c" -> 3]

\* gpuBridgeTensorAlloc(), of whatever size: the new tensor holds anything.
TensorAlloc(x) ==
  /\ session # "none"
  /\ \E v \in Values : device' = [device EXCEPT ![x] = v]
  /\ UNCHANGED <<host, status, launched>>

\* gpuBridgeMemcpy() to the device.
CopyToDevice(x, array) ==
  /\ device' = [device EXCEPT ![x] = host[array]]
  /\ UNCHANGED <<host, status, launched>>

\* The work groups that cover n rows or columns.
Groups(n) == (n + GroupWidth - 1) \div GroupWidth

\* Does Vulkan define what a dispatch of these groups to these buffers does?
Dispatchable(k, d) ==
  /\ Groups(d[1]) <= MaxGroups /\ Groups(d[3]) <= MaxGroups
  /\ \A i \in 1 .. Len(k.args) : Bytes(k.args[i].rank, k.args[i].shape) <= MaxRange

\* Does the session's device surely compute what the kernel says?  The indexes are of
\* type int in the OpenCL kernel (which CLBlast may replace) and of type uint in the
\* Vulkan shader; nobody compares any of this before a launch.
Computes(k, d) ==
  /\ BuffersFit(k, d)
  /\ session = "opencl" => IndexesFit(k.op, d, IntMax + 1)
  /\ session = "vulkan" => IndexesFit(k.op, d, 2 * (IntMax + 1)) /\ Dispatchable(k, d)

\* gpuBridgeLaunchTensorKernel().  A kernel that cannot reach its elements, or goes
\* beyond its buffers or the limits of its device, may leave anything in the output.
LaunchTensorKernel(p) ==
  LET k == MatmulOf(p)
      d == IF session = "cpu" THEN Dimensions(k) ELSE DeviceDimensions(k) IN
  /\ ValidateTensorKernel(k)
  /\ launched' = k
  /\ \E v \in Values :
       /\ Computes(k, d) => v = Product(d[1], d[2], d[3], device["a"], device["b"])
       /\ device' = [device EXCEPT !["c"] = v]
  /\ UNCHANGED <<host, status>>

\* gpuBridgeMemcpy() to the host.
CopyToHost(array) ==
  /\ host' = [host EXCEPT ![array] = device["c"]]
  /\ UNCHANGED <<device, status, launched>>

\* It fails, part of the way.
CopyToHostFails(array) ==
  /\ \/ UNCHANGED host
     \/ \E v \in Values : host' = [host EXCEPT ![array] = v]
  /\ status' = "execution failed"
  /\ UNCHANGED <<device, launched>>

\* Any other call fails.
Fails == status' = "execution failed" /\ UNCHANGED <<host, device, launched>>

=============================================================================
