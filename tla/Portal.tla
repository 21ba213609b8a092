------------------------------- MODULE Portal -------------------------------
(***************************************************************************)
(* GPUportal (gpubridge_portal.c) on GpuBridge-BLAS on the runtime: graphs *)
(* are submitted, or single products asked of GpuBridge-BLAS, by a client  *)
(* that may also use the runtime below them.  Everything runs in one       *)
(* thread, a call at a time, and any step of a call may fail.              *)
(***************************************************************************)
EXTENDS Blas

CONSTANTS
  Graphs,         (* What the client submits.                               *)
  Requests,       (* Products it asks of GpuBridge-BLAS.                    *)
  ClientKernels   (* Kernels it launches itself.                            *)

Ints == -(IntMax + 1) .. IntMax

\* A GpuBridgePortalOp, with a kind that is MATMUL or not.
Operation == [kind : {"matmul", "other"}, a : Arrays \cup {Null}, b : Arrays \cup {Null},
              output : Arrays \cup {Null}, m : Ints, k : Ints, n : Ints]

\* The arguments of gpuBridgeBlasSgemm().
Request == [kind : {"matmul", "other"}, a : Arrays \cup {Null}, b : Arrays \cup {Null},
            output : Arrays \cup {Null}, m : Ints, k : Ints, n : Ints, lda : Ints, ldb : Ints,
            ldc : Ints, transposed : BOOLEAN, scaling : {"one and zero", "two and one", "null"}]

ASSUME CallsAssumption ==
  /\ Graphs \subseteq Seq(Operation)
  /\ Requests \subseteq Request
  /\ ClientKernels \subseteq Kernels

VARIABLES
  pc,        (* "idle", or where in the call the library is                 *)
  caller,    (* whose handle the call uses                                  *)
  graph,     (* the graph of the call; of a single product, it alone        *)
  position,  (* the operation the call is at                                *)
  result     (* what the last call to evaluate something returned           *)

callVars == <<caller, graph>>
vars == <<session, handle_live, holders, touched, host, device, status, launched,
          pc, caller, graph, position, result>>

BlasStatuses ==
  {"success", "not initialized", "unsupported parameter", "invalid value", "execution failed"}
PortalStatuses == {"ok", "empty graph", "unsupported op", "blas error"}

TypeOK ==
  /\ session \in Sessions
  /\ handle_live \in BOOLEAN
  /\ holders \subseteq {"client", "portal"}
  /\ touched \in BOOLEAN
  /\ host \in [Arrays -> Values]
  /\ device \in [Operands -> Values \cup {NoTensor}]
  /\ status \in {"success", "execution failed"}
  /\ pc \in {"idle", "walk", "alloc a", "alloc b", "alloc c", "upload a", "upload b",
             "launch", "sync", "download", "cleanup"}
  /\ caller \in {"client", "portal"}
  /\ graph \in Graphs \cup {<<r>> : r \in Requests} \cup {<<>>}
  /\ position \in 0 .. Len(graph) + 1
  /\ result \in BlasStatuses \cup PortalStatuses

Init ==
  /\ BlasInit
  /\ pc = "idle"
  /\ caller = "client"
  /\ graph = <<>>
  /\ position = 0
  /\ result = "ok"

-----------------------------------------------------------------------------
(***************************************************************************)
(* What the client does between two calls                                  *)
(***************************************************************************)

ClientUnchanged == UNCHANGED <<device, status, pc, caller, graph, position, result>>

HostWrite(x, v) ==
  /\ pc = "idle"
  /\ host' = [host EXCEPT ![x] = v]
  /\ UNCHANGED <<handleVars, launched>> /\ ClientUnchanged

\* gpuBridgeBlasCreate() and gpuBridgeBlasDestroy() of a handle of its own,
\* gpuBridgePortalShutdown().
UseHandle ==
  /\ pc = "idle"
  /\ \/ BlasCreateSucceeds("client")
     \/ BlasCreateFails("client")
     \/ BlasDestroy("client")
     \/ BlasDestroy("portal")
  /\ launched' = NoKernel
  /\ UNCHANGED host /\ ClientUnchanged

\* gpuBridgeSetBackend(), gpuBridgeShutdown() or gpuBridgeInit(), however it ends.
UseSession ==
  /\ pc = "idle"
  /\ session' \in Sessions
  /\ touched' = handle_live
  /\ launched' = NoKernel
  /\ UNCHANGED <<handle_live, holders, host>> /\ ClientUnchanged

\* gpuBridgeLaunchKernel(), gpuBridgeLaunchTensorKernel()
LaunchKernel(k) ==
  /\ pc = "idle"
  /\ launched' = IF session # "none" /\ Validates(k) THEN k ELSE NoKernel
  /\ UNCHANGED <<handleVars, host>> /\ ClientUnchanged

-----------------------------------------------------------------------------
(***************************************************************************)
(* A call                                                                  *)
(***************************************************************************)

Begin(who, g) ==
  /\ caller' = who
  /\ graph' = g
  /\ position' = 1
  /\ pc' = "walk"
  /\ UNCHANGED result

Return(r) ==
  /\ pc' = "idle"
  /\ result' = r
  /\ graph' = <<>>
  /\ position' = 0
  /\ UNCHANGED caller

\* gpuBridgePortalSubmit(g), to its loop.
PortalSubmit(g) ==
  /\ pc = "idle"
  /\ launched' = NoKernel
  /\ UNCHANGED <<host, device, status>>
  /\ \/ g = <<>> /\ Return("empty graph") /\ UNCHANGED handleVars
     \/ /\ g # <<>> /\ "portal" \notin holders
        /\ BlasCreateFails("portal")
        /\ Return("blas error")
     \/ /\ g # <<>>
        /\ IF "portal" \in holders THEN UNCHANGED handleVars ELSE BlasCreateSucceeds("portal")
        /\ Begin("portal", g)

\* gpuBridgeBlasSgemm(r) by the client.
Sgemm(r) ==
  /\ pc = "idle"
  /\ launched' = NoKernel
  /\ Begin("client", <<r>>)
  /\ UNCHANGED <<handleVars, host, device, status>>

\* The product that the Portal asks for an operation.
Dispatched(op) ==
  [kind |-> op.kind, a |-> op.a, b |-> op.b, output |-> op.output,
   m |-> op.m, k |-> op.k, n |-> op.n, lda |-> op.k, ldb |-> op.n, ldc |-> op.n,
   transposed |-> FALSE, scaling |-> "one and zero"]

\* The product of the call's current operation.
Current == IF caller = "portal" THEN Dispatched(graph[position]) ELSE graph[position]

\* Mutant of SgemmReturns: the Portal's loop does not advance.
SgemmReturnsInPlace(st) ==
  IF caller = "client" THEN Return(st)
  ELSE IF st = "success"
    THEN pc' = "walk" /\ UNCHANGED <<callVars, position, result>>
    ELSE Return("blas error")

\* Sgemm() returns st: to the client, or into the Portal's loop.
SgemmReturns(st) ==
  IF caller = "client" THEN Return(st)
  ELSE IF st = "success"
    THEN pc' = "walk" /\ position' = position + 1 /\ UNCHANGED <<callVars, result>>
    ELSE Return("blas error")

GraphDone ==
  /\ pc = "walk"
  /\ position > Len(graph)
  /\ Return("ok")
  /\ UNCHANGED <<handleVars, host, device, status, launched>>

\* Of each operation, its kind is checked when its turn comes.
UnknownOperation ==
  /\ pc = "walk"
  /\ position <= Len(graph)
  /\ Current.kind # "matmul"
  /\ Return("unsupported op")
  /\ UNCHANGED <<handleVars, host, device, status, launched>>

SgemmStarts ==
  /\ pc = "walk"
  /\ position <= Len(graph)
  /\ Current.kind = "matmul"
  /\ LET st == IF caller \in holders THEN Refused(Current) ELSE "not initialized" IN
     IF st = "success" THEN pc' = "alloc a" /\ UNCHANGED <<callVars, position, result>>
                       ELSE SgemmReturns(st)
  /\ UNCHANGED <<handleVars, host, device, status, launched>>

\* Mutant of Failing: a failure to allocate does not go to cleanup.
FailingEarly(here) ==
  /\ pc = here
  /\ IF here \in {"alloc a", "alloc b", "alloc c"}
       THEN Return(IF caller = "client" THEN "execution failed" ELSE "blas error")
       ELSE pc' = "cleanup" /\ UNCHANGED <<callVars, position, result>>

\* goto cleanup
Failing(here) ==
  /\ pc = here
  /\ pc' = "cleanup"
  /\ UNCHANGED <<callVars, position, result>>

\* On to the next step.
Proceed(here, next) ==
  /\ pc = here
  /\ pc' = next
  /\ UNCHANGED <<callVars, position, result, handleVars>>

Alloc ==
  \/ Proceed("alloc a", "alloc b") /\ TensorAlloc("a")
  \/ Proceed("alloc b", "alloc c") /\ TensorAlloc("b")
  \/ Proceed("alloc c", "upload a") /\ TensorAlloc("c")

Upload ==
  \/ Proceed("upload a", "upload b") /\ CopyToDevice("a", Current.a)
  \/ Proceed("upload b", "launch") /\ CopyToDevice("b", Current.b)

Launch == Proceed("launch", "sync") /\ LaunchTensorKernel(Current)

\* Mutant of Synchronize: the tensors are given back before the copy to the host.
SynchronizeFrees ==
  Proceed("sync", "download") /\ device' = NoTensors /\ UNCHANGED <<host, status, launched>>

Synchronize == Proceed("sync", "download") /\ UNCHANGED <<host, device, status, launched>>

Download == Proceed("download", "cleanup") /\ CopyToHost(Current.output)

DownloadFails ==
  Failing("download") /\ CopyToHostFails(Current.output) /\ UNCHANGED handleVars

StepFails ==
  /\ \E here \in {"alloc a", "alloc b", "alloc c", "upload a", "upload b", "launch", "sync"} :
       Failing(here)
  /\ Fails
  /\ UNCHANGED handleVars

\* Mutant of Cleanup: the Portal's loop does not look at what Sgemm() returns.
CleanupUnchecked ==
  /\ pc = "cleanup"
  /\ device' = NoTensors
  /\ status' = "success"
  /\ SgemmReturns(IF caller = "portal" THEN "success" ELSE status)
  /\ UNCHANGED <<handleVars, host, launched>>

\* gpuBridgeTensorFree() of the three, of which those never allocated are zeroed
\* descriptors that it ignores.
Cleanup ==
  /\ pc = "cleanup"
  /\ device' = NoTensors
  /\ status' = "success"
  /\ SgemmReturns(status)
  /\ UNCHANGED <<handleVars, host, launched>>

ClientNext ==
  \/ \E x \in Arrays, v \in Values : HostWrite(x, v)
  \/ UseHandle \/ UseSession
  \/ \E k \in ClientKernels : LaunchKernel(k)
  \/ \E g \in Graphs : PortalSubmit(g)
  \/ \E r \in Requests : Sgemm(r)

LibraryNext ==
  \/ GraphDone \/ UnknownOperation \/ SgemmStarts
  \/ Alloc \/ Upload \/ Launch \/ Synchronize \/ Download
  \/ StepFails \/ DownloadFails
  \/ Cleanup

Next == ClientNext \/ LibraryNext

SafeSpec == Init /\ [][Next]_vars

\* A call does not stop half-way: the client waits for it.
Spec == SafeSpec /\ WF_vars(LibraryNext)

-----------------------------------------------------------------------------
(***************************************************************************)
(* Properties                                                              *)
(***************************************************************************)

\* Whatever step of a call failed, once it has returned none of its device
\* tensors is left (gpubridge_blas.c:263, zero-initialized "so
\* gpuBridgeTensorFree() below is a safe no-op").
NothingLeft == pc = "idle" => device = NoTensors

\* At most one handle is in anybody's hands, and it is the live one: what either
\* layer does with a handle never ends a session under the other's.
UniqueHandle ==
  /\ \A h, g \in holders : h = g
  /\ holders # {} => handle_live

\* While a handle is live the session is OpenCL's, unless the client has itself
\* changed it ("its existence also represents an OpenCL session is live",
\* gpubridge_blas.c:116).
PinnedWhileLeft == handle_live /\ ~touched => session = "opencl"

\* What the backends may count on of a kernel whose sizes and products of sizes are
\* within the machine's: it works on elements its arguments have, and on all those
\* of its output unless it is a sum.
Sound(k) ==
  LET d == DeviceDimensions(k)
      count(i) == ElementCount(k.args[i].rank, k.args[i].shape)
      output == IF k.op = "broadcast_add" THEN 1 ELSE Len(k.args) IN
  (/\ \A i \in 1 .. Len(k.args) :
        k.args[i].rank = 2 => k.args[i].shape[1] * k.args[i].shape[2] < SizeMod
   /\ \A i \in 1 .. Len(Dimensions(k)) : Dimensions(k)[i] <= IntMax)
  => /\ Len(k.args) = Len(Extent(k.op, d))
     /\ \A i \in 1 .. Len(k.args) :
          /\ Extent(k.op, d)[i] <= count(i)
          /\ i = output /\ k.op # "reduce_sum" => Extent(k.op, d)[i] = count(i)

\* What the validators let through is sound, whichever argument of a description is
\* wrong ("so every case below can trust kernel->args' shapes",
\* gpubridge_runtime.c:899).
LaunchSound == launched # NoKernel => Sound(launched)

\* A failed product is on its way back.
Lost == pc = "cleanup" /\ status # "success"

EvalGraph == IF Lost THEN <<>> ELSE graph

EvalDone ==
  CASE Lost \/ position = 0 -> 0
    [] pc = "cleanup" /\ status = "success" -> position
    [] OTHER -> position - 1

EvalVerdict ==
  CASE pc = "idle" -> IF result \in {"ok", "success"} THEN "ok" ELSE "failed"
    [] Lost -> "failed"
    [] OTHER -> "pending"

\* Is the device of session s up to the product of an m x k and a k x n matrix: can it
\* index each of the three, and, on Vulkan, bind and cover them?
Capable(s, m, k, n) ==
  /\ s = "opencl" => \A size \in {m * k, k * n, m * n} : size <= IntMax + 1
  /\ s = "vulkan" => /\ \A size \in {m * k, k * n, m * n} :
                          size <= 2 * (IntMax + 1) /\ 4 * size <= MaxRange
                     /\ \A size \in {m, n} : size <= MaxGroups * GroupWidth

Evaluation == INSTANCE GraphEvaluation WITH
  Graphs <- Graphs \cup {<<r>> : r \in Requests},
  graph <- EvalGraph, done <- EvalDone, verdict <- EvalVerdict

\* Graphs and single products evaluate in order, each operation on what the
\* earlier ones left in the host's arrays; "ok" means all of them, and a failure
\* loses nothing but the output of the operation that failed.  An operation that is
\* too large for the session's device yields anything, and "ok" nevertheless.
ImplementsGraphEvaluation == Evaluation!Spec

\* Every call returns.
CallsReturn == pc # "idle" ~> pc = "idle"

=============================================================================
