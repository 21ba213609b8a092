---------------------------- MODULE OpenclQueue ----------------------------
(***************************************************************************)
(* The OpenCL backend within one session: kernel launches that return      *)
(* before the kernel has run, blocking copies and clFinish() on the one    *)
(* in-order command queue, and a runtime that hands freed blocks on while  *)
(* commands that use them still wait.  The host thread and the device are  *)
(* the two processes.                                                      *)
(*                                                                         *)
(* Blocks have one size here (TensorPool has sizes) and a value each.  A   *)
(* call that the driver refuses changes nothing but the arguments already  *)
(* bound; a command it has accepted is not modelled to fail.               *)
(***************************************************************************)
EXTENDS Naturals, Sequences, SequencesExt

CONSTANTS
  Tensors,        (* The client's descriptors.                              *)
  Blocks,         (* Device memory: what clCreateBuffer() returns.          *)
  NoBlock,
  Values,         (* What a block, or the client's array, contains.         *)
  NoValue,
  Kernels,        (* The cl_kernel objects, one for each operation.         *)
  Arity,          (* How many buffers a kernel takes,                       *)
  Output,         (* and which one of them it writes.                       *)
  Compute(_, _),  (* What it writes, from the contents of all of them.      *)
  MaxQueued       (* Bound: commands in the queue when a kernel is launched. *)

Copies == {"write", "read"}

ASSUME NoBlockAssumption == NoBlock \notin Blocks
ASSUME NoValueAssumption == NoValue \notin Values
ASSUME KernelsAssumption ==
  /\ Kernels \cap Copies = {}
  /\ Arity \in [Kernels -> Nat]
  /\ Output \in [Kernels -> Nat]
  /\ \A k \in Kernels : Output[k] \in 1 .. Arity[k]
ASSUME ComputeAssumption ==
  \A k \in Kernels : \A s \in [1 .. Arity[k] -> Values] : Compute(k, s) \in Values
ASSUME BoundAssumption == MaxQueued \in Nat

VARIABLES
  block,        (* the block of each tensor, or NoBlock                     *)
  pooled,       (* the blocks in the runtime's pool                         *)
  content,      (* what the device's memory holds now                       *)
  promised,     (* what it will hold when the queue has run: a history      *)
                (* of the accepted calls, which no code reads               *)
  kernel_args,  (* the buffers bound to each cl_kernel by clSetKernelArg()  *)
  queue,        (* accepted commands the device has not finished            *)
  submitted,    (* how many of them, from the head, it has been given       *)
  call,         (* the call the host thread is blocked in, or "none"        *)
  host          (* the client's array                                       *)

vars == <<block, pooled, content, promised, kernel_args, queue, submitted, call, host>>

Resident == {t \in Tensors : block[t] # NoBlock}
Held == {block[t] : t \in Resident}

\* A kernel's command is named by the kernel; the buffers are those that were
\* bound to it when it was enqueued.
ArgsOf(op) == IF op \in Kernels THEN [1 .. Arity[op] -> Blocks] ELSE [1 .. 1 -> Blocks]
Commands == UNION {[op : {op}, args : ArgsOf(op)] : op \in Kernels \cup Copies}

BoundTo(k) == [1 .. Arity[k] -> Blocks \cup {NoBlock}]

TypeOK ==
  /\ block \in [Tensors -> Blocks \cup {NoBlock}]
  /\ pooled \in SUBSET Blocks
  /\ content \in [Blocks -> Values]
  /\ promised \in [Blocks -> Values]
  /\ DOMAIN kernel_args = Kernels
  /\ \A k \in Kernels : kernel_args[k] \in BoundTo(k)
  /\ queue \in Seq(Commands)
  /\ submitted \in 0 .. Len(queue)
  /\ call \in {"none", "write", "read", "sync"}
  /\ host \in Values

Init ==
  /\ block = [t \in Tensors |-> NoBlock]
  /\ pooled = {}
  /\ content \in [Blocks -> Values]
  /\ promised = content
  /\ kernel_args = [k \in Kernels |-> [i \in 1 .. Arity[k] |-> NoBlock]]
  /\ queue = <<>>
  /\ submitted = 0
  /\ call = "none"
  /\ host \in Values

-----------------------------------------------------------------------------
(***************************************************************************)
(* The device                                                              *)
(***************************************************************************)

\* The memory m after a command, if the client's array holds h when it runs.
Effect(c, m, h) ==
  IF c.op \in Kernels
    THEN [m EXCEPT ![c.args[Output[c.op]]] =
            Compute(c.op, [i \in 1 .. Arity[c.op] |-> m[c.args[i]]])]
  ELSE IF c.op = "write" THEN [m EXCEPT ![c.args[1]] = h]
  ELSE m

\* Mutant of Runs: a queue made with CL_QUEUE_OUT_OF_ORDER_EXEC_MODE_ENABLE.
RunsOutOfOrder(i) == i \in 1 .. submitted

\* The command the device may run: the queue has no properties, so it is in order.
Runs(i) == i = 1 /\ submitted > 0

\* The device runs a command.
DeviceStep ==
  \E i \in DOMAIN queue :
    /\ Runs(i)
    /\ content' = Effect(queue[i], content, host)
    /\ host' = IF queue[i].op = "read" THEN content[queue[i].args[1]] ELSE host
    /\ queue' = RemoveAt(queue, i)
    /\ submitted' = submitted - 1
    /\ UNCHANGED <<block, pooled, promised, kernel_args, call>>

\* The driver passes commands on whenever it likes; only a blocking call makes it.
DriverSubmit ==
  /\ submitted < Len(queue)
  /\ submitted' = submitted + 1
  /\ UNCHANGED <<block, pooled, content, promised, kernel_args, queue, call, host>>

\* A released buffer lives on while commands that use it wait.
InUse ==
  {p \in Blocks : \E i \in DOMAIN queue : \E j \in DOMAIN queue[i].args : queue[i].args[j] = p}

-----------------------------------------------------------------------------
(***************************************************************************)
(* Calls of the host thread                                                *)
(***************************************************************************)

Idle == call = "none"

Enqueue(c) ==
  /\ queue' = Append(queue, c)
  /\ promised' = Effect(c, promised, host)

\* The first n clSetKernelArg() of a launch.
Bind(k, args, n) ==
  kernel_args' = [kernel_args EXCEPT ![k] =
    [i \in 1 .. Arity[k] |-> IF i <= n THEN block[args[i]] ELSE @[i]]]

\* The launch of a client that passes resident tensors, of which the output is
\* no input.
Launchable(k, args) ==
  /\ Idle
  /\ \A i \in 1 .. Arity[k] : /\ args[i] \in Resident
                              /\ args[i] = args[Output[k]] => i = Output[k]

\* The launch functions: bind all arguments, enqueue, do not wait.
LaunchKernel(k, args) ==
  /\ Launchable(k, args)
  /\ Len(queue) < MaxQueued
  /\ Bind(k, args, Arity[k])
  /\ Enqueue([op |-> k, args |-> kernel_args'[k]])
  /\ UNCHANGED <<block, pooled, content, submitted, call, host>>

\* An argument is refused, or the kernel is.
LaunchFails(k, args) ==
  /\ Launchable(k, args)
  /\ \E n \in 0 .. Arity[k] : Bind(k, args, n)
  /\ UNCHANGED <<block, pooled, content, promised, queue, submitted, call, host>>

\* clEnqueueWriteBuffer(), clEnqueueReadBuffer(): what is enqueued is submitted,
\* and the host thread waits (CL_TRUE).
Copy(direction, t) ==
  /\ Idle
  /\ t \in Resident
  /\ Enqueue([op |-> direction, args |-> [i \in 1 .. 1 |-> block[t]]])
  /\ submitted' = Len(queue) + 1
  /\ call' = direction
  /\ UNCHANGED <<block, pooled, content, kernel_args, host>>

\* Mutant of Sync: what is enqueued is waited for and not submitted.
SyncWithoutFlush ==
  /\ Idle
  /\ call' = "sync"
  /\ UNCHANGED <<block, pooled, content, promised, kernel_args, queue, submitted, host>>

\* clFinish()
Sync ==
  /\ Idle
  /\ submitted' = Len(queue)
  /\ call' = "sync"
  /\ UNCHANGED <<block, pooled, content, promised, kernel_args, queue, host>>

\* Mutant of Finished: clFlush() in place of clFinish().
FinishedIfFlushed ==
  IF call = "sync" THEN submitted = Len(queue)
                   ELSE \A i \in DOMAIN queue : queue[i].op # call

\* What the call the host thread is blocked in waits for.
Finished ==
  IF call = "sync" THEN queue = <<>>
                   ELSE \A i \in DOMAIN queue : queue[i].op # call

Return ==
  /\ ~Idle
  /\ Finished
  /\ call' = "none"
  /\ UNCHANGED <<block, pooled, content, promised, kernel_args, queue, submitted, host>>

\* The client computes; it does not while it is blocked in a call.
HostWrite(v) ==
  /\ Idle
  /\ host' = v
  /\ UNCHANGED <<block, pooled, content, promised, kernel_args, queue, submitted, call>>

-----------------------------------------------------------------------------
(***************************************************************************)
(* Tensors                                                                 *)
(***************************************************************************)

\* A pool hit: the block is handed on at once, whatever the queue holds.
AllocFromPool(t, p) ==
  /\ Idle
  /\ t \notin Resident
  /\ p \in pooled
  /\ block' = [block EXCEPT ![t] = p]
  /\ pooled' = pooled \ {p}
  /\ UNCHANGED <<content, promised, kernel_args, queue, submitted, call, host>>

\* clCreateBuffer(): the content is arbitrary.
AllocFromBackend(t, p, v) ==
  /\ Idle
  /\ t \notin Resident
  /\ p \notin Held \cup pooled \cup InUse
  /\ block' = [block EXCEPT ![t] = p]
  /\ content' = [content EXCEPT ![p] = v]
  /\ promised' = [promised EXCEPT ![p] = v]
  /\ UNCHANGED <<pooled, kernel_args, queue, submitted, call, host>>

\* Mutant of TensorFree: the descriptor is cleared before the block is pooled.
TensorFreeClearsFirst(t) ==
  /\ Idle
  /\ t \in Resident
  /\ block' = [block EXCEPT ![t] = NoBlock]
  /\ pooled' \in {pooled, pooled \cup {block'[t]}}
  /\ UNCHANGED <<content, promised, kernel_args, queue, submitted, call, host>>

\* Into the pool, or clReleaseMemObject(): neither waits for the queue.
TensorFree(t) ==
  /\ Idle
  /\ t \in Resident
  /\ pooled' \in {pooled, pooled \cup {block[t]}}
  /\ block' = [block EXCEPT ![t] = NoBlock]
  /\ UNCHANGED <<content, promised, kernel_args, queue, submitted, call, host>>

-----------------------------------------------------------------------------
Launches(k) ==
  \E args \in [1 .. Arity[k] -> Tensors] : LaunchKernel(k, args) \/ LaunchFails(k, args)

HostNext ==
  \/ \E k \in Kernels : Launches(k)
  \/ \E t \in Tensors : \/ \E direction \in Copies : Copy(direction, t)
                        \/ TensorFree(t)
                        \/ \E p \in Blocks : \/ AllocFromPool(t, p)
                                             \/ \E v \in Values : AllocFromBackend(t, p, v)
  \/ \E v \in Values : HostWrite(v)
  \/ Sync
  \/ Return

Next == HostNext \/ DeviceStep \/ DriverSubmit

\* The device runs what it was given, and a host thread whose call is done goes
\* on.  A kernel nobody waits for may stay with the driver for ever.
Fairness == WF_vars(DeviceStep) /\ WF_vars(Return)

Spec == Init /\ [][Next]_vars /\ Fairness

-----------------------------------------------------------------------------
(***************************************************************************)
(* Properties                                                              *)
(***************************************************************************)

\* What a tensor holds, as far as the client can tell.
ValueOf(t) == IF t \in Resident THEN promised[block[t]] ELSE NoValue

\* What the read at the end of the queue will return.
Awaited ==
  IF queue # <<>> /\ Last(queue).op = "read" THEN promised[Last(queue).args[1]] ELSE NoValue

Device ==
  INSTANCE SyncDevice WITH value <- [t \in Tensors |-> ValueOf(t)], awaited <- Awaited

\* To a client the queue does not exist: launches, copies, frees and allocations
\* look as if each had happened at once and in the order of the calls, although
\* kernels run later and blocks change hands before they do.
ImplementsSyncDevice == Device!Spec

\* gpuBridgeDeviceSynchronize() returns only when everything launched before it
\* has taken effect in the device's memory.
SyncSettles == [][call = "sync" /\ call' = "none" => content' = promised']_vars

\* A blocking copy and clFinish() return, however much was queued before them.
CallsReturn == call # "none" ~> call = "none"

=============================================================================
