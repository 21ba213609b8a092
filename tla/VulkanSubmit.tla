---------------------------- MODULE VulkanSubmit ----------------------------
(***************************************************************************)
(* The Vulkan backend within one session: every call makes what it needs,  *)
(* records the one command buffer, submits it with the one fence, waits,   *)
(* and unmakes what it made.  The host thread moves one Vulkan call at a   *)
(* time, each of which may fail; the device runs what was submitted, by    *)
(* what the command buffer and the descriptor sets say when it runs, and   *)
(* may be lost at any moment.                                              *)
(***************************************************************************)
EXTENDS Naturals, FiniteSets

CONSTANTS
  Tensors,        (* The client's GpuBridgeVulkanBuffer wrappers.           *)
  Staging,        (* The transient buffer of a copy.                        *)
  Values,         (* What a buffer, or the client's array, contains.        *)
  NoValue,
  Kernels,        (* The operations: each has a pipeline and a descriptor   *)
                  (* set.                                                   *)
  Arity,          (* How many buffers a kernel takes,                       *)
  Output,         (* and which one of them it writes.                       *)
  Compute(_, _),  (* What it writes, from the contents of all of them.      *)
  WaitsFail       (* May a wait fail although the device is not lost?       *)

Copies == {"write", "read"}

ASSUME StagingAssumption == Staging \notin Tensors
ASSUME NoValueAssumption == NoValue \notin Values
ASSUME KernelsAssumption ==
  /\ Kernels \cap (Copies \cup {"none", "malloc", "sync"}) = {}
  /\ Arity \in [Kernels -> Nat]
  /\ Output \in [Kernels -> Nat]
  /\ \A k \in Kernels : Output[k] \in 1 .. Arity[k]
ASSUME ComputeAssumption ==
  \A k \in Kernels : \A s \in [1 .. Arity[k] -> Values] : Compute(k, s) \in Values
ASSUME FaultAssumption == WaitsFail \in BOOLEAN

VARIABLES
  call,            (* what the host thread was called for, [op, tensor]     *)
  operands,        (* the buffers of a launch, by position                  *)
  pc,              (* the Vulkan call it makes next                         *)
  result,          (* what the last call returned                           *)
  done,            (* has the call in progress had the effect asked for?     *)
  held,            (* the tensors malloc_device() returned                  *)
  live,            (* VkBuffer and VkDeviceMemory objects, by owner         *)
  content,         (* what lies in their memory                             *)
  descriptor_set,  (* the buffers bound to each operation                   *)
  cmd,             (* what the command buffer has recorded                  *)
  fence,           (* is it signaled?                                       *)
  in_flight,       (* was the command buffer submitted, and is it not done? *)
  lost,            (* VK_ERROR_DEVICE_LOST                                  *)
  unfenced,        (* was a command ever submitted with a signaled fence?    *)
  host             (* the client's array                                    *)

callVars == <<call, operands, result, done>>
memoryVars == <<held, live, content>>
deviceVars == <<descriptor_set, cmd, fence, in_flight, lost, unfenced>>
vars == <<callVars, pc, memoryVars, deviceVars, host>>

Owners == Tensors \cup {Staging}
Objects == Owners \X {"buffer", "memory"}
ObjectsOf(o) == {o} \X {"buffer", "memory"}

Ops == Kernels \cup Copies \cup {"none", "malloc", "sync"}
OperandsOf(k) == [1 .. Arity[k] -> Tensors]

TypeOK ==
  /\ call \in [op : Ops, tensor : Owners]
  /\ call.op \in Kernels => operands \in OperandsOf(call.op)
  /\ call.op \in Copies \cup {"malloc"} => call.tensor \in Tensors
  /\ pc \in {"idle", "create", "allocate", "bind", "fill", "record", "submit",
             "wait", "map", "copy_out", "drain"}
  /\ result \in {"ok", "failed"}
  /\ done \in BOOLEAN
  /\ held \in SUBSET Tensors
  /\ live \in SUBSET Objects
  /\ content \in [Owners -> Values]
  /\ DOMAIN descriptor_set = Kernels
  /\ \A k \in Kernels : descriptor_set[k] \in [1 .. Arity[k] -> Owners]
  /\ cmd \in [op : Kernels \cup Copies \cup {"none"}, tensor : Owners]
  /\ fence \in BOOLEAN
  /\ in_flight \in BOOLEAN
  /\ lost \in BOOLEAN
  /\ unfenced \in BOOLEAN
  /\ host \in Values

NoCall == [op |-> "none", tensor |-> Staging]

Init ==
  /\ call = NoCall
  /\ operands = <<>>
  /\ pc = "idle"
  /\ result = "ok"
  /\ done = FALSE
  /\ held = {}
  /\ live = {}
  /\ content \in [Owners -> Values]
  /\ descriptor_set = [k \in Kernels |-> [i \in 1 .. Arity[k] |-> Staging]]
  /\ cmd = NoCall
  /\ fence = FALSE
  /\ in_flight = FALSE
  /\ lost = FALSE
  /\ unfenced = FALSE
  /\ host \in Values

-----------------------------------------------------------------------------
(***************************************************************************)
(* Calls begin and return                                                  *)
(***************************************************************************)

Idle == pc = "idle"

Begin(op, t, first) ==
  /\ Idle
  /\ call' = [op |-> op, tensor |-> t]
  /\ done' = FALSE
  /\ pc' = first
  /\ UNCHANGED <<result, memoryVars, deviceVars, host>>

\* vulkan_malloc_device(): the wrapper first, which is the host's memory.
MallocDevice(t) == t \notin held /\ Begin("malloc", t, "create") /\ UNCHANGED operands

\* vulkan_copy_to_device(), vulkan_copy_to_host()
Copy(direction, t) == t \in held /\ Begin(direction, t, "create") /\ UNCHANGED operands

\* Mutant of Launch: the buffers of the launch before are used.
LaunchKeepsOperands(k, args) ==
  /\ \A i \in 1 .. Arity[k] : /\ args[i] \in held
                              /\ args[i] = args[Output[k]] => i = Output[k]
  /\ Begin(k, Staging, "record")
  /\ UNCHANGED operands

\* vulkan_launch_*_f32(), for a client of which the output is no input.
Launch(k, args) ==
  /\ \A i \in 1 .. Arity[k] : /\ args[i] \in held
                              /\ args[i] = args[Output[k]] => i = Output[k]
  /\ Begin(k, Staging, "record")
  /\ operands' = args

\* vulkan_sync()
Sync == Begin("sync", Staging, "drain") /\ UNCHANGED operands

\* vulkan_free_device(): both objects at once, whatever the device does.
FreeDevice(t) ==
  /\ Idle
  /\ t \in held
  /\ held' = held \ {t}
  /\ live' = live \ ObjectsOf(t)
  /\ UNCHANGED <<callVars, pc, content, deviceVars, host>>

\* The client computes; it does not while it is in a call.
HostWrite(v) ==
  /\ Idle
  /\ host' = v
  /\ UNCHANGED <<callVars, pc, memoryVars, deviceVars>>

\* The call returns, without the staging buffer of a copy.
Return(r) ==
  /\ pc' = "idle"
  /\ result' = r
  /\ live' = live \ ObjectsOf(Staging)

At(label) == pc = label
Goto(label) == pc' = label /\ UNCHANGED <<result, live>>

-----------------------------------------------------------------------------
(***************************************************************************)
(* Buffers: the stages of vulkan_malloc_device() and                       *)
(* create_staging_buffer()                                                 *)
(***************************************************************************)

\* Whose buffer the call is making.
Maker == IF call.op = "malloc" THEN call.tensor ELSE Staging

CreateBuffer ==
  /\ At("create")
  /\ live' = live \cup {<<Maker, "buffer">>}
  /\ pc' = "allocate"
  /\ UNCHANGED <<callVars, held, content, deviceVars, host>>

\* A memory type is found, and memory of it.
AllocateMemory ==
  /\ At("allocate")
  /\ live' = live \cup {<<Maker, "memory">>}
  /\ pc' = "bind"
  /\ UNCHANGED <<callVars, held, content, deviceVars, host>>

\* The buffer is whole; new memory holds anything.
BindMemory(v) ==
  /\ At("bind")
  /\ content' = [content EXCEPT ![Maker] = v]
  /\ IF call.op = "malloc"
       THEN held' = held \cup {call.tensor} /\ done' = TRUE /\ Return("ok")
       ELSE /\ Goto(IF call.op = "write" THEN "fill" ELSE "record")
            /\ UNCHANGED <<held, done>>
  /\ UNCHANGED <<call, operands, deviceVars, host>>

\* Mutant of MakingFails: an allocation that fails leaves its buffer behind.
MakingFailsKeepsBuffer ==
  /\ pc \in {"create", "allocate", "bind"}
  /\ pc' = "idle"
  /\ result' = "failed"
  /\ live' = IF At("bind") THEN live \ ObjectsOf(Maker) ELSE live
  /\ UNCHANGED <<call, operands, done, held, content, deviceVars, host>>

\* Any of the stages fails: what the earlier ones made is destroyed.
MakingFails ==
  /\ pc \in {"create", "allocate", "bind"}
  /\ pc' = "idle"
  /\ result' = "failed"
  /\ live' = live \ ObjectsOf(Maker)
  /\ UNCHANGED <<call, operands, done, held, content, deviceVars, host>>

-----------------------------------------------------------------------------
(***************************************************************************)
(* Submission: dispatch_op(), submit_copy_and_wait()                       *)
(***************************************************************************)

\* The staging memory is mapped and filled.
Fill ==
  /\ At("fill")
  /\ content' = [content EXCEPT ![Staging] = host]
  /\ Goto("record")
  /\ UNCHANGED <<call, operands, done, held, deviceVars, host>>

\* Mutant of UpdateDescriptorSets: a set that was bound once is taken to be bound.
UpdateDescriptorSetsOnce ==
  descriptor_set' =
    IF call.op \in Kernels /\ descriptor_set[call.op][1] = Staging
      THEN [descriptor_set EXCEPT ![call.op] = operands] ELSE descriptor_set

\* vkUpdateDescriptorSets(), for a launch, whether or not recording succeeds.
UpdateDescriptorSets ==
  descriptor_set' = IF call.op \in Kernels THEN [descriptor_set EXCEPT ![call.op] = operands]
                                           ELSE descriptor_set

\* vkResetCommandBuffer(), vkBeginCommandBuffer() to vkEndCommandBuffer()
Record ==
  /\ At("record")
  /\ UpdateDescriptorSets
  /\ cmd' = call
  /\ Goto("submit")
  /\ UNCHANGED <<call, operands, done, held, content, fence, in_flight, lost,
                 unfenced, host>>

\* Mutant of Submit: the fence is not reset.
SubmitKeepsFence ==
  /\ At("submit")
  /\ ~lost
  /\ in_flight' = TRUE
  /\ Goto("wait")
  /\ UNCHANGED <<call, operands, done, held, content, descriptor_set, cmd, fence, lost,
                 unfenced, host>>

\* vkResetFences(), of which the result is discarded, and vkQueueSubmit().  Here the
\* fence is unsignaled afterwards: it was reset, or it was not signaled.
Submit ==
  /\ At("submit")
  /\ ~lost
  /\ fence' = FALSE
  /\ in_flight' = TRUE
  /\ Goto("wait")
  /\ UNCHANGED <<call, operands, done, held, content, descriptor_set, cmd, lost,
                 unfenced, host>>

\* The same, but resetting the fence fails: the command is submitted with the fence
\* the last one signaled, so that nothing waits for it.
SubmitUnreset ==
  /\ At("submit")
  /\ ~lost
  /\ fence
  /\ in_flight' = TRUE
  /\ unfenced' = TRUE
  /\ Goto("wait")
  /\ UNCHANGED <<call, operands, done, held, content, descriptor_set, cmd, fence, lost, host>>

\* Mutant of Wait: the call goes on whether or not the fence is signaled.
WaitNotAtAll ==
  /\ At("wait")
  /\ IF call.op = "read" THEN Goto("map") ELSE Return("ok")
  /\ UNCHANGED <<call, operands, done, held, content, deviceVars, host>>

\* vkWaitForFences(), with no timeout
Wait ==
  /\ At("wait")
  /\ fence
  /\ IF call.op = "read" THEN Goto("map") ELSE Return("ok")
  /\ UNCHANGED <<call, operands, done, held, content, deviceVars, host>>

Map ==
  /\ At("map")
  /\ Goto("copy_out")
  /\ UNCHANGED <<call, operands, done, held, content, deviceVars, host>>

CopyOut ==
  /\ At("copy_out")
  /\ host' = content[Staging]
  /\ done' = TRUE
  /\ Return("ok")
  /\ UNCHANGED <<call, operands, held, content, deviceVars>>

\* vkQueueWaitIdle()
Drained ==
  /\ At("drain")
  /\ ~in_flight
  /\ done' = TRUE
  /\ Return("ok")
  /\ UNCHANGED <<call, operands, held, content, deviceVars, host>>

-----------------------------------------------------------------------------
(***************************************************************************)
(* Failures of a submission                                                *)
(***************************************************************************)

\* Mapping fails, before the copy or after it.
MapFails ==
  /\ pc \in {"fill", "map"}
  /\ Return("failed")
  /\ UNCHANGED <<call, operands, done, held, content, deviceVars, host>>

\* The command buffer was reset, then recording it fails.
RecordFails ==
  /\ At("record")
  /\ UpdateDescriptorSets
  /\ cmd' = NoCall
  /\ Return("failed")
  /\ UNCHANGED <<call, operands, done, held, content, fence, in_flight, lost,
                 unfenced, host>>

\* Mutant of SubmitFails: the result of the submission is not looked at.
SubmitFailureIgnored ==
  /\ At("submit")
  /\ fence' = FALSE
  /\ Goto("wait")
  /\ UNCHANGED <<call, operands, done, held, content, descriptor_set, cmd, in_flight,
                 lost, unfenced, host>>

\* The submission is refused, whether or not the fence was reset before it.
SubmitFails ==
  /\ At("submit")
  /\ fence' \in {FALSE, fence}
  /\ Return("failed")
  /\ UNCHANGED <<call, operands, done, held, content, descriptor_set, cmd, in_flight,
                 lost, unfenced, host>>

\* The device is lost, or a wait runs out of memory while the device goes on.
WaitFails ==
  /\ pc \in {"wait", "drain"}
  /\ lost \/ WaitsFail
  /\ Return("failed")
  /\ UNCHANGED <<call, operands, done, held, content, deviceVars, host>>

-----------------------------------------------------------------------------
(***************************************************************************)
(* The device                                                              *)
(***************************************************************************)

\* The memory after what the command buffer says now.
Executed ==
  IF cmd.op \in Kernels
    THEN LET set == descriptor_set[cmd.op] IN
         [content EXCEPT ![set[Output[cmd.op]]] =
            Compute(cmd.op, [i \in 1 .. Arity[cmd.op] |-> content[set[i]]])]
  ELSE IF cmd.op = "write" THEN [content EXCEPT ![cmd.tensor] = content[Staging]]
  ELSE IF cmd.op = "read" THEN [content EXCEPT ![Staging] = content[cmd.tensor]]
  ELSE content

\* The memory after what the caller asked for, of the buffers it named.
Asked ==
  IF call.op \in Kernels
    THEN [content EXCEPT ![operands[Output[call.op]]] =
            Compute(call.op, [i \in 1 .. Arity[call.op] |-> content[operands[i]]])]
  ELSE IF call.op = "write" THEN [content EXCEPT ![call.tensor] = host]
  ELSE content

\* The submitted command buffer runs, and its fence is signaled.
DeviceRuns ==
  /\ in_flight
  /\ content' = Executed
  /\ fence' = TRUE
  /\ in_flight' = FALSE
  /\ done' = (done \/ (call.op # "read" /\ Executed = Asked))
  /\ UNCHANGED <<call, operands, result, pc, held, live, descriptor_set, cmd, lost,
                 unfenced, host>>

\* The device is lost, with what was in flight.
DeviceLost ==
  /\ ~lost
  /\ lost' = TRUE
  /\ in_flight' = FALSE
  /\ UNCHANGED <<callVars, pc, memoryVars, descriptor_set, cmd, fence, unfenced, host>>

-----------------------------------------------------------------------------
Calls ==
  \/ \E t \in Tensors : \/ MallocDevice(t) \/ FreeDevice(t)
                        \/ \E direction \in Copies : Copy(direction, t)
  \/ \E k \in Kernels : \E args \in OperandsOf(k) : Launch(k, args)
  \/ Sync
  \/ \E v \in Values : HostWrite(v)

HostStep ==
  \/ CreateBuffer \/ AllocateMemory \/ (\E v \in Values : BindMemory(v)) \/ MakingFails
  \/ Fill \/ Record \/ Submit \/ SubmitUnreset \/ Wait \/ Map \/ CopyOut \/ Drained
  \/ MapFails \/ RecordFails \/ SubmitFails \/ WaitFails

Next == Calls \/ HostStep \/ DeviceRuns \/ DeviceLost

\* The device runs what it was given or is lost, and a host thread in a call goes on.
Fairness == WF_vars(HostStep) /\ WF_vars(DeviceRuns)

Spec == Init /\ [][Next]_vars /\ Fairness

-----------------------------------------------------------------------------
(***************************************************************************)
(* Properties                                                              *)
(***************************************************************************)

\* The owners of what the command in flight reads and writes.
UsedInFlight ==
  IF cmd.op \in Kernels THEN {descriptor_set[cmd.op][i] : i \in 1 .. Arity[cmd.op]}
                        ELSE {cmd.tensor, Staging}

\* As long as every fence was reset, while the device runs a command buffer nobody
\* records it again, rebinds its descriptor set, resets its fence or destroys its
\* buffers: the comment above dispatch_op() rests the reuse of all of them on every
\* call's fence wait, which is one only for a fence that was reset.
DeviceUndisturbed ==
  [][(in_flight /\ in_flight' /\ ~unfenced) =>
       /\ UNCHANGED <<cmd, fence>>
       /\ cmd.op \in Kernels => descriptor_set'[cmd.op] = descriptor_set[cmd.op]
       /\ \A o \in UsedInFlight : ObjectsOf(o) \subseteq live']_vars

\* Between two calls the only Vulkan objects are those of the tensors held: a call
\* that fails at any stage destroys what it had made, and no copy leaves its
\* staging buffer (vulkan_malloc_device(), create_staging_buffer(), the copies).
\* This includes what follows a fence that could not be reset.
NoResidue == Idle => live = held \X {"buffer", "memory"}

\* As long as every fence was reset, a call that returns success has had the effect
\* it was asked for, and one that returns failure has not, at whatever stage it
\* failed (dispatch_op(), submit_copy_and_wait(), their callers).  Only the loss of
\* the device leaves room for doubt: the command may have run just before.
ResultsHonest ==
  [][(~Idle /\ Idle' /\ ~unfenced) =>
       IF result' = "ok" THEN done' ELSE ~done' \/ lost]_vars

Device ==
  INSTANCE SyncDevice WITH
    value <- [t \in Tensors |-> IF t \in held THEN content[t] ELSE NoValue],
    awaited <- IF pc = "copy_out" THEN content[Staging] ELSE NoValue

\* To a client a launch or a copy happens at once or not at all, whichever of the
\* Vulkan calls that are checked fails, and although all of them share one command
\* buffer.  Of the unchecked ones it is the resetting of the fence that must succeed:
\* from the first submission with a signaled fence on nothing is promised.
ImplementsSyncDevice ==
  Device!Init /\ [][unfenced \/ Device!Next]_(Device!vars)

\* Every call returns: the fence it waits for is signaled, or the device is lost.
CallsReturn == ~Idle ~> Idle

=============================================================================
