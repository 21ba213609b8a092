# GPUBridge: TLA+ models and proofs

GPUBridge is a C library through which a program allocates device memory, copies
data and launches kernels on one of three backends (CPU, OpenCL, Vulkan), with a
small BLAS and a graph dispatcher (GPUportal) on top.  It is single threaded:
all its state is in static variables of a few files, and a behaviour is the
sequence of calls a client makes, together with what the backends answer.  The
specifications here follow the source; paths are relative to
`src/gpubridge-runtime/` unless they begin with `GPUportal/`.

## 1. Inventory

| component | state | operations | talks to |
|---|---|---|---|
| tensor pool, `src/gpubridge_pool.c` | `g_free_blocks`, `g_size_stats` | acquire, release, drain | called by the runtime; frees through a backend |
| runtime: device memory, `src/gpubridge_runtime.c` | `g_profile`, the client's descriptors | TensorAlloc, TensorAllocKvCache, TensorFree, Malloc, Free | pool, memory policy, backend in session |
| runtime: session and errors | `g_initialized`, `g_selection`, `g_requested_kind`, `g_runtime_error`, `g_model_load_active` | Init, SetBackend, Shutdown, Memcpy, LaunchKernel, LaunchTensorKernel, DeviceSynchronize, Begin/EndModelLoad, GetLastErrorString | selector, environment, backends |
| selector and environment, `src/gpubridge_selector.c`, `src/gpubridge_env.c` | none (variables are read afresh by each call) | SelectBackend, the GPUBRIDGE_* readers | each backend's `available()` |
| memory policy, `src/gpubridge_memory.c` | none | ChooseMemoryStrategy, hardware tier | called on an allocation |
| CPU backend | last error | the backend table | optional OpenBLAS |
| OpenCL backend | probe result, context, queue, programs, kernels, last error | the backend table | OpenCL driver, optional CLBlast |
| Vulkan backend | probe result, instance, device, pipelines, one command buffer, one fence, last error | the backend table | Vulkan driver |
| vendor GEMM | probe result, library handle | TryInit, Sgemm | CLBlast, OpenBLAS |
| tensor mirror, `src/gpubridge_runtime.c:1012-1156` | `GpuBridgeTensorMirror`: a descriptor, two validity flags | Create, Destroy, EnsureDevice/HostCurrent, MarkDevice/HostModified | Memcpy, TensorFree |
| kernel IR, `src/gpubridge_ir.c` | none | builders, validator | called before a launch |
| GPUportal BLAS and dispatch | `g_handle_live`, `g_blas_handle` | Create, Destroy, Sgemm; Submit, Shutdown | the runtime's public API |
| diagnostics, scheduling policy, Python binding, scripts | none of interest | printing, a pure function, conversions | the above |

How they interact.  The runtime passes a call to `g_selection.selected`, a table
of functions.  `TensorAlloc` asks the pool first, unless GPUBRIDGE_POOL_DISABLE
is set or the tensor is a KV cache, and the backend on a miss; `TensorFree` must
take the same decision again from what it can still see.  Ending a session
drains the pool through the backend and then shuts the backend down.

Which behaviours are hard:

* the pool outlives tensors and must not outlive sessions, while descriptors are
  the client's and may outlive both;
* a free decides from the environment and the descriptor *now*, the allocation
  decided *then*;
* `init()` of a device backend creates a dozen things one after the other and can
  fail between any two; it may be tried again over what is left;
* a failure has three places to be explained in (the runtime's buffer, the
  backend in session, a backend that is not), read in an order of precedence;
* OpenCL launches are asynchronous, and pooled blocks are handed on before the
  device is done with them;
* the Vulkan backend reuses one command buffer, one fence and one descriptor set
  per operation, makes a staging buffer for each copy, and must undo the right
  things whichever of some twenty Vulkan calls fails or the device is lost;
* a graph, a handle and a session point at each other without checking;
* sizes travel as `size_t`, are truncated to `int` on the way to a device, and are
  multiplied as `int` within the kernels.

What makes each component correct:

* pool and device memory: no block has two holders, none is lost, freed twice or
  given out at a wrong size; the client cannot tell a recycled block from a new
  one; counters agree with the state they count;
* session: a session is complete, on the backend asked for, and leaves nothing
  behind; a failure is explained by its own reason;
* OpenCL queue: asynchronous execution looks synchronous through the blocking
  calls; synchronization ends;
* Vulkan submission: nothing is reset, rebound or freed while the device uses it,
  success means that what was asked for was done, and no call leaves objects behind;
* mirror: a copy that counts as valid is the latest value, and the latest value
  is never lost;
* kernel IR: a kernel that the validators accept stays within its buffers;
* portal: a graph is evaluated in order, to its end or to the first failure; a
  failed product gives back what it took; a handle means a session.

`PROJECT.json` lists the hazards one by one, with the properties that cover them.

## 2. Modules

| module | models |
|---|---|
| `MemoryPolicy` | the choice of a memory strategy (pure) |
| `TensorPool` | the pool: free list and statistics |
| `TensorRuntime` | extends both with the session, the backends' heaps, the client's descriptors and the memory counters |
| `DeviceStore` | the abstract promise: a block to oneself until it is freed |
| `SumLemmas` | lemmas about sums over finite sets |
| `TensorRuntimeProofs` | theorems about `TensorRuntime` and its disciplined client |
| `AnyClientProofs` | theorems about `TensorRuntime` under any client |
| `BackendSession` | selection, probes, staged `init()`, shutdown, counters and error reporting of the three backends |
| `BackendSessionProofs` | theorems about `BackendSession` |
| `OpenclQueue` | the OpenCL backend within a session: non-blocking launches, the in-order queue, blocking copies, `clFinish` |
| `SyncDevice` | the abstract promise: a device that does everything at once |
| `OpenclQueueProofs` | theorems about `OpenclQueue` |
| `VulkanSubmit` | the Vulkan backend within a session, one Vulkan call at a time, each of which may fail; also implements `SyncDevice` |
| `VulkanSubmitProofs` | theorems about `VulkanSubmit` |
| `TensorMirror` | the mirror's six operations, its client, that client's kernels, and the blocks the pool hands from mirror to mirror |
| `MirroredArray` | the abstract promise: one array, no sides and no copies |
| `TensorMirrorProofs` | theorems about `TensorMirror` |
| `KernelIR` | kernel descriptions: builders, validators, launch sizes, truncation to `int`, the elements a kernel reaches (pure) |
| `Blas` | extends `KernelIR` with the BLAS handle, the session it pins and the steps of a product |
| `Portal` | extends `Blas` with the dispatcher, and with a client of both that also uses the runtime below them |
| `GraphEvaluation` | the abstract promise: operation after operation, to the end or to the first failure |
| `PortalProofs` | theorems about `Portal` |
| `MCTensorRuntime`, `MCBackendSession`, `MCOpenclQueue`, `MCVulkanSubmit`, `MCTensorMirror`, `MCPortal` | small instances for TLC |

Two abstractions of one session.  `TensorRuntime` takes the outcome of an init as
given and follows memory; `BackendSession` leaves memory out and follows the
outcome, handle by handle.  They share the calls Init, SetBackend and Shutdown.
`OpenclQueue` and `VulkanSubmit` look inside one session of one backend; that both
implement `SyncDevice` is what allows `TensorMirror` and `Portal` to treat a copy,
a launch and a synchronization as one step each.

`TensorRuntime`.  `free_blocks` is the list from its head, `size_stats` the
served counts (a size not in the C list counts 0).  `heap` is what the backends'
allocators know of each address: owner, size, and whether the block was made for
a KV cache; the last is a history the code does not keep, and the reason the
usage field of a descriptor must be right.  `Volatile` are the backends whose shutdown
takes along the memory a client still holds: `vulkan_shutdown()` destroys the device
(`backends/vulkan/gpubridge_backend_vulkan.c:816-818`), while an OpenCL buffer keeps its
context alive and CPU memory is `malloc()`'s.  `Teardown` gives such blocks to `Gone`: the
address stays taken (it is that of a malloc'ed wrapper), and no backend owns it.  A
backend that comes back in a later session owns what it allocated before, unless it is
gone.  `desc` are the client's descriptors
with the fields the code reads again later.  `undefined` is set when a backend is
asked to free what it does not own: the C program has no defined behaviour from
there, and `AnyClientNext` stops.  (The CPU's `free()` of a Vulkan wrapper, which C defines,
counts as such, too.)  One action stands for one public call, all of
it: `AllocFromPool` and `AllocFromBackend` are the two outcomes of one
`gpuBridgeTensorAlloc()`.  `TensorBytes` computes modulo `SizeModulus`, as `size_t` does.

Calls that fail before they change anything (bad rank, quantized type, no
session, device out of memory) are stuttering steps of `TensorRuntime`;
`BackendSession` has them as `RejectedCall`, `CallWithoutSession`, `CallFails`.

Two clients.  `Spec` is a client as the tests and GPUportal are: it frees what it
holds before it ends a session and does not allocate over a resident descriptor.
The code relies on it: a descriptor carries no session.  `AnyClientSpec` is any
sequence of the public calls that touch this state: descriptors are reused while they hold a
tensor, sessions end over them, `MirrorCreate` copies a resident descriptor as
`gpuBridgeTensorMirrorCreate()` does, and `gpuBridgeFree()` is given any address.  Only
the runtime writes a descriptor: a client that assigns to its fields is no caller any more.
The history `aliases` counts the steps with which the client itself gives a block a second
name, a copied descriptor or a stray free.  Of such a client some invariants are false:
it frees the mirror and the descriptor, the pool has the block twice, and hands it to two
tensors.  `BlocksIntact` and `ExclusiveUnlessAliased` say that this is the only
way, and the run `crosspool` shows what sessions alone can break.

`BackendSession`.  `live[b]` is the set of handles that backend b's globals hold,
numbered in the order `init()` creates them.  `InitFails` stops before any one
of them, keeps what was there and cleans nothing, as `opencl_init()` and
`vulkan_init()` do; `probe` is the cached result of `available()`.  `result` is what the
last call returned and why: a history variable, against which the error string
is compared.  A copy from host to host asks no backend and counts nothing: its
step is that of `GpuBridgeInitAgain`.  What the model leaves out of a retried `init()`: the handles it overwrites
are lost, and how many were lost is not counted.

`OpenclQueue`.  Two processes: the host thread, which calls and is blocked in
`call`, and the device, which runs the commands of `queue` from its head.
`kernel_args` are the buffers bound to the five `cl_kernel` objects of the
backend: a launch binds them one after the other and enqueues what is bound, and
`LaunchFails` is a refusal half-way.  `AllocFromPool` hands a freed block on
whatever the queue holds, as the pool does; `TensorFree` pools the block or
releases it, and neither waits.  `content` is the device's memory now, `promised`
what it will be when the queue has run: a history of the accepted calls, which
no code reads.  What is assumed of OpenCL, which is not in the repository: the
queue made with properties 0 is in order; a released buffer lives while commands
use it; a blocking copy and `clFinish()` submit what is enqueued; a command that
was accepted does not fail.  `SyncDevice` knows tensors and values, no blocks, no
pool and no queue: a launch and an upload take effect in it when they are
called, and a download returns what the tensor held when it was asked for, however
long it took; the client does nothing in between, and its array changes only by
its own writes and by downloads.  The client of this module passes
kernels an output that is none of the inputs, and does not end the session;
blocks have one size here, since `TensorRuntime` follows sizes.  The path of the
matrix product through CLBlast, which enqueues by itself, is left out.

`VulkanSubmit`.  Two processes again.  The host thread stands at `pc`, the Vulkan
call it makes next, within `call`; each call succeeds or fails, and a failure goes
where the code's `goto` or `return` goes.  `live` are the buffer and memory objects,
`held` the tensors the client was given, `cmd`, `descriptor_set` and `fence` the
backend's shared objects.  The device runs what `cmd` and the descriptor sets say
*when it runs*, not when it was submitted, so that a command recorded over or a set
rebound too early shows in the values.  `lost` is device loss: it may strike at any
moment, the command then in flight is dropped, and every later submission and wait
fails, so that nobody can read what it left in memory.  `WaitsFail` says whether a wait may also fail on
a device that goes on, as `VK_ERROR_OUT_OF_HOST_MEMORY` does: the run `submit` and
the theorems about values assume not, the run `inflight` shows what happens if so.
Two results are not looked at by the code.  That of
`vkResetCommandBuffer()` does not matter: `vkBeginCommandBuffer()` resets again.  That of
`vkResetFences()` does: `SubmitUnreset` submits with a fence still signaled from the call
before, which Vulkan does not allow, and the wait that follows ends at once.  The history
`unfenced` is true from there on.
`done` is a history: has the call had its effect?  What a launch writes is not
among its other operands, except that an in-place operation has its output as
an operand.

`TensorMirror`.  The flags are `host_valid` and `device_valid`; the values of both
sides are there too, as arrays of cells, since what goes wrong with a mirror is a
partial write over a stale side.  The client follows `include/gpubridge_runtime.h:161-197`:
it makes a side current before it reads it or writes part of it, marks what it wrote
before it asks for a side again, and frees the tensor through the mirror only.  A
client that does not is outside the model.  `EnsureDeviceFails` and `EnsureHostFails` are copies that
fail with any part of the array moved.  `changes` and `seen` are histories: the
occasions there were for a copy, and what the client or a kernel read last.

`KernelIR`, `Blas`, `Portal`.  `IntMax` and `SizeMod` are the widths of the machine:
a `size_t` is more than twice as wide as an `int`.  `AsInt` is the conversion to
`int32_t` and `cl_int`, `Extent` the highest index each argument of a kernel is used
at, plus one.  An allocation of any size may succeed.  `Computes` is what it takes for a launch to
compute what it was asked for: buffers large enough; on OpenCL elements that an `int`
can index, as `matmul_f32.cl` does; on Vulkan elements that the shader's `uint` can index,
no more than `MaxGroups` work groups of `GroupWidth` in each direction (the device's
`maxComputeWorkGroupCount`) and no buffer of more than `MaxRange` bytes bound whole (its
`maxStorageBufferRange`).  The code compares none of it with anything, so a launch beyond it
leaves anything in its output and succeeds.  `GraphEvaluation` is told by `Capable`, from the
sizes alone, when a product has to be right.  `pc` in
`Portal` is the step of `gpuBridgeBlasSgemm()`, and each of its steps can fail and go
to `Cleanup`.  Between calls the client creates and destroys a handle of its own,
shuts the Portal down, changes the session (`UseSession`: any of SetBackend,
Shutdown and Init, however it ends) and launches kernels itself, with any
description from `ClientKernels`.  `touched` and `launched` are histories: has the
session been changed since the live handle was created, and which kernel did the
last call give to the backend.

## 3. Runs

| run | expects | what it shows |
|---|---|---|
| `contract` | pass | for `Spec`: the invariants of pool, heap and descriptors, counters that agree, a peak that is never below the memory in use, and the refinement of `DeviceStore` |
| `anyclient` | pass | for any client: nothing pooled survives a session; hits and statistics agree; and, until the client itself has two names for a block, no block has two holders, and whatever is pooled or resident is of its full size at an address that stays taken |
| `crosspool` | violation | a block of an earlier session is handed out by a later one |
| `footprint` | violation | `peak_device_bytes` is not "also the current footprint" |
| `session` | pass | completeness and honesty of sessions, explained failures, handles accounted for |
| `stale` | violation | an old backend error shows after a success |
| `holders` | violation | two backends hold device resources |
| `device` | pass | the asynchronous OpenCL backend implements `SyncDevice`; synchronization settles the memory and returns |
| `submit` | pass | whichever checked Vulkan call fails, if `vkResetFences()` fails unchecked, and whenever the device is lost: nothing is left over and calls return; until a fence could not be reset, shared objects are not touched while in use, results are honest, and the backend implements `SyncDevice` |
| `inflight` | violation | a wait that fails on a device that goes on leaves the command in flight, and shared objects change under it |
| `mirror` | pass | a mirror implements `MirroredArray`, whatever copies fail, and copies no more often than there is reason to |
| `portal` | pass | graphs implement `GraphEvaluation`, with products that are right wherever the device is up to their sizes; a failure leaves no tensor; one handle pins one session; launched kernels stay within their buffers; calls return |

The violations are disagreements between a comment of the code and the code;
`PROJECT.json` quotes each comment under "findings".

Bounds.  `contract`: two tensors, three addresses, two backends that choose
different strategies, and three shapes of which two have one byte size, so that
a block is recycled under another shape and a list of two can be searched past
its head; at most three allocations a session (`MaxAllocs`), sessions without
limit.  Three addresses are one more than the tensors, so a leaked block is seen
as such and not merely as an allocator that ran dry.  `anyclient` has two
addresses: both can be pooled at once, or one held by each of two tensors, which is all its properties relate.
It allocates twice a session, and names a block twice once (`MaxAliases`): the properties about blocks
end there, and the others go on.  One of the backends is volatile.
Addresses and tensors are symmetric.  `session` has three stages for each device
backend: an init can fail at its first, a middle and its last stage, and a retry
can leave a hole; counters stop at one (`MaxCount`).  `device` has two tensors
and two blocks, so that a block changes hands while a command that uses it
waits, and two kernels that do not commute, one in place and one not: run in the
wrong order they leave other values.  Up to two kernels
wait (`MaxQueued`) and a copy is a third command; the refinement and `SyncSettles`
are proved for any length.  `submit` and `inflight` have two tensors, two values, an
in-place `broadcast_add` and a `relu` that do not commute: every Vulkan call of every
operation is there, with its failure, over the leftovers of any earlier call; one
command is in flight at most, since there is one command buffer (after an unreset fence there may
be more, where nothing about values is promised any more: the model keeps the last).  `mirror` has two
mirrors and two blocks, so that a new mirror gets a block with an old one's values,
and arrays of two cells, so that half of one can be written or copied; three marks
(`MaxMarks`) are enough for both sides of a mirror to go stale in turn.  `portal` has
an `int` up to 7 and a `size_t` up to 255: 3 x 3 elements are more than an `int`
indexes, 16 is more than an `int` holds, and 16 x 16 wraps to 0.  Its Vulkan device takes two work
groups of two in each direction and binds 48 bytes.  So 3 x 3 is beyond OpenCL and within Vulkan, 5 x 1
the other way round, and 4 x 4 beyond both.  Its graphs have up
to two operations: in place, onward from the first to the second, too large, too long, with no
elements, without an array, of an unknown kind.  Its kernels are those of the builders, and
those with one argument of another shape or type, another count of arguments, or other lanes.
Deadlock is checked except where `AnyClientSpec` stops at undefined behaviour.

Fairness.  The library does nothing between calls, and no client owes it a call:
`TensorRuntime` and `BackendSession` assume none and claim no liveness.  What the
library waits for is the device.  `OpenclQueue` assumes weak fairness of
`DeviceStep` (a device runs what it was given) and of `Return` (a thread whose
wait is over goes on), and none of `DriverSubmit`: a kernel nobody waits for may
stay with the driver for ever, and `CallsReturn` needs that the blocking calls
submit.  `VulkanSubmit` assumes weak fairness of `HostStep` (a thread inside a call
goes on) and of `DeviceRuns` (a device ends what was submitted to it, unless it is
lost, and then waits fail): `vkWaitForFences()` is called without a timeout.
`Portal` assumes weak fairness of `LibraryNext`, whose actions are all inside a
call: the library does not stop half-way.  `TensorMirror` assumes none.

Each property of a passing run has a mutant under "mutants": a definition of the
model changed as a plausible bug would change the code, under which the run
fails.  The mutated forms stand before the definitions they replace.

## 4. Proofs

`tlapm` checks all of them, for every value of the constants that satisfies the
modules' assumptions: `NoBackend` and `Gone` are not backends nor each other, `Volatile` are
some backends, `NullPtr` is not an address,
`CapsOf` gives capabilities to each backend, addresses and sizes are finitely many, as
those of a machine are, sizes are naturals, `Sizes` has the byte count of each shape
(after wrapping), an `init()` of the CPU creates no handle,
a kernel writes one of its arguments and computes a value from values, the staging
buffer is not a tensor, mirrors are finitely many, the names of nothing (`NoBlock`,
`NoArray`, `Null`, `NoTensor`) are not things, `SizeMod` is more than four times the
square of `IntMax`, and a work group has at least one row.

`TensorRuntimeProofs`.  None of the invariants is inductive alone: that pooled
blocks are live needs that a resident tensor's block is not pooled, which needs
that the pool has no duplicates, and a free needs the descriptor to have kept
the size of its block.  `IInv` is their conjunction with `RawBacked` (raw buffers
are live allocations) and `SessionInv` (outside a session pool, statistics and
client hold nothing; a resident tensor's size is one of `Sizes`).  `Counted` adds to it
that the resident tensors are finitely many, which `CountsBalance` needs: adding one to
a finite set adds one to its cardinality (`AllocCounts`, `FreeCounts`, `OthersCount`).  The lemmas
`HitRemovesOneBlock` and `ReleaseAddsOneBlock` say what the list operations do
to the set of pooled addresses; each action has a lemma of its own.  `Refinement`
maps every step to a step of `DeviceStore` or a stutter, under the mapping that
hides pool, heap and profile: a hit and a miss are the same `Allocate`.
`HandoutsOwned`, which the run `crosspool` refutes for other clients, holds for this one:
what is pooled belongs to the backend in session.

The memory in use is a sum over the addresses.  `PeakTracksFootprint` follows the sum
through each action: an allocation and a free change one term, a pooled free and a hit
none, and the end of a session leaves only zeros.  `PeakCoversFootprint` follows from it:
a free that bypasses the pool lowers the footprint and not the peak.

`SumLemmas`.  What the two properties above and `HitsMatchStats` need to know of
`SumFunctionOnSet`, which adds up elements in an order some CHOOSE decides: that the sum
of naturals is a natural, how one element splits off a set, and what the change of one
value does to a sum.  The proofs take a smallest set for which the claim fails, and
show that there is none.

`AnyClientProofs`.  For `AnyClientSpec` the invariant `IInv` is false: its parts say that what
is pooled or resident belongs to this session.  `AInv` has two parts.  `Basics` is what no
client can break: types, nothing pooled outside a session, and hits that match.  `Held` it takes
two names for one block to break: pooled blocks and tensors are at taken addresses and of their
size, of whatever backend or of one that has gone, and each is held once.  `Held` is inductive
while `aliases` is 0, because the only other thing that frees a block of a foreign backend
is a step to undefined behaviour, after which `AnyClientSpec` does not go on; and `Basics` does
not need it.
`DisciplinedClientIsAClient` says that `Spec` never gets there, so that what is
proved of any client is true of it.

`BackendSessionProofs`.  `IInv` adds that a session has a backend.  The heart is
`SelectAndInitStep`: selection from cached probes, then an init that may fail,
from any leftover that `LeftOver` describes, whichever caller it is.
`HoldersExplained`: there are at most as many backends with device resources too many as there
are backends whose last error is a failed `init()`.  `StaleFromBackend`: what the error
string still shows after a success is the last error of the backend in session, never
the runtime's nor another backend's.

`OpenclQueueProofs`.  `Leads(q, m, n, h)` says that running the commands of q takes
memory m to memory n.  The invariant is that the queue leads from `content` to
`promised`, with two facts it needs: blocks are exclusive, and a copy is the last
command, its caller blocked in it.  Appending a command moves the end of the path
(`LeadsAppend`), running one removes its start (`LeadsTail`), the client's array
matters to copies only (`LeadsAnyHost`), and new memory is used by no command in
the queue (`LeadsElsewhere`).  When the queue is empty the two memories agree, which is
`SyncSettles` and the value a download returns (`DeviceStepRefines`).

`VulkanSubmitProofs`.  Two invariants.  `Residue` holds whether or not waits can fail: at each
`pc` exactly the objects made so far are live, on failure paths too.
`NoResidue` and the types follow.  `IInv`, for `WaitsFail` false, adds what is recorded
and bound at each `pc` (`Recorded`) and, as long as every fence was reset (`Fenced`), that a
command is in flight only between its submission and the end of its wait (`Flight`), what the
staging buffer holds (`StagingFits`), and that `done` is true once the effect is there
(`Effect`).  An unreset fence ends `Fenced` for good (`UnfencedStays`).  From
these the shared objects are undisturbed, results are honest, and the step in which the
device runs is the step of `SyncDevice`.

`TensorMirrorProofs`.  `IInv` is `TypeOK` with `FlagsTrue` (a side that counts as valid
holds the array, apart from what the client wrote and has not marked; one side at least
is valid), `Exclusive` (mirrors do not share blocks, and the pool has none of theirs) and
`Budget`: the copies made, plus the stale sides that will need one, are at most the occasions
there were.  `LazyTransfers` is not inductive without the stale sides.

`PortalProofs`.  `IInv` is `TypeOK` with `CallFits` (position and caller fit the graph),
`TensorsFit` (which tensors exist at each step), `Effect` (what they hold) and
`HandleFits`.  `CapableComputes` shows that no conversion between the client's `int` and the
device truncates or wraps a size, which is where the assumption on the widths is used, and
that work groups cover the rows and columns they are counted for (`GroupsCover`): the sizes
that `Capable` names are those for which every condition of `Computes` holds.  `LaunchComputes`
is the launch of such a product; any launch writes its output and nothing else
(`LaunchEffect`), and `GraphEvaluation` takes its step when the copy back is done.  `ValidatedSound` goes
through the validators operation by operation for `LaunchSound`.  `BuildersValidate` is about
builders and validators alone: a kernel that a builder made is refused for a size of
zero and for nothing else.

`CallsEnd`, in three of these modules, is the part of `CallsReturn` that needs no fairness: a
measure `StepsLeft`, a natural number, that every step made during a call lowers.  For the
OpenCL queue it counts what is in the queue twice and what was submitted once less, and a
blocked caller always has its answer or a device with something to run.  For Vulkan it is
the number of Vulkan calls left, and whoever waits for the fence finds it signaled, or
a submission in flight that will signal it, or a lost device; it holds with `WaitsFail`, too.
For the portal it is at most ten steps for an operation, and ten more to see that there is
none left.  So a call that does not return is one whose process stops moving, which is what
weak fairness excludes.

Only model-checked: `CallsReturn` of the three modules.  Liveness under fairness is out of the
prover's reach, as is ENABLED, on which fairness rests.  Every other property of a passing run
is a theorem.  The runs that expect a violation check what is false of some client or
environment; where the disciplined client or a device that waits without failing makes it
true, as `HandoutsOwned` and `DeviceUndisturbed`, that is a theorem; of what `holders` and
`stale` refute, `HoldersExplained` and `StaleFromBackend` say how much is true.  There are no RECURSIVE operators; an induction over data is
done where it is needed by the smallest counterexample, which is a first-order argument.

## 5. Plan

The tensor memory, the session and the OpenCL queue came first, as the behaviour
everything else stands on; then the Vulkan backend, the mirror, and the kernel IR with
BLAS and dispatcher.  What is left, in this order:

1. Vendor GEMM: which library a product goes to, and the `INT_MAX` check before
   OpenBLAS, as operators over `KernelIR`; a CLBlast product as a command of `OpenclQueue`.
2. `vulkan_init()` pipeline by pipeline in `BackendSession`, with the objects a retry loses.
3. `TensorMirror` over `TensorRuntime`: mirrors that outlive a session.
4. The hardware tier as an operator.

## 6. Not modelled

The arithmetic of kernels (floating point; no shared state), printing and timing,
the text of `last_error`, scripts, build files and the dashboard.  The Python binding
converts arguments and keeps no state; its conversion of PyTorch's 64-bit sizes to `int`
is unchecked (`GPUportal/python/gpuportal_torch.cpp:85-87`), and is listed as the
one hazard without a property.  The scheduling policy is a pure function that nothing calls.
`gpuBridgeIrDescribeQuantizedTensor()` describes tensors that no launch accepts.
The C library's own `malloc()` for list nodes is taken to succeed: the code does
not check it.

Outside what the models assume of clients and devices:

* a client that launches kernels itself with a size above `INT_MAX` has it truncated,
  and one whose shape has more elements than a `size_t` has a descriptor that claims
  more than was allocated; `LaunchSound` is stated for sizes the machine holds;
* a client that writes the fields of a descriptor itself;
* a mirror whose client marks nothing, or frees the descriptor it copied: what then becomes of
  the array is not followed, only what becomes of the pool (`MirrorCreate`).

What the models have and a caller cannot see: a product too large for the indices of the kernel,
for the work groups of the device or for what it binds leaves anything and is reported as a success
(`Computes`); after a `vkResetFences()` that failed, calls return before their commands ran
(`SubmitUnreset`).

Noted in passing and not stated as properties: AUTO with an OpenCL
device whose `init()` fails reports the failure and does not try the CPU; a failed
kernel build leaks its program object (`backends/opencl/gpubridge_backend_opencl.c:392-404`); Vulkan's
probe keeps its instance; `REDUCE_SUM` of an argument of rank 2 is accepted and adds up only
`shape[0]` elements; `gpuBridgeBlasCreate()` sets the caller's variable to NULL
before it looks at the live handle (`GPUportal/src/gpubridge_blas.c:87`), so that creating into the variable
that holds it loses it; a client that changes the session leaves a live handle without the OpenCL
session it stands for, which `PinnedWhileLeft` therefore says only while the session is left alone.
