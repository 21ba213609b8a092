--------------------------- MODULE TensorRuntime ---------------------------
(***************************************************************************)
(* gpubridge_runtime.c: the session (which backend is initialized) and the *)
(* device memory it hands out, as tensors through the pool and as raw      *)
(* buffers around it.  The program is single threaded; a behaviour is the  *)
(* sequence of public calls some client makes.                             *)
(*                                                                         *)
(* A call that fails before it changes any of these variables (runtime not *)
(* initialized, quantized type, bad rank, device out of memory) is a       *)
(* stuttering step here; BackendSession models what such a call reports.   *)
(***************************************************************************)
EXTENDS TensorPool, MemoryPolicy, Integers, FiniteSets

CONSTANTS
  Tensors,      (* The client's GpuBridgeTensorDesc variables.            *)
  Backends,     (* The backends selection can settle on.                  *)
  NoBackend,    (* g_selection.selected == NULL.                          *)
  Volatile,     (* Those whose shutdown() destroys the device and with it *)
                (* the memory clients still hold: Vulkan.  An OpenCL      *)
                (* buffer keeps its context alive, CPU memory is malloc's.*)
  Gone,         (* What owns such memory afterwards.                      *)
  NullPtr,
  CapsOf,       (* get_caps() of each backend.                            *)
  Shapes,       (* The <<rank, shape[0], shape[1]>> a client may ask for. *)
  RawSizes,     (* The byte counts a client passes to gpuBridgeMalloc().  *)
  SizeModulus,  (* 2^width of size_t.                                     *)
  MaxAllocs,    (* Bound: tensor allocations in one session.              *)
  MaxAliases    (* Bound: how often a client gives a block a second name. *)

\* tensor_element_count(): the second dimension of a rank 1 tensor is ignored.
ElementCount(rank, shape) == IF rank = 1 THEN shape[1] ELSE shape[1] * shape[2]

\* Four bytes an element, in size_t arithmetic.
TensorBytes(rank, shape) == (ElementCount(rank, shape) * 4) % SizeModulus

ASSUME BackendsAssumption == NoBackend \notin Backends
ASSUME VolatileAssumption == Volatile \subseteq Backends /\ Gone \notin Backends \cup {NoBackend}
ASSUME PtrsAssumption == NullPtr \notin Ptrs
\* A pointer and a size_t have finitely many values.
ASSUME WidthsAssumption == IsFiniteSet(Ptrs) /\ IsFiniteSet(Sizes)
ASSUME CapsAssumption == CapsOf \in [Backends -> Caps]
ASSUME BoundsAssumption == /\ SizeModulus \in Nat \ {0}
                           /\ MaxAllocs \in Nat
                           /\ MaxAliases \in Nat
                           /\ RawSizes \subseteq Nat
ASSUME SizesAssumption == Sizes \subseteq Nat
ASSUME ShapesAssumption ==
  \A s \in Shapes : /\ s \in {1, 2} \X Nat \X Nat
                    /\ TensorBytes(s[1], <<s[2], s[3]>>) \in Sizes

VARIABLES
  initialized,   (* g_initialized                                         *)
  selected,      (* g_selection.selected                                  *)
  pool_disable,  (* GPUBRIDGE_POOL_DISABLE=1, read afresh by every call   *)
  desc,          (* the client's descriptors                              *)
  raw,           (* the addresses it holds from gpuBridgeMalloc()         *)
  profile,       (* g_profile, its memory counters                        *)
  heap,          (* the backends' allocators: what lies at each address   *)
  undefined,     (* a backend was asked to free what it does not own: the *)
                 (* program has no defined behaviour any more             *)
  aliases        (* for the properties: how often the client copied a     *)
                 (* descriptor, or gave gpuBridgeFree() an address it did *)
                 (* not have from gpuBridgeMalloc()                       *)

vars == <<initialized, selected, pool_disable, free_blocks, size_stats, desc,
          raw, profile, heap, undefined, aliases>>

Desc == [device_resident : BOOLEAN, device_ptr : Ptrs \cup {NullPtr},
         rank : 0..2, shape : Nat \X Nat, usage : {"generic", "kv_cache"},
         memory_strategy : Strategies]

\* One address: the backend whose allocation is live there, if any, its size
\* and whether it was made for a KV cache.  The address of a Vulkan block is that
\* of a malloc'ed wrapper, so it stays taken when the device has gone.
Allocation == [owner : Backends \cup {NoBackend, Gone}, bytes : Nat, kv : BOOLEAN]
Unallocated == [owner |-> NoBackend, bytes |-> 0, kv |-> FALSE]

Profile == [tensor_allocation_count : Nat, tensor_free_count : Nat,
            tensor_pool_hit_count : Nat, peak_device_bytes : Nat,
            kv_cache_allocation_count : Nat, kv_cache_bytes : Nat]
ZeroProfile == [tensor_allocation_count |-> 0, tensor_free_count |-> 0,
                tensor_pool_hit_count |-> 0, peak_device_bytes |-> 0,
                kv_cache_allocation_count |-> 0, kv_cache_bytes |-> 0]

ZeroDesc == [device_resident |-> FALSE, device_ptr |-> NullPtr, rank |-> 0,
             shape |-> <<0, 0>>, usage |-> "generic", memory_strategy |-> "auto"]

TypeOK ==
  /\ PoolTypeOK
  /\ initialized \in BOOLEAN
  /\ selected \in Backends \cup {NoBackend}
  /\ pool_disable \in BOOLEAN
  /\ desc \in [Tensors -> Desc]
  /\ raw \in SUBSET Ptrs
  /\ profile \in Profile
  /\ heap \in [Ptrs -> Allocation]
  /\ undefined \in BOOLEAN
  /\ aliases \in Nat

Init ==
  /\ PoolInit
  /\ initialized = FALSE
  /\ selected = NoBackend
  /\ pool_disable \in BOOLEAN
  /\ desc = [t \in Tensors |-> ZeroDesc]
  /\ raw = {}
  /\ profile = ZeroProfile
  /\ heap = [p \in Ptrs |-> Unallocated]
  /\ undefined = FALSE
  /\ aliases = 0

-----------------------------------------------------------------------------
(***************************************************************************)
(* The backend's allocator                                                 *)
(***************************************************************************)

\* malloc_device(n) returns p.
MallocDevice(p, n, kv) ==
  /\ heap[p] = Unallocated
  /\ heap' = [heap EXCEPT ![p] = [owner |-> selected, bytes |-> n, kv |-> kv]]

\* free_device() of every address of ps.
FreeDevice(ps) ==
  heap' = [p \in Ptrs |-> IF p \in ps THEN Unallocated ELSE heap[p]]

Owns(b, p) == p \in Ptrs /\ heap[p].owner = b

-----------------------------------------------------------------------------
(***************************************************************************)
(* The session                                                             *)
(***************************************************************************)

\* select_and_init(): some backend comes up, or none does and g_selection keeps
\* what it named before.
SelectAndInit ==
  \/ \E b \in Backends : selected' = b /\ initialized' = TRUE
  \/ UNCHANGED selected /\ initialized' = FALSE

\* The real-init path of gpuBridgeInit(); initialized already, it does nothing.
GpuBridgeInit ==
  /\ ~initialized
  /\ SelectAndInit
  /\ profile' = ZeroProfile
  /\ UNCHANGED <<pool_disable, free_blocks, size_stats, desc, raw, heap, undefined,
                 aliases>>

\* Mutant of Teardown: the pool is left alone.
TeardownSkipsPool == UNCHANGED <<free_blocks, size_stats, heap, undefined>>

\* Mutant of Teardown: the lists go, the blocks are not freed.
TeardownDropsLists ==
  /\ IF initialized /\ selected # NoBackend THEN Drain ELSE UNCHANGED poolVars
  /\ UNCHANGED <<heap, undefined>>

\* gpuBridgePoolDrain(selected), then the backend's own shutdown(): the blocks that
\* clients still hold go with a Vulkan device and stay allocated otherwise.
Teardown ==
  IF initialized /\ selected # NoBackend
    THEN /\ Drain
         /\ heap' = [p \in Ptrs |->
              IF p \in Pooled THEN Unallocated
              ELSE IF selected \in Volatile /\ Owns(selected, p)
                THEN [heap[p] EXCEPT !.owner = Gone]
              ELSE heap[p]]
         /\ undefined' = (undefined \/ \E i \in DOMAIN free_blocks :
              \/ ~Owns(selected, free_blocks[i].ptr)
              \/ \E j \in 1 .. (i - 1) : free_blocks[j].ptr = free_blocks[i].ptr)
    ELSE UNCHANGED <<free_blocks, size_stats, heap, undefined>>

\* gpuBridgeSetBackend()
SetBackend ==
  /\ Teardown
  /\ SelectAndInit
  /\ profile' = ZeroProfile
  /\ UNCHANGED <<pool_disable, desc, raw, aliases>>

\* gpuBridgeShutdown()
Shutdown ==
  /\ Teardown
  /\ initialized' = FALSE
  /\ selected' = NoBackend
  /\ profile' = ZeroProfile
  /\ UNCHANGED <<pool_disable, desc, raw, aliases>>

\* The client calls setenv("GPUBRIDGE_POOL_DISABLE", ...).
SetPoolDisable ==
  /\ pool_disable' = ~pool_disable
  /\ UNCHANGED <<initialized, selected, free_blocks, size_stats, desc, raw,
                 profile, heap, undefined, aliases>>

-----------------------------------------------------------------------------
(***************************************************************************)
(* Tensors                                                                 *)
(***************************************************************************)

\* Mutant of Describe: the second dimension is always dropped.
DescribeAsVector(t, rank, shape, usage, p, reuse_count) ==
  desc' = [desc EXCEPT ![t] =
             [device_resident |-> TRUE, device_ptr |-> p, rank |-> rank,
              shape |-> <<shape[1], 0>>, usage |-> usage,
              memory_strategy |->
                ChooseMemoryStrategy(reuse_count, FALSE, CapsOf[selected])]]

\* What a successful allocation writes to the client's descriptor.  It frees
\* nothing the descriptor held before.
Describe(t, rank, shape, usage, p, reuse_count) ==
  desc' = [desc EXCEPT ![t] =
             [device_resident |-> TRUE, device_ptr |-> p, rank |-> rank,
              shape |-> <<shape[1], IF rank = 2 THEN shape[2] ELSE 0>>,
              usage |-> usage,
              memory_strategy |->
                ChooseMemoryStrategy(reuse_count, FALSE, CapsOf[selected])]]

\* Mutant of AllocFromPool: a hit is counted, the allocation is not.
AllocFromPoolUncounted(t, rank, shape) ==
  LET n == TensorBytes(rank, shape) IN
  /\ initialized
  /\ ~pool_disable
  /\ \E i \in DOMAIN free_blocks :
       /\ AcquireHit(n, i)
       /\ Describe(t, rank, shape, "generic", free_blocks[i].ptr, size_stats'[n])
  /\ profile' = [profile EXCEPT !.tensor_pool_hit_count = @ + 1]
  /\ UNCHANGED <<initialized, selected, pool_disable, raw, heap, undefined,
                 aliases>>

\* gpuBridgeTensorAlloc() served by the pool.
AllocFromPool(t, rank, shape) ==
  LET n == TensorBytes(rank, shape) IN
  /\ initialized
  /\ ~pool_disable
  /\ profile.tensor_allocation_count < MaxAllocs
  /\ \E i \in DOMAIN free_blocks :
       /\ AcquireHit(n, i)
       /\ Describe(t, rank, shape, "generic", free_blocks[i].ptr, size_stats'[n])
  /\ profile' = [profile EXCEPT !.tensor_allocation_count = @ + 1,
                                !.tensor_pool_hit_count = @ + 1]
  /\ UNCHANGED <<initialized, selected, pool_disable, raw, heap, undefined,
                 aliases>>

\* gpuBridgeTensorAlloc() served by the backend at p: the pool has no block of
\* the size, or is switched off.
AllocFromBackend(t, rank, shape, p) ==
  LET n == TensorBytes(rank, shape) IN
  /\ initialized
  /\ profile.tensor_allocation_count < MaxAllocs
  /\ IF pool_disable THEN UNCHANGED poolVars ELSE AcquireMiss(n)
  /\ MallocDevice(p, n, FALSE)
  /\ Describe(t, rank, shape, "generic", p,
              IF pool_disable THEN 1 ELSE size_stats[n])
  /\ profile' = [profile EXCEPT !.tensor_allocation_count = @ + 1,
                                !.peak_device_bytes = @ + n]
  /\ UNCHANGED <<initialized, selected, pool_disable, raw, undefined, aliases>>

\* Mutant of AllocKvCache: its bytes are left out of the footprint.
AllocKvCacheUncounted(t, rank, shape, p) ==
  LET n == TensorBytes(rank, shape) IN
  /\ initialized
  /\ profile.tensor_allocation_count < MaxAllocs
  /\ MallocDevice(p, n, TRUE)
  /\ Describe(t, rank, shape, "kv_cache", p, 1)
  /\ profile' = [profile EXCEPT !.tensor_allocation_count = @ + 1,
                                !.kv_cache_allocation_count = @ + 1,
                                !.kv_cache_bytes = @ + n]
  /\ UNCHANGED <<initialized, selected, pool_disable, free_blocks, size_stats,
                 raw, undefined, aliases>>

\* gpuBridgeTensorAllocKvCache(): always served by the backend.
AllocKvCache(t, rank, shape, p) ==
  LET n == TensorBytes(rank, shape) IN
  /\ initialized
  /\ profile.tensor_allocation_count < MaxAllocs
  /\ MallocDevice(p, n, TRUE)
  /\ Describe(t, rank, shape, "kv_cache", p, 1)
  /\ profile' = [profile EXCEPT !.tensor_allocation_count = @ + 1,
                                !.peak_device_bytes = @ + n,
                                !.kv_cache_allocation_count = @ + 1,
                                !.kv_cache_bytes = @ + n]
  /\ UNCHANGED <<initialized, selected, pool_disable, free_blocks, size_stats,
                 raw, undefined, aliases>>

\* Mutant of BypassesPool: a KV cache is pooled like any tensor.
BypassesPoolIfDisabled(t) == pool_disable

\* Does gpuBridgeTensorFree() give the block to the backend or to the pool?
BypassesPool(t) == pool_disable \/ desc[t].usage = "kv_cache"

\* Mutant of TensorFree: the descriptor is cleared before its bytes are counted.
TensorFreeClearsFirst(t) ==
  LET p == desc[t].device_ptr IN
  /\ initialized
  /\ desc[t].device_resident
  /\ IF BypassesPool(t)
       THEN FreeDevice({p}) /\ UNCHANGED <<free_blocks, size_stats, undefined>>
       ELSE Release(p, 0) /\ UNCHANGED <<heap, undefined>>
  /\ desc' = [desc EXCEPT ![t] = ZeroDesc]
  /\ profile' = [profile EXCEPT !.tensor_free_count = @ + 1]
  /\ UNCHANGED <<initialized, selected, pool_disable, raw, aliases>>

\* gpuBridgeTensorFree(); on a descriptor that is not resident it does nothing.
TensorFree(t) ==
  LET p == desc[t].device_ptr IN
  /\ initialized
  /\ desc[t].device_resident
  /\ IF BypassesPool(t)
       THEN /\ FreeDevice({p})
            /\ undefined' = (undefined \/ ~Owns(selected, p))
            /\ UNCHANGED poolVars
       ELSE /\ Release(p, TensorBytes(desc[t].rank, desc[t].shape))
            /\ UNCHANGED <<heap, undefined>>
  /\ desc' = [desc EXCEPT ![t].device_resident = FALSE, ![t].device_ptr = NullPtr]
  /\ profile' = [profile EXCEPT !.tensor_free_count = @ + 1]
  /\ UNCHANGED <<initialized, selected, pool_disable, raw, aliases>>

-----------------------------------------------------------------------------
(***************************************************************************)
(* Raw buffers                                                             *)
(***************************************************************************)

\* gpuBridgeMalloc() returns p.
GpuBridgeMalloc(p, n) ==
  /\ initialized
  /\ MallocDevice(p, n, FALSE)
  /\ raw' = raw \cup {p}
  /\ UNCHANGED <<initialized, selected, pool_disable, free_blocks, size_stats,
                 desc, profile, undefined, aliases>>

\* gpuBridgeFree(), of whatever address it is given.
GpuBridgeFree(p) ==
  /\ initialized
  /\ FreeDevice({p})
  /\ undefined' = (undefined \/ ~Owns(selected, p))
  /\ IF p \in raw THEN UNCHANGED aliases
                  ELSE aliases < MaxAliases /\ aliases' = aliases + 1
  /\ raw' = raw \ {p}
  /\ UNCHANGED <<initialized, selected, pool_disable, free_blocks, size_stats,
                 desc, profile>>

\* gpuBridgeTensorMirrorCreate() over the descriptor t: the mirror's own one, u,
\* becomes a copy of it, whatever u held.  TensorMirror models the rest of it, and
\* gpuBridgeTensorMirrorDestroy() is TensorFree(u) here.
MirrorCreate(t, u) ==
  /\ initialized
  /\ desc[t].device_resident
  /\ aliases < MaxAliases
  /\ desc' = [desc EXCEPT ![u] = desc[t]]
  /\ aliases' = aliases + 1
  /\ UNCHANGED <<initialized, selected, pool_disable, free_blocks, size_stats, raw,
                 profile, heap, undefined>>

-----------------------------------------------------------------------------
(***************************************************************************)
(* Clients                                                                 *)
(***************************************************************************)

Resident == {t \in Tensors : desc[t].device_resident}
NothingHeld == Resident = {} /\ raw = {}

\* The calls whose outcome does not depend on what the client still holds.
CommonNext ==
  \/ GpuBridgeInit
  \/ SetPoolDisable
  \/ \E t \in Tensors : TensorFree(t)
  \/ \E p \in Ptrs, n \in RawSizes : GpuBridgeMalloc(p, n)

Alloc(t) ==
  \E s \in Shapes :
    \/ AllocFromPool(t, s[1], <<s[2], s[3]>>)
    \/ \E p \in Ptrs : \/ AllocFromBackend(t, s[1], <<s[2], s[3]>>, p)
                       \/ AllocKvCache(t, s[1], <<s[2], s[3]>>, p)

\* A client that frees what it allocated, each block by one name and in its own
\* way, before it ends the session or reuses the descriptor, as the callers in the
\* repository do.
Next ==
  \/ CommonNext
  \/ \E p \in raw : GpuBridgeFree(p)
  \/ \E t \in Tensors : t \notin Resident /\ Alloc(t)
  \/ NothingHeld /\ (SetBackend \/ Shutdown)

\* Any client of the public API, as far as the program's behaviour is defined: it
\* makes any call at any time, and only the runtime writes its descriptors.
AnyClientNext ==
  /\ ~undefined
  /\ \/ CommonNext
     \/ \E p \in Ptrs : GpuBridgeFree(p)
     \/ \E t \in Tensors : Alloc(t) \/ \E u \in Tensors \ {t} : MirrorCreate(t, u)
     \/ SetBackend
     \/ Shutdown

Spec == Init /\ [][Next]_vars
AnyClientSpec == Init /\ [][AnyClientNext]_vars

-----------------------------------------------------------------------------
(***************************************************************************)
(* The pool, the heap and the profile hidden, this is a DeviceStore: the   *)
(* client cannot tell a recycled block from a fresh one.                   *)
(***************************************************************************)
BlockOf(t) ==
  IF desc[t].device_resident
    THEN {[ptr |-> desc[t].device_ptr,
           bytes |-> TensorBytes(desc[t].rank, desc[t].shape)]}
    ELSE {}

Store == INSTANCE DeviceStore WITH
  backend <- IF initialized THEN selected ELSE NoBackend,
  held <- [t \in Tensors |-> BlockOf(t)],
  buffers <- raw

\* The runtime keeps DeviceStore's promise to a client that frees what it holds
\* before it ends a session.
ImplementsStore == Store!Spec


-----------------------------------------------------------------------------
(***************************************************************************)
(* Properties                                                              *)
(***************************************************************************)

\* The bytes of the descriptor's tensor, as gpuBridgeTensorFree() recomputes them.
BytesOf(t) == TensorBytes(desc[t].rank, desc[t].shape)

\* Every pooled block is a live allocation of the backend in session, of exactly
\* the size it is filed under, never made for a KV cache, and is pooled once:
\* a pool hit hands out memory the caller may use in full (gpubridge_runtime.c,
\* tensor_alloc_impl() and gpuBridgeTensorFree()).
PoolIntegrity ==
  /\ \A i \in DOMAIN free_blocks :
       heap[free_blocks[i].ptr] =
         [owner |-> selected, bytes |-> free_blocks[i].bytes, kv |-> FALSE]
  /\ NoDuplicates

\* A resident tensor lies in a live allocation of the backend in session, of
\* exactly its own size, made for a KV cache just when its usage says so.
TensorsBacked ==
  \A t \in Resident :
    /\ desc[t].device_ptr \in Ptrs
    /\ heap[desc[t].device_ptr] =
         [owner |-> selected, bytes |-> BytesOf(t), kv |-> desc[t].usage = "kv_cache"]

\* No block has two holders among the tensors, the pool and the raw buffers:
\* "the pool may silently reissue this exact block" only once it is nobody's.
ExclusiveBlocks ==
  /\ \A t, u \in Resident : desc[t].device_ptr = desc[u].device_ptr => t = u
  /\ \A t \in Resident : desc[t].device_ptr \notin Pooled \cup raw
  /\ Pooled \cap raw = {}

\* Every live allocation is reachable (by a tensor, the pool or a raw buffer)
\* and belongs to the session in progress: ending a session, by a shutdown, a
\* switch or a failed switch, leaves no backend with device memory.
NoLeak ==
  \A p \in Ptrs : heap[p] # Unallocated =>
    /\ initialized
    /\ heap[p].owner = selected
    /\ p \in raw \cup Pooled \cup {desc[t].device_ptr : t \in Resident}

\* No backend is asked to free memory it does not own, or twice, whatever the
\* order of calls: through a free, a drain or a toggled GPUBRIDGE_POOL_DISABLE.
NoUndefined == ~undefined

\* The hit counter of the profile and the pool's per-size statistics, reset in
\* different places, always tell the same story.
HitsMatchStats ==
  profile.tensor_pool_hit_count = SumFunctionOnSet(size_stats, Sizes)

\* Allocations not yet freed, by the profile, are the resident tensors.
CountsBalance ==
  profile.tensor_allocation_count - profile.tensor_free_count = Cardinality(Resident)

\* Bytes of device memory that tensors or the pool hold now.
Footprint == SumFunctionOnSet([p \in Ptrs |-> heap[p].bytes], Ptrs \ raw)

\* The comment at gpubridge_runtime.c:726-729: peak_device_bytes "is also the
\* current footprint".
PeakIsFootprint == Footprint = profile.peak_device_bytes

\* What peak_device_bytes does tell, where it is not the footprint: no tensor's
\* memory, and none that the pool keeps, is left out of it.
PeakCoversFootprint == Footprint <= profile.peak_device_bytes

\* Outside a session the pool is empty and has no statistics, for any client:
\* nothing pooled survives a shutdown, a switch or a failed switch.
PoolEmptyBetweenSessions ==
  ~initialized => free_blocks = <<>> /\ size_stats = NothingServed

\* The address p is taken, by an allocation of n bytes that nobody has freed: its
\* backend's still, or one that went with its device.
Taken(p, n, kv) ==
  heap[p].owner \in Backends \cup {Gone} /\ heap[p].bytes = n /\ heap[p].kv = kv

\* Every pooled block and resident tensor is at a taken address, has exactly the
\* size its allocation was made with, and waits in the pool at most once.
AllIntact ==
  /\ \A i \in DOMAIN free_blocks : Taken(free_blocks[i].ptr, free_blocks[i].bytes, FALSE)
  /\ \A t \in Resident : Taken(desc[t].device_ptr, BytesOf(t), desc[t].usage = "kv_cache")
  /\ NoDuplicates

\* A client that keeps descriptors across sessions can have a block pooled in a
\* session it does not belong to, even one that went with its device, and no worse:
\* unless the client had two names for a block, all are at addresses no allocator
\* can give out again and of their true size (gpuBridgeTensorFree() recomputes it
\* from the descriptor).
BlocksIntact == aliases = 0 => AllIntact

\* The runtime itself never gives one block two holders, whatever client it serves:
\* that takes a client with two names for one block (a mirror and the descriptor it
\* was made from both freed, or gpuBridgeFree() of a tensor's block).
ExclusiveUnlessAliased == aliases = 0 => ExclusiveBlocks

\* The comment at gpubridge_runtime.c:251-254, "a pooled device_ptr from this
\* backend must never be handed to a different backend", for any client: the
\* block an allocation gives to a descriptor belongs to no other backend than the
\* one in session.
HandoutsOwned ==
  [][\A t \in Tensors :
       (/\ aliases' = 0
        /\ desc'[t].device_resident
        /\ desc'[t].device_ptr # desc[t].device_ptr) =>
         heap'[desc'[t].device_ptr].owner \notin Backends \ {selected'}]_vars

\* Within a session the profile's peak_device_bytes and the memory in use part
\* company only when a free bypasses the pool: a pooled free keeps its block, a
\* hit takes no memory and a miss is always counted.
PeakTracksFootprint ==
  [][\/ profile' = ZeroProfile
     \/ profile'.peak_device_bytes - Footprint' = profile.peak_device_bytes - Footprint
     \/ \E t \in Resident : BypassesPool(t) /\ ~desc'[t].device_resident]_vars

=============================================================================
