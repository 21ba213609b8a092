-------------------------- MODULE AnyClientProofs --------------------------
(***************************************************************************)
(* What TensorRuntime keeps whatever its client does: descriptors reused   *)
(* while they hold a tensor, sessions ended over live ones, tensors freed  *)
(* under another backend or after their device has gone, descriptors       *)
(* copied, any address freed.  Ownership is lost then (a block can be      *)
(* pooled in a session it does not belong to).  The pool's life and its    *)
(* counts are not; and until the client has two names for one block,       *)
(* exclusiveness and sizes are not either.                                 *)
(***************************************************************************)
EXTENDS TensorRuntimeProofs

-----------------------------------------------------------------------------
(***************************************************************************)
(* The inductive invariant                                                 *)
(***************************************************************************)

Owners == Backends \cup {Gone}

\* What is held, by whomever, is not the allocators' to give out again.
RawLive == \A p \in raw : heap[p].owner \in Owners

\* A session has a backend, and gpuBridgeTensorFree() releases addresses and sizes
\* that the pool can hold.
AnySession ==
  /\ initialized => selected \in Backends
  /\ \A t \in Resident : desc[t].device_ptr \in Ptrs /\ BytesOf(t) \in Sizes

\* What no client can break.
Basics ==
  /\ TypeOK
  /\ AnySession
  /\ PoolEmptyBetweenSessions
  /\ HitsMatchStats

\* What it takes two names for one block to break.
Held ==
  /\ AllIntact
  /\ RawLive
  /\ ExclusiveBlocks

AInv ==
  /\ Basics
  /\ aliases = 0 => Held

\* Every address that somebody holds is taken.
LEMMA HeldIsLive ==
  ASSUME Basics, Held
  PROVE  /\ \A p \in Pooled \cup raw : p \in Ptrs /\ heap[p].owner \in Owners
         /\ \A t \in Resident : /\ desc[t].device_ptr \in Ptrs
                                /\ heap[desc[t].device_ptr].owner \in Owners
<1>1. \A i \in DOMAIN free_blocks :
        free_blocks[i].ptr \in Ptrs /\ heap[free_blocks[i].ptr].owner \in Owners
  BY ListShape DEF Basics, TypeOK, Held, AllIntact, Taken, Owners
<1>2. \A t \in Resident :
        desc[t].device_ptr \in Ptrs /\ heap[desc[t].device_ptr].owner \in Owners
  BY DEF Basics, AnySession, Held, AllIntact, Taken, Owners
<1>3. \A p \in raw : p \in Ptrs /\ heap[p].owner \in Owners
  BY DEF Basics, Held, RawLive, TypeOK
<1> QED
  BY <1>1, <1>2, <1>3 DEF Pooled

\* What an allocator writes.
LEMMA FreshIsWritten ==
  ASSUME Basics, initialized, NEW p \in Ptrs, NEW n \in Nat, NEW kv \in BOOLEAN,
         MallocDevice(p, n, kv)
  PROVE  /\ heap' \in [Ptrs -> Allocation]
         /\ selected \in Backends
         /\ heap'[p] = [owner |-> selected, bytes |-> n, kv |-> kv]
         /\ \A q \in Ptrs : q # p => heap'[q] = heap[q]
<1>1. heap \in [Ptrs -> Allocation] /\ selected \in Backends
  BY DEF Basics, TypeOK, AnySession
<1>2. [owner |-> selected, bytes |-> n, kv |-> kv] \in Allocation
  BY <1>1 DEF Allocation
<1> QED
  BY <1>1, <1>2 DEF MallocDevice

\* An address some allocator has free has no holder, in this session or from an
\* earlier one.
LEMMA FreshIsNew ==
  ASSUME Basics, Held, NEW p \in Ptrs, heap[p] = Unallocated
  PROVE  /\ p \notin Pooled \cup raw
         /\ \A u \in Resident : desc[u].device_ptr # p
<1>1. heap[p].owner \notin Owners
  BY BackendsAssumption, VolatileAssumption DEF Unallocated, Owners
<1> QED
  BY <1>1, HeldIsLive

\* Intact blocks stay intact when the heap keeps the size and the purpose of what
\* it changes at addresses somebody holds, the list keeps old blocks and the
\* descriptors old tensors.
LEMMA IntactFrame ==
  ASSUME Basics, Held, NEW F,
         \A q \in Ptrs \ F :
           heap[q].owner \in Owners => /\ heap'[q].owner \in Owners
                                      /\ heap'[q].bytes = heap[q].bytes
                                      /\ heap'[q].kv = heap[q].kv,
         \A j \in DOMAIN free_blocks' :
           \/ Taken(free_blocks[j].ptr, free_blocks[j].bytes, FALSE)'
           \/ \E k \in DOMAIN free_blocks :
                free_blocks'[j] = free_blocks[k] /\ free_blocks[k].ptr \notin F,
         \A u \in Resident' :
           \/ Taken(desc[u].device_ptr, BytesOf(u), desc[u].usage = "kv_cache")'
           \/ /\ u \in Resident /\ desc'[u] = desc[u]
              /\ desc[u].device_ptr \notin F,
         NoDuplicates'
  PROVE  AllIntact'
<1>1. ASSUME NEW j \in DOMAIN free_blocks'
      PROVE  Taken(free_blocks[j].ptr, free_blocks[j].bytes, FALSE)'
  <2>1. CASE \E k \in DOMAIN free_blocks :
               free_blocks'[j] = free_blocks[k] /\ free_blocks[k].ptr \notin F
    <3>1. PICK k \in DOMAIN free_blocks :
            free_blocks'[j] = free_blocks[k] /\ free_blocks[k].ptr \notin F
      BY <2>1
    <3>2. free_blocks[k].ptr \in Ptrs
      BY ListShape DEF Basics, TypeOK
    <3>3. Taken(free_blocks[k].ptr, free_blocks[k].bytes, FALSE)
      BY DEF Held, AllIntact
    <3> QED
      BY <3>1, <3>2, <3>3 DEF Taken, Owners
  <2> QED
    BY <2>1
<1>2. ASSUME NEW u \in Resident'
      PROVE  Taken(desc[u].device_ptr, BytesOf(u), desc[u].usage = "kv_cache")'
  <2>1. CASE u \in Resident /\ desc'[u] = desc[u] /\ desc[u].device_ptr \notin F
    <3>1. /\ desc[u].device_ptr \in Ptrs
          /\ Taken(desc[u].device_ptr, BytesOf(u), desc[u].usage = "kv_cache")
      BY <2>1 DEF Basics, AnySession, Held, AllIntact
    <3> QED
      BY <2>1, <3>1 DEF Taken, Owners, BytesOf
  <2> QED
    BY <1>2, <2>1
<1> QED
  BY <1>1, <1>2 DEF AllIntact

\* The same where the heap does not change at all.
LEMMA IntactSameHeap ==
  ASSUME Basics, Held, heap' = heap,
         \A j \in DOMAIN free_blocks' :
           \/ Taken(free_blocks[j].ptr, free_blocks[j].bytes, FALSE)'
           \/ \E k \in DOMAIN free_blocks : free_blocks'[j] = free_blocks[k],
         \A u \in Resident' :
           \/ Taken(desc[u].device_ptr, BytesOf(u), desc[u].usage = "kv_cache")'
           \/ u \in Resident /\ desc'[u] = desc[u],
         NoDuplicates'
  PROVE  AllIntact'
<1> DEFINE none == {}
<1>1. \A q \in Ptrs \ none : heap'[q] = heap[q]
  OBVIOUS
<1>2. \A p : p \notin none
  OBVIOUS
<1> HIDE DEF none
<1>3. \A j \in DOMAIN free_blocks' :
        \/ Taken(free_blocks[j].ptr, free_blocks[j].bytes, FALSE)'
        \/ \E k \in DOMAIN free_blocks :
             free_blocks'[j] = free_blocks[k] /\ free_blocks[k].ptr \notin none
  BY <1>2
<1>4. \A u \in Resident' :
        \/ Taken(desc[u].device_ptr, BytesOf(u), desc[u].usage = "kv_cache")'
        \/ u \in Resident /\ desc'[u] = desc[u] /\ desc[u].device_ptr \notin none
  BY <1>2
<1> QED
  BY <1>1, <1>3, <1>4, IntactFrame

-----------------------------------------------------------------------------
(***************************************************************************)
(* The statistics and the hit counter                                      *)
(***************************************************************************)

\* Both start from nothing together, and sums do not count what is zero.
LEMMA StatsRestart ==
  ASSUME size_stats' = NothingServed, profile' = ZeroProfile
  PROVE  HitsMatchStats'
<1>1. \A n \in Sizes : NothingServed[n] = 0
  BY DEF NothingServed
<1>2. SumFunctionOnSet(NothingServed, Sizes) = 0
  BY <1>1, WidthsAssumption, SumZeros
<1> QED
  BY <1>2 DEF HitsMatchStats, ZeroProfile

LEMMA StatsKept ==
  ASSUME HitsMatchStats, size_stats' = size_stats,
         profile'.tensor_pool_hit_count = profile.tensor_pool_hit_count
  PROVE  HitsMatchStats'
BY DEF HitsMatchStats

\* One more in one place is one more in all.
LEMMA SumOneMore ==
  ASSUME NEW f \in [Sizes -> Nat], NEW n \in Sizes
  PROVE  SumFunctionOnSet([f EXCEPT ![n] = @ + 1], Sizes) = SumFunctionOnSet(f, Sizes) + 1
<1> DEFINE h == [f EXCEPT ![n] = @ + 1]
<1>1. \A m \in Sizes : f[m] \in Int /\ h[m] \in Int
  OBVIOUS
<1>2. \A m \in Sizes \ {n} : f[m] = h[m]
  OBVIOUS
<1>3. h[n] - f[n] = 1
  OBVIOUS
<1>4. IsFiniteSet(Sizes)
  BY WidthsAssumption
<1> HIDE DEF h
<1>5. SumFunctionOnSet(h, Sizes) = SumFunctionOnSet(f, Sizes) + (h[n] - f[n])
  BY <1>1, <1>2, <1>4, SumChange
<1> QED
  BY <1>3, <1>5 DEF h

\* A hit adds one to the counter and one to the statistics of its size.
LEMMA StatsHit ==
  ASSUME HitsMatchStats, size_stats \in [Sizes -> Nat], NEW n \in Sizes,
         size_stats' = [size_stats EXCEPT ![n] = @ + 1],
         profile'.tensor_pool_hit_count = profile.tensor_pool_hit_count + 1
  PROVE  HitsMatchStats'
BY SumOneMore DEF HitsMatchStats

-----------------------------------------------------------------------------
(***************************************************************************)
(* The steps                                                               *)
(***************************************************************************)

LEMMA AnyInitEstablishes == Init => AInv
<1> SUFFICES ASSUME Init PROVE AInv
  OBVIOUS
<1>1. TypeOK /\ ExclusiveBlocks
  BY InitEstablishes DEF IInv
<1>2. Resident = {} /\ raw = {} /\ DOMAIN free_blocks = {}
  BY DEF Init, PoolInit, Resident, ZeroDesc
<1>3. AnySession /\ RawLive /\ PoolEmptyBetweenSessions
  BY <1>2 DEF Init, PoolInit, AnySession, RawLive, PoolEmptyBetweenSessions
<1>4. AllIntact
  BY <1>2 DEF AllIntact, NoDuplicates
<1>5. HitsMatchStats
  <2>1. \A n \in Sizes : NothingServed[n] = 0
    BY DEF NothingServed
  <2>2. SumFunctionOnSet(NothingServed, Sizes) = 0
    BY <2>1, WidthsAssumption, SumZeros
  <2> QED
    BY <2>2 DEF Init, PoolInit, HitsMatchStats, ZeroProfile
<1> QED
  BY <1>1, <1>3, <1>4, <1>5 DEF AInv, Basics, Held

\* An allocation that the pool serves, perhaps with a block of another session.
LEMMA AnyHitStep ==
  ASSUME AInv, NEW t \in Tensors, NEW s \in Shapes,
         AllocFromPool(t, s[1], <<s[2], s[3]>>)
  PROVE  AInv'
<1> DEFINE n == TensorBytes(s[1], <<s[2], s[3]>>)
<1>1. PICK i \in DOMAIN free_blocks :
        /\ AcquireHit(n, i)
        /\ Describe(t, s[1], <<s[2], s[3]>>, "generic", free_blocks[i].ptr, size_stats'[n])
  BY DEF AllocFromPool
<1> DEFINE p == free_blocks[i].ptr
<1>2. n \in Sizes
  BY ShapesAssumption
<1> HIDE DEF n
<1>3. /\ PoolTypeOK'
      /\ p \in Ptrs /\ p \in Pooled
      /\ free_blocks[i].bytes = n
      /\ \A j \in DOMAIN free_blocks' :
           \E k \in DOMAIN free_blocks : free_blocks'[j] = free_blocks[k]
      /\ NoDuplicates => NoDuplicates' /\ Pooled' = Pooled \ {p}
  <2>1. PoolTypeOK
    BY DEF AInv, Basics, TypeOK
  <2>2. p \in Ptrs /\ p \in Pooled
    BY <2>1, ListShape DEF Pooled
  <2> QED
    BY <1>1, <1>2, <2>1, <2>2, HitRemovesOneBlock
<1>4. /\ desc' \in [Tensors -> Desc]
      /\ Resident' = Resident \cup {t}
      /\ desc'[t].device_ptr = p /\ desc'[t].usage = "generic"
      /\ BytesOf(t)' = n
      /\ \A u \in Resident \ {t} : desc'[u] = desc[u] /\ BytesOf(u)' = BytesOf(u)
  BY <1>1, <1>3, DescribeWrites DEF AInv, Basics, TypeOK, n
<1>5. UNCHANGED <<initialized, selected, pool_disable, raw, heap, undefined, aliases>>
      /\ initialized
  BY DEF AllocFromPool
<1>6. profile' \in Profile
      /\ profile'.tensor_pool_hit_count = profile.tensor_pool_hit_count + 1
  <2>1. profile \in Profile
    BY DEF AInv, Basics, TypeOK
  <2>2. profile' \in Profile
    BY <1>2, <2>1, ProfileGrows DEF AllocFromPool
  <2> QED
    BY <2>1, <2>2 DEF AllocFromPool, Profile
<1> HIDE DEF p
<1>7. TypeOK'
  BY <1>3, <1>4, <1>5, <1>6 DEF AInv, Basics, TypeOK
<1>8. AnySession' /\ PoolEmptyBetweenSessions'
  BY <1>2, <1>3, <1>4, <1>5 DEF AInv, Basics, AnySession, PoolEmptyBetweenSessions
<1>9. HitsMatchStats'
  BY <1>1, <1>2, <1>6, StatsHit DEF AInv, Basics, TypeOK, PoolTypeOK, AcquireHit
<1>10. ASSUME Held PROVE Held'
  <2>1. NoDuplicates' /\ Pooled' = Pooled \ {p}
    BY <1>3, <1>10 DEF Held, AllIntact
  <2>2. Taken(p, n, FALSE)
    BY <1>3, <1>10 DEF Held, AllIntact, p
  <2>3. AllIntact'
    <3>1. Taken(desc[t].device_ptr, BytesOf(t), desc[t].usage = "kv_cache")'
      BY <1>4, <1>5, <2>2 DEF Taken
    <3>2. ASSUME NEW u \in Resident'
          PROVE  \/ Taken(desc[u].device_ptr, BytesOf(u), desc[u].usage = "kv_cache")'
                 \/ u \in Resident /\ desc'[u] = desc[u]
      BY <1>4, <3>1
    <3> QED
      BY <1>3, <1>5, <1>10, <2>1, <3>2, IntactSameHeap DEF AInv
  <2>4. RawLive'
    BY <1>5, <1>10 DEF Held, RawLive
  <2>5. ExclusiveBlocks'
    BY <1>3, <1>4, <1>5, <1>10, <2>1 DEF Held, ExclusiveBlocks
  <2> QED
    BY <2>3, <2>4, <2>5 DEF Held
<1> QED
  BY <1>5, <1>7, <1>8, <1>9, <1>10 DEF AInv, Basics

\* A tensor served by the backend, with the pool left alone.
LEMMA AnyFreshStep ==
  ASSUME AInv, initialized, NEW t \in Tensors, NEW s \in Shapes,
         NEW p \in Ptrs, NEW r, NEW kv \in BOOLEAN,
         MallocDevice(p, TensorBytes(s[1], <<s[2], s[3]>>), kv),
         Describe(t, s[1], <<s[2], s[3]>>, IF kv THEN "kv_cache" ELSE "generic", p, r),
         profile' \in Profile,
         profile'.tensor_pool_hit_count = profile.tensor_pool_hit_count,
         UNCHANGED <<initialized, selected, pool_disable, free_blocks, size_stats,
                     raw, undefined, aliases>>
  PROVE  AInv'
<1> DEFINE n == TensorBytes(s[1], <<s[2], s[3]>>)
           usage == IF kv THEN "kv_cache" ELSE "generic"
<1>1. n \in Sizes /\ n \in Nat
  BY ShapesAssumption, SizesAssumption
<1>2. /\ heap' \in [Ptrs -> Allocation]
      /\ selected \in Backends
      /\ heap'[p] = [owner |-> selected, bytes |-> n, kv |-> kv]
      /\ \A q \in Ptrs : q # p => heap'[q] = heap[q]
  BY <1>1, FreshIsWritten DEF AInv
<1>3. /\ desc' \in [Tensors -> Desc]
      /\ Resident' = Resident \cup {t}
      /\ desc'[t].device_ptr = p /\ desc'[t].usage = usage
      /\ BytesOf(t)' = n
      /\ \A u \in Resident \ {t} : desc'[u] = desc[u] /\ BytesOf(u)' = BytesOf(u)
  BY DescribeWrites DEF AInv, Basics, TypeOK
<1>4. kv = (usage = "kv_cache")
  OBVIOUS
<1>5. heap[p] = Unallocated
  BY DEF MallocDevice
<1> HIDE DEF n, usage
<1>6. TypeOK'
  BY <1>2, <1>3 DEF AInv, Basics, TypeOK, PoolTypeOK
<1>7. AnySession' /\ PoolEmptyBetweenSessions'
  BY <1>1, <1>3 DEF AInv, Basics, AnySession, PoolEmptyBetweenSessions
<1>8. HitsMatchStats'
  BY StatsKept DEF AInv, Basics
<1>9. ASSUME Held PROVE Held'
  <2>1. p \notin Pooled \cup raw /\ \A u \in Resident : desc[u].device_ptr # p
    BY <1>5, <1>9, FreshIsNew DEF AInv
  <2>2. Pooled' = Pooled
    BY DEF Pooled
  <2>3. RawLive'
    <3>1. \A q \in raw : q \in Ptrs /\ q # p
      BY <2>1 DEF AInv, Basics, TypeOK
    <3> QED
      BY <1>2, <1>9, <3>1 DEF Held, RawLive
  <2>4. AllIntact'
    <3>1. Taken(desc[t].device_ptr, BytesOf(t), desc[t].usage = "kv_cache")'
      BY <1>2, <1>3, <1>4 DEF Taken
    <3>2. ASSUME NEW u \in Resident'
          PROVE  \/ Taken(desc[u].device_ptr, BytesOf(u), desc[u].usage = "kv_cache")'
                 \/ u \in Resident /\ desc'[u] = desc[u] /\ desc[u].device_ptr \notin {p}
      BY <1>3, <2>1, <3>1
    <3>3. \A k \in DOMAIN free_blocks : free_blocks[k].ptr \notin {p}
      BY <2>1 DEF Pooled
    <3>4. NoDuplicates'
      BY <1>9 DEF Held, AllIntact, NoDuplicates
    <3>5. \A q \in Ptrs \ {p} : heap'[q] = heap[q]
      BY <1>2
    <3> QED
      BY <1>9, <3>2, <3>3, <3>4, <3>5, IntactFrame DEF AInv
  <2>5. ExclusiveBlocks'
    BY <1>3, <1>9, <2>1, <2>2 DEF Held, ExclusiveBlocks
  <2> QED
    BY <2>3, <2>4, <2>5 DEF Held
<1> QED
  BY <1>6, <1>7, <1>8, <1>9 DEF AInv, Basics

LEMMA AnyAllocStep ==
  ASSUME AInv, NEW t \in Tensors, Alloc(t)
  PROVE  AInv'
<1>1. PICK s \in Shapes :
        \/ AllocFromPool(t, s[1], <<s[2], s[3]>>)
        \/ \E p \in Ptrs : \/ AllocFromBackend(t, s[1], <<s[2], s[3]>>, p)
                           \/ AllocKvCache(t, s[1], <<s[2], s[3]>>, p)
  BY DEF Alloc
<1>2. profile \in Profile /\ TensorBytes(s[1], <<s[2], s[3]>>) \in Sizes
  BY ShapesAssumption DEF AInv, Basics, TypeOK
<1>3. ASSUME NEW p \in Ptrs, AllocFromBackend(t, s[1], <<s[2], s[3]>>, p) PROVE AInv'
  <2>1. UNCHANGED poolVars
    BY <1>3 DEF AllocFromBackend, AcquireMiss
  <2>2. profile' \in Profile
    BY <1>2, <1>3, ProfileGrows DEF AllocFromBackend
  <2>3. profile'.tensor_pool_hit_count = profile.tensor_pool_hit_count
    BY <1>2, <1>3 DEF AllocFromBackend, Profile
  <2> QED
    BY <1>3, <2>1, <2>2, <2>3, AnyFreshStep DEF AllocFromBackend, poolVars
<1>4. ASSUME NEW p \in Ptrs, AllocKvCache(t, s[1], <<s[2], s[3]>>, p) PROVE AInv'
  <2>1. profile' \in Profile
    BY <1>2, <1>4, ProfileGrows DEF AllocKvCache
  <2>2. profile'.tensor_pool_hit_count = profile.tensor_pool_hit_count
    BY <1>2, <1>4 DEF AllocKvCache, Profile
  <2> QED
    BY <1>4, <2>1, <2>2, AnyFreshStep DEF AllocKvCache
<1> QED
  BY <1>1, <1>3, <1>4, AnyHitStep

\* gpuBridgeTensorFree() under whatever backend is in session: the block goes to
\* the pool or is asked to be freed, and no other block notices.
LEMMA AnyFreeStep == ASSUME AInv, NEW t \in Tensors, TensorFree(t) PROVE AInv'
<1> DEFINE p == desc[t].device_ptr
           n == BytesOf(t)
<1>1. t \in Resident /\ initialized
  BY DEF TensorFree, Resident
<1>2. p \in Ptrs /\ n \in Sizes
  BY <1>1 DEF AInv, Basics, AnySession
<1>3. /\ desc' \in [Tensors -> Desc]
      /\ Resident' = Resident \ {t}
      /\ \A u \in Resident' : desc'[u] = desc[u] /\ BytesOf(u)' = BytesOf(u)
  BY <1>1, FreeRemovesOne DEF TensorFree, AInv, Basics, TypeOK
<1>4. UNCHANGED <<initialized, selected, pool_disable, raw, size_stats, aliases>>
  BY DEF TensorFree, Release, poolVars
<1>5. profile' \in Profile
      /\ profile'.tensor_pool_hit_count = profile.tensor_pool_hit_count
  <2>1. profile \in Profile
    BY DEF AInv, Basics, TypeOK
  <2>2. [profile EXCEPT !.tensor_free_count = @ + 1] \in Profile
    BY <1>2, <2>1, ProfileGrows
  <2> QED
    BY <2>1, <2>2 DEF TensorFree, Profile
<1>6. AnySession' /\ PoolEmptyBetweenSessions'
  BY <1>1, <1>3, <1>4 DEF AInv, Basics, AnySession, PoolEmptyBetweenSessions
<1>7. HitsMatchStats'
  BY <1>4, <1>5, StatsKept DEF AInv, Basics
<1>8. ASSUME Held
      PROVE  /\ Taken(p, n, desc[t].usage = "kv_cache")
             /\ p \notin Pooled \cup raw
             /\ \A u \in Resident' :
                  u \in Resident /\ desc'[u] = desc[u] /\ desc[u].device_ptr \notin {p}
  BY <1>1, <1>3, <1>8 DEF Held, AllIntact, ExclusiveBlocks
<1>9. CASE BypassesPool(t)
  <2>1. /\ heap' = [q \in Ptrs |-> IF q \in {p} THEN Unallocated ELSE heap[q]]
        /\ UNCHANGED <<free_blocks, size_stats>>
        /\ undefined' \in BOOLEAN
    BY <1>9 DEF TensorFree, FreeDevice, poolVars
  <2>2. heap' \in [Ptrs -> Allocation] /\ \A q \in Ptrs \ {p} : heap'[q] = heap[q]
    <3>1. Unallocated \in Allocation
      BY DEF Unallocated, Allocation
    <3> QED
      BY <1>2, <2>1, <3>1 DEF AInv, Basics, TypeOK
  <2>3. Pooled' = Pooled
    BY <2>1 DEF Pooled
  <2> HIDE DEF p, n
  <2>4. TypeOK'
    BY <1>3, <1>4, <1>5, <2>1, <2>2 DEF AInv, Basics, TypeOK, PoolTypeOK
  <2>5. ASSUME Held PROVE Held'
    <3>1. AllIntact'
      <4>1. \A j \in DOMAIN free_blocks' : \E k \in DOMAIN free_blocks :
              free_blocks'[j] = free_blocks[k] /\ free_blocks[k].ptr \notin {p}
        BY <1>8, <2>1, <2>5 DEF Pooled
      <4>2. NoDuplicates'
        BY <2>1, <2>5 DEF Held, AllIntact, NoDuplicates
      <4> QED
        BY <1>8, <2>2, <2>5, <4>1, <4>2, IntactFrame DEF AInv
    <3>2. RawLive'
      <4>1. \A q \in raw : q \in Ptrs \ {p}
        BY <1>8, <2>5 DEF AInv, Basics, TypeOK
      <4> QED
        BY <1>4, <2>2, <2>5, <4>1 DEF Held, RawLive
    <3>3. ExclusiveBlocks'
      BY <1>3, <1>4, <2>3, <2>5 DEF Held, ExclusiveBlocks
    <3> QED
      BY <3>1, <3>2, <3>3 DEF Held
  <2> QED
    BY <1>4, <1>6, <1>7, <2>4, <2>5 DEF AInv, Basics
<1>10. CASE ~BypassesPool(t)
  <2>1. Release(p, n) /\ UNCHANGED <<heap, undefined>> /\ desc[t].usage # "kv_cache"
    BY <1>10 DEF TensorFree, BypassesPool, BytesOf
  <2>2. /\ PoolTypeOK'
        /\ NoDuplicates /\ p \notin Pooled => NoDuplicates'
        /\ \A j \in DOMAIN free_blocks' :
             \/ free_blocks'[j] = [ptr |-> p, bytes |-> n]
             \/ \E k \in DOMAIN free_blocks : free_blocks'[j] = free_blocks[k]
        /\ Pooled' = Pooled \cup {p}
    <3>1. PoolTypeOK
      BY DEF AInv, Basics, TypeOK
    <3> QED
      BY <1>2, <2>1, <3>1, ReleaseAddsOneBlock
  <2> HIDE DEF p, n
  <2>3. TypeOK'
    BY <1>3, <1>4, <1>5, <2>1, <2>2 DEF AInv, Basics, TypeOK
  <2>4. ASSUME Held PROVE Held'
    <3>1. Taken(p, n, FALSE)
      BY <1>8, <2>1, <2>4
    <3>2. AllIntact'
      <4>1. ASSUME NEW j \in DOMAIN free_blocks'
            PROVE  \/ Taken(free_blocks[j].ptr, free_blocks[j].bytes, FALSE)'
                   \/ \E k \in DOMAIN free_blocks : free_blocks'[j] = free_blocks[k]
        <5>1. CASE free_blocks'[j] = [ptr |-> p, bytes |-> n]
          <6>1. free_blocks'[j].ptr = p /\ free_blocks'[j].bytes = n /\ heap' = heap
            BY <2>1, <5>1
          <6> QED
            BY <3>1, <6>1 DEF Taken
        <5> QED
          BY <2>2, <5>1
      <4>2. NoDuplicates'
        BY <1>8, <2>2, <2>4 DEF Held, AllIntact
      <4> QED
        BY <1>8, <2>1, <2>4, <4>1, <4>2, IntactSameHeap DEF AInv
    <3>3. RawLive'
      BY <1>4, <2>1, <2>4 DEF Held, RawLive
    <3>4. ExclusiveBlocks'
      BY <1>3, <1>4, <1>8, <2>2, <2>4 DEF Held, ExclusiveBlocks
    <3> QED
      BY <3>2, <3>3, <3>4 DEF Held
  <2> QED
    BY <1>4, <1>6, <1>7, <2>3, <2>4 DEF AInv, Basics
<1> QED
  BY <1>9, <1>10

LEMMA AnyMallocStep ==
  ASSUME AInv, NEW p \in Ptrs, NEW n \in RawSizes, GpuBridgeMalloc(p, n) PROVE AInv'
<1>1. /\ n \in Nat /\ initialized /\ MallocDevice(p, n, FALSE) /\ raw' = raw \cup {p}
      /\ UNCHANGED <<initialized, selected, pool_disable, free_blocks, size_stats,
                     desc, profile, undefined, aliases>>
  BY BoundsAssumption DEF GpuBridgeMalloc
<1>2. /\ heap' \in [Ptrs -> Allocation]
      /\ selected \in Backends
      /\ heap'[p] = [owner |-> selected, bytes |-> n, kv |-> FALSE]
      /\ \A q \in Ptrs : q # p => heap'[q] = heap[q]
  BY <1>1, FreshIsWritten DEF AInv
<1>3. Resident' = Resident /\ Pooled' = Pooled /\ \A t \in Resident : BytesOf(t)' = BytesOf(t)
  BY <1>1 DEF Resident, Pooled, BytesOf
<1>4. TypeOK' /\ AnySession' /\ PoolEmptyBetweenSessions'
  BY <1>1, <1>2, <1>3
     DEF AInv, Basics, TypeOK, PoolTypeOK, AnySession, PoolEmptyBetweenSessions
<1>5. HitsMatchStats'
  BY <1>1, StatsKept DEF AInv, Basics
<1>6. ASSUME Held PROVE Held'
  <2>1. p \notin Pooled \cup raw /\ \A u \in Resident : desc[u].device_ptr # p
    BY <1>1, <1>6, FreshIsNew DEF AInv, MallocDevice
  <2>2. AllIntact'
    <3>1. \A j \in DOMAIN free_blocks' : \E k \in DOMAIN free_blocks :
            free_blocks'[j] = free_blocks[k] /\ free_blocks[k].ptr \notin {p}
      BY <1>1, <2>1 DEF Pooled
    <3>2. \A u \in Resident' : u \in Resident /\ desc'[u] = desc[u] /\ desc[u].device_ptr \notin {p}
      BY <1>1, <1>3, <2>1
    <3>3. NoDuplicates' /\ \A q \in Ptrs \ {p} : heap'[q] = heap[q]
      BY <1>1, <1>2, <1>6 DEF Held, AllIntact, NoDuplicates
    <3> QED
      BY <1>6, <3>1, <3>2, <3>3, IntactFrame DEF AInv
  <2>3. RawLive'
    <3>1. \A q \in raw : q \in Ptrs
      BY DEF AInv, Basics, TypeOK
    <3>2. heap'[p].owner \in Owners
      BY <1>2 DEF Owners
    <3> QED
      BY <1>1, <1>2, <1>6, <3>1, <3>2 DEF Held, RawLive
  <2>4. ExclusiveBlocks'
    BY <1>1, <1>3, <1>6, <2>1 DEF Held, ExclusiveBlocks
  <2> QED
    BY <2>2, <2>3, <2>4 DEF Held
<1> QED
  BY <1>1, <1>4, <1>5, <1>6 DEF AInv, Basics

\* gpuBridgeFree() of any address: one that gpuBridgeMalloc() gave disturbs nobody,
\* any other one counts as a second name.
LEMMA AnyRawFreeStep == ASSUME AInv, NEW p \in Ptrs, GpuBridgeFree(p) PROVE AInv'
<1>1. /\ initialized /\ raw' = raw \ {p} /\ undefined' \in BOOLEAN
      /\ heap' = [q \in Ptrs |-> IF q \in {p} THEN Unallocated ELSE heap[q]]
      /\ UNCHANGED <<initialized, selected, pool_disable, free_blocks, size_stats,
                     desc, profile>>
  BY DEF GpuBridgeFree, FreeDevice
<1>2. aliases \in Nat /\ IF p \in raw THEN aliases' = aliases ELSE aliases' = aliases + 1
  BY DEF GpuBridgeFree, AInv, Basics, TypeOK
<1>3. aliases' \in Nat /\ (aliases' = 0 => aliases = 0 /\ p \in raw)
  BY <1>2
<1>4. heap' \in [Ptrs -> Allocation] /\ \A q \in Ptrs \ {p} : heap'[q] = heap[q]
  <2>1. Unallocated \in Allocation
    BY DEF Unallocated, Allocation
  <2> QED
    BY <1>1, <2>1 DEF AInv, Basics, TypeOK
<1>5. Resident' = Resident /\ Pooled' = Pooled /\ \A t \in Resident : BytesOf(t)' = BytesOf(t)
  BY <1>1 DEF Resident, Pooled, BytesOf
<1>6. TypeOK' /\ AnySession' /\ PoolEmptyBetweenSessions'
  BY <1>1, <1>3, <1>4, <1>5
     DEF AInv, Basics, TypeOK, PoolTypeOK, AnySession, PoolEmptyBetweenSessions
<1>7. HitsMatchStats'
  BY <1>1, StatsKept DEF AInv, Basics
<1>8. ASSUME Held, p \in raw PROVE Held'
  <2>1. p \notin Pooled /\ \A u \in Resident : desc[u].device_ptr # p
    BY <1>8 DEF Held, ExclusiveBlocks
  <2>2. AllIntact'
    <3>1. \A j \in DOMAIN free_blocks' : \E k \in DOMAIN free_blocks :
            free_blocks'[j] = free_blocks[k] /\ free_blocks[k].ptr \notin {p}
      BY <1>1, <2>1 DEF Pooled
    <3>2. \A u \in Resident' : u \in Resident /\ desc'[u] = desc[u] /\ desc[u].device_ptr \notin {p}
      BY <1>1, <1>5, <2>1
    <3>3. NoDuplicates'
      BY <1>1, <1>8 DEF Held, AllIntact, NoDuplicates
    <3> QED
      BY <1>4, <1>8, <3>1, <3>2, <3>3, IntactFrame DEF AInv
  <2>3. RawLive'
    <3>1. \A q \in raw : q \in Ptrs
      BY DEF AInv, Basics, TypeOK
    <3> QED
      BY <1>1, <1>4, <1>8, <3>1 DEF Held, RawLive
  <2>4. ExclusiveBlocks'
    BY <1>1, <1>5, <1>8 DEF Held, ExclusiveBlocks
  <2> QED
    BY <2>2, <2>3, <2>4 DEF Held
<1> QED
  BY <1>3, <1>6, <1>7, <1>8 DEF AInv, Basics

\* A copied descriptor holds what the other one did, at a size the pool knows.
LEMMA AnyMirrorStep ==
  ASSUME AInv, NEW t \in Tensors, NEW u \in Tensors, MirrorCreate(t, u)
  PROVE  AInv'
<1>1. /\ initialized /\ t \in Resident
      /\ desc' = [desc EXCEPT ![u] = desc[t]]
      /\ UNCHANGED <<initialized, selected, pool_disable, free_blocks, size_stats, raw,
                     profile, heap, undefined>>
  BY DEF MirrorCreate, Resident
<1>2. aliases \in Nat /\ aliases' = aliases + 1
  BY DEF MirrorCreate, AInv, Basics, TypeOK
<1>3. aliases' \in Nat /\ aliases' # 0
  BY <1>2
<1>4. desc \in [Tensors -> Desc]
  BY DEF AInv, Basics, TypeOK
<1>5. /\ desc' \in [Tensors -> Desc]
      /\ desc'[u] = desc[t]
      /\ \A v \in Tensors : v # u => desc'[v] = desc[v]
  BY <1>1, <1>4
<1>6. ASSUME NEW v \in Resident' PROVE desc'[v].device_ptr \in Ptrs /\ BytesOf(v)' \in Sizes
  <2>1. PICK w \in Resident : desc'[v] = desc[w]
    BY <1>1, <1>5, <1>6 DEF Resident
  <2>2. desc[w].device_ptr \in Ptrs /\ BytesOf(w) \in Sizes
    BY DEF AInv, Basics, AnySession
  <2> QED
    BY <2>1, <2>2 DEF BytesOf
<1>7. TypeOK'
  BY <1>1, <1>3, <1>5 DEF AInv, Basics, TypeOK, PoolTypeOK
<1>8. AnySession' /\ PoolEmptyBetweenSessions'
  BY <1>1, <1>6 DEF AInv, Basics, AnySession, PoolEmptyBetweenSessions
<1>9. HitsMatchStats'
  BY <1>1, StatsKept DEF AInv, Basics
<1> QED
  BY <1>3, <1>7, <1>8, <1>9 DEF AInv, Basics

\* What is not pooled keeps its size and purpose, and a taken address stays taken.
Survives(q) ==
  /\ heap'[q].owner \in {heap[q].owner, Gone}
  /\ heap[q].owner \in Owners => heap'[q].owner \in Owners
  /\ heap'[q].bytes = heap[q].bytes
  /\ heap'[q].kv = heap[q].kv

\* A teardown empties the pool, frees what it held, and leaves what clients hold
\* with its backend or with nobody.
LEMMA AnyTeardown ==
  ASSUME AInv, Teardown
  PROVE  /\ free_blocks' = <<>> /\ size_stats' = NothingServed
         /\ heap' \in [Ptrs -> Allocation]
         /\ \A q \in Ptrs \ Pooled : Survives(q)
         /\ undefined' \in BOOLEAN
<1>1. heap \in [Ptrs -> Allocation] /\ undefined \in BOOLEAN
  BY DEF AInv, Basics, TypeOK
<1>2. CASE ~initialized
  BY <1>1, <1>2 DEF Teardown, AInv, Basics, PoolEmptyBetweenSessions, Survives
<1>3. CASE initialized
  <2>1. selected # NoBackend
    BY <1>3, BackendsAssumption DEF AInv, Basics, AnySession
  <2>2. /\ Drain
        /\ heap' = [p \in Ptrs |->
             IF p \in Pooled THEN Unallocated
             ELSE IF selected \in Volatile /\ Owns(selected, p)
               THEN [heap[p] EXCEPT !.owner = Gone]
             ELSE heap[p]]
        /\ undefined' \in BOOLEAN
    BY <1>3, <2>1 DEF Teardown
  <2>3. Unallocated \in Allocation
    BY DEF Unallocated, Allocation
  <2>4. \A q \in Ptrs : /\ [heap[q] EXCEPT !.owner = Gone] \in Allocation
                        /\ [heap[q] EXCEPT !.owner = Gone].owner = Gone
                        /\ [heap[q] EXCEPT !.owner = Gone].bytes = heap[q].bytes
                        /\ [heap[q] EXCEPT !.owner = Gone].kv = heap[q].kv
    BY <1>1 DEF Allocation
  <2>5. heap' \in [Ptrs -> Allocation]
    BY <1>1, <2>2, <2>3, <2>4
  <2>6. ASSUME NEW q \in Ptrs \ Pooled PROVE Survives(q)
    <3>1. heap'[q] = heap[q] \/ heap'[q] = [heap[q] EXCEPT !.owner = Gone]
      BY <2>2
    <3>2. CASE heap'[q] = heap[q]
      BY <3>2 DEF Survives
    <3>3. CASE heap'[q] = [heap[q] EXCEPT !.owner = Gone]
      BY <2>4, <3>3 DEF Survives, Owners
    <3> QED
      BY <3>1, <3>2, <3>3
  <2> QED
    BY <2>2, <2>5, <2>6 DEF Drain
<1> QED
  BY <1>2, <1>3

\* However a session starts or ends, over whatever the client still holds.
LEMMA AnySessionStep ==
  ASSUME AInv, free_blocks' = <<>>, size_stats' = NothingServed,
         heap' \in [Ptrs -> Allocation], \A q \in Ptrs \ Pooled : Survives(q),
         undefined' \in BOOLEAN, profile' = ZeroProfile,
         UNCHANGED <<pool_disable, desc, raw, aliases>>,
         initialized' \in BOOLEAN, selected' \in Backends \cup {NoBackend},
         initialized' => selected' \in Backends
  PROVE  AInv'
<1>1. free_blocks' \in Seq(Block) /\ DOMAIN free_blocks' = {} /\ size_stats' \in [Sizes -> Nat]
  BY DEF NothingServed
<1>2. Resident' = Resident /\ Pooled' = {} /\ \A t \in Resident : BytesOf(t)' = BytesOf(t)
  BY <1>1 DEF Resident, Pooled, BytesOf
<1>3. ZeroProfile \in Profile
  BY DEF ZeroProfile, Profile
<1>4. TypeOK' /\ AnySession' /\ PoolEmptyBetweenSessions'
  BY <1>1, <1>2, <1>3
     DEF AInv, Basics, TypeOK, PoolTypeOK, AnySession, PoolEmptyBetweenSessions
<1>5. HitsMatchStats'
  BY StatsRestart
<1>6. ASSUME Held PROVE Held'
  <2>1. AllIntact'
    <3>1. \A u \in Resident' :
            u \in Resident /\ desc'[u] = desc[u] /\ desc[u].device_ptr \notin Pooled
      BY <1>2, <1>6 DEF Held, ExclusiveBlocks
    <3>2. NoDuplicates'
      BY <1>1 DEF NoDuplicates
    <3>3. \A q \in Ptrs \ Pooled :
            heap[q].owner \in Owners => /\ heap'[q].owner \in Owners
                                        /\ heap'[q].bytes = heap[q].bytes
                                        /\ heap'[q].kv = heap[q].kv
      BY DEF Survives
    <3> QED
      BY <1>1, <1>6, <3>1, <3>2, <3>3, IntactFrame DEF AInv
  <2>2. RawLive'
    <3>1. \A q \in raw : q \in Ptrs \ Pooled
      BY <1>6 DEF AInv, Basics, TypeOK, Held, ExclusiveBlocks
    <3> QED
      BY <1>6, <3>1 DEF Held, RawLive, Survives
  <2>3. ExclusiveBlocks'
    BY <1>2, <1>6 DEF Held, ExclusiveBlocks
  <2> QED
    BY <2>1, <2>2, <2>3 DEF Held
<1> QED
  BY <1>4, <1>5, <1>6 DEF AInv, Basics

LEMMA AnyQuietStep ==
  ASSUME AInv, pool_disable' \in BOOLEAN,
         UNCHANGED <<initialized, selected, free_blocks, size_stats, desc, raw,
                     profile, heap, undefined, aliases>>
  PROVE  AInv'
<1>1. TypeOK'
  BY DEF AInv, Basics, TypeOK, PoolTypeOK
<1>2. (AnySession /\ PoolEmptyBetweenSessions)'
  BY DEF AInv, Basics, AnySession, PoolEmptyBetweenSessions, Resident, BytesOf
<1>3. HitsMatchStats'
  BY StatsKept DEF AInv, Basics
<1>4. ASSUME Held PROVE Held'
  <2>1. (RawLive /\ ExclusiveBlocks)'
    BY <1>4 DEF Held, RawLive, ExclusiveBlocks, Resident, Pooled
  <2>2. AllIntact'
    <3>1. Resident' = Resident /\ NoDuplicates'
      BY <1>4 DEF Held, AllIntact, NoDuplicates, Resident
    <3> QED
      BY <1>4, <3>1, IntactSameHeap DEF AInv
  <2> QED
    BY <2>1, <2>2 DEF Held
<1> QED
  BY <1>1, <1>2, <1>3, <1>4 DEF AInv, Basics

LEMMA AnyStepPreserves == AInv /\ [AnyClientNext]_vars => AInv'
<1> SUFFICES ASSUME AInv, [AnyClientNext]_vars PROVE AInv'
  OBVIOUS
<1>1. heap \in [Ptrs -> Allocation] /\ undefined \in BOOLEAN
      /\ selected \in Backends \cup {NoBackend} /\ pool_disable \in BOOLEAN
  BY DEF AInv, Basics, TypeOK
<1>2. CASE GpuBridgeInit
  <2>1. free_blocks' = <<>> /\ size_stats' = NothingServed
    BY <1>2 DEF GpuBridgeInit, AInv, Basics, PoolEmptyBetweenSessions
  <2>2. \A q \in Ptrs \ Pooled : Survives(q)
    BY <1>2 DEF GpuBridgeInit, Survives
  <2> QED
    BY <1>1, <1>2, <2>1, <2>2, AnySessionStep DEF GpuBridgeInit, SelectAndInit
<1>3. CASE SetPoolDisable
  <2>1. (~pool_disable) \in BOOLEAN
    OBVIOUS
  <2> QED
    BY <1>3, <2>1, AnyQuietStep DEF SetPoolDisable
<1>4. CASE \E t \in Tensors : TensorFree(t) \/ Alloc(t)
  BY <1>4, AnyFreeStep, AnyAllocStep
<1>5. CASE \E p \in Ptrs : GpuBridgeFree(p) \/ \E n \in RawSizes : GpuBridgeMalloc(p, n)
  BY <1>5, AnyRawFreeStep, AnyMallocStep
<1>6. CASE \E t, u \in Tensors : MirrorCreate(t, u)
  BY <1>6, AnyMirrorStep
<1>7. CASE SetBackend
  BY <1>1, <1>7, AnyTeardown, AnySessionStep DEF SetBackend, SelectAndInit
<1>8. CASE Shutdown
  BY <1>8, AnyTeardown, AnySessionStep DEF Shutdown
<1>9. CASE UNCHANGED vars
  BY <1>1, <1>9, AnyQuietStep DEF vars
<1> QED
  BY <1>2, <1>3, <1>4, <1>5, <1>6, <1>7, <1>8, <1>9 DEF AnyClientNext, CommonNext

-----------------------------------------------------------------------------
(***************************************************************************)
(* The theorems                                                            *)
(***************************************************************************)

\* The invariant holds as long as the program's behaviour is defined, whatever the
\* client calls: the pool's life and counts always, the state of the blocks until
\* the client has two names for one.
THEOREM AnyClientInvariance == AnyClientSpec => []AInv
<1>1. Init => AInv
  BY AnyInitEstablishes
<1>2. AInv /\ [AnyClientNext]_vars => AInv'
  BY AnyStepPreserves
<1> QED
  BY <1>1, <1>2, PTL DEF AnyClientSpec

\* Every variable keeps its type under any client.
THEOREM AnyClientTypeCorrectness == AnyClientSpec => []TypeOK
  BY AnyClientInvariance, PTL DEF AInv, Basics

\* Even a block that crosses sessions, or has lost its device, is at an address of
\* its own, has its true size and is pooled once, for a client that never had two
\* names for a block.
THEOREM BlocksIntactForAnyClient == AnyClientSpec => []BlocksIntact
<1>1. AInv => BlocksIntact
  BY DEF AInv, Held, BlocksIntact
<1> QED
  BY <1>1, AnyClientInvariance, PTL

\* The runtime gives no block to two holders: a client that finds one with two gave
\* it the second name itself.
THEOREM ExclusiveBlocksForAnyClient == AnyClientSpec => []ExclusiveUnlessAliased
<1>1. AInv => ExclusiveUnlessAliased
  BY DEF AInv, Held, ExclusiveUnlessAliased
<1> QED
  BY <1>1, AnyClientInvariance, PTL

\* No client can carry a pooled block or a size's statistics out of a session.
THEOREM PoolEmptyForAnyClient == AnyClientSpec => []PoolEmptyBetweenSessions
  BY AnyClientInvariance, PTL DEF AInv, Basics

\* The profile's hits are the pool's, summed over all sizes, for any client.
THEOREM HitsMatchStatsForAnyClient == AnyClientSpec => []HitsMatchStats
  BY AnyClientInvariance, PTL DEF AInv, Basics

\* The client that frees what it holds is one of the clients the results above are
\* about: it never brings the runtime to undefined behaviour.
THEOREM DisciplinedClientIsAClient == Spec => AnyClientSpec
<1>1. IInv /\ [Next]_vars => [AnyClientNext]_vars
  BY DEF IInv, TypeOK, NoUndefined, Next, AnyClientNext
<1> QED
  BY <1>1, Invariance, PTL DEF Spec, AnyClientSpec

\* So its hits are counted right, too.
THEOREM HitsMatchStatsHolds == Spec => []HitsMatchStats
  BY DisciplinedClientIsAClient, HitsMatchStatsForAnyClient, PTL

=============================================================================
