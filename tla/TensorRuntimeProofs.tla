------------------------- MODULE TensorRuntimeProofs -------------------------
(***************************************************************************)
(* Proofs about TensorRuntime, for every set of tensors, addresses,        *)
(* backends and shapes: the integrity of the pool and of the tensors it    *)
(* serves, and the refinement of DeviceStore.                              *)
(***************************************************************************)
EXTENDS TensorRuntime, SequenceTheorems, FiniteSetTheorems, SumLemmas, TLAPS

-----------------------------------------------------------------------------
(***************************************************************************)
(* The free list                                                           *)
(***************************************************************************)

\* RemoveAt() (the unlinking of a list node in gpuBridgePoolAcquire()) drops one
\* position and shifts the later ones.
LEMMA RemoveAtProperties ==
  ASSUME NEW S, NEW s \in Seq(S), NEW i \in 1 .. Len(s)
  PROVE  /\ RemoveAt(s, i) \in Seq(S)
         /\ Len(RemoveAt(s, i)) = Len(s) - 1
         /\ \A j \in 1 .. Len(s) - 1 :
              RemoveAt(s, i)[j] = IF j < i THEN s[j] ELSE s[j + 1]
<1> DEFINE front == SubSeq(s, 1, i - 1)
           back == SubSeq(s, i + 1, Len(s))
<1>1. Len(s) \in Nat
  BY LenProperties
<1>2. /\ front \in Seq(S)
      /\ Len(front) = i - 1
      /\ \A j \in 1 .. i - 1 : front[j] = s[j]
  BY <1>1
<1>3. /\ back \in Seq(S)
      /\ Len(back) = Len(s) - i
      /\ \A j \in 1 .. Len(s) - i : back[j] = s[i + j]
  BY <1>1
<1>4. RemoveAt(s, i) = front \o back
  BY DEF RemoveAt
<1> HIDE DEF front, back
<1>5. /\ front \o back \in Seq(S)
      /\ Len(front \o back) = Len(s) - 1
      /\ \A j \in 1 .. Len(s) - 1 : (front \o back)[j] =
           IF j <= i - 1 THEN front[j] ELSE back[j - (i - 1)]
  <2>1. Len(s) - 1 = Len(front) + Len(back)
    BY <1>1, <1>2, <1>3
  <2> QED
    BY <1>2, <1>3, <2>1, ConcatProperties
<1>6. ASSUME NEW j \in 1 .. Len(s) - 1
      PROVE  (front \o back)[j] = IF j < i THEN s[j] ELSE s[j + 1]
  <2>1. CASE j < i
    BY <1>1, <1>2, <1>5, <2>1
  <2>2. CASE ~(j < i)
    <3>1. j - (i - 1) \in 1 .. Len(s) - i /\ i + (j - (i - 1)) = j + 1
      BY <1>1, <2>2
    <3>2. (front \o back)[j] = back[j - (i - 1)]
      BY <1>1, <1>5, <2>2
    <3> QED
      BY <1>3, <2>2, <3>1, <3>2
  <2> QED
    BY <2>1, <2>2
<1> QED
  BY <1>4, <1>5, <1>6

\* The list as a function of its positions.
LEMMA ListShape ==
  ASSUME PoolTypeOK
  PROVE  /\ free_blocks \in Seq(Block)
         /\ Len(free_blocks) \in Nat
         /\ DOMAIN free_blocks = 1 .. Len(free_blocks)
         /\ \A j \in DOMAIN free_blocks :
              /\ free_blocks[j] \in Block
              /\ free_blocks[j].ptr \in Ptrs
              /\ free_blocks[j].bytes \in Sizes
<1>1. /\ free_blocks \in Seq(Block)
      /\ Len(free_blocks) \in Nat
      /\ DOMAIN free_blocks = 1 .. Len(free_blocks)
      /\ \A j \in DOMAIN free_blocks : free_blocks[j] \in Block
  BY LenProperties, ElementOfSeq DEF PoolTypeOK
<1> QED
  BY <1>1 DEF Block

\* A pool hit takes exactly one block, of the size asked for, out of the list.
LEMMA HitRemovesOneBlock ==
  ASSUME PoolTypeOK, NEW n \in Sizes, NEW i \in DOMAIN free_blocks, AcquireHit(n, i)
  PROVE  /\ PoolTypeOK'
         /\ free_blocks[i] \in Block
         /\ free_blocks[i].bytes = n
         /\ \A j \in DOMAIN free_blocks' :
              \E k \in DOMAIN free_blocks : free_blocks'[j] = free_blocks[k]
         /\ NoDuplicates => NoDuplicates' /\ Pooled' = Pooled \ {free_blocks[i].ptr}
<1>1. /\ free_blocks \in Seq(Block)
      /\ Len(free_blocks) \in Nat
      /\ DOMAIN free_blocks = 1 .. Len(free_blocks)
      /\ \A j \in DOMAIN free_blocks : free_blocks[j] \in Block
  BY ListShape
<1>2. free_blocks[i].bytes = n
  BY DEF AcquireHit, Fits
<1>3. /\ free_blocks' \in Seq(Block)
      /\ Len(free_blocks') = Len(free_blocks) - 1
      /\ \A j \in 1 .. Len(free_blocks) - 1 :
           free_blocks'[j] = IF j < i THEN free_blocks[j] ELSE free_blocks[j + 1]
  BY <1>1, RemoveAtProperties DEF AcquireHit
<1>4. DOMAIN free_blocks' = 1 .. Len(free_blocks) - 1
  BY <1>3, LenProperties
<1>5. PoolTypeOK'
  BY <1>3 DEF PoolTypeOK, AcquireHit
<1> DEFINE from(j) == IF j < i THEN j ELSE j + 1
<1>6. \A j \in DOMAIN free_blocks' :
        from(j) \in DOMAIN free_blocks \ {i} /\ free_blocks'[j] = free_blocks[from(j)]
  BY <1>1, <1>3, <1>4
<1>7. \A j, k \in DOMAIN free_blocks' : from(j) = from(k) => j = k
  BY <1>1, <1>4
<1>8. NoDuplicates => NoDuplicates'
  <2> HIDE DEF from
  <2> QED
    BY <1>6, <1>7 DEF NoDuplicates
<1>9. ASSUME NEW k \in DOMAIN free_blocks \ {i}
      PROVE  \E j \in DOMAIN free_blocks' : free_blocks'[j] = free_blocks[k]
  <2>1. CASE k < i
    BY <1>1, <1>3, <1>4, <2>1
  <2>2. CASE ~(k < i)
    <3>1. k - 1 \in DOMAIN free_blocks' /\ ~(k - 1 < i) /\ (k - 1) + 1 = k
      BY <1>1, <1>4, <2>2
    <3> QED
      BY <1>3, <1>4, <3>1
  <2> QED
    BY <2>1, <2>2
<1>10. NoDuplicates => Pooled' = Pooled \ {free_blocks[i].ptr}
  <2> HIDE DEF from
  <2> QED
    BY <1>6, <1>9 DEF NoDuplicates, Pooled
<1> QED
  <2> HIDE DEF from
  <2> QED
    BY <1>1, <1>2, <1>5, <1>6, <1>8, <1>10

\* A release adds exactly one block, at the head of the list.
LEMMA ReleaseAddsOneBlock ==
  ASSUME PoolTypeOK, NEW n \in Sizes, NEW p \in Ptrs, Release(p, n)
  PROVE  /\ PoolTypeOK'
         /\ NoDuplicates /\ p \notin Pooled => NoDuplicates'
         /\ \A j \in DOMAIN free_blocks' :
              \/ free_blocks'[j] = [ptr |-> p, bytes |-> n]
              \/ \E k \in DOMAIN free_blocks : free_blocks'[j] = free_blocks[k]
         /\ Pooled' = Pooled \cup {p}
<1> DEFINE new == [ptr |-> p, bytes |-> n]
<1>1. /\ free_blocks \in Seq(Block)
      /\ Len(free_blocks) \in Nat
      /\ DOMAIN free_blocks = 1 .. Len(free_blocks)
  BY ListShape
<1>2. <<new>> \in Seq(Block) /\ Len(<<new>>) = 1 /\ <<new>>[1] = new
  BY DEF Block
<1>3. /\ free_blocks' \in Seq(Block)
      /\ Len(free_blocks') = 1 + Len(free_blocks)
      /\ \A j \in 1 .. 1 + Len(free_blocks) :
           free_blocks'[j] = IF j <= 1 THEN <<new>>[j] ELSE free_blocks[j - 1]
  BY <1>1, <1>2, ConcatProperties DEF Release
<1>4. DOMAIN free_blocks' = 1 .. 1 + Len(free_blocks)
  BY <1>3, LenProperties
<1>5. PoolTypeOK'
  BY <1>3 DEF PoolTypeOK, Release
<1>6. ASSUME NEW j \in DOMAIN free_blocks'
      PROVE  \/ j = 1 /\ free_blocks'[j] = new
             \/ /\ j # 1
                /\ j - 1 \in DOMAIN free_blocks
                /\ free_blocks'[j] = free_blocks[j - 1]
  BY <1>1, <1>2, <1>3, <1>4
<1>7. /\ 1 \in DOMAIN free_blocks' /\ free_blocks'[1] = new
      /\ \A k \in DOMAIN free_blocks : /\ k + 1 \in DOMAIN free_blocks'
                                       /\ free_blocks'[k + 1] = free_blocks[k]
  BY <1>1, <1>2, <1>3, <1>4
<1>8. p \notin Pooled => \A k \in DOMAIN free_blocks : free_blocks[k].ptr # p
  BY DEF Pooled
<1>9. NoDuplicates /\ p \notin Pooled => NoDuplicates'
  BY <1>4, <1>6, <1>8 DEF NoDuplicates
<1>10. Pooled' = Pooled \cup {p}
  BY <1>6, <1>7 DEF Pooled
<1> QED
  BY <1>5, <1>6, <1>9, <1>10

-----------------------------------------------------------------------------
(***************************************************************************)
(* The inductive invariant                                                 *)
(***************************************************************************)

\* A raw buffer is a live allocation of the backend in session.
RawBacked == \A p \in raw : Owns(selected, p)

\* What ties the session to the rest of the state, and the sizes that
\* gpuBridgeTensorFree() can come to release.
SessionInv ==
  /\ initialized => selected \in Backends
  /\ ~initialized => free_blocks = <<>> /\ size_stats = NothingServed /\ NothingHeld
  /\ \A t \in Resident : BytesOf(t) \in Sizes

IInv ==
  /\ TypeOK
  /\ SessionInv
  /\ PoolIntegrity
  /\ TensorsBacked
  /\ RawBacked
  /\ ExclusiveBlocks
  /\ NoLeak
  /\ NoUndefined

\* What anyone holds belongs to the backend in session.
LEMMA HeldIsOwned ==
  ASSUME IInv
  PROVE  /\ \A p \in Pooled \cup raw : Owns(selected, p)
         /\ \A t \in Resident : Owns(selected, desc[t].device_ptr)
<1>1. ASSUME NEW i \in DOMAIN free_blocks
      PROVE  Owns(selected, free_blocks[i].ptr)
  <2>1. free_blocks[i].ptr \in Ptrs
    BY ListShape DEF IInv, TypeOK
  <2>2. heap[free_blocks[i].ptr] =
          [owner |-> selected, bytes |-> free_blocks[i].bytes, kv |-> FALSE]
    BY DEF IInv, PoolIntegrity
  <2> QED
    BY <2>1, <2>2 DEF Owns
<1>2. ASSUME NEW t \in Resident
      PROVE  Owns(selected, desc[t].device_ptr)
  <2>1. /\ desc[t].device_ptr \in Ptrs
        /\ heap[desc[t].device_ptr] = [owner |-> selected, bytes |-> BytesOf(t),
                                       kv |-> desc[t].usage = "kv_cache"]
    BY DEF IInv, TensorsBacked
  <2> QED
    BY <2>1 DEF Owns
<1> QED
  BY <1>1, <1>2 DEF IInv, RawBacked, Pooled

LEMMA InitEstablishes == Init => IInv
<1> SUFFICES ASSUME Init PROVE IInv
  OBVIOUS
<1>1. free_blocks \in Seq(Block) /\ DOMAIN free_blocks = {}
  BY DEF Init, PoolInit
<1>2. size_stats \in [Sizes -> Nat]
  BY DEF Init, PoolInit, NothingServed
<1>3. ZeroProfile \in Profile /\ ZeroDesc \in Desc /\ Unallocated \in Allocation
  BY DEF ZeroProfile, Profile, ZeroDesc, Desc, Strategies, Unallocated, Allocation
<1>4. TypeOK
  BY <1>1, <1>2, <1>3 DEF Init, TypeOK, PoolTypeOK
<1>5. Resident = {} /\ raw = {}
  BY DEF Init, Resident, ZeroDesc
<1>6. SessionInv
  BY <1>5 DEF Init, PoolInit, SessionInv, NothingHeld
<1>7. PoolIntegrity /\ TensorsBacked /\ RawBacked /\ ExclusiveBlocks
  BY <1>1, <1>5 DEF PoolIntegrity, NoDuplicates, TensorsBacked, RawBacked,
                    ExclusiveBlocks, Pooled
<1>8. NoLeak /\ NoUndefined
  BY DEF Init, NoLeak, NoUndefined
<1> QED
  BY <1>4, <1>6, <1>7, <1>8 DEF IInv

\* A teardown with nothing held gives every block back to its owner, once.
LEMMA TeardownFreesAll ==
  ASSUME IInv, NothingHeld, Teardown
  PROVE  /\ free_blocks' = <<>>
         /\ size_stats' = NothingServed
         /\ heap' = [p \in Ptrs |-> Unallocated]
         /\ undefined' = FALSE
<1>1. heap \in [Ptrs -> Allocation] /\ undefined = FALSE
  BY DEF IInv, TypeOK, NoUndefined
<1>2. \A p \in Ptrs : heap[p] # Unallocated => initialized /\ p \in Pooled
  BY DEF IInv, NoLeak, NothingHeld
<1>3. CASE ~initialized
  BY <1>1, <1>2, <1>3 DEF Teardown, IInv, SessionInv
<1>4. CASE initialized
  <2>1. selected # NoBackend
    BY <1>4, BackendsAssumption DEF IInv, SessionInv
  <2>2. /\ Drain
        /\ heap' = [p \in Ptrs |->
             IF p \in Pooled THEN Unallocated
             ELSE IF selected \in Volatile /\ Owns(selected, p)
               THEN [heap[p] EXCEPT !.owner = Gone]
             ELSE heap[p]]
        /\ undefined' = (undefined \/ \E i \in DOMAIN free_blocks :
             \/ ~Owns(selected, free_blocks[i].ptr)
             \/ \E j \in 1 .. (i - 1) : free_blocks[j].ptr = free_blocks[i].ptr)
    BY <1>4, <2>1 DEF Teardown
  <2>3. heap' = [p \in Ptrs |-> Unallocated]
    <3>1. \A p \in Ptrs \ Pooled : heap[p] = Unallocated
      BY <1>2
    <3>2. Unallocated.owner = NoBackend
      BY DEF Unallocated
    <3>3. \A p \in Ptrs \ Pooled : ~Owns(selected, p)
      BY <2>1, <3>1, <3>2 DEF Owns
    <3> QED
      BY <2>2, <3>1, <3>3
  <2>4. /\ DOMAIN free_blocks = 1 .. Len(free_blocks)
        /\ Len(free_blocks) \in Nat
        /\ \A i \in DOMAIN free_blocks : free_blocks[i].ptr \in Ptrs
    BY ListShape DEF IInv, TypeOK
  <2>5. ASSUME NEW i \in DOMAIN free_blocks
        PROVE  /\ Owns(selected, free_blocks[i].ptr)
               /\ ~\E j \in 1 .. (i - 1) : free_blocks[j].ptr = free_blocks[i].ptr
    <3>1. Owns(selected, free_blocks[i].ptr)
      BY HeldIsOwned DEF Pooled
    <3>2. \A j \in 1 .. (i - 1) : j \in DOMAIN free_blocks /\ j # i
      BY <2>4
    <3> QED
      BY <3>1, <3>2 DEF IInv, PoolIntegrity, NoDuplicates
  <2> QED
    BY <1>1, <2>2, <2>3, <2>5 DEF Drain
<1> QED
  BY <1>3, <1>4

\* Between sessions, and at the start of one, there is nothing to hold.
LEMMA FreshSession ==
  ASSUME IInv, NothingHeld,
         free_blocks' = <<>>, size_stats' = NothingServed,
         heap' = [p \in Ptrs |-> Unallocated], undefined' = FALSE,
         profile' = ZeroProfile, UNCHANGED <<pool_disable, desc, raw, aliases>>,
         initialized' \in BOOLEAN, selected' \in Backends \cup {NoBackend},
         initialized' => selected' \in Backends
  PROVE  IInv'
<1>1. free_blocks' \in Seq(Block) /\ DOMAIN free_blocks' = {}
  OBVIOUS
<1>2. size_stats' \in [Sizes -> Nat]
  BY DEF NothingServed
<1>3. ZeroProfile \in Profile /\ Unallocated \in Allocation
  BY DEF ZeroProfile, Profile, Unallocated, Allocation
<1>4. TypeOK'
  BY <1>1, <1>2, <1>3 DEF IInv, TypeOK, PoolTypeOK
<1>5. Resident' = {} /\ raw' = {}
  BY DEF NothingHeld, Resident
<1>6. SessionInv'
  BY <1>5 DEF SessionInv, NothingHeld, NothingServed
<1>7. (PoolIntegrity /\ TensorsBacked /\ RawBacked /\ ExclusiveBlocks)'
  BY <1>1, <1>5 DEF PoolIntegrity, NoDuplicates, TensorsBacked, RawBacked,
                    ExclusiveBlocks, Pooled
<1>8. (NoLeak /\ NoUndefined)'
  BY DEF NoLeak, NoUndefined, Unallocated
<1> QED
  BY <1>4, <1>6, <1>7, <1>8 DEF IInv

\* gpuBridgeInit() finds nothing held, so it too starts a fresh session.
LEMMA InitStep == ASSUME IInv, GpuBridgeInit PROVE IInv'
<1>1. NothingHeld /\ free_blocks = <<>> /\ size_stats = NothingServed
  BY DEF IInv, SessionInv, GpuBridgeInit
<1>2. heap = [p \in Ptrs |-> Unallocated] /\ undefined = FALSE
  BY DEF IInv, TypeOK, NoLeak, NoUndefined, GpuBridgeInit
<1>3. /\ initialized' \in BOOLEAN
      /\ selected' \in Backends \cup {NoBackend}
      /\ initialized' => selected' \in Backends
  BY DEF GpuBridgeInit, SelectAndInit, IInv, TypeOK
<1> QED
  BY <1>1, <1>2, <1>3, FreshSession DEF GpuBridgeInit

LEMMA SetBackendStep == ASSUME IInv, NothingHeld, SetBackend PROVE IInv'
<1>1. /\ initialized' \in BOOLEAN
      /\ selected' \in Backends \cup {NoBackend}
      /\ initialized' => selected' \in Backends
  BY DEF SetBackend, SelectAndInit, IInv, TypeOK
<1> QED
  BY <1>1, TeardownFreesAll, FreshSession DEF SetBackend

LEMMA ShutdownStep == ASSUME IInv, NothingHeld, Shutdown PROVE IInv'
  BY TeardownFreesAll, FreshSession DEF Shutdown

\* The strategy tagged on a block is one of the enumeration's.
LEMMA StrategyType ==
  \A r, l, c : ChooseMemoryStrategy(r, l, c) \in Strategies
  BY DEF ChooseMemoryStrategy, Strategies

\* A successful allocation makes its descriptor resident, whatever it held before,
\* and leaves the others; dropping the second dimension of a rank 1 shape does not
\* change its bytes.
LEMMA DescribeWrites ==
  ASSUME desc \in [Tensors -> Desc], NEW t \in Tensors,
         NEW s \in Shapes, NEW usage \in {"generic", "kv_cache"}, NEW p \in Ptrs,
         NEW r, Describe(t, s[1], <<s[2], s[3]>>, usage, p, r)
  PROVE  /\ desc' \in [Tensors -> Desc]
         /\ Resident' = Resident \cup {t}
         /\ desc'[t].device_ptr = p /\ desc'[t].usage = usage
         /\ BytesOf(t)' = TensorBytes(s[1], <<s[2], s[3]>>)
         /\ TensorBytes(s[1], <<s[2], s[3]>>) \in Sizes
         /\ \A u \in Resident \ {t} : desc'[u] = desc[u] /\ BytesOf(u)' = BytesOf(u)
<1>1. s[1] \in {1, 2} /\ s[2] \in Nat /\ s[3] \in Nat
      /\ TensorBytes(s[1], <<s[2], s[3]>>) \in Sizes
  BY ShapesAssumption
<1> DEFINE shape == <<s[2], IF s[1] = 2 THEN s[3] ELSE 0>>
           d == [device_resident |-> TRUE, device_ptr |-> p, rank |-> s[1],
                 shape |-> shape, usage |-> usage,
                 memory_strategy |-> ChooseMemoryStrategy(r, FALSE, CapsOf[selected])]
<1>2. desc' = [desc EXCEPT ![t] = d]
  BY DEF Describe
<1>3. d \in Desc
  <2>1. shape \in Nat \X Nat /\ s[1] \in 0 .. 2
    BY <1>1
  <2>2. ChooseMemoryStrategy(r, FALSE, CapsOf[selected]) \in Strategies
    BY StrategyType
  <2> HIDE DEF shape
  <2> QED
    BY <2>1, <2>2 DEF Desc
<1>4. TensorBytes(s[1], shape) = TensorBytes(s[1], <<s[2], s[3]>>)
  BY <1>1 DEF TensorBytes, ElementCount
<1>5. d.device_resident /\ d.device_ptr = p /\ d.rank = s[1] /\ d.shape = shape
      /\ d.usage = usage
  OBVIOUS
<1> HIDE DEF d
<1>6. desc'[t] = d /\ \A u \in Tensors : u # t => desc'[u] = desc[u]
  BY <1>2
<1>7. Resident' = Resident \cup {t}
  BY <1>5, <1>6 DEF Resident
<1>8. BytesOf(t)' = TensorBytes(s[1], shape)
  BY <1>5, <1>6 DEF BytesOf
<1>9. \A u \in Resident \ {t} : u # t /\ u \in Tensors
  BY DEF Resident
<1>10. \A u \in Resident \ {t} : desc'[u] = desc[u] /\ BytesOf(u)' = BytesOf(u)
  BY <1>6, <1>9 DEF BytesOf
<1> QED
  BY <1>1, <1>2, <1>3, <1>4, <1>5, <1>6, <1>7, <1>8, <1>10

\* The same for a descriptor that held nothing.
LEMMA DescribeAddsOne ==
  ASSUME desc \in [Tensors -> Desc], NEW t \in Tensors, t \notin Resident,
         NEW s \in Shapes, NEW usage \in {"generic", "kv_cache"}, NEW p \in Ptrs,
         NEW r, Describe(t, s[1], <<s[2], s[3]>>, usage, p, r)
  PROVE  /\ desc' \in [Tensors -> Desc]
         /\ Resident' = Resident \cup {t}
         /\ desc'[t].device_ptr = p /\ desc'[t].usage = usage
         /\ BytesOf(t)' = TensorBytes(s[1], <<s[2], s[3]>>)
         /\ TensorBytes(s[1], <<s[2], s[3]>>) \in Sizes
         /\ \A u \in Resident : desc'[u] = desc[u] /\ BytesOf(u)' = BytesOf(u)
<1>1. /\ desc' \in [Tensors -> Desc]
      /\ Resident' = Resident \cup {t}
      /\ desc'[t].device_ptr = p /\ desc'[t].usage = usage
      /\ BytesOf(t)' = TensorBytes(s[1], <<s[2], s[3]>>)
      /\ TensorBytes(s[1], <<s[2], s[3]>>) \in Sizes
      /\ \A u \in Resident \ {t} : desc'[u] = desc[u] /\ BytesOf(u)' = BytesOf(u)
  BY DescribeWrites
<1> QED
  BY <1>1

\* The arithmetic of the profile.
LEMMA ProfileGrows ==
  ASSUME profile \in Profile, NEW n \in Sizes
  PROVE  /\ [profile EXCEPT !.tensor_allocation_count = @ + 1,
                            !.tensor_pool_hit_count = @ + 1] \in Profile
         /\ [profile EXCEPT !.tensor_allocation_count = @ + 1,
                            !.peak_device_bytes = @ + n] \in Profile
         /\ [profile EXCEPT !.tensor_allocation_count = @ + 1,
                            !.peak_device_bytes = @ + n,
                            !.kv_cache_allocation_count = @ + 1,
                            !.kv_cache_bytes = @ + n] \in Profile
         /\ [profile EXCEPT !.tensor_free_count = @ + 1] \in Profile
<1>1. n \in Nat
  BY SizesAssumption
<1>2. \A m \in Nat : m + 1 \in Nat /\ m + n \in Nat
  BY <1>1
<1>3. [profile EXCEPT !.tensor_allocation_count = @ + 1,
                      !.tensor_pool_hit_count = @ + 1] \in Profile
  BY <1>2 DEF Profile
<1>4. [profile EXCEPT !.tensor_allocation_count = @ + 1,
                      !.peak_device_bytes = @ + n] \in Profile
  BY <1>2 DEF Profile
<1>5. [profile EXCEPT !.tensor_allocation_count = @ + 1,
                      !.peak_device_bytes = @ + n,
                      !.kv_cache_allocation_count = @ + 1,
                      !.kv_cache_bytes = @ + n] \in Profile
  BY <1>2 DEF Profile
<1>6. [profile EXCEPT !.tensor_free_count = @ + 1] \in Profile
  BY <1>2 DEF Profile
<1> QED
  BY <1>3, <1>4, <1>5, <1>6

LEMMA AllocFromPoolStep ==
  ASSUME IInv, NEW t \in Tensors, t \notin Resident, NEW s \in Shapes,
         AllocFromPool(t, s[1], <<s[2], s[3]>>)
  PROVE  IInv'
<1> DEFINE n == TensorBytes(s[1], <<s[2], s[3]>>)
<1>1. PICK i \in DOMAIN free_blocks :
        /\ AcquireHit(n, i)
        /\ Describe(t, s[1], <<s[2], s[3]>>, "generic", free_blocks[i].ptr, size_stats'[n])
  BY DEF AllocFromPool
<1> DEFINE p == free_blocks[i].ptr
<1>2. n \in Sizes
  BY ShapesAssumption
<1> HIDE DEF n
<1>3. /\ PoolTypeOK' /\ NoDuplicates'
      /\ p \in Ptrs /\ p \in Pooled
      /\ \A j \in DOMAIN free_blocks' :
           \E k \in DOMAIN free_blocks : free_blocks'[j] = free_blocks[k]
      /\ Pooled' = Pooled \ {p}
      /\ heap[p] = [owner |-> selected, bytes |-> n, kv |-> FALSE]
  <2>1. PoolTypeOK /\ NoDuplicates
    BY DEF IInv, TypeOK, PoolIntegrity
  <2>2. /\ PoolTypeOK' /\ NoDuplicates'
        /\ free_blocks[i].bytes = n
        /\ \A j \in DOMAIN free_blocks' :
             \E k \in DOMAIN free_blocks : free_blocks'[j] = free_blocks[k]
        /\ Pooled' = Pooled \ {p}
    BY <1>1, <1>2, <2>1, HitRemovesOneBlock
  <2>3. p \in Ptrs /\ p \in Pooled
    BY <2>1, ListShape DEF Pooled
  <2>4. heap[p] = [owner |-> selected, bytes |-> free_blocks[i].bytes, kv |-> FALSE]
    BY DEF IInv, PoolIntegrity
  <2> QED
    BY <2>2, <2>3, <2>4
<1>4. /\ desc' \in [Tensors -> Desc]
      /\ Resident' = Resident \cup {t}
      /\ desc'[t].device_ptr = p /\ desc'[t].usage = "generic"
      /\ BytesOf(t)' = n
      /\ \A u \in Resident : desc'[u] = desc[u] /\ BytesOf(u)' = BytesOf(u)
  BY <1>1, <1>3, DescribeAddsOne DEF IInv, TypeOK, n
<1>5. UNCHANGED <<initialized, selected, pool_disable, raw, heap, undefined, aliases>>
      /\ initialized
  BY DEF AllocFromPool
<1>6. profile' \in Profile
  BY <1>2, ProfileGrows DEF AllocFromPool, IInv, TypeOK
<1> HIDE DEF p
<1>7. TypeOK'
  BY <1>3, <1>4, <1>5, <1>6 DEF IInv, TypeOK
<1>8. SessionInv'
  BY <1>2, <1>4, <1>5 DEF IInv, SessionInv
<1>9. PoolIntegrity'
  BY <1>3, <1>5 DEF IInv, PoolIntegrity
<1>10. TensorsBacked'
  BY <1>3, <1>4, <1>5 DEF IInv, TensorsBacked
<1>11. ExclusiveBlocks' /\ RawBacked'
  BY <1>3, <1>4, <1>5 DEF IInv, ExclusiveBlocks, RawBacked, Owns
<1>12. NoLeak' /\ NoUndefined'
  BY <1>3, <1>4, <1>5 DEF IInv, NoLeak, NoUndefined
<1> QED
  BY <1>7, <1>8, <1>9, <1>10, <1>11, <1>12 DEF IInv

\* An address the backend has free has no holder.
LEMMA FreshIsNobodys ==
  ASSUME IInv, initialized, NEW p \in Ptrs, NEW n \in Nat, NEW kv \in BOOLEAN,
         MallocDevice(p, n, kv)
  PROVE  /\ heap' \in [Ptrs -> Allocation]
         /\ heap'[p] = [owner |-> selected, bytes |-> n, kv |-> kv]
         /\ \A q \in Ptrs : q # p => heap'[q] = heap[q]
         /\ p \notin Pooled \cup raw
         /\ \A u \in Resident : desc[u].device_ptr # p
<1>1. heap \in [Ptrs -> Allocation] /\ selected \in Backends /\ selected # NoBackend
  BY BackendsAssumption DEF IInv, TypeOK, SessionInv
<1>2. [owner |-> selected, bytes |-> n, kv |-> kv] \in Allocation
  BY <1>1 DEF Allocation
<1>3. heap[p].owner # selected
  BY <1>1 DEF MallocDevice, Unallocated
<1>4. p \notin Pooled \cup raw /\ \A u \in Resident : desc[u].device_ptr # p
  BY <1>3, HeldIsOwned DEF Owns
<1> QED
  BY <1>1, <1>2, <1>4 DEF MallocDevice

\* A tensor served by the backend, with the pool left alone.
LEMMA FreshTensor ==
  ASSUME IInv, initialized, NEW t \in Tensors, t \notin Resident, NEW s \in Shapes,
         NEW p \in Ptrs, NEW r, NEW kv \in BOOLEAN,
         MallocDevice(p, TensorBytes(s[1], <<s[2], s[3]>>), kv),
         Describe(t, s[1], <<s[2], s[3]>>, IF kv THEN "kv_cache" ELSE "generic", p, r),
         profile' \in Profile,
         UNCHANGED <<initialized, selected, pool_disable, free_blocks, size_stats,
                     raw, undefined, aliases>>
  PROVE  IInv'
<1> DEFINE n == TensorBytes(s[1], <<s[2], s[3]>>)
           usage == IF kv THEN "kv_cache" ELSE "generic"
<1>1. n \in Sizes /\ n \in Nat
  BY ShapesAssumption, SizesAssumption
<1>2. /\ heap' \in [Ptrs -> Allocation]
      /\ heap'[p] = [owner |-> selected, bytes |-> n, kv |-> kv]
      /\ \A q \in Ptrs : q # p => heap'[q] = heap[q]
      /\ p \notin Pooled \cup raw
      /\ \A u \in Resident : desc[u].device_ptr # p
  BY <1>1, FreshIsNobodys
<1>3. /\ desc' \in [Tensors -> Desc]
      /\ Resident' = Resident \cup {t}
      /\ desc'[t].device_ptr = p /\ desc'[t].usage = usage
      /\ BytesOf(t)' = n
      /\ \A u \in Resident : desc'[u] = desc[u] /\ BytesOf(u)' = BytesOf(u)
  BY DescribeAddsOne DEF IInv, TypeOK
<1>4. kv = (usage = "kv_cache")
  OBVIOUS
<1> HIDE DEF n, usage
<1>5. Pooled' = Pooled
  BY DEF Pooled
<1>6. TypeOK'
  BY <1>2, <1>3 DEF IInv, TypeOK, PoolTypeOK
<1>7. SessionInv'
  BY <1>1, <1>3 DEF IInv, SessionInv
<1>8. PoolIntegrity'
  <2>1. \A i \in DOMAIN free_blocks : free_blocks[i].ptr \in Ptrs \ {p}
    BY <1>2, ListShape DEF Pooled, IInv, TypeOK
  <2> QED
    BY <1>2, <2>1 DEF IInv, PoolIntegrity, NoDuplicates
<1>9. TensorsBacked'
  <2>1. \A u \in Resident : /\ desc[u].device_ptr \in Ptrs \ {p}
                            /\ heap'[desc[u].device_ptr] = heap[desc[u].device_ptr]
    BY <1>2 DEF IInv, TensorsBacked
  <2> QED
    BY <1>2, <1>3, <1>4, <2>1 DEF IInv, TensorsBacked
<1>10. ExclusiveBlocks' /\ RawBacked'
  BY <1>2, <1>3, <1>5 DEF IInv, ExclusiveBlocks, RawBacked, Owns
<1>11. NoLeak' /\ NoUndefined'
  BY <1>2, <1>3, <1>5 DEF IInv, NoLeak, NoUndefined
<1> QED
  BY <1>6, <1>7, <1>8, <1>9, <1>10, <1>11 DEF IInv

LEMMA AllocFromBackendStep ==
  ASSUME IInv, NEW t \in Tensors, t \notin Resident, NEW s \in Shapes, NEW p \in Ptrs,
         AllocFromBackend(t, s[1], <<s[2], s[3]>>, p)
  PROVE  IInv'
<1> DEFINE n == TensorBytes(s[1], <<s[2], s[3]>>)
<1>1. n \in Sizes
  BY ShapesAssumption
<1>2. profile' \in Profile
  BY <1>1, ProfileGrows DEF AllocFromBackend, IInv, TypeOK
<1>3. UNCHANGED poolVars
  BY DEF AllocFromBackend, AcquireMiss
<1> QED
  BY <1>2, <1>3, FreshTensor DEF AllocFromBackend, poolVars

LEMMA AllocKvCacheStep ==
  ASSUME IInv, NEW t \in Tensors, t \notin Resident, NEW s \in Shapes, NEW p \in Ptrs,
         AllocKvCache(t, s[1], <<s[2], s[3]>>, p)
  PROVE  IInv'
<1> DEFINE n == TensorBytes(s[1], <<s[2], s[3]>>)
<1>1. n \in Sizes
  BY ShapesAssumption
<1>2. profile' \in Profile
  BY <1>1, ProfileGrows DEF AllocKvCache, IInv, TypeOK
<1> QED
  BY <1>2, FreshTensor DEF AllocKvCache

\* gpuBridgeTensorFree() takes one tensor out of the resident ones.
LEMMA FreeRemovesOne ==
  ASSUME desc \in [Tensors -> Desc], NEW t \in Resident,
         desc' = [desc EXCEPT ![t].device_resident = FALSE, ![t].device_ptr = NullPtr]
  PROVE  /\ desc' \in [Tensors -> Desc]
         /\ Resident' = Resident \ {t}
         /\ \A u \in Resident' : desc'[u] = desc[u] /\ BytesOf(u)' = BytesOf(u)
<1> DEFINE d == [desc[t] EXCEPT !.device_resident = FALSE, !.device_ptr = NullPtr]
<1>1. t \in Tensors /\ desc[t] \in Desc
  BY DEF Resident
<1>2. desc' = [desc EXCEPT ![t] = d]
  BY <1>1
<1>3. d \in Desc /\ ~d.device_resident
  BY <1>1 DEF Desc
<1> HIDE DEF d
<1>4. desc' \in [Tensors -> Desc] /\ desc'[t] = d
      /\ \A u \in Tensors : u # t => desc'[u] = desc[u]
  BY <1>1, <1>2, <1>3
<1>5. Resident' = Resident \ {t}
  BY <1>3, <1>4 DEF Resident
<1>6. \A u \in Resident' : u # t /\ u \in Tensors
  BY <1>5 DEF Resident
<1> QED
  BY <1>4, <1>5, <1>6 DEF BytesOf

LEMMA TensorFreeStep == ASSUME IInv, NEW t \in Tensors, TensorFree(t) PROVE IInv'
<1> DEFINE p == desc[t].device_ptr
           n == BytesOf(t)
<1>1. t \in Resident /\ initialized
  BY DEF TensorFree, Resident
<1>2. /\ p \in Ptrs /\ Owns(selected, p) /\ n \in Sizes
      /\ heap[p] = [owner |-> selected, bytes |-> n, kv |-> desc[t].usage = "kv_cache"]
      /\ p \notin Pooled \cup raw
      /\ \A u \in Resident : u # t => desc[u].device_ptr # p
  BY <1>1, HeldIsOwned DEF IInv, TensorsBacked, ExclusiveBlocks, SessionInv, Resident
<1>3. /\ desc' \in [Tensors -> Desc]
      /\ Resident' = Resident \ {t}
      /\ \A u \in Resident' : desc'[u] = desc[u] /\ BytesOf(u)' = BytesOf(u)
  BY <1>1, FreeRemovesOne DEF TensorFree, IInv, TypeOK
<1>4. UNCHANGED <<initialized, selected, pool_disable, raw, aliases>>
  BY DEF TensorFree
<1>5. profile' \in Profile
  <2>1. [profile EXCEPT !.tensor_free_count = @ + 1] \in Profile
    BY <1>2, ProfileGrows DEF IInv, TypeOK
  <2> QED
    BY <2>1 DEF TensorFree
<1>6. SessionInv'
  BY <1>1, <1>3, <1>4 DEF IInv, SessionInv
<1>7. CASE BypassesPool(t)
  <2>1. /\ heap' = [q \in Ptrs |-> IF q \in {p} THEN Unallocated ELSE heap[q]]
        /\ UNCHANGED <<free_blocks, size_stats>>
        /\ undefined' = FALSE
    BY <1>2, <1>7 DEF TensorFree, FreeDevice, poolVars, IInv, NoUndefined
  <2>2. /\ heap' \in [Ptrs -> Allocation]
        /\ heap'[p] = Unallocated
        /\ \A q \in Ptrs : q # p => heap'[q] = heap[q]
    <3>1. Unallocated \in Allocation
      BY DEF Unallocated, Allocation
    <3> QED
      BY <1>2, <2>1, <3>1 DEF IInv, TypeOK
  <2>3. Pooled' = Pooled
    BY <2>1 DEF Pooled
  <2> HIDE DEF p, n
  <2>4. TypeOK'
    BY <1>3, <1>4, <1>5, <2>1, <2>2 DEF IInv, TypeOK, PoolTypeOK
  <2>5. PoolIntegrity'
    <3>1. \A i \in DOMAIN free_blocks : free_blocks[i].ptr \in Ptrs \ {p}
      BY <1>2, ListShape DEF Pooled, IInv, TypeOK
    <3> QED
      BY <1>4, <2>1, <2>2, <3>1 DEF IInv, PoolIntegrity, NoDuplicates
  <2>6. TensorsBacked'
    <3>1. \A u \in Resident' : /\ desc[u].device_ptr \in Ptrs \ {p}
                               /\ heap'[desc[u].device_ptr] = heap[desc[u].device_ptr]
      BY <1>2, <1>3, <2>2 DEF IInv, TensorsBacked
    <3> QED
      BY <1>3, <1>4, <3>1 DEF IInv, TensorsBacked
  <2>7. ExclusiveBlocks' /\ RawBacked'
    BY <1>2, <1>3, <1>4, <2>2, <2>3 DEF IInv, ExclusiveBlocks, RawBacked, Owns
  <2>8. NoLeak' /\ NoUndefined'
    BY <1>1, <1>3, <1>4, <2>1, <2>2, <2>3 DEF IInv, NoLeak, NoUndefined, p
  <2> QED
    BY <1>6, <2>4, <2>5, <2>6, <2>7, <2>8 DEF IInv
<1>8. CASE ~BypassesPool(t)
  <2>1. Release(p, n) /\ UNCHANGED <<heap, undefined>> /\ desc[t].usage # "kv_cache"
    BY <1>8 DEF TensorFree, BypassesPool, BytesOf
  <2>2. /\ PoolTypeOK' /\ NoDuplicates'
        /\ \A j \in DOMAIN free_blocks' :
             \/ free_blocks'[j] = [ptr |-> p, bytes |-> n]
             \/ \E k \in DOMAIN free_blocks : free_blocks'[j] = free_blocks[k]
        /\ Pooled' = Pooled \cup {p}
    <3>1. PoolTypeOK /\ NoDuplicates
      BY DEF IInv, TypeOK, PoolIntegrity
    <3> QED
      BY <1>2, <2>1, <3>1, ReleaseAddsOneBlock
  <2>3. heap[p] = [owner |-> selected, bytes |-> n, kv |-> FALSE]
    BY <1>2, <2>1
  <2> HIDE DEF p, n
  <2>4. TypeOK'
    BY <1>3, <1>4, <1>5, <2>1, <2>2 DEF IInv, TypeOK
  <2>5. PoolIntegrity'
    <3>1. ASSUME NEW j \in DOMAIN free_blocks'
          PROVE  heap[free_blocks'[j].ptr] =
                   [owner |-> selected, bytes |-> free_blocks'[j].bytes, kv |-> FALSE]
      <4>1. CASE free_blocks'[j] = [ptr |-> p, bytes |-> n]
        BY <2>3, <4>1
      <4>2. CASE \E k \in DOMAIN free_blocks : free_blocks'[j] = free_blocks[k]
        BY <4>2 DEF IInv, PoolIntegrity
      <4> QED
        BY <2>2, <4>1, <4>2
    <3> QED
      BY <1>4, <2>1, <2>2, <3>1 DEF PoolIntegrity
  <2>6. TensorsBacked'
    BY <1>3, <1>4, <2>1 DEF IInv, TensorsBacked
  <2>7. ExclusiveBlocks' /\ RawBacked'
    BY <1>2, <1>3, <1>4, <2>1, <2>2 DEF IInv, ExclusiveBlocks, RawBacked, Owns
  <2>8. NoLeak' /\ NoUndefined'
    BY <1>1, <1>3, <1>4, <2>1, <2>2 DEF IInv, NoLeak, NoUndefined, p
  <2> QED
    BY <1>6, <2>4, <2>5, <2>6, <2>7, <2>8 DEF IInv
<1> QED
  BY <1>7, <1>8

LEMMA MallocStep ==
  ASSUME IInv, NEW p \in Ptrs, NEW n \in RawSizes, GpuBridgeMalloc(p, n) PROVE IInv'
<1>1. /\ n \in Nat /\ initialized /\ MallocDevice(p, n, FALSE) /\ raw' = raw \cup {p}
      /\ UNCHANGED <<initialized, selected, pool_disable, free_blocks, size_stats,
                     desc, profile, undefined, aliases>>
  BY BoundsAssumption DEF GpuBridgeMalloc
<1>2. /\ heap' \in [Ptrs -> Allocation]
      /\ heap'[p] = [owner |-> selected, bytes |-> n, kv |-> FALSE]
      /\ \A q \in Ptrs : q # p => heap'[q] = heap[q]
      /\ p \notin Pooled \cup raw
      /\ \A u \in Resident : desc[u].device_ptr # p
  BY <1>1, FreshIsNobodys
<1>3. Resident' = Resident /\ Pooled' = Pooled /\ \A t \in Resident : BytesOf(t)' = BytesOf(t)
  BY <1>1 DEF Resident, Pooled, BytesOf
<1>4. TypeOK' /\ SessionInv'
  BY <1>1, <1>2, <1>3 DEF IInv, TypeOK, PoolTypeOK, SessionInv
<1>5. PoolIntegrity'
  <2>1. \A i \in DOMAIN free_blocks : free_blocks[i].ptr \in Ptrs \ {p}
    BY <1>2, ListShape DEF Pooled, IInv, TypeOK
  <2> QED
    BY <1>1, <1>2, <2>1 DEF IInv, PoolIntegrity, NoDuplicates
<1>6. TensorsBacked'
  <2>1. \A u \in Resident : /\ desc[u].device_ptr \in Ptrs \ {p}
                            /\ heap'[desc[u].device_ptr] = heap[desc[u].device_ptr]
    BY <1>2 DEF IInv, TensorsBacked
  <2> QED
    BY <1>1, <1>3, <2>1 DEF IInv, TensorsBacked
<1>7. ExclusiveBlocks' /\ RawBacked'
  BY <1>1, <1>2, <1>3 DEF IInv, ExclusiveBlocks, RawBacked, Owns
<1>8. NoLeak' /\ NoUndefined'
  BY <1>1, <1>2, <1>3 DEF IInv, NoLeak, NoUndefined
<1> QED
  BY <1>4, <1>5, <1>6, <1>7, <1>8 DEF IInv

LEMMA FreeStep == ASSUME IInv, NEW p \in raw, GpuBridgeFree(p) PROVE IInv'
<1>1. /\ initialized /\ p \in Ptrs /\ raw' = raw \ {p}
      /\ heap' = [q \in Ptrs |-> IF q \in {p} THEN Unallocated ELSE heap[q]]
      /\ undefined' = (undefined \/ ~Owns(selected, p))
      /\ UNCHANGED <<initialized, selected, pool_disable, free_blocks, size_stats,
                     desc, profile, aliases>>
  BY DEF GpuBridgeFree, FreeDevice, IInv, TypeOK
<1>2. /\ Owns(selected, p)
      /\ p \notin Pooled
      /\ \A u \in Resident : desc[u].device_ptr # p
  BY <1>1, HeldIsOwned DEF IInv, ExclusiveBlocks
<1>3. /\ heap' \in [Ptrs -> Allocation]
      /\ heap'[p] = Unallocated
      /\ \A q \in Ptrs : q # p => heap'[q] = heap[q]
  <2>1. Unallocated \in Allocation
    BY DEF Unallocated, Allocation
  <2> QED
    BY <1>1, <2>1 DEF IInv, TypeOK
<1>4. Resident' = Resident /\ Pooled' = Pooled /\ \A t \in Resident : BytesOf(t)' = BytesOf(t)
  BY <1>1 DEF Resident, Pooled, BytesOf
<1>5. TypeOK' /\ SessionInv'
  BY <1>1, <1>3, <1>4 DEF IInv, TypeOK, PoolTypeOK, SessionInv
<1>6. PoolIntegrity'
  <2>1. \A i \in DOMAIN free_blocks : free_blocks[i].ptr \in Ptrs \ {p}
    BY <1>2, ListShape DEF Pooled, IInv, TypeOK
  <2> QED
    BY <1>1, <1>3, <2>1 DEF IInv, PoolIntegrity, NoDuplicates
<1>7. TensorsBacked'
  <2>1. \A u \in Resident : /\ desc[u].device_ptr \in Ptrs \ {p}
                            /\ heap'[desc[u].device_ptr] = heap[desc[u].device_ptr]
    BY <1>2, <1>3 DEF IInv, TensorsBacked
  <2> QED
    BY <1>1, <1>4, <2>1 DEF IInv, TensorsBacked
<1>8. ExclusiveBlocks' /\ RawBacked'
  BY <1>1, <1>2, <1>3, <1>4 DEF IInv, ExclusiveBlocks, RawBacked, Owns
<1>9. NoLeak' /\ NoUndefined'
  BY <1>1, <1>2, <1>3, <1>4 DEF IInv, NoLeak, NoUndefined
<1> QED
  BY <1>5, <1>6, <1>7, <1>8, <1>9 DEF IInv

\* Nothing but the environment, or nothing at all, changes.
LEMMA QuietStep ==
  ASSUME IInv, pool_disable' \in BOOLEAN,
         UNCHANGED <<initialized, selected, free_blocks, size_stats, desc, raw,
                     profile, heap, undefined, aliases>>
  PROVE  IInv'
<1>1. TypeOK'
  BY DEF IInv, TypeOK, PoolTypeOK
<1>2. (SessionInv /\ PoolIntegrity)'
  BY DEF IInv, SessionInv, NothingHeld, Resident, BytesOf, PoolIntegrity, NoDuplicates
<1>3. (TensorsBacked /\ RawBacked /\ ExclusiveBlocks)'
  BY DEF IInv, TensorsBacked, RawBacked, Owns, ExclusiveBlocks, Resident, BytesOf, Pooled
<1>4. (NoLeak /\ NoUndefined)'
  BY DEF IInv, NoLeak, NoUndefined, Resident, Pooled
<1> QED
  BY <1>1, <1>2, <1>3, <1>4 DEF IInv

LEMMA StepPreserves == IInv /\ [Next]_vars => IInv'
<1> SUFFICES ASSUME IInv, [Next]_vars PROVE IInv'
  OBVIOUS
<1>1. CASE CommonNext
  <2>1. CASE GpuBridgeInit
    BY <2>1, InitStep
  <2>2. CASE SetPoolDisable
    <3>1. (~pool_disable) \in BOOLEAN
      OBVIOUS
    <3> QED
      BY <2>2, <3>1, QuietStep DEF SetPoolDisable
  <2>3. CASE \E t \in Tensors : TensorFree(t)
    BY <2>3, TensorFreeStep
  <2>4. CASE \E p \in Ptrs, n \in RawSizes : GpuBridgeMalloc(p, n)
    BY <2>4, MallocStep
  <2> QED
    BY <1>1, <2>1, <2>2, <2>3, <2>4 DEF CommonNext
<1>2. CASE \E t \in Tensors : t \notin Resident /\ Alloc(t)
  <2>1. PICK t \in Tensors : t \notin Resident /\ Alloc(t)
    BY <1>2
  <2>2. PICK s \in Shapes :
          \/ AllocFromPool(t, s[1], <<s[2], s[3]>>)
          \/ \E p \in Ptrs : \/ AllocFromBackend(t, s[1], <<s[2], s[3]>>, p)
                             \/ AllocKvCache(t, s[1], <<s[2], s[3]>>, p)
    BY <2>1 DEF Alloc
  <2> QED
    BY <2>1, <2>2, AllocFromPoolStep, AllocFromBackendStep, AllocKvCacheStep
<1>3. CASE NothingHeld /\ (SetBackend \/ Shutdown)
  BY <1>3, SetBackendStep, ShutdownStep
<1>4. CASE UNCHANGED vars
  BY <1>4, QuietStep DEF vars, IInv, TypeOK
<1>5. CASE \E p \in raw : GpuBridgeFree(p)
  BY <1>5, FreeStep
<1> QED
  BY <1>1, <1>2, <1>3, <1>4, <1>5 DEF Next

-----------------------------------------------------------------------------
(***************************************************************************)
(* The theorems                                                            *)
(***************************************************************************)

\* The invariant holds in every state a client that frees what it holds before
\* it ends a session can bring the runtime to.
THEOREM Invariance == Spec => []IInv
<1>1. Init => IInv
  BY InitEstablishes
<1>2. IInv /\ [Next]_vars => IInv'
  BY StepPreserves
<1> QED
  BY <1>1, <1>2, PTL DEF Spec

\* Every variable of tensor_alloc_impl() and its neighbours keeps its type.
THEOREM TypeCorrectness == Spec => []TypeOK
  BY Invariance, PTL DEF IInv

\* What the pool holds is live, filed under its true size, and there once.
THEOREM PoolIntegrityHolds == Spec => []PoolIntegrity
  BY Invariance, PTL DEF IInv

\* A resident tensor has a live block of exactly its size.
THEOREM TensorsBackedHolds == Spec => []TensorsBacked
  BY Invariance, PTL DEF IInv

\* No block has two holders.
THEOREM ExclusiveBlocksHolds == Spec => []ExclusiveBlocks
  BY Invariance, PTL DEF IInv

\* No device memory is lost, and none outlives its session.
THEOREM NoLeakHolds == Spec => []NoLeak
  BY Invariance, PTL DEF IInv

\* No backend is asked to free what it does not own.
THEOREM NoUndefinedHolds == Spec => []NoUndefined
  BY Invariance, PTL DEF IInv

\* Between sessions the pool holds no block and remembers no size: every way out of
\* a session drains it.
THEOREM PoolEmptyBetweenSessionsHolds == Spec => []PoolEmptyBetweenSessions
<1>1. IInv => PoolEmptyBetweenSessions
  BY DEF IInv, SessionInv, PoolEmptyBetweenSessions
<1> QED
  BY Invariance, <1>1, PTL

-----------------------------------------------------------------------------
(***************************************************************************)
(* The counters and the tensors they count                                 *)
(***************************************************************************)

Counted == IsFiniteSet(Resident) /\ CountsBalance

\* A successful allocation into a descriptor that is not resident.
LEMMA AllocCounts ==
  ASSUME IInv, Counted, NEW t \in Tensors, t \notin Resident, Alloc(t)
  PROVE  Counted'
<1>1. PICK s \in Shapes :
        \/ AllocFromPool(t, s[1], <<s[2], s[3]>>)
        \/ \E p \in Ptrs : \/ AllocFromBackend(t, s[1], <<s[2], s[3]>>, p)
                           \/ AllocKvCache(t, s[1], <<s[2], s[3]>>, p)
  BY DEF Alloc
<1>2. PICK usage \in {"generic", "kv_cache"}, p \in Ptrs :
        \E r : Describe(t, s[1], <<s[2], s[3]>>, usage, p, r)
  <2>1. CASE AllocFromPool(t, s[1], <<s[2], s[3]>>)
    <3>1. PICK i \in DOMAIN free_blocks :
            Describe(t, s[1], <<s[2], s[3]>>, "generic", free_blocks[i].ptr,
                     size_stats'[TensorBytes(s[1], <<s[2], s[3]>>)])
      BY <2>1 DEF AllocFromPool
    <3>2. free_blocks[i].ptr \in Ptrs
      BY ListShape DEF IInv, TypeOK, Block
    <3> QED
      BY <3>1, <3>2
  <2>2. CASE \E p \in Ptrs : AllocFromBackend(t, s[1], <<s[2], s[3]>>, p)
    BY <2>2 DEF AllocFromBackend
  <2>3. CASE \E p \in Ptrs : AllocKvCache(t, s[1], <<s[2], s[3]>>, p)
    BY <2>3 DEF AllocKvCache
  <2> QED
    BY <1>1, <2>1, <2>2, <2>3
<1>3. Resident' = Resident \cup {t}
  <2>1. desc \in [Tensors -> Desc]
    BY DEF IInv, TypeOK
  <2> QED
    BY <1>2, <2>1, DescribeAddsOne
<1>4. profile \in Profile
  BY DEF IInv, TypeOK
<1>5. /\ profile'.tensor_allocation_count = profile.tensor_allocation_count + 1
      /\ profile'.tensor_free_count = profile.tensor_free_count
  BY <1>1, <1>4 DEF AllocFromPool, AllocFromBackend, AllocKvCache, Profile
<1>6. IsFiniteSet(Resident') /\ Cardinality(Resident') = Cardinality(Resident) + 1
  BY <1>3, FS_AddElement DEF Counted
<1>7. profile.tensor_allocation_count \in Nat /\ profile.tensor_free_count \in Nat
  BY <1>4 DEF Profile
<1> QED
  BY <1>5, <1>6, <1>7 DEF Counted, CountsBalance

LEMMA FreeCounts ==
  ASSUME IInv, Counted, NEW t \in Tensors, TensorFree(t)
  PROVE  Counted'
<1>1. t \in Resident
  BY DEF TensorFree, Resident
<1>2. Resident' = Resident \ {t}
  BY <1>1, FreeRemovesOne DEF TensorFree, IInv, TypeOK
<1>3. profile \in Profile
  BY DEF IInv, TypeOK
<1>4. /\ profile'.tensor_allocation_count = profile.tensor_allocation_count
      /\ profile'.tensor_free_count = profile.tensor_free_count + 1
  BY <1>3 DEF TensorFree, Profile
<1>5. /\ IsFiniteSet(Resident')
      /\ Cardinality(Resident') = Cardinality(Resident) - 1
  BY <1>1, <1>2, FS_RemoveElement DEF Counted
<1>6. Cardinality(Resident) \in Nat
  BY FS_CardinalityType DEF Counted
<1>7. profile.tensor_allocation_count \in Nat /\ profile.tensor_free_count \in Nat
  BY <1>3 DEF Profile
<1> QED
  BY <1>4, <1>5, <1>6, <1>7 DEF Counted, CountsBalance

\* A profile that starts from zero does so while nothing is resident.
LEMMA ZeroCounts ==
  ASSUME Resident' = {}, profile' = ZeroProfile
  PROVE  Counted'
BY FS_EmptySet DEF Counted, CountsBalance, ZeroProfile

LEMMA OthersCount ==
  ASSUME Counted, UNCHANGED <<desc, profile>>
  PROVE  Counted'
BY DEF Counted, CountsBalance, Resident

\* Allocations less frees is the number of resident tensors, although three ways
\* to allocate count and every way into a session resets.
THEOREM CountsBalanceHolds == Spec => []CountsBalance
<1>1. Init => Counted
  <2> SUFFICES ASSUME Init PROVE Counted
    OBVIOUS
  <2>1. Resident = {}
    BY DEF Init, ZeroDesc, Resident
  <2> QED
    BY <2>1, FS_EmptySet DEF Init, Counted, CountsBalance, ZeroProfile
<1>2. IInv /\ Counted /\ [Next]_vars => Counted'
  <2> SUFFICES ASSUME IInv, Counted, [Next]_vars PROVE Counted'
    OBVIOUS
  <2>1. CASE GpuBridgeInit
    <3>1. Resident' = {}
      BY <2>1 DEF GpuBridgeInit, IInv, SessionInv, NothingHeld, Resident
    <3> QED
      BY <2>1, <3>1, ZeroCounts DEF GpuBridgeInit
  <2>2. CASE SetPoolDisable
    BY <2>2, OthersCount DEF SetPoolDisable
  <2>3. CASE \E t \in Tensors : TensorFree(t)
    BY <2>3, FreeCounts
  <2>4. CASE \/ \E p \in raw : GpuBridgeFree(p)
             \/ \E p \in Ptrs, n \in RawSizes : GpuBridgeMalloc(p, n)
    BY <2>4, OthersCount DEF GpuBridgeFree, GpuBridgeMalloc
  <2>5. CASE \E t \in Tensors : t \notin Resident /\ Alloc(t)
    BY <2>5, AllocCounts
  <2>6. CASE NothingHeld /\ (SetBackend \/ Shutdown)
    <3>1. Resident' = {} /\ profile' = ZeroProfile
      BY <2>6 DEF NothingHeld, SetBackend, Shutdown, Resident
    <3> QED
      BY <3>1, ZeroCounts
  <2>7. CASE UNCHANGED vars
    BY <2>7, OthersCount DEF vars
  <2> QED
    BY <2>1, <2>2, <2>3, <2>4, <2>5, <2>6, <2>7 DEF Next, CommonNext
<1>3. Counted => CountsBalance
  BY DEF Counted
<1> QED
  BY Invariance, <1>1, <1>2, <1>3, PTL DEF Spec

-----------------------------------------------------------------------------
(***************************************************************************)
(* The footprint and the profile's peak_device_bytes                       *)
(***************************************************************************)

\* The footprint of a heap h, when the addresses of w are raw buffers.
BytesHeld(h, w) == SumFunctionOnSet([q \in Ptrs |-> h[q].bytes], Ptrs \ w)

\* What the address p contributes to it.
BytesHeldAt(h, w, p) == IF p \in w THEN 0 ELSE h[p].bytes

\* A footprint is one address's share and the footprint of the others.
LEMMA FootprintSplit ==
  ASSUME NEW h \in [Ptrs -> Allocation], NEW w, NEW p \in Ptrs
  PROVE  /\ BytesHeld(h, w) = BytesHeldAt(h, w, p) + BytesHeld(h, w \cup {p})
         /\ BytesHeld(h, w \cup {p}) \in Int
         /\ BytesHeldAt(h, w, p) \in Nat
<1> DEFINE f == [q \in Ptrs |-> h[q].bytes]
           S == Ptrs \ w
<1>1. \A q \in Ptrs : f[q] = h[q].bytes /\ f[q] \in Nat
  BY DEF Allocation
<1>2. IsFiniteSet(S) /\ IsFiniteSet(S \ {p})
  BY WidthsAssumption, FS_Subset, FS_RemoveElement
<1>3. Ptrs \ (w \cup {p}) = S \ {p}
  OBVIOUS
<1>4. \A q \in S : q \in Ptrs
  OBVIOUS
<1> HIDE DEF f, S
<1>5. SumFunctionOnSet(f, S \ {p}) \in Int
  BY <1>1, <1>2, <1>4, SumType
<1>6. p \in S => SumFunctionOnSet(f, S) = f[p] + SumFunctionOnSet(f, S \ {p})
  BY <1>1, <1>2, <1>4, SumSplit
<1>7. p \notin S => S \ {p} = S
  OBVIOUS
<1>8. p \in S <=> p \notin w
  BY DEF S
<1>9. BytesHeld(h, w) = SumFunctionOnSet(f, S)
      /\ BytesHeld(h, w \cup {p}) = SumFunctionOnSet(f, S \ {p})
  BY <1>3 DEF BytesHeld, f, S
<1> QED
  BY <1>1, <1>5, <1>6, <1>7, <1>8, <1>9 DEF BytesHeldAt

\* A change at one address changes the footprint by that address's share.
LEMMA FootprintChange ==
  ASSUME NEW h \in [Ptrs -> Allocation], NEW k \in [Ptrs -> Allocation],
         NEW v, NEW w, NEW p \in Ptrs, v \cup {p} = w \cup {p},
         \A q \in Ptrs \ {p} : h[q] = k[q]
  PROVE  BytesHeld(k, w) = BytesHeld(h, v) + (BytesHeldAt(k, w, p) - BytesHeldAt(h, v, p))
<1>1. BytesHeld(h, v \cup {p}) = BytesHeld(k, w \cup {p})
  <2> DEFINE f == [q \in Ptrs |-> h[q].bytes]
             g == [q \in Ptrs |-> k[q].bytes]
             S == Ptrs \ (v \cup {p})
  <2>1. \A q \in S : f[q] = g[q]
    OBVIOUS
  <2>2. IsFiniteSet(S)
    BY WidthsAssumption, FS_Subset
  <2>3. BytesHeld(h, v \cup {p}) = SumFunctionOnSet(f, S)
        /\ BytesHeld(k, w \cup {p}) = SumFunctionOnSet(g, S)
    BY DEF BytesHeld
  <2> HIDE DEF f, g, S
  <2> QED
    BY <2>1, <2>2, <2>3, SumSame
<1> QED
  BY <1>1, FootprintSplit

\* Where nothing is allocated nothing is held.
LEMMA NoFootprint ==
  ASSUME NEW h, NEW w, h = [p \in Ptrs |-> Unallocated]
  PROVE  BytesHeld(h, w) = 0
<1> DEFINE f == [q \in Ptrs |-> h[q].bytes]
           S == Ptrs \ w
<1>1. \A q \in S : f[q] = 0
  BY DEF Unallocated
<1>2. IsFiniteSet(S)
  BY WidthsAssumption, FS_Subset
<1>3. BytesHeld(h, w) = SumFunctionOnSet(f, S)
  BY DEF BytesHeld
<1> HIDE DEF f, S
<1> QED
  BY <1>1, <1>2, <1>3, SumZeros

LEMMA FootprintIsHeld == Footprint = BytesHeld(heap, raw) /\ Footprint' = BytesHeld(heap', raw')
  BY DEF Footprint, BytesHeld

\* The footprint and the counter move together.
Together ==
  profile'.peak_device_bytes - Footprint' = profile.peak_device_bytes - Footprint

\* The footprint shrinks and the counter does not.
FreedPastPool ==
  /\ \E t \in Resident : BypassesPool(t) /\ ~desc'[t].device_resident
  /\ Footprint' <= Footprint
  /\ profile'.peak_device_bytes = profile.peak_device_bytes

\* A session begins: nothing is held and nothing counted.
StartsOver == profile' = ZeroProfile /\ Footprint' = 0

LEMMA FootprintType ==
  ASSUME IInv
  PROVE  /\ heap \in [Ptrs -> Allocation] /\ raw \in SUBSET Ptrs
         /\ Footprint \in Int
         /\ profile.peak_device_bytes \in Nat
<1>1. heap \in [Ptrs -> Allocation] /\ raw \in SUBSET Ptrs /\ profile \in Profile
  BY DEF IInv, TypeOK
<1>2. profile.peak_device_bytes \in Nat
  BY <1>1 DEF Profile
<1>3. Footprint \in Int
  <2> DEFINE f == [q \in Ptrs |-> heap[q].bytes]
             S == Ptrs \ raw
  <2>1. IsFiniteSet(S) /\ \A q \in S : f[q] \in Int
    BY <1>1, WidthsAssumption, FS_Subset DEF Allocation
  <2>2. Footprint = SumFunctionOnSet(f, S)
    BY DEF Footprint
  <2> HIDE DEF f, S
  <2> QED
    BY <2>1, <2>2, SumType
<1> QED
  BY <1>1, <1>2, <1>3

\* A block the backend makes for a tensor is counted.
LEMMA FreshTensorFootprint ==
  ASSUME IInv, initialized, NEW p \in Ptrs, NEW n \in Nat, NEW kv \in BOOLEAN,
         MallocDevice(p, n, kv), raw' = raw,
         profile'.peak_device_bytes = profile.peak_device_bytes + n
  PROVE  Together
<1>1. /\ heap' \in [Ptrs -> Allocation]
      /\ heap'[p] = [owner |-> selected, bytes |-> n, kv |-> kv]
      /\ \A q \in Ptrs : q # p => heap'[q] = heap[q]
      /\ p \notin raw
  BY FreshIsNobodys
<1>2. heap[p].bytes = 0
  BY DEF MallocDevice, Unallocated
<1>3. BytesHeldAt(heap', raw', p) = n /\ BytesHeldAt(heap, raw, p) = 0
  BY <1>1, <1>2 DEF BytesHeldAt
<1>4. BytesHeld(heap', raw') =
        BytesHeld(heap, raw) + (BytesHeldAt(heap', raw', p) - BytesHeldAt(heap, raw, p))
  BY <1>1, FootprintType, FootprintChange
<1>5. Footprint' = Footprint + n
  BY <1>3, <1>4, FootprintIsHeld, FootprintType
<1> QED
  BY <1>5, FootprintType DEF Together

\* A raw buffer is not part of the footprint, nor was its address before.
LEMMA RawFootprint ==
  ASSUME IInv, NEW p \in Ptrs, heap' \in [Ptrs -> Allocation],
         \A q \in Ptrs : q # p => heap'[q] = heap[q],
         raw \cup {p} = raw' \cup {p},
         BytesHeldAt(heap, raw, p) = 0, BytesHeldAt(heap', raw', p) = 0,
         profile' = profile
  PROVE  Together
<1>1. BytesHeld(heap', raw') =
        BytesHeld(heap, raw) + (BytesHeldAt(heap', raw', p) - BytesHeldAt(heap, raw, p))
  BY FootprintType, FootprintChange
<1>2. Footprint' = Footprint
  BY <1>1, FootprintIsHeld, FootprintType
<1> QED
  BY <1>2, FootprintType DEF Together

LEMMA NothingMoves ==
  ASSUME IInv, UNCHANGED <<heap, raw>>,
         profile'.peak_device_bytes = profile.peak_device_bytes
  PROVE  Together
BY FootprintIsHeld DEF Together

LEMMA AllocFootprint ==
  ASSUME IInv, NEW t \in Tensors, t \notin Resident, Alloc(t)
  PROVE  Together
<1>1. PICK s \in Shapes :
        \/ AllocFromPool(t, s[1], <<s[2], s[3]>>)
        \/ \E p \in Ptrs : \/ AllocFromBackend(t, s[1], <<s[2], s[3]>>, p)
                           \/ AllocKvCache(t, s[1], <<s[2], s[3]>>, p)
  BY DEF Alloc
<1> DEFINE n == TensorBytes(s[1], <<s[2], s[3]>>)
<1>2. n \in Nat
  BY ShapesAssumption, SizesAssumption
<1>3. profile \in Profile
  BY DEF IInv, TypeOK
<1>4. CASE AllocFromPool(t, s[1], <<s[2], s[3]>>)
  <2>1. profile'.peak_device_bytes = profile.peak_device_bytes
    BY <1>3, <1>4 DEF AllocFromPool, Profile
  <2> QED
    BY <1>4, <2>1, NothingMoves DEF AllocFromPool
<1>5. ASSUME NEW p \in Ptrs, AllocFromBackend(t, s[1], <<s[2], s[3]>>, p)
      PROVE  Together
  <2>1. initialized /\ MallocDevice(p, n, FALSE) /\ raw' = raw
    BY <1>5 DEF AllocFromBackend
  <2>2. profile'.peak_device_bytes = profile.peak_device_bytes + n
    BY <1>3, <1>5 DEF AllocFromBackend, Profile
  <2> HIDE DEF n
  <2> QED
    BY <1>2, <2>1, <2>2, FreshTensorFootprint
<1>6. ASSUME NEW p \in Ptrs, AllocKvCache(t, s[1], <<s[2], s[3]>>, p)
      PROVE  Together
  <2>1. initialized /\ MallocDevice(p, n, TRUE) /\ raw' = raw
    BY <1>6 DEF AllocKvCache
  <2>2. profile'.peak_device_bytes = profile.peak_device_bytes + n
    BY <1>3, <1>6 DEF AllocKvCache, Profile
  <2> HIDE DEF n
  <2> QED
    BY <1>2, <2>1, <2>2, FreshTensorFootprint
<1> QED
  BY <1>1, <1>4, <1>5, <1>6

LEMMA FreeFootprint ==
  ASSUME IInv, NEW t \in Tensors, TensorFree(t)
  PROVE  Together \/ FreedPastPool
<1> DEFINE p == desc[t].device_ptr
<1>1. t \in Resident /\ raw' = raw
  BY DEF TensorFree, Resident
<1>2. profile'.peak_device_bytes = profile.peak_device_bytes
  <2>1. profile \in Profile
    BY DEF IInv, TypeOK
  <2> QED
    BY <2>1 DEF TensorFree, Profile
<1>3. CASE ~BypassesPool(t)
  BY <1>1, <1>2, <1>3, NothingMoves DEF TensorFree
<1>4. CASE BypassesPool(t)
  <2>1. p \in Ptrs /\ p \notin raw
    BY <1>1 DEF IInv, TensorsBacked, ExclusiveBlocks
  <2>2. heap' = [q \in Ptrs |-> IF q \in {p} THEN Unallocated ELSE heap[q]]
    BY <1>4 DEF TensorFree, FreeDevice
  <2>3. /\ heap' \in [Ptrs -> Allocation]
        /\ heap'[p] = Unallocated
        /\ \A q \in Ptrs : q # p => heap'[q] = heap[q]
    <3>1. Unallocated \in Allocation
      BY DEF Unallocated, Allocation
    <3> QED
      BY <2>1, <2>2, <3>1, FootprintType
  <2>4. ~desc'[t].device_resident
    <3>1. desc \in [Tensors -> Desc]
      BY DEF IInv, TypeOK
    <3>2. t \notin Resident'
      BY <1>1, <3>1, FreeRemovesOne DEF TensorFree
    <3> QED
      BY <3>2 DEF Resident
  <2> HIDE DEF p
  <2>5. BytesHeldAt(heap', raw', p) = 0 /\ BytesHeldAt(heap, raw, p) \in Nat
    <3>1. BytesHeldAt(heap, raw, p) \in Nat
      BY <2>1, FootprintType, FootprintSplit
    <3> QED
      BY <1>1, <2>1, <2>3, <3>1 DEF BytesHeldAt, Unallocated
  <2>6. BytesHeld(heap', raw') =
          BytesHeld(heap, raw) + (BytesHeldAt(heap', raw', p) - BytesHeldAt(heap, raw, p))
    BY <1>1, <2>1, <2>3, FootprintType, FootprintChange
  <2>7. Footprint' <= Footprint
    BY <2>5, <2>6, FootprintIsHeld, FootprintType
  <2> QED
    BY <1>1, <1>2, <1>4, <2>4, <2>7 DEF FreedPastPool
<1> QED
  BY <1>3, <1>4

LEMMA RawMallocFootprint ==
  ASSUME IInv, NEW p \in Ptrs, NEW n \in RawSizes, GpuBridgeMalloc(p, n)
  PROVE  Together
<1>1. /\ heap' \in [Ptrs -> Allocation]
      /\ \A q \in Ptrs : q # p => heap'[q] = heap[q]
      /\ p \notin raw
  BY FreshIsNobodys, BoundsAssumption DEF GpuBridgeMalloc
<1>2. heap[p].bytes = 0 /\ raw' = raw \cup {p} /\ profile' = profile
  BY DEF GpuBridgeMalloc, MallocDevice, Unallocated
<1>3. BytesHeldAt(heap, raw, p) = 0 /\ BytesHeldAt(heap', raw', p) = 0
  BY <1>2 DEF BytesHeldAt
<1> QED
  BY <1>1, <1>2, <1>3, RawFootprint

LEMMA RawFreeFootprint ==
  ASSUME IInv, NEW p \in raw, GpuBridgeFree(p)
  PROVE  Together
<1>1. /\ p \in Ptrs /\ raw' = raw \ {p} /\ profile' = profile
      /\ heap' = [q \in Ptrs |-> IF q \in {p} THEN Unallocated ELSE heap[q]]
  BY DEF GpuBridgeFree, FreeDevice, IInv, TypeOK
<1>2. /\ heap' \in [Ptrs -> Allocation]
      /\ heap'[p] = Unallocated
      /\ \A q \in Ptrs : q # p => heap'[q] = heap[q]
  <2>1. Unallocated \in Allocation
    BY DEF Unallocated, Allocation
  <2> QED
    BY <1>1, <2>1, FootprintType
<1>3. BytesHeldAt(heap, raw, p) = 0 /\ BytesHeldAt(heap', raw', p) = 0
  BY <1>1, <1>2 DEF BytesHeldAt, Unallocated
<1> QED
  BY <1>1, <1>2, <1>3, RawFootprint

LEMMA StepFootprint ==
  ASSUME IInv, [Next]_vars
  PROVE  StartsOver \/ Together \/ FreedPastPool
<1>1. CASE GpuBridgeInit
  <2>1. \A p \in Ptrs : heap[p] = Unallocated
    BY <1>1 DEF GpuBridgeInit, IInv, NoLeak
  <2>2. heap' = [p \in Ptrs |-> Unallocated]
    BY <1>1, <2>1, FootprintType DEF GpuBridgeInit
  <2> QED
    BY <1>1, <2>2, NoFootprint, FootprintIsHeld DEF GpuBridgeInit, StartsOver
<1>2. CASE NothingHeld /\ (SetBackend \/ Shutdown)
  <2>1. NothingHeld /\ Teardown /\ profile' = ZeroProfile
    BY <1>2 DEF SetBackend, Shutdown
  <2> QED
    BY <2>1, TeardownFreesAll, NoFootprint, FootprintIsHeld DEF StartsOver
<1>3. CASE SetPoolDisable \/ UNCHANGED vars
  BY <1>3, NothingMoves DEF SetPoolDisable, vars
<1>4. CASE \E t \in Tensors : TensorFree(t)
  BY <1>4, FreeFootprint
<1>5. CASE \/ \E p \in raw : GpuBridgeFree(p)
           \/ \E p \in Ptrs, n \in RawSizes : GpuBridgeMalloc(p, n)
  BY <1>5, RawMallocFootprint, RawFreeFootprint
<1>6. CASE \E t \in Tensors : t \notin Resident /\ Alloc(t)
  BY <1>6, AllocFootprint
<1> QED
  BY <1>1, <1>2, <1>3, <1>4, <1>5, <1>6 DEF Next, CommonNext

\* The counter and the memory in use part company at a free past the pool, and
\* nowhere else.
THEOREM PeakTracksFootprintHolds == Spec => PeakTracksFootprint
<1>1. IInv /\ [Next]_vars =>
        [\/ profile' = ZeroProfile
         \/ profile'.peak_device_bytes - Footprint' = profile.peak_device_bytes - Footprint
         \/ \E t \in Resident : BypassesPool(t) /\ ~desc'[t].device_resident]_vars
  BY StepFootprint DEF StartsOver, Together, FreedPastPool
<1> QED
  BY <1>1, Invariance, PTL DEF Spec, PeakTracksFootprint

\* The counter never falls below the memory that tensors and the pool hold.
THEOREM PeakCoversFootprintHolds == Spec => []PeakCoversFootprint
<1>1. Init => PeakCoversFootprint
  <2> SUFFICES ASSUME Init PROVE PeakCoversFootprint
    OBVIOUS
  <2>1. Footprint = 0
    BY NoFootprint, FootprintIsHeld DEF Init
  <2> QED
    BY <2>1 DEF Init, ZeroProfile, PeakCoversFootprint
<1>2. IInv /\ IInv' /\ PeakCoversFootprint /\ [Next]_vars => PeakCoversFootprint'
  <2> SUFFICES ASSUME IInv, IInv', PeakCoversFootprint, [Next]_vars
               PROVE  PeakCoversFootprint'
    OBVIOUS
  <2>1. Footprint \in Int /\ profile.peak_device_bytes \in Nat
    BY FootprintType
  <2>2. Footprint' \in Int /\ profile'.peak_device_bytes \in Nat
    <3>1. heap' \in [Ptrs -> Allocation] /\ profile' \in Profile
      BY DEF IInv, TypeOK
    <3> DEFINE f == [q \in Ptrs |-> heap'[q].bytes]
               S == Ptrs \ raw'
    <3>2. IsFiniteSet(S) /\ \A q \in S : f[q] \in Int
      BY <3>1, WidthsAssumption, FS_Subset DEF Allocation
    <3>3. Footprint' = SumFunctionOnSet(f, S)
      BY DEF Footprint
    <3>4. profile'.peak_device_bytes \in Nat
      BY <3>1 DEF Profile
    <3> HIDE DEF f, S
    <3> QED
      BY <3>2, <3>3, <3>4, SumType
  <2>3. CASE StartsOver
    BY <2>3 DEF StartsOver, ZeroProfile, PeakCoversFootprint
  <2>4. CASE Together
    BY <2>1, <2>2, <2>4 DEF Together, PeakCoversFootprint
  <2>5. CASE FreedPastPool
    BY <2>1, <2>2, <2>5 DEF FreedPastPool, PeakCoversFootprint
  <2> QED
    BY <2>3, <2>4, <2>5, StepFootprint
<1> QED
  BY <1>1, <1>2, Invariance, PTL DEF Spec

-----------------------------------------------------------------------------
(***************************************************************************)
(* The backend of a block                                                  *)
(***************************************************************************)

\* An allocation into a free descriptor is served with memory of the backend in
\* session.
LEMMA AllocHandsOwned ==
  ASSUME IInv, NEW t \in Tensors, t \notin Resident, Alloc(t)
  PROVE  \A u \in Tensors :
           desc'[u].device_resident => heap'[desc'[u].device_ptr].owner = selected'
<1>1. IInv'
  <2>1. Next
    BY DEF Next
  <2> QED
    BY <2>1, StepPreserves
<1>2. ASSUME NEW u \in Tensors, desc'[u].device_resident
      PROVE  heap'[desc'[u].device_ptr].owner = selected'
  <2>1. u \in Resident'
    BY <1>2 DEF Resident
  <2>2. TensorsBacked'
    BY <1>1 DEF IInv
  <2>3. heap'[desc'[u].device_ptr] =
          [owner |-> selected', bytes |-> BytesOf(u)', kv |-> desc'[u].usage = "kv_cache"]
    BY <2>1, <2>2 DEF TensorsBacked
  <2> QED
    BY <2>3
<1> QED
  BY <1>2

\* To a client that frees what it holds before it ends a session, no block of
\* another backend is ever handed out: the crossing of sessions that a careless
\* client meets needs a descriptor that outlives one.
THEOREM HandoutsOwnedHolds == Spec => HandoutsOwned
<1> DEFINE Owned == \A t \in Tensors :
             (desc'[t].device_resident /\ desc'[t].device_ptr # desc[t].device_ptr) =>
               heap'[desc'[t].device_ptr].owner \notin Backends \ {selected'}
<1>1. IInv /\ [Next]_vars => Owned
  <2> SUFFICES ASSUME IInv, [Next]_vars PROVE Owned
    OBVIOUS
  <2>1. CASE UNCHANGED desc
    BY <2>1
  <2>2. CASE \E t \in Tensors : TensorFree(t)
    <3>1. PICK t \in Tensors : TensorFree(t)
      BY <2>2
    <3>2. desc \in [Tensors -> Desc] /\ t \in Resident
      BY <3>1 DEF IInv, TypeOK, TensorFree, Resident
    <3>3. Resident' = Resident \ {t} /\ \A u \in Resident' : desc'[u] = desc[u]
      BY <3>1, <3>2, FreeRemovesOne DEF TensorFree
    <3> QED
      BY <3>3 DEF Resident
  <2>3. CASE \E t \in Tensors : t \notin Resident /\ Alloc(t)
    BY <2>3, AllocHandsOwned
  <2> QED
    BY <2>1, <2>2, <2>3
       DEF Next, CommonNext, GpuBridgeInit, SetPoolDisable, GpuBridgeFree,
           GpuBridgeMalloc, SetBackend, Shutdown, vars
<1>2. IInv /\ [Next]_vars =>
        [\A t \in Tensors :
           (/\ aliases' = 0
            /\ desc'[t].device_resident
            /\ desc'[t].device_ptr # desc[t].device_ptr) =>
             heap'[desc'[t].device_ptr].owner \notin Backends \ {selected'}]_vars
  BY <1>1
<1> QED
  BY <1>2, Invariance, PTL DEF Spec, HandoutsOwned

-----------------------------------------------------------------------------
(***************************************************************************)
(* The refinement of DeviceStore                                           *)
(***************************************************************************)

\* What the mapping makes of each tensor.
LEMMA HeldByMapping ==
  ASSUME IInv
  PROVE  /\ \A t \in Resident :
              BlockOf(t) = {[ptr |-> desc[t].device_ptr, bytes |-> BytesOf(t)]}
         /\ \A t \in Tensors \ Resident : BlockOf(t) = {}
         /\ \A p \in Ptrs : p \notin raw
              /\ (\A t \in Resident : desc[t].device_ptr # p) => Store!Available(p)
<1>1. /\ \A t \in Resident :
           BlockOf(t) = {[ptr |-> desc[t].device_ptr, bytes |-> BytesOf(t)]}
      /\ \A t \in Tensors \ Resident : BlockOf(t) = {}
  BY DEF BlockOf, Resident, BytesOf
<1>2. ASSUME NEW p \in Ptrs, p \notin raw, \A t \in Resident : desc[t].device_ptr # p
      PROVE  Store!Available(p)
  <2>1. \A t \in Tensors : \A block \in BlockOf(t) : block.ptr # p
    BY <1>1, <1>2
  <2> QED
    BY <1>2, <2>1 DEF Store!Available
<1> QED
  BY <1>1, <1>2

\* Starting or ending a session is a switch, since nothing is held then.
LEMMA SessionRefines ==
  ASSUME IInv, NothingHeld, initialized' \in BOOLEAN,
         initialized' => selected' \in Backends, UNCHANGED <<desc, raw>>
  PROVE  Store!Next
<1> DEFINE b == IF initialized' THEN selected' ELSE NoBackend
<1>1. b \in Backends \cup {NoBackend}
  OBVIOUS
<1>2. \A t \in Tensors : BlockOf(t) = {} /\ BlockOf(t)' = {}
  BY DEF NothingHeld, Resident, BlockOf
<1>3. Store!Switch(b)
  BY <1>2 DEF Store!Switch, NothingHeld
<1> QED
  BY <1>1, <1>3 DEF Store!Next

\* An allocation gives its tensor a block nobody has.
LEMMA AllocRefines ==
  ASSUME IInv, initialized, NEW t \in Tensors, t \notin Resident, NEW s \in Shapes,
         NEW usage \in {"generic", "kv_cache"}, NEW p \in Ptrs, NEW r,
         Describe(t, s[1], <<s[2], s[3]>>, usage, p, r),
         p \notin raw, \A u \in Resident : desc[u].device_ptr # p,
         UNCHANGED <<initialized, selected, raw>>
  PROVE  Store!Next
<1> DEFINE n == TensorBytes(s[1], <<s[2], s[3]>>)
           block == [ptr |-> p, bytes |-> n]
<1>1. /\ desc' \in [Tensors -> Desc]
      /\ Resident' = Resident \cup {t}
      /\ desc'[t].device_ptr = p
      /\ BytesOf(t)' = n
      /\ n \in Sizes
      /\ \A u \in Resident : desc'[u] = desc[u] /\ BytesOf(u)' = BytesOf(u)
  <2>1. desc \in [Tensors -> Desc]
    BY DEF IInv, TypeOK
  <2>2. /\ desc' \in [Tensors -> Desc]
        /\ Resident' = Resident \cup {t}
        /\ desc'[t].device_ptr = p /\ desc'[t].usage = usage
        /\ BytesOf(t)' = TensorBytes(s[1], <<s[2], s[3]>>)
        /\ TensorBytes(s[1], <<s[2], s[3]>>) \in Sizes
        /\ \A u \in Resident : desc'[u] = desc[u] /\ BytesOf(u)' = BytesOf(u)
    BY <2>1, DescribeAddsOne, Zenon
  <2> QED
    BY <2>2 DEF n
<1>2. BlockOf(t)' = {block}
  BY <1>1 DEF BlockOf, BytesOf, Resident
<1>3. \A u \in Tensors : u # t => BlockOf(u)' = BlockOf(u)
  BY <1>1 DEF BlockOf, Resident
<1>4. Store!Available(p) /\ BlockOf(t) = {}
  BY HeldByMapping
<1>5. selected # NoBackend
  BY BackendsAssumption DEF IInv, SessionInv
<1>6. block \in Store!Blocks /\ block.ptr = p
  BY <1>1 DEF Store!Blocks
<1> HIDE DEF n, block
<1>7. Store!Allocate(t, block)
  BY <1>2, <1>3, <1>4, <1>5, <1>6 DEF Store!Allocate
<1> QED
  BY <1>6, <1>7 DEF Store!Next

\* A free takes its tensor's block away.
LEMMA FreeRefines == ASSUME IInv, NEW t \in Tensors, TensorFree(t) PROVE Store!Next
<1>1. t \in Resident /\ initialized /\ UNCHANGED <<initialized, selected, raw>>
  BY DEF TensorFree, Resident
<1>2. /\ desc' \in [Tensors -> Desc]
      /\ Resident' = Resident \ {t}
      /\ \A u \in Resident' : desc'[u] = desc[u] /\ BytesOf(u)' = BytesOf(u)
  BY <1>1, FreeRemovesOne DEF TensorFree, IInv, TypeOK
<1>3. BlockOf(t)' = {}
  BY <1>2 DEF BlockOf, Resident
<1>4. \A u \in Tensors : u # t => BlockOf(u)' = BlockOf(u)
  <2>1. ASSUME NEW u \in Tensors, u # t PROVE BlockOf(u)' = BlockOf(u)
    <3>1. CASE u \in Resident
      BY <1>2, <2>1, <3>1 DEF BlockOf
    <3>2. CASE u \notin Resident
      BY <1>2, <3>2 DEF BlockOf, Resident
    <3> QED
      BY <3>1, <3>2
  <2> QED
    BY <2>1
<1>5. BlockOf(t) # {}
  BY <1>1, HeldByMapping
<1>6. selected # NoBackend
  BY <1>1, BackendsAssumption DEF IInv, SessionInv
<1>7. Store!Deallocate(t)
  BY <1>1, <1>3, <1>4, <1>5, <1>6 DEF Store!Deallocate
<1> QED
  BY <1>7 DEF Store!Next

LEMMA StepRefines == IInv /\ [Next]_vars => [Store!Next]_(Store!vars)
<1> SUFFICES ASSUME IInv, [Next]_vars PROVE [Store!Next]_(Store!vars)
  OBVIOUS
<1>1. CASE GpuBridgeInit
  BY <1>1, SessionRefines DEF GpuBridgeInit, SelectAndInit, IInv, SessionInv
<1>2. CASE NothingHeld /\ (SetBackend \/ Shutdown)
  BY <1>2, SessionRefines DEF SetBackend, Shutdown, SelectAndInit
<1>3. CASE \E t \in Tensors : TensorFree(t)
  BY <1>3, FreeRefines
<1>4. CASE \E t \in Tensors : t \notin Resident /\ Alloc(t)
  <2>1. PICK t \in Tensors, s \in Shapes :
          /\ t \notin Resident
          /\ \/ AllocFromPool(t, s[1], <<s[2], s[3]>>)
             \/ \E p \in Ptrs : \/ AllocFromBackend(t, s[1], <<s[2], s[3]>>, p)
                                \/ AllocKvCache(t, s[1], <<s[2], s[3]>>, p)
    BY <1>4 DEF Alloc
  <2>2. TensorBytes(s[1], <<s[2], s[3]>>) \in Nat
    BY ShapesAssumption, SizesAssumption
  <2>3. CASE AllocFromPool(t, s[1], <<s[2], s[3]>>)
    <3>1. PICK i \in DOMAIN free_blocks :
            Describe(t, s[1], <<s[2], s[3]>>, "generic", free_blocks[i].ptr,
                     size_stats'[TensorBytes(s[1], <<s[2], s[3]>>)])
      BY <2>3 DEF AllocFromPool
    <3>2. free_blocks[i].ptr \in Ptrs /\ free_blocks[i].ptr \in Pooled
      BY ListShape DEF IInv, TypeOK, Pooled
    <3>3. /\ free_blocks[i].ptr \notin raw
          /\ \A u \in Resident : desc[u].device_ptr # free_blocks[i].ptr
      BY <3>2 DEF IInv, ExclusiveBlocks
    <3> QED
      BY <2>1, <2>3, <3>1, <3>2, <3>3, AllocRefines DEF AllocFromPool
  <2>4. ASSUME NEW p \in Ptrs, AllocFromBackend(t, s[1], <<s[2], s[3]>>, p)
        PROVE  Store!Next
    <3>1. p \notin raw /\ \A u \in Resident : desc[u].device_ptr # p
      BY <2>2, <2>4, FreshIsNobodys DEF AllocFromBackend
    <3> QED
      BY <2>1, <2>4, <3>1, AllocRefines DEF AllocFromBackend
  <2>5. ASSUME NEW p \in Ptrs, AllocKvCache(t, s[1], <<s[2], s[3]>>, p)
        PROVE  Store!Next
    <3>1. p \notin raw /\ \A u \in Resident : desc[u].device_ptr # p
      BY <2>2, <2>5, FreshIsNobodys DEF AllocKvCache
    <3> QED
      BY <2>1, <2>5, <3>1, AllocRefines DEF AllocKvCache
  <2> QED
    BY <2>1, <2>3, <2>4, <2>5
<1>5. ASSUME NEW p \in Ptrs, NEW n \in RawSizes, GpuBridgeMalloc(p, n)
      PROVE  Store!Next
  <2>1. p \notin raw /\ \A u \in Resident : desc[u].device_ptr # p
    BY <1>5, FreshIsNobodys, BoundsAssumption DEF GpuBridgeMalloc
  <2>2. Store!Available(p)
    BY <2>1, HeldByMapping
  <2>3. initialized /\ selected # NoBackend
    BY <1>5, BackendsAssumption DEF IInv, SessionInv, GpuBridgeMalloc
  <2>4. \A t \in Tensors : BlockOf(t)' = BlockOf(t)
    BY <1>5 DEF GpuBridgeMalloc, BlockOf
  <2>5. Store!AllocateBuffer(p)
    BY <1>5, <2>2, <2>3, <2>4 DEF GpuBridgeMalloc, Store!AllocateBuffer
  <2> QED
    BY <2>5 DEF Store!Next
<1>6. ASSUME NEW p \in raw, GpuBridgeFree(p) PROVE Store!Next
  <2>1. initialized /\ selected # NoBackend
    BY <1>6, BackendsAssumption DEF IInv, SessionInv, GpuBridgeFree
  <2>2. \A t \in Tensors : BlockOf(t)' = BlockOf(t)
    BY <1>6 DEF GpuBridgeFree, BlockOf
  <2>3. Store!DeallocateBuffer(p)
    BY <1>6, <2>1, <2>2 DEF GpuBridgeFree, Store!DeallocateBuffer
  <2>4. p \in Ptrs
    BY DEF IInv, TypeOK
  <2> QED
    BY <2>3, <2>4 DEF Store!Next
<1>7. CASE SetPoolDisable \/ UNCHANGED vars
  <2>1. UNCHANGED <<initialized, selected, desc, raw>>
    BY <1>7 DEF SetPoolDisable, vars
  <2>2. \A t \in Tensors : BlockOf(t)' = BlockOf(t)
    BY <2>1 DEF BlockOf
  <2> QED
    BY <2>1, <2>2 DEF Store!vars
<1> QED
  BY <1>1, <1>2, <1>3, <1>4, <1>5, <1>6, <1>7 DEF Next, CommonNext

\* Pooling is invisible: whatever a block's history, the client sees memory
\* that is its own until it frees it.
THEOREM Refinement == Spec => ImplementsStore
<1>1. Init => Store!Init
  BY DEF Init, Store!Init, BlockOf, ZeroDesc
<1>2. IInv /\ [Next]_vars => [Store!Next]_(Store!vars)
  BY StepRefines
<1> QED
  BY <1>1, <1>2, Invariance, PTL DEF Spec, ImplementsStore, Store!Spec

=============================================================================
