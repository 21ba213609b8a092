---------------------------- MODULE PortalProofs ----------------------------
(***************************************************************************)
(* Proofs about Portal, for any client, any graphs and any widths of int   *)
(* and size_t that are those of an LP64 machine.                           *)
(***************************************************************************)
EXTENDS Portal, TLAPS

-----------------------------------------------------------------------------
(***************************************************************************)
(* The widths: what a product of positive ints asks of the runtime and the *)
(* device is what it means.                                                *)
(***************************************************************************)

LEMMA SmallMod ==
  ASSUME NEW a \in Nat, NEW b \in Nat, a < b
  PROVE  a % b = a
OBVIOUS

\* The number of elements of a matrix with int sizes, four times over, is within
\* a size_t.
LEMMA MatrixSize ==
  ASSUME NEW r \in 1 .. IntMax, NEW c \in 1 .. IntMax
  PROVE  /\ r * c \in Nat
         /\ 4 * (r * c) < SizeMod
  <1>1. r * c \in Nat /\ r * c <= r * IntMax
    BY WidthAssumption
  <1>2. r * IntMax <= IntMax * IntMax
    BY WidthAssumption
  <1> QED  BY <1>1, <1>2, WidthAssumption

LEMMA MatrixBytes ==
  ASSUME NEW r \in 1 .. IntMax, NEW c \in 1 .. IntMax
  PROVE  Bytes(2, <<r, c>>) = 4 * (r * c)
  <1>1. (r * c) % SizeMod = r * c
    BY MatrixSize, SmallMod, WidthAssumption
  <1>2. (4 * (r * c)) % SizeMod = 4 * (r * c)
    BY MatrixSize, SmallMod, WidthAssumption
  <1> QED  BY <1>1, <1>2 DEF Bytes, ElementCount

LEMMA AsIntExact ==
  ASSUME NEW n \in 0 .. IntMax
  PROVE  AsInt(n) = n
  <1>1. n % (2 * (IntMax + 1)) = n
    BY SmallMod, WidthAssumption
  <1> QED  BY <1>1 DEF AsInt

-----------------------------------------------------------------------------
(***************************************************************************)
(* One product                                                             *)
(***************************************************************************)

Positive(p) == p.m \in 1 .. IntMax /\ p.k \in 1 .. IntMax /\ p.n \in 1 .. IntMax

\* A product that is not refused has arrays and positive sizes.
LEMMA NotRefused ==
  ASSUME NEW p \in Request, Refused(p) = "success"
  PROVE  Positive(p) /\ p.a \in Arrays /\ p.b \in Arrays /\ p.output \in Arrays
  <1>1. /\ ~(Null \in {p.a, p.b, p.output})
        /\ ~(p.m <= 0 \/ p.n <= 0 \/ p.k <= 0)
    BY DEF Refused
  <1>2. p.m \in Ints /\ p.n \in Ints /\ p.k \in Ints
    BY DEF Request
  <1>3. Positive(p)
    BY <1>1, <1>2, WidthAssumption DEF Ints, Positive
  <1>4. p.a \in Arrays /\ p.b \in Arrays /\ p.output \in Arrays
    BY <1>1 DEF Request
  <1> QED  BY <1>3, <1>4

\* The kernel of a product, argument by argument.
LEMMA MatmulArgs ==
  ASSUME NEW p
  PROVE  LET K == MatmulOf(p) IN
         /\ K.op = "matmul" /\ K.given = 3 /\ Len(K.args) = 3
         /\ K.args[1] = F32(2, p.m, p.k, "in")
         /\ K.args[2] = F32(2, p.k, p.n, "in")
         /\ K.args[3] = F32(2, p.m, p.n, "out")
         /\ ArgOf(p, "a") = K.args[1]
         /\ ArgOf(p, "b") = K.args[2]
         /\ ArgOf(p, "c") = K.args[3]
BY DEF MatmulOf, InitMatmulF32, Kernel, ArgOf

LEMMA F32Fields ==
  ASSUME NEW rank, NEW rows, NEW cols, NEW use
  PROVE  LET arg == F32(rank, rows, cols, use) IN
         arg.f32 /\ arg.rank = rank /\ arg.shape = <<rows, cols>> /\ arg.use = use
BY DEF F32

LEMMA MatmulShapes ==
  ASSUME NEW p
  PROVE  LET K == MatmulOf(p) IN
         /\ \A i \in 1 .. 3 : K.args[i].rank = 2
         /\ K.args[1].shape = <<p.m, p.k>>
         /\ K.args[2].shape = <<p.k, p.n>>
         /\ K.args[3].shape = <<p.m, p.n>>
  <1> DEFINE K == MatmulOf(p)
  <1>0. /\ K.args[1] = F32(2, p.m, p.k, "in")
        /\ K.args[2] = F32(2, p.k, p.n, "in")
        /\ K.args[3] = F32(2, p.m, p.n, "out")
    BY MatmulArgs
  <1> HIDE DEF K
  <1>1. K.args[1].rank = 2 /\ K.args[1].shape = <<p.m, p.k>>
    BY <1>0, F32Fields
  <1>2. K.args[2].rank = 2 /\ K.args[2].shape = <<p.k, p.n>>
    BY <1>0, F32Fields
  <1>3. K.args[3].rank = 2 /\ K.args[3].shape = <<p.m, p.n>>
    BY <1>0, F32Fields
  <1>4. \A i \in 1 .. 3 : K.args[i].rank = 2
    <2>1. \A i \in 1 .. 3 : i = 1 \/ i = 2 \/ i = 3
      OBVIOUS
    <2> QED  BY <1>1, <1>2, <1>3, <2>1
  <1> QED  BY <1>1, <1>2, <1>3, <1>4 DEF K

LEMMA MatmulDimensions ==
  ASSUME NEW p
  PROVE  Dimensions(MatmulOf(p)) = <<p.m, p.k, p.n>>
  <1>1. Dimensions(MatmulOf(p)) = <<MatmulOf(p).args[1].shape[1], MatmulOf(p).args[1].shape[2],
                                    MatmulOf(p).args[2].shape[2]>>
    BY MatmulArgs DEF Dimensions
  <1>2. /\ MatmulOf(p).args[1].shape[1] = p.m
        /\ MatmulOf(p).args[1].shape[2] = p.k
        /\ MatmulOf(p).args[2].shape[2] = p.n
    BY MatmulShapes
  <1> QED  BY <1>1, <1>2

\* A device gets the sizes the host meant.
LEMMA MatmulDeviceDimensions ==
  ASSUME NEW p, Positive(p)
  PROVE  LET d == DeviceDimensions(MatmulOf(p)) IN d[1] = p.m /\ d[2] = p.k /\ d[3] = p.n
  <1>1. DeviceDimensions(MatmulOf(p)) = [i \in 1 .. 3 |-> AsInt(<<p.m, p.k, p.n>>[i])]
    <2>1. Len(<<p.m, p.k, p.n>>) = 3
      OBVIOUS
    <2> QED  BY <2>1, MatmulDimensions, Zenon DEF DeviceDimensions
  <1>2. AsInt(p.m) = p.m /\ AsInt(p.k) = p.k /\ AsInt(p.n) = p.n
    BY AsIntExact, WidthAssumption DEF Positive
  <1> QED  BY <1>1, <1>2

\* As many work groups as a Vulkan device takes cover as many rows as they have.
LEMMA GroupsCover ==
  ASSUME NEW n \in Nat, n <= MaxGroups * GroupWidth
  PROVE  Groups(n) <= MaxGroups
  <1> DEFINE q == Groups(n)
  <1>1. GroupWidth \in Nat /\ GroupWidth >= 1 /\ MaxGroups \in Nat
    BY LimitsAssumption
  <1>2. q \in Nat /\ q * GroupWidth <= n + GroupWidth - 1
    BY <1>1 DEF Groups
  <1> HIDE DEF q
  <1>3. SUFFICES ASSUME q >= MaxGroups + 1 PROVE FALSE
    BY <1>1, <1>2 DEF q
  <1>4. q * GroupWidth >= (MaxGroups + 1) * GroupWidth
    BY <1>1, <1>2, <1>3
  <1>5. (MaxGroups + 1) * GroupWidth = MaxGroups * GroupWidth + GroupWidth
    BY <1>1
  <1>6. MaxGroups * GroupWidth \in Nat /\ q * GroupWidth \in Nat
    BY <1>1, <1>2
  <1> QED  BY <1>1, <1>2, <1>4, <1>5, <1>6

\* What reaches a device is what the caller meant, its matrices whole: no size is cut
\* off on the way, and a device that is up to the sizes computes the product.
LEMMA CapableComputes ==
  ASSUME NEW p, Positive(p), Capable(session, p.m, p.k, p.n)
  PROVE  LET K == MatmulOf(p)
             d == IF session = "cpu" THEN Dimensions(K) ELSE DeviceDimensions(K) IN
         /\ d[1] = p.m /\ d[2] = p.k /\ d[3] = p.n
         /\ Computes(K, d)
  <1> DEFINE K == MatmulOf(p)
             d == IF session = "cpu" THEN Dimensions(K) ELSE DeviceDimensions(K)
  <1>1. d[1] = p.m /\ d[2] = p.k /\ d[3] = p.n
    BY MatmulDimensions, MatmulDeviceDimensions
  <1>2. Extent(K.op, d) = <<p.m * p.k, p.k * p.n, p.m * p.n>>
    BY <1>1, MatmulArgs DEF Extent
  <1>3. p.m * p.k \in Nat /\ p.k * p.n \in Nat /\ p.m * p.n \in Nat
    BY MatrixSize DEF Positive
  <1>4. /\ Len(K.args) = 3
        /\ \A i \in 1 .. 3 : K.args[i].rank = 2
        /\ K.args[1].shape = <<p.m, p.k>>
        /\ K.args[2].shape = <<p.k, p.n>>
        /\ K.args[3].shape = <<p.m, p.n>>
    BY MatmulArgs, MatmulShapes
  <1>5. /\ Bytes(2, <<p.m, p.k>>) = 4 * (p.m * p.k)
        /\ Bytes(2, <<p.k, p.n>>) = 4 * (p.k * p.n)
        /\ Bytes(2, <<p.m, p.n>>) = 4 * (p.m * p.n)
    BY MatrixBytes DEF Positive
  <1> HIDE DEF K, d
  <1>6. \A i \in 1 .. 3 : Bytes(K.args[i].rank, K.args[i].shape) = 4 * Extent(K.op, d)[i]
    <2>1. TAKE i \in 1 .. 3
    <2>2. CASE i = 1  BY <1>2, <1>4, <1>5, <2>2
    <2>3. CASE i = 2  BY <1>2, <1>4, <1>5, <2>3
    <2>4. CASE i = 3  BY <1>2, <1>4, <1>5, <2>4
    <2> QED  BY <2>2, <2>3, <2>4
  <1>7. \A i \in 1 .. 3 : Extent(K.op, d)[i] \in {p.m * p.k, p.k * p.n, p.m * p.n}
    BY <1>2
  <1>8. Len(Extent(K.op, d)) = 3
    BY <1>2
  <1>9. BuffersFit(K, d)
    BY <1>3, <1>4, <1>6, <1>7 DEF BuffersFit
  <1>10. session = "opencl" => IndexesFit(K.op, d, IntMax + 1)
    BY <1>7, <1>8 DEF IndexesFit, Capable
  <1>11. ASSUME session = "vulkan"
         PROVE  IndexesFit(K.op, d, 2 * (IntMax + 1)) /\ Dispatchable(K, d)
    <2>1. \A i \in 1 .. 3 : /\ Extent(K.op, d)[i] <= 2 * (IntMax + 1)
                            /\ 4 * Extent(K.op, d)[i] <= MaxRange
      BY <1>7, <1>11 DEF Capable
    <2>2. p.m <= MaxGroups * GroupWidth /\ p.n <= MaxGroups * GroupWidth
      BY <1>11 DEF Capable
    <2>3. Groups(d[1]) <= MaxGroups /\ Groups(d[3]) <= MaxGroups
      <3>1. p.m \in Nat /\ p.n \in Nat
        BY WidthAssumption DEF Positive
      <3> QED  BY <1>1, <2>2, <3>1, GroupsCover
    <2>4. \A i \in 1 .. Len(K.args) : Bytes(K.args[i].rank, K.args[i].shape) <= MaxRange
      BY <1>4, <1>6, <2>1
    <2> QED  BY <1>8, <2>1, <2>3, <2>4 DEF IndexesFit, Dispatchable
  <1> QED  BY <1>1, <1>9, <1>10, <1>11 DEF Computes, K, d

\* A launch leaves the product in the output, or anything where the device is not up
\* to it.
LEMMA LaunchComputes ==
  ASSUME NEW p, Positive(p), LaunchTensorKernel(p)
  PROVE  \E v \in Values :
           /\ Capable(session, p.m, p.k, p.n) =>
                v = Product(p.m, p.k, p.n, device["a"], device["b"])
           /\ device' = [device EXCEPT !["c"] = v]
  <1> DEFINE K == MatmulOf(p)
             d == IF session = "cpu" THEN Dimensions(K) ELSE DeviceDimensions(K)
  <1>1. PICK v \in Values :
          /\ Computes(K, d) => v = Product(d[1], d[2], d[3], device["a"], device["b"])
          /\ device' = [device EXCEPT !["c"] = v]
    BY DEF LaunchTensorKernel
  <1>2. Capable(session, p.m, p.k, p.n) =>
          d[1] = p.m /\ d[2] = p.k /\ d[3] = p.n /\ Computes(K, d)
    BY CapableComputes
  <1> HIDE DEF K, d
  <1> QED  BY <1>1, <1>2

-----------------------------------------------------------------------------
(***************************************************************************)
(* The inductive invariant: where a call is says what it evaluates, which  *)
(* tensors it has, and what they hold.                                     *)
(***************************************************************************)

HasA == {"alloc b", "alloc c", "upload a", "upload b", "launch", "sync", "download"}
HasB == {"alloc c", "upload a", "upload b", "launch", "sync", "download"}
HasC == {"upload a", "upload b", "launch", "sync", "download"}
InProduct == {"alloc a", "cleanup"} \cup HasA

\* What a call evaluates, and that it has checked the product it is in.
CallFits ==
  /\ pc = "idle" => graph = <<>> /\ position = 0
  /\ pc # "idle" => position >= 1
  /\ pc # "idle" /\ caller = "portal" => graph \in Graphs
  /\ pc # "idle" /\ caller = "client" => position = 1 /\ \E r \in Requests : graph = <<r>>
  /\ pc \in InProduct =>
       position <= Len(graph) /\ Current.kind = "matmul" /\ Refused(Current) = "success"
  /\ pc # "cleanup" => status = "success"

\* The tensors allocated so far.
TensorsFit ==
  /\ pc \in {"idle", "walk", "alloc a"} => device = NoTensors
  /\ pc \in HasA => device["a"] \in Values
  /\ pc \in HasB => device["b"] \in Values
  /\ pc \in HasC => device["c"] \in Values

\* What they hold.
Effect ==
  /\ pc \in {"upload b", "launch"} => device["a"] = host[Current.a]
  /\ pc = "launch" => device["b"] = host[Current.b]
  /\ pc \in {"sync", "download"} /\ Capable(session, Current.m, Current.k, Current.n) =>
       device["c"] = Product(Current.m, Current.k, Current.n, host[Current.a], host[Current.b])

HandleFits == UniqueHandle /\ PinnedWhileLeft

IInv == TypeOK /\ CallFits /\ TensorsFit /\ Effect /\ HandleFits

LEMMA GraphsAreSequences ==
  /\ \A g \in Graphs : Len(g) \in Nat /\ \A i \in 1 .. Len(g) : g[i] \in Operation
  /\ \A r \in Requests : r \in Request
BY CallsAssumption

LEMMA DispatchedTyped ==
  ASSUME NEW op \in Operation
  PROVE  Dispatched(op) \in Request
BY DEF Operation, Request, Dispatched

LEMMA CurrentTyped ==
  ASSUME TypeOK, CallFits, pc # "idle", position <= Len(graph)
  PROVE  Current \in Request
  <1>1. CASE caller = "portal"
    <2>1. position \in 1 .. Len(graph)
      <3>1. position \in 0 .. Len(graph) + 1 /\ position >= 1 /\ graph \in Graphs
        BY <1>1 DEF TypeOK, CallFits
      <3>2. Len(graph) \in Nat
        BY <3>1, GraphsAreSequences
      <3> QED  BY <3>1, <3>2
    <2>2. graph[position] \in Operation
      BY <1>1, <2>1, GraphsAreSequences DEF CallFits
    <2> QED  BY <1>1, <2>2, DispatchedTyped DEF Current
  <1>2. CASE caller = "client"
    <2>1. PICK r \in Requests : graph = <<r>> /\ position = 1
      BY <1>2 DEF CallFits
    <2>2. graph[position] = r
      BY <2>1
    <2> QED  BY <1>2, <2>2, GraphsAreSequences DEF Current
  <1> QED  BY <1>1, <1>2 DEF TypeOK

\* In a product, the current one has arrays and positive sizes.
LEMMA InProductFits ==
  ASSUME TypeOK, CallFits, pc \in InProduct
  PROVE  /\ Positive(Current)
         /\ Current.a \in Arrays /\ Current.b \in Arrays /\ Current.output \in Arrays
  <1>1. pc # "idle" /\ position <= Len(graph) /\ Refused(Current) = "success"
    BY DEF CallFits, InProduct, HasA
  <1>2. Current \in Request
    BY <1>1, CurrentTyped
  <1> QED  BY <1>1, <1>2, NotRefused

\* A launch, on the tensors it has.
LEMMA LaunchEffect ==
  ASSUME IInv, Launch
  PROVE  /\ \E v \in Values :
              /\ Capable(session, Current.m, Current.k, Current.n) =>
                   v = Product(Current.m, Current.k, Current.n, host[Current.a], host[Current.b])
              /\ device' = [device EXCEPT !["c"] = v]
         /\ UNCHANGED <<host, status>>
  <1>1. pc = "launch" /\ LaunchTensorKernel(Current) /\ UNCHANGED <<host, status>>
    BY DEF Launch, Proceed, LaunchTensorKernel
  <1>2. Positive(Current)
    BY <1>1, InProductFits DEF IInv, InProduct, HasA
  <1>3. device["a"] = host[Current.a] /\ device["b"] = host[Current.b]
    BY <1>1 DEF IInv, Effect
  <1>4. PICK v \in Values :
          /\ Capable(session, Current.m, Current.k, Current.n) =>
               v = Product(Current.m, Current.k, Current.n, device["a"], device["b"])
          /\ device' = [device EXCEPT !["c"] = v]
    BY <1>1, <1>2, LaunchComputes
  <1> QED  BY <1>1, <1>3, <1>4

-----------------------------------------------------------------------------
(***************************************************************************)
(* Type correctness, step by step                                          *)
(***************************************************************************)

LEMMA InitHolds == Init => IInv
  <1> SUFFICES ASSUME Init PROVE IInv
    OBVIOUS
  <1> USE DEF Init, BlasInit
  <1>1. TypeOK
    <2>1. device \in [Operands -> Values \cup {NoTensor}]
      BY DEF NoTensors
    <2>2. position \in 0 .. Len(graph) + 1
      <3>1. Len(<<>>) = 0
        OBVIOUS
      <3> QED  BY <3>1
    <2> QED  BY <2>1, <2>2 DEF TypeOK, Sessions, BlasStatuses, PortalStatuses
  <1>2. CallFits
    BY DEF CallFits, InProduct, HasA
  <1>3. TensorsFit /\ Effect
    BY DEF TensorsFit, Effect, HasA, HasB, HasC
  <1>4. HandleFits
    BY DEF HandleFits, UniqueHandle, PinnedWhileLeft
  <1> QED  BY <1>1, <1>2, <1>3, <1>4 DEF IInv

\* What a client's own steps leave alone.
LEMMA ClientSteps ==
  ASSUME IInv,
         \/ \E x \in Arrays, v \in Values : HostWrite(x, v)
         \/ UseHandle \/ UseSession
         \/ \E k \in ClientKernels : LaunchKernel(k)
  PROVE  pc = "idle" /\ ClientUnchanged
BY DEF HostWrite, UseHandle, UseSession, LaunchKernel

\* What becomes of the handle.
LEMMA HandleTyped ==
  ASSUME TypeOK, NEW h \in {"client", "portal"},
         BlasCreateSucceeds(h) \/ BlasCreateFails(h) \/ BlasDestroy(h)
  PROVE  /\ session' \in Sessions /\ handle_live' \in BOOLEAN
         /\ holders' \subseteq {"client", "portal"} /\ touched' \in BOOLEAN
BY DEF TypeOK, BlasCreateSucceeds, BlasCreateFails, BlasDestroy, Sessions

\* The call variables after a return, or at the beginning of a call.
LEMMA ReturnTyped ==
  ASSUME TypeOK, NEW r \in BlasStatuses \cup PortalStatuses, Return(r)
  PROVE  /\ pc' = "idle" /\ caller' \in {"client", "portal"} /\ graph' = <<>>
         /\ position' \in 0 .. Len(graph') + 1
         /\ result' \in BlasStatuses \cup PortalStatuses
  <1>1. position' \in 0 .. Len(graph') + 1
    <2>1. Len(<<>>) = 0
      OBVIOUS
    <2>2. position' = 0 /\ graph' = <<>>
      BY DEF Return
    <2> QED  BY <2>1, <2>2
  <1>2. pc' = "idle" /\ caller' = caller /\ graph' = <<>> /\ result' = r
    BY DEF Return
  <1> QED  BY <1>1, <1>2 DEF TypeOK

LEMMA BeginTyped ==
  ASSUME TypeOK, NEW who \in {"client", "portal"},
         NEW g \in Graphs \cup {<<r>> : r \in Requests}, Begin(who, g)
  PROVE  /\ pc' = "walk" /\ caller' \in {"client", "portal"} /\ graph' = g
         /\ position' \in 0 .. Len(graph') + 1
         /\ result' \in BlasStatuses \cup PortalStatuses
  <1>1. Len(g) \in Nat
    <2>1. CASE g \in Graphs  BY <2>1, GraphsAreSequences
    <2>2. CASE g \in {<<r>> : r \in Requests}  BY <2>2
    <2> QED  BY <2>1, <2>2
  <1>2. pc' = "walk" /\ caller' = who /\ graph' = g /\ position' = 1 /\ result' = result
    BY DEF Begin
  <1>3. position' \in 0 .. Len(graph') + 1
    BY <1>1, <1>2
  <1> QED  BY <1>2, <1>3 DEF TypeOK

LEMMA GraphLength == ASSUME TypeOK PROVE Len(graph) \in Nat
  <1>1. CASE graph \in Graphs  BY <1>1, GraphsAreSequences
  <1>2. CASE graph \in {<<r>> : r \in Requests}  BY <1>2
  <1>3. CASE graph = <<>>  BY <1>3
  <1> QED  BY <1>1, <1>2, <1>3 DEF TypeOK

\* Sgemm() returns: a client's call returns, the Portal's loop goes on.
LEMMA SgemmReturnsTyped ==
  ASSUME TypeOK, NEW st \in BlasStatuses, position <= Len(graph), SgemmReturns(st)
  PROVE  /\ pc' \in {"idle", "walk"} /\ caller' \in {"client", "portal"}
         /\ graph' \in Graphs \cup {<<r>> : r \in Requests} \cup {<<>>}
         /\ position' \in 0 .. Len(graph') + 1
         /\ result' \in BlasStatuses \cup PortalStatuses
  <1>1. CASE Return(st)
    BY <1>1, ReturnTyped
  <1>2. CASE Return("blas error")
    BY <1>2, ReturnTyped DEF PortalStatuses
  <1>3. CASE pc' = "walk" /\ position' = position + 1 /\ UNCHANGED <<callVars, result>>
    <2>1. graph' = graph /\ caller' = caller /\ result' = result
      BY <1>3 DEF callVars
    <2>2. position \in 0 .. Len(graph) + 1
      BY DEF TypeOK
    <2>3. position + 1 \in 0 .. Len(graph) + 1
      BY <2>2, GraphLength
    <2> QED  BY <1>3, <2>1, <2>3 DEF TypeOK
  <1> QED  BY <1>1, <1>2, <1>3 DEF SgemmReturns

LEMMA RefusedTyped == ASSUME NEW p PROVE Refused(p) \in BlasStatuses
BY DEF Refused, BlasStatuses

LEMMA TypeStep == IInv /\ [Next]_vars => TypeOK'
  <1> SUFFICES ASSUME IInv, [Next]_vars PROVE TypeOK'
    OBVIOUS
  <1>0. TypeOK /\ CallFits /\ TensorsFit
    BY DEF IInv
  <1>1. ASSUME NEW x \in Arrays, NEW v \in Values, HostWrite(x, v)
        PROVE  TypeOK'
    BY <1>0, <1>1 DEF TypeOK, HostWrite, handleVars, ClientUnchanged
  <1>2. CASE UseHandle
    <2>1. /\ session' \in Sessions /\ handle_live' \in BOOLEAN
          /\ holders' \subseteq {"client", "portal"} /\ touched' \in BOOLEAN
      BY <1>0, <1>2, HandleTyped DEF UseHandle
    <2> QED  BY <1>0, <1>2, <2>1 DEF TypeOK, UseHandle, ClientUnchanged
  <1>3. CASE UseSession
    BY <1>0, <1>3 DEF TypeOK, UseSession, ClientUnchanged
  <1>4. ASSUME NEW k \in ClientKernels, LaunchKernel(k)
        PROVE  TypeOK'
    BY <1>0, <1>4 DEF TypeOK, LaunchKernel, handleVars, ClientUnchanged
  <1>5. ASSUME NEW g \in Graphs, PortalSubmit(g)
        PROVE  TypeOK'
    <2>1. /\ session' \in Sessions /\ handle_live' \in BOOLEAN
          /\ holders' \subseteq {"client", "portal"} /\ touched' \in BOOLEAN
      <3>1. UNCHANGED handleVars \/ BlasCreateFails("portal") \/ BlasCreateSucceeds("portal")
        BY <1>5 DEF PortalSubmit
      <3>2. CASE UNCHANGED handleVars  BY <1>0, <3>2 DEF TypeOK, handleVars
      <3> QED  BY <1>0, <3>1, <3>2, HandleTyped
    <2>2. Return("empty graph") \/ Return("blas error") \/ Begin("portal", g)
      BY <1>5 DEF PortalSubmit
    <2>3. /\ pc' \in {"idle", "walk"} /\ caller' \in {"client", "portal"}
          /\ graph' \in Graphs \cup {<<r>> : r \in Requests} \cup {<<>>}
          /\ position' \in 0 .. Len(graph') + 1
          /\ result' \in BlasStatuses \cup PortalStatuses
      <3>1. CASE Return("empty graph")  BY <1>0, <3>1, ReturnTyped DEF PortalStatuses
      <3>2. CASE Return("blas error")  BY <1>0, <3>2, ReturnTyped DEF PortalStatuses
      <3>3. CASE Begin("portal", g)  BY <1>0, <3>3, BeginTyped
      <3> QED  BY <2>2, <3>1, <3>2, <3>3
    <2>4. UNCHANGED <<host, device, status>>
      BY <1>5 DEF PortalSubmit
    <2> QED  BY <1>0, <2>1, <2>3, <2>4 DEF TypeOK
  <1>6. ASSUME NEW r \in Requests, Sgemm(r)
        PROVE  TypeOK'
    <2>1. /\ pc' = "walk" /\ caller' \in {"client", "portal"} /\ graph' = <<r>>
          /\ position' \in 0 .. Len(graph') + 1
          /\ result' \in BlasStatuses \cup PortalStatuses
      BY <1>0, <1>6, BeginTyped DEF Sgemm
    <2>2. UNCHANGED <<session, handle_live, holders, touched, host, device, status>>
      BY <1>6 DEF Sgemm, handleVars
    <2> QED  BY <1>0, <2>1, <2>2 DEF TypeOK
  <1>7. ASSUME UNCHANGED <<session, handle_live, holders, touched, host, device, status>>,
               NEW r \in BlasStatuses \cup PortalStatuses, Return(r)
        PROVE  TypeOK'
    BY <1>0, <1>7, ReturnTyped DEF TypeOK
  <1>8. CASE GraphDone
    BY <1>7, <1>8 DEF GraphDone, handleVars, PortalStatuses
  <1>9. CASE UnknownOperation
    BY <1>7, <1>9 DEF UnknownOperation, handleVars, PortalStatuses
  <1>10. CASE SgemmStarts
    <2>1. UNCHANGED <<session, handle_live, holders, touched, host, device, status>>
      BY <1>10 DEF SgemmStarts, handleVars
    <2>2. CASE pc' = "alloc a" /\ UNCHANGED <<callVars, position, result>>
      BY <1>0, <2>1, <2>2 DEF TypeOK, callVars
    <2>3. CASE \E st \in BlasStatuses : SgemmReturns(st)
      BY <1>0, <1>10, <2>1, <2>3, SgemmReturnsTyped DEF TypeOK, SgemmStarts
    <2>4. (IF caller \in holders THEN Refused(Current) ELSE "not initialized") \in BlasStatuses
      BY RefusedTyped DEF BlasStatuses
    <2> QED  BY <1>10, <2>2, <2>3, <2>4 DEF SgemmStarts
  <1>11. ASSUME NEW here, NEW next \in {"alloc b", "alloc c", "upload a", "upload b", "launch",
                                      "sync", "download", "cleanup"},
                Proceed(here, next),
                host' \in [Arrays -> Values],
                device' \in [Operands -> Values \cup {NoTensor}],
                status' = status
         PROVE  TypeOK'
    BY <1>0, <1>11 DEF TypeOK, Proceed, callVars, handleVars
  <1>12. CASE Alloc
    <2>1. host' \in [Arrays -> Values] /\ status' = status
      BY <1>0, <1>12 DEF TypeOK, Alloc, TensorAlloc
    <2>2. device' \in [Operands -> Values \cup {NoTensor}]
      BY <1>0, <1>12 DEF TypeOK, Alloc, TensorAlloc
    <2> QED  BY <1>11, <1>12, <2>1, <2>2 DEF Alloc
  <1>13. CASE Upload
    <2>1. host' \in [Arrays -> Values] /\ status' = status
      BY <1>0, <1>13 DEF TypeOK, Upload, CopyToDevice
    <2>2. Current.a \in Arrays /\ Current.b \in Arrays
      BY <1>0, <1>13, InProductFits DEF Upload, Proceed, InProduct, HasA
    <2>3. device' \in [Operands -> Values \cup {NoTensor}]
      BY <1>0, <1>13, <2>2 DEF TypeOK, Upload, CopyToDevice
    <2> QED  BY <1>11, <1>13, <2>1, <2>3 DEF Upload
  <1>14. CASE Launch
    <2>1. host' \in [Arrays -> Values] /\ device' \in [Operands -> Values \cup {NoTensor}]
      BY <1>0, <1>14, LaunchEffect DEF TypeOK
    <2>2. status' = status
      BY <1>14 DEF Launch, LaunchTensorKernel
    <2> QED  BY <1>11, <1>14, <2>1, <2>2 DEF Launch
  <1>15. CASE Synchronize
    BY <1>0, <1>11, <1>15 DEF TypeOK, Synchronize
  <1>16. CASE Download
    <2>1. device["c"] \in Values /\ Current.output \in Arrays
      BY <1>0, <1>16, InProductFits DEF TensorsFit, Download, Proceed, InProduct, HasA, HasC
    <2>2. host' \in [Arrays -> Values]
      BY <1>0, <1>16, <2>1 DEF TypeOK, Download, CopyToHost
    <2>3. status' = status /\ device' = device
      BY <1>16 DEF Download, CopyToHost
    <2> QED  BY <1>0, <1>11, <1>16, <2>2, <2>3 DEF TypeOK, Download
  <1>17. CASE StepFails
    BY <1>0, <1>17 DEF TypeOK, StepFails, Failing, Fails, callVars, handleVars
  <1>18. CASE DownloadFails
    <2>1. host' \in [Arrays -> Values]
      BY <1>0, <1>18 DEF TypeOK, DownloadFails, CopyToHostFails
    <2> QED  BY <1>0, <1>18, <2>1 DEF TypeOK, DownloadFails, Failing, CopyToHostFails, callVars,
                handleVars
  <1>19. CASE Cleanup
    <2>1. UNCHANGED <<session, handle_live, holders, touched, host>> /\ status' = "success"
      BY <1>19 DEF Cleanup, handleVars
    <2>2. device' \in [Operands -> Values \cup {NoTensor}]
      BY <1>19 DEF Cleanup, NoTensors, Operands
    <2>3. SgemmReturns(status) /\ status \in BlasStatuses /\ position <= Len(graph)
      BY <1>0, <1>19 DEF Cleanup, TypeOK, BlasStatuses, CallFits, InProduct
    <2>4. /\ pc' \in {"idle", "walk"} /\ caller' \in {"client", "portal"}
          /\ graph' \in Graphs \cup {<<r>> : r \in Requests} \cup {<<>>}
          /\ position' \in 0 .. Len(graph') + 1
          /\ result' \in BlasStatuses \cup PortalStatuses
      BY <1>0, <2>3, SgemmReturnsTyped
    <2> QED  BY <1>0, <2>1, <2>2, <2>4 DEF TypeOK
  <1>20. CASE UNCHANGED vars
    BY <1>0, <1>20 DEF TypeOK, vars
  <1> QED
    BY <1>1, <1>2, <1>3, <1>4, <1>5, <1>6, <1>8, <1>9, <1>10, <1>12, <1>13, <1>14, <1>15, <1>16,
       <1>17, <1>18, <1>19, <1>20 DEF Next, ClientNext, LibraryNext

-----------------------------------------------------------------------------
(***************************************************************************)
(* Where the call is, step by step                                         *)
(***************************************************************************)

LEMMA SameCurrent ==
  ASSUME UNCHANGED <<callVars, position>>
  PROVE  Current' = Current
BY DEF callVars, Current, Dispatched

\* A call that has returned.
LEMMA CallReturned ==
  ASSUME NEW r, Return(r), status' = "success"
  PROVE  CallFits'
BY DEF Return, CallFits, InProduct, HasA

\* A call that is at its next operation, or past its last one.
LEMMA CallWalks ==
  ASSUME pc' = "walk", status' = "success", position' \in Nat, position' >= 1,
         caller' = "portal" => graph' \in Graphs,
         caller' = "client" => position' = 1 /\ \E r \in Requests : graph' = <<r>>
  PROVE  CallFits'
BY DEF CallFits, InProduct, HasA

\* A call that stays in its product.
LEMMA CallStays ==
  ASSUME CallFits, UNCHANGED <<callVars, position>>, pc # "idle", pc' # "idle",
         pc' \in InProduct =>
           position <= Len(graph) /\ Current.kind = "matmul" /\ Refused(Current) = "success",
         pc' # "cleanup" => status' = "success"
  PROVE  CallFits'
  <1>1. Current' = Current
    BY SameCurrent
  <1>2. caller' = caller /\ graph' = graph /\ position' = position
    BY DEF callVars
  <1> QED  BY <1>1, <1>2 DEF CallFits

LEMMA CallStep == IInv /\ [Next]_vars => CallFits'
  <1> SUFFICES ASSUME IInv, [Next]_vars PROVE CallFits'
    OBVIOUS
  <1>0. TypeOK /\ CallFits
    BY DEF IInv
  <1>1. ASSUME pc = "idle", UNCHANGED <<status, pc, caller, graph, position>>
        PROVE  CallFits'
    BY <1>0, <1>1 DEF CallFits, InProduct, HasA
  <1>2. ASSUME NEW x \in Arrays, NEW v \in Values, HostWrite(x, v) PROVE CallFits'
    BY <1>1, <1>2 DEF HostWrite, ClientUnchanged
  <1>3. CASE UseHandle
    BY <1>1, <1>3 DEF UseHandle, ClientUnchanged
  <1>4. CASE UseSession
    BY <1>1, <1>4 DEF UseSession, ClientUnchanged
  <1>5. ASSUME NEW k \in ClientKernels, LaunchKernel(k) PROVE CallFits'
    BY <1>1, <1>5 DEF LaunchKernel, ClientUnchanged
  <1>6. ASSUME NEW g \in Graphs, PortalSubmit(g) PROVE CallFits'
    <2>1. status' = "success"
      BY <1>0, <1>6 DEF PortalSubmit, CallFits
    <2>2. (\E r : Return(r)) \/ Begin("portal", g)
      BY <1>6 DEF PortalSubmit
    <2>3. CASE \E r : Return(r)
      BY <2>1, <2>3, CallReturned
    <2>4. CASE Begin("portal", g)
      <3>1. pc' = "walk" /\ position' = 1 /\ caller' = "portal" /\ graph' = g
        BY <2>4 DEF Begin
      <3> QED  BY <2>1, <3>1, CallWalks
    <2> QED  BY <2>2, <2>3, <2>4
  <1>7. ASSUME NEW r \in Requests, Sgemm(r) PROVE CallFits'
    <2>1. status' = "success"
      BY <1>0, <1>7 DEF Sgemm, CallFits
    <2>2. pc' = "walk" /\ position' = 1 /\ caller' = "client" /\ graph' = <<r>>
      BY <1>7 DEF Sgemm, Begin
    <2> QED  BY <2>1, <2>2, CallWalks
  <1>8. CASE GraphDone
    BY <1>0, <1>8, CallReturned DEF GraphDone, CallFits
  <1>9. CASE UnknownOperation
    BY <1>0, <1>9, CallReturned DEF UnknownOperation, CallFits
  <1>10. CASE SgemmStarts
    <2>1. /\ status' = "success" /\ pc = "walk"
          /\ position <= Len(graph) /\ Current.kind = "matmul"
      BY <1>0, <1>10 DEF SgemmStarts, CallFits
    <2>2. \/ /\ Refused(Current) = "success" /\ pc' = "alloc a"
             /\ UNCHANGED <<callVars, position>>
          \/ \E r : Return(r)
      <3> DEFINE st == IF caller \in holders THEN Refused(Current) ELSE "not initialized"
      <3>1. CASE st = "success"
        BY <1>10, <3>1 DEF SgemmStarts
      <3>2. CASE st # "success"
        BY <1>10, <3>2 DEF SgemmStarts, SgemmReturns
      <3> QED  BY <3>1, <3>2
    <2>3. CASE \E r : Return(r)
      BY <2>1, <2>3, CallReturned
    <2>4. CASE /\ Refused(Current) = "success" /\ pc' = "alloc a"
               /\ UNCHANGED <<callVars, position>>
      BY <1>0, <2>1, <2>4, CallStays
    <2> QED  BY <2>2, <2>3, <2>4
  <1>11. ASSUME pc \in InProduct, pc' # "idle", UNCHANGED <<callVars, position>>,
                pc' # "cleanup" => status' = "success"
         PROVE  CallFits'
    <2>1. position <= Len(graph) /\ Current.kind = "matmul" /\ Refused(Current) = "success"
      BY <1>0, <1>11 DEF CallFits
    <2>2. pc # "idle"
      BY <1>11 DEF InProduct, HasA
    <2> QED  BY <1>0, <1>11, <2>1, <2>2, CallStays
  <1>12. ASSUME NEW here \in InProduct, NEW next \in InProduct, Proceed(here, next),
                here # "cleanup", UNCHANGED status
         PROVE  CallFits'
    <2>1. status' = "success"
      BY <1>0, <1>12 DEF CallFits, Proceed
    <2>2. pc' # "idle"
      BY <1>12 DEF Proceed, InProduct, HasA
    <2> QED  BY <1>11, <1>12, <2>1, <2>2 DEF Proceed
  <1>13. CASE Alloc
    BY <1>12, <1>13 DEF Alloc, TensorAlloc, InProduct, HasA
  <1>14. CASE Upload
    BY <1>12, <1>14 DEF Upload, CopyToDevice, InProduct, HasA
  <1>15. CASE Launch
    BY <1>12, <1>15 DEF Launch, LaunchTensorKernel, InProduct, HasA
  <1>16. CASE Synchronize
    BY <1>12, <1>16 DEF Synchronize, InProduct, HasA
  <1>17. CASE Download
    BY <1>12, <1>17 DEF Download, CopyToHost, InProduct, HasA
  <1>18. CASE StepFails
    BY <1>11, <1>18 DEF StepFails, Failing, InProduct, HasA
  <1>19. CASE DownloadFails
    BY <1>11, <1>19 DEF DownloadFails, Failing, InProduct, HasA
  <1>20. CASE Cleanup
    <2>1. status' = "success" /\ pc = "cleanup" /\ SgemmReturns(status)
      BY <1>20 DEF Cleanup
    <2>2. \/ \E r : Return(r)
          \/ caller = "portal" /\ pc' = "walk" /\ position' = position + 1 /\ UNCHANGED callVars
      <3>1. caller \in {"client", "portal"}
        BY <1>0 DEF TypeOK
      <3>2. CASE Return(status) \/ Return("blas error")
        BY <3>2
      <3>3. CASE caller = "portal" /\ pc' = "walk" /\ position' = position + 1 /\ UNCHANGED callVars
        BY <3>3
      <3>4. \/ Return(status) \/ Return("blas error")
            \/ caller # "client" /\ pc' = "walk" /\ position' = position + 1 /\ UNCHANGED callVars
        BY <2>1 DEF SgemmReturns
      <3> QED  BY <3>1, <3>2, <3>3, <3>4
    <2>3. CASE \E r : Return(r)
      BY <2>1, <2>3, CallReturned
    <2>4. CASE /\ caller = "portal" /\ pc' = "walk"
               /\ position' = position + 1 /\ UNCHANGED callVars
      <3>1. graph \in Graphs /\ position >= 1
        BY <1>0, <2>1, <2>4 DEF CallFits
      <3>2. position \in Nat
        <4>1. position \in 0 .. Len(graph) + 1
          BY <1>0 DEF TypeOK
        <4> QED  BY <1>0, <4>1, GraphLength
      <3>3. graph' \in Graphs /\ caller' = "portal" /\ position' \in Nat /\ position' >= 1
        BY <2>4, <3>1, <3>2 DEF callVars
      <3> QED  BY <2>1, <2>4, <3>3, CallWalks
    <2> QED  BY <2>2, <2>3, <2>4
  <1>21. CASE UNCHANGED vars
    <2>1. /\ UNCHANGED <<callVars, position>> /\ pc' = pc /\ status' = status
          /\ caller' = caller /\ graph' = graph /\ position' = position
      BY <1>21 DEF vars, callVars
    <2>2. Current' = Current
      BY <2>1, SameCurrent
    <2> QED  BY <1>0, <2>1, <2>2 DEF CallFits
  <1> QED
    BY <1>2, <1>3, <1>4, <1>5, <1>6, <1>7, <1>8, <1>9, <1>10, <1>13, <1>14, <1>15, <1>16, <1>17,
       <1>18, <1>19, <1>20, <1>21 DEF Next, ClientNext, LibraryNext

-----------------------------------------------------------------------------
(***************************************************************************)
(* What it has on the device and what that is, step by step                *)
(***************************************************************************)

\* Between two products there is nothing on the device.
LEMMA NoTensorsFit ==
  ASSUME pc' \in {"idle", "walk", "alloc a"}, device' = NoTensors
  PROVE  TensorsFit' /\ Effect'
BY DEF TensorsFit, Effect, HasA, HasB, HasC

\* After a failure, there may be anything.
LEMMA CleanupFits == ASSUME pc' = "cleanup" PROVE TensorsFit' /\ Effect'
BY DEF TensorsFit, Effect, HasA, HasB, HasC

LEMMA TensorsStep == IInv /\ [Next]_vars => TensorsFit' /\ Effect'
  <1> SUFFICES ASSUME IInv, [Next]_vars PROVE TensorsFit' /\ Effect'
    OBVIOUS
  <1>0. TypeOK /\ CallFits /\ TensorsFit /\ Effect
    BY DEF IInv
  <1>1. ASSUME pc \in {"idle", "walk"}, UNCHANGED device, pc' \in {"idle", "walk", "alloc a"}
        PROVE  TensorsFit' /\ Effect'
    BY <1>0, <1>1, NoTensorsFit DEF TensorsFit
  <1>2. ASSUME NEW x \in Arrays, NEW v \in Values, HostWrite(x, v) PROVE TensorsFit' /\ Effect'
    BY <1>1, <1>2 DEF HostWrite, ClientUnchanged
  <1>3. CASE UseHandle
    BY <1>1, <1>3 DEF UseHandle, ClientUnchanged
  <1>4. CASE UseSession
    BY <1>1, <1>4 DEF UseSession, ClientUnchanged
  <1>5. ASSUME NEW k \in ClientKernels, LaunchKernel(k) PROVE TensorsFit' /\ Effect'
    BY <1>1, <1>5 DEF LaunchKernel, ClientUnchanged
  <1>6. ASSUME NEW g \in Graphs, PortalSubmit(g) PROVE TensorsFit' /\ Effect'
    BY <1>1, <1>6 DEF PortalSubmit, Return, Begin
  <1>7. ASSUME NEW r \in Requests, Sgemm(r) PROVE TensorsFit' /\ Effect'
    BY <1>1, <1>7 DEF Sgemm, Begin
  <1>8. CASE GraphDone
    BY <1>1, <1>8 DEF GraphDone, Return
  <1>9. CASE UnknownOperation
    BY <1>1, <1>9 DEF UnknownOperation, Return
  <1>10. CASE SgemmStarts
    <2>1. pc = "walk" /\ device' = device
      BY <1>10 DEF SgemmStarts
    <2>2. pc' \in {"idle", "walk", "alloc a"}
      BY <1>10 DEF SgemmStarts, SgemmReturns, Return
    <2> QED  BY <1>1, <2>1, <2>2
  <1>11. CASE Alloc
    <2>1. device \in [Operands -> Values \cup {NoTensor}]
      BY <1>0 DEF TypeOK
    <2>2. ASSUME NEW x \in Operands, TensorAlloc(x)
          PROVE  \E v \in Values : device' = [device EXCEPT ![x] = v]
      BY <2>2 DEF TensorAlloc
    <2>3. CASE Proceed("alloc a", "alloc b") /\ TensorAlloc("a")
      <3>1. device'["a"] \in Values
        BY <2>1, <2>2, <2>3 DEF Operands
      <3> QED  BY <2>3, <3>1 DEF TensorsFit, Effect, Proceed, HasA, HasB, HasC
    <2>4. CASE Proceed("alloc b", "alloc c") /\ TensorAlloc("b")
      <3>1. device["a"] \in Values
        BY <1>0, <2>4 DEF TensorsFit, Proceed, HasA
      <3>2. device'["a"] \in Values /\ device'["b"] \in Values
        BY <2>1, <2>2, <2>4, <3>1 DEF Operands
      <3> QED  BY <2>4, <3>2 DEF TensorsFit, Effect, Proceed, HasA, HasB, HasC
    <2>5. CASE Proceed("alloc c", "upload a") /\ TensorAlloc("c")
      <3>1. device["a"] \in Values /\ device["b"] \in Values
        BY <1>0, <2>5 DEF TensorsFit, Proceed, HasA, HasB
      <3>2. device'["a"] \in Values /\ device'["b"] \in Values /\ device'["c"] \in Values
        BY <2>1, <2>2, <2>5, <3>1 DEF Operands
      <3> QED  BY <2>5, <3>2 DEF TensorsFit, Effect, Proceed, HasA, HasB, HasC
    <2> QED  BY <1>11, <2>3, <2>4, <2>5 DEF Alloc
  <1>12. ASSUME NEW here \in HasC, NEW next \in HasC \cup {"cleanup"}, Proceed(here, next),
                \A x \in Operands : device'[x] \in Values
         PROVE  TensorsFit'
    <2>1. device'["a"] \in Values /\ device'["b"] \in Values /\ device'["c"] \in Values
      BY <1>12 DEF Operands
    <2> QED  BY <1>12, <2>1 DEF TensorsFit, Proceed, HasA, HasB, HasC
  <1>13. pc \in HasC => \A x \in Operands : device[x] \in Values
    BY <1>0 DEF TensorsFit, HasA, HasB, HasC, Operands
  <1>14. CASE Upload
    <2>1. /\ pc \in HasC /\ host' = host /\ device \in [Operands -> Values \cup {NoTensor}]
          /\ host \in [Arrays -> Values]
      BY <1>0, <1>14 DEF Upload, Proceed, CopyToDevice, HasC, TypeOK
    <2>2. Current.a \in Arrays /\ Current.b \in Arrays
      BY <1>0, <2>1, InProductFits DEF InProduct, HasA, HasC
    <2>3. Current' = Current
      BY <1>14, SameCurrent DEF Upload, Proceed
    <2>4. CASE Proceed("upload a", "upload b") /\ CopyToDevice("a", Current.a)
      <3>1. device' = [device EXCEPT !["a"] = host[Current.a]] /\ host[Current.a] \in Values
        BY <2>1, <2>2, <2>4 DEF CopyToDevice
      <3>2. \A x \in Operands : device'[x] \in Values
        BY <1>13, <2>1, <3>1
      <3>3. TensorsFit'
        BY <1>12, <2>4, <3>2 DEF HasC
      <3>4. device'["a"] = host'[Current'.a]
        BY <2>1, <2>3, <3>1 DEF Operands
      <3> QED  BY <2>4, <3>3, <3>4 DEF Effect, Proceed
    <2>5. CASE Proceed("upload b", "launch") /\ CopyToDevice("b", Current.b)
      <3>1. device' = [device EXCEPT !["b"] = host[Current.b]] /\ host[Current.b] \in Values
        BY <2>1, <2>2, <2>5 DEF CopyToDevice
      <3>2. \A x \in Operands : device'[x] \in Values
        BY <1>13, <2>1, <3>1
      <3>3. TensorsFit'
        BY <1>12, <2>5, <3>2 DEF HasC
      <3>4. device["a"] = host[Current.a]
        BY <1>0, <2>5 DEF Effect, Proceed
      <3>5. device'["a"] = host'[Current'.a] /\ device'["b"] = host'[Current'.b]
        BY <2>1, <2>3, <3>1, <3>4 DEF Operands
      <3> QED  BY <2>5, <3>3, <3>5 DEF Effect, Proceed
    <2> QED  BY <1>14, <2>4, <2>5 DEF Upload
  <1>15. CASE Launch
    <2>1. /\ host' = host /\ Proceed("launch", "sync")
          /\ device \in [Operands -> Values \cup {NoTensor}]
      BY <1>0, <1>15, LaunchEffect DEF Launch, TypeOK
    <2>2. Current' = Current /\ session' = session
      BY <2>1, SameCurrent DEF Proceed, handleVars
    <2>3. PICK v \in Values :
            /\ Capable(session, Current.m, Current.k, Current.n) =>
                 v = Product(Current.m, Current.k, Current.n, host[Current.a], host[Current.b])
            /\ device' = [device EXCEPT !["c"] = v]
      BY <1>15, LaunchEffect
    <2>4. pc \in HasC
      BY <2>1 DEF Proceed, HasC
    <2>5. \A x \in Operands : device'[x] \in Values
      BY <1>13, <2>1, <2>3, <2>4
    <2>6. TensorsFit'
      BY <1>12, <2>1, <2>5 DEF HasC
    <2>7. device'["c"] = v
      BY <2>1, <2>3 DEF Operands
    <2>8. Capable(session', Current'.m, Current'.k, Current'.n) =>
            device'["c"] = Product(Current'.m, Current'.k, Current'.n, host'[Current'.a],
                                   host'[Current'.b])
      BY <2>1, <2>2, <2>3, <2>7
    <2> QED  BY <2>1, <2>6, <2>8 DEF Effect, Proceed
  <1>16. CASE Synchronize
    <2>1. Proceed("sync", "download") /\ device' = device /\ host' = host /\ pc = "sync"
      BY <1>16 DEF Synchronize, Proceed
    <2>2. Current' = Current /\ session' = session
      BY <2>1, SameCurrent DEF Proceed, handleVars
    <2>3. TensorsFit'
      BY <1>12, <1>13, <2>1 DEF HasC
    <2> QED  BY <1>0, <2>1, <2>2, <2>3 DEF Effect, Proceed
  <1>17. CASE Download
    BY <1>17, CleanupFits DEF Download, Proceed
  <1>18. CASE StepFails
    BY <1>18, CleanupFits DEF StepFails, Failing
  <1>19. CASE DownloadFails
    BY <1>19, CleanupFits DEF DownloadFails, Failing
  <1>20. CASE Cleanup
    <2>1. pc' \in {"idle", "walk"} /\ device' = NoTensors
      BY <1>20 DEF Cleanup, SgemmReturns, Return
    <2> QED  BY <2>1, NoTensorsFit
  <1>21. CASE UNCHANGED vars
    <2>1. UNCHANGED <<callVars, position, handleVars, pc, device, host>>
      BY <1>21 DEF vars, callVars, handleVars
    <2>2. Current' = Current /\ session' = session
      BY <2>1, SameCurrent DEF handleVars
    <2>3. pc' = pc /\ device' = device /\ host' = host
      BY <2>1
    <2>4. TensorsFit'
      BY <1>0, <2>2, <2>3 DEF TensorsFit
    <2> QED  BY <1>0, <2>2, <2>3, <2>4 DEF Effect
  <1> QED
    BY <1>2, <1>3, <1>4, <1>5, <1>6, <1>7, <1>8, <1>9, <1>10, <1>11, <1>14, <1>15, <1>16, <1>17,
       <1>18, <1>19, <1>20, <1>21 DEF Next, ClientNext, LibraryNext

-----------------------------------------------------------------------------
(***************************************************************************)
(* The handle and the session                                              *)
(***************************************************************************)

LEMMA CreateKeepsHandle ==
  ASSUME HandleFits, NEW h \in {"client", "portal"},
         BlasCreateSucceeds(h) \/ BlasCreateFails(h) \/ BlasDestroy(h)
  PROVE  HandleFits'
  <1>1. CASE BlasCreateSucceeds(h)
    <2>1. holders = {} /\ holders' = {h} /\ handle_live' = TRUE /\ session' = "opencl"
      BY <1>1 DEF HandleFits, UniqueHandle, BlasCreateSucceeds
    <2> QED  BY <2>1 DEF HandleFits, UniqueHandle, PinnedWhileLeft
  <1>2. CASE BlasCreateFails(h)
    BY <1>2 DEF HandleFits, UniqueHandle, PinnedWhileLeft, BlasCreateFails
  <1>3. CASE BlasDestroy(h)
    <2>1. holders' = {} /\ handle_live' = FALSE
      BY <1>3 DEF HandleFits, UniqueHandle, BlasDestroy
    <2> QED  BY <2>1 DEF HandleFits, UniqueHandle, PinnedWhileLeft
  <1> QED  BY <1>1, <1>2, <1>3

\* Only the client's calls and a graph's beginning touch either.
LEMMA HandleStep == IInv /\ [Next]_vars => HandleFits'
  <1> SUFFICES ASSUME IInv, [Next]_vars PROVE HandleFits'
    OBVIOUS
  <1>0. HandleFits
    BY DEF IInv
  <1>1. CASE UNCHANGED handleVars
    BY <1>0, <1>1 DEF HandleFits, UniqueHandle, PinnedWhileLeft, handleVars
  <1>2. CASE UseHandle
    BY <1>0, <1>2, CreateKeepsHandle DEF UseHandle
  <1>3. CASE UseSession
    BY <1>0, <1>3 DEF HandleFits, UniqueHandle, PinnedWhileLeft, UseSession
  <1>4. ASSUME NEW g \in Graphs, PortalSubmit(g) PROVE HandleFits'
    <2>1. UNCHANGED handleVars \/ BlasCreateFails("portal") \/ BlasCreateSucceeds("portal")
      BY <1>4 DEF PortalSubmit
    <2> QED  BY <1>0, <1>1, <2>1, CreateKeepsHandle
  <1>5. ASSUME \/ \E x \in Arrays, v \in Values : HostWrite(x, v)
               \/ \E k \in ClientKernels : LaunchKernel(k)
               \/ \E r \in Requests : Sgemm(r)
        PROVE  UNCHANGED handleVars
    BY <1>5 DEF HostWrite, LaunchKernel, Sgemm
  <1>6. ASSUME LibraryNext PROVE UNCHANGED handleVars
    BY <1>6 DEF LibraryNext, GraphDone, UnknownOperation, SgemmStarts, Alloc, Upload, Launch,
       Synchronize, Download, Proceed, StepFails, DownloadFails, Cleanup
  <1>7. ASSUME UNCHANGED vars PROVE UNCHANGED handleVars
    BY <1>7 DEF vars, handleVars
  <1> QED  BY <1>1, <1>2, <1>3, <1>4, <1>5, <1>6, <1>7 DEF Next, ClientNext

-----------------------------------------------------------------------------
(***************************************************************************)
(* The invariants                                                          *)
(***************************************************************************)

\* The inductive invariant holds throughout.
THEOREM Invariance == SafeSpec => []IInv
  <1>1. IInv /\ [Next]_vars => IInv'
    BY TypeStep, CallStep, TensorsStep, HandleStep DEF IInv
  <1> QED  BY <1>1, InitHolds, PTL DEF SafeSpec

\* Spec differs from SafeSpec by its fairness only.
LEMMA SpecIsSafe == Spec => SafeSpec
BY PTL DEF Spec

\* TypeOK: every variable keeps its type, whatever step of a call fails.
THEOREM TypeCorrectness == Spec => []TypeOK
  <1>1. IInv => TypeOK
    BY DEF IInv
  <1> QED  BY <1>1, Invariance, SpecIsSafe, PTL

\* NothingLeft: a call that has returned has given its device tensors back, whatever
\* step of it failed.
THEOREM NothingLeftHolds == Spec => []NothingLeft
  <1>1. IInv => NothingLeft
    BY DEF IInv, TensorsFit, NothingLeft
  <1> QED  BY <1>1, Invariance, SpecIsSafe, PTL

\* UniqueHandle: the client and the Portal never hold a handle at once, and a handle
\* that is held is the live one.
THEOREM UniqueHandleHolds == Spec => []UniqueHandle
  <1>1. IInv => UniqueHandle
    BY DEF IInv, HandleFits
  <1> QED  BY <1>1, Invariance, SpecIsSafe, PTL

\* PinnedWhileLeft: while a handle is live the session is OpenCL's unless the client
\* changed it itself.
THEOREM PinnedWhileLeftHolds == Spec => []PinnedWhileLeft
  <1>1. IInv => PinnedWhileLeft
    BY DEF IInv, HandleFits
  <1> QED  BY <1>1, Invariance, SpecIsSafe, PTL

-----------------------------------------------------------------------------
(***************************************************************************)
(* The kernels of the runtime below                                        *)
(***************************************************************************)

\* With sizes an int holds, the device works with those the host meant.
LEMMA DeviceSizes ==
  ASSUME NEW k, NEW D, Dimensions(k) = D, Len(D) \in Nat,
         NEW i \in 1 .. Len(D), D[i] \in 0 .. IntMax
  PROVE  DeviceDimensions(k)[i] = D[i]
  <1>1. DeviceDimensions(k)[i] = AsInt(D[i])
    BY DEF DeviceDimensions
  <1> QED  BY <1>1, AsIntExact

LEMMA DeviceSize ==
  ASSUME NEW k, NEW n \in 0 .. IntMax, Dimensions(k) = <<n>>
  PROVE  DeviceDimensions(k)[1] = n
  <1>1. Len(<<n>>) = 1 /\ <<n>>[1] = n /\ 1 \in 1 .. 1
    OBVIOUS
  <1>2. DeviceDimensions(k) = [i \in 1 .. Len(<<n>>) |-> AsInt(<<n>>[i])]
    BY DEF DeviceDimensions
  <1>3. DeviceDimensions(k)[1] = AsInt(<<n>>[1])
    BY <1>1, <1>2
  <1> QED  BY <1>1, <1>3, AsIntExact

\* The number of elements of an argument, as long as it is a size_t.
LEMMA CountExact ==
  ASSUME NEW rank \in Int, NEW shape \in Nat \X Nat,
         rank = 2 => shape[1] * shape[2] < SizeMod
  PROVE  /\ rank = 1 => ElementCount(rank, shape) = shape[1]
         /\ rank = 2 => ElementCount(rank, shape) = shape[1] * shape[2]
  <1>1. CASE rank # 2  BY <1>1 DEF ElementCount
  <1>2. CASE rank = 2
    <2>1. shape[1] * shape[2] \in Nat
      OBVIOUS
    <2>2. (shape[1] * shape[2]) % SizeMod = shape[1] * shape[2]
      BY <1>2, <2>1, SmallMod, WidthAssumption
    <2> QED  BY <1>2, <2>2 DEF ElementCount
  <1> QED  BY <1>1, <1>2

LEMMA ValidatedSound ==
  ASSUME NEW k \in Kernels, Validates(k)
  PROVE  Sound(k)
  <1> DEFINE d == DeviceDimensions(k)
             s(i) == k.args[i].shape
             rank(i) == k.args[i].rank
             count(i) == ElementCount(rank(i), s(i))
             output == IF k.op = "broadcast_add" THEN 1 ELSE Len(k.args)
  <1>1. SUFFICES ASSUME \A i \in 1 .. Len(k.args) : rank(i) = 2 => s(i)[1] * s(i)[2] < SizeMod,
                        \A i \in 1 .. Len(Dimensions(k)) : Dimensions(k)[i] <= IntMax
                 PROVE  /\ Len(k.args) = Len(Extent(k.op, d))
                        /\ \A i \in 1 .. Len(k.args) :
                             /\ Extent(k.op, d)[i] <= count(i)
                             /\ i = output /\ k.op # "reduce_sum" =>
                                  Extent(k.op, d)[i] = count(i)
    BY DEF Sound
  <1>2. /\ k.args \in Seq(Arguments) /\ Len(k.args) \in Nat /\ k.lanes \in Nat
        /\ \A i \in 1 .. Len(k.args) : k.args[i] \in Arguments
    <2>1. k.args \in Seq(Arguments) /\ k.lanes \in Nat
      BY DEF Kernels
    <2> QED  BY <2>1
  <1>3. \A i \in 1 .. Len(k.args) : rank(i) \in Int /\ s(i) \in Nat \X Nat
    BY <1>2 DEF Arguments
  <1>4. \A i \in 1 .. Len(k.args) : /\ rank(i) = 1 => count(i) = s(i)[1]
                                    /\ rank(i) = 2 => count(i) = s(i)[1] * s(i)[2]
    BY <1>1, <1>3, CountExact
  <1>5. \A i \in 1 .. Len(k.args) : s(i)[1] \in Nat /\ s(i)[2] \in Nat
    BY <1>3
  <1>6. CASE k.op = "vector_add"
    <2>1. /\ Len(k.args) = 3
          /\ \A i \in 1 .. 3 : rank(i) = 1 /\ s(i)[1] = k.lanes
      <3>1. ~ValidateTensorKernel(k)
        BY <1>6 DEF ValidateTensorKernel, Conforms
      <3>2. ValidateKernel(k)
        BY <3>1 DEF Validates
      <3> QED  BY <1>6, <3>2 DEF ValidateKernel, Kernels
    <2>2. Dimensions(k) = <<k.lanes>>
      BY <1>6 DEF Dimensions
    <2>3. d[1] = k.lanes
      <3>1. Len(<<k.lanes>>) = 1 /\ k.lanes <= IntMax
        BY <1>1, <2>2
      <3>2. k.lanes \in 0 .. IntMax
        BY <1>2, <3>1, WidthAssumption
      <3> QED  BY <2>2, <3>2, DeviceSize
    <2>4. Extent(k.op, d) = <<k.lanes, k.lanes, k.lanes>>
      BY <1>6, <2>3 DEF Extent
    <2>5. \A i \in 1 .. 3 : count(i) = k.lanes /\ Extent(k.op, d)[i] = k.lanes
      BY <1>4, <2>1, <2>4
    <2> QED  BY <1>2, <2>1, <2>4, <2>5
  <1>7. ASSUME k.op # "vector_add"
        PROVE  /\ Conforms(k)
               /\ \A i \in 1 .. Len(k.args) : rank(i) \in {1, 2}
    BY <1>7 DEF Validates, ValidateKernel, ValidateTensorKernel, WellShaped
  <1>8. CASE k.op = "matmul"
    <2>1. /\ Len(k.args) = 3 /\ rank(1) = 2 /\ rank(2) = 2 /\ rank(3) = 2
          /\ s(1)[2] = s(2)[1] /\ s(3)[1] = s(1)[1] /\ s(3)[2] = s(2)[2]
      BY <1>7, <1>8 DEF Conforms
    <2> DEFINE m == s(1)[1]
               h == s(1)[2]
               n == s(2)[2]
    <2>2. Dimensions(k) = <<m, h, n>>
      BY <1>8 DEF Dimensions
    <2>3. m \in 0 .. IntMax /\ h \in 0 .. IntMax /\ n \in 0 .. IntMax
      <3>1. m \in Nat /\ h \in Nat /\ n \in Nat
        BY <1>5, <2>1
      <3>2. m <= IntMax /\ h <= IntMax /\ n <= IntMax
        BY <1>1, <2>2
      <3> QED  BY <3>1, <3>2, WidthAssumption
    <2>4. d[1] = m /\ d[2] = h /\ d[3] = n
      BY <2>2, <2>3, DeviceSizes
    <2>5. Extent(k.op, d) = <<m * h, h * n, m * n>>
      BY <1>8, <2>4 DEF Extent
    <2>6. count(1) = m * h /\ count(2) = h * n /\ count(3) = m * n
      BY <1>4, <2>1
    <2>7. m * h \in Nat /\ h * n \in Nat /\ m * n \in Nat
      BY <2>3
    <2>8. \A i \in 1 .. 3 : Extent(k.op, d)[i] = count(i) /\ count(i) \in Nat
      <3> HIDE DEF m, h, n, d, count
      <3>1. \A i \in 1 .. 3 : i = 1 \/ i = 2 \/ i = 3
        OBVIOUS
      <3> QED  BY <2>5, <2>6, <2>7, <3>1
    <2> QED  BY <2>1, <2>5, <2>8
  <1>9. CASE k.op = "reduce_sum"
    <2>1. Len(k.args) = 2 /\ s(2)[1] = 1
      BY <1>7, <1>9 DEF Conforms
    <2> DEFINE n == s(1)[1]
    <2>2. Dimensions(k) = <<n>>
      BY <1>9 DEF Dimensions
    <2>3. n \in 0 .. IntMax
      <3>1. n \in Nat
        BY <1>5, <2>1
      <3>2. n <= IntMax
        BY <1>1, <2>2
      <3> QED  BY <3>1, <3>2, WidthAssumption
    <2>4. d[1] = n
      BY <2>2, <2>3, DeviceSizes
    <2>5. Extent(k.op, d) = <<n, 1>>
      BY <1>9, <2>4 DEF Extent
    <2>6. s(1)[2] # 0 \/ rank(1) = 1
      BY <1>9, <2>1 DEF Validates, ValidateKernel, ValidateTensorKernel, WellShaped
    <2>7. n <= count(1)
      <3>1. CASE rank(1) = 1  BY <1>4, <2>1, <2>3, <3>1
      <3>2. CASE rank(1) # 1
        <4>1. count(1) = n * s(1)[2] /\ s(1)[2] \in Nat /\ s(1)[2] >= 1
          BY <1>4, <1>5, <1>7, <1>9, <2>1, <2>6, <3>2
        <4>2. \A a, b \in Nat : b >= 1 => a <= a * b
          OBVIOUS
        <4> QED  BY <2>3, <4>1, <4>2
      <3> QED  BY <3>1, <3>2
    <2>8. 1 <= count(2)
      <3>1. CASE rank(2) = 1  BY <1>4, <2>1, <3>1
      <3>2. CASE rank(2) # 1
        <4>1. s(2)[2] # 0
          BY <1>9, <2>1, <3>2 DEF Validates, ValidateKernel, ValidateTensorKernel, WellShaped
        <4>2. count(2) = 1 * s(2)[2] /\ s(2)[2] \in Nat
          BY <1>4, <1>5, <1>7, <1>9, <2>1, <3>2
        <4> QED  BY <4>1, <4>2
      <3> QED  BY <3>1, <3>2
    <2> QED  BY <1>9, <2>1, <2>5, <2>7, <2>8
  <1>10. CASE k.op = "broadcast_add"
    <2>1. Len(k.args) = 2 /\ rank(1) = 2 /\ s(2)[1] = s(1)[2]
      BY <1>7, <1>10 DEF Conforms
    <2> DEFINE rows == s(1)[1]
               cols == s(1)[2]
    <2>2. Dimensions(k) = <<rows, cols>>
      <3>1. s(1) = <<rows, cols>>
        BY <1>3, <2>1
      <3> QED  BY <1>10, <3>1 DEF Dimensions
    <2>3. rows \in 0 .. IntMax /\ cols \in 0 .. IntMax
      <3>1. rows \in Nat /\ cols \in Nat
        BY <1>5, <2>1
      <3>2. rows <= IntMax /\ cols <= IntMax
        BY <1>1, <2>2
      <3> QED  BY <3>1, <3>2, WidthAssumption
    <2>4. d[1] = rows /\ d[2] = cols
      BY <2>2, <2>3, DeviceSizes
    <2>5. Extent(k.op, d) = <<rows * cols, cols>>
      BY <1>10, <2>4 DEF Extent
    <2>6. count(1) = rows * cols /\ rows * cols \in Nat
      BY <1>4, <2>1, <2>3
    <2>7. cols <= count(2)
      <3>1. CASE rank(2) = 1  BY <1>4, <2>1, <2>3, <3>1
      <3>2. CASE rank(2) # 1
        <4>1. s(2)[2] # 0
          BY <1>10, <2>1, <3>2 DEF Validates, ValidateKernel, ValidateTensorKernel, WellShaped
        <4>2. count(2) = cols * s(2)[2] /\ s(2)[2] \in Nat
          BY <1>4, <1>5, <1>7, <1>10, <2>1, <3>2
        <4>3. \A a, b \in Nat : b # 0 => a <= a * b
          OBVIOUS
        <4> QED  BY <2>3, <4>1, <4>2, <4>3
      <3> QED  BY <3>1, <3>2
    <2>8. Len(Extent(k.op, d)) = 2 /\ Extent(k.op, d)[1] = count(1) /\ Extent(k.op, d)[2] = cols
      BY <2>5, <2>6
    <2>9. count(1) \in Nat
      BY <2>6
    <2> HIDE DEF rows, cols, d, count, rank, s
    <2>10. \A i \in 1 .. 2 : i = 1 \/ i = 2
      OBVIOUS
    <2> QED  BY <1>10, <2>1, <2>7, <2>8, <2>9, <2>10
  <1>11. CASE k.op = "relu"
    <2>1. Len(k.args) = 2 /\ rank(1) = rank(2) /\ s(1) = s(2)
      BY <1>7, <1>11 DEF Conforms
    <2>2. Dimensions(k) = <<count(1)>>
      BY <1>11 DEF Dimensions
    <2>3. count(1) \in Nat
      <3>1. rank(1) \in {1, 2} /\ s(1)[1] \in Nat /\ s(1)[2] \in Nat
        BY <1>5, <1>7, <1>11, <2>1
      <3>2. s(1)[1] * s(1)[2] \in Nat
        BY <3>1
      <3> QED  BY <1>4, <2>1, <3>1, <3>2
    <2>4. count(1) \in 0 .. IntMax
      <3>1. count(1) <= IntMax
        BY <1>1, <2>2
      <3> QED  BY <2>3, <3>1, WidthAssumption
    <2>5. d[1] = count(1)
      <3> HIDE DEF count
      <3> QED  BY <2>2, <2>4, DeviceSize
    <2>6. Extent(k.op, d) = <<count(1), count(1)>>
      BY <1>11, <2>5 DEF Extent
    <2>7. count(2) = count(1)
      BY <2>1
    <2> HIDE DEF d, count, rank, s
    <2>8. \A i \in 1 .. 2 : i = 1 \/ i = 2
      OBVIOUS
    <2> QED  BY <2>1, <2>3, <2>6, <2>7, <2>8
  <1>12. k.op \in {"vector_add", "matmul", "reduce_sum", "broadcast_add", "relu"}
    BY DEF Validates, ValidateKernel, ValidateTensorKernel, Conforms
  <1> QED  BY <1>6, <1>8, <1>9, <1>10, <1>11, <1>12

\* What has been launched was validated.
LaunchedFits == launched = NoKernel \/ (launched \in Kernels /\ Validates(launched))

LEMMA MatmulIsKernel ==
  ASSUME NEW p, Positive(p)
  PROVE  MatmulOf(p) \in Kernels
  <1>1. p.m \in Nat /\ p.k \in Nat /\ p.n \in Nat
    BY WidthAssumption DEF Positive
  <1>2. \A r, c \in Nat, use \in {"in", "out"} : F32(2, r, c, use) \in Arguments
    BY DEF F32, Arguments
  <1> DEFINE args == <<F32(2, p.m, p.k, "in"), F32(2, p.k, p.n, "in"), F32(2, p.m, p.n, "out")>>
  <1>3. args \in Seq(Arguments) /\ Len(args) = 3
    <2> HIDE DEF Arguments
    <2>1. /\ F32(2, p.m, p.k, "in") \in Arguments
          /\ F32(2, p.k, p.n, "in") \in Arguments
          /\ F32(2, p.m, p.n, "out") \in Arguments
      BY <1>1, <1>2
    <2> QED  BY <2>1
  <1>4. MatmulOf(p) = [op |-> "matmul", args |-> args, given |-> 3, lanes |-> 0]
    BY <1>3 DEF MatmulOf, InitMatmulF32, Kernel
  <1> HIDE DEF args
  <1> QED  BY <1>3, <1>4 DEF Kernels, Ops

LEMMA LaunchedStep == IInv /\ LaunchedFits /\ [Next]_vars => LaunchedFits'
  <1> SUFFICES ASSUME IInv, LaunchedFits, [Next]_vars PROVE LaunchedFits'
    OBVIOUS
  <1>1. CASE launched' = launched
    BY <1>1 DEF LaunchedFits
  <1>2. CASE launched' = NoKernel
    BY <1>2 DEF LaunchedFits
  <1>3. ASSUME NEW k \in ClientKernels, LaunchKernel(k) PROVE LaunchedFits'
    <2>1. k \in Kernels
      BY CallsAssumption
    <2> QED  BY <1>3, <2>1 DEF LaunchKernel, LaunchedFits
  <1>4. CASE Launch
    <2>1. LaunchTensorKernel(Current) /\ pc = "launch"
      BY <1>4 DEF Launch, Proceed
    <2>2. launched' = MatmulOf(Current) /\ ValidateTensorKernel(MatmulOf(Current))
      BY <2>1 DEF LaunchTensorKernel
    <2>3. Positive(Current)
      BY <2>1, InProductFits DEF IInv, InProduct, HasA
    <2>4. MatmulOf(Current) \in Kernels
      BY <2>3, MatmulIsKernel
    <2> QED  BY <2>2, <2>4 DEF LaunchedFits, Validates
  <1>5. ASSUME \/ \E x \in Arrays, v \in Values : HostWrite(x, v)
               \/ UseHandle \/ UseSession
               \/ \E g \in Graphs : PortalSubmit(g)
               \/ \E r \in Requests : Sgemm(r)
        PROVE  launched' = launched \/ launched' = NoKernel
    BY <1>5 DEF HostWrite, UseHandle, UseSession, PortalSubmit, Sgemm
  <1>6. ASSUME LibraryNext, ~Launch PROVE launched' = launched
    BY <1>6 DEF LibraryNext, GraphDone, UnknownOperation, SgemmStarts, Alloc, TensorAlloc, Upload,
       CopyToDevice, Synchronize, Download, CopyToHost, StepFails, Fails, DownloadFails,
       CopyToHostFails, Cleanup
  <1>7. ASSUME UNCHANGED vars PROVE launched' = launched
    BY <1>7 DEF vars
  <1> QED  BY <1>1, <1>2, <1>3, <1>4, <1>5, <1>6, <1>7 DEF Next, ClientNext

\* LaunchSound: whatever description the validators accept, the kernel works on
\* elements its arguments have, and on all of its output unless it is a sum.
THEOREM LaunchSoundHolds == Spec => []LaunchSound
  <1>1. Init => LaunchedFits
    BY DEF Init, BlasInit, LaunchedFits
  <1>2. LaunchedFits => LaunchSound
    BY ValidatedSound DEF LaunchedFits, LaunchSound
  <1> QED  BY <1>1, <1>2, LaunchedStep, Invariance, SpecIsSafe, PTL DEF SafeSpec

-----------------------------------------------------------------------------
(***************************************************************************)
(* A call evaluates its graph                                              *)
(***************************************************************************)

LEMMA InitEvaluates == Init => Evaluation!Init
BY DEF Init, BlasInit, Evaluation!Init, EvalGraph, EvalDone, EvalVerdict, Lost

\* An idle library.
LEMMA IdleEvaluation ==
  ASSUME IInv, pc = "idle"
  PROVE  /\ EvalGraph = <<>> /\ EvalDone = 0
         /\ EvalVerdict = (IF result \in {"ok", "success"} THEN "ok" ELSE "failed")
         /\ EvalVerdict # "pending"
BY DEF IInv, CallFits, EvalGraph, EvalDone, EvalVerdict, Lost

\* A library at an operation it has not finished.
LEMMA BusyEvaluation ==
  ASSUME pc \notin {"idle", "cleanup"}, position # 0
  PROVE  EvalGraph = graph /\ EvalDone = position - 1 /\ EvalVerdict = "pending"
BY DEF EvalGraph, EvalDone, EvalVerdict, Lost

\* After a return.
LEMMA ReturnedEvaluation ==
  ASSUME NEW r, Return(r)
  PROVE  /\ EvalGraph' = <<>> /\ EvalDone' = 0
         /\ EvalVerdict' = IF r \in {"ok", "success"} THEN "ok" ELSE "failed"
BY DEF Return, EvalGraph, EvalDone, EvalVerdict, Lost

\* When a failure has been met.
LEMMA LostEvaluation ==
  ASSUME Lost
  PROVE  EvalGraph = <<>> /\ EvalDone = 0 /\ EvalVerdict = "failed"
BY DEF EvalGraph, EvalDone, EvalVerdict, Lost

\* At a call's operation, the numbers the prover needs.
LEMMA AtOperation ==
  ASSUME IInv, pc # "idle", position <= Len(graph)
  PROVE  /\ position \in Nat /\ position >= 1 /\ Len(graph) \in Nat
         /\ position - 1 < Len(graph) /\ (position - 1) + 1 = position
         /\ Current.a = graph[position].a /\ Current.b = graph[position].b
         /\ Current.output = graph[position].output
         /\ Current.m = graph[position].m /\ Current.k = graph[position].k
         /\ Current.n = graph[position].n
  <1>1. Len(graph) \in Nat /\ position \in 0 .. Len(graph) + 1 /\ position >= 1
    BY GraphLength DEF IInv, TypeOK, CallFits
  <1>2. /\ Current.a = graph[position].a /\ Current.b = graph[position].b
        /\ Current.output = graph[position].output
        /\ Current.m = graph[position].m /\ Current.k = graph[position].k
        /\ Current.n = graph[position].n
    BY DEF Current, Dispatched
  <1> QED  BY <1>1, <1>2

\* A failure of the operation the call is at, which may have lost its output.
LEMMA GivesUp ==
  ASSUME IInv, pc \notin {"idle", "cleanup"}, position <= Len(graph),
         EvalGraph' = <<>>, EvalDone' = 0, EvalVerdict' = "failed",
         \/ UNCHANGED host
         \/ \E v \in Values : /\ Current.output \in Arrays
                              /\ host' = [host EXCEPT ![Current.output] = v]
  PROVE  Evaluation!GiveUp
  <1>1. EvalGraph = graph /\ EvalDone = position - 1 /\ EvalVerdict = "pending"
    BY AtOperation, BusyEvaluation
  <1>2. EvalDone < Len(EvalGraph)
    BY <1>1, AtOperation
  <1>3. EvalGraph[EvalDone + 1].output = Current.output
    BY <1>1, AtOperation
  <1>4. Evaluation!Return("failed")
    BY DEF Evaluation!Return
  <1>5. \/ UNCHANGED host
        \/ \E v \in Values : /\ Evaluation!Current.output \in Arrays
                             /\ host' = [host EXCEPT ![Evaluation!Current.output] = v]
    BY <1>3 DEF Evaluation!Current
  <1> QED  BY <1>1, <1>2, <1>4, <1>5 DEF Evaluation!GiveUp

\* A step within an operation that the caller does not see.
LEMMA Unseen ==
  ASSUME IInv, pc \notin {"idle", "cleanup"}, pc' \notin {"idle", "cleanup"},
         UNCHANGED <<callVars, position, host>>
  PROVE  UNCHANGED Evaluation!vars
  <1>1. position # 0
    BY DEF IInv, CallFits
  <1>2. pc' \notin {"idle", "cleanup"} /\ position' # 0 /\ graph' = graph
    BY <1>1 DEF callVars
  <1>3. EvalGraph' = graph' /\ EvalDone' = position' - 1 /\ EvalVerdict' = "pending"
    BY <1>2 DEF EvalGraph, EvalDone, EvalVerdict, Lost
  <1> QED  BY <1>1, <1>2, <1>3, BusyEvaluation DEF Evaluation!vars

LEMMA EvaluationStep == IInv /\ [Next]_vars => [Evaluation!Next]_(Evaluation!vars)
  <1> SUFFICES ASSUME IInv, [Next]_vars
               PROVE  Evaluation!Next \/ UNCHANGED Evaluation!vars
    OBVIOUS
  <1>0. TypeOK /\ CallFits /\ TensorsFit /\ Effect
    BY DEF IInv
  <1>1. ASSUME UNCHANGED <<host, status, pc, graph, position, result>>
        PROVE  UNCHANGED Evaluation!vars
    BY <1>1 DEF Evaluation!vars, EvalGraph, EvalDone, EvalVerdict, Lost
  <1>2. ASSUME NEW x \in Arrays, NEW v \in Values, HostWrite(x, v) PROVE Evaluation!Next
    <2>1. /\ pc = "idle" /\ host' = [host EXCEPT ![x] = v]
          /\ UNCHANGED <<status, pc, graph, position, result>>
      BY <1>2 DEF HostWrite, ClientUnchanged
    <2>2. EvalVerdict # "pending"
      BY <2>1, IdleEvaluation
    <2>3. UNCHANGED <<EvalGraph, EvalDone, EvalVerdict>>
      BY <2>1 DEF EvalGraph, EvalDone, EvalVerdict, Lost
    <2>4. Evaluation!HostWrite(x, v)
      BY <2>1, <2>2, <2>3 DEF Evaluation!HostWrite
    <2> QED  BY <2>4 DEF Evaluation!Next
  <1>3. CASE UseHandle \/ UseSession \/ \E k \in ClientKernels : LaunchKernel(k)
    BY <1>1, <1>3 DEF UseHandle, UseSession, LaunchKernel, ClientUnchanged
  <1>4. ASSUME NEW who, NEW g \in Graphs \cup {<<r>> : r \in Requests}, pc = "idle",
               Begin(who, g), UNCHANGED host
        PROVE  Evaluation!Next
    <2>1. EvalVerdict # "pending"
      BY <1>4, IdleEvaluation
    <2>2. EvalGraph' = g /\ EvalDone' = 0 /\ EvalVerdict' = "pending"
      BY <1>4 DEF Begin, EvalGraph, EvalDone, EvalVerdict, Lost
    <2>3. Evaluation!Submit(g)
      BY <1>4, <2>1, <2>2 DEF Evaluation!Submit
    <2> QED  BY <2>3 DEF Evaluation!Next
  <1>5. ASSUME NEW g \in Graphs, PortalSubmit(g) PROVE Evaluation!Next
    <2>1. pc = "idle" /\ UNCHANGED host
      BY <1>5 DEF PortalSubmit
    <2>2. CASE Return("empty graph") \/ Return("blas error")
      <3>1. EvalVerdict # "pending" /\ EvalGraph = <<>> /\ EvalDone = 0
        BY <2>1, IdleEvaluation
      <3>2. EvalGraph' = <<>> /\ EvalDone' = 0 /\ EvalVerdict' = "failed"
        <4>1. CASE Return("empty graph")
          BY <4>1 DEF Return, EvalGraph, EvalDone, EvalVerdict, Lost
        <4>2. CASE Return("blas error")
          BY <4>2 DEF Return, EvalGraph, EvalDone, EvalVerdict, Lost
        <4> QED  BY <2>2, <4>1, <4>2
      <3>3. Evaluation!Decline
        BY <2>1, <3>1, <3>2 DEF Evaluation!Decline
      <3> QED  BY <3>3 DEF Evaluation!Next
    <2>3. CASE Begin("portal", g)
      BY <1>4, <2>1, <2>3
    <2> QED  BY <1>5, <2>2, <2>3 DEF PortalSubmit
  <1>6. ASSUME NEW r \in Requests, Sgemm(r) PROVE Evaluation!Next
    BY <1>4, <1>6 DEF Sgemm
  <1>7. CASE GraphDone
    <2>1. /\ pc = "walk" /\ position > Len(graph) /\ Return("ok") /\ UNCHANGED host
      BY <1>7 DEF GraphDone
    <2>2. position - 1 = Len(graph) /\ position # 0
      <3>1. position \in 0 .. Len(graph) + 1 /\ Len(graph) \in Nat
        BY <1>0, GraphLength DEF TypeOK
      <3> QED  BY <2>1, <3>1
    <2>3. EvalGraph = graph /\ EvalDone = Len(graph) /\ EvalVerdict = "pending"
      BY <2>1, <2>2, BusyEvaluation
    <2>4. EvalGraph' = <<>> /\ EvalDone' = 0 /\ EvalVerdict' = "ok"
      BY <2>1, ReturnedEvaluation
    <2>5. Evaluation!Complete
      BY <2>1, <2>3, <2>4 DEF Evaluation!Complete, Evaluation!Return
    <2> QED  BY <2>5 DEF Evaluation!Next
  <1>8. ASSUME NEW r, r \notin {"ok", "success"}, pc = "walk", position <= Len(graph),
               Return(r), UNCHANGED host
        PROVE  Evaluation!Next
    <2>1. EvalGraph' = <<>> /\ EvalDone' = 0 /\ EvalVerdict' = "failed"
      BY <1>8, ReturnedEvaluation
    <2>2. Evaluation!GiveUp
      BY <1>8, <2>1, GivesUp
    <2> QED  BY <2>2 DEF Evaluation!Next
  <1>9. CASE UnknownOperation
    BY <1>8, <1>9 DEF UnknownOperation
  <1>10. CASE SgemmStarts
    <2> DEFINE st == IF caller \in holders THEN Refused(Current) ELSE "not initialized"
    <2>1. pc = "walk" /\ position <= Len(graph) /\ UNCHANGED host
      BY <1>10 DEF SgemmStarts
    <2>2. CASE st = "success"
      <3>1. pc' = "alloc a" /\ UNCHANGED <<callVars, position>>
        BY <1>10, <2>2 DEF SgemmStarts
      <3> QED  BY <2>1, <3>1, Unseen
    <2>3. CASE st # "success"
      <3>1. st # "ok"
        BY RefusedTyped DEF BlasStatuses
      <3>2. SgemmReturns(st)
        BY <1>10, <2>3 DEF SgemmStarts
      <3> HIDE DEF st
      <3>3. Return(st) \/ Return("blas error")
        BY <2>3, <3>2 DEF SgemmReturns
      <3> QED  BY <1>8, <2>1, <2>3, <3>1, <3>3
    <2> QED  BY <2>2, <2>3
  <1>11. CASE Alloc \/ Upload \/ Launch \/ Synchronize
    <2>1. /\ pc \notin {"idle", "cleanup"} /\ pc' \notin {"idle", "cleanup"}
          /\ UNCHANGED <<callVars, position>>
      BY <1>11 DEF Alloc, Upload, Launch, Synchronize, Proceed
    <2>2. UNCHANGED host
      <3>1. ASSUME Launch PROVE UNCHANGED host
        BY <3>1, LaunchEffect
      <3> QED  BY <1>11, <3>1 DEF Alloc, TensorAlloc, Upload, CopyToDevice, Synchronize
    <2> QED  BY <2>1, <2>2, Unseen
  <1>12. CASE Download
    <2>1. /\ pc = "download" /\ pc' = "cleanup" /\ UNCHANGED <<callVars, position>>
          /\ host' = [host EXCEPT ![Current.output] = device["c"]] /\ status' = status
      BY <1>12 DEF Download, Proceed, CopyToHost
    <2>2. status = "success" /\ position <= Len(graph)
      BY <1>0, <2>1 DEF CallFits, InProduct, HasA
    <2>3. /\ position - 1 < Len(graph) /\ (position - 1) + 1 = position /\ position # 0
          /\ Current.a = graph[position].a /\ Current.b = graph[position].b
          /\ Current.output = graph[position].output
          /\ Current.m = graph[position].m /\ Current.k = graph[position].k
          /\ Current.n = graph[position].n
      BY <2>1, <2>2, AtOperation
    <2>4. EvalGraph = graph /\ EvalDone = position - 1 /\ EvalVerdict = "pending"
      BY <2>1, <2>3, BusyEvaluation
    <2>5. EvalGraph' = graph /\ EvalDone' = position /\ EvalVerdict' = "pending"
      BY <2>1, <2>2, <2>3 DEF EvalGraph, EvalDone, EvalVerdict, Lost, callVars
    <2>6. Evaluation!Current = graph[position]
      BY <2>3, <2>4 DEF Evaluation!Current
    <2>7. /\ device["c"] \in Values
          /\ Capable(session, Current.m, Current.k, Current.n) =>
               device["c"] =
                 Product(Current.m, Current.k, Current.n, host[Current.a], host[Current.b])
      BY <1>0, <2>1 DEF Effect, TensorsFit, HasC
    <2>8. Current.a \in Arrays /\ Current.b \in Arrays /\ Current.output \in Arrays
      BY <1>0, <2>1, InProductFits DEF InProduct, HasA
    <2>9. /\ {Evaluation!Current.a, Evaluation!Current.b, Evaluation!Current.output} \subseteq Arrays
          /\ host' = [host EXCEPT ![Evaluation!Current.output] = device["c"]]
          /\ Capable(session, Evaluation!Current.m, Evaluation!Current.k, Evaluation!Current.n) =>
               device["c"] =
                 Product(Evaluation!Current.m, Evaluation!Current.k, Evaluation!Current.n,
                         host[Evaluation!Current.a], host[Evaluation!Current.b])
      BY <2>1, <2>3, <2>6, <2>7, <2>8
    <2>10. Evaluation!Evaluate
      BY <2>3, <2>4, <2>5, <2>7, <2>9 DEF Evaluation!Evaluate
    <2> QED  BY <2>10 DEF Evaluation!Next
  <1>13. ASSUME pc \in HasA \cup {"alloc a"}, pc' = "cleanup", status' = "execution failed",
                \/ UNCHANGED host
                \/ \E v \in Values : /\ Current.output \in Arrays
                                     /\ host' = [host EXCEPT ![Current.output] = v]
         PROVE  Evaluation!Next
    <2>1. EvalGraph' = <<>> /\ EvalDone' = 0 /\ EvalVerdict' = "failed"
      BY <1>13 DEF EvalGraph, EvalDone, EvalVerdict, Lost
    <2>2. pc \notin {"idle", "cleanup"} /\ position <= Len(graph)
      BY <1>0, <1>13 DEF CallFits, InProduct, HasA
    <2>3. Evaluation!GiveUp
      BY <1>13, <2>1, <2>2, GivesUp
    <2> QED  BY <2>3 DEF Evaluation!Next
  <1>14. CASE StepFails
    BY <1>13, <1>14 DEF StepFails, Failing, Fails, HasA
  <1>15. CASE DownloadFails
    <2>1. Current.output \in Arrays
      BY <1>0, <1>15, InProductFits DEF DownloadFails, Failing, InProduct, HasA
    <2> QED  BY <1>13, <1>15, <2>1 DEF DownloadFails, Failing, CopyToHostFails, HasA
  <1>16. CASE Cleanup
    <2>1. pc = "cleanup" /\ SgemmReturns(status) /\ UNCHANGED host /\ status' = "success"
      BY <1>16 DEF Cleanup
    <2>2. CASE status # "success"
      <3>1. Lost /\ status # "ok"
        BY <1>0, <2>1, <2>2 DEF Lost, TypeOK
      <3>2. Return(status) \/ Return("blas error")
        BY <2>1, <2>2 DEF SgemmReturns
      <3>3. EvalGraph' = <<>> /\ EvalDone' = 0 /\ EvalVerdict' = "failed"
        <4>1. CASE Return(status)
          <5>1. pc' = "idle" /\ result' = status /\ graph' = <<>> /\ position' = 0
            BY <4>1 DEF Return
          <5> QED  BY <2>2, <3>1, <5>1 DEF EvalGraph, EvalDone, EvalVerdict, Lost
        <4>2. CASE Return("blas error")
          BY <4>2 DEF Return, EvalGraph, EvalDone, EvalVerdict, Lost
        <4> QED  BY <3>2, <4>1, <4>2
      <3> QED  BY <2>1, <3>1, <3>3, LostEvaluation DEF Evaluation!vars
    <2>3. CASE status = "success"
      <3>1. position <= Len(graph)
        BY <1>0, <2>1 DEF CallFits, InProduct
      <3>2. position \in Nat /\ position >= 1 /\ (position + 1) - 1 = position
        BY <2>1, <3>1, AtOperation
      <3>3. EvalGraph = graph /\ EvalDone = position /\ EvalVerdict = "pending"
        BY <2>1, <2>3, <3>2 DEF EvalGraph, EvalDone, EvalVerdict, Lost
      <3>4. CASE caller = "client"
        <4>1. Return("success")
          BY <2>1, <2>3, <3>4 DEF SgemmReturns
        <4>2. position = Len(graph)
          <5>1. PICK r \in Requests : graph = <<r>> /\ position = 1
            BY <1>0, <2>1, <3>4 DEF CallFits
          <5> QED  BY <5>1
        <4>3. EvalGraph' = <<>> /\ EvalDone' = 0 /\ EvalVerdict' = "ok"
          BY <4>1, ReturnedEvaluation
        <4>4. Evaluation!Complete
          BY <2>1, <3>3, <4>2, <4>3 DEF Evaluation!Complete, Evaluation!Return
        <4> QED  BY <4>4 DEF Evaluation!Next
      <3>5. CASE caller # "client"
        <4>1. pc' = "walk" /\ position' = position + 1 /\ graph' = graph
          BY <2>1, <2>3, <3>5 DEF SgemmReturns, callVars
        <4>2. position' # 0 /\ position' - 1 = position
          BY <3>2, <4>1
        <4>3. EvalGraph' = graph /\ EvalDone' = position /\ EvalVerdict' = "pending"
          BY <4>1, <4>2 DEF EvalGraph, EvalDone, EvalVerdict, Lost
        <4> QED  BY <2>1, <3>3, <4>3 DEF Evaluation!vars
      <3> QED  BY <3>4, <3>5
    <2> QED  BY <2>2, <2>3
  <1>17. CASE UNCHANGED vars
    BY <1>1, <1>17 DEF vars
  <1> QED
    BY <1>2, <1>3, <1>5, <1>6, <1>7, <1>9, <1>10, <1>11, <1>12, <1>14, <1>15, <1>16, <1>17
    DEF Next, ClientNext, LibraryNext

\* ImplementsGraphEvaluation: graphs and single products evaluate in order, each
\* operation on what the earlier ones left, and a failure loses nothing but the
\* output of the operation that failed.  The result is the product wherever the
\* session's device is up to the sizes, on a GPU too.
THEOREM Refinement == Spec => ImplementsGraphEvaluation
  <1> QED  BY InitEvaluates, EvaluationStep, Invariance, SpecIsSafe, PTL
           DEF SafeSpec, ImplementsGraphEvaluation, Evaluation!Spec

-----------------------------------------------------------------------------
(***************************************************************************)
(* Calls come to an end                                                    *)
(***************************************************************************)

\* The steps left of an operation that is at a place, at most.
PlacesFrom(place) ==
  CASE place = "walk" -> 10
    [] place = "alloc a" -> 9
    [] place = "alloc b" -> 8
    [] place = "alloc c" -> 7
    [] place = "upload a" -> 6
    [] place = "upload b" -> 5
    [] place = "launch" -> 4
    [] place = "sync" -> 3
    [] place = "download" -> 2
    [] place = "cleanup" -> 1
    [] place = "idle" -> 0

PlacesLeft == PlacesFrom(pc)

\* The steps left of the call, at most: ten for an operation and ten to see that
\* there is none left.
StepsLeft == IF pc = "idle" THEN 0 ELSE 10 * (Len(graph) + 1 - position) + PlacesLeft

\* A call in progress makes no step for nothing, and it begins with few to make.
CallsProgress == [][pc # "idle" => StepsLeft' < StepsLeft]_vars
StepsBounded == StepsLeft \in 0 .. 10 * (Len(graph) + 1)

LEMMA Places ==
  /\ PlacesFrom("walk") = 10 /\ PlacesFrom("alloc a") = 9 /\ PlacesFrom("alloc b") = 8
  /\ PlacesFrom("alloc c") = 7 /\ PlacesFrom("upload a") = 6 /\ PlacesFrom("upload b") = 5
  /\ PlacesFrom("launch") = 4 /\ PlacesFrom("sync") = 3 /\ PlacesFrom("download") = 2
  /\ PlacesFrom("cleanup") = 1 /\ PlacesFrom("idle") = 0
  BY DEF PlacesFrom

LEMMA Naught == \A n \in {1, 2, 3, 4, 5, 6, 7, 8, 9, 10} : n # 0
  OBVIOUS

LEMMA FewerLeft ==
  ASSUME NEW m, NEW n,
         \/ m = 10 /\ n = 9
         \/ m = 9 /\ n = 8
         \/ m = 8 /\ n = 7
         \/ m = 7 /\ n = 6
         \/ m = 6 /\ n = 5
         \/ m = 5 /\ n = 4
         \/ m = 4 /\ n = 3
         \/ m = 3 /\ n = 2
         \/ m \in {2, 3, 4, 5, 6, 7, 8, 9} /\ n = 1
  PROVE  n \in Nat /\ n < m
  OBVIOUS

\* A step that goes on leads to a place with fewer left.
LEMMA Onward ==
  ASSUME NEW here, NEW next,
         \/ here = "walk" /\ next = "alloc a"
         \/ here = "alloc a" /\ next = "alloc b"
         \/ here = "alloc b" /\ next = "alloc c"
         \/ here = "alloc c" /\ next = "upload a"
         \/ here = "upload a" /\ next = "upload b"
         \/ here = "upload b" /\ next = "launch"
         \/ here = "launch" /\ next = "sync"
         \/ here = "sync" /\ next = "download"
         \/ here = "download" /\ next = "cleanup"
         \/ /\ here \in {"alloc a", "alloc b", "alloc c", "upload a", "upload b", "launch",
                        "sync", "download"}
            /\ next = "cleanup"
  PROVE  PlacesFrom(next) \in Nat /\ PlacesFrom(next) < PlacesFrom(here)
  <1>1. \/ PlacesFrom(here) = 10 /\ PlacesFrom(next) = 9
        \/ PlacesFrom(here) = 9 /\ PlacesFrom(next) = 8
        \/ PlacesFrom(here) = 8 /\ PlacesFrom(next) = 7
        \/ PlacesFrom(here) = 7 /\ PlacesFrom(next) = 6
        \/ PlacesFrom(here) = 6 /\ PlacesFrom(next) = 5
        \/ PlacesFrom(here) = 5 /\ PlacesFrom(next) = 4
        \/ PlacesFrom(here) = 4 /\ PlacesFrom(next) = 3
        \/ PlacesFrom(here) = 3 /\ PlacesFrom(next) = 2
        \/ PlacesFrom(here) \in {2, 3, 4, 5, 6, 7, 8, 9} /\ PlacesFrom(next) = 1
    BY Places, Zenon
  <1> QED  BY <1>1, FewerLeft, Zenon

LEMMA StepsShape ==
  ASSUME TypeOK, CallFits
  PROVE  /\ Len(graph) \in Nat /\ position \in Nat /\ PlacesLeft \in 0 .. 10
         /\ pc # "idle" => /\ 1 <= position /\ position <= Len(graph) + 1
                           /\ PlacesLeft >= 1
  <1>1. Len(graph) \in Nat
    BY GraphLength
  <1>2. position \in 0 .. Len(graph) + 1
    BY DEF TypeOK
  <1>3. PlacesLeft \in 0 .. 10 /\ (pc # "idle" => PlacesLeft >= 1)
    <2>1. pc \in {"idle", "walk", "alloc a", "alloc b", "alloc c", "upload a", "upload b",
                  "launch", "sync", "download", "cleanup"}
      BY DEF TypeOK
    <2>2. PlacesLeft \in {0, 1, 2, 3, 4, 5, 6, 7, 8, 9, 10} /\ (pc # "idle" => PlacesLeft # 0)
      BY <2>1, Places, Naught, Zenon DEF PlacesLeft
    <2> QED  BY <2>2
  <1>4. pc # "idle" => 1 <= position
    BY DEF CallFits
  <1> QED  BY <1>1, <1>2, <1>3, <1>4

\* Within an operation each step is one nearer to its end.
LEMMA NearerInOperation ==
  ASSUME TypeOK, CallFits, pc # "idle", UNCHANGED <<graph, position>>,
         PlacesLeft' \in Int, PlacesLeft' < PlacesLeft
  PROVE  StepsLeft' < StepsLeft
  <1> DEFINE rest == 10 * (Len(graph) + 1 - position)
  <1>1. rest \in Nat /\ PlacesLeft \in 1 .. 10
    BY StepsShape
  <1>2. StepsLeft = rest + PlacesLeft
    BY DEF StepsLeft
  <1>3. StepsLeft' = 0 \/ StepsLeft' = rest + PlacesLeft'
    BY DEF StepsLeft
  <1> HIDE DEF rest
  <1> QED  BY <1>1, <1>2, <1>3

\* A call that returns has no step left.
LEMMA NearerByReturn ==
  ASSUME TypeOK, CallFits, pc # "idle", pc' = "idle"
  PROVE  StepsLeft' < StepsLeft
  <1>1. 10 * (Len(graph) + 1 - position) \in Nat
    BY StepsShape
  <1> QED  BY <1>1, StepsShape DEF StepsLeft

\* The next operation has fewer steps left than the last one of this.
LEMMA NearerByOperation ==
  ASSUME TypeOK, CallFits, pc # "idle", pc' = "walk", graph' = graph,
         position' = position + 1
  PROVE  StepsLeft' < StepsLeft
  <1>1. PlacesLeft' = 10 /\ pc' # "idle"
    BY Places DEF PlacesLeft
  <1> DEFINE rest == Len(graph) + 1 - position
  <1>2. rest \in Int /\ Len(graph') + 1 - position' = rest - 1
    BY StepsShape
  <1>3. StepsLeft = 10 * rest + PlacesLeft
    BY DEF StepsLeft
  <1>4. StepsLeft' = 10 * (rest - 1) + 10
    BY <1>1, <1>2 DEF StepsLeft
  <1>5. PlacesLeft \in 1 .. 10
    BY StepsShape
  <1> HIDE DEF rest
  <1> QED  BY <1>2, <1>3, <1>4, <1>5

\* However Sgemm() returns.
LEMMA NearerBySgemm ==
  ASSUME TypeOK, CallFits, pc # "idle", NEW st, SgemmReturns(st)
  PROVE  StepsLeft' < StepsLeft
BY NearerByReturn, NearerByOperation DEF SgemmReturns, Return, callVars

\* The finite half of CallsReturn: a call on a graph of n operations is over after
\* 10 (n + 1) steps, whichever of them fail.
THEOREM CallsEnd == Spec => CallsProgress /\ []StepsBounded
  <1>1. ASSUME IInv, [Next]_vars, pc # "idle", ~UNCHANGED vars
        PROVE  StepsLeft' < StepsLeft
    <2>0. TypeOK /\ CallFits
      BY <1>1 DEF IInv
    <2>1. LibraryNext
      BY <1>1 DEF Next, ClientNext, HostWrite, UseHandle, UseSession, LaunchKernel,
        PortalSubmit, Sgemm
    <2>2. CASE GraphDone \/ UnknownOperation
      BY <1>1, <2>0, <2>2, NearerByReturn DEF GraphDone, UnknownOperation, Return
    <2>3. CASE Cleanup
      BY <1>1, <2>0, <2>3, NearerBySgemm DEF Cleanup
    <2>4. CASE SgemmStarts
      <3>1. CASE pc = "walk" /\ pc' = "alloc a" /\ UNCHANGED <<graph, position>>
        <4>1. PlacesLeft' \in Nat /\ PlacesLeft' < PlacesLeft
          BY <3>1, Onward, Zenon DEF PlacesLeft
        <4>2. UNCHANGED <<graph, position>>
          BY <3>1
        <4> QED  BY <1>1, <2>0, <4>1, <4>2, NearerInOperation
      <3>2. ASSUME NEW st, SgemmReturns(st) PROVE StepsLeft' < StepsLeft
        BY <1>1, <2>0, <3>2, NearerBySgemm
      <3> QED  BY <2>4, <3>1, <3>2 DEF SgemmStarts, callVars
    <2>5. CASE Alloc \/ Upload \/ Launch \/ Synchronize \/ Download
      <3>1. UNCHANGED <<graph, position>>
        BY <2>5 DEF Alloc, Upload, Launch, Synchronize, Download, Proceed, callVars
      <3>2. \/ pc = "alloc a" /\ pc' = "alloc b"
            \/ pc = "alloc b" /\ pc' = "alloc c"
            \/ pc = "alloc c" /\ pc' = "upload a"
            \/ pc = "upload a" /\ pc' = "upload b"
            \/ pc = "upload b" /\ pc' = "launch"
            \/ pc = "launch" /\ pc' = "sync"
            \/ pc = "sync" /\ pc' = "download"
            \/ pc = "download" /\ pc' = "cleanup"
        BY <2>5 DEF Alloc, Upload, Launch, Synchronize, Download, Proceed
      <3>3. PlacesLeft' \in Nat /\ PlacesLeft' < PlacesLeft
        BY <3>2, Onward, Zenon DEF PlacesLeft
      <3> QED  BY <1>1, <2>0, <3>1, <3>3, NearerInOperation
    <2>6. CASE StepFails \/ DownloadFails
      <3>1. UNCHANGED <<graph, position>> /\ pc' = "cleanup"
        BY <2>6 DEF StepFails, DownloadFails, Failing, callVars
      <3>2. pc \in {"alloc a", "alloc b", "alloc c", "upload a", "upload b", "launch",
                    "sync", "download"}
        BY <2>6 DEF StepFails, DownloadFails, Failing
      <3>3. PlacesLeft' \in Nat /\ PlacesLeft' < PlacesLeft
        BY <3>1, <3>2, Onward, Zenon DEF PlacesLeft
      <3> QED  BY <1>1, <2>0, <3>1, <3>3, NearerInOperation
    <2> QED  BY <2>1, <2>2, <2>3, <2>4, <2>5, <2>6 DEF LibraryNext
  <1>2. IInv /\ [Next]_vars => [pc # "idle" => StepsLeft' < StepsLeft]_vars
    BY <1>1
  <1>3. IInv => StepsBounded
    <2> SUFFICES ASSUME IInv PROVE StepsBounded
      OBVIOUS
    <2>1. TypeOK /\ CallFits
      BY DEF IInv
    <2>2. /\ Len(graph) \in Nat /\ position \in Nat /\ PlacesLeft \in 0 .. 10
          /\ pc # "idle" => 1 <= position /\ position <= Len(graph) + 1
      BY <2>1, StepsShape
    <2> QED  BY <2>2 DEF StepsBounded, StepsLeft
  <1> QED  BY <1>2, <1>3, Invariance, SpecIsSafe, PTL DEF SafeSpec, CallsProgress

-----------------------------------------------------------------------------
(***************************************************************************)
(* What the builders make, the validators accept                           *)
(***************************************************************************)

\* A tensor kernel of two arguments passes when both are well shaped and its own
\* checks hold; vector_add_f32 is none of them.
LEMMA TwoArguments ==
  ASSUME NEW op, op # "vector_add", NEW a, NEW b, NEW n
  PROVE  Validates(Kernel(op, <<a, b>>, n)) <=>
           WellShaped(a) /\ WellShaped(b) /\ Conforms(Kernel(op, <<a, b>>, n))
  <1> DEFINE k == Kernel(op, <<a, b>>, n)
  <1>1. k.op = op /\ k.args = <<a, b>>
    BY DEF Kernel
  <1>2. (\A i \in 1 .. Len(k.args) : WellShaped(k.args[i])) <=> WellShaped(a) /\ WellShaped(b)
    <2>1. k.args[1] = a /\ k.args[2] = b /\ Len(k.args) = 2
      BY <1>1
    <2>2. 1 .. 2 = {1, 2}
      OBVIOUS
    <2> HIDE DEF k
    <2> QED  BY <2>1, <2>2
  <1> HIDE DEF k
  <1>3. Validates(k) <=> WellShaped(a) /\ WellShaped(b) /\ Conforms(k)
    BY <1>1, <1>2 DEF Validates, ValidateKernel, ValidateTensorKernel
  <1> QED  BY <1>3 DEF k

LEMMA ThreeArguments ==
  ASSUME NEW op, op # "vector_add", NEW a, NEW b, NEW c, NEW n
  PROVE  Validates(Kernel(op, <<a, b, c>>, n)) <=>
           WellShaped(a) /\ WellShaped(b) /\ WellShaped(c) /\ Conforms(Kernel(op, <<a, b, c>>, n))
  <1> DEFINE k == Kernel(op, <<a, b, c>>, n)
  <1>1. k.op = op /\ k.args = <<a, b, c>>
    BY DEF Kernel
  <1>2. (\A i \in 1 .. Len(k.args) : WellShaped(k.args[i])) <=>
          WellShaped(a) /\ WellShaped(b) /\ WellShaped(c)
    <2>1. k.args[1] = a /\ k.args[2] = b /\ k.args[3] = c /\ Len(k.args) = 3
      BY <1>1
    <2>2. 1 .. 3 = {1, 2, 3}
      OBVIOUS
    <2> HIDE DEF k
    <2> QED  BY <2>1, <2>2
  <1> HIDE DEF k
  <1>3. Validates(k) <=> WellShaped(a) /\ WellShaped(b) /\ WellShaped(c) /\ Conforms(k)
    BY <1>1, <1>2 DEF Validates, ValidateKernel, ValidateTensorKernel
  <1> QED  BY <1>3 DEF k

\* An argument as the builders describe it.
LEMMA BuiltArgument ==
  ASSUME NEW rank \in {1, 2}, NEW rows, NEW cols, NEW use
  PROVE  WellShaped(F32(rank, rows, cols, use)) <=> rows # 0 /\ (rank = 2 => cols # 0)
  BY DEF WellShaped, F32

\* A kernel that gpuBridgeIrInit*() made is refused for a size of zero and for
\* nothing else: whatever sizes a client asks for, builders and validators of
\* gpubridge_ir.c agree on ranks, types, counts and shapes.
THEOREM BuildersValidate ==
  ASSUME NEW m \in Nat, NEW k \in Nat, NEW n \in Nat, NEW rank \in {1, 2}
  PROVE  /\ Validates(InitVectorAddF32(n)) <=> n # 0
         /\ Validates(InitMatmulF32(m, k, n)) <=> m # 0 /\ k # 0 /\ n # 0
         /\ Validates(InitReduceSumF32(n)) <=> n # 0
         /\ Validates(InitBroadcastAddF32(m, n)) <=> m # 0 /\ n # 0
         /\ Validates(InitReluF32(rank, <<m, n>>)) <=> m # 0 /\ (rank = 2 => n # 0)
  <1>1. Validates(InitVectorAddF32(n)) <=> n # 0
    <2> DEFINE v == InitVectorAddF32(n)
    <2>1. v.op = "vector_add" /\ v.given = 3 /\ v.lanes = n /\ Len(v.args) = 3
      BY DEF InitVectorAddF32, Kernel
    <2>2. /\ v.args[1] = F32(1, n, 0, "in") /\ v.args[2] = F32(1, n, 0, "in")
          /\ v.args[3] = F32(1, n, 0, "out")
      BY DEF InitVectorAddF32, Kernel
    <2> HIDE DEF v
    <2>3. \A i \in 1 .. 3 : /\ v.args[i].f32
                            /\ v.args[i].shape[1] = n
                            /\ v.args[i].use = IF i = 3 THEN "out" ELSE "in"
      BY <2>2 DEF F32
    <2>4. ~ Conforms(v)
      BY <2>1 DEF Conforms
    <2>5. Validates(v) <=> n # 0
      BY <2>1, <2>3, <2>4 DEF Validates, ValidateKernel, ValidateTensorKernel
    <2> QED  BY <2>5 DEF v
  <1>2. Validates(InitMatmulF32(m, k, n)) <=> m # 0 /\ k # 0 /\ n # 0
    <2>1. Conforms(InitMatmulF32(m, k, n))
      BY DEF Conforms, InitMatmulF32, Kernel, F32
    <2> QED  BY <2>1, ThreeArguments, BuiltArgument DEF InitMatmulF32
  <1>3. Validates(InitReduceSumF32(n)) <=> n # 0
    <2>1. Conforms(InitReduceSumF32(n))
      BY DEF Conforms, InitReduceSumF32, Kernel, F32
    <2> QED  BY <2>1, TwoArguments, BuiltArgument DEF InitReduceSumF32
  <1>4. Validates(InitBroadcastAddF32(m, n)) <=> m # 0 /\ n # 0
    <2>1. Conforms(InitBroadcastAddF32(m, n))
      BY DEF Conforms, InitBroadcastAddF32, Kernel, F32
    <2> QED  BY <2>1, TwoArguments, BuiltArgument DEF InitBroadcastAddF32
  <1>5. Validates(InitReluF32(rank, <<m, n>>)) <=> m # 0 /\ (rank = 2 => n # 0)
    <2> DEFINE cols == IF rank = 2 THEN n ELSE 0
               r == Kernel("relu", <<F32(rank, m, cols, "in"), F32(rank, m, cols, "out")>>, 0)
    <2>1. InitReluF32(rank, <<m, n>>) = r
      BY DEF InitReluF32
    <2>2. Conforms(r)
      BY DEF Conforms, Kernel, F32
    <2>3. Validates(r) <=> m # 0 /\ (rank = 2 => cols # 0)
      BY <2>2, TwoArguments, BuiltArgument
    <2> QED  BY <2>1, <2>3
  <1> QED  BY <1>1, <1>2, <1>3, <1>4, <1>5

=============================================================================
