------------------------- MODULE TensorMirrorProofs -------------------------
(***************************************************************************)
(* TensorMirror implements MirroredArray, and its transfers are lazy, for  *)
(* any finite set of mirrors and any blocks, cells and values.             *)
(***************************************************************************)
EXTENDS TensorMirror, FiniteSetTheorems, TLAPS

\* One side of a bound mirror is the latest array, and both are if both count as
\* valid; a mirror that is not bound has nothing to mark.
FlagsTrue ==
  \A m \in Mirrors :
    /\ m \notin Bound => unmarked[m] = "none"
    /\ (m \in Bound /\ unmarked[m] = "none") => (host_valid[m] \/ device_valid[m])
    /\ (m \in Bound /\ unmarked[m] = "none" /\ host_valid[m] /\ device_valid[m])
         => host[m] = content[tensor[m]]

\* No two mirrors share a block, and none has a block of the pool.
Exclusive ==
  \A m \in Bound : /\ tensor[m] \notin pooled
                   /\ \A n \in Bound : tensor[m] = tensor[n] => m = n

\* The mirrors whose side at the end of direction d is stale.
Stale(d) == {m \in Bound : IF d = "to_device" THEN ~device_valid[m] ELSE ~host_valid[m]}

\* Every stale side is an occasion on which no copy was made yet.
Budget == \A d \in Directions : copies[d] + Cardinality(Stale(d)) <= changes[d]

IInv == TypeOK /\ FlagsTrue /\ Exclusive /\ Budget

-----------------------------------------------------------------------------
LEMMA CopiedType ==
  ASSUME NEW a \in Arrays, NEW b \in Arrays, NEW part \in SUBSET Cells
  PROVE  Copied(a, b, part) \in Arrays
BY DEF Copied, Arrays

LEMMA WriteType ==
  ASSUME NEW a \in Arrays, NEW c \in Cells, NEW v \in Values
  PROVE  [a EXCEPT ![c] = v] \in Arrays
BY DEF Arrays

LEMMA BoundType ==
  ASSUME TypeOK, NEW m \in Bound
  PROVE  m \in Mirrors /\ tensor[m] \in Blocks /\ content[tensor[m]] \in Arrays
BY DEF TypeOK, Bound

\* Only creation changes which mirrors are bound from below, only destruction
\* from above.
LEMMA TypeStep ==
  ASSUME TypeOK, [Next]_vars
  PROVE  TypeOK'
<1> USE DEF TypeOK
<1>1. CASE UNCHANGED vars
  BY <1>1 DEF vars
<1>2. ASSUME NEW m \in Mirrors, NEW b \in Blocks, MirrorCreate(m, b) PROVE TypeOK'
  BY <1>2 DEF MirrorCreate, SetFlags, CountChange, Directions
<1>3. ASSUME NEW m \in Mirrors, MirrorDestroy(m) PROVE TypeOK'
  BY <1>3 DEF MirrorDestroy, SetFlags, Bound
<1>4. ASSUME NEW m \in Mirrors, EnsureDeviceCurrent(m) PROVE TypeOK'
  BY <1>4, BoundType DEF EnsureDeviceCurrent, Directions
<1>5. ASSUME NEW m \in Mirrors, EnsureHostCurrent(m) PROVE TypeOK'
  BY <1>5, BoundType DEF EnsureHostCurrent, Directions
<1>6. ASSUME NEW m \in Mirrors, NEW part \in SUBSET Cells, EnsureDeviceFails(m, part)
      PROVE  TypeOK'
  <2>1. Copied(host[m], content[tensor[m]], part) \in Arrays
    BY <1>6, BoundType, CopiedType DEF EnsureDeviceFails
  <2>2. content' = [content EXCEPT ![tensor[m]] = Copied(host[m], content[tensor[m]], part)]
    BY <1>6 DEF EnsureDeviceFails
  <2> QED
    BY <1>6, <2>1, <2>2 DEF EnsureDeviceFails
<1>7. ASSUME NEW m \in Mirrors, NEW part \in SUBSET Cells, EnsureHostFails(m, part)
      PROVE  TypeOK'
  <2>1. Copied(content[tensor[m]], host[m], part) \in Arrays
    BY <1>7, BoundType, CopiedType DEF EnsureHostFails
  <2>2. host' = [host EXCEPT ![m] = Copied(content[tensor[m]], host[m], part)]
    BY <1>7 DEF EnsureHostFails
  <2> QED
    BY <1>7, <2>1, <2>2 DEF EnsureHostFails
<1>8. ASSUME NEW m \in Mirrors, MarkHostModified(m) \/ MarkDeviceModified(m) PROVE TypeOK'
  <2>1. host_valid' \in [Mirrors -> BOOLEAN] /\ device_valid' \in [Mirrors -> BOOLEAN]
    BY <1>8 DEF MarkHostModified, MarkDeviceModified, SetFlags
  <2>2. ASSUME NEW d \in Directions, CountChange(d) PROVE changes' \in [Directions -> Nat]
    BY <2>2 DEF CountChange
  <2>3. changes' \in [Directions -> Nat]
    BY <1>8, <2>2 DEF MarkHostModified, MarkDeviceModified, Directions
  <2> QED
    BY <1>8, <2>1, <2>3 DEF MarkHostModified, MarkDeviceModified
<1>9. ASSUME NEW m \in Mirrors, NEW a \in Arrays, HostWrites(m, a) PROVE TypeOK'
  BY <1>9 DEF HostWrites
<1>10. ASSUME NEW m \in Bound, NEW a \in Arrays, DeviceWrites(m, a) PROVE TypeOK'
  BY <1>10, BoundType DEF DeviceWrites
<1>11. ASSUME NEW m \in Mirrors, NEW c \in Cells, NEW v \in Values,
              HostWriteCell(m, c, v) \/ KernelInPlace(m, c, v)
       PROVE  TypeOK'
  BY <1>9, <1>10, <1>11, BoundType, WriteType
  DEF HostWriteCell, KernelInPlace, HostCurrent, DeviceCurrent
<1>12. ASSUME NEW m \in Mirrors, NEW a \in Arrays, HostOverwrite(m, a) \/ KernelOutput(m, a)
       PROVE  TypeOK'
  BY <1>9, <1>10, <1>12 DEF HostOverwrite, KernelOutput
<1>13. ASSUME NEW m \in Mirrors, HostRead(m) \/ KernelRead(m) PROVE TypeOK'
  BY <1>13, BoundType DEF HostRead, KernelRead, HostCurrent, DeviceCurrent
<1> QED
  BY <1>1, <1>2, <1>3, <1>4, <1>5, <1>6, <1>7, <1>8, <1>11, <1>12, <1>13 DEF Next

LEMMA InitIInv ==
  ASSUME Init
  PROVE  IInv
<1>1. TypeOK
  BY DEF Init, TypeOK, Directions
<1>2. Bound = {}
  BY DEF Init, Bound
<1>3. FlagsTrue /\ Exclusive
  BY <1>2 DEF Init, FlagsTrue, Exclusive
<1>4. \A d \in Directions : Stale(d) = {}
  BY <1>2 DEF Stale
<1>5. Budget
  BY <1>4, FS_EmptySet DEF Budget, Init, Directions
<1> QED
  BY <1>1, <1>3, <1>5 DEF IInv

-----------------------------------------------------------------------------
(***************************************************************************)
(* The flags and the blocks                                                *)
(***************************************************************************)

LEMMA FlagsAndBlocksStep ==
  ASSUME TypeOK, FlagsTrue, Exclusive, Next
  PROVE  FlagsTrue' /\ Exclusive'
<1>0. TypeOK'
  BY TypeStep
<1>1. ASSUME NEW m \in Mirrors, NEW b \in Blocks, MirrorCreate(m, b)
      PROVE  FlagsTrue' /\ Exclusive'
  <2>1. Bound' = Bound \cup {m} /\ m \notin Bound /\ tensor'[m] = b
    BY <1>1, NoBlockAssumption DEF MirrorCreate, Bound, TypeOK
  <2>2. \A n \in Bound : tensor'[n] = tensor[n] /\ n # m /\ n \in Mirrors
    BY <1>1, <2>1 DEF MirrorCreate, Bound, TypeOK
  <2>3. FlagsTrue'
    BY <1>1, <2>1, <2>2 DEF MirrorCreate, SetFlags, FlagsTrue, TypeOK
  <2>4. Exclusive'
    BY <1>1, <2>1, <2>2 DEF MirrorCreate, Exclusive
  <2> QED
    BY <2>3, <2>4
<1>2. ASSUME NEW m \in Mirrors, MirrorDestroy(m)
      PROVE  FlagsTrue' /\ Exclusive'
  <2>1. Bound' = Bound \ {m}
    BY <1>2 DEF MirrorDestroy, Bound, TypeOK
  <2>2. \A n \in Bound' : tensor'[n] = tensor[n] /\ n # m /\ n \in Mirrors /\ n \in Bound
    BY <1>2, <2>1 DEF MirrorDestroy, Bound, TypeOK
  <2>3. FlagsTrue'
    BY <1>2, <2>1, <2>2 DEF MirrorDestroy, SetFlags, FlagsTrue, TypeOK
  <2>4. Exclusive'
    BY <1>2, <2>1, <2>2 DEF MirrorDestroy, Exclusive
  <2> QED
    BY <2>3, <2>4
<1> DEFINE Same == UNCHANGED <<tensor, pooled>>
<1>3. ASSUME Same PROVE Bound' = Bound /\ Exclusive'
  BY <1>3 DEF Bound, Exclusive
<1>4. ASSUME NEW m \in Mirrors, EnsureDeviceCurrent(m) PROVE FlagsTrue' /\ Exclusive'
  BY <1>3, <1>4, BoundType DEF EnsureDeviceCurrent, FlagsTrue, Exclusive, TypeOK
<1>5. ASSUME NEW m \in Mirrors, EnsureHostCurrent(m) PROVE FlagsTrue' /\ Exclusive'
  BY <1>3, <1>5, BoundType DEF EnsureHostCurrent, FlagsTrue, Exclusive, TypeOK
<1>6. ASSUME NEW m \in Mirrors, NEW part \in SUBSET Cells, EnsureDeviceFails(m, part)
      PROVE  FlagsTrue' /\ Exclusive'
  <2>1. \A n \in Bound : n # m => content'[tensor[n]] = content[tensor[n]]
    BY <1>6, BoundType DEF EnsureDeviceFails, Exclusive, TypeOK
  <2> QED
    BY <1>3, <1>6, <2>1 DEF EnsureDeviceFails, FlagsTrue
<1>7. ASSUME NEW m \in Mirrors, NEW part \in SUBSET Cells, EnsureHostFails(m, part)
      PROVE  FlagsTrue' /\ Exclusive'
  <2>1. \A n \in Mirrors : n # m => host'[n] = host[n]
    BY <1>7 DEF EnsureHostFails, TypeOK
  <2> QED
    BY <1>3, <1>7, <2>1 DEF EnsureHostFails, FlagsTrue
<1>8. ASSUME NEW m \in Mirrors, MarkHostModified(m) PROVE FlagsTrue' /\ Exclusive'
  BY <1>3, <1>8 DEF MarkHostModified, SetFlags, FlagsTrue, TypeOK
<1>9. ASSUME NEW m \in Mirrors, MarkDeviceModified(m) PROVE FlagsTrue' /\ Exclusive'
  BY <1>3, <1>9 DEF MarkDeviceModified, SetFlags, FlagsTrue, TypeOK
<1>10. ASSUME NEW m \in Bound, NEW a \in Arrays, HostWrites(m, a) PROVE FlagsTrue' /\ Exclusive'
  BY <1>3, <1>10 DEF HostWrites, FlagsTrue, TypeOK
<1>11. ASSUME NEW m \in Bound, NEW a \in Arrays, DeviceWrites(m, a) PROVE FlagsTrue' /\ Exclusive'
  <2>1. \A n \in Bound : n # m => content'[tensor[n]] = content[tensor[n]]
    BY <1>11, BoundType DEF DeviceWrites, Exclusive, TypeOK
  <2> QED
    BY <1>3, <1>11, <2>1 DEF DeviceWrites, FlagsTrue, TypeOK
<1>12. ASSUME NEW m \in Mirrors, NEW c \in Cells, NEW v \in Values,
              HostWriteCell(m, c, v) \/ KernelInPlace(m, c, v)
       PROVE  FlagsTrue' /\ Exclusive'
  BY <1>10, <1>11, <1>12, BoundType, WriteType
  DEF HostWriteCell, KernelInPlace, HostCurrent, DeviceCurrent, TypeOK
<1>13. ASSUME NEW m \in Mirrors, NEW a \in Arrays, HostOverwrite(m, a) \/ KernelOutput(m, a)
       PROVE  FlagsTrue' /\ Exclusive'
  BY <1>10, <1>11, <1>13 DEF HostOverwrite, KernelOutput
<1>14. ASSUME NEW m \in Mirrors, HostRead(m) \/ KernelRead(m) PROVE FlagsTrue' /\ Exclusive'
  BY <1>3, <1>14 DEF HostRead, KernelRead, FlagsTrue
<1> QED
  BY <1>1, <1>2, <1>4, <1>5, <1>6, <1>7, <1>8, <1>9, <1>12, <1>13, <1>14 DEF Next

-----------------------------------------------------------------------------
(***************************************************************************)
(* The budget of copies                                                    *)
(***************************************************************************)

LEMMA OneMore ==
  ASSUME NEW S, IsFiniteSet(S), NEW m
  PROVE  IsFiniteSet(S \cup {m}) /\ Cardinality(S \cup {m}) <= Cardinality(S) + 1
<1>1. Cardinality(S) \in Nat
  BY FS_CardinalityType
<1>2. IsFiniteSet(S \cup {m})
      /\ Cardinality(S \cup {m}) = IF m \in S THEN Cardinality(S) ELSE Cardinality(S) + 1
  BY FS_AddElement
<1> QED
  BY <1>1, <1>2

LEMMA StaleFinite ==
  ASSUME NEW d
  PROVE  IsFiniteSet(Stale(d)) /\ Cardinality(Stale(d)) \in Nat
<1>1. Stale(d) \subseteq Mirrors
  BY DEF Stale, Bound
<1> QED
  BY <1>1, MirrorsAssumption, FS_Subset, FS_CardinalityType

\* Nothing new is stale.
LEMMA BudgetKept ==
  ASSUME TypeOK, Budget, NEW d \in Directions,
         Stale(d)' \subseteq Stale(d), copies'[d] = copies[d], changes'[d] = changes[d]
  PROVE  copies'[d] + Cardinality(Stale(d)') <= changes'[d]
<1>1. Cardinality(Stale(d)') <= Cardinality(Stale(d)) /\ Cardinality(Stale(d)') \in Nat
  BY StaleFinite, FS_Subset, FS_CardinalityType
<1> QED
  BY <1>1, StaleFinite DEF Budget, TypeOK

\* One side became stale, on an occasion that was counted.
LEMMA BudgetRaised ==
  ASSUME TypeOK, Budget, NEW d \in Directions, NEW m,
         Stale(d)' \subseteq Stale(d) \cup {m},
         copies'[d] = copies[d], changes'[d] = changes[d] + 1
  PROVE  copies'[d] + Cardinality(Stale(d)') <= changes'[d]
<1>1. IsFiniteSet(Stale(d) \cup {m})
      /\ Cardinality(Stale(d) \cup {m}) <= Cardinality(Stale(d)) + 1
  BY StaleFinite, OneMore
<1>2. Cardinality(Stale(d)') <= Cardinality(Stale(d) \cup {m})
      /\ Cardinality(Stale(d)') \in Nat /\ Cardinality(Stale(d) \cup {m}) \in Nat
  BY <1>1, FS_Subset, FS_CardinalityType
<1> QED
  BY <1>1, <1>2, StaleFinite DEF Budget, TypeOK

\* A copy made a stale side current.
LEMMA BudgetSpent ==
  ASSUME TypeOK, Budget, NEW d \in Directions, NEW m \in Stale(d),
         Stale(d)' = Stale(d) \ {m},
         copies'[d] = copies[d] + 1, changes'[d] = changes[d]
  PROVE  copies'[d] + Cardinality(Stale(d)') <= changes'[d]
<1>1. Cardinality(Stale(d)') = Cardinality(Stale(d)) - 1
  BY StaleFinite, FS_RemoveElement
<1> QED
  BY <1>1, StaleFinite DEF Budget, TypeOK

\* What a step does to the stale sides that it does not touch.
LEMMA BudgetStep ==
  ASSUME TypeOK, Budget, Next
  PROVE  Budget'
<1> SUFFICES ASSUME NEW d \in Directions
             PROVE  copies'[d] + Cardinality(Stale(d)') <= changes'[d]
  BY DEF Budget
<1> USE DEF Directions
<1>0. TypeOK'
  BY TypeStep
<1>1. ASSUME NEW m \in Mirrors, NEW b \in Blocks, MirrorCreate(m, b)
      PROVE  copies'[d] + Cardinality(Stale(d)') <= changes'[d]
  <2>1. Bound' \subseteq Bound \cup {m} /\ m \notin Bound
    BY <1>1 DEF MirrorCreate, Bound, TypeOK
  <2>2. \A n \in Bound : n \in Mirrors /\ n # m /\ host_valid'[n] = host_valid[n]
                         /\ device_valid'[n] = device_valid[n]
    BY <1>1, <2>1 DEF MirrorCreate, SetFlags, Bound, TypeOK
  <2>3. host_valid'[m] /\ copies'[d] = copies[d]
        /\ changes'[d] = IF d = "to_device" THEN changes[d] + 1 ELSE changes[d]
    BY <1>1 DEF MirrorCreate, SetFlags, CountChange, TypeOK
  <2>4. CASE d = "to_device"
    BY <2>1, <2>2, <2>3, <2>4, BudgetRaised DEF Stale
  <2>5. CASE d = "to_host"
    BY <2>1, <2>2, <2>3, <2>5, BudgetKept DEF Stale
  <2> QED
    BY <2>4, <2>5
<1>2. ASSUME NEW m \in Mirrors, MirrorDestroy(m)
      PROVE  copies'[d] + Cardinality(Stale(d)') <= changes'[d]
  <2>1. Bound' = Bound \ {m}
    BY <1>2 DEF MirrorDestroy, Bound, TypeOK
  <2>2. \A n \in Bound' : n \in Mirrors /\ n # m /\ host_valid'[n] = host_valid[n]
                          /\ device_valid'[n] = device_valid[n]
    BY <1>2, <2>1 DEF MirrorDestroy, SetFlags, Bound, TypeOK
  <2>3. Stale(d)' \subseteq Stale(d)
    BY <2>1, <2>2 DEF Stale
  <2> QED
    BY <1>2, <2>3, BudgetKept DEF MirrorDestroy
<1>3. ASSUME UNCHANGED <<tensor, host_valid, device_valid, copies, changes>>
      PROVE  copies'[d] + Cardinality(Stale(d)') <= changes'[d]
  <2>1. Stale(d)' = Stale(d)
    BY <1>3 DEF Stale, Bound
  <2> QED
    BY <1>3, <2>1, BudgetKept
<1>4. ASSUME NEW m \in Mirrors, EnsureDeviceCurrent(m)
      PROVE  copies'[d] + Cardinality(Stale(d)') <= changes'[d]
  <2>1. Bound' = Bound /\ m \in Bound /\ host_valid' = host_valid /\ changes' = changes
    BY <1>4 DEF EnsureDeviceCurrent, Bound
  <2>2. \A n \in Mirrors : device_valid'[n] = IF n = m THEN TRUE ELSE device_valid[n]
    BY <1>4 DEF EnsureDeviceCurrent, TypeOK
  <2>3. ~device_valid[m]
        /\ copies'[d] = IF d = "to_device" THEN copies[d] + 1 ELSE copies[d]
    BY <1>4 DEF EnsureDeviceCurrent, TypeOK
  <2>4. CASE d = "to_device"
    <3>1. m \in Stale(d) /\ Stale(d)' = Stale(d) \ {m}
      BY <2>1, <2>2, <2>3, <2>4 DEF Stale, Bound
    <3> QED
      BY <2>1, <2>3, <2>4, <3>1, BudgetSpent
  <2>5. CASE d = "to_host"
    <3>1. Stale(d)' = Stale(d)
      BY <2>1, <2>5 DEF Stale
    <3> QED
      BY <2>1, <2>3, <2>5, <3>1, BudgetKept
  <2> QED
    BY <2>4, <2>5
<1>5. ASSUME NEW m \in Mirrors, EnsureHostCurrent(m)
      PROVE  copies'[d] + Cardinality(Stale(d)') <= changes'[d]
  <2>1. Bound' = Bound /\ m \in Bound /\ device_valid' = device_valid /\ changes' = changes
    BY <1>5 DEF EnsureHostCurrent, Bound
  <2>2. \A n \in Mirrors : host_valid'[n] = IF n = m THEN TRUE ELSE host_valid[n]
    BY <1>5 DEF EnsureHostCurrent, TypeOK
  <2>3. ~host_valid[m]
        /\ copies'[d] = IF d = "to_host" THEN copies[d] + 1 ELSE copies[d]
    BY <1>5 DEF EnsureHostCurrent, TypeOK
  <2>4. CASE d = "to_host"
    <3>1. m \in Stale(d) /\ Stale(d)' = Stale(d) \ {m}
      BY <2>1, <2>2, <2>3, <2>4 DEF Stale, Bound
    <3> QED
      BY <2>1, <2>3, <2>4, <3>1, BudgetSpent
  <2>5. CASE d = "to_device"
    <3>1. Stale(d)' = Stale(d)
      BY <2>1, <2>5 DEF Stale
    <3> QED
      BY <2>1, <2>3, <2>5, <3>1, BudgetKept
  <2> QED
    BY <2>4, <2>5
<1>6. ASSUME NEW m \in Mirrors, MarkHostModified(m)
      PROVE  copies'[d] + Cardinality(Stale(d)') <= changes'[d]
  <2>1. Bound' = Bound /\ copies' = copies
    BY <1>6 DEF MarkHostModified, Bound
  <2>2. \A n \in Bound : n # m => /\ host_valid'[n] = host_valid[n]
                                  /\ device_valid'[n] = device_valid[n]
    BY <1>6 DEF MarkHostModified, SetFlags, Bound, TypeOK
  <2>3. host_valid'[m]
        /\ changes'[d] = IF d = "to_device" THEN changes[d] + 1 ELSE changes[d]
    BY <1>6 DEF MarkHostModified, SetFlags, CountChange, TypeOK
  <2>4. CASE d = "to_device"
    BY <2>1, <2>2, <2>3, <2>4, BudgetRaised DEF Stale
  <2>5. CASE d = "to_host"
    BY <2>1, <2>2, <2>3, <2>5, BudgetKept DEF Stale
  <2> QED
    BY <2>4, <2>5
<1>7. ASSUME NEW m \in Mirrors, MarkDeviceModified(m)
      PROVE  copies'[d] + Cardinality(Stale(d)') <= changes'[d]
  <2>1. Bound' = Bound /\ copies' = copies
    BY <1>7 DEF MarkDeviceModified, Bound
  <2>2. \A n \in Bound : n # m => /\ host_valid'[n] = host_valid[n]
                                  /\ device_valid'[n] = device_valid[n]
    BY <1>7 DEF MarkDeviceModified, SetFlags, Bound, TypeOK
  <2>3. device_valid'[m]
        /\ changes'[d] = IF d = "to_host" THEN changes[d] + 1 ELSE changes[d]
    BY <1>7 DEF MarkDeviceModified, SetFlags, CountChange, TypeOK
  <2>4. CASE d = "to_host"
    BY <2>1, <2>2, <2>3, <2>4, BudgetRaised DEF Stale
  <2>5. CASE d = "to_device"
    BY <2>1, <2>2, <2>3, <2>5, BudgetKept DEF Stale
  <2> QED
    BY <2>4, <2>5
<1> QED
  BY <1>1, <1>2, <1>3, <1>4, <1>5, <1>6, <1>7
  DEF Next, EnsureDeviceFails, EnsureHostFails, HostWriteCell, KernelInPlace,
      HostOverwrite, KernelOutput, HostWrites, DeviceWrites, HostRead, KernelRead

-----------------------------------------------------------------------------
(***************************************************************************)
(* Theorems                                                                *)
(***************************************************************************)

\* In every reachable state the valid sides are the latest array, blocks are not
\* shared, and the copies made and those still due do not exceed the occasions
\* for them (the six mirror functions of gpubridge_runtime.c).
THEOREM Invariance == Spec => []IInv
<1>1. Init => IInv
  BY InitIInv
<1>2. IInv /\ [Next]_vars => IInv'
  <2> SUFFICES ASSUME IInv, [Next]_vars PROVE IInv'
    OBVIOUS
  <2>1. TypeOK'
    BY TypeStep DEF IInv
  <2>2. CASE Next
    BY <2>1, <2>2, FlagsAndBlocksStep, BudgetStep DEF IInv
  <2>3. CASE UNCHANGED vars
    BY <2>1, <2>3 DEF IInv, vars, FlagsTrue, Exclusive, Budget, Bound, Stale
  <2> QED
    BY <2>2, <2>3
<1> QED
  BY <1>1, <1>2, PTL DEF Spec

\* The mirror model keeps its types (GpuBridgeTensorMirror, gpubridge_ir.h).
THEOREM TypeCorrectness == Spec => []TypeOK
<1>1. IInv => TypeOK
  BY DEF IInv
<1> QED
  BY <1>1, Invariance, PTL

\* EnsureDeviceCurrent and EnsureHostCurrent never copy without an occasion.
THEOREM LazyTransfersHolds == Spec => []LazyTransfers
<1>1. IInv => LazyTransfers
  BY StaleFinite DEF IInv, Budget, TypeOK, LazyTransfers
<1> QED
  BY <1>1, Invariance, PTL

-----------------------------------------------------------------------------
(***************************************************************************)
(* Refinement                                                              *)
(***************************************************************************)

ArrayOf(m) == IF m \in Bound THEN Latest(m) ELSE NoArray
ArraysNow == [m \in Mirrors |-> ArrayOf(m)]

LEMMA LatestType ==
  ASSUME TypeOK, NEW m \in Bound
  PROVE  Latest(m) \in Arrays /\ ArrayOf(m) = Latest(m) /\ ArrayOf(m) # NoArray
<1>1. Latest(m) \in Arrays
  BY BoundType DEF Latest, TypeOK
<1> QED
  BY <1>1, NoArrayAssumption DEF ArrayOf

\* Every array is what it was.
LEMMA ArraysKept ==
  ASSUME \A n \in Mirrors : ArrayOf(n)' = ArrayOf(n), seen' = seen
  PROVE  UNCHANGED <<ArraysNow, seen>>
BY DEF ArraysNow

\* One of them changes.
LEMMA ArraysWritten ==
  ASSUME NEW m \in Mirrors, \A n \in Mirrors : n # m => ArrayOf(n)' = ArrayOf(n)
  PROVE  ArraysNow' = [ArraysNow EXCEPT ![m] = ArrayOf(m)']
BY DEF ArraysNow

LEMMA WriteRefines ==
  ASSUME IInv, NEW m \in Bound, NEW a \in Arrays, HostWrites(m, a) \/ DeviceWrites(m, a)
  PROVE  /\ ArraysNow' = [ArraysNow EXCEPT ![m] = a]
         /\ ArraysNow[m] # NoArray
         /\ seen' = seen
<1>0. TypeOK /\ m \in Mirrors /\ tensor[m] \in Blocks
  BY BoundType DEF IInv
<1>1. Bound' = Bound
  BY DEF HostWrites, DeviceWrites, Bound
<1>2. CASE HostWrites(m, a)
  BY <1>0, <1>1, <1>2, ArraysWritten, LatestType
  DEF HostWrites, ArrayOf, Latest, TypeOK, ArraysNow
<1>3. CASE DeviceWrites(m, a)
  <2>1. \A n \in Bound : n # m => content'[tensor[n]] = content[tensor[n]]
    BY <1>0, <1>3, BoundType DEF DeviceWrites, IInv, Exclusive, TypeOK
  <2>2. \A n \in Mirrors : n # m => ArrayOf(n)' = ArrayOf(n)
    BY <1>0, <1>1, <1>3, <2>1 DEF DeviceWrites, ArrayOf, Latest, TypeOK
  <2>3. ArrayOf(m)' = a
    BY <1>0, <1>1, <1>3 DEF DeviceWrites, ArrayOf, Latest, TypeOK
  <2> QED
    BY <1>0, <1>3, <2>2, <2>3, ArraysWritten, LatestType DEF DeviceWrites, ArraysNow
<1> QED
  BY <1>2, <1>3

LEMMA StepRefines ==
  ASSUME IInv, Next
  PROVE  Array!Next \/ UNCHANGED <<ArraysNow, seen>>
<1>0. TypeOK /\ FlagsTrue /\ Exclusive
  BY DEF IInv
<1> DEFINE Goal == Array!Next \/ UNCHANGED <<ArraysNow, seen>>
<1>1. ASSUME NEW m \in Mirrors, NEW b \in Blocks, MirrorCreate(m, b) PROVE Goal
  <2>1. Bound' = Bound \cup {m} /\ m \notin Bound
    BY <1>0, <1>1, NoBlockAssumption DEF MirrorCreate, Bound, TypeOK
  <2>2. \A n \in Mirrors : n # m => ArrayOf(n)' = ArrayOf(n)
    BY <1>0, <1>1, <2>1 DEF MirrorCreate, SetFlags, ArrayOf, Latest, TypeOK
  <2>3. ArrayOf(m)' = host[m] /\ ArraysNow[m] = NoArray /\ host[m] \in Arrays
    BY <1>0, <1>1, <2>1
    DEF MirrorCreate, SetFlags, ArrayOf, ArraysNow, Latest, TypeOK, FlagsTrue
  <2>4. PICK a \in Arrays : a = host[m]
    BY <2>3
  <2>5. Array!Bind(m, a)
    BY <1>1, <2>2, <2>3, <2>4, ArraysWritten DEF MirrorCreate, Array!Bind, ArraysNow, ArrayOf
  <2> QED
    BY <2>5 DEF Array!Next, Arrays, Array!Arrays
<1>2. ASSUME NEW m \in Mirrors, MirrorDestroy(m) PROVE Goal
  <2>1. Bound' = Bound \ {m}
    BY <1>0, <1>2 DEF MirrorDestroy, Bound, TypeOK
  <2>2. \A n \in Mirrors : n # m => ArrayOf(n)' = ArrayOf(n)
    BY <1>0, <1>2, <2>1 DEF MirrorDestroy, SetFlags, ArrayOf, Latest, TypeOK
  <2>3. ArrayOf(m)' = NoArray
    BY <2>1 DEF ArrayOf
  <2>4. Array!Unbind(m)
    BY <1>2, <2>2, <2>3, ArraysWritten DEF MirrorDestroy, Array!Unbind, ArraysNow, ArrayOf
  <2> QED
    BY <2>4 DEF Array!Next
<1>3. ASSUME NEW m \in Mirrors, EnsureDeviceCurrent(m) PROVE Goal
  <2>1. Bound' = Bound /\ host_valid[m]
    BY <1>0, <1>3 DEF EnsureDeviceCurrent, Bound, FlagsTrue
  <2>2. \A n \in Bound : n # m => content'[tensor[n]] = content[tensor[n]]
    BY <1>0, <1>3, BoundType DEF EnsureDeviceCurrent, Exclusive, TypeOK
  <2>3. \A n \in Mirrors : ArrayOf(n)' = ArrayOf(n)
    BY <1>3, <2>1, <2>2 DEF EnsureDeviceCurrent, ArrayOf, Latest
  <2> QED
    BY <1>3, <2>3, ArraysKept DEF EnsureDeviceCurrent
<1>4. ASSUME NEW m \in Mirrors, NEW part \in SUBSET Cells, EnsureDeviceFails(m, part) PROVE Goal
  <2>1. Bound' = Bound /\ host_valid[m]
    BY <1>0, <1>4 DEF EnsureDeviceFails, Bound, FlagsTrue
  <2>2. \A n \in Bound : n # m => content'[tensor[n]] = content[tensor[n]]
    BY <1>0, <1>4, BoundType DEF EnsureDeviceFails, Exclusive, TypeOK
  <2>3. \A n \in Mirrors : ArrayOf(n)' = ArrayOf(n)
    BY <1>4, <2>1, <2>2 DEF EnsureDeviceFails, ArrayOf, Latest
  <2> QED
    BY <1>4, <2>3, ArraysKept DEF EnsureDeviceFails
<1>5. ASSUME NEW m \in Mirrors, EnsureHostCurrent(m) PROVE Goal
  <2>1. \A n \in Mirrors : ArrayOf(n)' = ArrayOf(n)
    BY <1>0, <1>5 DEF EnsureHostCurrent, ArrayOf, Latest, Bound, TypeOK
  <2> QED
    BY <1>5, <2>1, ArraysKept DEF EnsureHostCurrent
<1>6. ASSUME NEW m \in Mirrors, NEW part \in SUBSET Cells, EnsureHostFails(m, part) PROVE Goal
  <2>0. \A n \in Mirrors : n # m => host'[n] = host[n]
    BY <1>0, <1>6 DEF EnsureHostFails, TypeOK
  <2>1. \A n \in Mirrors : ArrayOf(n)' = ArrayOf(n)
    BY <1>6, <2>0 DEF EnsureHostFails, ArrayOf, Latest, Bound
  <2> QED
    BY <1>6, <2>1, ArraysKept DEF EnsureHostFails
<1>7. ASSUME NEW m \in Mirrors, MarkHostModified(m) PROVE Goal
  <2>1. \A n \in Mirrors : ArrayOf(n)' = ArrayOf(n)
    BY <1>0, <1>7 DEF MarkHostModified, SetFlags, ArrayOf, Latest, Bound, TypeOK
  <2> QED
    BY <1>7, <2>1, ArraysKept DEF MarkHostModified
<1>8. ASSUME NEW m \in Mirrors, MarkDeviceModified(m) PROVE Goal
  <2>1. \A n \in Mirrors : ArrayOf(n)' = ArrayOf(n)
    BY <1>0, <1>8 DEF MarkDeviceModified, SetFlags, ArrayOf, Latest, Bound, TypeOK, FlagsTrue
  <2> QED
    BY <1>8, <2>1, ArraysKept DEF MarkDeviceModified
<1>9. ASSUME NEW m \in Mirrors, NEW c \in Cells, NEW v \in Values,
             HostWriteCell(m, c, v) \/ KernelInPlace(m, c, v)
      PROVE  Goal
  <2>1. m \in Bound /\ Latest(m) \in Arrays /\ ArraysNow[m] = Latest(m)
    BY <1>0, <1>9, LatestType
    DEF HostWriteCell, KernelInPlace, HostCurrent, DeviceCurrent, ArraysNow
  <2> DEFINE a == [Latest(m) EXCEPT ![c] = v]
  <2>2. a \in Arrays
    BY <2>1, WriteType
  <2>3. HostWrites(m, a) \/ DeviceWrites(m, a)
    BY <1>0, <1>9
    DEF HostWriteCell, KernelInPlace, HostCurrent, DeviceCurrent, Latest, FlagsTrue
  <2>4. /\ ArraysNow' = [ArraysNow EXCEPT ![m] = a]
        /\ ArraysNow[m] # NoArray
        /\ seen' = seen
    <3> HIDE DEF a
    <3> QED
      BY <2>1, <2>2, <2>3, WriteRefines
  <2>5. Array!WriteCell(m, c, v)
    BY <2>1, <2>4 DEF Array!WriteCell, ArraysNow, ArrayOf
  <2> QED
    BY <2>5 DEF Array!Next
<1>10. ASSUME NEW m \in Mirrors, NEW a \in Arrays, HostOverwrite(m, a) \/ KernelOutput(m, a)
       PROVE  Goal
  <2>1. m \in Bound /\ (HostWrites(m, a) \/ DeviceWrites(m, a))
    BY <1>10 DEF HostOverwrite, KernelOutput
  <2>2. Array!Overwrite(m, a)
    BY <2>1, WriteRefines DEF Array!Overwrite, ArraysNow, ArrayOf
  <2> QED
    BY <2>2 DEF Array!Next, Arrays, Array!Arrays
<1>11. ASSUME NEW m \in Mirrors, HostRead(m) \/ KernelRead(m) PROVE Goal
  <2>1. m \in Bound /\ ArraysNow[m] = Latest(m) /\ ArraysNow[m] # NoArray
    BY <1>0, <1>11, LatestType DEF HostRead, KernelRead, HostCurrent, DeviceCurrent, ArraysNow
  <2>2. seen' = Latest(m)
    BY <1>0, <1>11
    DEF HostRead, KernelRead, HostCurrent, DeviceCurrent, Latest, FlagsTrue
  <2>3. \A n \in Mirrors : ArrayOf(n)' = ArrayOf(n)
    BY <1>11 DEF HostRead, KernelRead, ArrayOf, Latest, Bound
  <2>4. Array!Read(m)
    BY <2>1, <2>2, <2>3 DEF Array!Read, ArraysNow, ArrayOf
  <2> QED
    BY <2>4 DEF Array!Next
<1> QED
  BY <1>1, <1>2, <1>3, <1>4, <1>5, <1>6, <1>7, <1>8, <1>9, <1>10, <1>11 DEF Next

\* The mirror, with its flags, late and failing copies and recycled blocks,
\* implements one array that both sides read and write.
THEOREM Refinement == Spec => ImplementsMirroredArray
<1>1. Init => Array!Init
  BY DEF Init, Array!Init, Bound
<1>2. IInv /\ [Next]_vars => [Array!Next]_(Array!vars)
  <2> SUFFICES ASSUME IInv, [Next]_vars PROVE [Array!Next]_(Array!vars)
    OBVIOUS
  <2>1. Array!vars = <<ArraysNow, seen>>
    BY DEF Array!vars, ArraysNow, ArrayOf
  <2>2. CASE Next
    BY <2>1, <2>2, StepRefines DEF Array!vars, ArraysNow, ArrayOf
  <2>3. CASE UNCHANGED vars
    BY <2>3 DEF vars, Array!vars, Bound, Latest
  <2> QED
    BY <2>2, <2>3
<1> QED
  BY <1>1, <1>2, Invariance, PTL DEF Spec, ImplementsMirroredArray, Array!Spec
=============================================================================
