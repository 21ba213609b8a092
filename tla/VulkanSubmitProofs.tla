------------------------- MODULE VulkanSubmitProofs -------------------------
(***************************************************************************)
(* VulkanSubmit leaves nothing behind, whatever fails.  When a wait fails  *)
(* only for the loss of the device, and for as long as every fence was     *)
(* reset, nothing disturbs the device and the backend implements           *)
(* SyncDevice, for any tensors, values and kernels.                        *)
(***************************************************************************)
EXTENDS VulkanSubmit, TLAPS

\* What the host thread may be doing in a call for each purpose.
CallFits ==
  /\ pc \in {"create", "allocate", "bind"} => call.op \in Copies \cup {"malloc"}
  /\ pc = "fill" => call.op = "write"
  /\ pc \in {"record", "submit", "wait"} => call.op \in Kernels \cup Copies
  /\ pc \in {"map", "copy_out"} => call.op = "read"
  /\ pc = "drain" => call.op = "sync"

\* A call works on tensors the client holds, and malloc makes one it does not.
OperandsHeld ==
  ~Idle =>
    /\ call.op \in Copies => call.tensor \in held
    /\ call.op = "malloc" => call.tensor \notin held
    /\ call.op \in Kernels => \A i \in 1 .. Arity[call.op] : operands[i] \in held

\* The Vulkan objects are those of the tensors held and those the call has made.
Making ==
  IF pc = "allocate" THEN {<<Maker, "buffer">>}
  ELSE IF pc \in {"idle", "create", "drain"} \/ call.op \in Kernels THEN {}
  ELSE ObjectsOf(Maker)

ObjectsFit == live = (held \X {"buffer", "memory"}) \cup Making

\* What is submitted is what the call asked for.
Recorded ==
  pc \in {"submit", "wait"} =>
    /\ cmd = call
    /\ call.op \in Kernels => descriptor_set[call.op] = operands

\* While a command is in flight the host thread waits for its fence.
Flight == in_flight => pc = "wait" /\ ~fence /\ ~lost

\* The staging buffer holds what is to be copied, and then what was.
StagingFits ==
  /\ pc \in {"record", "submit", "wait"} /\ call.op = "write" => content[Staging] = host
  /\ (pc = "wait" /\ fence /\ call.op = "read") \/ pc \in {"map", "copy_out"}
       => content[Staging] = content[call.tensor]

\* A call has its effect while it waits, and by the time the fence is signaled.
Effect ==
  /\ pc \notin {"idle", "wait"} => ~done
  /\ pc = "wait" => /\ call.op = "read" \/ in_flight => ~done
                    /\ call.op # "read" /\ fence => done
                    /\ ~lost => in_flight \/ fence

Residue == TypeOK /\ CallFits /\ OperandsHeld /\ ObjectsFit

\* What holds for as long as every fence was reset.
Fenced == Flight /\ StagingFits /\ Effect

IInv == Residue /\ Recorded /\ (~unfenced => Fenced)

-----------------------------------------------------------------------------
LEMMA ExecutedType ==
  ASSUME TypeOK
  PROVE  Executed \in [Owners -> Values]
<1>1. CASE cmd.op \in Kernels
  <2> DEFINE set == descriptor_set[cmd.op]
             args == [i \in 1 .. Arity[cmd.op] |-> content[set[i]]]
  <2>1. set \in [1 .. Arity[cmd.op] -> Owners] /\ Output[cmd.op] \in 1 .. Arity[cmd.op]
    BY <1>1, KernelsAssumption DEF TypeOK
  <2>2. args \in [1 .. Arity[cmd.op] -> Values]
    BY <2>1 DEF TypeOK
  <2>3. Compute(cmd.op, args) \in Values
    BY <1>1, <2>2, ComputeAssumption
  <2>4. Executed = [content EXCEPT ![set[Output[cmd.op]]] = Compute(cmd.op, args)]
    BY <1>1 DEF Executed
  <2> QED
    BY <2>3, <2>4 DEF TypeOK
<1>2. CASE cmd.op \notin Kernels
  BY <1>2 DEF Executed, TypeOK, Owners
<1> QED
  BY <1>1, <1>2

LEMMA TypeStep ==
  ASSUME TypeOK, CallFits, OperandsHeld, [Next]_vars
  PROVE  TypeOK'
<1> USE DEF TypeOK, Owners, Ops, Copies, OperandsOf, NoCall
<1>1. CASE UNCHANGED vars
  BY <1>1 DEF vars, callVars, memoryVars, deviceVars
<1>2. ASSUME NEW t \in Tensors, MallocDevice(t) PROVE TypeOK'
  BY <1>2, KernelsAssumption
  DEF MallocDevice, Begin, Idle, callVars, memoryVars, deviceVars
<1>3. ASSUME NEW t \in Tensors, FreeDevice(t) PROVE TypeOK'
  BY <1>3
  DEF FreeDevice, Idle, ObjectsOf, Objects, callVars, memoryVars, deviceVars
<1>4. ASSUME NEW t \in Tensors, NEW d \in Copies, Copy(d, t) PROVE TypeOK'
  BY <1>4, KernelsAssumption
  DEF Copy, Begin, Idle, callVars, memoryVars, deviceVars
<1>5. ASSUME NEW k \in Kernels, NEW args \in OperandsOf(k), Launch(k, args) PROVE TypeOK'
  BY <1>5, KernelsAssumption
  DEF Launch, Begin, Idle, callVars, memoryVars, deviceVars
<1>6. CASE Sync
  BY <1>6, KernelsAssumption
  DEF Sync, Begin, Idle, callVars, memoryVars, deviceVars
<1>7. ASSUME NEW v \in Values, HostWrite(v) PROVE TypeOK'
  BY <1>7
  DEF HostWrite, Idle, callVars, memoryVars, deviceVars
<1>8. CASE CreateBuffer
  BY <1>8
  DEF CreateBuffer, At, Maker, Objects, callVars, memoryVars, deviceVars
<1>9. CASE AllocateMemory
  BY <1>9
  DEF AllocateMemory, At, Maker, Objects, callVars, memoryVars, deviceVars
<1>10. ASSUME NEW v \in Values, BindMemory(v) PROVE TypeOK'
  <2>1. Maker \in Owners /\ content' \in [Owners -> Values]
    BY <1>10, KernelsAssumption DEF BindMemory, Maker
  <2>2. CASE call.op = "malloc"
    <3>1. held' \in SUBSET Tensors /\ done' \in BOOLEAN /\ result' \in {"ok", "failed"}
          /\ pc' = "idle" /\ live' \in SUBSET Objects
      BY <1>10, <2>2 DEF BindMemory, Return
    <3> QED
      BY <1>10, <2>1, <3>1 DEF BindMemory, deviceVars
  <2>3. CASE call.op # "malloc"
    BY <1>10, <2>1, <2>3 DEF BindMemory, Goto, deviceVars
  <2> QED
    BY <2>2, <2>3
<1>11. CASE MakingFails
  BY <1>11
  DEF MakingFails, callVars, memoryVars, deviceVars
<1>12. CASE Fill
  BY <1>12
  DEF Fill, At, Goto, callVars, memoryVars, deviceVars
<1>13. CASE Record
  BY <1>13, KernelsAssumption
  DEF Record, UpdateDescriptorSets, At, Goto, CallFits, callVars, memoryVars, deviceVars
<1>14. CASE Submit
  BY <1>14
  DEF Submit, At, Goto, callVars, memoryVars, deviceVars
<1>15. CASE Wait
  BY <1>15
  DEF Wait, At, Goto, Return, callVars, memoryVars, deviceVars
<1>16. CASE Map
  BY <1>16
  DEF Map, At, Goto, callVars, memoryVars, deviceVars
<1>17. CASE CopyOut
  BY <1>17
  DEF CopyOut, At, Return, callVars, memoryVars, deviceVars
<1>18. CASE Drained
  BY <1>18
  DEF Drained, At, Return, callVars, memoryVars, deviceVars
<1>19. CASE MapFails
  BY <1>19
  DEF MapFails, Return, callVars, memoryVars, deviceVars
<1>20. CASE RecordFails
  BY <1>20
  DEF RecordFails, UpdateDescriptorSets, At, Return, callVars, memoryVars, deviceVars
<1>21. CASE SubmitFails
  <2>1. fence' \in BOOLEAN
    BY <1>21, Zenon DEF SubmitFails
  <2> QED
    BY <1>21, <2>1 DEF SubmitFails, At, Return
<1>22. CASE WaitFails
  BY <1>22
  DEF WaitFails, Return, callVars, memoryVars, deviceVars
<1>23. CASE DeviceRuns
  <2>1. done' \in BOOLEAN
    <3>1. done \in BOOLEAN /\ (call.op # "read" /\ Executed = Asked) \in BOOLEAN
      OBVIOUS
    <3> QED
      BY ONLY <1>23, <3>1, Zenon DEF DeviceRuns
  <2>2. content' \in [Owners -> Values]
    BY <1>23, ExecutedType DEF DeviceRuns
  <2>3. /\ UNCHANGED <<call, operands, result, pc, held, live, descriptor_set, cmd, lost,
                       unfenced, host>>
        /\ fence' = TRUE /\ in_flight' = FALSE
    BY <1>23 DEF DeviceRuns
  <2>4. call' = call /\ operands' = operands /\ cmd' = cmd /\ descriptor_set' = descriptor_set
    BY <2>3
  <2>5. /\ call' \in [op : Ops, tensor : Owners]
        /\ (call.op \in Kernels => operands \in OperandsOf(call.op))'
        /\ (call.op \in Copies \cup {"malloc"} => call.tensor \in Tensors)'
        /\ (DOMAIN descriptor_set = Kernels)'
        /\ (\A k \in Kernels : descriptor_set[k] \in [1 .. Arity[k] -> Owners])'
        /\ cmd' \in [op : Kernels \cup Copies \cup {"none"}, tensor : Owners]
    BY <2>4
  <2> QED
    BY <2>1, <2>2, <2>3, <2>5
<1>24. CASE DeviceLost
  <2>1. fence \in BOOLEAN /\ cmd' = cmd /\ content' = content /\ live' = live /\ held' = held
        /\ descriptor_set' = descriptor_set
    BY <1>24 DEF DeviceLost, memoryVars
  <2> QED
    BY <1>24, <2>1 DEF DeviceLost, callVars
<1>25. CASE SubmitUnreset
  BY <1>25
  DEF SubmitUnreset, At, Goto, callVars, memoryVars, deviceVars
<1> QED
  BY <1>1, <1>2, <1>3, <1>4, <1>5, <1>6, <1>7, <1>8, <1>9, <1>10, <1>11, <1>12, <1>13,
     <1>14, <1>15, <1>16, <1>17, <1>18, <1>19, <1>20, <1>21, <1>22, <1>23, <1>24,
     <1>25
  DEF Next, Calls, HostStep

LEMMA CallFitsStep ==
  ASSUME TypeOK, CallFits, [Next]_vars
  PROVE  CallFits'
<1> USE DEF CallFits, Copies
<1>1. CASE UNCHANGED vars
  BY <1>1 DEF vars, callVars, memoryVars, deviceVars
<1>2. ASSUME NEW t \in Tensors, MallocDevice(t) PROVE CallFits'
  BY <1>2, KernelsAssumption
  DEF MallocDevice, Begin, Idle, TypeOK, callVars, memoryVars, deviceVars
<1>3. ASSUME NEW t \in Tensors, FreeDevice(t) PROVE CallFits'
  BY <1>3
  DEF FreeDevice, Idle, callVars, memoryVars, deviceVars
<1>4. ASSUME NEW t \in Tensors, NEW d \in Copies, Copy(d, t) PROVE CallFits'
  BY <1>4, KernelsAssumption
  DEF Copy, Begin, Idle, TypeOK, callVars, memoryVars, deviceVars
<1>5. ASSUME NEW k \in Kernels, NEW args \in OperandsOf(k), Launch(k, args)
      PROVE CallFits'
  BY <1>5, KernelsAssumption
  DEF Launch, Begin, Idle, TypeOK, callVars, memoryVars, deviceVars
<1>6. CASE Sync
  BY <1>6, KernelsAssumption
  DEF Sync, Begin, Idle, TypeOK, callVars, memoryVars, deviceVars
<1>7. ASSUME NEW v \in Values, HostWrite(v) PROVE CallFits'
  BY <1>7
  DEF HostWrite, Idle, callVars, memoryVars, deviceVars
<1>8. CASE CreateBuffer
  BY <1>8
  DEF CreateBuffer, At, callVars, memoryVars, deviceVars
<1>9. CASE AllocateMemory
  BY <1>9
  DEF AllocateMemory, At, callVars, memoryVars, deviceVars
<1>10. ASSUME NEW v \in Values, BindMemory(v) PROVE CallFits'
  BY <1>10
  DEF BindMemory, At, Return, Goto, callVars, memoryVars, deviceVars
<1>11. CASE MakingFails
  BY <1>11
  DEF MakingFails, callVars, memoryVars, deviceVars
<1>12. CASE Fill
  BY <1>12
  DEF Fill, At, Goto, callVars, memoryVars, deviceVars
<1>13. CASE Record
  BY <1>13
  DEF Record, UpdateDescriptorSets, At, Goto, callVars, memoryVars, deviceVars
<1>14. CASE Submit
  BY <1>14
  DEF Submit, At, Goto, callVars, memoryVars, deviceVars
<1>15. CASE Wait
  BY <1>15
  DEF Wait, At, Goto, Return, callVars, memoryVars, deviceVars
<1>16. CASE Map
  BY <1>16
  DEF Map, At, Goto, callVars, memoryVars, deviceVars
<1>17. CASE CopyOut
  BY <1>17
  DEF CopyOut, At, Return, callVars, memoryVars, deviceVars
<1>18. CASE Drained
  BY <1>18
  DEF Drained, At, Return, callVars, memoryVars, deviceVars
<1>19. CASE MapFails
  BY <1>19
  DEF MapFails, Return, callVars, memoryVars, deviceVars
<1>20. CASE RecordFails
  BY <1>20
  DEF RecordFails, UpdateDescriptorSets, At, Return, callVars, memoryVars, deviceVars
<1>21. CASE SubmitFails
  BY <1>21
  DEF SubmitFails, At, Return, callVars, memoryVars, deviceVars
<1>22. CASE WaitFails
  BY <1>22
  DEF WaitFails, Return, callVars, memoryVars, deviceVars
<1>23. CASE DeviceRuns
  BY <1>23
  DEF DeviceRuns, callVars, memoryVars, deviceVars
<1>24. CASE DeviceLost
  BY <1>24
  DEF DeviceLost, callVars, memoryVars, deviceVars
<1>25. CASE SubmitUnreset
  BY <1>25
  DEF SubmitUnreset, At, Goto, callVars, memoryVars, deviceVars
<1> QED
  BY <1>1, <1>2, <1>3, <1>4, <1>5, <1>6, <1>7, <1>8, <1>9, <1>10, <1>11, <1>12, <1>13,
     <1>14, <1>15, <1>16, <1>17, <1>18, <1>19, <1>20, <1>21, <1>22, <1>23, <1>24,
     <1>25
  DEF Next, Calls, HostStep

LEMMA OperandsHeldStep ==
  ASSUME TypeOK, CallFits, OperandsHeld, [Next]_vars
  PROVE  OperandsHeld'
<1> USE DEF OperandsHeld, Idle, Copies
<1>1. CASE UNCHANGED vars
  BY <1>1 DEF vars, callVars, memoryVars, deviceVars
<1>2. ASSUME NEW t \in Tensors, MallocDevice(t) PROVE OperandsHeld'
  BY <1>2, KernelsAssumption
  DEF MallocDevice, Begin, Idle, TypeOK, callVars, memoryVars, deviceVars
<1>3. ASSUME NEW t \in Tensors, FreeDevice(t) PROVE OperandsHeld'
  BY <1>3
  DEF FreeDevice, Idle, callVars, memoryVars, deviceVars
<1>4. ASSUME NEW t \in Tensors, NEW d \in Copies, Copy(d, t) PROVE OperandsHeld'
  BY <1>4, KernelsAssumption
  DEF Copy, Begin, Idle, TypeOK, callVars, memoryVars, deviceVars
<1>5. ASSUME NEW k \in Kernels, NEW args \in OperandsOf(k), Launch(k, args)
      PROVE OperandsHeld'
  BY <1>5, KernelsAssumption
  DEF Launch, Begin, Idle, TypeOK, callVars, memoryVars, deviceVars
<1>6. CASE Sync
  BY <1>6, KernelsAssumption
  DEF Sync, Begin, Idle, TypeOK, callVars, memoryVars, deviceVars
<1>7. ASSUME NEW v \in Values, HostWrite(v) PROVE OperandsHeld'
  BY <1>7
  DEF HostWrite, Idle, callVars, memoryVars, deviceVars
<1>8. CASE CreateBuffer
  BY <1>8
  DEF CreateBuffer, At, callVars, memoryVars, deviceVars
<1>9. CASE AllocateMemory
  BY <1>9
  DEF AllocateMemory, At, callVars, memoryVars, deviceVars
<1>10. ASSUME NEW v \in Values, BindMemory(v) PROVE OperandsHeld'
  BY <1>10
  DEF BindMemory, At, Return, Goto, callVars, memoryVars, deviceVars
<1>11. CASE MakingFails
  BY <1>11
  DEF MakingFails, callVars, memoryVars, deviceVars
<1>12. CASE Fill
  BY <1>12
  DEF Fill, At, Goto, callVars, memoryVars, deviceVars
<1>13. CASE Record
  BY <1>13
  DEF Record, UpdateDescriptorSets, At, Goto, callVars, memoryVars, deviceVars
<1>14. CASE Submit
  BY <1>14
  DEF Submit, At, Goto, callVars, memoryVars, deviceVars
<1>15. CASE Wait
  BY <1>15
  DEF Wait, At, Goto, Return, callVars, memoryVars, deviceVars
<1>16. CASE Map
  BY <1>16
  DEF Map, At, Goto, callVars, memoryVars, deviceVars
<1>17. CASE CopyOut
  BY <1>17
  DEF CopyOut, At, Return, callVars, memoryVars, deviceVars
<1>18. CASE Drained
  BY <1>18
  DEF Drained, At, Return, callVars, memoryVars, deviceVars
<1>19. CASE MapFails
  BY <1>19
  DEF MapFails, Return, callVars, memoryVars, deviceVars
<1>20. CASE RecordFails
  BY <1>20
  DEF RecordFails, UpdateDescriptorSets, At, Return, callVars, memoryVars, deviceVars
<1>21. CASE SubmitFails
  BY <1>21
  DEF SubmitFails, At, Return, callVars, memoryVars, deviceVars
<1>22. CASE WaitFails
  BY <1>22
  DEF WaitFails, Return, callVars, memoryVars, deviceVars
<1>23. CASE DeviceRuns
  BY <1>23
  DEF DeviceRuns, callVars, memoryVars, deviceVars
<1>24. CASE DeviceLost
  BY <1>24
  DEF DeviceLost, callVars, memoryVars, deviceVars
<1>25. CASE SubmitUnreset
  BY <1>25
  DEF SubmitUnreset, At, Goto, callVars, memoryVars, deviceVars
<1> QED
  BY <1>1, <1>2, <1>3, <1>4, <1>5, <1>6, <1>7, <1>8, <1>9, <1>10, <1>11, <1>12, <1>13,
     <1>14, <1>15, <1>16, <1>17, <1>18, <1>19, <1>20, <1>21, <1>22, <1>23, <1>24,
     <1>25
  DEF Next, Calls, HostStep

\* A call other than malloc has made nothing but a staging buffer.
LEMMA ReturnFits ==
  ASSUME TypeOK, ObjectsFit, call.op # "malloc", NEW r, Return(r), held' = held
  PROVE  ObjectsFit'
<1>1. Staging \notin held
  BY StagingAssumption DEF TypeOK
<1>2. Making \subseteq ObjectsOf(Staging)
  BY DEF Making, Maker, ObjectsOf
<1>3. Making' = {}
  BY DEF Return, Making
<1>4. live' = ((held \X {"buffer", "memory"}) \cup Making) \ ObjectsOf(Staging)
  BY DEF Return, ObjectsFit
<1>5. (held \X {"buffer", "memory"}) \cap ObjectsOf(Staging) = {}
  BY <1>1 DEF ObjectsOf
<1>6. live' = held \X {"buffer", "memory"}
  BY <1>2, <1>4, <1>5
<1> QED
  BY <1>3, <1>6 DEF ObjectsFit

LEMMA ObjectsFitStep ==
  ASSUME TypeOK, CallFits, OperandsHeld, ObjectsFit, [Next]_vars
  PROVE  ObjectsFit'
<1> USE DEF ObjectsFit, Making, Maker, ObjectsOf, Copies
<1>1. CASE UNCHANGED vars
  BY <1>1 DEF vars, callVars, memoryVars, deviceVars
<1>2. ASSUME NEW t \in Tensors, MallocDevice(t) PROVE ObjectsFit'
  BY <1>2, KernelsAssumption
  DEF MallocDevice, Begin, Idle, callVars, memoryVars, deviceVars
<1>3. ASSUME NEW t \in Tensors, FreeDevice(t) PROVE ObjectsFit'
  BY <1>3
  DEF FreeDevice, Idle, callVars, memoryVars, deviceVars
<1>4. ASSUME NEW t \in Tensors, NEW d \in Copies, Copy(d, t) PROVE ObjectsFit'
  BY <1>4, KernelsAssumption
  DEF Copy, Begin, Idle, callVars, memoryVars, deviceVars
<1>5. ASSUME NEW k \in Kernels, NEW args \in OperandsOf(k), Launch(k, args)
      PROVE ObjectsFit'
  BY <1>5, KernelsAssumption
  DEF Launch, Begin, Idle, callVars, memoryVars, deviceVars
<1>6. CASE Sync
  BY <1>6, KernelsAssumption
  DEF Sync, Begin, Idle, callVars, memoryVars, deviceVars
<1>7. ASSUME NEW v \in Values, HostWrite(v) PROVE ObjectsFit'
  BY <1>7
  DEF HostWrite, Idle, callVars, memoryVars, deviceVars
<1>8. CASE CreateBuffer
  BY <1>8
  DEF CreateBuffer, At, callVars, memoryVars, deviceVars
<1>9. CASE AllocateMemory
  <2>1. call.op \notin Kernels /\ Making = {<<Maker, "buffer">>} /\ Maker' = Maker
    BY <1>9, KernelsAssumption DEF AllocateMemory, At, CallFits, callVars
  <2> HIDE DEF Making, Maker, ObjectsFit
  <2>2. ObjectsOf(Maker) = {<<Maker, "buffer">>, <<Maker, "memory">>}
    OBVIOUS
  <2>3. Making' = ObjectsOf(Maker)
    <3>1. call' = call /\ pc' = "bind"
      BY <1>9 DEF AllocateMemory, callVars
    <3> QED
      BY <2>1, <3>1 DEF Making
  <2>4. live' = live \cup {<<Maker, "memory">>}
    BY <1>9 DEF AllocateMemory
  <2> QED
    BY <1>9, <2>1, <2>2, <2>3, <2>4 DEF AllocateMemory, ObjectsFit
<1>10. ASSUME NEW v \in Values, BindMemory(v) PROVE ObjectsFit'
  <2>1. call.op \notin Kernels /\ Making = ObjectsOf(Maker) /\ Maker' = Maker
    BY <1>10, KernelsAssumption DEF BindMemory, At, CallFits
  <2>2. CASE call.op = "malloc"
    <3>1. Staging \notin held \cup {call.tensor}
      BY <2>2, KernelsAssumption, StagingAssumption DEF TypeOK
    <3>2. live' = ((held \X {"buffer", "memory"}) \cup ObjectsOf(call.tensor)) \ ObjectsOf(Staging)
      BY <1>10, <2>1, <2>2 DEF BindMemory, Return
    <3>3. live' = (held \cup {call.tensor}) \X {"buffer", "memory"}
      BY <3>1, <3>2
    <3> QED
      BY <1>10, <2>2, <3>3 DEF BindMemory, Return
  <2>3. CASE call.op # "malloc"
    <3>1. Making' = Making
      BY <1>10, <2>1, <2>3 DEF BindMemory, Goto
    <3> QED
      BY <1>10, <2>3, <3>1 DEF BindMemory, Goto
  <2> QED
    BY <2>2, <2>3
<1>11. CASE MakingFails
  <2>1. Maker \notin held
    BY <1>11, StagingAssumption, KernelsAssumption
    DEF MakingFails, CallFits, OperandsHeld, Idle, TypeOK
  <2>2. Making \subseteq ObjectsOf(Maker)
    OBVIOUS
  <2>3. (held \X {"buffer", "memory"}) \cap ObjectsOf(Maker) = {}
    BY <2>1
  <2>4. live' = held \X {"buffer", "memory"}
    BY <1>11, <2>2, <2>3 DEF MakingFails
  <2> QED
    BY <1>11, <2>4 DEF MakingFails
<1>12. CASE Fill
  BY <1>12
  DEF Fill, At, Goto, callVars, memoryVars, deviceVars
<1>13. CASE Record
  BY <1>13
  DEF Record, UpdateDescriptorSets, At, Goto, callVars, memoryVars, deviceVars
<1>14. CASE Submit
  BY <1>14
  DEF Submit, At, Goto, callVars, memoryVars, deviceVars
<1>15. CASE Wait
  <2>1. CASE call.op = "read"
    BY <1>15, <2>1, KernelsAssumption DEF Wait, At, Goto, CallFits
  <2>2. CASE call.op # "read"
    BY <1>15, <2>2, ReturnFits, KernelsAssumption DEF Wait, At, CallFits
  <2> QED
    BY <2>1, <2>2
<1>16. CASE Map
  BY <1>16
  DEF Map, At, Goto, callVars, memoryVars, deviceVars
<1>17. CASE CopyOut
  <2>1. call.op # "malloc" /\ held' = held
    BY <1>17, KernelsAssumption DEF CopyOut, At, CallFits
  <2>2. PICK r : Return(r)
    BY <1>17 DEF CopyOut
  <2> QED
    BY <2>1, <2>2, ReturnFits
<1>18. CASE Drained
  <2>1. call.op # "malloc" /\ held' = held
    BY <1>18, KernelsAssumption DEF Drained, At, CallFits
  <2>2. PICK r : Return(r)
    BY <1>18 DEF Drained
  <2> QED
    BY <2>1, <2>2, ReturnFits
<1>19. CASE MapFails
  <2>1. call.op # "malloc" /\ held' = held
    BY <1>19, KernelsAssumption DEF MapFails, CallFits
  <2>2. PICK r : Return(r)
    BY <1>19 DEF MapFails
  <2> QED
    BY <2>1, <2>2, ReturnFits
<1>20. CASE RecordFails
  <2>1. call.op # "malloc" /\ held' = held
    BY <1>20, KernelsAssumption DEF RecordFails, At, CallFits
  <2>2. PICK r : Return(r)
    BY <1>20 DEF RecordFails
  <2> QED
    BY <2>1, <2>2, ReturnFits
<1>21. CASE SubmitFails
  <2>1. call.op # "malloc" /\ held' = held
    BY <1>21, KernelsAssumption DEF SubmitFails, At, CallFits
  <2>2. PICK r : Return(r)
    BY <1>21 DEF SubmitFails
  <2> QED
    BY <2>1, <2>2, ReturnFits
<1>22. CASE WaitFails
  <2>1. call.op # "malloc" /\ held' = held
    BY <1>22, KernelsAssumption DEF WaitFails, CallFits
  <2>2. PICK r : Return(r)
    BY <1>22 DEF WaitFails
  <2> QED
    BY <2>1, <2>2, ReturnFits
<1>23. CASE DeviceRuns
  BY <1>23
  DEF DeviceRuns, callVars, memoryVars, deviceVars
<1>24. CASE DeviceLost
  BY <1>24
  DEF DeviceLost, callVars, memoryVars, deviceVars
<1>25. CASE SubmitUnreset
  BY <1>25
  DEF SubmitUnreset, At, Goto, callVars, memoryVars, deviceVars
<1> QED
  BY <1>1, <1>2, <1>3, <1>4, <1>5, <1>6, <1>7, <1>8, <1>9, <1>10, <1>11, <1>12, <1>13,
     <1>14, <1>15, <1>16, <1>17, <1>18, <1>19, <1>20, <1>21, <1>22, <1>23, <1>24,
     <1>25
  DEF Next, Calls, HostStep

LEMMA InitResidue ==
  ASSUME Init
  PROVE  Residue /\ Recorded
<1>1. TypeOK
  BY KernelsAssumption DEF Init, TypeOK, NoCall, Owners, Ops, Copies, Objects
<1>2. CallFits /\ OperandsHeld /\ ObjectsFit /\ Recorded
  BY DEF Init, CallFits, OperandsHeld, Idle, ObjectsFit, Making, Recorded
<1> QED
  BY <1>1, <1>2 DEF Residue

LEMMA ResidueStep ==
  ASSUME Residue, [Next]_vars
  PROVE  Residue'
BY TypeStep, CallFitsStep, OperandsHeldStep, ObjectsFitStep DEF Residue

\* The type invariant, whichever of the Vulkan calls fail.
THEOREM TypeCorrectness == Spec => []TypeOK
<1>1. Init => Residue
  BY InitResidue
<1>2. Residue /\ [Next]_vars => Residue'
  BY ResidueStep
<1>3. Residue => TypeOK
  BY DEF Residue
<1> QED
  BY <1>1, <1>2, <1>3, PTL DEF Spec

\* Between two calls only the tensors held have Vulkan objects, whichever of the
\* Vulkan calls fail, waits included.
THEOREM NoResidueHolds == Spec => []NoResidue
<1>1. Init => Residue
  BY InitResidue
<1>2. Residue /\ [Next]_vars => Residue'
  BY ResidueStep
<1>3. Residue => NoResidue
  BY DEF Residue, NoResidue, ObjectsFit, Making, Idle
<1> QED
  BY <1>1, <1>2, <1>3, PTL DEF Spec

-----------------------------------------------------------------------------
(***************************************************************************)
(* A wait fails for the loss of the device only                            *)
(***************************************************************************)

LEMMA RecordedStep ==
  ASSUME TypeOK, Recorded, [Next]_vars
  PROVE  Recorded'
<1> USE DEF Recorded
<1>1. CASE UNCHANGED vars
  BY <1>1 DEF vars, callVars, memoryVars, deviceVars
<1>2. ASSUME NEW t \in Tensors, MallocDevice(t) PROVE Recorded'
  BY <1>2
  DEF MallocDevice, Begin, Idle, callVars, memoryVars, deviceVars
<1>3. ASSUME NEW t \in Tensors, FreeDevice(t) PROVE Recorded'
  BY <1>3
  DEF FreeDevice, Idle, callVars, memoryVars, deviceVars
<1>4. ASSUME NEW t \in Tensors, NEW d \in Copies, Copy(d, t) PROVE Recorded'
  BY <1>4
  DEF Copy, Begin, Idle, callVars, memoryVars, deviceVars
<1>5. ASSUME NEW k \in Kernels, NEW args \in OperandsOf(k), Launch(k, args)
      PROVE Recorded'
  BY <1>5
  DEF Launch, Begin, Idle, callVars, memoryVars, deviceVars
<1>6. CASE Sync
  BY <1>6
  DEF Sync, Begin, Idle, callVars, memoryVars, deviceVars
<1>7. ASSUME NEW v \in Values, HostWrite(v) PROVE Recorded'
  BY <1>7
  DEF HostWrite, Idle, callVars, memoryVars, deviceVars
<1>8. CASE CreateBuffer
  BY <1>8
  DEF CreateBuffer, At, callVars, memoryVars, deviceVars
<1>9. CASE AllocateMemory
  BY <1>9
  DEF AllocateMemory, At, callVars, memoryVars, deviceVars
<1>10. ASSUME NEW v \in Values, BindMemory(v) PROVE Recorded'
  BY <1>10
  DEF BindMemory, At, Return, Goto, callVars, memoryVars, deviceVars
<1>11. CASE MakingFails
  BY <1>11
  DEF MakingFails, callVars, memoryVars, deviceVars
<1>12. CASE Fill
  BY <1>12
  DEF Fill, At, Goto, callVars, memoryVars, deviceVars
<1>13. CASE Record
  BY <1>13
  DEF Record, UpdateDescriptorSets, At, Goto, TypeOK, callVars, memoryVars, deviceVars
<1>14. CASE Submit
  BY <1>14
  DEF Submit, At, Goto, callVars, memoryVars, deviceVars
<1>15. CASE Wait
  BY <1>15
  DEF Wait, At, Goto, Return, callVars, memoryVars, deviceVars
<1>16. CASE Map
  BY <1>16
  DEF Map, At, Goto, callVars, memoryVars, deviceVars
<1>17. CASE CopyOut
  BY <1>17
  DEF CopyOut, At, Return, callVars, memoryVars, deviceVars
<1>18. CASE Drained
  BY <1>18
  DEF Drained, At, Return, callVars, memoryVars, deviceVars
<1>19. CASE MapFails
  BY <1>19
  DEF MapFails, Return, callVars, memoryVars, deviceVars
<1>20. CASE RecordFails
  BY <1>20
  DEF RecordFails, UpdateDescriptorSets, At, Return, callVars, memoryVars, deviceVars
<1>21. CASE SubmitFails
  BY <1>21
  DEF SubmitFails, At, Return, callVars, memoryVars, deviceVars
<1>22. CASE WaitFails
  BY <1>22
  DEF WaitFails, Return, callVars, memoryVars, deviceVars
<1>23. CASE DeviceRuns
  BY <1>23
  DEF DeviceRuns, callVars, memoryVars, deviceVars
<1>24. CASE DeviceLost
  BY <1>24
  DEF DeviceLost, callVars, memoryVars, deviceVars
<1>25. CASE SubmitUnreset
  BY <1>25
  DEF SubmitUnreset, At, Goto, callVars, memoryVars, deviceVars
<1> QED
  BY <1>1, <1>2, <1>3, <1>4, <1>5, <1>6, <1>7, <1>8, <1>9, <1>10, <1>11, <1>12, <1>13,
     <1>14, <1>15, <1>16, <1>17, <1>18, <1>19, <1>20, <1>21, <1>22, <1>23, <1>24,
     <1>25
  DEF Next, Calls, HostStep

LEMMA FlightStep ==
  ASSUME TypeOK, Flight, ~WaitsFail, [Next]_vars, ~unfenced'
  PROVE  Flight'
<1> USE DEF Flight
<1>1. CASE UNCHANGED vars
  BY <1>1 DEF vars, callVars, memoryVars, deviceVars
<1>2. ASSUME NEW t \in Tensors, MallocDevice(t) PROVE Flight'
  BY <1>2
  DEF MallocDevice, Begin, Idle, callVars, memoryVars, deviceVars
<1>3. ASSUME NEW t \in Tensors, FreeDevice(t) PROVE Flight'
  BY <1>3
  DEF FreeDevice, Idle, callVars, memoryVars, deviceVars
<1>4. ASSUME NEW t \in Tensors, NEW d \in Copies, Copy(d, t) PROVE Flight'
  BY <1>4
  DEF Copy, Begin, Idle, callVars, memoryVars, deviceVars
<1>5. ASSUME NEW k \in Kernels, NEW args \in OperandsOf(k), Launch(k, args) PROVE Flight'
  BY <1>5
  DEF Launch, Begin, Idle, callVars, memoryVars, deviceVars
<1>6. CASE Sync
  BY <1>6
  DEF Sync, Begin, Idle, callVars, memoryVars, deviceVars
<1>7. ASSUME NEW v \in Values, HostWrite(v) PROVE Flight'
  BY <1>7
  DEF HostWrite, Idle, callVars, memoryVars, deviceVars
<1>8. CASE CreateBuffer
  BY <1>8
  DEF CreateBuffer, At, callVars, memoryVars, deviceVars
<1>9. CASE AllocateMemory
  BY <1>9
  DEF AllocateMemory, At, callVars, memoryVars, deviceVars
<1>10. ASSUME NEW v \in Values, BindMemory(v) PROVE Flight'
  BY <1>10
  DEF BindMemory, At, Return, Goto, callVars, memoryVars, deviceVars
<1>11. CASE MakingFails
  BY <1>11
  DEF MakingFails, callVars, memoryVars, deviceVars
<1>12. CASE Fill
  BY <1>12
  DEF Fill, At, Goto, callVars, memoryVars, deviceVars
<1>13. CASE Record
  BY <1>13
  DEF Record, UpdateDescriptorSets, At, Goto, callVars, memoryVars, deviceVars
<1>14. CASE Submit
  BY <1>14
  DEF Submit, At, Goto, callVars, memoryVars, deviceVars
<1>15. CASE Wait
  BY <1>15
  DEF Wait, At, Goto, Return, callVars, memoryVars, deviceVars
<1>16. CASE Map
  BY <1>16
  DEF Map, At, Goto, callVars, memoryVars, deviceVars
<1>17. CASE CopyOut
  BY <1>17
  DEF CopyOut, At, Return, callVars, memoryVars, deviceVars
<1>18. CASE Drained
  BY <1>18
  DEF Drained, At, Return, callVars, memoryVars, deviceVars
<1>19. CASE MapFails
  BY <1>19
  DEF MapFails, Return, callVars, memoryVars, deviceVars
<1>20. CASE RecordFails
  BY <1>20
  DEF RecordFails, UpdateDescriptorSets, At, Return, callVars, memoryVars, deviceVars
<1>21. CASE SubmitFails
  BY <1>21
  DEF SubmitFails, At, Return, callVars, memoryVars, deviceVars
<1>22. CASE WaitFails
  BY <1>22
  DEF WaitFails, Return, callVars, memoryVars, deviceVars
<1>23. CASE DeviceRuns
  BY <1>23
  DEF DeviceRuns, callVars, memoryVars, deviceVars
<1>24. CASE DeviceLost
  BY <1>24
  DEF DeviceLost, callVars, memoryVars, deviceVars
<1>25. CASE SubmitUnreset
  BY <1>25 DEF SubmitUnreset
<1> QED
  BY <1>1, <1>2, <1>3, <1>4, <1>5, <1>6, <1>7, <1>8, <1>9, <1>10, <1>11, <1>12, <1>13,
     <1>14, <1>15, <1>16, <1>17, <1>18, <1>19, <1>20, <1>21, <1>22, <1>23, <1>24,
     <1>25
  DEF Next, Calls, HostStep

\* The device runs what was asked for: the command buffer and the descriptor set
\* are the call's, and the staging buffer of an upload holds the client's array.
LEMMA RunsWhatIsAsked ==
  ASSUME TypeOK, CallFits, Recorded, Flight, StagingFits, in_flight
  PROVE  /\ call.op \in Kernels \cup Copies
         /\ call.op # "read" => Executed = Asked
         /\ call.op = "read" =>
              Executed = [content EXCEPT ![Staging] = content[call.tensor]]
<1>1. pc = "wait" /\ cmd = call /\ call.op \in Kernels \cup Copies
  BY DEF Flight, Recorded, CallFits
<1>2. CASE call.op \in Kernels
  <2>1. descriptor_set[call.op] = operands /\ call.op # "read"
    BY <1>1, <1>2, KernelsAssumption DEF Recorded, Copies
  <2> QED
    BY <1>1, <1>2, <2>1 DEF Executed, Asked
<1>3. CASE call.op = "write"
  BY <1>1, <1>3, KernelsAssumption DEF Executed, Asked, StagingFits, Copies
<1>4. CASE call.op = "read"
  BY <1>1, <1>4, KernelsAssumption DEF Executed, Copies
<1> QED
  BY <1>1, <1>2, <1>3, <1>4 DEF Copies

LEMMA StagingFitsStep ==
  ASSUME TypeOK, CallFits, Recorded, Flight, StagingFits, [Next]_vars, ~unfenced'
  PROVE  StagingFits'
<1> USE DEF StagingFits
<1>1. CASE UNCHANGED vars
  BY <1>1 DEF vars, callVars, memoryVars, deviceVars
<1>2. ASSUME NEW t \in Tensors, MallocDevice(t) PROVE StagingFits'
  BY <1>2
  DEF MallocDevice, Begin, Idle, callVars, memoryVars, deviceVars
<1>3. ASSUME NEW t \in Tensors, FreeDevice(t) PROVE StagingFits'
  BY <1>3
  DEF FreeDevice, Idle, callVars, memoryVars, deviceVars
<1>4. ASSUME NEW t \in Tensors, NEW d \in Copies, Copy(d, t) PROVE StagingFits'
  BY <1>4
  DEF Copy, Begin, Idle, callVars, memoryVars, deviceVars
<1>5. ASSUME NEW k \in Kernels, NEW args \in OperandsOf(k), Launch(k, args)
      PROVE StagingFits'
  BY <1>5, KernelsAssumption
  DEF Launch, Begin, Idle, Copies, callVars, memoryVars, deviceVars
<1>6. CASE Sync
  BY <1>6
  DEF Sync, Begin, Idle, callVars, memoryVars, deviceVars
<1>7. ASSUME NEW v \in Values, HostWrite(v) PROVE StagingFits'
  BY <1>7
  DEF HostWrite, Idle, callVars, memoryVars, deviceVars
<1>8. CASE CreateBuffer
  BY <1>8
  DEF CreateBuffer, At, CallFits, Copies, callVars, memoryVars, deviceVars
<1>9. CASE AllocateMemory
  BY <1>9
  DEF AllocateMemory, At, callVars, memoryVars, deviceVars
<1>10. ASSUME NEW v \in Values, BindMemory(v) PROVE StagingFits'
  BY <1>10
  DEF BindMemory, At, Return, Goto, TypeOK, CallFits, Owners, Maker, Copies, callVars,
      memoryVars, deviceVars
<1>11. CASE MakingFails
  BY <1>11
  DEF MakingFails, callVars, memoryVars, deviceVars
<1>12. CASE Fill
  BY <1>12
  DEF Fill, At, Goto, TypeOK, CallFits, Owners, Maker, Copies, callVars, memoryVars,
      deviceVars
<1>13. CASE Record
  BY <1>13
  DEF Record, UpdateDescriptorSets, At, Goto, CallFits, callVars, memoryVars, deviceVars
<1>14. CASE Submit
  BY <1>14, KernelsAssumption
  DEF Submit, At, Goto, CallFits, Copies, callVars, memoryVars, deviceVars
<1>15. CASE Wait
  BY <1>15, KernelsAssumption
  DEF Wait, At, Goto, Return, CallFits, Copies, callVars, memoryVars, deviceVars
<1>16. CASE Map
  BY <1>16
  DEF Map, At, Goto, CallFits, callVars, memoryVars, deviceVars
<1>17. CASE CopyOut
  BY <1>17
  DEF CopyOut, At, Return, CallFits, callVars, memoryVars, deviceVars
<1>18. CASE Drained
  BY <1>18
  DEF Drained, At, Return, callVars, memoryVars, deviceVars
<1>19. CASE MapFails
  BY <1>19
  DEF MapFails, Return, callVars, memoryVars, deviceVars
<1>20. CASE RecordFails
  BY <1>20
  DEF RecordFails, UpdateDescriptorSets, At, Return, callVars, memoryVars, deviceVars
<1>21. CASE SubmitFails
  BY <1>21
  DEF SubmitFails, At, Return, callVars, memoryVars, deviceVars
<1>22. CASE WaitFails
  BY <1>22
  DEF WaitFails, Return, callVars, memoryVars, deviceVars
<1>23. CASE DeviceRuns
  <2>1. pc = "wait" /\ pc' = pc /\ call' = call /\ host' = host /\ content' = Executed
    BY <1>23 DEF DeviceRuns, Flight
  <2>2. CASE call.op \in Kernels
    BY <2>1, <2>2, KernelsAssumption DEF Copies
  <2>3. CASE call.op = "write"
    <3>1. content' = [content EXCEPT ![call.tensor] = host] /\ call.tensor # Staging
      BY <1>23, <2>1, <2>3, RunsWhatIsAsked, KernelsAssumption, StagingAssumption
      DEF Asked, Copies, TypeOK, DeviceRuns
    <3> QED
      BY <2>1, <2>3, <3>1 DEF TypeOK, Owners
  <2>4. CASE call.op = "read"
    <3>1. content' = [content EXCEPT ![Staging] = content[call.tensor]] /\ call.tensor # Staging
      BY <1>23, <2>1, <2>4, RunsWhatIsAsked, StagingAssumption
      DEF Copies, TypeOK, DeviceRuns
    <3> QED
      BY <2>1, <2>4, <3>1 DEF TypeOK, Owners
  <2> QED
    BY <1>23, <2>2, <2>3, <2>4, RunsWhatIsAsked DEF DeviceRuns, Copies
<1>24. CASE DeviceLost
  BY <1>24
  DEF DeviceLost, callVars, memoryVars, deviceVars
<1>25. CASE SubmitUnreset
  BY <1>25 DEF SubmitUnreset
<1> QED
  BY <1>1, <1>2, <1>3, <1>4, <1>5, <1>6, <1>7, <1>8, <1>9, <1>10, <1>11, <1>12, <1>13,
     <1>14, <1>15, <1>16, <1>17, <1>18, <1>19, <1>20, <1>21, <1>22, <1>23, <1>24,
     <1>25
  DEF Next, Calls, HostStep

LEMMA EffectStep ==
  ASSUME TypeOK, CallFits, Recorded, Flight, StagingFits, Effect, [Next]_vars, ~unfenced'
  PROVE  Effect'
<1> USE DEF Effect
<1>1. CASE UNCHANGED vars
  BY <1>1 DEF vars, callVars, memoryVars, deviceVars
<1>2. ASSUME NEW t \in Tensors, MallocDevice(t) PROVE Effect'
  BY <1>2
  DEF MallocDevice, Begin, Idle, callVars, memoryVars, deviceVars
<1>3. ASSUME NEW t \in Tensors, FreeDevice(t) PROVE Effect'
  BY <1>3
  DEF FreeDevice, Idle, callVars, memoryVars, deviceVars
<1>4. ASSUME NEW t \in Tensors, NEW d \in Copies, Copy(d, t) PROVE Effect'
  BY <1>4
  DEF Copy, Begin, Idle, callVars, memoryVars, deviceVars
<1>5. ASSUME NEW k \in Kernels, NEW args \in OperandsOf(k), Launch(k, args) PROVE Effect'
  BY <1>5
  DEF Launch, Begin, Idle, callVars, memoryVars, deviceVars
<1>6. CASE Sync
  BY <1>6
  DEF Sync, Begin, Idle, callVars, memoryVars, deviceVars
<1>7. ASSUME NEW v \in Values, HostWrite(v) PROVE Effect'
  BY <1>7
  DEF HostWrite, Idle, callVars, memoryVars, deviceVars
<1>8. CASE CreateBuffer
  BY <1>8
  DEF CreateBuffer, At, callVars, memoryVars, deviceVars
<1>9. CASE AllocateMemory
  BY <1>9
  DEF AllocateMemory, At, callVars, memoryVars, deviceVars
<1>10. ASSUME NEW v \in Values, BindMemory(v) PROVE Effect'
  BY <1>10
  DEF BindMemory, At, Return, Goto, callVars, memoryVars, deviceVars
<1>11. CASE MakingFails
  BY <1>11
  DEF MakingFails, callVars, memoryVars, deviceVars
<1>12. CASE Fill
  BY <1>12
  DEF Fill, At, Goto, callVars, memoryVars, deviceVars
<1>13. CASE Record
  BY <1>13
  DEF Record, UpdateDescriptorSets, At, Goto, callVars, memoryVars, deviceVars
<1>14. CASE Submit
  BY <1>14
  DEF Submit, At, Goto, CallFits, callVars, memoryVars, deviceVars
<1>15. CASE Wait
  BY <1>15
  DEF Wait, At, Goto, Return, callVars, memoryVars, deviceVars
<1>16. CASE Map
  BY <1>16
  DEF Map, At, Goto, callVars, memoryVars, deviceVars
<1>17. CASE CopyOut
  BY <1>17
  DEF CopyOut, At, Return, callVars, memoryVars, deviceVars
<1>18. CASE Drained
  BY <1>18
  DEF Drained, At, Return, callVars, memoryVars, deviceVars
<1>19. CASE MapFails
  BY <1>19
  DEF MapFails, Return, callVars, memoryVars, deviceVars
<1>20. CASE RecordFails
  BY <1>20
  DEF RecordFails, UpdateDescriptorSets, At, Return, callVars, memoryVars, deviceVars
<1>21. CASE SubmitFails
  BY <1>21
  DEF SubmitFails, At, Return, callVars, memoryVars, deviceVars
<1>22. CASE WaitFails
  BY <1>22
  DEF WaitFails, Return, callVars, memoryVars, deviceVars
<1>23. CASE DeviceRuns
  <2>1. pc = "wait" /\ pc' = pc /\ call' = call /\ fence' = TRUE /\ in_flight' = FALSE
        /\ lost' = lost
    BY <1>23 DEF DeviceRuns, Flight
  <2>2. CASE call.op = "read"
    <3>1. ~done'
      BY <1>23, <2>1, <2>2, Zenon DEF DeviceRuns
    <3> QED
      BY <2>1, <2>2, <3>1
  <2>3. CASE call.op # "read"
    <3>1. done'
      BY <1>23, <2>3, RunsWhatIsAsked, Zenon DEF DeviceRuns
    <3> QED
      BY <2>1, <2>3, <3>1
  <2> QED
    BY <2>2, <2>3
<1>24. CASE DeviceLost
  BY <1>24
  DEF DeviceLost, Flight, callVars, memoryVars, deviceVars
<1>25. CASE SubmitUnreset
  BY <1>25 DEF SubmitUnreset
<1> QED
  BY <1>1, <1>2, <1>3, <1>4, <1>5, <1>6, <1>7, <1>8, <1>9, <1>10, <1>11, <1>12, <1>13,
     <1>14, <1>15, <1>16, <1>17, <1>18, <1>19, <1>20, <1>21, <1>22, <1>23, <1>24,
     <1>25
  DEF Next, Calls, HostStep

\* A fence that was not reset is not forgotten.
LEMMA UnfencedStays ==
  ASSUME unfenced, [Next]_vars
  PROVE  unfenced'
BY DEF Next, Calls, HostStep, MallocDevice, Copy, Launch, Sync, Begin, FreeDevice,
  HostWrite, CreateBuffer, AllocateMemory, BindMemory, MakingFails, Fill, Record, Submit,
  SubmitUnreset, Wait, Map, CopyOut, Drained, MapFails, RecordFails, SubmitFails,
  WaitFails, DeviceRuns, DeviceLost, vars, deviceVars

LEMMA Invariance ==
  ASSUME ~WaitsFail
  PROVE  Spec => []IInv
<1>1. Init => IInv
  <2> SUFFICES ASSUME Init PROVE IInv
    OBVIOUS
  <2>1. Flight /\ StagingFits /\ Effect
    BY DEF Init, Flight, StagingFits, Effect
  <2> QED
    BY <2>1, InitResidue DEF IInv, Fenced
<1>2. IInv /\ [Next]_vars => IInv'
  <2> SUFFICES ASSUME IInv, [Next]_vars PROVE IInv'
    OBVIOUS
  <2>1. Residue' /\ Recorded'
    BY ResidueStep, RecordedStep DEF IInv, Residue
  <2>2. ASSUME ~unfenced' PROVE Fenced'
    <3>1. ~unfenced
      BY <2>2, UnfencedStays
    <3>2. TypeOK /\ CallFits /\ Recorded /\ Flight /\ StagingFits /\ Effect
      BY <3>1 DEF IInv, Residue, Fenced
    <3> QED
      BY <2>2, <3>2, FlightStep, StagingFitsStep, EffectStep DEF Fenced
  <2> QED
    BY <2>1, <2>2 DEF IInv
<1> QED
  BY <1>1, <1>2, PTL DEF Spec

\* In a step that leaves a command in flight nothing moves at all.
LEMMA FlightIsStill ==
  ASSUME Flight, ~WaitsFail, in_flight, in_flight', [Next]_vars
  PROVE  UNCHANGED vars
<1>0. pc = "wait" /\ ~fence /\ ~lost
  BY DEF Flight
<1>1. CASE UNCHANGED vars
  BY <1>1 DEF vars, callVars, memoryVars, deviceVars
<1>2. ASSUME NEW t \in Tensors, MallocDevice(t) PROVE UNCHANGED vars
  BY <1>2, <1>0
  DEF MallocDevice, Begin, Idle, callVars, memoryVars, deviceVars
<1>3. ASSUME NEW t \in Tensors, FreeDevice(t) PROVE UNCHANGED vars
  BY <1>3, <1>0
  DEF FreeDevice, Idle, callVars, memoryVars, deviceVars
<1>4. ASSUME NEW t \in Tensors, NEW d \in Copies, Copy(d, t) PROVE UNCHANGED vars
  BY <1>4, <1>0
  DEF Copy, Begin, Idle, callVars, memoryVars, deviceVars
<1>5. ASSUME NEW k \in Kernels, NEW args \in OperandsOf(k), Launch(k, args)
      PROVE UNCHANGED vars
  BY <1>5, <1>0
  DEF Launch, Begin, Idle, callVars, memoryVars, deviceVars
<1>6. CASE Sync
  BY <1>6, <1>0
  DEF Sync, Begin, Idle, callVars, memoryVars, deviceVars
<1>7. ASSUME NEW v \in Values, HostWrite(v) PROVE UNCHANGED vars
  BY <1>7, <1>0
  DEF HostWrite, Idle, callVars, memoryVars, deviceVars
<1>8. CASE CreateBuffer
  BY <1>8, <1>0
  DEF CreateBuffer, At, callVars, memoryVars, deviceVars
<1>9. CASE AllocateMemory
  BY <1>9, <1>0
  DEF AllocateMemory, At, callVars, memoryVars, deviceVars
<1>10. ASSUME NEW v \in Values, BindMemory(v) PROVE UNCHANGED vars
  BY <1>10, <1>0
  DEF BindMemory, At, Return, Goto, callVars, memoryVars, deviceVars
<1>11. CASE MakingFails
  BY <1>11, <1>0
  DEF MakingFails, callVars, memoryVars, deviceVars
<1>12. CASE Fill
  BY <1>12, <1>0
  DEF Fill, At, Goto, callVars, memoryVars, deviceVars
<1>13. CASE Record
  BY <1>13, <1>0
  DEF Record, UpdateDescriptorSets, At, Goto, callVars, memoryVars, deviceVars
<1>14. CASE Submit
  BY <1>14, <1>0
  DEF Submit, At, Goto, callVars, memoryVars, deviceVars
<1>15. CASE Wait
  BY <1>15, <1>0
  DEF Wait, At, Goto, Return, callVars, memoryVars, deviceVars
<1>16. CASE Map
  BY <1>16, <1>0
  DEF Map, At, Goto, callVars, memoryVars, deviceVars
<1>17. CASE CopyOut
  BY <1>17, <1>0
  DEF CopyOut, At, Return, callVars, memoryVars, deviceVars
<1>18. CASE Drained
  BY <1>18, <1>0
  DEF Drained, At, Return, callVars, memoryVars, deviceVars
<1>19. CASE MapFails
  BY <1>19, <1>0
  DEF MapFails, Return, callVars, memoryVars, deviceVars
<1>20. CASE RecordFails
  BY <1>20, <1>0
  DEF RecordFails, UpdateDescriptorSets, At, Return, callVars, memoryVars, deviceVars
<1>21. CASE SubmitFails
  BY <1>21, <1>0
  DEF SubmitFails, At, Return, callVars, memoryVars, deviceVars
<1>22. CASE WaitFails
  BY <1>22, <1>0
  DEF WaitFails, Return, callVars, memoryVars, deviceVars
<1>23. CASE DeviceRuns
  BY <1>23, <1>0
  DEF DeviceRuns, callVars, memoryVars, deviceVars
<1>24. CASE DeviceLost
  BY <1>24, <1>0
  DEF DeviceLost, callVars, memoryVars, deviceVars
<1>25. CASE SubmitUnreset
  BY <1>25, <1>0 DEF SubmitUnreset, At
<1> QED
  BY <1>1, <1>2, <1>3, <1>4, <1>5, <1>6, <1>7, <1>8, <1>9, <1>10, <1>11, <1>12, <1>13,
     <1>14, <1>15, <1>16, <1>17, <1>18, <1>19, <1>20, <1>21, <1>22, <1>23, <1>24,
     <1>25
  DEF Next, Calls, HostStep

\* If a wait fails for the loss of the device only, nothing the device is working on
\* is, for as long as every fence was reset, recorded again, rebound, reset or destroyed.
THEOREM DeviceUndisturbedHolds ==
  ASSUME ~WaitsFail
  PROVE  Spec => DeviceUndisturbed
<1>1. ASSUME IInv, [Next]_vars, in_flight, in_flight', ~unfenced
      PROVE  /\ UNCHANGED <<cmd, fence>>
             /\ cmd.op \in Kernels => descriptor_set'[cmd.op] = descriptor_set[cmd.op]
             /\ \A o \in UsedInFlight : ObjectsOf(o) \subseteq live'
  <2>1. UNCHANGED <<cmd, fence, descriptor_set, live>>
    BY <1>1, FlightIsStill DEF IInv, Fenced, vars, memoryVars, deviceVars
  <2>2. /\ pc = "wait" /\ cmd = call /\ call.op \in Kernels \cup Copies
        /\ call.op \in Kernels => descriptor_set[call.op] = operands
    BY <1>1 DEF IInv, Residue, Fenced, Flight, Recorded, CallFits
  <2>3. \A o \in held : ObjectsOf(o) \subseteq live
    BY <1>1 DEF IInv, Residue, ObjectsFit, ObjectsOf
  <2>4. CASE call.op \in Kernels
    <3>1. UsedInFlight = {operands[i] : i \in 1 .. Arity[call.op]}
      BY <2>2, <2>4 DEF UsedInFlight
    <3>2. UsedInFlight \subseteq held
      BY <1>1, <2>2, <2>4, <3>1 DEF IInv, Residue, OperandsHeld, Idle
    <3> QED
      BY <2>1, <2>3, <3>2
  <2>5. CASE call.op \in Copies
    <3>1. UsedInFlight = {call.tensor, Staging} /\ call.tensor \in held
      BY <1>1, <2>2, <2>5, KernelsAssumption
      DEF UsedInFlight, IInv, Residue, OperandsHeld, Idle
    <3>2. Making = ObjectsOf(Staging)
      BY <2>2, <2>5, KernelsAssumption DEF Making, Maker, Copies
    <3>3. ObjectsOf(Staging) \subseteq live
      BY <1>1, <3>2 DEF IInv, Residue, ObjectsFit
    <3> QED
      BY <2>1, <2>3, <3>1, <3>3
  <2> QED
    BY <2>2, <2>4, <2>5
<1>2. IInv /\ [Next]_vars =>
        [(in_flight /\ in_flight' /\ ~unfenced) =>
           /\ UNCHANGED <<cmd, fence>>
           /\ cmd.op \in Kernels => descriptor_set'[cmd.op] = descriptor_set[cmd.op]
           /\ \A o \in UsedInFlight : ObjectsOf(o) \subseteq live']_vars
  BY <1>1
<1> QED
  BY <1>2, Invariance, PTL DEF Spec, DeviceUndisturbed

LEMMA HonestStep ==
  ASSUME Effect, Flight, ~WaitsFail, [Next]_vars, ~Idle, Idle'
  PROVE  IF result' = "ok" THEN done' ELSE ~done' \/ lost
<1> USE DEF Idle
<1>1. CASE UNCHANGED vars
  BY <1>1 DEF vars, callVars, memoryVars, deviceVars
<1>2. ASSUME NEW t \in Tensors, MallocDevice(t)
      PROVE IF result' = "ok" THEN done' ELSE ~done' \/ lost
  BY <1>2
  DEF MallocDevice, Begin, Idle, callVars, memoryVars, deviceVars
<1>3. ASSUME NEW t \in Tensors, FreeDevice(t)
      PROVE IF result' = "ok" THEN done' ELSE ~done' \/ lost
  BY <1>3
  DEF FreeDevice, Idle, callVars, memoryVars, deviceVars
<1>4. ASSUME NEW t \in Tensors, NEW d \in Copies, Copy(d, t)
      PROVE IF result' = "ok" THEN done' ELSE ~done' \/ lost
  BY <1>4
  DEF Copy, Begin, Idle, callVars, memoryVars, deviceVars
<1>5. ASSUME NEW k \in Kernels, NEW args \in OperandsOf(k), Launch(k, args)
      PROVE IF result' = "ok" THEN done' ELSE ~done' \/ lost
  BY <1>5
  DEF Launch, Begin, Idle, callVars, memoryVars, deviceVars
<1>6. CASE Sync
  BY <1>6
  DEF Sync, Begin, Idle, callVars, memoryVars, deviceVars
<1>7. ASSUME NEW v \in Values, HostWrite(v)
      PROVE IF result' = "ok" THEN done' ELSE ~done' \/ lost
  BY <1>7
  DEF HostWrite, Idle, callVars, memoryVars, deviceVars
<1>8. CASE CreateBuffer
  BY <1>8
  DEF CreateBuffer, At, callVars, memoryVars, deviceVars
<1>9. CASE AllocateMemory
  BY <1>9
  DEF AllocateMemory, At, callVars, memoryVars, deviceVars
<1>10. ASSUME NEW v \in Values, BindMemory(v)
       PROVE IF result' = "ok" THEN done' ELSE ~done' \/ lost
  BY <1>10
  DEF BindMemory, At, Return, Goto, Effect, callVars, memoryVars, deviceVars
<1>11. CASE MakingFails
  BY <1>11
  DEF MakingFails, Effect, callVars, memoryVars, deviceVars
<1>12. CASE Fill
  BY <1>12
  DEF Fill, At, Goto, callVars, memoryVars, deviceVars
<1>13. CASE Record
  BY <1>13
  DEF Record, UpdateDescriptorSets, At, Goto, callVars, memoryVars, deviceVars
<1>14. CASE Submit
  BY <1>14
  DEF Submit, At, Goto, callVars, memoryVars, deviceVars
<1>15. CASE Wait
  BY <1>15
  DEF Wait, At, Goto, Return, Effect, callVars, memoryVars, deviceVars
<1>16. CASE Map
  BY <1>16
  DEF Map, At, Goto, callVars, memoryVars, deviceVars
<1>17. CASE CopyOut
  BY <1>17
  DEF CopyOut, At, Return, callVars, memoryVars, deviceVars
<1>18. CASE Drained
  BY <1>18
  DEF Drained, At, Return, callVars, memoryVars, deviceVars
<1>19. CASE MapFails
  BY <1>19
  DEF MapFails, Return, Effect, callVars, memoryVars, deviceVars
<1>20. CASE RecordFails
  BY <1>20
  DEF RecordFails, UpdateDescriptorSets, At, Return, Effect, callVars, memoryVars,
      deviceVars
<1>21. CASE SubmitFails
  BY <1>21
  DEF SubmitFails, At, Return, Effect, callVars, memoryVars, deviceVars
<1>22. CASE WaitFails
  BY <1>22
  DEF WaitFails, Return, Effect, callVars, memoryVars, deviceVars
<1>23. CASE DeviceRuns
  BY <1>23
  DEF DeviceRuns, callVars, memoryVars, deviceVars
<1>24. CASE DeviceLost
  BY <1>24
  DEF DeviceLost, callVars, memoryVars, deviceVars
<1>25. CASE SubmitUnreset
  BY <1>25
  DEF SubmitUnreset, At, Goto, callVars, memoryVars, deviceVars
<1> QED
  BY <1>1, <1>2, <1>3, <1>4, <1>5, <1>6, <1>7, <1>8, <1>9, <1>10, <1>11, <1>12, <1>13,
     <1>14, <1>15, <1>16, <1>17, <1>18, <1>19, <1>20, <1>21, <1>22, <1>23, <1>24,
     <1>25
  DEF Next, Calls, HostStep

\* If a wait fails for the loss of the device only, then for as long as every fence
\* was reset success means that the call had its effect, and failure that it had not
\* unless the device is lost.
THEOREM ResultsHonestHolds ==
  ASSUME ~WaitsFail
  PROVE  Spec => ResultsHonest
<1>1. IInv /\ [Next]_vars =>
        [(~Idle /\ Idle' /\ ~unfenced) =>
           IF result' = "ok" THEN done' ELSE ~done' \/ lost]_vars
  BY HonestStep DEF IInv, Fenced
<1> QED
  BY <1>1, Invariance, PTL DEF Spec, ResultsHonest

-----------------------------------------------------------------------------
(***************************************************************************)
(* The refinement                                                          *)
(***************************************************************************)

Value == [t \in Tensors |-> IF t \in held THEN content[t] ELSE NoValue]
Awaited == IF pc = "copy_out" THEN content[Staging] ELSE NoValue

LEMMA ValueType ==
  ASSUME TypeOK
  PROVE  /\ \A t \in Tensors : content[t] \in Values /\ content[t] # NoValue
         /\ Device!Allocated = held
         /\ Device!Ready <=> pc # "copy_out"
<1>1. \A t \in Owners : content[t] \in Values /\ content[t] # NoValue
  BY NoValueAssumption DEF TypeOK
<1>2. Device!Allocated = held
  BY <1>1 DEF Device!Allocated, TypeOK, Owners
<1>3. Device!Ready <=> pc # "copy_out"
  BY <1>1 DEF Device!Ready, Owners
<1> QED
  BY <1>1, <1>2, <1>3 DEF Owners

\* A step that leaves the three alone is a stutter.
LEMMA Stutters ==
  ASSUME Value' = Value, Awaited' = Awaited, host' = host
  PROVE  UNCHANGED Device!vars
BY DEF Device!vars, Value, Awaited

LEMMA RefinementStep ==
  ASSUME IInv, ~WaitsFail, ~unfenced, [Next]_vars
  PROVE  [Device!Next]_(Device!vars)
<1>0. /\ TypeOK /\ TypeOK'
      /\ CallFits /\ OperandsHeld /\ Recorded /\ Flight /\ StagingFits
  BY TypeStep DEF IInv, Residue, Fenced
<1>1. CASE UNCHANGED vars
  <2>1. Value' = Value /\ Awaited' = Awaited /\ host' = host
    BY <1>1 DEF vars, memoryVars, Value, Awaited
  <2> QED
    BY <2>1, Stutters
<1>2. ASSUME NEW t \in Tensors, MallocDevice(t) PROVE [Device!Next]_(Device!vars)
  <2>1. Value' = Value /\ Awaited' = Awaited /\ host' = host
    BY <1>2, <1>0
    DEF MallocDevice, Begin, Idle, Value, Awaited, callVars, memoryVars, deviceVars
  <2> QED
    BY <2>1, Stutters
<1>3. ASSUME NEW t \in Tensors, FreeDevice(t) PROVE [Device!Next]_(Device!vars)
  <2>1. Value' = [Value EXCEPT ![t] = NoValue] /\ Awaited' = Awaited /\ host' = host
    BY <1>3, <1>0 DEF FreeDevice, Idle, Value, Awaited
  <2>2. Device!Deallocate(t)
    BY <1>3, <1>0, <2>1, ValueType DEF FreeDevice, Idle, Device!Deallocate, Value, Awaited
  <2> QED
    BY <2>2 DEF Device!Next
<1>4. ASSUME NEW t \in Tensors, NEW d \in Copies, Copy(d, t)
      PROVE [Device!Next]_(Device!vars)
  <2>1. Value' = Value /\ Awaited' = Awaited /\ host' = host
    BY <1>4, <1>0 DEF Copy, Begin, Idle, Value, Awaited, callVars, memoryVars, deviceVars
  <2> QED
    BY <2>1, Stutters
<1>5. ASSUME NEW k \in Kernels, NEW args \in OperandsOf(k), Launch(k, args)
      PROVE [Device!Next]_(Device!vars)
  <2>1. Value' = Value /\ Awaited' = Awaited /\ host' = host
    BY <1>5, <1>0
    DEF Launch, Begin, Idle, Value, Awaited, callVars, memoryVars, deviceVars
  <2> QED
    BY <2>1, Stutters
<1>6. CASE Sync
  <2>1. Value' = Value /\ Awaited' = Awaited /\ host' = host
    BY <1>6, <1>0 DEF Sync, Begin, Idle, Value, Awaited, callVars, memoryVars, deviceVars
  <2> QED
    BY <2>1, Stutters
<1>7. ASSUME NEW v \in Values, HostWrite(v) PROVE [Device!Next]_(Device!vars)
  <2>1. Value' = Value /\ Awaited' = Awaited
    BY <1>7 DEF HostWrite, Value, Awaited, memoryVars
  <2>2. Device!HostWrite(v)
    BY <1>7, <1>0, <2>1, ValueType DEF HostWrite, Idle, Device!HostWrite, Value, Awaited
  <2> QED
    BY <2>2 DEF Device!Next
<1>8. CASE CreateBuffer
  <2>1. Value' = Value /\ Awaited' = Awaited /\ host' = host
    BY <1>8, <1>0 DEF CreateBuffer, At, Value, Awaited, callVars, memoryVars, deviceVars
  <2> QED
    BY <2>1, Stutters
<1>9. CASE AllocateMemory
  <2>1. Value' = Value /\ Awaited' = Awaited /\ host' = host
    BY <1>9, <1>0 DEF AllocateMemory, At, Value, Awaited, callVars, memoryVars, deviceVars
  <2> QED
    BY <2>1, Stutters
<1>10. ASSUME NEW v \in Values, BindMemory(v) PROVE [Device!Next]_(Device!vars)
  <2>1. CASE call.op = "malloc"
    <3>1. call.tensor \in Tensors \ held /\ pc = "bind"
      BY <1>10, <1>0, <2>1 DEF BindMemory, At, OperandsHeld, Idle, TypeOK
    <3>2. Value' = [Value EXCEPT ![call.tensor] = v] /\ Awaited' = Awaited /\ host' = host
      BY <1>10, <1>0, <2>1, <3>1
      DEF BindMemory, At, Return, Maker, Value, Awaited, TypeOK, Owners
    <3>3. Device!Allocate(call.tensor, v)
      BY <1>0, <3>1, <3>2, ValueType DEF Device!Allocate, Value, Awaited
    <3> QED
      BY <3>1, <3>3 DEF Device!Next
  <2>2. CASE call.op # "malloc"
    <3>1. Value' = Value /\ Awaited' = Awaited /\ host' = host
      BY <1>10, <1>0, <2>2, StagingAssumption
      DEF BindMemory, At, Goto, Maker, Value, Awaited, TypeOK, Owners
    <3> QED
      BY <3>1, Stutters
  <2> QED
    BY <2>1, <2>2
<1>11. CASE MakingFails
  <2>1. Value' = Value /\ Awaited' = Awaited /\ host' = host
    BY <1>11, <1>0 DEF MakingFails, Value, Awaited, callVars, memoryVars, deviceVars
  <2> QED
    BY <2>1, Stutters
<1>12. CASE Fill
  <2>1. Value' = Value /\ Awaited' = Awaited /\ host' = host
    BY <1>12, <1>0, StagingAssumption
    DEF Fill, At, Goto, Value, Awaited, callVars, memoryVars, deviceVars
  <2> QED
    BY <2>1, Stutters
<1>13. CASE Record
  <2>1. Value' = Value /\ Awaited' = Awaited /\ host' = host
    BY <1>13, <1>0
    DEF Record, UpdateDescriptorSets, At, Goto, Value, Awaited, callVars, memoryVars,
        deviceVars
  <2> QED
    BY <2>1, Stutters
<1>14. CASE Submit
  <2>1. Value' = Value /\ Awaited' = Awaited /\ host' = host
    BY <1>14, <1>0 DEF Submit, At, Goto, Value, Awaited, callVars, memoryVars, deviceVars
  <2> QED
    BY <2>1, Stutters
<1>15. CASE Wait
  <2>1. Value' = Value /\ Awaited' = Awaited /\ host' = host
    BY <1>15, <1>0
    DEF Wait, At, Goto, Return, Value, Awaited, callVars, memoryVars, deviceVars
  <2> QED
    BY <2>1, Stutters
<1>16. CASE Map
  <2>1. call.tensor \in held /\ held \subseteq Tensors /\ content[Staging] = content[call.tensor]
    BY <1>16, <1>0 DEF Map, At, CallFits, OperandsHeld, Idle, Copies, StagingFits, TypeOK
  <2>2. Value' = Value /\ Awaited' = Value[call.tensor] /\ host' = host
    BY <1>16, <2>1 DEF Map, At, Goto, Value, Awaited
  <2>3. Device!Download(call.tensor)
    BY <1>16, <1>0, <2>1, <2>2, ValueType DEF Map, At, Device!Download, Value, Awaited
  <2> QED
    BY <2>1, <2>3 DEF Device!Next
<1>17. CASE CopyOut
  <2>1. Value' = Value /\ Awaited' = NoValue /\ host' = Awaited
    BY <1>17 DEF CopyOut, At, Return, Value, Awaited
  <2>2. Device!Downloaded
    BY <1>17, <1>0, <2>1, ValueType DEF CopyOut, At, Device!Downloaded, Value, Awaited
  <2> QED
    BY <2>2 DEF Device!Next
<1>18. CASE Drained
  <2>1. Value' = Value /\ Awaited' = Awaited /\ host' = host
    BY <1>18, <1>0
    DEF Drained, At, Return, Value, Awaited, callVars, memoryVars, deviceVars
  <2> QED
    BY <2>1, Stutters
<1>19. CASE MapFails
  <2>1. Value' = Value /\ Awaited' = Awaited /\ host' = host
    BY <1>19, <1>0 DEF MapFails, Return, Value, Awaited, callVars, memoryVars, deviceVars
  <2> QED
    BY <2>1, Stutters
<1>20. CASE RecordFails
  <2>1. Value' = Value /\ Awaited' = Awaited /\ host' = host
    BY <1>20, <1>0
    DEF RecordFails, UpdateDescriptorSets, At, Return, Value, Awaited, callVars,
        memoryVars, deviceVars
  <2> QED
    BY <2>1, Stutters
<1>21. CASE SubmitFails
  <2>1. Value' = Value /\ Awaited' = Awaited /\ host' = host
    BY <1>21, <1>0
    DEF SubmitFails, At, Return, Value, Awaited, callVars, memoryVars, deviceVars
  <2> QED
    BY <2>1, Stutters
<1>22. CASE WaitFails
  <2>1. Value' = Value /\ Awaited' = Awaited /\ host' = host
    BY <1>22, <1>0 DEF WaitFails, Return, Value, Awaited, callVars, memoryVars, deviceVars
  <2> QED
    BY <2>1, Stutters
<1>23. CASE DeviceRuns
  <2>1. /\ pc = "wait" /\ pc' = pc /\ held' = held /\ host' = host /\ content' = Executed
        /\ in_flight /\ held \subseteq Tensors /\ Awaited' = Awaited
    BY <1>23, <1>0 DEF DeviceRuns, Flight, TypeOK, Awaited
  <2>2. CASE call.op \in Kernels
    <3>1. /\ operands \in OperandsOf(call.op) /\ Output[call.op] \in 1 .. Arity[call.op]
          /\ \A i \in 1 .. Arity[call.op] : operands[i] \in held
      BY <1>0, <2>1, <2>2, KernelsAssumption DEF TypeOK, OperandsHeld, Idle
    <3>2. content' = [content EXCEPT ![operands[Output[call.op]]] =
                        Compute(call.op, [i \in 1 .. Arity[call.op] |-> content[operands[i]]])]
      BY <1>0, <2>1, <2>2, RunsWhatIsAsked, KernelsAssumption DEF Asked, Copies
    <3>3. [i \in 1 .. Arity[call.op] |-> content[operands[i]]]
            = [i \in 1 .. Arity[call.op] |-> Value[operands[i]]]
      BY <2>1, <3>1 DEF Value
    <3>4. Value' = [Value EXCEPT ![operands[Output[call.op]]] =
                      Compute(call.op, [i \in 1 .. Arity[call.op] |-> Value[operands[i]]])]
      <4> DEFINE out == operands[Output[call.op]]
                 res == Compute(call.op, [i \in 1 .. Arity[call.op] |-> content[operands[i]]])
      <4>1. out \in held /\ content' = [content EXCEPT ![out] = res]
        BY <3>1, <3>2
      <4> HIDE DEF out, res
      <4>2. Value' = [Value EXCEPT ![out] = res]
        BY <1>0, <2>1, <4>1 DEF Value, TypeOK, Owners
      <4> QED
        BY <3>3, <4>2 DEF out, res
    <3>5. PICK k \in Kernels : k = call.op
      BY <2>2
    <3>6. PICK args \in OperandsOf(k) : args = operands
      BY <3>1, <3>5
    <3>7. Device!Launch(k, args)
      BY <1>0, <2>1, <3>1, <3>4, <3>5, <3>6, ValueType DEF Device!Launch, Value, Awaited
    <3> QED
      BY <3>7 DEF Device!Next, OperandsOf
  <2>3. CASE call.op = "write"
    <3>1. call.tensor \in held
      BY <1>0, <2>1, <2>3 DEF OperandsHeld, Idle, Copies
    <3>2. content' = [content EXCEPT ![call.tensor] = host]
      BY <1>0, <2>1, <2>3, RunsWhatIsAsked, KernelsAssumption DEF Asked, Copies
    <3>3. Value' = [Value EXCEPT ![call.tensor] = host]
      BY <1>0, <2>1, <3>1, <3>2 DEF Value, TypeOK, Owners
    <3>4. PICK t \in Tensors : t = call.tensor
      BY <2>1, <3>1
    <3>5. Device!Upload(t)
      BY <1>0, <2>1, <3>1, <3>3, <3>4, ValueType DEF Device!Upload, Value, Awaited
    <3> QED
      BY <3>5 DEF Device!Next
  <2>4. CASE call.op = "read"
    <3>1. content' = [content EXCEPT ![Staging] = content[call.tensor]]
      BY <1>0, <2>1, <2>4, RunsWhatIsAsked
    <3>2. Value' = Value
      BY <1>0, <2>1, <3>1, StagingAssumption DEF Value, TypeOK, Owners
    <3> QED
      BY <2>1, <3>2, Stutters
  <2> QED
    BY <1>0, <2>1, <2>2, <2>3, <2>4, RunsWhatIsAsked DEF Copies
<1>24. CASE DeviceLost
  <2>1. Value' = Value /\ Awaited' = Awaited /\ host' = host
    BY <1>24, <1>0 DEF DeviceLost, Value, Awaited, callVars, memoryVars, deviceVars
  <2> QED
    BY <2>1, Stutters
<1>25. CASE SubmitUnreset
  <2>1. Value' = Value /\ Awaited' = Awaited /\ host' = host
    BY <1>25, <1>0 DEF SubmitUnreset, At, Goto, Value, Awaited
  <2> QED
    BY <2>1, Stutters
<1> QED
  BY <1>1, <1>2, <1>3, <1>4, <1>5, <1>6, <1>7, <1>8, <1>9, <1>10, <1>11, <1>12, <1>13,
     <1>14, <1>15, <1>16, <1>17, <1>18, <1>19, <1>20, <1>21, <1>22, <1>23, <1>24,
     <1>25
  DEF Next, Calls, HostStep

\* If a wait fails for the loss of the device only, a client cannot tell the backend
\* from a device that does everything at once, for as long as every fence was reset.
THEOREM Refinement ==
  ASSUME ~WaitsFail
  PROVE  Spec => ImplementsSyncDevice
<1>1. Init => Device!Init
  BY DEF Init, Device!Init
<1>2. IInv /\ [Next]_vars => [unfenced \/ Device!Next]_(Device!vars)
  BY RefinementStep
<1> QED
  BY <1>1, <1>2, Invariance, PTL DEF Spec, ImplementsSyncDevice

-----------------------------------------------------------------------------
(***************************************************************************)
(* Calls come to an end, whichever of the Vulkan calls fail                *)
(***************************************************************************)

\* The Vulkan calls left from a place on, at most.
PlacesFrom(place) ==
  CASE place = "create" -> 9
    [] place = "allocate" -> 8
    [] place = "bind" -> 7
    [] place = "fill" -> 6
    [] place = "record" -> 5
    [] place = "submit" -> 4
    [] place = "wait" -> 3
    [] place = "map" -> 2
    [] place = "copy_out" -> 1
    [] place = "drain" -> 1
    [] place = "idle" -> 0

PlacesLeft == PlacesFrom(pc)

\* How many more steps the host thread and the device can make before the call in
\* progress is over; a submission gives the device one to make.
StepsLeft ==
  2 * PlacesLeft + (IF in_flight THEN 1 ELSE 0) + (IF lost THEN 0 ELSE 1)

\* A call in progress makes no step for nothing, and never more than twenty.
CallsProgress == [][~Idle => StepsLeft' < StepsLeft]_vars
StepsBounded == StepsLeft \in 0 .. 20

\* Whoever waits for the fence finds it signaled, or has a device that will signal
\* it, or one that is lost.
NeverStuck == pc = "wait" => fence \/ in_flight \/ lost

LEMMA Places ==
  /\ PlacesFrom("create") = 9 /\ PlacesFrom("allocate") = 8 /\ PlacesFrom("bind") = 7
  /\ PlacesFrom("fill") = 6 /\ PlacesFrom("record") = 5 /\ PlacesFrom("submit") = 4
  /\ PlacesFrom("wait") = 3 /\ PlacesFrom("map") = 2 /\ PlacesFrom("copy_out") = 1
  /\ PlacesFrom("drain") = 1 /\ PlacesFrom("idle") = 0
BY DEF PlacesFrom

LEMMA PlacesType ==
  ASSUME TypeOK
  PROVE  PlacesLeft \in 0 .. 9 /\ (pc # "idle" => PlacesLeft >= 1)
BY Places DEF TypeOK, PlacesLeft

\* Leaving a call, from wherever, leaves no step to make.
LEMMA LastPlace ==
  ASSUME TypeOK, pc # "idle", pc' = "idle"
  PROVE  PlacesLeft' = 0 /\ PlacesLeft' < PlacesLeft
<1>1. PlacesLeft' = 0
  BY Places DEF PlacesLeft
<1> QED
  BY <1>1, PlacesType

\* Each of the host's steps is made at an earlier place than the next.
LEMMA PlacesDecrease ==
  ASSUME TypeOK, HostStep
  PROVE  PlacesLeft' \in Nat /\ PlacesLeft' < PlacesLeft
<1>1. CASE CreateBuffer
  <2>1. pc = "create" /\ pc' = "allocate"
    BY <1>1 DEF CreateBuffer, At, Goto
  <2> QED
    BY <2>1, Places DEF PlacesLeft
<1>2. CASE AllocateMemory
  <2>1. pc = "allocate" /\ pc' = "bind"
    BY <1>2 DEF AllocateMemory, At, Goto
  <2> QED
    BY <2>1, Places DEF PlacesLeft
<1>3. CASE \E v \in Values : BindMemory(v)
  <2>0. PICK v \in Values : BindMemory(v)
    BY <1>3
  <2>1. pc = "bind" /\ pc' \in {"fill", "record", "idle"}
    BY <2>0 DEF BindMemory, At, Goto, Return
  <2> QED
    BY <2>1, Places DEF PlacesLeft
<1>4. CASE Fill
  <2>1. pc = "fill" /\ pc' = "record"
    BY <1>4 DEF Fill, At, Goto
  <2> QED
    BY <2>1, Places DEF PlacesLeft
<1>5. CASE Record
  <2>1. pc = "record" /\ pc' = "submit"
    BY <1>5 DEF Record, At, Goto
  <2> QED
    BY <2>1, Places DEF PlacesLeft
<1>6. CASE Submit \/ SubmitUnreset
  <2>1. pc = "submit" /\ pc' = "wait"
    BY <1>6 DEF Submit, SubmitUnreset, At, Goto
  <2> QED
    BY <2>1, Places DEF PlacesLeft
<1>7. CASE Wait
  <2>1. pc = "wait" /\ pc' \in {"map", "idle"}
    BY <1>7 DEF Wait, At, Goto, Return
  <2> QED
    BY <2>1, Places DEF PlacesLeft
<1>8. CASE Map
  <2>1. pc = "map" /\ pc' = "copy_out"
    BY <1>8 DEF Map, At, Goto
  <2> QED
    BY <2>1, Places DEF PlacesLeft
<1>9. CASE MakingFails \/ CopyOut \/ Drained \/ MapFails \/ RecordFails \/ SubmitFails
           \/ WaitFails
  <2>1. pc # "idle" /\ pc' = "idle"
    BY <1>9 DEF MakingFails, CopyOut, Drained, MapFails, RecordFails, SubmitFails,
      WaitFails, At, Return
  <2> QED
    BY <2>1, LastPlace
<1> QED
  BY <1>1, <1>2, <1>3, <1>4, <1>5, <1>6, <1>7, <1>8, <1>9 DEF HostStep

\* A place fewer outweighs a submission more.
LEMMA FewerPlaces ==
  ASSUME NEW p \in Nat, NEW q \in Nat, q < p, NEW f \in 0 .. 1, NEW g \in 0 .. 1,
         NEW l \in 0 .. 1
  PROVE  2 * q + g + l < 2 * p + f + l
OBVIOUS

LEMMA HostProgress ==
  ASSUME TypeOK, HostStep
  PROVE  StepsLeft' < StepsLeft
<1> DEFINE flight == IF in_flight THEN 1 ELSE 0
           loss == IF lost THEN 0 ELSE 1
<1>1. PlacesLeft \in Nat /\ PlacesLeft' \in Nat /\ PlacesLeft' < PlacesLeft
  BY PlacesType, PlacesDecrease
<1>2. lost' = lost
  BY DEF HostStep, CreateBuffer, AllocateMemory, BindMemory, MakingFails, Fill, Record,
    Submit, SubmitUnreset, Wait, Map, CopyOut, Drained, MapFails, RecordFails, SubmitFails,
    WaitFails, deviceVars
<1>3. Submit \/ SubmitUnreset \/ in_flight' = in_flight
  BY DEF HostStep, CreateBuffer, AllocateMemory, BindMemory, MakingFails, Fill, Record,
    Wait, Map, CopyOut, Drained, MapFails, RecordFails, SubmitFails, WaitFails, deviceVars
<1>4. flight \in 0 .. 1 /\ flight' \in 0 .. 1 /\ loss \in 0 .. 1 /\ loss' = loss
  BY <1>2
<1>5. StepsLeft = 2 * PlacesLeft + flight + loss
  BY DEF StepsLeft
<1>6. StepsLeft' = 2 * PlacesLeft' + flight' + loss'
  BY DEF StepsLeft
<1> HIDE DEF flight, loss
<1>7. 2 * PlacesLeft' + flight' + loss < 2 * PlacesLeft + flight + loss
  BY <1>1, <1>4, FewerPlaces
<1> QED
  BY <1>4, <1>5, <1>6, <1>7, Zenon

\* The finite half of CallsReturn: nobody waits for a fence that nothing will
\* signal, and every step made during a call brings its end nearer.
THEOREM CallsEnd == Spec => CallsProgress /\ []StepsBounded /\ []NeverStuck
<1>1. ASSUME Residue, [Next]_vars, ~Idle, ~UNCHANGED vars
      PROVE  StepsLeft' < StepsLeft
  <2>1. HostStep \/ DeviceRuns \/ DeviceLost
    BY <1>1 DEF Next, Calls, MallocDevice, FreeDevice, Copy, Launch, Sync, HostWrite, Begin
  <2>2. CASE HostStep
    BY <1>1, <2>2, HostProgress DEF Residue
  <2>3. CASE DeviceRuns \/ DeviceLost
    <3>1. PlacesLeft' = PlacesLeft /\ PlacesLeft \in 0 .. 9
      BY <1>1, <2>3, PlacesType DEF Residue, DeviceRuns, DeviceLost, callVars, PlacesLeft
    <3>2. \/ in_flight /\ ~in_flight' /\ UNCHANGED lost
          \/ ~lost /\ lost' /\ ~in_flight'
      BY <2>3 DEF DeviceRuns, DeviceLost
    <3> QED
      BY <3>1, <3>2 DEF StepsLeft
  <2> QED
    BY <2>1, <2>2, <2>3
<1>2. Residue /\ [Next]_vars => [~Idle => StepsLeft' < StepsLeft]_vars
  BY <1>1
<1>3. Residue => StepsBounded
  BY PlacesType DEF Residue, StepsBounded, StepsLeft
<1>4. Init => Residue /\ NeverStuck
  BY InitResidue DEF Init, NeverStuck
<1>5. Residue /\ [Next]_vars => Residue'
  BY ResidueStep
<1>6. NeverStuck /\ [Next]_vars => NeverStuck'
  <2> SUFFICES ASSUME NeverStuck, [Next]_vars PROVE NeverStuck'
    OBVIOUS
  <2>1. CASE Submit \/ SubmitUnreset
    BY <2>1 DEF Submit, SubmitUnreset, NeverStuck
  <2>2. CASE DeviceRuns \/ DeviceLost
    BY <2>2 DEF DeviceRuns, DeviceLost, NeverStuck
  <2>3. CASE UNCHANGED vars
    BY <2>3 DEF vars, deviceVars, NeverStuck
  <2>4. ASSUME pc' # "wait" PROVE NeverStuck'
    BY <2>4 DEF NeverStuck
  <2>5. CASE HostStep /\ ~Submit /\ ~SubmitUnreset
    BY <2>4, <2>5 DEF HostStep, CreateBuffer, AllocateMemory, BindMemory, MakingFails, Fill,
      Record, Wait, Map, CopyOut, Drained, MapFails, RecordFails, SubmitFails, WaitFails,
      At, Goto, Return
  <2>6. CASE Calls
    BY <2>4, <2>6 DEF Calls, MallocDevice, FreeDevice, Copy, Launch, Sync, HostWrite, Begin,
      Idle
  <2> QED
    BY <2>1, <2>2, <2>3, <2>5, <2>6 DEF Next
<1> QED
  BY <1>2, <1>3, <1>4, <1>5, <1>6, PTL DEF Spec, CallsProgress

=============================================================================
