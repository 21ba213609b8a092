---------------------------- MODULE TensorMirror ----------------------------
(***************************************************************************)
(* GpuBridgeTensorMirror: a host array and a device tensor that stand for  *)
(* one array, two validity flags, and copies made only when a side that is *)
(* asked for is stale.  The tensor lies in a block that the pool hands on. *)
(*                                                                         *)
(* The client follows gpubridge_runtime.h: it makes a side current before  *)
(* it reads it or changes part of it, marks what it wrote before it asks   *)
(* for a side again, gives the descriptor to the mirror and frees it       *)
(* through the mirror only.  A copy may fail with any part of it done.     *)
(***************************************************************************)
EXTENDS Naturals, FiniteSets

CONSTANTS
  Mirrors,   (* The client's GpuBridgeTensorMirror variables.               *)
  Blocks,    (* Device memory.                                              *)
  NoBlock,
  Cells,     (* The positions of an array,                                  *)
  Values,    (* and what each of them holds.                                *)
  NoArray,
  MaxMarks   (* Bound: mirrors created, and marks set, on either side.      *)

Arrays == [Cells -> Values]

ASSUME MirrorsAssumption == IsFiniteSet(Mirrors)
ASSUME NoBlockAssumption == NoBlock \notin Blocks
ASSUME NoArrayAssumption == NoArray \notin Arrays
ASSUME BoundAssumption == MaxMarks \in Nat

VARIABLES
  tensor,        (* mirror->tensor.device_ptr, NoBlock if not resident      *)
  host_valid,
  device_valid,
  host,          (* the client's array behind mirror->host_ptr              *)
  content,       (* what the blocks hold                                    *)
  pooled,        (* the blocks nobody holds                                 *)
  unmarked,      (* the side the client wrote and has not marked yet        *)
  copies,        (* g_profile.host_to_device_count and device_to_host_count *)
  changes,       (* the occasions there were for a copy in each direction   *)
  seen           (* what the client, or a kernel, read last                 *)

vars == <<tensor, host_valid, device_valid, host, content, pooled, unmarked,
          copies, changes, seen>>

Directions == {"to_device", "to_host"}
Bound == {m \in Mirrors : tensor[m] # NoBlock}

TypeOK ==
  /\ tensor \in [Mirrors -> Blocks \cup {NoBlock}]
  /\ host_valid \in [Mirrors -> BOOLEAN]
  /\ device_valid \in [Mirrors -> BOOLEAN]
  /\ host \in [Mirrors -> Arrays]
  /\ content \in [Blocks -> Arrays]
  /\ pooled \in SUBSET Blocks
  /\ unmarked \in [Mirrors -> {"none", "host", "device"}]
  /\ copies \in [Directions -> Nat]
  /\ changes \in [Directions -> Nat]
  /\ seen \in Arrays \cup {NoArray}

Init ==
  /\ tensor = [m \in Mirrors |-> NoBlock]
  /\ host_valid = [m \in Mirrors |-> FALSE]
  /\ device_valid = [m \in Mirrors |-> FALSE]
  /\ host \in [Mirrors -> Arrays]
  /\ content \in [Blocks -> Arrays]
  /\ pooled = Blocks
  /\ unmarked = [m \in Mirrors |-> "none"]
  /\ copies = [d \in Directions |-> 0]
  /\ changes = [d \in Directions |-> 0]
  /\ seen = NoArray

-----------------------------------------------------------------------------
(***************************************************************************)
(* The six operations                                                      *)
(***************************************************************************)

SetFlags(m, on_host, on_device) ==
  /\ host_valid' = [host_valid EXCEPT ![m] = on_host]
  /\ device_valid' = [device_valid EXCEPT ![m] = on_device]

CountChange(d) ==
  /\ changes[d] < MaxMarks
  /\ changes' = [changes EXCEPT ![d] = @ + 1]

\* Mutant of MirrorCreate: the side that was just allocated counts as current.
MirrorCreateBothValid(m, b) ==
  /\ m \notin Bound
  /\ b \in pooled
  /\ pooled' = pooled \ {b}
  /\ tensor' = [tensor EXCEPT ![m] = b]
  /\ SetFlags(m, TRUE, TRUE)
  /\ CountChange("to_device")
  /\ UNCHANGED <<host, content, unmarked, copies, seen>>

\* gpuBridgeTensorAlloc() returns block b, with whatever its last holder left in
\* it, and gpuBridgeTensorMirrorCreate() binds it.
MirrorCreate(m, b) ==
  /\ m \notin Bound
  /\ b \in pooled
  /\ pooled' = pooled \ {b}
  /\ tensor' = [tensor EXCEPT ![m] = b]
  /\ SetFlags(m, TRUE, FALSE)
  /\ CountChange("to_device")
  /\ UNCHANGED <<host, content, unmarked, copies, seen>>

\* Mutant of MirrorDestroy: the descriptor is cleared before its block is freed.
MirrorDestroyClearsFirst(m) ==
  /\ tensor' = [tensor EXCEPT ![m] = NoBlock]
  /\ pooled' = IF m \in Bound THEN pooled \cup {tensor'[m]} ELSE pooled
  /\ SetFlags(m, FALSE, FALSE)
  /\ unmarked' = [unmarked EXCEPT ![m] = "none"]
  /\ UNCHANGED <<host, content, copies, changes, seen>>

\* gpuBridgeTensorMirrorDestroy(), also of a mirror destroyed before.
MirrorDestroy(m) ==
  /\ pooled' = IF m \in Bound THEN pooled \cup {tensor[m]} ELSE pooled
  /\ tensor' = [tensor EXCEPT ![m] = NoBlock]
  /\ SetFlags(m, FALSE, FALSE)
  /\ unmarked' = [unmarked EXCEPT ![m] = "none"]
  /\ UNCHANGED <<host, content, copies, changes, seen>>

\* The array left at the destination after the cells of part were copied.
Copied(from, to, part) == [c \in Cells |-> IF c \in part THEN from[c] ELSE to[c]]

\* Mutant of EnsureDeviceCurrent: the flag is not looked at.
EnsureDeviceAlways(m) ==
  /\ m \in Bound
  /\ unmarked[m] = "none"
  /\ content' = [content EXCEPT ![tensor[m]] = host[m]]
  /\ device_valid' = [device_valid EXCEPT ![m] = TRUE]
  /\ copies' = [copies EXCEPT !["to_device"] = @ + 1]
  /\ UNCHANGED <<tensor, host_valid, host, pooled, unmarked, changes, seen>>

\* gpuBridgeTensorEnsureDeviceCurrent() that succeeds.  With the side current
\* already it does nothing.
EnsureDeviceCurrent(m) ==
  /\ m \in Bound
  /\ unmarked[m] = "none"
  /\ ~device_valid[m]
  /\ content' = [content EXCEPT ![tensor[m]] = host[m]]
  /\ device_valid' = [device_valid EXCEPT ![m] = TRUE]
  /\ copies' = [copies EXCEPT !["to_device"] = @ + 1]
  /\ UNCHANGED <<tensor, host_valid, host, pooled, unmarked, changes, seen>>

\* Its copy fails.
EnsureDeviceFails(m, part) ==
  /\ m \in Bound
  /\ unmarked[m] = "none"
  /\ ~device_valid[m]
  /\ content' = [content EXCEPT ![tensor[m]] = Copied(host[m], @, part)]
  /\ UNCHANGED <<tensor, host_valid, device_valid, host, pooled, unmarked,
                 copies, changes, seen>>

\* gpuBridgeTensorEnsureHostCurrent() that succeeds.
EnsureHostCurrent(m) ==
  /\ m \in Bound
  /\ unmarked[m] = "none"
  /\ ~host_valid[m]
  /\ host' = [host EXCEPT ![m] = content[tensor[m]]]
  /\ host_valid' = [host_valid EXCEPT ![m] = TRUE]
  /\ copies' = [copies EXCEPT !["to_host"] = @ + 1]
  /\ UNCHANGED <<tensor, device_valid, content, pooled, unmarked, changes, seen>>

\* Its copy fails.
EnsureHostFails(m, part) ==
  /\ m \in Bound
  /\ unmarked[m] = "none"
  /\ ~host_valid[m]
  /\ host' = [host EXCEPT ![m] = Copied(content[tensor[m]], @, part)]
  /\ UNCHANGED <<tensor, host_valid, device_valid, content, pooled, unmarked,
                 copies, changes, seen>>

\* gpuBridgeTensorMarkHostModified(), of a side that was written or is current.
MarkHostModified(m) ==
  /\ m \in Bound
  /\ unmarked[m] = "host" \/ (unmarked[m] = "none" /\ host_valid[m])
  /\ SetFlags(m, TRUE, FALSE)
  /\ unmarked' = [unmarked EXCEPT ![m] = "none"]
  /\ CountChange("to_device")
  /\ UNCHANGED <<tensor, host, content, pooled, copies, seen>>

\* gpuBridgeTensorMarkDeviceModified()
MarkDeviceModified(m) ==
  /\ m \in Bound
  /\ unmarked[m] = "device" \/ (unmarked[m] = "none" /\ device_valid[m])
  /\ SetFlags(m, FALSE, TRUE)
  /\ unmarked' = [unmarked EXCEPT ![m] = "none"]
  /\ CountChange("to_host")
  /\ UNCHANGED <<tensor, host, content, pooled, copies, seen>>

-----------------------------------------------------------------------------
(***************************************************************************)
(* The client and its kernels                                              *)
(***************************************************************************)

HostCurrent(m) == m \in Bound /\ unmarked[m] = "none" /\ host_valid[m]
DeviceCurrent(m) == m \in Bound /\ unmarked[m] = "none" /\ device_valid[m]

HostWrites(m, a) ==
  /\ host' = [host EXCEPT ![m] = a]
  /\ unmarked' = [unmarked EXCEPT ![m] = "host"]
  /\ UNCHANGED <<tensor, host_valid, device_valid, content, pooled, copies,
                 changes, seen>>

\* Part of the client's array is written: the rest had to be current.
HostWriteCell(m, c, v) == HostCurrent(m) /\ HostWrites(m, [host[m] EXCEPT ![c] = v])

\* All of it is.
HostOverwrite(m, a) ==
  /\ m \in Bound
  /\ unmarked[m] = "none"
  /\ HostWrites(m, a)

DeviceWrites(m, a) ==
  /\ content' = [content EXCEPT ![tensor[m]] = a]
  /\ unmarked' = [unmarked EXCEPT ![m] = "device"]
  /\ UNCHANGED <<tensor, host_valid, device_valid, host, pooled, copies,
                 changes, seen>>

\* A kernel works in place on the tensor.
KernelInPlace(m, c, v) ==
  DeviceCurrent(m) /\ DeviceWrites(m, [content[tensor[m]] EXCEPT ![c] = v])

\* A kernel has it as output only.
KernelOutput(m, a) ==
  /\ m \in Bound
  /\ unmarked[m] = "none"
  /\ DeviceWrites(m, a)

HostRead(m) ==
  /\ HostCurrent(m)
  /\ seen' = host[m]
  /\ UNCHANGED <<tensor, host_valid, device_valid, host, content, pooled,
                 unmarked, copies, changes>>

\* A kernel reads the tensor.
KernelRead(m) ==
  /\ DeviceCurrent(m)
  /\ seen' = content[tensor[m]]
  /\ UNCHANGED <<tensor, host_valid, device_valid, host, content, pooled,
                 unmarked, copies, changes>>

-----------------------------------------------------------------------------
Next ==
  \E m \in Mirrors :
    \/ \E b \in Blocks : MirrorCreate(m, b)
    \/ MirrorDestroy(m)
    \/ EnsureDeviceCurrent(m) \/ EnsureHostCurrent(m)
    \/ \E part \in SUBSET Cells : EnsureDeviceFails(m, part) \/ EnsureHostFails(m, part)
    \/ MarkHostModified(m) \/ MarkDeviceModified(m)
    \/ \E c \in Cells, v \in Values : HostWriteCell(m, c, v) \/ KernelInPlace(m, c, v)
    \/ \E a \in Arrays : HostOverwrite(m, a) \/ KernelOutput(m, a)
    \/ HostRead(m) \/ KernelRead(m)

Spec == Init /\ [][Next]_vars

-----------------------------------------------------------------------------
(***************************************************************************)
(* Properties                                                              *)
(***************************************************************************)

\* The side that was written last.
Latest(m) ==
  IF unmarked[m] = "host" \/ (unmarked[m] = "none" /\ host_valid[m])
    THEN host[m] ELSE content[tensor[m]]

Array ==
  INSTANCE MirroredArray WITH
    value <- [m \in Mirrors |-> IF m \in Bound THEN Latest(m) ELSE NoArray]

\* To a client that follows the header the two sides are one array: what either
\* reads is what either wrote last, although copies are made late, fail with part
\* of the data moved, and the block is recycled between mirrors with its old
\* content in it (gpubridge_runtime.c, the six mirror functions).
ImplementsMirroredArray == Array!Spec

\* Transfers are lazy: there are never more of them, in either direction, than
\* occasions on which the other side was written or the mirror was created.
LazyTransfers == \A d \in Directions : copies[d] <= changes[d]

=============================================================================
