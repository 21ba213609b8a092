----------------------------- MODULE DeviceStore -----------------------------
(***************************************************************************)
(* What the runtime's memory calls promise a client, without a pool, a     *)
(* heap or a profile: while a backend is in session each tensor and each   *)
(* raw buffer has a block to itself until it is freed.                     *)
(***************************************************************************)
CONSTANTS Tensors, Ptrs, Sizes, Backends, NoBackend

VARIABLES
  backend,  (* the backend in session, or NoBackend  *)
  held,     (* the block of each tensor: none or one *)
  buffers   (* the addresses of raw buffers          *)

vars == <<backend, held, buffers>>

Blocks == [ptr : Ptrs, bytes : Sizes]

Init ==
  /\ backend = NoBackend
  /\ held = [t \in Tensors |-> {}]
  /\ buffers = {}

\* The addresses nobody holds.
Available(p) ==
  /\ p \notin buffers
  /\ \A t \in Tensors : \A block \in held[t] : block.ptr # p

\* A session begins, ends, or gives way to another.
Switch(b) ==
  /\ held = [t \in Tensors |-> {}]
  /\ buffers = {}
  /\ backend' = b
  /\ UNCHANGED <<held, buffers>>

Allocate(t, block) ==
  /\ backend # NoBackend
  /\ held[t] = {}
  /\ Available(block.ptr)
  /\ held' = [held EXCEPT ![t] = {block}]
  /\ UNCHANGED <<backend, buffers>>

Deallocate(t) ==
  /\ backend # NoBackend
  /\ held[t] # {}
  /\ held' = [held EXCEPT ![t] = {}]
  /\ UNCHANGED <<backend, buffers>>

AllocateBuffer(p) ==
  /\ backend # NoBackend
  /\ Available(p)
  /\ buffers' = buffers \cup {p}
  /\ UNCHANGED <<backend, held>>

DeallocateBuffer(p) ==
  /\ backend # NoBackend
  /\ p \in buffers
  /\ buffers' = buffers \ {p}
  /\ UNCHANGED <<backend, held>>

Next ==
  \/ \E b \in Backends \cup {NoBackend} : Switch(b)
  \/ \E t \in Tensors : Deallocate(t) \/ \E block \in Blocks : Allocate(t, block)
  \/ \E p \in Ptrs : AllocateBuffer(p) \/ DeallocateBuffer(p)

Spec == Init /\ [][Next]_vars

=============================================================================
