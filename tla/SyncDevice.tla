----------------------------- MODULE SyncDevice -----------------------------
(***************************************************************************)
(* A device that does everything at once: what a client of the runtime may *)
(* believe about tensors, kernels and copies without knowing of any queue. *)
(***************************************************************************)
EXTENDS Naturals

CONSTANTS
  Tensors, Values, NoValue,
  Kernels,
  Arity,         (* How many tensors a kernel takes,                      *)
  Output,        (* and which one of them it writes.                      *)
  Compute(_, _)  (* The result of a kernel, from the values of them all.  *)

VARIABLES
  value,    (* the value of each tensor, NoValue while it is not allocated *)
  awaited,  (* what a download in progress will return, or NoValue         *)
  host      (* the client's array                                          *)

vars == <<value, awaited, host>>

Allocated == {t \in Tensors : value[t] # NoValue}

\* The client does nothing else while a download is in progress.
Ready == awaited = NoValue

Init ==
  /\ value = [t \in Tensors |-> NoValue]
  /\ awaited = NoValue
  /\ host \in Values

\* The content of a new tensor is arbitrary.
Allocate(t, v) ==
  /\ Ready
  /\ t \notin Allocated
  /\ value' = [value EXCEPT ![t] = v]
  /\ UNCHANGED <<awaited, host>>

Deallocate(t) ==
  /\ Ready
  /\ t \in Allocated
  /\ value' = [value EXCEPT ![t] = NoValue]
  /\ UNCHANGED <<awaited, host>>

HostWrite(v) == Ready /\ host' = v /\ UNCHANGED <<value, awaited>>

Upload(t) ==
  /\ Ready
  /\ t \in Allocated
  /\ value' = [value EXCEPT ![t] = host]
  /\ UNCHANGED <<awaited, host>>

\* A download returns what the tensor holds when it is asked for.
Download(t) ==
  /\ Ready
  /\ t \in Allocated
  /\ awaited' = value[t]
  /\ UNCHANGED <<value, host>>

Downloaded ==
  /\ ~Ready
  /\ host' = awaited
  /\ awaited' = NoValue
  /\ UNCHANGED value

Launch(k, args) ==
  /\ Ready
  /\ \A i \in 1 .. Arity[k] : args[i] \in Allocated
  /\ value' = [value EXCEPT ![args[Output[k]]] =
                 Compute(k, [i \in 1 .. Arity[k] |-> value[args[i]]])]
  /\ UNCHANGED <<awaited, host>>

Next ==
  \/ \E t \in Tensors : Deallocate(t) \/ Upload(t) \/ Download(t)
  \/ \E v \in Values : HostWrite(v) \/ \E t \in Tensors : Allocate(t, v)
  \/ \E k \in Kernels : \E args \in [1 .. Arity[k] -> Tensors] : Launch(k, args)
  \/ Downloaded

Spec == Init /\ [][Next]_vars

=============================================================================
