--------------------------- MODULE MirroredArray ---------------------------
(***************************************************************************)
(* What a tensor mirror promises: one array, whoever wrote to it last and  *)
(* whoever reads it.  There are no sides, no copies and nothing to fail.   *)
(***************************************************************************)
CONSTANTS Mirrors, Cells, Values, NoArray

VARIABLES
  value,  (* the array of each mirror, NoArray while it is not bound *)
  seen    (* what the last read returned                             *)

vars == <<value, seen>>

Arrays == [Cells -> Values]

Init ==
  /\ value = [m \in Mirrors |-> NoArray]
  /\ seen = NoArray

Bind(m, a) ==
  /\ value[m] = NoArray
  /\ value' = [value EXCEPT ![m] = a]
  /\ UNCHANGED seen

Unbind(m) ==
  /\ value' = [value EXCEPT ![m] = NoArray]
  /\ UNCHANGED seen

WriteCell(m, c, v) ==
  /\ value[m] # NoArray
  /\ value' = [value EXCEPT ![m] = [value[m] EXCEPT ![c] = v]]
  /\ UNCHANGED seen

Overwrite(m, a) ==
  /\ value[m] # NoArray
  /\ value' = [value EXCEPT ![m] = a]
  /\ UNCHANGED seen

Read(m) ==
  /\ value[m] # NoArray
  /\ seen' = value[m]
  /\ UNCHANGED value

Next ==
  \E m \in Mirrors :
    \/ Unbind(m) \/ Read(m)
    \/ \E a \in Arrays : Bind(m, a) \/ Overwrite(m, a)
    \/ \E c \in Cells, v \in Values : WriteCell(m, c, v)

Spec == Init /\ [][Next]_vars

=============================================================================
