-------------------------- MODULE MCBackendSession --------------------------
(***************************************************************************)
(* BackendSession with three stages for each device backend: enough for an *)
(* init() to fail at its first, a middle and its last stage, and to leave  *)
(* a hole among the handles of an earlier failure.                         *)
(***************************************************************************)
EXTENDS BackendSession

MCStages == [b \in Backends |-> IF b = "cpu" THEN 0 ELSE 3]

=============================================================================
