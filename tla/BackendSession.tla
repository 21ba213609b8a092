--------------------------- MODULE BackendSession ---------------------------
(***************************************************************************)
(* Which backend is in session, what it has created on its device, and     *)
(* what the runtime says of the last call: gpubridge_selector.c,           *)
(* gpubridge_env.c, the session and error handling of gpubridge_runtime.c, *)
(* and the init() and shutdown() of the three backends.                    *)
(*                                                                         *)
(* TensorRuntime takes the outcome of an init as given and follows the     *)
(* memory; here memory is left out and an init can fail at every stage.    *)
(***************************************************************************)
EXTENDS Naturals, FiniteSets

CONSTANTS
  NoBackend,  (* g_selection.selected == NULL.                              *)
  NoError,    (* The empty error string.                                    *)
  Stages,     (* How many handles each backend's init() creates, in order.  *)
  MaxCount    (* Bound: calls of one kind the profile counts in a session.  *)

Backends == {"cpu", "opencl", "vulkan"}
Kinds == {"auto", "cpu", "opencl", "sycl", "vulkan"}

\* The calls that the runtime passes to the backend in session.
Ops == {"malloc", "copy", "launch", "sync"}

\* Why a call fails: the last four are the runtime's own reasons, "init" and
\* the operations are the backend's.
Causes == Ops \cup {"init", "bad env", "unavailable", "not initialized", "rejected"}
Errors == Causes \cup {NoError}

ASSUME NamesAssumption == NoBackend \notin Backends /\ NoError \notin Causes
ASSUME StagesAssumption == Stages \in [Backends -> Nat] /\ Stages["cpu"] = 0

VARIABLES
  initialized,        (* g_initialized                                      *)
  selected,           (* g_selection.selected                               *)
  requested,          (* g_requested_kind                                   *)
  probe,              (* each backend's cached availability                 *)
  live,               (* the handles each backend's globals hold            *)
  runtime_error,      (* g_runtime_error                                    *)
  backend_error,      (* each backend's last_error()                        *)
  model_load_active,  (* g_model_load_active                                *)
  profile,            (* g_profile: successful copies and launches, syncs   *)
  result              (* what the last call returned; if a failure, why   *)

vars == <<initialized, selected, requested, probe, live, runtime_error,
          backend_error, model_load_active, profile, result>>

Handles(b) == 1 .. Stages[b]
Counters == {"copy", "launch", "sync"}
ZeroProfile == [c \in Counters |-> 0]
Success == [rc |-> 0, cause |-> NoError]
Failure(cause) == [rc |-> 1, cause |-> cause]

TypeOK ==
  /\ initialized \in BOOLEAN
  /\ selected \in Backends \cup {NoBackend}
  /\ requested \in Kinds
  /\ probe \in [Backends -> {"unprobed", "present", "absent"}]
  /\ live \in [Backends -> SUBSET Nat]
  /\ \A b \in Backends : live[b] \subseteq Handles(b)
  /\ runtime_error \in Errors
  /\ backend_error \in [Backends -> Errors]
  /\ model_load_active \in BOOLEAN
  /\ profile \in [Counters -> Nat]
  /\ result \in {Success} \cup {Failure(c) : c \in Causes}

\* No call has been made yet; nothing has failed.
Init ==
  /\ initialized = FALSE
  /\ selected = NoBackend
  /\ requested = "auto"
  /\ probe = [b \in Backends |-> IF b = "cpu" THEN "present" ELSE "unprobed"]
  /\ live = [b \in Backends |-> {}]
  /\ runtime_error = NoError
  /\ backend_error = [b \in Backends |-> NoError]
  /\ model_load_active = FALSE
  /\ profile = ZeroProfile
  /\ result = Success

-----------------------------------------------------------------------------
(***************************************************************************)
(* Selection                                                               *)
(***************************************************************************)

\* Mutant of SelectBackend: an absent backend is replaced by the CPU.
SelectBackendOrCpu(kind, availability) ==
  IF kind = "auto"
    THEN IF availability["opencl"] = "present" THEN "opencl" ELSE "cpu"
    ELSE IF kind \in Backends /\ availability[kind] = "present" THEN kind ELSE "cpu"

\* gpuBridgeSelectBackend(), given the outcome of available() for each backend:
\* AUTO never considers Vulkan, SYCL is not implemented.
SelectBackend(kind, availability) ==
  IF kind = "auto"
    THEN IF availability["opencl"] = "present" THEN "opencl" ELSE "cpu"
    ELSE IF kind \in Backends /\ availability[kind] = "present" THEN kind ELSE NoBackend

\* available() of every backend: the first probe decides, later ones return it.
ProbeAll(availability) ==
  /\ \A b \in Backends :
       IF probe[b] = "unprobed" THEN availability[b] # "unprobed"
                                ELSE availability[b] = probe[b]
  /\ probe' = availability

\* Mutant of InitSucceeds: the handles are counted from 0.
InitSucceedsFromZero(b, held) ==
  /\ live' = [held EXCEPT ![b] = 0 .. Stages[b]]
  /\ UNCHANGED backend_error

\* The backend's init(), its globals holding `held`, creates all its handles.
InitSucceeds(b, held) ==
  /\ live' = [held EXCEPT ![b] = Handles(b)]
  /\ UNCHANGED backend_error

\* It creates the handles before some `next` one and fails there, which keeps its
\* old value or is overwritten with NULL: nothing is cleaned up.
InitFails(b, held) ==
  /\ \E next \in Handles(b) : \E lost \in SUBSET {next} :
       live' = [held EXCEPT ![b] = (@ \cup {h \in Handles(b) : h < next}) \ lost]
  /\ backend_error' = [backend_error EXCEPT ![b] = "init"]

\* Mutant of SelectAndInit: init()'s result is not looked at.
SelectAndInitUnchecked(kind, held) ==
  \E availability \in [Backends -> {"present", "absent"}] :
    LET b == SelectBackend(kind, availability) IN
    /\ ProbeAll(availability)
    /\ b # NoBackend
    /\ InitSucceeds(b, held) \/ InitFails(b, held)
    /\ initialized' = TRUE
    /\ selected' = b
    /\ runtime_error' = NoError
    /\ result' = Success

\* select_and_init(), and what its two callers do with the outcome.  Only a
\* success touches g_selection.
SelectAndInit(kind, held) ==
  \E availability \in [Backends -> {"present", "absent"}] :
    LET b == SelectBackend(kind, availability) IN
    /\ ProbeAll(availability)
    /\ \/ /\ b = NoBackend
          /\ initialized' = FALSE
          /\ live' = held
          /\ runtime_error' = "unavailable"
          /\ result' = Failure("unavailable")
          /\ UNCHANGED <<selected, backend_error>>
       \/ /\ b # NoBackend
          /\ InitFails(b, held)
          /\ initialized' = FALSE
          /\ runtime_error' = backend_error'[b]
          /\ result' = Failure("init")
          /\ UNCHANGED selected
       \/ /\ b # NoBackend
          /\ InitSucceeds(b, held)
          /\ initialized' = TRUE
          /\ selected' = b
          /\ runtime_error' = NoError
          /\ result' = Success

-----------------------------------------------------------------------------
(***************************************************************************)
(* Sessions                                                                *)
(***************************************************************************)

\* Mutant of ResetSession: the counters restart, the bracket stays open.
ResetProfileOnly == profile' = ZeroProfile /\ UNCHANGED model_load_active

\* A session's counters and its model-load bracket end with it.
ResetSession == profile' = ZeroProfile /\ model_load_active' = FALSE

\* gpuBridgeInit() outside a session.  GPUBRIDGE_BACKEND is read afresh by every
\* call, and `kind` is what it says.
GpuBridgeInit(kind) ==
  /\ ~initialized
  /\ ResetSession
  /\ requested' = kind
  /\ SelectAndInit(kind, live)

\* gpuBridgeInit() outside a session, the variable holding no known name.
GpuBridgeInitBadEnv ==
  /\ ~initialized
  /\ ResetSession
  /\ runtime_error' = "bad env"
  /\ result' = Failure("bad env")
  /\ UNCHANGED <<initialized, selected, requested, probe, live, backend_error>>

\* gpuBridgeInit() in a session.
GpuBridgeInitAgain ==
  /\ initialized
  /\ runtime_error' = NoError
  /\ result' = Success
  /\ UNCHANGED <<initialized, selected, requested, probe, live, backend_error,
                 model_load_active, profile>>

\* Mutant of AfterShutdown: the first handle is not released.
AfterShutdownKeepsFirst ==
  IF initialized /\ selected # NoBackend
    THEN [live EXCEPT ![selected] = @ \cap {1}] ELSE live

\* What the backends hold once the backend in session, if any, was shut down.
AfterShutdown ==
  IF initialized /\ selected # NoBackend
    THEN [live EXCEPT ![selected] = {}] ELSE live

\* gpuBridgeSetBackend(): the open session ends before anything else is tried.
SetBackend(kind) ==
  /\ ResetSession
  /\ requested' = kind
  /\ SelectAndInit(kind, AfterShutdown)

\* gpuBridgeShutdown(): always succeeds.
Shutdown ==
  /\ ResetSession
  /\ initialized' = FALSE
  /\ selected' = NoBackend
  /\ live' = AfterShutdown
  /\ runtime_error' = NoError
  /\ result' = Success
  /\ UNCHANGED <<requested, probe, backend_error>>

-----------------------------------------------------------------------------
(***************************************************************************)
(* Calls in a session                                                      *)
(***************************************************************************)

sessionVars == <<initialized, selected, requested, probe, live>>

\* Any call but gpuBridgeInit(), SetBackend() and Shutdown(), without a session.
CallWithoutSession ==
  /\ ~initialized
  /\ runtime_error' = "not initialized"
  /\ result' = Failure("not initialized")
  /\ UNCHANGED <<sessionVars, backend_error, model_load_active, profile>>

\* A call the runtime refuses on its own: bad arguments, an invalid kernel, a
\* quantized or rank 3 tensor, a device-to-device copy.
RejectedCall ==
  /\ initialized
  /\ runtime_error' = "rejected"
  /\ result' = Failure("rejected")
  /\ UNCHANGED <<sessionVars, backend_error, model_load_active, profile>>

\* A synchronization is counted as it is asked for, the rest as it succeeds.
Counted(op, ok) == op = "sync" \/ (ok /\ op \in Counters)

Count(op, ok) ==
  /\ Counted(op, ok) => profile[op] < MaxCount
  /\ profile' = IF Counted(op, ok) THEN [profile EXCEPT ![op] = @ + 1] ELSE profile

CallSucceeds(op) ==
  /\ initialized
  /\ Count(op, TRUE)
  /\ runtime_error' = NoError
  /\ result' = Success
  /\ UNCHANGED <<sessionVars, backend_error, model_load_active>>

\* Does the backend set last_error() when the operation fails?  The CPU's
\* malloc() does not; its copies and sync() never fail.
Explains(b, op) == b # "cpu" \/ op = "launch"
CanFail(b, op) == b # "cpu" \/ op \in {"launch", "malloc"}

\* Mutant of CallFails: the runtime takes the error before the backend sets it.
CallFailsReadsFirst(op) ==
  /\ initialized
  /\ CanFail(selected, op)
  /\ Count(op, FALSE)
  /\ backend_error' = IF Explains(selected, op)
                        THEN [backend_error EXCEPT ![selected] = op] ELSE backend_error
  /\ runtime_error' = backend_error[selected]
  /\ result' = Failure(op)
  /\ UNCHANGED <<sessionVars, model_load_active>>

CallFails(op) ==
  /\ initialized
  /\ CanFail(selected, op)
  /\ Count(op, FALSE)
  /\ backend_error' = IF Explains(selected, op)
                        THEN [backend_error EXCEPT ![selected] = op] ELSE backend_error
  /\ runtime_error' = backend_error'[selected]
  /\ result' = Failure(op)
  /\ UNCHANGED <<sessionVars, model_load_active>>

\* gpuBridgeBeginModelLoad(), gpuBridgeEndModelLoad()
MarkModelLoad(active) ==
  /\ initialized
  /\ model_load_active' = active
  /\ runtime_error' = NoError
  /\ result' = Success
  /\ UNCHANGED <<sessionVars, backend_error, profile>>

\* gpuBridgeGetLastErrorString()
LastErrorString ==
  IF runtime_error # NoError THEN runtime_error
  ELSE IF initialized /\ selected # NoBackend THEN backend_error[selected]
  ELSE "not initialized"

Next ==
  \/ \E kind \in Kinds : GpuBridgeInit(kind) \/ SetBackend(kind)
  \/ GpuBridgeInitBadEnv
  \/ GpuBridgeInitAgain
  \/ Shutdown
  \/ CallWithoutSession
  \/ RejectedCall
  \/ \E op \in Ops : CallSucceeds(op) \/ CallFails(op)
  \/ \E active \in BOOLEAN : MarkModelLoad(active)

Spec == Init /\ [][Next]_vars

-----------------------------------------------------------------------------
(***************************************************************************)
(* Properties                                                              *)
(***************************************************************************)

\* In a session the selected backend holds every handle its operations use,
\* whatever an earlier init() left behind: no launch meets a NULL queue.
SessionComplete == initialized => live[selected] = Handles(selected)

\* A session runs on the backend that was asked for last, never on a silent
\* substitute; AUTO settles for the CPU only where OpenCL was not found.
NoSubstitution ==
  initialized =>
    \/ selected = requested
    \/ requested = "auto" /\ selected = "opencl"
    \/ requested = "auto" /\ selected = "cpu" /\ probe["opencl"] = "absent"

\* Nothing of a session outlives it: not its counters, not an open model-load
\* bracket, however it ended (Shutdown(), SetBackend(), a failed SetBackend()).
CleanBetweenSessions == ~initialized => profile = ZeroProfile /\ ~model_load_active

\* After a call that failed, gpuBridgeGetLastErrorString() names the reason of
\* this very failure, past errors of any backend notwithstanding.  The exception
\* is a failed malloc() of the CPU backend, which records none.
FailureExplained ==
  result.rc # 0 =>
    \/ LastErrorString = result.cause
    \/ initialized /\ selected = "cpu" /\ result.cause = "malloc"

\* A backend holds handles only in its session, or because an init() of its own
\* failed part-way: ending a session, or failing to start the next one on another
\* backend, leaves nothing behind.
HandlesAccounted ==
  \A b \in Backends : live[b] # {} =>
    \/ initialized /\ selected = b
    \/ backend_error[b] = "init"

\* The comment at gpubridge_runtime.c:76-78: no "stale error message from an
\* earlier, unrelated failure" shows after a later call that succeeded.
NoStaleError == initialized /\ result.rc = 0 => LastErrorString = NoError

\* The comment at gpubridge_runtime.c:183-184: "we never have two backends
\* simultaneously holding device resources".
OneHolder == Cardinality({b \in Backends : live[b] # {}}) <= 1

=============================================================================
