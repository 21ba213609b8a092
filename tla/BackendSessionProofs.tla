----------------------- MODULE BackendSessionProofs -----------------------
(***************************************************************************)
(* BackendSession's invariants, for any number of stages of an init() and  *)
(* any number of calls.  Together with the fact that a session has a       *)
(* backend they are inductive.                                             *)
(***************************************************************************)
EXTENDS BackendSession, FiniteSetTheorems, TLAPS

\* A session has a backend: every call of it can be passed on.
SelectedInSession == initialized => selected \in Backends

IInv ==
  /\ TypeOK
  /\ SelectedInSession
  /\ SessionComplete
  /\ NoSubstitution
  /\ CleanBetweenSessions
  /\ HandlesAccounted
  /\ FailureExplained

\* What the variables a call in a session leaves alone say.
SessionFacts ==
  /\ SelectedInSession
  /\ SessionComplete
  /\ NoSubstitution
  /\ HandlesAccounted

LEMMA InitEstablishes == Init => IInv
<1> SUFFICES ASSUME Init PROVE IInv
  OBVIOUS
<1>1. TypeOK
  BY DEF Init, TypeOK, Backends, Kinds, Errors, Counters, ZeroProfile, Success
<1>2. SessionFacts /\ CleanBetweenSessions
  BY DEF Init, SessionFacts, SelectedInSession, SessionComplete, NoSubstitution,
     HandlesAccounted, CleanBetweenSessions
<1>3. FailureExplained
  BY DEF Init, FailureExplained, Success
<1> QED
  BY <1>1, <1>2, <1>3 DEF IInv, SessionFacts

\* A request is granted by the backend it names, or refused.
LEMMA SelectionHonest ==
  ASSUME NEW kind \in Kinds, NEW availability \in [Backends -> {"present", "absent"}]
  PROVE  LET b == SelectBackend(kind, availability) IN
         \/ b = NoBackend
         \/ /\ b \in Backends
            /\ \/ b = kind
               \/ kind = "auto" /\ b = "opencl"
               \/ kind = "auto" /\ b = "cpu" /\ availability["opencl"] = "absent"
  BY DEF SelectBackend, Backends, Kinds

\* Handles that no session explains are left over from an init() that failed.
LeftOver(held) ==
  /\ held \in [Backends -> SUBSET Nat]
  /\ \A b \in Backends : held[b] \subseteq Handles(b)
  /\ \A b \in Backends : held[b] # {} => backend_error[b] = "init"

\* Ending the open session, if any, leaves only such handles.
LEMMA ShutdownLeavesOver == ASSUME IInv PROVE LeftOver(AfterShutdown)
<1>1. /\ live \in [Backends -> SUBSET Nat]
      /\ \A b \in Backends : live[b] \subseteq Handles(b)
      /\ \A b \in Backends :
           live[b] # {} => (initialized /\ selected = b) \/ backend_error[b] = "init"
      /\ initialized => selected \in Backends
  BY DEF IInv, TypeOK, HandlesAccounted, SelectedInSession
<1>2. CASE initialized /\ selected # NoBackend
  <2>1. AfterShutdown = [live EXCEPT ![selected] = {}]
    BY <1>2 DEF AfterShutdown
  <2>2. [live EXCEPT ![selected] = {}] \in [Backends -> SUBSET Nat]
    BY <1>1, <1>2
  <2>3. \A b \in Backends :
          [live EXCEPT ![selected] = {}][b] = IF b = selected THEN {} ELSE live[b]
    BY <1>1, <1>2
  <2> QED
    BY <1>1, <2>1, <2>2, <2>3 DEF LeftOver
<1>3. CASE ~(initialized /\ selected # NoBackend)
  BY <1>1, <1>3, NamesAssumption DEF AfterShutdown, LeftOver
<1> QED
  BY <1>2, <1>3

\* A success leaves the runtime and its caller in agreement.
LEMMA SuccessExplained == result' = Success => FailureExplained'
  BY DEF Success, FailureExplained

\* So does a failure whose reason the runtime has recorded.
LEMMA RecordedFailureExplained ==
  ASSUME NEW cause \in Causes, result' = Failure(cause), runtime_error' = cause
  PROVE  FailureExplained'
  BY NamesAssumption DEF Failure, FailureExplained, LastErrorString

\* Whatever an attempt to start a session comes to, the invariant holds after it.
LEMMA SelectAndInitStep ==
  ASSUME IInv, NEW kind \in Kinds, NEW held, LeftOver(held),
         SelectAndInit(kind, held), requested' = kind, ResetSession
  PROVE  IInv'
<1>1. PICK availability \in [Backends -> {"present", "absent"}] :
        LET b == SelectBackend(kind, availability) IN
        /\ ProbeAll(availability)
        /\ \/ /\ b = NoBackend
              /\ initialized' = FALSE
              /\ live' = held
              /\ runtime_error' = "unavailable"
              /\ result' = Failure("unavailable")
              /\ UNCHANGED <<selected, backend_error>>
           \/ /\ b # NoBackend
              /\ InitFails(b, held)
              /\ initialized' = FALSE
              /\ runtime_error' = backend_error'[b]
              /\ result' = Failure("init")
              /\ UNCHANGED selected
           \/ /\ b # NoBackend
              /\ InitSucceeds(b, held)
              /\ initialized' = TRUE
              /\ selected' = b
              /\ runtime_error' = NoError
              /\ result' = Success
  BY DEF SelectAndInit
<1> DEFINE b == SelectBackend(kind, availability)
<1>2. \/ b = NoBackend
      \/ /\ b \in Backends
         /\ \/ b = kind
            \/ kind = "auto" /\ b = "opencl"
            \/ kind = "auto" /\ b = "cpu" /\ availability["opencl"] = "absent"
  BY SelectionHonest
<1>3. probe' = availability /\ requested' \in Kinds
      /\ profile' = ZeroProfile /\ model_load_active' = FALSE
  BY <1>1 DEF ProbeAll, ResetSession
<1>4. ZeroProfile \in [Counters -> Nat]
  BY DEF ZeroProfile
<1>5. CleanBetweenSessions'
  BY <1>3 DEF CleanBetweenSessions
<1>6. held \in [Backends -> SUBSET Nat]
      /\ (\A c \in Backends : held[c] \subseteq Handles(c))
      /\ \A c \in Backends : held[c] # {} => backend_error[c] = "init"
  BY DEF LeftOver
<1>7. backend_error \in [Backends -> Errors] /\ selected \in Backends \cup {NoBackend}
  BY DEF IInv, TypeOK
<1> HIDE DEF b
<1>8. CASE b = NoBackend
  <2>1. /\ initialized' = FALSE
        /\ live' = held
        /\ runtime_error' = "unavailable"
        /\ result' = Failure("unavailable")
        /\ selected' = selected /\ backend_error' = backend_error
    BY <1>1, <1>8 DEF b
  <2>2. "unavailable" \in Causes
    BY DEF Causes
  <2>3. TypeOK'
    BY <1>3, <1>4, <1>6, <1>7, <2>1, <2>2 DEF TypeOK, Errors
  <2>4. SessionFacts'
    BY <1>6, <2>1 DEF SessionFacts, SelectedInSession, SessionComplete,
       NoSubstitution, HandlesAccounted
  <2> QED
    BY <1>5, <2>1, <2>2, <2>3, <2>4, RecordedFailureExplained DEF IInv, SessionFacts
<1>9. CASE b # NoBackend /\ InitFails(b, held) /\ initialized' = FALSE
           /\ runtime_error' = backend_error'[b] /\ result' = Failure("init")
           /\ selected' = selected
  <2>1. b \in Backends /\ "init" \in Causes
    BY <1>2, <1>9 DEF Causes
  <2>2. PICK next \in Handles(b) : \E lost \in SUBSET {next} :
          live' = [held EXCEPT ![b] = (@ \cup {h \in Handles(b) : h < next}) \ lost]
    BY <1>9 DEF InitFails
  <2>3. backend_error' = [backend_error EXCEPT ![b] = "init"]
    BY <1>9 DEF InitFails
  <2>4. Handles(b) \in SUBSET Nat
    BY <2>1, StagesAssumption DEF Handles
  <2>5. /\ live' \in [Backends -> SUBSET Nat]
        /\ live'[b] \subseteq Handles(b)
        /\ \A c \in Backends : c # b => live'[c] = held[c]
    BY <1>6, <2>1, <2>2, <2>4
  <2>6. /\ backend_error' \in [Backends -> Errors]
        /\ backend_error'[b] = "init"
        /\ \A c \in Backends : c # b => backend_error'[c] = backend_error[c]
    BY <1>7, <2>1, <2>3 DEF Errors
  <2>7. TypeOK'
    BY <1>3, <1>4, <1>6, <1>7, <1>9, <2>1, <2>5, <2>6 DEF TypeOK, Errors, Handles
  <2>8. SessionFacts'
    BY <1>6, <1>9, <2>5, <2>6 DEF SessionFacts, SelectedInSession, SessionComplete,
       NoSubstitution, HandlesAccounted
  <2> QED
    BY <1>5, <1>9, <2>1, <2>6, <2>7, <2>8, RecordedFailureExplained DEF IInv, SessionFacts
<1>10. CASE b # NoBackend /\ InitSucceeds(b, held) /\ initialized' = TRUE
            /\ selected' = b /\ runtime_error' = NoError /\ result' = Success
  <2>1. b \in Backends
    BY <1>2, <1>10
  <2>2. live' = [held EXCEPT ![b] = Handles(b)] /\ backend_error' = backend_error
    BY <1>10 DEF InitSucceeds
  <2>3. Handles(b) \in SUBSET Nat
    BY <2>1, StagesAssumption DEF Handles
  <2>4. /\ live' \in [Backends -> SUBSET Nat]
        /\ live'[b] = Handles(b)
        /\ \A c \in Backends : c # b => live'[c] = held[c]
    BY <1>6, <2>1, <2>2, <2>3
  <2>5. TypeOK'
    BY <1>3, <1>4, <1>6, <1>7, <1>10, <2>1, <2>2, <2>4 DEF TypeOK, Errors, Handles
  <2>6. SelectedInSession' /\ SessionComplete' /\ HandlesAccounted'
    BY <1>6, <1>10, <2>1, <2>2, <2>4
       DEF SelectedInSession, SessionComplete, HandlesAccounted, Handles
  <2>7. NoSubstitution'
    BY <1>2, <1>3, <1>10, <2>1, NamesAssumption DEF NoSubstitution
  <2> QED
    BY <1>5, <1>10, <2>5, <2>6, <2>7, SuccessExplained DEF IInv
<1> QED
  BY <1>1, <1>8, <1>9, <1>10 DEF b

\* The calls that leave the session as it is.
LEMMA CallStep ==
  ASSUME IInv, UNCHANGED sessionVars,
         \/ GpuBridgeInitAgain \/ CallWithoutSession \/ RejectedCall
         \/ (\E op \in Ops : CallSucceeds(op) \/ CallFails(op))
         \/ \E active \in BOOLEAN : MarkModelLoad(active)
  PROVE  IInv'
<1>1. UNCHANGED <<initialized, selected, requested, probe, live>>
  BY DEF sessionVars
<1>2. /\ profile \in [Counters -> Nat]
      /\ selected \in Backends \cup {NoBackend}
      /\ backend_error \in [Backends -> Errors]
      /\ Success \in {Success} \cup {Failure(c) : c \in Causes}
  BY DEF IInv, TypeOK
<1>3. CASE GpuBridgeInitAgain
  <2>1. TypeOK' /\ SessionFacts' /\ CleanBetweenSessions'
    BY <1>1, <1>2, <1>3 DEF GpuBridgeInitAgain, IInv, TypeOK, Errors, SessionFacts,
       SelectedInSession, SessionComplete, NoSubstitution, HandlesAccounted,
       CleanBetweenSessions, Handles
  <2> QED
    BY <1>3, <2>1, SuccessExplained DEF GpuBridgeInitAgain, IInv, SessionFacts
<1>4. CASE CallWithoutSession
  <2>1. "not initialized" \in Causes
    BY DEF Causes
  <2>2. TypeOK' /\ SessionFacts' /\ CleanBetweenSessions'
    BY <1>1, <1>2, <1>4, <2>1 DEF CallWithoutSession, IInv, TypeOK, Errors,
       SessionFacts, SelectedInSession, SessionComplete, NoSubstitution,
       HandlesAccounted, CleanBetweenSessions, Handles
  <2> QED
    BY <1>4, <2>1, <2>2, RecordedFailureExplained DEF CallWithoutSession, IInv, SessionFacts
<1>5. CASE RejectedCall
  <2>1. "rejected" \in Causes
    BY DEF Causes
  <2>2. TypeOK' /\ SessionFacts' /\ CleanBetweenSessions'
    BY <1>1, <1>2, <1>5, <2>1 DEF RejectedCall, IInv, TypeOK, Errors,
       SessionFacts, SelectedInSession, SessionComplete, NoSubstitution,
       HandlesAccounted, CleanBetweenSessions, Handles
  <2> QED
    BY <1>5, <2>1, <2>2, RecordedFailureExplained DEF RejectedCall, IInv, SessionFacts
<1>6. ASSUME NEW op \in Ops, CallSucceeds(op) PROVE IInv'
  <2>1. profile' \in [Counters -> Nat]
    BY <1>2, <1>6 DEF CallSucceeds, Count, Counted, Counters
  <2>2. TypeOK' /\ SessionFacts' /\ CleanBetweenSessions'
    BY <1>1, <1>2, <1>6, <2>1 DEF CallSucceeds, IInv, TypeOK, Errors, SessionFacts,
       SelectedInSession, SessionComplete, NoSubstitution, HandlesAccounted,
       CleanBetweenSessions, Handles
  <2> QED
    BY <1>6, <2>2, SuccessExplained DEF CallSucceeds, IInv, SessionFacts
<1>7. ASSUME NEW op \in Ops, CallFails(op) PROVE IInv'
  <2>1. op \in Causes /\ op \in Errors
    BY DEF Causes, Errors
  <2>2. profile' \in [Counters -> Nat]
    BY <1>2, <1>7 DEF CallFails, Count, Counted, Counters
  <2>3. selected \in Backends /\ initialized
    BY <1>7 DEF IInv, SelectedInSession, CallFails
  <2>4. backend_error' \in [Backends -> Errors]
        /\ \A c \in Backends : c # selected => backend_error'[c] = backend_error[c]
    BY <1>2, <1>7, <2>1, <2>3 DEF CallFails
  <2>5. TypeOK'
    BY <1>1, <1>7, <2>1, <2>2, <2>3, <2>4 DEF CallFails, IInv, TypeOK, Handles
  <2>6. SessionFacts' /\ CleanBetweenSessions'
    BY <1>1, <2>3, <2>4 DEF IInv, SessionFacts, SelectedInSession, SessionComplete,
       NoSubstitution, HandlesAccounted, CleanBetweenSessions, Handles
  <2>7. FailureExplained'
    <3>1. CASE Explains(selected, op)
      BY <1>2, <1>7, <2>1, <2>3, <3>1, RecordedFailureExplained DEF CallFails
    <3>2. CASE ~Explains(selected, op)
      BY <1>1, <1>7, <2>3, <3>2
         DEF CallFails, CanFail, Explains, FailureExplained, Failure
    <3> QED
      BY <3>1, <3>2
  <2> QED
    BY <2>5, <2>6, <2>7 DEF IInv, SessionFacts
<1>8. ASSUME NEW active \in BOOLEAN, MarkModelLoad(active) PROVE IInv'
  <2>1. TypeOK' /\ SessionFacts' /\ CleanBetweenSessions'
    BY <1>1, <1>2, <1>8 DEF MarkModelLoad, IInv, TypeOK, Errors, SessionFacts,
       SelectedInSession, SessionComplete, NoSubstitution, HandlesAccounted,
       CleanBetweenSessions, Handles
  <2> QED
    BY <1>8, <2>1, SuccessExplained DEF MarkModelLoad, IInv, SessionFacts
<1> QED
  BY <1>3, <1>4, <1>5, <1>6, <1>7, <1>8

LEMMA StepPreserves == IInv /\ [Next]_vars => IInv'
<1> SUFFICES ASSUME IInv, [Next]_vars PROVE IInv'
  OBVIOUS
<1>1. ASSUME NEW kind \in Kinds, GpuBridgeInit(kind) PROVE IInv'
  <2>1. LeftOver(live)
    BY <1>1 DEF GpuBridgeInit, IInv, TypeOK, HandlesAccounted, LeftOver
  <2> QED
    BY <1>1, <2>1, SelectAndInitStep DEF GpuBridgeInit
<1>2. ASSUME NEW kind \in Kinds, SetBackend(kind) PROVE IInv'
  BY <1>2, ShutdownLeavesOver, SelectAndInitStep DEF SetBackend
<1>3. CASE GpuBridgeInitBadEnv
  <2>1. "bad env" \in Causes /\ ZeroProfile \in [Counters -> Nat]
    BY DEF Causes, ZeroProfile
  <2>2. TypeOK'
    BY <1>3, <2>1 DEF GpuBridgeInitBadEnv, ResetSession, IInv, TypeOK, Errors, Handles
  <2>3. SessionFacts' /\ CleanBetweenSessions'
    BY <1>3 DEF GpuBridgeInitBadEnv, ResetSession, IInv, SessionFacts,
       SelectedInSession, SessionComplete, NoSubstitution, HandlesAccounted,
       CleanBetweenSessions
  <2> QED
    BY <1>3, <2>1, <2>2, <2>3, RecordedFailureExplained
       DEF GpuBridgeInitBadEnv, IInv, SessionFacts
<1>4. CASE Shutdown
  <2>1. LeftOver(live') /\ UNCHANGED backend_error
    BY <1>4, ShutdownLeavesOver DEF Shutdown
  <2>2. ZeroProfile \in [Counters -> Nat]
    BY DEF ZeroProfile
  <2>3. TypeOK'
    BY <1>4, <2>1, <2>2 DEF Shutdown, ResetSession, LeftOver, IInv, TypeOK, Errors, Handles
  <2>4. SessionFacts' /\ CleanBetweenSessions'
    BY <1>4, <2>1 DEF Shutdown, ResetSession, LeftOver, SessionFacts,
       SelectedInSession, SessionComplete, NoSubstitution, HandlesAccounted,
       CleanBetweenSessions
  <2> QED
    BY <1>4, <2>3, <2>4, SuccessExplained DEF Shutdown, IInv, SessionFacts
<1>5. CASE \/ GpuBridgeInitAgain \/ CallWithoutSession \/ RejectedCall
           \/ (\E op \in Ops : CallSucceeds(op) \/ CallFails(op))
           \/ \E active \in BOOLEAN : MarkModelLoad(active)
  <2>1. UNCHANGED sessionVars
    BY <1>5 DEF GpuBridgeInitAgain, CallWithoutSession, RejectedCall, CallSucceeds,
       CallFails, MarkModelLoad, sessionVars
  <2> QED
    BY <1>5, <2>1, CallStep
<1>6. CASE UNCHANGED vars
  BY <1>6 DEF vars, IInv, TypeOK, SelectedInSession, SessionComplete, NoSubstitution,
     CleanBetweenSessions, HandlesAccounted, FailureExplained, LastErrorString, Handles
<1> QED
  BY <1>1, <1>2, <1>3, <1>4, <1>5, <1>6 DEF Next

\* All of the below holds in every reachable state.
THEOREM Invariance == Spec => []IInv
  BY InitEstablishes, StepPreserves, PTL DEF Spec

\* The session's variables keep their types.
THEOREM TypeCorrectness == Spec => []TypeOK
  BY Invariance, PTL DEF IInv

\* In a session no operation meets a handle that init() did not create.
THEOREM SessionCompleteHolds == Spec => []SessionComplete
  BY Invariance, PTL DEF IInv

\* A request is never met by a backend it did not allow.
THEOREM NoSubstitutionHolds == Spec => []NoSubstitution
  BY Invariance, PTL DEF IInv

\* Counters and model-load bracket never outlive their session.
THEOREM CleanBetweenSessionsHolds == Spec => []CleanBetweenSessions
  BY Invariance, PTL DEF IInv

\* Handles outside a session are what a failed init() left.
THEOREM HandlesAccountedHolds == Spec => []HandlesAccounted
  BY Invariance, PTL DEF IInv

\* A failure's reason can be read right after it.
THEOREM FailureExplainedHolds == Spec => []FailureExplained
  BY Invariance, PTL DEF IInv

-----------------------------------------------------------------------------
(***************************************************************************)
(* What is true of the comments that OneHolder and NoStaleError quote      *)
(***************************************************************************)

\* Of the backends that hold device resources one is in session at most, and each
\* of the others has a failed init() to show for it.
HoldersExplained ==
  Cardinality({b \in Backends : live[b] # {}}) <=
    1 + Cardinality({b \in Backends : backend_error[b] = "init"})

\* What the error string still shows after a success is the session's backend's own.
StaleFromBackend ==
  initialized /\ result = Success => LastErrorString = backend_error[selected]

\* Every success clears g_runtime_error.
Cleared == result = Success => runtime_error = NoError

LEMMA BackendsFinite == \A B \in SUBSET Backends : IsFiniteSet(B)
<1>1. IsFiniteSet({"cpu", "opencl", "vulkan"})
  <2>1. IsFiniteSet({"cpu"})
    BY FS_Singleton
  <2>2. IsFiniteSet({"cpu"} \cup {"opencl"})
    BY <2>1, FS_AddElement
  <2>3. IsFiniteSet(({"cpu"} \cup {"opencl"}) \cup {"vulkan"})
    BY <2>2, FS_AddElement
  <2>4. {"cpu", "opencl", "vulkan"} = ({"cpu"} \cup {"opencl"}) \cup {"vulkan"}
    OBVIOUS
  <2> QED
    BY <2>3, <2>4
<1> QED
  BY <1>1, FS_Subset DEF Backends

LEMMA HoldersStep == ASSUME IInv PROVE HoldersExplained
<1> DEFINE Holders == {b \in Backends : live[b] # {}}
           Failed == {b \in Backends : backend_error[b] = "init"}
<1>1. IsFiniteSet(Failed) /\ Cardinality(Failed) \in Nat
  BY BackendsFinite, FS_CardinalityType
<1>2. Holders \subseteq Failed \cup {selected}
  BY DEF IInv, HandlesAccounted
<1> HIDE DEF Holders, Failed
<1>3. /\ IsFiniteSet(Failed \cup {selected})
      /\ Cardinality(Failed \cup {selected}) <= Cardinality(Failed) + 1
      /\ Cardinality(Failed \cup {selected}) \in Nat
  <2>1. /\ IsFiniteSet(Failed \cup {selected})
        /\ Cardinality(Failed \cup {selected}) \in {Cardinality(Failed), Cardinality(Failed) + 1}
    BY <1>1, FS_AddElement
  <2> QED
    BY <1>1, <2>1
<1>4. Cardinality(Holders) <= Cardinality(Failed \cup {selected}) /\ Cardinality(Holders) \in Nat
  BY <1>2, <1>3, FS_Subset, FS_CardinalityType
<1>5. Cardinality(Holders) <= 1 + Cardinality(Failed)
  BY <1>1, <1>3, <1>4
<1> QED
  BY <1>5 DEF HoldersExplained, Holders, Failed

LEMMA ClearedStep == Cleared /\ [Next]_vars => Cleared'
<1> SUFFICES ASSUME Cleared, [Next]_vars PROVE Cleared'
  OBVIOUS
<1>1. ASSUME NEW cause, result' = Failure(cause) PROVE Cleared'
  BY <1>1 DEF Failure, Success, Cleared
<1>2. ASSUME runtime_error' = NoError PROVE Cleared'
  BY <1>2 DEF Cleared
<1>3. ASSUME NEW kind, NEW held, SelectAndInit(kind, held) PROVE Cleared'
  BY <1>1, <1>2, <1>3 DEF SelectAndInit
<1>4. CASE \E kind \in Kinds : GpuBridgeInit(kind) \/ SetBackend(kind)
  BY <1>3, <1>4 DEF GpuBridgeInit, SetBackend
<1>5. CASE GpuBridgeInitBadEnv \/ GpuBridgeInitAgain \/ Shutdown
  BY <1>1, <1>2, <1>5 DEF GpuBridgeInitBadEnv, GpuBridgeInitAgain, Shutdown
<1>6. CASE CallWithoutSession \/ RejectedCall
  BY <1>1, <1>6 DEF CallWithoutSession, RejectedCall
<1>7. CASE \E op \in Ops : CallSucceeds(op) \/ CallFails(op)
  BY <1>1, <1>2, <1>7 DEF CallSucceeds, CallFails
<1>8. CASE \E active \in BOOLEAN : MarkModelLoad(active)
  BY <1>2, <1>8 DEF MarkModelLoad
<1>9. CASE UNCHANGED vars
  BY <1>9 DEF vars, Cleared
<1> QED
  BY <1>4, <1>5, <1>6, <1>7, <1>8, <1>9 DEF Next

\* "we never have two backends simultaneously holding device resources": a backend
\* too many for every failed init() at most, so none while no init() has failed.
THEOREM HoldersExplainedHolds == Spec => []HoldersExplained
  BY Invariance, HoldersStep, PTL

\* A "stale error message from an earlier, unrelated failure" is never the runtime's
\* nor another backend's: without a failure of the backend in session there is none.
THEOREM StaleFromBackendHolds == Spec => []StaleFromBackend
<1>1. Init => Cleared
  BY DEF Init, Cleared
<1>2. IInv /\ Cleared => StaleFromBackend
  BY NamesAssumption DEF IInv, SelectedInSession, Cleared, StaleFromBackend, LastErrorString
<1> QED
  BY <1>1, <1>2, ClearedStep, Invariance, PTL DEF Spec

=============================================================================
