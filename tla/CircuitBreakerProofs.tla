------------------------ MODULE CircuitBreakerProofs ------------------------
(***************************************************************************)
(* Proofs about CircuitBreaker for every finite set of callers, every set  *)
(* of results and every configuration.                                     *)
(***************************************************************************)
EXTENDS CircuitBreaker, FiniteSetTheorems, TLAPS

\* What FailureCountBounded needs to be inductive: while open, each call still
\* in flight may add one more failure.
LateFailures ==
  /\ state = "Open" =>
       failureCount + Cardinality(inCall) < FailureThreshold + Cardinality(Callers)
  /\ state = "HalfOpen" => failureCount < FailureThreshold + Cardinality(Callers)

IInv == TypeOK /\ CountersMatchCalls /\ LateFailures

\* NewCircuitBreakerRepository leaves every threshold positive.
LEMMA ConfigPositive ==
  /\ FailureThreshold \in Nat \ {0}
  /\ SuccessThreshold \in Nat \ {0}
  /\ OpenTimeout \in Nat \ {0}
  /\ MaxHalfOpenRequests \in Nat \ {0}
BY BreakerAssumption DEF OrDefault, FailureThreshold, SuccessThreshold,
                         OpenTimeout, MaxHalfOpenRequests

\* The sets of calls are finite and their sizes are ordered as the sets are.
LEMMA CallSizes ==
  ASSUME TypeOK
  PROVE  /\ IsFiniteSet(inCall) /\ IsFiniteSet(probe)
         /\ Cardinality(Callers) \in Nat
         /\ Cardinality(inCall) \in 0 .. Cardinality(Callers)
         /\ Cardinality(probe) \in Nat
<1>1. IsFiniteSet(Callers) /\ inCall \in SUBSET Callers /\ probe \in SUBSET Callers
  BY BreakerAssumption DEF TypeOK
<1>2. IsFiniteSet(inCall) /\ Cardinality(inCall) <= Cardinality(Callers)
  BY <1>1, FS_Subset
<1>3. IsFiniteSet(probe)
  BY <1>1, FS_Subset
<1>. QED  BY <1>1, <1>2, <1>3, FS_CardinalityType

\* A caller whose operation ends leaves inCall one smaller, and probe one
\* smaller when it was a probe of the present episode.
LEMMA CallEnds ==
  ASSUME TypeOK, NEW c \in inCall
  PROVE  /\ Cardinality(inCall \ {c}) = Cardinality(inCall) - 1
         /\ c \in probe => Cardinality(probe \ {c}) = Cardinality(probe) - 1
         /\ c \notin probe => probe \ {c} = probe
         /\ probe \ {c} \subseteq inCall \ {c}
<1>1. IsFiniteSet(inCall) /\ IsFiniteSet(probe)
  BY CallSizes
<1>2. Cardinality(inCall \ {c}) = Cardinality(inCall) - 1
  BY <1>1, FS_RemoveElement
<1>3. c \in probe => Cardinality(probe \ {c}) = Cardinality(probe) - 1
  BY <1>1, FS_RemoveElement
<1>. QED  BY <1>2, <1>3 DEF TypeOK

\* The invariant holds of a new breaker.
LEMMA InitIInv == Init => IInv
<1>. SUFFICES ASSUME Init PROVE IInv
  OBVIOUS
<1>1. TypeOK
  BY ConfigPositive DEF Init, TypeOK
<1>2. CountersMatchCalls
  BY ConfigPositive DEF Init, CountersMatchCalls
<1>. QED  BY <1>1, <1>2 DEF Init, IInv, LateFailures

\* beforeCall preserves the invariant.
LEMMA AdmitIInv ==
  ASSUME IInv, NEW c \in Callers, Admit(c)
  PROVE  IInv'
<1>. USE ConfigPositive DEF IInv, Admit
<1>1. /\ Cardinality(Callers) \in Nat
      /\ Cardinality(inCall) \in Nat
      /\ Cardinality(probe) \in Nat
  BY CallSizes
<1>2. CASE AdmitClosed
  BY <1>2 DEF AdmitClosed, TypeOK, CountersMatchCalls, LateFailures, counters, episode
<1>3. CASE AdmitFirstProbe(c)
  <2>1. Cardinality(probe') = 1
    BY <1>3, FS_Singleton DEF AdmitFirstProbe
  <2>2. TypeOK'
    BY <1>3 DEF AdmitFirstProbe, StartHalfOpen, TypeOK
  <2>3. CountersMatchCalls'
    BY <1>3, <2>1 DEF AdmitFirstProbe, StartHalfOpen, CountersMatchCalls
  <2>4. LateFailures'
    BY <1>1, <1>3 DEF AdmitFirstProbe, LateFailures, TypeOK
  <2>. QED  BY <2>2, <2>3, <2>4
<1>4. CASE AdmitProbe(c)
  <2>1. Cardinality(probe') = Cardinality(probe) + 1
    BY <1>4, CallSizes, FS_AddElement DEF AdmitProbe, TypeOK
  <2>2. TypeOK'
    BY <1>4 DEF AdmitProbe, TypeOK
  <2>3. CountersMatchCalls'
    BY <1>1, <1>4, <2>1 DEF AdmitProbe, CountersMatchCalls, TypeOK
  <2>4. LateFailures'
    BY <1>1, <1>4 DEF AdmitProbe, LateFailures
  <2>. QED  BY <2>2, <2>3, <2>4
<1>. QED  BY <1>2, <1>3, <1>4

\* afterCall and the panic path preserve the invariant.
LEMMA EndIInv ==
  ASSUME IInv, NEW c \in inCall, NEW err \in AllResults,
         EndProbe(c, err),
         inCall' = inCall \ {c},
         UNCHANGED backend,
         \/ err = "nil" /\ OnSuccess /\ UNCHANGED openAge
         \/ err \in {"ErrUnavailable", "panic"} /\ UNCHANGED <<state, counters, openAge, streak>>
         \/ err \in {"appError", "failure"} /\ OnFailure
  PROVE  IInv'
<1>. USE ConfigPositive DEF IInv
<1>1. /\ Cardinality(Callers) \in Nat
      /\ Cardinality(inCall) \in 0 .. Cardinality(Callers)
      /\ Cardinality(probe) \in Nat
  BY CallSizes
<1>2. /\ Cardinality(inCall') = Cardinality(inCall) - 1
      /\ c \in probe => Cardinality(probe') = Cardinality(probe) - 1
      /\ c \notin probe => probe' = probe
      /\ probe' \subseteq inCall'
  BY CallEnds DEF EndProbe
<1>3. CASE err = "nil" /\ OnSuccess /\ UNCHANGED openAge
  <2>1. TypeOK'
    BY <1>2, <1>3 DEF TypeOK, EndProbe, OnSuccess, Probing, Enough, ForgetFailures,
                      ResetCounts, counters
  <2>2. CountersMatchCalls'
    <3>1. CASE state = "HalfOpen" /\ ~Enough
      <4>1. successCount' = successCount + 1 /\ halfOpenCount' = halfOpenCount
        BY <1>3, <3>1 DEF OnSuccess, Probing, counters
      <4>2. halfOpenCount' = Cardinality(probe') + confirmed' + lost'
        <5>1. lost' = lost /\ confirmed' = IF c \in probe THEN confirmed + 1 ELSE confirmed
          BY <1>3 DEF EndProbe
        <5>. QED
          BY <1>1, <1>2, <3>1, <4>1, <5>1 DEF TypeOK, CountersMatchCalls
      <4>3. confirmed' <= successCount' /\ state' = "HalfOpen"
        BY <1>3, <3>1, <4>1 DEF TypeOK, CountersMatchCalls, EndProbe, OnSuccess, Probing
      <4>. QED
        BY <3>1, <4>1, <4>2, <4>3 DEF TypeOK, CountersMatchCalls, Enough
    <3>2. CASE ~(state = "HalfOpen" /\ ~Enough)
      BY <1>3, <3>2 DEF TypeOK, CountersMatchCalls, OnSuccess, Probing, ForgetFailures,
                        ResetCounts, counters
    <3>. QED  BY <3>1, <3>2
  <2>3. LateFailures'
    BY <1>1, <1>2, <1>3 DEF TypeOK, LateFailures, OnSuccess, Probing, Enough,
                            ForgetFailures, ResetCounts, counters
  <2>. QED  BY <2>1, <2>2, <2>3
<1>4. CASE err \in {"ErrUnavailable", "panic"} /\ UNCHANGED <<state, counters, openAge, streak>>
  <2>1. TypeOK'
    BY <1>2, <1>4 DEF TypeOK, EndProbe, counters
  <2>2. CountersMatchCalls'
    BY <1>1, <1>2, <1>4 DEF TypeOK, CountersMatchCalls, EndProbe, counters
  <2>3. LateFailures'
    BY <1>1, <1>2, <1>4 DEF TypeOK, LateFailures, counters
  <2>. QED  BY <2>1, <2>2, <2>3
<1>5. CASE err \in {"appError", "failure"} /\ OnFailure
  <2>1. confirmed' = confirmed /\ lost' = lost
    BY <1>5 DEF EndProbe
  <2>2. CASE state = "HalfOpen" /\ FailProbe
    BY <1>1, <1>2, <2>1, <2>2
       DEF TypeOK, CountersMatchCalls, LateFailures, FailProbe, OpenNow
  <2>3. CASE state # "HalfOpen" /\ CountFailure
    <3>1. TypeOK'
      BY <1>2, <2>1, <2>3 DEF TypeOK, CountFailure, Trips, OpenNow
    <3>2. CountersMatchCalls'
      BY <2>3 DEF TypeOK, CountersMatchCalls, CountFailure, Trips, OpenNow
    <3>3. LateFailures'
      BY <1>1, <1>2, <2>3 DEF TypeOK, CountersMatchCalls, LateFailures,
                              CountFailure, Trips, OpenNow
    <3>. QED  BY <3>1, <3>2, <3>3
  <2>. QED  BY <1>5, <2>2, <2>3 DEF OnFailure
<1>. QED  BY <1>3, <1>4, <1>5

\* Every step of the breaker and its environment preserves the invariant.
LEMMA StepIInv == IInv /\ [Next]_vars => IInv'
<1>. SUFFICES ASSUME IInv, [Next]_vars PROVE IInv'
  OBVIOUS
<1>1. ASSUME NEW c \in Callers, Admit(c) PROVE IInv'
  BY <1>1, AdmitIInv
<1>2. ASSUME NEW c \in Callers, NEW err \in Results, AfterCall(c, err) PROVE IInv'
  <2>1. err \in AllResults /\ c \in inCall
    BY <1>2, BreakerAssumption DEF AfterCall
  <2>. QED  BY <1>2, <2>1, EndIInv DEF AfterCall
<1>3. ASSUME NEW c \in Callers, Panic(c) PROVE IInv'
  BY <1>3, EndIInv DEF Panic, AllResults
<1>4. CASE ResetForce
  BY <1>4, ConfigPositive DEF IInv, ResetForce, ResetCounts, TypeOK,
                              CountersMatchCalls, LateFailures, episode
<1>5. CASE Tick
  BY <1>5, ConfigPositive DEF IInv, Tick, TypeOK, CountersMatchCalls,
                              LateFailures, counters, episode
<1>6. CASE BackendChange
  BY <1>6 DEF IInv, BackendChange, TypeOK, CountersMatchCalls, LateFailures,
              counters, episode
<1>7. CASE UNCHANGED vars
  BY <1>7 DEF IInv, vars, TypeOK, CountersMatchCalls, LateFailures,
              counters, episode
<1>. QED
  BY <1>1, <1>2, <1>3, <1>4, <1>5, <1>6, <1>7 DEF Next, BeforeCall, Reject

\* The strengthened invariant holds in every reachable state.
THEOREM Invariance == Spec => []IInv
BY InitIInv, StepIInv, PTL DEF Spec

\* The breaker's fields keep their types (cb's struct, openAge saturated).
THEOREM TypeCorrect == Spec => []TypeOK
<1>1. IInv => TypeOK  BY DEF IInv
<1>. QED  BY <1>1, Invariance, PTL

\* The counters describe the calls behind them: nothing of an earlier episode
\* survives into a closed breaker, and every admitted probe is accounted for.
THEOREM CountersCorrect == Spec => []CountersMatchCalls
<1>1. IInv => CountersMatchCalls  BY DEF IInv
<1>. QED  BY <1>1, Invariance, PTL

\* A half-open breaker keeps within its probe budget.
THEOREM ProbeBudgetHolds == Spec => []ProbeBudget
<1>1. IInv => ProbeBudget
  <2>. SUFFICES ASSUME IInv, state = "HalfOpen"
                PROVE  Cardinality(probe) <= MaxHalfOpenRequests
    BY DEF ProbeBudget
  <2>1. Cardinality(probe) \in Nat
    BY CallSizes DEF IInv
  <2>. QED  BY <2>1, ConfigPositive DEF IInv, TypeOK, CountersMatchCalls
<1>. QED  BY <1>1, Invariance, PTL

\* A breaker configured with MaxHalfOpenRequests >= SuccessThreshold wedges
\* half-open only if one of its probes ended without a verdict.
THEOREM NoWedge == Spec => []NeverWedged
<1>1. IInv => NeverWedged
  <2>. SUFFICES ASSUME IInv, state = "HalfOpen", lost = 0, probe = {},
                       SuccessThreshold <= MaxHalfOpenRequests
                PROVE  halfOpenCount < MaxHalfOpenRequests
    BY DEF NeverWedged
  <2>1. Cardinality(probe) = 0
    BY FS_EmptySet
  <2>2. halfOpenCount = confirmed
    BY <2>1 DEF IInv, TypeOK, CountersMatchCalls
  <2>. QED  BY <2>2, ConfigPositive DEF IInv, TypeOK, CountersMatchCalls
<1>. QED  BY <1>1, Invariance, PTL

\* failureCount never exceeds the threshold by more than the calls in flight.
THEOREM FailureBound == Spec => []FailureCountBounded
<1>1. IInv => FailureCountBounded
  <2>. SUFFICES ASSUME IInv PROVE FailureCountBounded
    OBVIOUS
  <2>1. Cardinality(Callers) \in Nat /\ Cardinality(inCall) \in Nat
    BY CallSizes DEF IInv
  <2>. QED  BY <2>1, ConfigPositive DEF IInv, TypeOK, CountersMatchCalls,
                                        LateFailures, FailureCountBounded
<1>. QED  BY <1>1, Invariance, PTL

\* The breaker trips on FailureThreshold failures in a row and on nothing else.
THEOREM TripEvidence == Spec => TripsOnConsecutiveFailures
<1>1. IInv /\ [Next]_vars
        => [state = "Closed" /\ state' = "Open" => streak' = FailureThreshold]_vars
  <2>. SUFFICES ASSUME IInv, Next, state = "Closed", state' = "Open"
                PROVE  streak' = FailureThreshold
    OBVIOUS
  <2>1. PICK c \in Callers, err \in Results : AfterCall(c, err)
    BY DEF Next, BeforeCall, Admit, AdmitClosed, AdmitFirstProbe, AdmitProbe,
           Reject, Panic, ResetForce, Tick, BackendChange, vars
  <2>2. CountFailure /\ Trips
    BY <2>1 DEF AfterCall, OnSuccess, Probing, OnFailure, CountFailure
  <2>. QED
    BY <2>2, ConfigPositive DEF IInv, TypeOK, CountersMatchCalls, CountFailure, Trips
<1>. QED  BY <1>1, Invariance, PTL DEF Spec, TripsOnConsecutiveFailures

\* Nothing that happens while the breaker is open shortens or restarts the
\* window it was opened for: a late result changes neither the state nor the
\* window, and only ResetForce closes the breaker from there.
THEOREM OpenWindowFixed == Spec => OpenWindow
<1>1. IInv /\ [Next]_vars
        => [state = "Open" => /\ inCall \ inCall' # {} => UNCHANGED <<state, openAge>>
                              /\ state' = "Open" => openAge' >= openAge
                              /\ state' = "HalfOpen" => openAge > OpenTimeout
                              /\ state' = "Closed" => ResetForce]_vars
  <2>. SUFFICES ASSUME IInv, Next, state = "Open"
                PROVE  /\ inCall \ inCall' # {} => UNCHANGED <<state, openAge>>
                       /\ state' = "Open" => openAge' >= openAge
                       /\ state' = "HalfOpen" => openAge > OpenTimeout
                       /\ state' = "Closed" => ResetForce
    OBVIOUS
  <2>1. openAge \in Int
    BY ConfigPositive DEF IInv, TypeOK
  <2>2. ASSUME NEW c \in Callers, NEW err \in Results, AfterCall(c, err)
        PROVE  state' = "Open" /\ openAge' = openAge
    BY <2>2 DEF AfterCall, OnSuccess, Probing, OnFailure, CountFailure, Trips
  <2>3. ASSUME NEW c \in Callers, BeforeCall(c) \/ Panic(c)
        PROVE  /\ openAge' = openAge
               /\ inCall \ inCall' # {} => state' = state
               /\ state' = "HalfOpen" => openAge > OpenTimeout
               /\ state' # "Closed"
    BY <2>3 DEF BeforeCall, Admit, AdmitClosed, AdmitFirstProbe, AdmitProbe,
                Reject, Panic, vars
  <2>4. CASE ResetForce \/ Tick \/ BackendChange
    BY <2>1, <2>4 DEF ResetForce, Tick, BackendChange
  <2>. QED  BY <2>1, <2>2, <2>3, <2>4 DEF Next
<1>. QED  BY <1>1, Invariance, PTL DEF Spec, OpenWindow
=============================================================================
