--------------------------- MODULE CircuitBreaker ---------------------------
(***************************************************************************)
(* CircuitBreakerRepository (internal/storage/circuitbreaker.go): the      *)
(* decorator every repository operation passes through.  An operation is   *)
(* beforeCall, the wrapped operation, afterCall; beforeCall and afterCall  *)
(* each run under cb.mu and are one action each, and any number of callers *)
(* may be between the two.                                                 *)
(*                                                                         *)
(* Time is kept as openAge, the time since openSince in units of one clock *)
(* tick, saturating just above OpenTimeout: beforeCall asks nothing else   *)
(* of the clock.  lastFailureAt is written and never read, and is left out.*)
(***************************************************************************)
EXTENDS Integers, FiniteSets

CONSTANTS
  Callers,                 \* goroutines that may be inside an operation
  Results,                 \* how the wrapped repository's calls may end
  CfgFailureThreshold,     \* CircuitBreakerConfig, as the caller passes it
  CfgSuccessThreshold,
  CfgOpenTimeout,
  CfgMaxHalfOpenRequests

\* "appError" stands for the errors a healthy backend returns (ErrNotFound,
\* ErrCapacity, ErrAlreadyExists, ErrInvalid, the caller's own context error),
\* "failure" for a backend fault.
AllResults == {"nil", "appError", "failure", "ErrUnavailable", "panic"}

ASSUME BreakerAssumption ==
  /\ IsFiniteSet(Callers)
  /\ Results \subseteq AllResults
  /\ CfgFailureThreshold \in Int
  /\ CfgSuccessThreshold \in Int
  /\ CfgOpenTimeout \in Int
  /\ CfgMaxHalfOpenRequests \in Int

\* NewCircuitBreakerRepository: non-positive fields fall back to the defaults.
OrDefault(value, default) == IF value <= 0 THEN default ELSE value

FailureThreshold    == OrDefault(CfgFailureThreshold, 5)
SuccessThreshold    == OrDefault(CfgSuccessThreshold, 2)
OpenTimeout         == OrDefault(CfgOpenTimeout, 30)
MaxHalfOpenRequests == OrDefault(CfgMaxHalfOpenRequests, 2)

VARIABLES
  state,          \* "Closed", "Open" or "HalfOpen"
  failureCount,
  successCount,
  halfOpenCount,
  openAge,        \* time since openSince
  inCall,         \* callers between beforeCall and afterCall
  backend,        \* environment: "up", then "down" for a while, then "healed"
  \* History, read by no guard:
  probe,          \* callers in flight, admitted by the latest half-open episode
  confirmed,      \* probes of that episode that ended with success
  lost,           \* probes of that episode that ended without a verdict
  streak          \* failures since the breaker last closed or saw a success

counters == <<failureCount, successCount, halfOpenCount>>
episode == <<probe, confirmed, lost>>
vars == <<state, counters, openAge, inCall, backend, episode, streak>>

Init ==
  /\ state = "Closed"
  /\ failureCount = 0
  /\ successCount = 0
  /\ halfOpenCount = 0
  /\ openAge = 0
  /\ inCall = {}
  /\ backend = "up"
  /\ probe = {}
  /\ confirmed = 0
  /\ lost = 0
  /\ streak = 0
-----------------------------------------------------------------------------
(* beforeCall *)

AdmitClosed ==
  /\ state = "Closed"
  /\ UNCHANGED <<state, counters, episode>>

StartHalfOpenUncounted == successCount' = 0 /\ halfOpenCount' = 0
StartHalfOpen == successCount' = 0 /\ halfOpenCount' = 1

\* The first call after the timeout turns the breaker half-open and is probe 1.
AdmitFirstProbe(c) ==
  /\ state = "Open"
  /\ openAge > OpenTimeout
  /\ state' = "HalfOpen"
  /\ StartHalfOpen
  /\ probe' = {c}
  /\ confirmed' = 0
  /\ lost' = 0
  /\ UNCHANGED failureCount

AdmitProbe(c) ==
  /\ state = "HalfOpen"
  /\ halfOpenCount < MaxHalfOpenRequests
  /\ halfOpenCount' = halfOpenCount + 1
  /\ probe' = probe \cup {c}
  /\ UNCHANGED <<state, failureCount, successCount, confirmed, lost>>

Admit(c) ==
  /\ c \in Callers \ inCall
  /\ AdmitClosed \/ AdmitFirstProbe(c) \/ AdmitProbe(c)
  /\ inCall' = inCall \cup {c}
  /\ UNCHANGED <<openAge, backend, streak>>

\* ErrCircuitOpen: the wrapped repository is not called and nothing changes.
Reject(c) ==
  /\ c \in Callers \ inCall
  /\ \/ state = "Open" /\ openAge <= OpenTimeout
     \/ state = "HalfOpen" /\ halfOpenCount >= MaxHalfOpenRequests
  /\ UNCHANGED vars

BeforeCall(c) == Admit(c) \/ Reject(c)
-----------------------------------------------------------------------------
(* afterCall *)

ResetCountsKeepFailures ==
  /\ successCount' = 0
  /\ halfOpenCount' = 0
  /\ UNCHANGED failureCount

ResetCounts ==
  /\ failureCount' = 0
  /\ successCount' = 0
  /\ halfOpenCount' = 0

EnoughOffByOne == successCount >= SuccessThreshold
Enough == successCount + 1 >= SuccessThreshold

ForgetFailures == failureCount' = 0

\* The state in which a success counts towards closing the breaker.
ProbingUnlessClosed == state # "Closed"
Probing == state = "HalfOpen"

OnSuccess ==
  \/ /\ Probing
     /\ Enough
     /\ state' = "Closed"
     /\ streak' = 0
     /\ ResetCounts
  \/ /\ Probing
     /\ ~Enough
     /\ successCount' = successCount + 1
     /\ UNCHANGED <<state, failureCount, halfOpenCount, streak>>
  \/ /\ state = "Closed"
     /\ ForgetFailures
     /\ streak' = 0
     /\ UNCHANGED <<state, successCount, halfOpenCount>>
  \/ /\ state = "Open"
     /\ UNCHANGED <<state, counters, streak>>

OpenNow ==
  /\ state' = "Open"
  /\ openAge' = 0

\* A failure while probing sends the breaker straight back to open.
FailProbe ==
  /\ failureCount' = 0
  /\ OpenNow
  /\ UNCHANGED <<successCount, halfOpenCount, streak>>

Trips == state = "Closed" /\ failureCount + 1 >= FailureThreshold

CountFailure ==
  /\ failureCount' = failureCount + 1
  /\ streak' = IF state = "Closed" THEN streak + 1 ELSE streak
  /\ IF Trips THEN OpenNow ELSE UNCHANGED <<state, openAge>>
  /\ UNCHANGED <<successCount, halfOpenCount>>

OnFailure ==
  \/ state = "HalfOpen" /\ FailProbe
  \/ state # "HalfOpen" /\ CountFailure

\* What the history records when c's call ends.
EndProbe(c, err) ==
  /\ probe' = probe \ {c}
  /\ confirmed' = IF c \in probe /\ err = "nil" THEN confirmed + 1 ELSE confirmed
  /\ lost' = IF c \in probe /\ err \in {"ErrUnavailable", "panic"}
             THEN lost + 1 ELSE lost

\* The results the backend can return in its present condition.
Possible ==
  Results \cap CASE backend = "up"     -> {"nil", "appError", "panic"}
                 [] backend = "down"   -> AllResults
                 [] backend = "healed" -> {"nil"}

AfterCall(c, err) ==
  /\ c \in inCall
  /\ err \in Possible \ {"panic"}
  /\ \/ err = "nil" /\ OnSuccess /\ UNCHANGED openAge
     \/ err = "ErrUnavailable" /\ UNCHANGED <<state, counters, openAge, streak>>
     \/ err \in {"appError", "failure"} /\ OnFailure
  /\ inCall' = inCall \ {c}
  /\ EndProbe(c, err)
  /\ UNCHANGED backend

\* afterCall is not deferred: a panic in the wrapped operation skips it.
Panic(c) ==
  /\ c \in inCall
  /\ "panic" \in Possible
  /\ inCall' = inCall \ {c}
  /\ EndProbe(c, "panic")
  /\ UNCHANGED <<state, counters, openAge, backend, streak>>
-----------------------------------------------------------------------------
\* ResetForce, and the breaker's part of Close.
ResetForce ==
  /\ state' = "Closed"
  /\ ResetCounts
  /\ streak' = 0
  /\ UNCHANGED <<openAge, inCall, backend, episode>>

Tick ==
  /\ state = "Open"
  /\ openAge <= OpenTimeout
  /\ openAge' = openAge + 1
  /\ UNCHANGED <<state, counters, inCall, backend, episode, streak>>

\* One outage: while it lasts calls fail or succeed arbitrarily.
BackendChange ==
  /\ \/ backend = "up" /\ backend' = "down"
     \/ backend = "down" /\ backend' = "healed"
  /\ UNCHANGED <<state, counters, openAge, inCall, episode, streak>>

Next ==
  \/ \E c \in Callers : BeforeCall(c) \/ Panic(c)
  \/ \E c \in Callers, err \in Results : AfterCall(c, err)
  \/ ResetForce
  \/ Tick
  \/ BackendChange

Spec == Init /\ [][Next]_vars

\* Time passes, a call that was admitted ends (operations run under the
\* caller's deadline), and operations keep arriving (/readyz polls Ping).
Fairness ==
  /\ WF_vars(Tick)
  /\ \A c \in Callers : WF_vars(Panic(c) \/ \E err \in Results : AfterCall(c, err))
  /\ WF_vars(\E c \in Callers : Admit(c))

FairSpec == Spec /\ Fairness
-----------------------------------------------------------------------------
(* Properties *)

\* The variables have the types of the struct's fields; openAge is saturated.
TypeOK ==
  /\ state \in {"Closed", "Open", "HalfOpen"}
  /\ failureCount \in Nat
  /\ successCount \in Nat
  /\ halfOpenCount \in Nat
  /\ openAge \in 0 .. OpenTimeout + 1
  /\ inCall \subseteq Callers
  /\ backend \in {"up", "down", "healed"}
  /\ probe \subseteq inCall
  /\ confirmed \in Nat
  /\ lost \in Nat
  /\ streak \in Nat

\* The counters tell the truth about the calls behind them, whatever late
\* results arrive: a closed breaker carries nothing over from an earlier
\* episode, and in a half-open one every admitted probe is still in flight, has
\* succeeded, or ended without a verdict.
CountersMatchCalls ==
  /\ state = "Closed" => /\ failureCount = streak
                         /\ streak < FailureThreshold
                         /\ successCount = 0
                         /\ halfOpenCount = 0
  /\ state = "HalfOpen" => /\ halfOpenCount = Cardinality(probe) + confirmed + lost
                           /\ halfOpenCount \in 1 .. MaxHalfOpenRequests
                           /\ confirmed <= successCount
                           /\ successCount < SuccessThreshold

\* While half-open, no more than MaxHalfOpenRequests of the calls inside the
\* backend were admitted by the episode (beforeCall's admission check).
ProbeBudget ==
  state = "HalfOpen" => Cardinality(probe) <= MaxHalfOpenRequests

\* With MaxHalfOpenRequests >= SuccessThreshold the breaker does not wedge
\* half-open: some probe is still to report, or another may be admitted, unless
\* a probe ended without a verdict (ErrUnavailable, or a panic past afterCall).
NeverWedged ==
  /\ SuccessThreshold <= MaxHalfOpenRequests
  /\ state = "HalfOpen"
  /\ lost = 0
  => probe # {} \/ halfOpenCount < MaxHalfOpenRequests

\* Failures that arrive while the breaker is open are still counted; they are
\* at most the calls that were in flight when it opened.
FailureCountBounded ==
  failureCount < FailureThreshold + Cardinality(Callers)

\* The breaker opens from closed on exactly FailureThreshold failures with no
\* success between them, all since it last closed: failures counted while it
\* was open or half-open never leak into the next closed period.
TripsOnConsecutiveFailures ==
  [][state = "Closed" /\ state' = "Open" => streak' = FailureThreshold]_vars

\* The open window is fixed when the breaker opens.  A result that arrives late,
\* of whatever kind, leaves the breaker open and the window as it is; the first
\* probe waits for all of it; and only ResetForce closes an open breaker.
OpenWindow ==
  [][state = "Open" =>
       /\ inCall \ inCall' # {} => UNCHANGED <<state, openAge>>
       /\ state' = "Open" => openAge' >= openAge
       /\ state' = "HalfOpen" => openAge > OpenTimeout
       /\ state' = "Closed" => ResetForce]_vars

\* docs/architecture/storage.md: the breaker "recovers through a half-open
\* probe window".  Once the backend answers every call, the breaker closes and
\* stays closed, unless it is half-open with a probe that ended without a
\* verdict (see NeverWedged).
Recovers ==
  backend = "healed" /\ ~(state = "HalfOpen" /\ lost > 0) ~> [](state = "Closed")
=============================================================================
