---------------------------- MODULE RateLimiter ----------------------------
(***************************************************************************)
(* PerClientRateLimiter (pkg/interceptors/limits.go): a token bucket for   *)
(* each client, made when the client first calls and evicted when it has   *)
(* been idle for two cleanup intervals; requests without client id share   *)
(* one bucket that is never evicted.                                       *)
(*                                                                         *)
(* Allow looks its bucket up under mu and takes the token after it has     *)
(* unlocked it, so the two are steps of their own.  Time is counted in     *)
(* ticks: tokens come back, buckets grow idle, requests between the two    *)
(* steps of Allow grow late, and the cleanup ticker comes closer.          *)
(***************************************************************************)
EXTENDS Integers, FiniteSets

CONSTANTS
  Named,        \* client ids; Anonymous is the empty one
  Anonymous,
  Requests,     \* requests that may call Allow at the same time
  Burst, Rate,  \* bucket size, tokens a tick
  Interval,     \* cleanupInterval
  MaxStall,     \* ticks a request takes, at most, from lookup to token
  None

\* An idle bucket is full again by the time it is evicted: at Rate tokens a
\* tick, even if its last token was taken late.
ASSUME LimiterAssumption ==
  /\ Burst \in Nat \ {0} /\ Rate \in Nat \ {0}
  /\ Interval \in Nat \ {0} /\ MaxStall \in Nat
  /\ MaxStall <= 2 * Interval
  /\ Rate * (2 * Interval + 1 - MaxStall) >= Burst
  /\ Anonymous \notin Named /\ IsFiniteSet(Named) /\ IsFiniteSet(Requests)

Clients == Named \cup {Anonymous}
Buckets == 1 .. Cardinality(Named) + Cardinality(Requests)
Entry == [bucket : Buckets, idle : Nat]
Ticket == [client : Named, bucket : Buckets, late : Nat]

ASSUME NoneAssumption == None \notin Entry \cup Ticket

VARIABLES
  limiters,     \* p.limiters: each client's bucket and how long it was idle
  level,        \* the tokens of the allocated buckets
  global,       \* the tokens of p.global
  pending,      \* requests that have looked their bucket up
  ticker,       \* ticks since the cleanup last ran
  running,      \* the cleanup goroutine
  quit,         \* p.quit is closed
  \* History:
  verdict       \* the answer of Allow in the last step

vars == <<limiters, level, global, pending, ticker, running, quit, verdict>>

\* NewPerClientRateLimiter
Init ==
  /\ limiters = [c \in Named |-> None]
  /\ level = [b \in Buckets |-> Burst]
  /\ global = Burst
  /\ pending = [r \in Requests |-> None]
  /\ ticker = 0 /\ running = TRUE /\ quit = FALSE
  /\ verdict = None

Held == {limiters[c].bucket : c \in {d \in Named : limiters[d] # None}}
        \cup {pending[r].bucket : r \in {q \in Requests : pending[q] # None}}

\* &clientLimiter{limiter: rate.NewLimiter(p.rate, p.burst)}: nobody has it yet.
\* There is always one, since each request and each client holds one at most.
New == CHOOSE b \in Buckets : b \notin Held
-----------------------------------------------------------------------------
Touch(c, b) == limiters' = [limiters EXCEPT ![c] = [bucket |-> b, idle |-> 0]]

\* Allow under mu: the client's bucket, or a new full one.
Lookup(r, c) ==
  /\ pending[r] = None
  /\ limiters[c] = None => Buckets \ Held # {}
  /\ LET b == IF limiters[c] # None THEN limiters[c].bucket ELSE New IN
     /\ Touch(c, b)
     /\ level' = IF limiters[c] # None THEN level ELSE [level EXCEPT ![b] = Burst]
     /\ pending' = [pending EXCEPT ![r] = [client |-> c, bucket |-> b, late |-> 0]]
  /\ verdict' = None
  /\ UNCHANGED <<global, ticker, running, quit>>

\* cl.limiter.Allow() on the bucket that was looked up.
Take(r) ==
  /\ pending[r] # None
  /\ LET b == pending[r].bucket IN
     /\ verdict' = [client |-> pending[r].client, ok |-> level[b] > 0]
     /\ level' = IF level[b] > 0 THEN [level EXCEPT ![b] = @ - 1] ELSE level
  /\ pending' = [pending EXCEPT ![r] = None]
  /\ UNCHANGED <<limiters, global, ticker, running, quit>>

\* Without client id: p.global, which needs no lookup.
TakeGlobal ==
  /\ verdict' = [client |-> Anonymous, ok |-> global > 0]
  /\ global' = IF global > 0 THEN global - 1 ELSE global
  /\ UNCHANGED <<limiters, level, pending, ticker, running, quit>>
-----------------------------------------------------------------------------
IdleOnce(c) == limiters[c] # None /\ limiters[c].idle > Interval
IdleThrice(c) == limiters[c] # None /\ limiters[c].idle > 3 * Interval
\* evictIdle(interval * 2)
Idle(c) == limiters[c] # None /\ limiters[c].idle > 2 * Interval

CleanupDue == running /\ ticker = Interval

EvictIdle ==
  /\ CleanupDue
  /\ limiters' = [c \in Named |-> IF Idle(c) THEN None ELSE limiters[c]]
  /\ ticker' = 0
  /\ verdict' = None
  /\ UNCHANGED <<level, global, pending, running, quit>>

Stop ==
  /\ quit' = TRUE
  /\ verdict' = None
  /\ UNCHANGED <<limiters, level, global, pending, ticker, running>>

\* cleanupLoop sees quit.
LoopEnds ==
  /\ running /\ quit
  /\ running' = FALSE
  /\ verdict' = None
  /\ UNCHANGED <<limiters, level, global, pending, ticker, quit>>

Refilled(n) == IF n + Rate > Burst THEN Burst ELSE n + Rate
Older(n) == IF n > 3 * Interval THEN n ELSE n + 1

\* The cleanup runs when its ticker fires, before more time passes.
Tick ==
  /\ ~CleanupDue
  /\ \A r \in Requests : pending[r] # None => pending[r].late < MaxStall
  /\ level' = [b \in Buckets |-> Refilled(level[b])]
  /\ global' = Refilled(global)
  /\ limiters' = [c \in Named |-> IF limiters[c] = None THEN None
                                  ELSE [limiters[c] EXCEPT !.idle = Older(@)]]
  /\ pending' = [r \in Requests |-> IF pending[r] = None THEN None
                                    ELSE [pending[r] EXCEPT !.late = @ + 1]]
  /\ ticker' = IF ticker < Interval THEN ticker + 1 ELSE ticker
  /\ verdict' = None
  /\ UNCHANGED <<running, quit>>

Next ==
  \/ \E r \in Requests : Take(r) \/ \E c \in Named : Lookup(r, c)
  \/ TakeGlobal \/ EvictIdle \/ Stop \/ LoopEnds \/ Tick

Spec == Init /\ [][Next]_vars
-----------------------------------------------------------------------------
(* Properties *)

TypeOK ==
  /\ limiters \in [Named -> {None} \cup Entry]
  /\ pending \in [Requests -> {None} \cup Ticket]
  /\ level \in [Buckets -> 0 .. Burst] /\ global \in 0 .. Burst
  /\ ticker \in 0 .. Interval /\ running \in BOOLEAN /\ quit \in BOOLEAN

\* Two clients never draw on one bucket, and a request that is between its two
\* steps still holds the bucket its client has in the map.
BucketsNotShared ==
  /\ \A c, d \in Named : limiters[c] # None /\ limiters[d] # None
       /\ limiters[c].bucket = limiters[d].bucket => c = d
  /\ \A r \in Requests : pending[r] # None =>
       limiters[pending[r].client] # None
       /\ limiters[pending[r].client].bucket = pending[r].bucket

\* "Limiters for clients that have been idle longer than the cleanup interval
\* are periodically evicted": a bucket is gone after three intervals, so the
\* map holds no more clients than have called in that time.
IdleBucketsEvicted ==
  running => \A c \in Named : limiters[c] # None => limiters[c].idle <= 3 * Interval

\* A client without bucket would get a full one.
Balance == [c \in Clients |-> IF c = Anonymous THEN global
                              ELSE IF limiters[c] = None THEN Burst
                              ELSE level[limiters[c].bucket]]

Ideal == INSTANCE TokenBuckets WITH tokens <- Balance

\* Eviction cannot be observed: every answer of Allow is the one a bucket that
\* is kept for ever would give, so a client gains nothing by falling idle.
ImplementsTokenBuckets == Ideal!BucketsSpec

=============================================================================
