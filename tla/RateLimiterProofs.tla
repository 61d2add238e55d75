------------------------- MODULE RateLimiterProofs -------------------------
(***************************************************************************)
(* Proofs about RateLimiter for any clients, requests, rate, burst and     *)
(* cleanup interval: idle buckets go, no bucket has two clients, and       *)
(* eviction cannot be observed.                                            *)
(***************************************************************************)
EXTENDS RateLimiter, TLAPS

\* What a bucket has got back, at least, since it was looked up n ticks ago:
\* its last token may have been taken MaxStall ticks after that.
Credit(n) == Rate * (n - MaxStall)

\* A request is no older than the last access of its client.
IdleNotLate ==
  \A r \in Requests : pending[r] # None =>
    /\ limiters[pending[r].client].idle <= pending[r].late
    /\ pending[r].late <= MaxStall

\* Buckets refill while they are idle.
Refilling ==
  \A c \in Named : limiters[c] # None =>
    \/ level[limiters[c].bucket] = Burst
    \/ level[limiters[c].bucket] >= Credit(limiters[c].idle)

\* The cleanup left nothing older than two intervals when it last ran.
IdleSinceCleanup ==
  running => \A c \in Named : limiters[c] # None => limiters[c].idle <= 2 * Interval + ticker

IInv == TypeOK /\ BucketsNotShared /\ IdleNotLate /\ Refilling /\ IdleSinceCleanup

LEMMA Sizes ==
  Burst \in Nat \ {0} /\ Rate \in Nat \ {0} /\ Interval \in Nat \ {0} /\ MaxStall \in Nat
  BY LimiterAssumption

\* A tick is worth Rate tokens.
LEMMA CreditGrows ==
  ASSUME NEW n \in Nat
  PROVE  /\ Credit(n) \in Int
         /\ Credit(n + 1) = Credit(n) + Rate
  BY LimiterAssumption DEF Credit

\* A bucket that is touched, or loses a token in time, is owed nothing.
LEMMA NoCredit ==
  ASSUME NEW n \in Nat, n <= MaxStall
  PROVE  Credit(n) <= 0
  BY LimiterAssumption DEF Credit

\* A bucket that may be evicted is owed a burst.
LEMMA FullCredit ==
  ASSUME NEW n \in Nat, n > 2 * Interval
  PROVE  Credit(n) >= Burst
<1>1. n - MaxStall >= 2 * Interval + 1 - MaxStall
  BY LimiterAssumption
<1>2. \A x, y \in Int : x >= y => Rate * x >= Rate * y
  BY LimiterAssumption
<1>. QED  BY <1>1, <1>2, LimiterAssumption DEF Credit

\* NewPerClientRateLimiter establishes the invariant.
LEMMA InitIInv == Init => IInv
<1>. SUFFICES ASSUME Init PROVE IInv
  OBVIOUS
<1>1. TypeOK
  <2>1. level \in [Buckets -> 0 .. Burst] /\ global \in 0 .. Burst /\ ticker \in 0 .. Interval
    BY Sizes DEF Init
  <2>2. limiters \in [Named -> {None} \cup Entry] /\ pending \in [Requests -> {None} \cup Ticket]
    BY DEF Init
  <2>3. running \in BOOLEAN /\ quit \in BOOLEAN
    BY DEF Init
  <2>. QED  BY <2>1, <2>2, <2>3 DEF TypeOK
<1>2. BucketsNotShared /\ IdleNotLate /\ Refilling /\ IdleSinceCleanup
  BY DEF Init, BucketsNotShared, IdleNotLate, Refilling, IdleSinceCleanup
<1>. QED  BY <1>1, <1>2 DEF IInv

\* The bucket of a new client belongs to nobody.
LEMMA NewIsFree ==
  ASSUME Buckets \ Held # {}
  PROVE  New \in Buckets /\ New \notin Held
  BY DEF New

\* Allow under mu preserves the invariant, for a known and for a new client.
LEMMA LookupIInv ==
  ASSUME IInv, NEW r \in Requests, NEW c \in Named, Lookup(r, c)
  PROVE  IInv'
<1>. DEFINE b == IF limiters[c] # None THEN limiters[c].bucket ELSE New
<1>. USE DEF IInv
<1>1. b \in Buckets /\ (limiters[c] = None => b \notin Held)
  BY NewIsFree, NoneAssumption DEF Lookup, TypeOK, Entry
<1>2. /\ limiters' = [limiters EXCEPT ![c] = [bucket |-> b, idle |-> 0]]
      /\ level' = IF limiters[c] # None THEN level ELSE [level EXCEPT ![b] = Burst]
      /\ pending' = [pending EXCEPT ![r] = [client |-> c, bucket |-> b, late |-> 0]]
      /\ pending[r] = None
      /\ UNCHANGED <<global, ticker, running, quit>>
  BY DEF Lookup, Touch
<1>. HIDE DEF b
<1>3. [bucket |-> b, idle |-> 0] \in Entry /\ [client |-> c, bucket |-> b, late |-> 0] \in Ticket
  BY <1>1 DEF Entry, Ticket
<1>4. [bucket |-> b, idle |-> 0] # None /\ [client |-> c, bucket |-> b, late |-> 0] # None
  BY <1>3, NoneAssumption
<1>5. TypeOK'
  BY <1>1, <1>2, <1>3, Sizes DEF TypeOK
<1>6. \A d \in Named \ {c} : limiters[d] # None => limiters[d].bucket # b
  <2>1. CASE limiters[c] # None
    BY <2>1 DEF BucketsNotShared, b
  <2>2. CASE limiters[c] = None
    BY <2>2, <1>1 DEF Held
  <2>. QED  BY <2>1, <2>2
<1>7. BucketsNotShared'
  BY <1>2, <1>4, <1>6 DEF BucketsNotShared, TypeOK, Ticket, b
<1>8. IdleNotLate'
  BY <1>2, Sizes DEF IdleNotLate, TypeOK, Ticket
<1>9. Refilling'
  <2>. SUFFICES ASSUME NEW d \in Named, limiters'[d] # None
                PROVE  \/ level'[limiters'[d].bucket] = Burst
                       \/ level'[limiters'[d].bucket] >= Credit(limiters'[d].idle)
    BY DEF Refilling
  <2>1. CASE d # c
    BY <2>1, <1>2, <1>6 DEF Refilling, TypeOK, Entry
  <2>2. CASE d = c
    <3>1. limiters'[d] = [bucket |-> b, idle |-> 0]
      BY <2>2, <1>2 DEF TypeOK
    <3>2. level'[b] \in Nat /\ Credit(0) \in Int /\ Credit(0) <= 0
      BY <1>1, <1>5, Sizes, NoCredit, CreditGrows DEF TypeOK
    <3>. QED  BY <3>1, <3>2
  <2>. QED  BY <2>1, <2>2
<1>10. IdleSinceCleanup'
  BY <1>2, Sizes DEF IdleSinceCleanup, TypeOK
<1>. QED  BY <1>5, <1>7, <1>8, <1>9, <1>10

\* Taking the token preserves the invariant: the bucket is in the map still.
LEMMA TakeIInv ==
  ASSUME IInv, NEW r \in Requests, Take(r)
  PROVE  IInv'
<1>. USE DEF IInv, Take
<1>1. pending[r] \in Ticket /\ pending[r].bucket \in Buckets /\ pending[r].client \in Named
  BY DEF TypeOK, Ticket
<1>2. TypeOK'
  BY <1>1, Sizes DEF TypeOK
<1>3. BucketsNotShared' /\ IdleNotLate' /\ IdleSinceCleanup'
  BY DEF BucketsNotShared, IdleNotLate, IdleSinceCleanup, TypeOK
<1>4. Refilling'
  <2>. SUFFICES ASSUME NEW d \in Named, limiters[d] # None
                PROVE  \/ level'[limiters[d].bucket] = Burst
                       \/ level'[limiters[d].bucket] >= Credit(limiters[d].idle)
    BY DEF Refilling
  <2>1. limiters[d] \in Entry /\ limiters[d].bucket \in Buckets /\ limiters[d].idle \in Nat
    BY DEF TypeOK, Entry
  <2>2. CASE limiters[d].bucket # pending[r].bucket
    BY <2>1, <2>2, <1>1 DEF Refilling, TypeOK
  <2>3. CASE limiters[d].bucket = pending[r].bucket
    <3>1. d = pending[r].client
      BY <2>3, <1>1 DEF BucketsNotShared
    <3>2. limiters[d].idle <= MaxStall
      BY <3>1, <2>1, <1>1, Sizes DEF IdleNotLate, Ticket
    <3>3. level'[limiters[d].bucket] \in Nat
      BY <1>2, <2>1, Sizes DEF TypeOK
    <3>. QED  BY <2>1, <3>2, <3>3, NoCredit, CreditGrows
  <2>. QED  BY <2>2, <2>3
<1>. QED  BY <1>2, <1>3, <1>4

\* Eviction preserves the invariant: no request holds a bucket that goes.
LEMMA EvictIInv ==
  ASSUME IInv, EvictIdle
  PROVE  IInv'
<1>. USE DEF IInv, EvictIdle
<1>1. TypeOK'
  BY Sizes DEF TypeOK
<1>2. \A r \in Requests : pending[r] # None => ~Idle(pending[r].client)
  BY LimiterAssumption DEF IdleNotLate, BucketsNotShared, TypeOK, Ticket, Entry, Idle
<1>3. BucketsNotShared' /\ IdleNotLate'
  BY <1>2 DEF BucketsNotShared, IdleNotLate, TypeOK, Ticket
<1>4. Refilling'
  BY DEF Refilling, TypeOK
<1>5. IdleSinceCleanup'
  BY Sizes DEF IdleSinceCleanup, TypeOK, Entry, Idle
<1>. QED  BY <1>1, <1>3, <1>4, <1>5

\* Time preserves the invariant: whoever grows idle is refilled.
LEMMA TickIInv ==
  ASSUME IInv, Tick
  PROVE  IInv'
<1>. USE DEF IInv, Tick
<1>1. \A c \in Named : limiters[c] # None =>
        /\ limiters[c] \in Entry
        /\ limiters'[c] = [limiters[c] EXCEPT !.idle = Older(@)]
        /\ limiters'[c] \in Entry /\ limiters'[c] # None
        /\ limiters'[c].bucket = limiters[c].bucket
        /\ limiters'[c].idle = Older(limiters[c].idle)
  BY Sizes, NoneAssumption DEF TypeOK, Entry, Older
<1>2. \A r \in Requests : pending[r] # None =>
        /\ pending[r] \in Ticket
        /\ pending'[r] \in Ticket /\ pending'[r] # None
        /\ pending'[r].client = pending[r].client
        /\ pending'[r].bucket = pending[r].bucket
        /\ pending'[r].late = pending[r].late + 1
  BY NoneAssumption DEF TypeOK, Ticket
<1>3. /\ \A c \in Named : limiters[c] = None <=> limiters'[c] = None
      /\ \A r \in Requests : pending[r] = None <=> pending'[r] = None
  BY <1>1, <1>2
<1>4. TypeOK'
  <2>1. level' \in [Buckets -> 0 .. Burst] /\ global' \in 0 .. Burst /\ ticker' \in 0 .. Interval
    BY Sizes DEF TypeOK, Refilled
  <2>2. limiters' \in [Named -> {None} \cup Entry] /\ pending' \in [Requests -> {None} \cup Ticket]
    BY <1>1, <1>2
  <2>. QED  BY <2>1, <2>2 DEF TypeOK
<1>5. BucketsNotShared'
  BY <1>1, <1>2, <1>3 DEF BucketsNotShared, Ticket
<1>6. IdleNotLate'
  <2>. SUFFICES ASSUME NEW r \in Requests, pending'[r] # None
                PROVE  /\ limiters'[pending'[r].client].idle <= pending'[r].late
                       /\ pending'[r].late <= MaxStall
    BY DEF IdleNotLate
  <2>. DEFINE c == pending[r].client
  <2>1. pending[r] # None /\ c \in Named /\ limiters[c] # None /\ limiters[c].idle \in Nat
        /\ pending[r].late \in Nat
    BY <1>1, <1>2, <1>3 DEF BucketsNotShared, Ticket, Entry
  <2>2. limiters[c].idle <= pending[r].late /\ pending[r].late < MaxStall
    BY <2>1 DEF IdleNotLate
  <2>3. pending'[r].late = pending[r].late + 1 /\ pending'[r].client = c
        /\ limiters'[c].idle = Older(limiters[c].idle)
    BY <1>1, <1>2, <2>1
  <2>. QED  BY <2>1, <2>2, <2>3, Sizes DEF Older
<1>7. Refilling'
  <2>. SUFFICES ASSUME NEW c \in Named, limiters'[c] # None
                PROVE  \/ level'[limiters'[c].bucket] = Burst
                       \/ level'[limiters'[c].bucket] >= Credit(limiters'[c].idle)
    BY DEF Refilling
  <2>. DEFINE l == level[limiters[c].bucket]  n == limiters[c].idle
  <2>1. limiters[c] # None /\ n \in Nat /\ limiters[c].bucket \in Buckets /\ l \in 0 .. Burst
    BY <1>1, <1>3 DEF TypeOK, Entry
  <2>2. level'[limiters'[c].bucket] = Refilled(l) /\ limiters'[c].idle = Older(n)
    BY <1>1, <2>1 DEF TypeOK
  <2>3. l = Burst \/ l >= Credit(n)
    BY <2>1 DEF Refilling
  <2>. HIDE DEF l, n
  <2>4. Refilled(l) = Burst \/ (Refilled(l) = l + Rate /\ l # Burst)
    <3>1. l \in Nat /\ l <= Burst
      BY <2>1, Sizes
    <3>. QED  BY <3>1, Sizes DEF Refilled
  <2>5. Credit(n) \in Int /\ Credit(n + 1) = Credit(n) + Rate
    BY <2>1, CreditGrows
  <2>6. Refilled(l) = Burst \/ Refilled(l) >= Credit(Older(n))
    BY <2>1, <2>3, <2>4, <2>5, Sizes DEF Older
  <2>. QED  BY <2>2, <2>6
<1>8. IdleSinceCleanup'
  <2>. SUFFICES ASSUME running, NEW c \in Named, limiters'[c] # None
                PROVE  limiters'[c].idle <= 2 * Interval + ticker'
    BY DEF IdleSinceCleanup
  <2>1. limiters[c] # None /\ limiters[c].idle \in Nat
        /\ limiters'[c].idle = Older(limiters[c].idle)
    BY <1>1, <1>3 DEF Entry
  <2>2. limiters[c].idle <= 2 * Interval + ticker
    BY <2>1 DEF IdleSinceCleanup
  <2>3. ticker \in Nat /\ ticker < Interval /\ ticker' = ticker + 1
    <3>1. ticker # Interval /\ ticker \in 0 .. Interval
      BY DEF CleanupDue, TypeOK
    <3>2. ticker' = IF ticker < Interval THEN ticker + 1 ELSE ticker
      OBVIOUS
    <3>. HIDE DEF Tick, IInv
    <3>. QED  BY <3>1, <3>2, Sizes
  <2>. QED  BY <2>1, <2>2, <2>3, Sizes DEF Older
<1>. QED  BY <1>4, <1>5, <1>6, <1>7, <1>8

\* The remaining steps touch none of the buckets of clients.
LEMMA OtherIInv ==
  ASSUME IInv, TakeGlobal \/ Stop \/ LoopEnds \/ UNCHANGED vars
  PROVE  IInv'
<1>. USE DEF IInv, TypeOK, BucketsNotShared, IdleNotLate, Refilling, IdleSinceCleanup
<1>1. CASE TakeGlobal
  BY <1>1, Sizes DEF TakeGlobal
<1>2. CASE Stop
  BY <1>2 DEF Stop
<1>3. CASE LoopEnds
  BY <1>3 DEF LoopEnds
<1>4. CASE UNCHANGED vars
  BY <1>4 DEF vars
<1>. QED  BY <1>1, <1>2, <1>3, <1>4

LEMMA NextIInv == IInv /\ [Next]_vars => IInv'
<1>. SUFFICES ASSUME IInv, [Next]_vars PROVE IInv'
  OBVIOUS
<1>. QED  BY LookupIInv, TakeIInv, EvictIInv, TickIInv, OtherIInv DEF Next

THEOREM Invariance == Spec => []IInv
  BY InitIInv, NextIInv, PTL DEF Spec

\* p.limiters, its buckets and the requests between lookup and token keep their
\* types.
THEOREM TypeCorrect == Spec => []TypeOK
  BY Invariance, PTL DEF IInv

\* Two clients never share a bucket, and no request is left with a bucket that
\* has been evicted.
THEOREM NoSharing == Spec => []BucketsNotShared
  BY Invariance, PTL DEF IInv

\* While the cleanup runs, p.limiters holds nobody who has been idle for more
\* than three intervals.
THEOREM Evicted == Spec => []IdleBucketsEvicted
<1>1. IInv => IdleBucketsEvicted
  BY Sizes DEF IInv, IdleSinceCleanup, IdleBucketsEvicted, TypeOK, Entry
<1>. QED  BY <1>1, Invariance, PTL

\* Eviction cannot be observed, for any rate and interval that refill a bucket
\* before it is evicted: Allow answers as if every bucket were kept for ever.
THEOREM Refinement == Spec => ImplementsTokenBuckets
<1>1. Init => Ideal!BucketsInit
  BY DEF Init, Ideal!BucketsInit, Balance, Clients
<1>2. IInv /\ [Next]_vars => [Ideal!BucketsNext]_(Ideal!bucketVars)
  <2>. SUFFICES ASSUME IInv, [Next]_vars
                PROVE  Ideal!BucketsNext \/ UNCHANGED <<Balance, verdict>>
    BY DEF Ideal!bucketVars
  <2>. USE DEF IInv
  <2>1. ASSUME NEW r \in Requests, NEW c \in Named, Lookup(r, c)
        PROVE  Ideal!Quiet
    <3>1. CASE limiters[c] # None
      BY <2>1, <3>1, NoneAssumption DEF Lookup, Touch, Ideal!Quiet, Balance, Clients, TypeOK, Entry
    <3>2. CASE limiters[c] = None
      <4>1. New \in Buckets /\ New \notin Held
        BY <2>1, <3>2, NewIsFree DEF Lookup
      <4>2. [bucket |-> New, idle |-> 0] # None
        BY <4>1, NoneAssumption DEF Entry
      <4>3. /\ limiters' = [limiters EXCEPT ![c] = [bucket |-> New, idle |-> 0]]
            /\ level' = [level EXCEPT ![New] = Burst]
            /\ global' = global /\ verdict' = None
        BY <2>1, <3>2 DEF Lookup, Touch
      <4>4. \A d \in Named : limiters[d] # None => limiters[d].bucket \in Buckets /\ limiters[d].bucket # New
        BY <4>1 DEF Held, TypeOK, Entry
      <4>5. ASSUME NEW d \in Clients PROVE Balance'[d] = Balance[d]
        BY <3>2, <4>1, <4>2, <4>3, <4>4 DEF Balance, Clients, TypeOK
      <4>. QED  BY <4>3, <4>5 DEF Ideal!Quiet, Balance
    <3>. QED  BY <3>1, <3>2
  <2>2. ASSUME NEW r \in Requests, Take(r)
        PROVE  Ideal!Allow(pending[r].client)
    <3>. DEFINE c == pending[r].client  b == pending[r].bucket
    <3>1. c \in Named /\ c # Anonymous /\ b \in Buckets
          /\ limiters[c] # None /\ limiters[c].bucket = b
      BY <2>2, LimiterAssumption DEF Take, TypeOK, Ticket, BucketsNotShared
    <3>2. Balance[c] = level[b]
      BY <3>1 DEF Balance, Clients
    <3>3. /\ verdict' = [client |-> c, ok |-> level[b] > 0]
          /\ level' = IF level[b] > 0 THEN [level EXCEPT ![b] = @ - 1] ELSE level
          /\ limiters' = limiters /\ global' = global
      BY <2>2 DEF Take
    <3>4. \A d \in Named \ {c} : limiters[d] # None =>
            limiters[d].bucket \in Buckets /\ limiters[d].bucket # b
      BY <3>1 DEF BucketsNotShared, TypeOK, Entry
    <3>. HIDE DEF c, b
    <3>5. CASE level[b] > 0
      <4>1. Balance' = [Balance EXCEPT ![c] = @ - 1]
        BY <3>1, <3>2, <3>3, <3>4, <3>5 DEF Balance, Clients, TypeOK
      <4>. QED  BY <4>1, <3>1, <3>2, <3>3, <3>5 DEF Ideal!Allow, Ideal!Spend, Ideal!Allows, c
    <3>6. CASE ~(level[b] > 0)
      <4>1. Balance' = Balance
        BY <3>3, <3>6 DEF Balance
      <4>. QED  BY <4>1, <3>1, <3>2, <3>3, <3>6 DEF Ideal!Allow, Ideal!Spend, Ideal!Allows, c
    <3>. QED  BY <3>5, <3>6
  <2>3. ASSUME TakeGlobal PROVE Ideal!Allow(Anonymous)
    <3>1. Balance[Anonymous] = global /\ Balance'[Anonymous] = global'
      BY DEF Balance, Clients
    <3>2. \A d \in Clients \ {Anonymous} : Balance'[d] = Balance[d]
      BY <2>3 DEF TakeGlobal, Balance, Clients
    <3>3. Balance' = IF global > 0 THEN [Balance EXCEPT ![Anonymous] = @ - 1] ELSE Balance
      BY <2>3, <3>1, <3>2 DEF TakeGlobal, Balance, Clients
    <3>. QED  BY <2>3, <3>1, <3>3 DEF TakeGlobal, Ideal!Allow, Ideal!Spend, Ideal!Allows
  <2>4. ASSUME EvictIdle PROVE Ideal!Quiet
    <3>1. \A c \in Named : Idle(c) => level[limiters[c].bucket] = Burst
      <4>. SUFFICES ASSUME NEW c \in Named, Idle(c) PROVE level[limiters[c].bucket] = Burst
        OBVIOUS
      <4>1. limiters[c] # None /\ limiters[c].idle \in Nat /\ limiters[c].idle > 2 * Interval
            /\ level[limiters[c].bucket] \in 0 .. Burst
        BY DEF Idle, TypeOK, Entry
      <4>2. Credit(limiters[c].idle) >= Burst /\ Credit(limiters[c].idle) \in Int
        BY <4>1, FullCredit, CreditGrows
      <4>. QED  BY <4>1, <4>2, Sizes DEF Refilling
    <3>2. \A c \in Clients : Balance'[c] = Balance[c]
      BY <2>4, <3>1, LimiterAssumption DEF EvictIdle, Balance, Clients, Idle
    <3>. QED  BY <2>4, <3>2 DEF EvictIdle, Ideal!Quiet, Balance
  <2>5. ASSUME Tick PROVE Ideal!Refill
    <3>1. \A c \in Named : limiters[c] # None =>
            /\ limiters[c].bucket \in Buckets
            /\ limiters'[c] # None /\ limiters'[c].bucket = limiters[c].bucket
      BY <2>5, Sizes, NoneAssumption DEF Tick, TypeOK, Entry, Older
    <3>2. \A c \in Named : limiters[c] = None => limiters'[c] = None
      BY <2>5 DEF Tick
    <3>3. Refilled(Burst) = Burst
      BY Sizes DEF Refilled
    <3>4. \A c \in Clients : Balance'[c] = Refilled(Balance[c])
      <4>1. Balance'[Anonymous] = Refilled(Balance[Anonymous])
        BY <2>5 DEF Tick, Balance, Clients
      <4>2. ASSUME NEW c \in Named, limiters[c] = None PROVE Balance'[c] = Refilled(Balance[c])
        BY <3>2, <3>3, <4>2, LimiterAssumption DEF Balance, Clients
      <4>3. ASSUME NEW c \in Named, limiters[c] # None PROVE Balance'[c] = Refilled(Balance[c])
        <5>1. level'[limiters[c].bucket] = Refilled(level[limiters[c].bucket])
          BY <2>5, <3>1, <4>3 DEF Tick
        <5>. QED  BY <3>1, <4>3, <5>1, LimiterAssumption DEF Balance, Clients
      <4>. QED  BY <4>1, <4>2, <4>3 DEF Clients
    <3>5. \A n : Ideal!Refilled(n) = Refilled(n)
      BY DEF Ideal!Refilled, Refilled
    <3>6. Balance' = [c \in Clients |-> Refilled(Balance[c])]
      BY <3>4 DEF Balance
    <3>7. verdict' = None
      BY <2>5 DEF Tick
    <3>. QED  BY <3>5, <3>6, <3>7 DEF Ideal!Refill, Ideal!RefillAll
  <2>6. ASSUME Stop \/ LoopEnds PROVE Ideal!Quiet
    BY <2>6 DEF Stop, LoopEnds, Ideal!Quiet, Balance
  <2>7. ASSUME UNCHANGED vars PROVE UNCHANGED <<Balance, verdict>>
    BY <2>7 DEF vars, Balance
  <2>8. \A r \in Requests : Take(r) => pending[r].client \in Clients
    BY DEF Take, TypeOK, Ticket, Clients
  <2>. QED
    BY <2>1, <2>2, <2>3, <2>4, <2>5, <2>6, <2>7, <2>8 DEF Next, Ideal!BucketsNext, Clients
<1>. QED  BY <1>1, <1>2, Invariance, PTL DEF Spec, ImplementsTokenBuckets, Ideal!BucketsSpec
=============================================================================
