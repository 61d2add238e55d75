---------------------------- MODULE RequestChain ----------------------------
(***************************************************************************)
(* Requests on their way through the server: the interceptors in the order *)
(* newGRPCServer (cmd/server/main.go) puts them in, around the handlers of *)
(* UserService, with callers told apart by Authenticator and the limits of *)
(* TokenBuckets (which RateLimiter implements).                            *)
(*                                                                         *)
(* A request goes in, interceptor by interceptor, until one refuses it or  *)
(* the handler has run, and then out again through those it has passed.  A *)
(* panic goes out too, but runs only what was deferred.  Request ids and   *)
(* logging change nothing that a later step reads, and are left out.       *)
(***************************************************************************)
EXTENDS UserService, Authenticator, FiniteSetsExt

CONSTANTS
  Slots,          \* requests that are served at the same time
  Methods,        \* the methods called in each slot
  Senders,        \* the metadata requests come with
  Metadata,       \* the metadata authenticate is judged on
  Subjects,       \* the client ids of authenticated callers
  Burst, GlobalBurst, Rate,
  MaxInFlight,    \* max_in_flight_requests; 0 is no limit
  MaxMessages,    \* maxStreamMessages
  MaxNow          \* bound on the clock

RPCs == {"GetUser", "CreateUser", "UpdateUser", "DeleteUser", "HealthCheck",
         "StreamUserEvents", "CollectUserMetrics", "ChatStream"}

ASSUME ChainAssumption ==
  /\ \A s \in Slots : Methods[s] \subseteq RPCs
  /\ IsFiniteSet(Slots) /\ IsFiniteSet(Ids) /\ None \notin Ids
  /\ MaxInFlight \in Nat /\ MaxMessages \in Nat \ {0} /\ MaxNow \in Nat
  /\ Burst \in Nat \ {0} /\ GlobalBurst \in Nat \ {0} /\ Rate \in Nat \ {0}

Codes ==
  {"OK", "context", "panic", "Unknown", "InvalidArgument", "NotFound", "AlreadyExists", "Canceled",
   "ResourceExhausted", "Internal", "Unavailable", "Unauthenticated", "PermissionDenied"}
Clients == Subjects \cup {Anonymous}
Credentials == UNION {Presented(md) : md \in Metadata \cup Senders}

\* The server does not start without an authenticator.  No signature is made
\* with a missing key.
ASSUME CredentialAssumption ==
  /\ authenticator # Absent /\ Skew \in Nat /\ Absent \notin Int /\ Bad \notin Int
  /\ AuthConfig.jwtPublicKey # Absent => AuthConfig.jwtPublicKey.key # Absent
  /\ \A md \in Metadata \cup Senders : \A h \in {md.authorization, md.apiKey} :
       Len(h) \in Nat /\ DOMAIN h = 1 .. Len(h)
  /\ \A c \in Credentials :
       \/ c.kind = "opaque" /\ Absent \notin {c, keyClaims(authenticator, c.value)}
       \/ /\ c.kind = "token" /\ Absent \notin {c, tokenClaims(c)}
          /\ {c.exp, c.nbf, c.iat} \subseteq Int \cup {Absent, Bad} /\ c.sig # <<c.alg, Absent>>

\* Subjects has every client that may send a request.
ASSUME ClientAssumption ==
  /\ \A md \in Senders, t \in 0 .. MaxNow :
       authenticate(md, t) # Absent => authenticate(md, t).subject \in Clients
  /\ None \notin Nat
  /\ None \notin Codes \cup {"authn", "authz"} \cup [code : Codes, client : Clients]

VARIABLES
  now,            \* the clock tokens are judged by
  users,          \* the repository
  req,            \* the request in each slot, with what was recorded of it
  global, quota,  \* the tokens of the global bucket, and of each client's
  sem, inFlight,  \* the semaphore and the gauge beside it
  activeStreams   \* the gauge of open streams

limits == <<global, quota>>
slots == <<sem, inFlight>>
vars == <<now, users, req, global, quota, sem, inFlight, activeStreams>>

Global == INSTANCE TokenBuckets WITH
  Clients <- {"all"}, Burst <- GlobalBurst, tokens <- global, verdict <- None
PerClient == INSTANCE TokenBuckets WITH
  Clients <- Clients, tokens <- quota, verdict <- None

NoRequest == [phase |-> "none"]

Init ==
  /\ now = 0
  /\ users = [i \in Ids |-> None]
  /\ req = [s \in Slots |-> NoRequest]
  /\ global = [g \in {"all"} |-> GlobalBurst]
  /\ quota = [c \in Clients |-> Burst]
  /\ sem = 0 /\ inFlight = 0 /\ activeStreams = 0
-----------------------------------------------------------------------------
(* The chain *)

Unary(m) == m \notin {"StreamUserEvents", "CollectUserMetrics", "ChatStream"}
requiresAuth(m) == m # "HealthCheck"
isMutation(m) == m \in {"CreateUser", "UpdateUser", "DeleteUser", "CollectUserMetrics"}

AcquiresBeforeAuth ==
  <<"recovery", "metrics", "limit", "acquire", "gauge", "auth", "quota", "authorize", "audit">>

\* The concurrency limit is two steps, semaphore and gauge.
UnaryChain ==
  <<"recovery", "metrics", "limit", "auth", "quota", "authorize", "acquire", "gauge", "audit">>
StreamChain ==
  <<"recovery", "metrics", "limit", "auth", "quota", "authorize", "audit">>

Chain(m) == IF Unary(m) THEN UnaryChain ELSE StreamChain

Active(s) == req[s].phase # "none"
Entering(s, name) ==
  req[s].phase = "in" /\ Chain(req[s].method)[req[s].at] = name
Leaving(s, name) ==
  req[s].phase = "out" /\ Chain(req[s].method)[req[s].at] = name

Set(s, r) == req' = [req EXCEPT ![s] = r]

\* On to the next interceptor; audit, the last, calls the handler at once.
Onward(r) ==
  [r EXCEPT !.at = @ + 1,
            !.phase = IF r.at + 1 = Len(Chain(r.method)) THEN "handler" ELSE "in"]

\* Out, to the nearest interceptor before r.at that still has something to do.
Back(r) ==
  [r EXCEPT !.phase = "out",
            !.at = Max({k \in 1 .. r.at - 1 :
              Chain(r.method)[k] \in {"recovery", "metrics", "acquire", "gauge", "audit"}})]

Reject(r, err) == Back([r EXCEPT !.err = err])
Finish(r, err, applied) ==
  Back([r EXCEPT !.err = err, !.applied = applied, !.at = @ + 1, !.n = 0, !.open = FALSE])
-----------------------------------------------------------------------------
(* Going in *)

\* Panic recovery, and what the metrics interceptor does before it goes on.
Arrive(s, m, md) ==
  /\ ~Active(s)
  /\ Set(s, [method |-> m, md |-> md, claims |-> Absent, phase |-> "in", at |-> 3,
             err |-> None, applied |-> FALSE, n |-> 0, open |-> FALSE,
             judged |-> None, charged |-> FALSE, audit |-> None, denied |-> None, recorded |-> None])
  /\ activeStreams' = IF Unary(m) THEN activeStreams ELSE activeStreams + 1
  /\ UNCHANGED <<now, users, limits, slots>>

RateLimit(s) ==
  /\ Entering(s, "limit")
  /\ Set(s, IF Global!Allows("all") THEN Onward(req[s]) ELSE Reject(req[s], "ResourceExhausted"))
  /\ Global!Spend("all")
  /\ UNCHANGED <<now, users, quota, slots, activeStreams>>

Authenticate(s) ==
  /\ Entering(s, "auth")
  /\ LET r == [req[s] EXCEPT !.judged = now]
         claims == authenticate(r.md, now)
     IN  \/ ~requiresAuth(r.method) /\ Set(s, Onward(req[s]))
         \/ requiresAuth(r.method) /\ claims # Absent /\ Set(s, Onward([r EXCEPT !.claims = claims]))
         \/ /\ requiresAuth(r.method) /\ claims = Absent
            /\ Set(s, Reject([r EXCEPT !.denied = "authn"], "Unauthenticated"))
  /\ UNCHANGED <<now, users, limits, slots, activeStreams>>

extractClientID(r) == IF r.claims = Absent THEN Anonymous ELSE r.claims.subject

PerClientLimit(s) ==
  /\ Entering(s, "quota")
  /\ LET c == extractClientID(req[s]) IN
     /\ Set(s, IF PerClient!Allows(c) THEN Onward([req[s] EXCEPT !.charged = TRUE])
               ELSE Reject(req[s], "ResourceExhausted"))
     /\ PerClient!Spend(c)
  /\ UNCHANGED <<now, users, global, slots, activeStreams>>

Authorize(s) ==
  /\ Entering(s, "authorize")
  /\ LET r == req[s] IN
     Set(s, IF requiresAuth(r.method) => authorize(r.method, r.claims) THEN Onward(r)
            ELSE Reject([r EXCEPT !.denied = "authz"], "PermissionDenied"))
  /\ UNCHANGED <<now, users, limits, slots, activeStreams>>

Limited(m) == MaxInFlight > 0 /\ requiresAuth(m)

\* sem <- struct{}{}, or the request is shed.
Acquire(s) ==
  /\ Entering(s, "acquire")
  /\ \/ ~Limited(req[s].method) /\ Set(s, Onward(req[s])) /\ UNCHANGED sem
     \/ Limited(req[s].method) /\ sem < MaxInFlight /\ sem' = sem + 1 /\ Set(s, Onward(req[s]))
     \/ /\ Limited(req[s].method) /\ sem >= MaxInFlight
        /\ Set(s, Reject(req[s], "ResourceExhausted")) /\ UNCHANGED sem
  /\ UNCHANGED <<now, users, limits, inFlight, activeStreams>>

AddInFlight(s) ==
  /\ Entering(s, "gauge")
  /\ inFlight' = IF Limited(req[s].method) THEN inFlight + 1 ELSE inFlight
  /\ Set(s, Onward(req[s]))
  /\ UNCHANGED <<now, users, limits, sem, activeStreams>>
-----------------------------------------------------------------------------
(* The handlers *)

Handling(s, m) == req[s].phase = "handler" /\ req[s].method = m

EndHandler(s, err) == Set(s, Finish(req[s], err, FALSE))

Data == [id : Ids \cup {None}, name : Names, email : Emails, age : Ages]
UserHandler(m, d) ==
  CASE m = "GetUser"     -> GetUser(users, d)
    [] m = "CreateUser"  -> CreateUser(users, d)
    [] m = "UpdateUser"  -> UpdateUser(users, d)
    [] m = "DeleteUser"  -> DeleteUser(users, d)
    [] m = "HealthCheck" -> Outcomes({"OK"}, FALSE, users)

Handle(s) ==
  /\ req[s].phase = "handler" /\ Unary(req[s].method)
  /\ \E d \in Data : \E o \in UserHandler(req[s].method, d) :
       users' = o.users /\ Set(s, Finish(req[s], o.err, o.applied))
  /\ UNCHANGED <<now, limits, slots, activeStreams>>

handlerFrame == <<now, users, limits, slots, activeStreams>>

\* StreamUserEvents until its first tick: its own checks, then GetUser.
OpenEvents(s) ==
  /\ Handling(s, "StreamUserEvents") /\ ~req[s].open
  /\ \/ \E err \in {"InvalidArgument", "ResourceExhausted"} : EndHandler(s, err)
     \/ \E id \in Ids : \E o \in GetUser(users, [id |-> id]) :
          IF o.err = "OK" THEN Set(s, [req[s] EXCEPT !.open = TRUE]) ELSE EndHandler(s, o.err)
  /\ UNCHANGED handlerFrame

\* One turn of its loop: an event, a failing Send, or the end of the context.
SendEvent(s) ==
  /\ Handling(s, "StreamUserEvents") /\ req[s].open
  /\ \/ req[s].n < MaxMessages /\ Set(s, [req[s] EXCEPT !.n = @ + 1])
     \/ req[s].n < MaxMessages /\ \E err \in {"context", "Unavailable"} : EndHandler(s, err)
     \/ req[s].n = MaxMessages /\ EndHandler(s, "OK")
  /\ UNCHANGED handlerFrame

\* One turn of CollectUserMetrics: a message, end of file (the summary is sent,
\* or Send fails), or an error of Recv.  The limit is checked first.
CollectMetric(s) ==
  /\ Handling(s, "CollectUserMetrics")
  /\ \/ req[s].n >= MaxMessages /\ EndHandler(s, "ResourceExhausted")
     \/ req[s].n < MaxMessages /\ Set(s, [req[s] EXCEPT !.n = @ + 1])
     \/ req[s].n < MaxMessages /\ EndHandler(s, "InvalidArgument")
     \/ \E err \in {"OK", "Canceled"} : EndHandler(s, err)
  /\ UNCHANGED handlerFrame

\* One turn of ChatStream, which does not count; open is that it has echoed.
Chat(s) ==
  /\ Handling(s, "ChatStream")
  /\ \/ Set(s, [req[s] EXCEPT !.open = TRUE])
     \/ \E err \in {"OK", "Canceled", "InvalidArgument", "Internal", "panic"} : EndHandler(s, err)
  /\ UNCHANGED handlerFrame
-----------------------------------------------------------------------------
(* Going out *)

AuditSuccesses(s) ==
  /\ Leaving(s, "audit")
  /\ LET r == req[s] IN
     Set(s, Back([r EXCEPT !.audit =
                    IF r.err = "OK" /\ isMutation(r.method)
                    THEN [code |-> getErrorCode(r.err), client |-> extractClientID(r)] ELSE None]))
  /\ UNCHANGED handlerFrame

\* Not deferred: a panic passes it by.
Audit(s) ==
  /\ Leaving(s, "audit")
  /\ LET r == req[s] IN
     Set(s, Back([r EXCEPT !.audit =
                    IF r.err # "panic" /\ isMutation(r.method)
                    THEN [code |-> getErrorCode(r.err), client |-> extractClientID(r)] ELSE None]))
  /\ UNCHANGED handlerFrame

\* Deferred, the gauge before the semaphore.
SubInFlight(s) ==
  /\ Leaving(s, "gauge")
  /\ inFlight' = IF Limited(req[s].method) THEN inFlight - 1 ELSE inFlight
  /\ Set(s, Back(req[s]))
  /\ UNCHANGED <<now, users, limits, sem, activeStreams>>

ReleaseUnlessPanic(s) ==
  /\ Leaving(s, "acquire")
  /\ sem' = IF Limited(req[s].method) /\ req[s].err # "panic" THEN sem - 1 ELSE sem
  /\ Set(s, Back(req[s]))
  /\ UNCHANGED <<now, users, limits, inFlight, activeStreams>>

Release(s) ==
  /\ Leaving(s, "acquire")
  /\ sem' = IF Limited(req[s].method) THEN sem - 1 ELSE sem
  /\ Set(s, Back(req[s]))
  /\ UNCHANGED <<now, users, limits, inFlight, activeStreams>>

\* Duration and error, unless a panic; DecActiveStreams, deferred.
Record(s) ==
  /\ Leaving(s, "metrics")
  /\ LET r == req[s] IN
     /\ Set(s, Back([r EXCEPT !.recorded = IF r.err = "panic" THEN None ELSE getErrorCode(r.err)]))
     /\ activeStreams' = IF ~Unary(r.method) /\ activeStreams > 0 THEN activeStreams - 1
                         ELSE activeStreams
  /\ UNCHANGED <<now, users, limits, slots>>

\* Panic recovery; the answer is sent.
Recover(s) ==
  /\ Leaving(s, "recovery")
  /\ Set(s, NoRequest)
  /\ UNCHANGED handlerFrame
-----------------------------------------------------------------------------
\* Buckets refill many times before the time of a claim is reached.
Tick ==
  /\ now' \in {now} \cup ({now + 1} \cap 0 .. MaxNow)
  /\ Global!RefillAll /\ PerClient!RefillAll
  /\ UNCHANGED <<users, req, slots, activeStreams>>

\* What the server does by itself, and what it does when the client sends.
Step(s) ==
  \/ RateLimit(s) \/ Authenticate(s) \/ PerClientLimit(s) \/ Authorize(s)
  \/ Acquire(s) \/ AddInFlight(s)
  \/ Handle(s) \/ OpenEvents(s) \/ SendEvent(s)
  \/ Audit(s) \/ SubInFlight(s) \/ Release(s) \/ Record(s) \/ Recover(s)

Receive(s) == CollectMetric(s) \/ Chat(s)

Next ==
  \/ Tick
  \/ \E s \in Slots :
       Step(s) \/ Receive(s) \/ \E m \in Methods[s], md \in Senders : Arrive(s, m, md)

Spec == Init /\ [][Next]_vars
-----------------------------------------------------------------------------
(* Properties *)

\* All has been done for the request but to send its answer.
Done(s) == Leaving(s, "recovery")

\* From the step that takes what an interceptor gives back on the way out to
\* the step that gives it back.
Inside(s, name) ==
  /\ Active(s)
  /\ \E k \in DOMAIN Chain(req[s].method) :
       /\ Chain(req[s].method)[k] = name
       /\ IF req[s].phase = "out" THEN req[s].at >= k ELSE req[s].at > k

\* A slot of the semaphore is held by each limited request between acquiring
\* and releasing it and by nobody else, and the gauge of active streams counts
\* the streams inside the metrics interceptor: every way out, a panic included,
\* gives back once what was taken.
SlotsConserved ==
  /\ sem = Cardinality({s \in Slots : Inside(s, "acquire") /\ Limited(req[s].method)})
  /\ inFlight = Cardinality({s \in Slots : Inside(s, "gauge") /\ Limited(req[s].method)})
  /\ activeStreams = Cardinality({s \in Slots : Inside(s, "metrics") /\ ~Unary(req[s].method)})
  /\ inFlight <= sem /\ sem <= MaxInFlight

\* "a slot represents real, authorized, DB-bound work - an unauthenticated
\* flood cannot occupy slots": who holds a slot, or has reached a handler, had
\* a credential that was vouched for when it was judged, and a scope its method
\* asks for.  "denied-but-authenticated spam counts against the caller's
\* per-client quota": who is denied for lack of scope has spent a token of their
\* own, and nobody is charged before they are known.
ChainOrder ==
  \A s \in Slots : Active(s) =>
    /\ requiresAuth(req[s].method) /\ (Inside(s, "acquire") \/ req[s].phase = "handler") =>
         /\ req[s].judged # None
         /\ \E c \in Presented(req[s].md) : Vouched(c, req[s].judged)
         /\ authorize(req[s].method, req[s].claims)
    /\ req[s].denied = "authz" => req[s].charged
    /\ req[s].denied = "authn" => ~req[s].charged

\* parseClaims "returns its trusted subject and scopes ONLY on success": when a
\* request is judged, of all metadata it may have come with only such with a
\* vouched credential is accepted, and a vouched credential that is presented
\* alone and properly always is.
OnlyVouchedAccepted ==
  \A s \in Slots : Entering(s, "auth") =>
    \A md \in Metadata :
      IF authenticate(md, now) # Absent THEN \E c \in Presented(md) : Vouched(c, now)
      ELSE Alone(md) => \A c \in Presented(md) : ~Vouched(c, now)

\* "writes an audit record for every mutating unary RPC, including its terminal
\* status code": a mutation that took effect, also one that ended with an
\* error, is recorded with the client it was made for, unless its handler
\* panicked; so is every denial.  Audit and metrics agree with each other, and
\* with the code that is sent, except for the error of a context: "Unknown" is
\* recorded and DeadlineExceeded sent.
RecordsTruthful ==
  \A s \in Slots : Done(s) =>
    LET r == req[s]
        sent == WireCode(r.err)
    IN  /\ r.applied /\ r.err # "panic" => r.audit # None /\ r.audit.client = r.claims.subject
        /\ r.audit # None => isMutation(r.method) /\ r.denied = None /\ r.audit.code = r.recorded
        /\ r.err \in {"Unauthenticated", "PermissionDenied"} <=> r.denied # None
        /\ r.recorded = None <=> r.err = "panic"
        /\ r.recorded # None => r.recorded = sent \/ (r.recorded = "Unknown" /\ sent = "DeadlineExceeded")

\* Whatever creates and updates follow each other, a stored user has a name, an
\* email address and an age, though each update sends only some of them.
StoredUsersValid == \A i \in Live(users) : ValidUser(users[i])
=============================================================================
