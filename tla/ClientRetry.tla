---------------------------- MODULE ClientRetry ----------------------------
(***************************************************************************)
(* UnaryClientRetryInterceptor (pkg/interceptors/client_retry.go) in front *)
(* of CreateUser, UpdateUser and DeleteUser (internal/service/user.go) and *)
(* a repository that keeps the contract of UserStore.                      *)
(*                                                                         *)
(* An attempt is a request on its way to the server.  The client waits for *)
(* its answer, but may see the connection break or its own context end     *)
(* first: the request is then nobody's, and the server may still carry it  *)
(* out, before or after the next attempt.                                  *)
(*                                                                         *)
(* The Postgres repository runs an operation again when the database's     *)
(* answer is lost, also the answer to a commit (retryOperation): the next  *)
(* run finds what the last one has done.  Runs without effect leave        *)
(* nothing to find and are not counted.                                    *)
(***************************************************************************)
EXTENDS Integers, FiniteSetsExt, Sequences, Backoff

CONSTANTS
  Clients, Ids, Keys, MaxUsers, None,
  Plan,             \* the calls each client makes: a choice for every one
  Refusals,         \* codes of requests that are refused before they have effect
  retryAttempts,    \* of the repository
  MaxBackoff

Methods == {"CreateUser", "UpdateUser", "DeleteUser"}

\* max is RetryConfig.MaxAttempts, optIn that of WithRetryable.
Invocations == [op : Methods, key : Keys \cup {None}, optIn : BOOLEAN, max : Nat]

ASSUME RetryAssumption ==
  /\ IsFiniteSet(Ids)
  /\ Plan \in [Clients -> Seq(SUBSET Invocations)]
  /\ MaxUsers \in Nat /\ retryAttempts \in Nat \ {0}
  /\ MaxBackoff \in 1 .. 2 ^ (Width - 1) - 1
  /\ Ids \subseteq Nat /\ None \notin Ids /\ None \notin Keys
  /\ "OK" \notin Refusals

Calls == Clients \X (Nat \ {0})

\* run is that of the repository's operation; found, the user its key stood for
\* when a create looked it up.
Requests == [by : Calls, attempt : Nat \ {0}, op : Methods,
             id : Ids \cup {None}, key : Keys \cup {None}, optIn : BOOLEAN,
             run : Nat \ {0}, found : Ids \cup {None}]

ASSUME RequestAssumption == None \notin Requests

VARIABLES
  users, owner,     \* the repository
  call,             \* each client's call and where its loop is, or None
  flight,           \* attempts the server has not dealt with
  answer,           \* what the server answered the attempt a client waits for
  \* History:
  calls,            \* calls each client has made
  made,             \* the request each user was created by
  effect,           \* attempts that took effect, or found their effect done
  lost,             \* requests that did so and were run again, the answer being lost
  seen,             \* attempts with the code the client took them to end with
  ret               \* the result of the call that returned in this step

vars == <<users, owner, call, flight, answer, calls, made, effect, lost, seen, ret>>

INSTANCE UserStore WITH Marks <- Calls

Init ==
  /\ StoreInit
  /\ call = [c \in Clients |-> None]
  /\ flight = {}
  /\ answer = [c \in Clients |-> None]
  /\ calls = [c \in Clients |-> 0]
  /\ made = [i \in Ids |-> None]
  /\ effect = {}
  /\ lost = {}
  /\ seen = {}
  /\ ret = None
-----------------------------------------------------------------------------
(* The client's loop *)

RetryableCodes ==
  {"Unavailable", "DeadlineExceeded", "ResourceExhausted", "Aborted", "Internal"}
safeRetryableCodes == {"Unavailable", "ResourceExhausted"}

shouldRetryAny(optIn, code) == code \in RetryableCodes
shouldRetry(optIn, code) ==
  code \in IF optIn THEN RetryableCodes ELSE safeRetryableCodes

\* The request of attempt a of the call a client is making.
Request(c, rec, a) ==
  [by |-> <<c, calls'[c]>>, attempt |-> a, op |-> rec.op, id |-> rec.id,
   key |-> rec.key, optIn |-> rec.optIn, run |-> 1, found |-> None]

Tag(r) == <<r.by, r.attempt>>
Current(c) == <<<<c, calls[c]>>, call[c].attempt>>

Outcome(c, rec, code, id) ==
  [by |-> <<c, calls'[c]>>, code |-> code, id |-> id, op |-> rec.op,
   key |-> rec.key, target |-> rec.id, max |-> rec.max]

Returned(c, code, id) ==
  /\ call' = [call EXCEPT ![c] = None]
  /\ ret' = Outcome(c, call[c], code, id)

Invoke(c, rec, a) ==
  /\ call' = [call EXCEPT ![c] = [rec EXCEPT !.pc = "invoke", !.attempt = a]]
  /\ flight' = flight \cup {Request(c, rec, a)}
  /\ ret' = None

\* A call begins.  With max = 0 the loop is never entered, and lastErr
\* is nil.
Begin(c, m, id) ==
  /\ m.op = "CreateUser" <=> id = None
  /\ m.op # "CreateUser" => m.key = None /\ made[id] # None
  /\ calls' = [calls EXCEPT ![c] = @ + 1]
  /\ LET rec == [op |-> m.op, id |-> id, key |-> m.key, optIn |-> m.optIn,
                 max |-> m.max, attempt |-> 0, pc |-> "backoff"]
     IN  \/ /\ m.max = 0
            /\ ret' = Outcome(c, rec, "OK", None)
            /\ UNCHANGED <<call, flight>>
         \/ m.max > 0 /\ Invoke(c, rec, 1)
  /\ UNCHANGED <<users, owner, answer, made, effect, lost, seen>>

Call(c, id) ==
  /\ call[c] = None /\ calls[c] < Len(Plan[c])
  /\ \E m \in Plan[c][calls[c] + 1] : Begin(c, m, id)

ExhaustedIsNil(c, code, id) ==
  /\ seen' = seen \cup {<<Current(c), code>>}
  /\ answer' = [answer EXCEPT ![c] = None]
  /\ UNCHANGED <<users, owner, flight, calls, made, effect, lost>>
  /\ IF shouldRetry(call[c].optIn, code)
     THEN IF call[c].attempt < call[c].max
          THEN call' = [call EXCEPT ![c].pc = "backoff"] /\ ret' = None
          ELSE Returned(c, "OK", id)
     ELSE Returned(c, code, id)

\* invoker has returned: nil and terminal codes end the call, others are tried
\* again while attempts are left.
Result(c, code, id) ==
  /\ seen' = seen \cup {<<Current(c), code>>}
  /\ answer' = [answer EXCEPT ![c] = None]
  /\ UNCHANGED <<users, owner, flight, calls, made, effect, lost>>
  /\ IF shouldRetry(call[c].optIn, code) /\ call[c].attempt < call[c].max
     THEN call' = [call EXCEPT ![c].pc = "backoff"] /\ ret' = None
     ELSE Returned(c, code, id)

At(c, pc) == call[c] # None /\ call[c].pc = pc

Deliver(c) ==
  /\ At(c, "invoke") /\ answer[c] # None
  /\ Result(c, answer[c].code, answer[c].id)

\* The connection breaks, or was never made.
Break(c) == At(c, "invoke") /\ Result(c, "Unavailable", None)

\* The backoff is over.
Retry(c) ==
  /\ At(c, "backoff")
  /\ calls' = calls
  /\ Invoke(c, call[c], call[c].attempt + 1)
  /\ UNCHANGED <<users, owner, answer, made, effect, lost, seen>>

\* The context ends: invoker returns its error, and so does the loop, which
\* looks at the context before it goes on even if the code may be retried.
Expire(c) ==
  /\ call[c] # None
  /\ answer' = [answer EXCEPT ![c] = None]
  /\ seen' = IF At(c, "invoke") THEN seen \cup {<<Current(c), "DeadlineExceeded">>} ELSE seen
  /\ calls' = calls
  /\ Returned(c, "DeadlineExceeded", None)
  /\ UNCHANGED <<users, owner, flight, made, effect, lost>>
-----------------------------------------------------------------------------
(* The server *)

mapStorageErrorExhausted(err) ==
  CASE err = "nil"              -> "OK"
    [] err = "context"          -> "DeadlineExceeded"
    [] err = "ErrNotFound"      -> "NotFound"
    [] OTHER                    -> "ResourceExhausted"

\* The code each of the repository's errors reaches the client as; "other" is
\* any it has no name for: a wrapped Postgres error, ErrCircuitOpen.
mapStorageError(err) ==
  CASE err = "nil"              -> "OK"
    [] err = "context"          -> "DeadlineExceeded"
    [] err = "ErrNotFound"      -> "NotFound"
    [] err = "ErrCapacity"      -> "ResourceExhausted"
    [] err = "ErrAlreadyExists" -> "AlreadyExists"
    [] err = "other"            -> "Unavailable"

\* The answer reaches the client if it still waits for this attempt.
Answer(r, code, id) ==
  LET c == r.by[1] IN
  /\ flight' = flight \ {r}
  /\ answer' = IF At(c, "invoke") /\ Current(c) = Tag(r)
               THEN [answer EXCEPT ![c] = [code |-> code, id |-> id]] ELSE answer

\* The server goes on with the request.
Proceed(r, next) ==
  /\ flight' = (flight \ {r}) \cup {next}
  /\ UNCHANGED answer

Fails(r, err) ==
  /\ Answer(r, mapStorageError(err), None)
  /\ UNCHANGED <<users, owner, made, effect, lost>>

\* retryOperation: isRetryableError is true of the error, and runs are left.
RunAgain(r) ==
  /\ r.run < retryAttempts
  /\ Proceed(r, [r EXCEPT !.run = @ + 1, !.found = None])
  /\ lost' = lost \cup {r}

\* The repository has committed.  Its answer may be lost, or the context end.
Committed(r, id) ==
  /\ effect' = effect \cup {Tag(r)}
  /\ \/ \E err \in {"nil", "context", "other"} :
          /\ Answer(r, mapStorageError(err), IF err = "nil" THEN id ELSE None)
          /\ UNCHANGED lost
     \/ RunAgain(r)

\* newID: random, so never one that was given out before.  Ids are numbered in
\* the order of creation.
FreshId(id) == made[id] = None /\ \A j \in Ids : j < id => made[j] # None

\* The handler draws the id before the first run, and all of them use it.
Own(r) == {i \in Ids : made[i] # None /\ Tag(made[i]) = Tag(r)}
Drawn(r, id) == IF Own(r) = {} THEN FreshId(id) ELSE id \in Own(r)

Full == Cardinality(Live) >= MaxUsers

\* The INSERT, which finds the user there if it is that of an earlier run.
InsertUser(r, id) ==
  \/ ~Full /\ users[id] # None /\ Fails(r, "ErrAlreadyExists")
  \/ /\ IF r.key = None THEN StoreCreate(id, r.by) ELSE StoreCreateKeyed(id, r.key, r.by)
     /\ made' = [made EXCEPT ![id] = IF @ = None THEN r ELSE @]
     /\ Committed(r, id)

KeyIgnored(r) ==
  \/ Full /\ Fails(r, "ErrCapacity")
  \/ \E id \in Ids :
       /\ Drawn(r, id) /\ StoreCreate(id, r.by)
       /\ made' = [made EXCEPT ![id] = IF @ = None THEN r ELSE @]
       /\ Committed(r, id)

\* A create whose key is there loads the user in a second statement, before
\* which the user may be deleted.
CreateUser(r) ==
  LET hit == r.key # None /\ owner[r.key] # None IN
  \/ /\ r.found # None /\ users[r.found] # None
     /\ Committed(r, r.found) /\ UNCHANGED <<users, owner, made>>
  \/ r.found # None /\ users[r.found] = None /\ Fails(r, "ErrNotFound")
  \/ /\ r.found = None /\ hit
     /\ Proceed(r, [r EXCEPT !.found = owner[r.key]])
     /\ UNCHANGED <<users, owner, made, effect, lost>>
  \/ r.found = None /\ ~hit /\ Full /\ Fails(r, "ErrCapacity")
  \/ r.found = None /\ ~hit /\ \E id \in Ids : Drawn(r, id) /\ InsertUser(r, id)

\* ReadModifyUpdate with the request's fields.
UpdateUser(r) ==
  \/ users[r.id] = None /\ Fails(r, "ErrNotFound")
  \/ StoreModify(r.id, r.by) /\ Committed(r, r.id) /\ UNCHANGED made

DeleteUser(r) ==
  \/ users[r.id] = None /\ Fails(r, "ErrNotFound")
  \/ StoreDelete(r.id) /\ Committed(r, r.id) /\ UNCHANGED made

\* Refused by an interceptor (rate, capacity, credentials), or a panic; or the
\* repository fails without effect.
Refuse(r) ==
  /\ r.run = 1
  /\ \E code \in Refusals : Answer(r, code, None)
  /\ UNCHANGED <<users, owner, made, effect, lost>>

\* A later run fails, without further effect.
GiveUp(r) == r.run > 1 /\ \E err \in {"context", "other"} : Fails(r, err)

Serve(r) ==
  /\ \/ r.op = "CreateUser" /\ CreateUser(r)
     \/ r.op = "UpdateUser" /\ UpdateUser(r)
     \/ r.op = "DeleteUser" /\ DeleteUser(r)
     \/ Refuse(r) \/ GiveUp(r)
  /\ ret' = None
  /\ UNCHANGED <<call, calls, seen>>

Next ==
  \/ \E c \in Clients :
       \/ Deliver(c) \/ Break(c) \/ Retry(c) \/ Expire(c)
       \/ \E id \in Ids \cup {None} : Call(c, id)
  \/ \E r \in flight : Serve(r)

Spec == Init /\ [][Next]_vars
-----------------------------------------------------------------------------
(* Properties *)

Made(by) == {i \in Ids : made[i] # None /\ made[i].by = by}

\* "Without the WithRetryable opt-in only the always-safe codes are retried, so
\* mutations are not replayed on ambiguous failures" (shouldRetry): a create
\* without key and opt-in leaves two users only when an attempt that was
\* carried out looked Unavailable to the client, or ResourceExhausted because
\* the repository lost the answer to its commit and ran it again; never after a
\* deadline, an abort or an internal error.
DuplicatesOnlyAfterLostAnswer ==
  \A i \in Ids : made[i] # None /\ ~made[i].optIn /\ Cardinality(Made(made[i].by)) > 1 =>
    \E t \in effect :
      /\ t[1] = made[i].by
      /\ \/ <<t, "Unavailable">> \in seen
         \/ <<t, "ResourceExhausted">> \in seen /\ \E q \in lost : Tag(q) = t

\* "codes where the server provably did not process the request" are always
\* retried (safeRetryableCodes).  ResourceExhausted keeps that but for a create:
\* the repository lost the answer to its commit, ran it again, and the second
\* run found the store full, of what the first has stored or of others.
ExhaustedAppliedOnlyIfLost ==
  \A t \in effect : <<t, "ResourceExhausted">> \in seen =>
    \E q \in lost : Tag(q) = t /\ q.op = "CreateUser"

\* A create with an idempotency key, however often it is sent and in whatever
\* order its attempts are carried out, stands for one live user.
KeyedCreateOneUser ==
  \A i, j \in Live : made[i].by = made[j].by /\ made[i].key # None => i = j

\* A call that returned nil has been carried out (unless MaxAttempts is 0), and
\* a create returns a user of its key or, without key, one that it made itself:
\* not the answer to another attempt, and not the nil of a loop that gave up.
\* A live user holds the update that was acknowledged, unless it was deleted and
\* its create, run again, has stored it anew.
OKMeansApplied ==
  ret # None /\ ret.code = "OK" /\ ret.max > 0 =>
    /\ \E t \in effect : t[1] = ret.by
    /\ ret.op = "CreateUser" =>
         /\ ret.id \in Ids
         /\ IF ret.key = None THEN made[ret.id].by = ret.by ELSE made[ret.id].key = ret.key
    /\ ret.op = "UpdateUser" /\ users[ret.target] # None =>
         \/ \E k \in DOMAIN users[ret.target] : users[ret.target][k] = ret.by
         \/ \E q \in lost : Tag(q) = Tag(made[ret.target])

\* backoff: "a uniform random value in (0, cap]", for every attempt and every
\* base up to MaxBackoff, overflow included; without overflow cap is base doubled attempt times, or
\* MaxBackoff.  backoffDuration: "an exponential backoff with capped 25 % jitter":
\* while base does not overflow, the wait is within a quarter of the doubled base
\* or cap.
BackoffInRange ==
  calls = [c \in Clients |-> 0] =>
    \A max \in 1 .. MaxBackoff : \A base \in 1 .. max, attempt \in 0 .. Width + 1 :
      LET overflows == base * 2 ^ attempt >= 2 ^ (Width - 1)
          d == Min({base * 2 ^ attempt, max})
      IN  /\ backoff(base, attempt, max) \subseteq 1 .. max
          /\ ~overflows => \A w \in backoffDuration(base, attempt, max) : 4 * w \in 3 * d .. 5 * d
          /\ ~overflows /\ attempt < Width - 2 => BackoffCap(base, attempt, max) = d
=============================================================================
