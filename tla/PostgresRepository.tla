------------------------- MODULE PostgresRepository -------------------------
(***************************************************************************)
(* PostgresRepository (internal/storage/postgres.go) over one database.    *)
(* Every operation is a transaction that retryOperation runs up to         *)
(* MaxAttempts times; a step is one statement of it.  What a transaction   *)
(* has written becomes visible when it commits, and its locks (the shared  *)
(* capacity advisory lock, FOR UPDATE on a row) are held until it ends.    *)
(* A statement may fail, and a commit may take effect although its error   *)
(* says otherwise: the connection broke before the answer arrived.         *)
(*                                                                         *)
(* Get and List are single reads and change nothing.  As in the service,   *)
(* every create brings an id of its own.                                   *)
(***************************************************************************)
EXTENDS Integers, Sequences, FiniteSets

CONSTANTS Callers, Ids, Keys, MaxUsers, None,
          Ops,              \* the operations callers ask for
          MaxAttempts,      \* retryAttempts
          MaxWrites,        \* bound: a longer row gets no new ReadModifyUpdate
          CommitsGetLost    \* whether a commit's answer may be lost

ASSUME PostgresAssumption ==
  /\ IsFiniteSet(Ids)
  /\ Ops \subseteq {"create", "update", "rmu", "delete"}
  /\ MaxUsers \in Nat /\ MaxAttempts \in Nat \ {0} /\ MaxWrites \in Nat
  /\ CommitsGetLost \in BOOLEAN
  /\ None \notin Ids \cup Keys \cup Callers \cup Seq(Callers)

VARIABLES
  users,      \* committed rows of users: the writes each consists of, or None
  keys,       \* committed rows of idempotency_keys: the user_id, or None
  advisory,   \* holder of pg_advisory_xact_lock(userCapacityLock), or None
  rows,       \* holder of each row's FOR UPDATE lock, or None
  call,       \* each caller's operation and the statement it is at, or None
  \* History:
  used,       \* ids given to creates
  origin,     \* the key each id was created with
  ret         \* what the last step returned to its caller, if anything

vars == <<users, keys, advisory, rows, call, used, origin, ret>>

Live == {i \in Ids : users[i] # None}

Init ==
  /\ users = [i \in Ids |-> None]
  /\ keys = [k \in Keys |-> None]
  /\ advisory = None
  /\ rows = [i \in Ids |-> None]
  /\ call = [c \in Callers |-> None]
  /\ used = {}
  /\ origin = [i \in Ids |-> None]
  /\ ret = None
-----------------------------------------------------------------------------
(* Calls, transactions and retries *)

At(c, pc) == call[c] # None /\ call[c].pc = pc

Goto(c, pc) ==
  /\ call' = [call EXCEPT ![c].pc = pc]
  /\ ret' = None

EndTxKeepsAdvisory(c) ==
  /\ advisory' = advisory
  /\ rows' = [i \in Ids |-> IF rows[i] = c THEN None ELSE rows[i]]

\* Commit or rollback: the transaction's locks are released.
EndTx(c) ==
  /\ advisory' = IF advisory = c THEN None ELSE advisory
  /\ rows' = [i \in Ids |-> IF rows[i] = c THEN None ELSE rows[i]]

\* The operation returns; mine says whether it changed the database.
Return(c, err, mine) ==
  /\ EndTx(c)
  /\ call' = [call EXCEPT ![c] = None]
  /\ ret' = [op |-> call[c].op, key |-> call[c].key, id |-> call[c].id,
             err |-> err, mine |-> mine]

Exhausted(c) == call[c].attempt >= MaxAttempts
ExhaustedIsSuccess(c, mine) ==
  IF Exhausted(c) THEN Return(c, "nil", mine)
  ELSE /\ EndTx(c)
       /\ call' = [call EXCEPT ![c] = [@ EXCEPT !.pc = "begin", !.mine = mine,
                                                !.attempt = call[c].attempt + 1]]
       /\ ret' = None

\* retryOperation after a transient error: the transaction again, or lastErr.
RetryOrGiveUp(c, mine) ==
  IF Exhausted(c) THEN Return(c, "transient", mine)
  ELSE /\ EndTx(c)
       /\ call' = [call EXCEPT ![c] = [@ EXCEPT !.pc = "begin", !.mine = mine,
                                                !.attempt = call[c].attempt + 1]]
       /\ ret' = None

\* Any other error, and a context that ends during a statement or the backoff.
Fail(c, mine) == RetryOrGiveUp(c, mine) \/ Return(c, "error", mine)

Fault(c) ==
  /\ call[c] # None
  /\ Fail(c, call[c].mine)
  /\ UNCHANGED <<users, keys, used, origin>>

Start(c, op, id, key) ==
  /\ call[c] = None
  /\ op = "create" => id \notin used
  /\ op # "create" => key = None
  /\ op = "rmu" /\ users[id] # None => Len(users[id]) < MaxWrites
  /\ call' = [call EXCEPT ![c] = [op |-> op, id |-> id, key |-> key, pc |-> "begin",
                                  attempt |-> 1, mine |-> FALSE, view |-> None]]
  /\ used' = IF op = "create" THEN used \cup {id} ELSE used
  /\ origin' = IF op = "create" THEN [origin EXCEPT ![id] = key] ELSE origin
  /\ ret' = None
  /\ UNCHANGED <<users, keys, advisory, rows>>
-----------------------------------------------------------------------------
(* Create and CreateWithIdempotency *)

AdvisoryIgnored(c) == TRUE
AdvisoryFree(c) == advisory = None

LockCapacityNoLookup(c) ==
  /\ At(c, "begin") /\ call[c].op = "create"
  /\ AdvisoryFree(c)
  /\ advisory' = c
  /\ Goto(c, "count")
  /\ UNCHANGED <<users, keys, rows, used, origin>>

LockCapacity(c) ==
  /\ At(c, "begin") /\ call[c].op = "create"
  /\ AdvisoryFree(c)
  /\ advisory' = c
  /\ Goto(c, IF call[c].key = None THEN "count" ELSE "lookup")
  /\ UNCHANGED <<users, keys, rows, used, origin>>

LookupKey(c) ==
  /\ At(c, "lookup")
  /\ LET existing == keys[call[c].key] IN
     call' = [call EXCEPT ![c] =
       [@ EXCEPT !.pc = IF existing = None THEN "count" ELSE "scan", !.view = existing]]
  /\ ret' = None
  /\ UNCHANGED <<users, keys, advisory, rows, used, origin>>

\* scanUserTx: Delete takes no advisory lock, the user may be gone by now.
ScanUser(c) ==
  /\ At(c, "scan")
  /\ \/ /\ users[call[c].view] # None
        /\ Goto(c, "replay")
        /\ UNCHANGED <<advisory, rows>>
     \/ /\ users[call[c].view] = None
        /\ Return(c, "ErrNotFound", call[c].mine)
  /\ UNCHANGED <<users, keys, used, origin>>

CommitReplay(c) ==
  /\ At(c, "replay")
  /\ Return(c, "nil", TRUE)
  /\ UNCHANGED <<users, keys, used, origin>>

CountUsers(c) ==
  /\ At(c, "count")
  /\ \/ /\ Cardinality(Live) < MaxUsers
        /\ Goto(c, "insert")
        /\ UNCHANGED <<advisory, rows>>
     \/ /\ Cardinality(Live) >= MaxUsers
        /\ Return(c, "ErrCapacity", call[c].mine)
  /\ UNCHANGED <<users, keys, used, origin>>

InsertUser(c) ==
  /\ At(c, "insert")
  /\ \/ /\ users[call[c].id] = None
        /\ Goto(c, "commit")
        /\ UNCHANGED <<advisory, rows>>
     \/ /\ users[call[c].id] # None
        /\ Return(c, "ErrAlreadyExists", call[c].mine)
  /\ UNCHANGED <<users, keys, used, origin>>
-----------------------------------------------------------------------------
(* Update, ReadModifyUpdate, Delete *)

RowIgnored(id) == TRUE
RowFree(id) == rows[id] = None

\* SELECT ... FOR UPDATE, and the row to write in its place: Update's own, or
\* the loaded one as the caller's function changed it.
LockRow(c) ==
  /\ At(c, "begin") /\ call[c].op \in {"update", "rmu"}
  /\ LET id == call[c].id IN
     \/ /\ users[id] = None
        /\ Return(c, "ErrNotFound", call[c].mine)
     \/ /\ users[id] # None
        /\ RowFree(id)
        /\ rows' = [rows EXCEPT ![id] = c]
        /\ call' = [call EXCEPT ![c] = [@ EXCEPT !.pc = "commit",
             !.view = IF call[c].op = "rmu" THEN Append(users[id], c) ELSE <<c>>]]
        /\ ret' = None
        /\ UNCHANGED advisory
  /\ UNCHANGED <<users, keys, used, origin>>

\* DELETE is a transaction of its own and waits for the row's lock.
DeleteRow(c) ==
  /\ At(c, "begin") /\ call[c].op = "delete"
  /\ \/ /\ users[call[c].id] = None
        /\ Return(c, "ErrNotFound", call[c].mine)
     \/ /\ users[call[c].id] # None
        /\ RowFree(call[c].id)
        /\ Goto(c, "commit")
        /\ rows' = [rows EXCEPT ![call[c].id] = c]
        /\ UNCHANGED advisory
  /\ UNCHANGED <<users, keys, used, origin>>
-----------------------------------------------------------------------------
(* Commit *)

\* What the transaction wrote becomes visible.  Deleting a user deletes its
\* idempotency key (ON DELETE CASCADE).
Apply(c) ==
  LET id == call[c].id IN
  /\ users' = [users EXCEPT ![id] = CASE call[c].op = "create" -> <<c>>
                                      [] call[c].op = "delete" -> None
                                      [] OTHER -> call[c].view]
  /\ keys' = [k \in Keys |->
                CASE call[c].op = "create" /\ k = call[c].key -> id
                  [] call[c].op = "delete" /\ keys[k] = id -> None
                  [] OTHER -> keys[k]]

Commit(c) ==
  /\ At(c, "commit")
  /\ Apply(c)
  /\ Return(c, "nil", TRUE)
  /\ UNCHANGED <<used, origin>>

\* The commit takes effect and its answer is lost.
CommitLost(c) ==
  /\ CommitsGetLost
  /\ At(c, "commit")
  /\ Apply(c)
  /\ Fail(c, TRUE)
  /\ UNCHANGED <<used, origin>>

Proceed(c) ==
  \/ LockCapacity(c) \/ LookupKey(c) \/ ScanUser(c) \/ CommitReplay(c)
  \/ CountUsers(c) \/ InsertUser(c)
  \/ LockRow(c) \/ DeleteRow(c)
  \/ Commit(c)

Next ==
  \E c \in Callers :
    \/ Proceed(c) \/ CommitLost(c) \/ Fault(c)
    \/ \E op \in Ops, id \in Ids, key \in Keys \cup {None} :
         Start(c, op, id, key)

Spec == Init /\ [][Next]_vars

\* A statement that can be executed is, and Postgres grants a lock to those who
\* wait for it in their order.  No fault is needed to make a caller proceed.
FairSpec == Spec /\ \A c \in Callers : SF_vars(Proceed(c))
-----------------------------------------------------------------------------
(* Properties *)

\* "concurrent creates with the same key cannot produce a duplicate": no two
\* rows were created with the same key, retries after a lost commit included.
OneUserPerKey ==
  \A i, j \in Live : origin[i] = origin[j] /\ origin[i] # None => i = j

\* An operation that returns no error has changed the database as it was asked
\* to, or has found the user its key stands for: the retry loop never turns the
\* last of several failures into a success.
NoErrorMeansCommitted == ret # None /\ ret.err = "nil" => ret.mine

\* A create with a key does not fail because of its own earlier attempt: after
\* a lost commit the retry finds the key and replays.
KeyedCreateSurvivesLostCommit ==
  ret # None /\ ret.op = "create" /\ ret.key # None
    => ~(ret.mine /\ ret.err = "ErrAlreadyExists")

Contract == INSTANCE UserStore WITH owner <- keys, Marks <- Callers

\* Each commit is one step of the repository's contract, in particular a
\* read-modify-update that commits has lost nobody's write.
ImplementsUserStore == Contract!StoreSpec

\* Every operation returns: no two transactions wait for each other, and the
\* retries come to an end.
CallsReturn == \A c \in Callers : call[c] # None ~> call[c] = None

\* A delete between the two lookups of a replay makes the create end with
\* ErrNotFound, which the contract has no place for ("a retry with the same key
\* returns the previously created user", storage.go).  It happens in no other
\* way, and harms no later attempt: the key went with its user, and nobody can
\* have taken it again.
NotFoundLeavesKeyFree ==
  ret # None /\ ret.op = "create" /\ ret.err = "ErrNotFound" =>
    ret.key # None /\ keys[ret.key] = None
=============================================================================
