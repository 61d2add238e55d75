-------------------------- MODULE MemoryRepository --------------------------
(***************************************************************************)
(* MemoryRepository (internal/storage/memory.go).  Every operation runs    *)
(* under r.mu and is one action, except ReadModifyUpdate, which calls the  *)
(* caller's function while it holds the lock: loading and storing are two  *)
(* actions with the lock held in between.  Get, List and Ping change       *)
(* nothing (List is in PagedList); argument and context checks that fail   *)
(* before the lock is taken change nothing either and are left out.        *)
(*                                                                         *)
(* The service draws ids at random (newID, internal/service/user.go:463):  *)
(* an id given to Create may collide with a live user's but is never that  *)
(* of a user who was deleted.                                              *)
(***************************************************************************)
EXTENDS Integers, Sequences, FiniteSets

CONSTANTS Ids, Keys, Marks, MaxUsers, None,
          MaxWrites                 \* bound on the writes a row remembers

ASSUME MemoryAssumption ==
  /\ IsFiniteSet(Ids)
  /\ MaxUsers \in Nat
  /\ MaxWrites \in Nat
  /\ None \notin Ids \cup Keys \cup Seq(Marks)

VARIABLES
  users,      \* r.users; None for a missing entry
  idem,       \* r.idem; None for a missing entry
  closed,
  rmu,        \* the ReadModifyUpdate that holds r.mu, or None
  \* History, read by no guard but that of a fresh id:
  used,       \* ids ever stored
  origin,     \* the key each user was created with
  replay      \* the last operation's replay, if it was one: key and user

vars == <<users, idem, closed, rmu, used, origin, replay>>

Live == {i \in Ids : users[i] # None}

Init ==
  /\ users = [i \in Ids |-> None]
  /\ idem = [k \in Keys |-> None]
  /\ closed = FALSE
  /\ rmu = None
  /\ used = {}
  /\ origin = [i \in Ids |-> None]
  /\ replay = None
-----------------------------------------------------------------------------
NoMutex == TRUE
MutexFree == rmu = None

Available == ~closed

\* The key is recorded and its user is still there.
HitKnownKey(key) == key # None /\ idem[key] # None
Hit(key) == key # None /\ idem[key] # None /\ users[idem[key]] # None

Room == Cardinality(Live) < MaxUsers

FreshId(id) == id \notin used \/ users[id] # None

Record(key, id) == idem' = IF key = None THEN idem ELSE [idem EXCEPT ![key] = id]

Replay(key) ==
  /\ Hit(key)
  /\ replay' = <<key, idem[key]>>
  /\ UNCHANGED <<users, idem, used, origin>>

Store(id, key, m) ==
  /\ ~Hit(key)
  /\ Room
  /\ users[id] = None
  /\ users' = [users EXCEPT ![id] = <<m>>]
  /\ Record(key, id)
  /\ used' = used \cup {id}
  /\ origin' = [origin EXCEPT ![id] = key]
  /\ replay' = None

\* ErrUnavailable, ErrCapacity, ErrAlreadyExists.
Refuse(id, key) ==
  /\ ~Available \/ (~Hit(key) /\ (~Room \/ users[id] # None))
  /\ replay' = None
  /\ UNCHANGED <<users, idem, used, origin>>

\* Create is CreateWithIdempotency with the empty key, here None.
CreateWithIdempotency(id, key, m) ==
  /\ MutexFree
  /\ FreshId(id)
  /\ \/ Available /\ (Replay(key) \/ Store(id, key, m))
     \/ Refuse(id, key)
  /\ UNCHANGED <<closed, rmu>>

Update(id, m) ==
  /\ MutexFree
  /\ Available
  /\ users[id] # None
  /\ users' = [users EXCEPT ![id] = <<m>>]
  /\ replay' = None
  /\ UNCHANGED <<idem, closed, rmu, used, origin>>

\* Takes the lock, loads and clones the user, and calls mutate.
ReadModifyUpdateLoad(id, m) ==
  /\ MutexFree
  /\ Available
  /\ users[id] # None
  /\ Len(users[id]) < MaxWrites
  /\ rmu' = [id |-> id, mark |-> m, working |-> Append(users[id], m)]
  /\ replay' = None
  /\ UNCHANGED <<users, idem, closed, used, origin>>

\* mutate returned: the copy is stored, or its error is; the lock is released.
ReadModifyUpdateStore ==
  /\ rmu # None
  /\ \/ users' = [users EXCEPT ![rmu.id] = rmu.working]
     \/ UNCHANGED users
  /\ rmu' = None
  /\ replay' = None
  /\ UNCHANGED <<idem, closed, used, origin>>

\* The key of a deleted user stays in r.idem.
Delete(id) ==
  /\ MutexFree
  /\ Available
  /\ users[id] # None
  /\ users' = [users EXCEPT ![id] = None]
  /\ replay' = None
  /\ UNCHANGED <<idem, closed, rmu, used, origin>>

Close ==
  /\ MutexFree
  /\ closed' = TRUE
  /\ replay' = None
  /\ UNCHANGED <<users, idem, rmu, used, origin>>

Next ==
  \/ \E id \in Ids, m \in Marks :
       \/ \E key \in Keys \cup {None} : CreateWithIdempotency(id, key, m)
       \/ Update(id, m)
       \/ ReadModifyUpdateLoad(id, m)
  \/ \E id \in Ids : Delete(id)
  \/ ReadModifyUpdateStore
  \/ Close

Spec == Init /\ [][Next]_vars
-----------------------------------------------------------------------------
(* Properties *)

\* The maps hold users and ids; the holder of the lock is an update at work.
TypeOK ==
  /\ users \in [Ids -> Seq(Marks) \cup {None}]
  /\ idem \in [Keys -> Ids \cup {None}]
  /\ closed \in BOOLEAN
  /\ rmu \in [id : Ids, mark : Marks, working : Seq(Marks)] \cup {None}
  /\ used \subseteq Ids
  /\ origin \in [Ids -> Keys \cup {None}]
  /\ replay \in (Keys \X Ids) \cup {None}

\* No sequence of creates and deletes takes the repository over maxUsers.
CapacityHeld == Cardinality(Live) <= MaxUsers

\* storage.go: "a retry with the same key returns the previously created user
\* (replayed=true) instead of creating a duplicate".  No two stored users were
\* created with the same key, also after the key's first user was deleted and
\* the key used again.
OneUserPerKey ==
  \A i, j \in Live : origin[i] = origin[j] /\ origin[i] # None => i = j

\* A replay returns a stored user, and the one that was created with that key.
ReplayReturnsOriginal ==
  replay # None => users[replay[2]] # None /\ origin[replay[2]] = replay[1]

\* Close "makes subsequent operations fail closed rather than accepting writes":
\* nothing is stored or removed after it.
FailsClosed == [][closed => UNCHANGED <<users, idem>>]_vars

\* The key's live user: an entry of r.idem whose user is gone stands for none.
Owner == [k \in Keys |-> IF Hit(k) THEN idem[k] ELSE None]

Contract == INSTANCE UserStore WITH owner <- Owner

\* The repository's contract: every step is one of UserStore's, or changes
\* nothing a caller can see.
ImplementsUserStore == Contract!StoreSpec
=============================================================================
