------------------------------ MODULE UserStore ------------------------------
(***************************************************************************)
(* What storage.Repository promises of the stored users, whichever backend *)
(* is behind it (internal/storage/storage.go): users come and go one whole *)
(* operation at a time, never more than MaxUsers, an idempotency key never *)
(* owns two users, and a read-modify-update loses no other write.          *)
(*                                                                         *)
(* A stored user is the sequence of writes it consists of: Create and      *)
(* Update start it afresh, ReadModifyUpdate builds on what it loaded.      *)
(***************************************************************************)
EXTENDS Integers, Sequences, FiniteSets

CONSTANTS
  Ids,        \* user ids
  Keys,       \* non-empty idempotency keys
  Marks,      \* what one write writes
  MaxUsers,
  None

VARIABLES
  users,      \* the stored users; None where there is none
  owner       \* the live user each key stands for; None where there is none

storeVars == <<users, owner>>

Live == {i \in Ids : users[i] # None}

StoreInit ==
  /\ users = [i \in Ids |-> None]
  /\ owner = [k \in Keys |-> None]

Insert(id, m) ==
  /\ users[id] = None
  /\ Cardinality(Live) < MaxUsers
  /\ users' = [users EXCEPT ![id] = <<m>>]

StoreCreate(id, m) == Insert(id, m) /\ UNCHANGED owner

StoreCreateKeyed(id, k, m) ==
  /\ owner[k] = None
  /\ Insert(id, m)
  /\ owner' = [owner EXCEPT ![k] = id]

StoreUpdate(id, m) ==
  /\ users[id] # None
  /\ users' = [users EXCEPT ![id] = <<m>>]
  /\ UNCHANGED owner

StoreModify(id, m) ==
  /\ users[id] # None
  /\ users' = [users EXCEPT ![id] = Append(users[id], m)]
  /\ UNCHANGED owner

StoreDelete(id) ==
  /\ users[id] # None
  /\ users' = [users EXCEPT ![id] = None]
  /\ owner' = [k \in Keys |-> IF owner[k] = id THEN None ELSE owner[k]]

StoreNext ==
  \E id \in Ids :
    \/ StoreDelete(id)
    \/ \E m \in Marks :
         \/ StoreCreate(id, m)
         \/ \E k \in Keys : StoreCreateKeyed(id, k, m)
         \/ StoreUpdate(id, m)
         \/ StoreModify(id, m)

StoreSpec == StoreInit /\ [][StoreNext]_storeVars
=============================================================================
