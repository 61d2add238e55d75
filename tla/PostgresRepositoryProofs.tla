---------------------- MODULE PostgresRepositoryProofs ----------------------
(***************************************************************************)
(* Theorems about PostgresRepository for any callers, ids, keys, capacity, *)
(* number of attempts and choice of lost commits; then about the schema    *)
(* migrations it starts with (module Migrations), which have state and     *)
(* constants of their own.                                                 *)
(***************************************************************************)
EXTENDS PostgresRepository, Migrations, FiniteSetTheorems, TLAPS

\* A create holds the advisory lock from its first statement to its commit, so
\* what it has read of the keys and the capacity can only be undone by deletes.
Creating(c, r) ==
  /\ r.id \in used /\ origin[r.id] = r.key
  /\ r.pc # "begin" => advisory = c
  /\ r.pc \in {"lookup", "scan", "replay"} => r.key # None
  /\ r.pc \in {"scan", "replay"} => keys[r.key] \in {r.view, None}
  /\ r.pc \in {"count", "insert", "commit"} /\ r.key # None => keys[r.key] = None
  /\ r.pc \in {"insert", "commit"} => Cardinality(Live) < MaxUsers
  /\ r.pc = "commit" => users[r.id] = None

\* The other operations hold the lock of the row they are about to write.
Writing(c, r) ==
  r.pc # "begin" =>
    /\ r.pc = "commit" /\ rows[r.id] = c /\ users[r.id] # None
    /\ r.op = "update" => r.view = <<c>>
    /\ r.op = "rmu" => r.view = Append(users[r.id], c)

Fits(c, r) ==
  /\ DOMAIN r = {"op", "id", "key", "pc", "attempt", "mine", "view"}
  /\ r.op \in {"create", "update", "rmu", "delete"} /\ r.id \in Ids /\ r.key \in Keys \cup {None}
  /\ IF r.op = "create" THEN Creating(c, r) ELSE Writing(c, r)

\* The idempotency_keys rows are exactly those of the live users.
KeysPointBack ==
  /\ Live \subseteq used
  /\ \A k \in Keys, i \in Ids : keys[k] = i <=> users[i] # None /\ origin[i] = k

\* Two creates never have the same id.
OwnIds ==
  \A c, d \in Callers :
    /\ call[c] # None /\ call[c].op = "create"
    /\ call[d] # None /\ call[d].op = "create" /\ call[c].id = call[d].id
    => c = d

Shape ==
  /\ users \in [Ids -> Seq(Callers) \cup {None}]
  /\ keys \in [Keys -> Ids \cup {None}]
  /\ origin \in [Ids -> Keys \cup {None}]
  /\ DOMAIN rows = Ids /\ DOMAIN call = Callers

IInv ==
  /\ Shape /\ KeysPointBack /\ OwnIds
  /\ \A c \in Callers : call[c] # None => Fits(c, call[c])
-----------------------------------------------------------------------------
(* Helpers *)

\* Nobody else loses a lock in a step of c.
LocksKept(c) ==
  \A d \in Callers \ {c} :
    /\ advisory = d => advisory' = d
    /\ \A i \in Ids : rows[i] = d => rows'[i] = d

\* The call of c, back at the first statement.
Begun(c, r) ==
  /\ DOMAIN r = DOMAIN call[c] /\ r.pc = "begin"
  /\ r.op = call[c].op /\ r.id = call[c].id /\ r.key = call[c].key

\* A transaction that ends, with or without a further attempt.
Leaves(c) ==
  /\ LocksKept(c) /\ DOMAIN rows' = Ids
  /\ \E r : call' = [call EXCEPT ![c] = r] /\ (r # None => Begun(c, r))

LEMMA LiveFinite == IsFiniteSet(Live) /\ Cardinality(Live) \in Nat
<1>1. Live \subseteq Ids
  BY Zenon DEF Live
<1>. QED  BY <1>1, PostgresAssumption, FS_Subset, FS_CardinalityType, Zenon

\* A row is not None, whatever is written to it.
LEMMA RowsAreNotNone ==
  /\ \A c \in Callers : <<c>> \in Seq(Callers) /\ <<c>> # None
  /\ \A s \in Seq(Callers), c \in Callers :
       Append(s, c) \in Seq(Callers) /\ Append(s, c) # None
<1>1. \A c \in Callers : <<c>> \in Seq(Callers)
  OBVIOUS
<1>2. \A s \in Seq(Callers), c \in Callers : Append(s, c) \in Seq(Callers)
  OBVIOUS
<1>3. None \notin Seq(Callers)
  BY PostgresAssumption, Zenon
<1>. QED  BY <1>1, <1>2, <1>3, Zenon

LEMMA EndTxKeeps ==
  ASSUME NEW c \in Callers, EndTx(c)
  PROVE  LocksKept(c) /\ DOMAIN rows' = Ids
  BY DEF EndTx, LocksKept

\* Return, and the failures that lead to it or to another attempt.
LEMMA Leaving ==
  ASSUME NEW c \in Callers, IInv, call[c] # None, NEW e, NEW m, Return(c, e, m) \/ Fail(c, m)
  PROVE  Leaves(c)
<1>1. CASE \E x : Return(c, x, m)
  BY <1>1, EndTxKeeps, Zenon DEF Return, Leaves
<1>2. CASE /\ EndTx(c)
           /\ call' = [call EXCEPT ![c] = [@ EXCEPT !.pc = "begin", !.mine = m,
                                                    !.attempt = call[c].attempt + 1]]
  <2>. DEFINE r == [call[c] EXCEPT !.pc = "begin", !.mine = m,
                                   !.attempt = call[c].attempt + 1]
  <2>1. DOMAIN call[c] = {"op", "id", "key", "pc", "attempt", "mine", "view"}
    BY Zenon DEF IInv, Fits
  <2>2. Begun(c, r)
    BY <2>1, Zenon DEF Begun
  <2>3. call' = [call EXCEPT ![c] = r]
    BY <1>2, Zenon
  <2>. QED  BY <1>2, <2>2, <2>3, EndTxKeeps, Zenon DEF Leaves
<1>. QED  BY <1>1, <1>2, Zenon DEF Fail, RetryOrGiveUp

\* A new attempt knows nothing but what its call asked for.
LEMMA BegunFits ==
  ASSUME NEW c \in Callers, IInv, call[c] # None, NEW r, Begun(c, r), UNCHANGED <<used, origin>>
  PROVE  Fits(c, r)'
  BY DEF IInv, Fits, Begun, Creating, Writing

\* A step of c that leaves the tables as they are disturbs nobody else.
LEMMA Quiet ==
  ASSUME NEW c \in Callers, IInv, call[c] # None, NEW r,
         r # None => Fits(c, r)' /\ r.op = call[c].op /\ r.id = call[c].id,
         call' = [call EXCEPT ![c] = r], LocksKept(c), DOMAIN rows' = Ids,
         UNCHANGED <<users, keys, used, origin>>
  PROVE  IInv'
<1>1. Live' = Live
  BY Zenon DEF Live
<1>2. DOMAIN call' = Callers /\ call'[c] = r /\ \A d \in Callers \ {c} : call'[d] = call[d]
  BY Zenon DEF IInv, Shape
<1>3. Shape' /\ KeysPointBack'
  BY <1>1, <1>2 DEF IInv, Shape, KeysPointBack
<1>4. OwnIds'
  BY <1>2 DEF IInv, OwnIds
<1>5. ASSUME NEW d \in Callers \ {c}, call[d] # None PROVE Fits(d, call[d])'
  <2>1. Fits(d, call[d])
    BY <1>5, Zenon DEF IInv
  <2>. PICK q : q = call[d]
    BY Zenon
  <2>2. call'[d] = q
    BY <1>2, <1>5, Zenon
  <2>3. Fits(d, q)
    BY <2>1, Zenon
  <2>4. Fits(d, q)'
    <3>1. q.op = "create" => Creating(d, q)'
      BY <1>1, <2>3, Zenon DEF Fits, Creating, LocksKept
    <3>2. q.op # "create" => Writing(d, q)'
      BY <2>3, Zenon DEF Fits, Writing, LocksKept
    <3>. QED  BY <2>3, <3>1, <3>2, Zenon DEF Fits
  <2>. QED  BY <2>2, <2>4, Zenon
<1>. QED  BY <1>2, <1>3, <1>4, <1>5, Zenon DEF IInv

\* The call of c, with v read, whose next statement is at.
Moved(c, r, at, v) ==
  /\ DOMAIN r = DOMAIN call[c] /\ r.pc = at /\ r.view = v
  /\ r.op = call[c].op /\ r.id = call[c].id /\ r.key = call[c].key

LEMMA Went ==
  ASSUME NEW c \in Callers, IInv, call[c] # None, NEW at, Goto(c, at)
  PROVE  \E r : call' = [call EXCEPT ![c] = r] /\ Moved(c, r, at, call[c].view)
<1>. DEFINE r == [call[c] EXCEPT !.pc = at]
<1>1. DOMAIN call[c] = {"op", "id", "key", "pc", "attempt", "mine", "view"}
  BY Zenon DEF IInv, Fits
<1>2. Moved(c, r, at, call[c].view)
  BY <1>1, Zenon DEF Moved
<1>3. call' = [call EXCEPT ![c] = r]
  BY Zenon DEF Goto
<1>. QED  BY <1>2, <1>3, Zenon
-----------------------------------------------------------------------------
(* The steps that leave the tables as they are *)

LEMMA LeavesIInv ==
  ASSUME NEW c \in Callers, IInv, call[c] # None, Leaves(c), UNCHANGED <<users, keys, used, origin>>
  PROVE  IInv'
<1>1. PICK r : call' = [call EXCEPT ![c] = r] /\ (r # None => Begun(c, r))
  BY Zenon DEF Leaves
<1>2. r # None => Fits(c, r)' /\ r.op = call[c].op /\ r.id = call[c].id
  BY <1>1, BegunFits, Zenon DEF Begun
<1>. QED  BY <1>1, <1>2, Quiet, Zenon DEF Leaves

\* Create takes the advisory lock when it is free.
LEMMA LockCapacityIInv ==
  ASSUME NEW c \in Callers, IInv, LockCapacity(c)
  PROVE  IInv'
<1>1. call[c] # None /\ call[c].op = "create" /\ Fits(c, call[c])
  BY Zenon DEF LockCapacity, At, IInv
<1>2. PICK r : /\ call' = [call EXCEPT ![c] = r]
               /\ Moved(c, r, IF call[c].key = None THEN "count" ELSE "lookup", call[c].view)
  BY <1>1, Went, Zenon DEF LockCapacity
<1>3. LocksKept(c) /\ DOMAIN rows' = Ids
  BY PostgresAssumption, Zenon DEF LockCapacity, AdvisoryFree, LocksKept, IInv, Shape
<1>4. Creating(c, r)'
  BY <1>1, <1>2, Zenon DEF Fits, Moved, Creating, LockCapacity
<1>5. Fits(c, r)' /\ r.op = call[c].op /\ r.id = call[c].id
  BY <1>1, <1>2, <1>4, Zenon DEF Fits, Moved
<1>. QED  BY <1>1, <1>2, <1>3, <1>5, Quiet, Zenon DEF LockCapacity

\* What the statements of a create find, they find under the advisory lock.
LEMMA CreateIInv ==
  ASSUME NEW c \in Callers, IInv,
         LookupKey(c) \/ ScanUser(c) \/ CommitReplay(c) \/ CountUsers(c) \/ InsertUser(c)
  PROVE  IInv'
<1>. DEFINE q == call[c]
<1>1. q # None /\ q.pc \in {"lookup", "scan", "replay", "count", "insert"}
  BY Zenon DEF LookupKey, ScanUser, CommitReplay, CountUsers, InsertUser, At
<1>2. UNCHANGED <<users, keys, used, origin>>
  BY Zenon DEF LookupKey, ScanUser, CommitReplay, CountUsers, InsertUser
<1>3. Live' = Live
  BY <1>2, Zenon DEF Live
<1>4. Fits(c, q) /\ q.op = "create" /\ Creating(c, q)
  BY <1>1, Zenon DEF IInv, Fits, Writing
<1>5. ASSUME NEW e, NEW m, Return(c, e, m) PROVE IInv'
  BY <1>1, <1>2, <1>5, Leaving, LeavesIInv, Zenon
<1>6. ASSUME NEW at, NEW v, NEW r, call' = [call EXCEPT ![c] = r], Moved(c, r, at, v),
             UNCHANGED <<advisory, rows>>, Creating(c, r)'
      PROVE  IInv'
  <2>1. LocksKept(c) /\ DOMAIN rows' = Ids
    BY <1>6, Zenon DEF LocksKept, IInv, Shape
  <2>2. Fits(c, r)' /\ r.op = call[c].op /\ r.id = call[c].id
    BY <1>4, <1>6, Zenon DEF Fits, Moved
  <2>. QED  BY <1>1, <1>2, <1>6, <2>1, <2>2, Quiet, Zenon
<1>7. CASE LookupKey(c)
  <2>. DEFINE x == keys[q.key]
  <2>1. PICK r : r = [q EXCEPT !.pc = IF x = None THEN "count" ELSE "scan", !.view = x]
    BY Zenon
  <2>2. call' = [call EXCEPT ![c] = r]
    BY <1>7, <2>1, Zenon DEF LookupKey
  <2>3. Moved(c, r, IF x = None THEN "count" ELSE "scan", x)
    BY <1>4, <2>1, Zenon DEF Fits, Moved
  <2>4. Creating(c, r)'
    BY <1>2, <1>3, <1>4, <1>7, <2>3, Zenon DEF Moved, Creating, LookupKey, At
  <2>. QED  BY <1>6, <1>7, <2>2, <2>3, <2>4, Zenon DEF LookupKey
<1>8. CASE ScanUser(c)
  <2>1. CASE Goto(c, "replay") /\ UNCHANGED <<advisory, rows>>
    <3>1. PICK r : call' = [call EXCEPT ![c] = r] /\ Moved(c, r, "replay", q.view)
      BY <1>1, <2>1, Went, Zenon
    <3>2. Creating(c, r)'
      BY <1>2, <1>3, <1>4, <1>8, <2>1, <3>1, Zenon DEF Moved, Creating, ScanUser, At
    <3>. QED  BY <1>6, <2>1, <3>1, <3>2, Zenon
  <2>. QED  BY <1>5, <1>8, <2>1, Zenon DEF ScanUser
<1>9. CASE CommitReplay(c)
  BY <1>5, <1>9, Zenon DEF CommitReplay
<1>10. CASE CountUsers(c)
  <2>1. CASE Cardinality(Live) < MaxUsers /\ Goto(c, "insert") /\ UNCHANGED <<advisory, rows>>
    <3>1. PICK r : call' = [call EXCEPT ![c] = r] /\ Moved(c, r, "insert", q.view)
      BY <1>1, <2>1, Went, Zenon
    <3>2. Creating(c, r)'
      BY <1>2, <1>3, <1>4, <1>10, <2>1, <3>1, Zenon DEF Moved, Creating, CountUsers, At
    <3>. QED  BY <1>6, <2>1, <3>1, <3>2, Zenon
  <2>. QED  BY <1>5, <1>10, <2>1, Zenon DEF CountUsers
<1>11. CASE InsertUser(c)
  <2>1. CASE users[q.id] = None /\ Goto(c, "commit") /\ UNCHANGED <<advisory, rows>>
    <3>1. PICK r : call' = [call EXCEPT ![c] = r] /\ Moved(c, r, "commit", q.view)
      BY <1>1, <2>1, Went, Zenon
    <3>2. Creating(c, r)'
      BY <1>2, <1>3, <1>4, <1>11, <2>1, <3>1, Zenon DEF Moved, Creating, InsertUser, At
    <3>. QED  BY <1>6, <2>1, <3>1, <3>2, Zenon
  <2>. QED  BY <1>5, <1>11, <2>1, Zenon DEF InsertUser
<1>. QED  BY <1>7, <1>8, <1>9, <1>10, <1>11, Zenon

\* Update, ReadModifyUpdate and Delete lock the row they find.
LEMMA LockRowIInv ==
  ASSUME NEW c \in Callers, IInv, LockRow(c) \/ DeleteRow(c)
  PROVE  IInv'
<1>. DEFINE q == call[c]
<1>1. q # None /\ q.op \in {"update", "rmu", "delete"} /\ UNCHANGED <<users, keys, used, origin>>
  BY Zenon DEF LockRow, DeleteRow, At
<1>2. Fits(c, q) /\ q.id \in Ids
  BY <1>1, Zenon DEF IInv, Fits
<1>3. ASSUME NEW e, NEW m, Return(c, e, m) PROVE IInv'
  BY <1>1, <1>3, Leaving, LeavesIInv, Zenon
<1>4. ASSUME NEW v, NEW r, call' = [call EXCEPT ![c] = r], Moved(c, r, "commit", v),
             users[q.id] # None, RowFree(q.id), rows' = [rows EXCEPT ![q.id] = c],
             UNCHANGED advisory,
             q.op = "update" => v = <<c>>, q.op = "rmu" => v = Append(users[q.id], c)
      PROVE  IInv'
  <2>1. DOMAIN rows' = Ids /\ rows'[q.id] = c /\ \A i \in Ids \ {q.id} : rows'[i] = rows[i]
    BY <1>2, <1>4, Zenon DEF IInv, Shape
  <2>2. LocksKept(c)
    BY <1>4, <2>1, PostgresAssumption, Zenon DEF LocksKept, RowFree
  <2>3. Writing(c, r)'
    BY <1>1, <1>4, <2>1, Zenon DEF Moved, Writing
  <2>4. Fits(c, r)' /\ r.op = call[c].op /\ r.id = call[c].id
    BY <1>1, <1>2, <1>4, <2>3, Zenon DEF Fits, Moved
  <2>. QED  BY <1>1, <1>4, <2>1, <2>2, <2>4, Quiet, Zenon
<1>5. CASE LockRow(c)
  <2>. DEFINE v == IF q.op = "rmu" THEN Append(users[q.id], c) ELSE <<c>>
  <2>1. CASE /\ users[q.id] # None /\ RowFree(q.id) /\ rows' = [rows EXCEPT ![q.id] = c]
             /\ call' = [call EXCEPT ![c] = [@ EXCEPT !.pc = "commit", !.view = v]]
             /\ UNCHANGED advisory
    <3>1. PICK r : r = [q EXCEPT !.pc = "commit", !.view = v]
      BY Zenon
    <3>2. call' = [call EXCEPT ![c] = r]
      BY <2>1, <3>1, Zenon
    <3>3. Moved(c, r, "commit", v)
      BY <1>2, <3>1, Zenon DEF Fits, Moved
    <3>4. (q.op = "update" => v = <<c>>) /\ (q.op = "rmu" => v = Append(users[q.id], c))
      BY Zenon
    <3>. HIDE DEF v
    <3>. QED  BY <1>4, <2>1, <3>2, <3>3, <3>4, Zenon
  <2>. QED  BY <1>3, <1>5, <2>1, Zenon DEF LockRow
<1>6. CASE DeleteRow(c)
  <2>1. CASE /\ users[q.id] # None /\ RowFree(q.id) /\ rows' = [rows EXCEPT ![q.id] = c]
             /\ Goto(c, "commit") /\ UNCHANGED advisory
    <3>1. PICK r : call' = [call EXCEPT ![c] = r] /\ Moved(c, r, "commit", q.view)
      BY <1>1, <2>1, Went, Zenon
    <3>. QED  BY <1>4, <1>6, <2>1, <3>1, Zenon DEF DeleteRow
  <2>. QED  BY <1>3, <1>6, <2>1, Zenon DEF DeleteRow
<1>. QED  BY <1>5, <1>6, Zenon

\* A create brings an id that nobody has, so it takes over no row and no key.
LEMMA StartIInv ==
  ASSUME NEW c \in Callers, IInv, NEW op \in Ops, NEW id \in Ids, NEW key \in Keys \cup {None},
         Start(c, op, id, key)
  PROVE  IInv'
<1>1. PICK r : r = [op |-> op, id |-> id, key |-> key, pc |-> "begin",
                    attempt |-> 1, mine |-> FALSE, view |-> None]
  BY Zenon
<1>2. call' = [call EXCEPT ![c] = r] /\ UNCHANGED <<users, keys, advisory, rows>> /\ call[c] = None
  BY <1>1, Zenon DEF Start
<1>3. DOMAIN call' = Callers /\ call'[c] = r /\ \A d \in Callers \ {c} : call'[d] = call[d]
  BY <1>2, Zenon DEF IInv, Shape
<1>4. Live' = Live
  BY <1>2, Zenon DEF Live
<1>5. /\ used \subseteq used' /\ \A i \in used \cap Ids : origin'[i] = origin[i]
      /\ origin' \in [Ids -> Keys \cup {None}]
  BY Zenon DEF Start, IInv, Shape
<1>6. op = "create" => id \notin used /\ id \in used' /\ origin'[id] = key
  BY Zenon DEF Start, IInv, Shape
<1>7. \A i \in Ids : users[i] # None => i \in used /\ origin'[i] = origin[i]
  BY <1>5, Zenon DEF IInv, KeysPointBack, Live
<1>8. Shape'
  BY <1>2, <1>3, <1>5, Zenon DEF IInv, Shape
<1>9. KeysPointBack'
  BY <1>2, <1>4, <1>5, <1>7 DEF IInv, KeysPointBack
<1>10. \A d \in Callers : call[d] # None /\ call[d].op = "create" => call[d].id \in used
  BY Zenon DEF IInv, Fits, Creating
<1>11. OwnIds'
  <2>1. r.op = op /\ r.id = id
    BY <1>1, Zenon
  <2>2. \A d \in Callers \ {c} : call[d] # None /\ call[d].op = "create" /\ op = "create"
                                   => call[d].id # id
    BY <1>6, <1>10, Zenon
  <2>. QED  BY <1>3, <2>1, <2>2 DEF IInv, OwnIds
<1>12. Fits(c, r)'
  BY <1>1, <1>6, PostgresAssumption, Zenon DEF Fits, Creating, Writing
<1>13. ASSUME NEW d \in Callers \ {c}, call[d] # None PROVE Fits(d, call[d])'
  <2>1. PICK q : q = call[d]
    BY Zenon
  <2>2. Fits(d, q) /\ q = call'[d]
    BY <1>3, <1>13, <2>1, Zenon DEF IInv
  <2>3. q.op = "create" => Creating(d, q)'
    BY <1>2, <1>4, <1>5, <2>2, Zenon DEF Fits, Creating
  <2>4. q.op # "create" => Writing(d, q)'
    BY <1>2, <2>2, Zenon DEF Fits, Writing
  <2>5. Fits(d, q)'
    BY <2>2, <2>3, <2>4, Zenon DEF Fits
  <2>. QED  BY <2>2, <2>5, Zenon
<1>. QED  BY <1>3, <1>8, <1>9, <1>11, <1>12, <1>13, Zenon DEF IInv
-----------------------------------------------------------------------------
(* Commits *)

\* What a commit writes, by operation.
LEMMA Applied ==
  ASSUME NEW c \in Callers, IInv, At(c, "commit"), Apply(c)
  PROVE  LET q == call[c] IN
         /\ q # None /\ q.id \in Ids /\ q.key \in Keys \cup {None} /\ Fits(c, q)
         /\ q.op \in {"create", "update", "rmu", "delete"}
         /\ users' = [i \in Ids |-> users'[i]] /\ \A i \in Ids \ {q.id} : users'[i] = users[i]
         /\ keys' \in [Keys -> Ids \cup {None}]
         /\ q.op = "create" =>
              /\ users[q.id] = None /\ users'[q.id] = <<c>>
              /\ \A k \in Keys : keys'[k] = IF k = q.key THEN q.id ELSE keys[k]
         /\ q.op \in {"update", "rmu"} =>
              /\ users[q.id] # None /\ keys' = keys
              /\ users'[q.id] = IF q.op = "update" THEN <<c>> ELSE Append(users[q.id], c)
         /\ q.op = "delete" =>
              /\ users[q.id] # None /\ users'[q.id] = None
              /\ \A k \in Keys : keys'[k] = IF keys[k] = q.id THEN None ELSE keys[k]
<1>. PICK q : q = call[c]
  BY Zenon
<1>1. q # None /\ q.pc = "commit" /\ Fits(c, q)
  BY Zenon DEF At, IInv
<1>2. /\ q.id \in Ids /\ q.key \in Keys \cup {None}
      /\ q.op \in {"create", "update", "rmu", "delete"}
  BY <1>1, Zenon DEF Fits
<1>3. /\ q.op = "create" => users[q.id] = None
      /\ q.op # "create" => users[q.id] # None
      /\ q.op = "update" => q.view = <<c>>
      /\ q.op = "rmu" => q.view = Append(users[q.id], c)
  BY <1>1, <1>2, Zenon DEF Fits, Creating, Writing
<1>4. /\ users' = [users EXCEPT ![q.id] = IF q.op = "create" THEN <<c>>
                                          ELSE IF q.op = "delete" THEN None ELSE q.view]
      /\ keys' = [k \in Keys |-> IF q.op = "create" /\ k = q.key THEN q.id
                                 ELSE IF q.op = "delete" /\ keys[k] = q.id THEN None
                                 ELSE keys[k]]
  BY <1>2, Zenon DEF Apply
<1>5. /\ users' = [i \in Ids |-> users'[i]] /\ \A i \in Ids \ {q.id} : users'[i] = users[i]
      /\ users'[q.id] = IF q.op = "create" THEN <<c>>
                        ELSE IF q.op = "delete" THEN None ELSE q.view
  BY <1>2, <1>4, Zenon DEF IInv, Shape
<1>6. keys' \in [Keys -> Ids \cup {None}]
  BY <1>2, <1>4, Zenon DEF IInv, Shape
<1>7. q.op = "create" => \A k \in Keys : keys'[k] = IF k = q.key THEN q.id ELSE keys[k]
  BY <1>4, Zenon
<1>8. q.op \in {"update", "rmu"} => keys' = keys
  BY <1>4, Zenon DEF IInv, Shape
<1>9. q.op = "delete" => \A k \in Keys : keys'[k] = IF keys[k] = q.id THEN None ELSE keys[k]
  BY <1>4, Zenon
<1>. QED  BY <1>1, <1>2, <1>3, <1>5, <1>6, <1>7, <1>8, <1>9, Zenon


\* A commit keeps the rows of users and of idempotency_keys together.
LEMMA CommitKeys ==
  ASSUME NEW c \in Callers, IInv, At(c, "commit"), Apply(c), UNCHANGED <<used, origin>>
  PROVE  /\ users' \in [Ids -> Seq(Callers) \cup {None}]
         /\ Live' = IF call[c].op = "create" THEN Live \cup {call[c].id}
                    ELSE IF call[c].op = "delete" THEN Live \ {call[c].id} ELSE Live
         /\ KeysPointBack'
<1>. PICK q : q = call[c]
  BY Zenon
<1>1. /\ q # None /\ q.pc = "commit" /\ q.id \in Ids /\ q.key \in Keys \cup {None} /\ Fits(c, q)
      /\ q.op \in {"create", "update", "rmu", "delete"}
      /\ users' = [i \in Ids |-> users'[i]] /\ \A i \in Ids \ {q.id} : users'[i] = users[i]
  BY Applied, Zenon DEF At
<1>2. \A k \in Keys, i \in Ids : keys[k] = i <=> users[i] # None /\ origin[i] = k
  BY Zenon DEF IInv, KeysPointBack
<1>3. None \notin Ids /\ None \notin Keys
  BY PostgresAssumption, Zenon
<1>4. ASSUME users'[q.id] \in Seq(Callers) \cup {None},
             Live' = IF q.op = "create" THEN Live \cup {q.id}
                     ELSE IF q.op = "delete" THEN Live \ {q.id} ELSE Live,
             \A k \in Keys, i \in Ids : keys'[k] = i <=> users'[i] # None /\ origin[i] = k
      PROVE  /\ users' \in [Ids -> Seq(Callers) \cup {None}]
             /\ Live' = IF call[c].op = "create" THEN Live \cup {call[c].id}
                        ELSE IF call[c].op = "delete" THEN Live \ {call[c].id} ELSE Live
             /\ KeysPointBack'
  <2>1. users' \in [Ids -> Seq(Callers) \cup {None}]
    <3>1. \A i \in Ids : users'[i] \in Seq(Callers) \cup {None}
      BY <1>1, <1>4, Zenon DEF IInv, Shape
    <3>. QED  BY <1>1, <3>1, Zenon
  <2>2. q.op = "create" => q.id \in used
    BY <1>1, Zenon DEF Fits, Creating
  <2>3. Live' \subseteq used'
    BY <1>4, <2>2, Zenon DEF IInv, KeysPointBack
  <2>. QED  BY <1>4, <2>1, <2>3 DEF KeysPointBack
<1>5. CASE q.op = "create"
  <2>1. /\ users[q.id] = None /\ users'[q.id] = <<c>>
        /\ \A k \in Keys : keys'[k] = IF k = q.key THEN q.id ELSE keys[k]
    BY <1>5, Applied, Zenon
  <2>2. origin[q.id] = q.key /\ (q.key # None => keys[q.key] = None)
    BY <1>1, <1>5, Zenon DEF Fits, Creating
  <2>3. users'[q.id] # None /\ users'[q.id] \in Seq(Callers)
    BY <2>1, RowsAreNotNone, Zenon
  <2>4. Live' = Live \cup {q.id}
    BY <1>1, <2>3, Zenon DEF Live
  <2>5. ASSUME NEW k \in Keys, NEW i \in Ids
        PROVE  keys'[k] = i <=> users'[i] # None /\ origin[i] = k
    <3>1. CASE i = q.id
      BY <1>2, <1>3, <2>1, <2>2, <2>3, <3>1
    <3>2. CASE i # q.id
      BY <1>1, <1>2, <1>3, <2>1, <2>2, <3>2
    <3>. QED  BY <3>1, <3>2, Zenon
  <2>. QED  BY <1>4, <1>5, <2>3, <2>4, <2>5, Zenon
<1>6. CASE q.op \in {"update", "rmu"}
  <2>1. /\ users[q.id] # None /\ keys' = keys
        /\ users'[q.id] = IF q.op = "update" THEN <<c>> ELSE Append(users[q.id], c)
    BY <1>6, Applied, Zenon
  <2>2. users[q.id] \in Seq(Callers)
    BY <1>1, <2>1, Zenon DEF IInv, Shape
  <2>3. users'[q.id] # None /\ users'[q.id] \in Seq(Callers)
    BY <2>1, <2>2, RowsAreNotNone, Zenon
  <2>4. Live' = Live
    BY <1>1, <2>1, <2>3, Zenon DEF Live
  <2>5. \A k \in Keys, i \in Ids : keys'[k] = i <=> users'[i] # None /\ origin[i] = k
    <3>1. \A i \in Ids : users'[i] # None <=> users[i] # None
      BY <1>1, <2>1, <2>3, Zenon
    <3>. QED  BY <1>2, <2>1, <3>1
  <2>. QED  BY <1>4, <1>6, <2>3, <2>4, <2>5, Zenon
<1>7. CASE q.op = "delete"
  <2>1. /\ users[q.id] # None /\ users'[q.id] = None
        /\ \A k \in Keys : keys'[k] = IF keys[k] = q.id THEN None ELSE keys[k]
    BY <1>7, Applied, Zenon
  <2>2. Live' = Live \ {q.id}
    BY <1>1, <2>1 DEF Live
  <2>3. \A k \in Keys, i \in Ids : keys'[k] = i <=> users'[i] # None /\ origin[i] = k
    BY <1>1, <1>2, <1>3, <2>1
  <2>. QED  BY <1>4, <1>7, <2>1, <2>2, <2>3, Zenon
<1>. QED  BY <1>1, <1>5, <1>6, <1>7, Zenon

\* A commit under its locks leaves what the transactions of others have read
\* as they need it.
LEMMA CommitSparesOthers ==
  ASSUME NEW c \in Callers, IInv, At(c, "commit"), Apply(c), LocksKept(c), UNCHANGED <<used, origin>>,
         NEW d \in Callers \ {c}, NEW p, p = call[d], p # None
  PROVE  Fits(d, p)'
<1>. PICK q : q = call[c]
  BY Zenon
<1>1. /\ q # None /\ q.pc = "commit" /\ q.id \in Ids /\ q.key \in Keys \cup {None} /\ Fits(c, q)
      /\ q.op \in {"create", "update", "rmu", "delete"}
      /\ users' = [i \in Ids |-> users'[i]] /\ \A i \in Ids \ {q.id} : users'[i] = users[i]
  BY Applied, Zenon DEF At
<1>2. Fits(d, p)
  BY Zenon DEF IInv
<1>3. p.op = "create" => Creating(d, p)'
  <2>. SUFFICES ASSUME p.op = "create" PROVE Creating(d, p)'
    BY Zenon
  <2>1. Creating(d, p) /\ p.id \in Ids /\ p.key \in Keys \cup {None}
    BY <1>2, Zenon DEF Fits
  <2>2. CASE p.pc = "begin"
    BY <2>1, <2>2, Zenon DEF Creating
  <2>3. CASE p.pc # "begin"
    <3>1. advisory = d /\ advisory' = d
      BY <2>1, <2>3, Zenon DEF Creating, LocksKept
    <3>2. q.op # "create"
      BY <1>1, <3>1, Zenon DEF Fits, Creating
    <3>3. \A k \in Keys : keys'[k] \in {keys[k], None}
      BY <1>1, <3>2, Applied, Zenon
    <3>4. \A i \in Ids : users[i] = None => users'[i] = None
      BY <1>1, <3>2, Applied
    <3>5. Live' \subseteq Live
      BY <3>4, Zenon DEF Live
    <3>6. Cardinality(Live') <= Cardinality(Live) /\ Cardinality(Live') \in Nat
      BY <3>5, LiveFinite, FS_Subset, FS_CardinalityType, Zenon
    <3>7. Cardinality(Live) < MaxUsers => Cardinality(Live') < MaxUsers
      BY <3>6, LiveFinite, PostgresAssumption
    <3>. QED  BY <2>1, <3>1, <3>3, <3>4, <3>7, Zenon DEF Creating
  <2>. QED  BY <2>2, <2>3, Zenon
<1>4. p.op # "create" => Writing(d, p)'
  <2>. SUFFICES ASSUME p.op # "create", p.pc # "begin" PROVE Writing(d, p)'
    BY Zenon DEF Writing
  <2>1. Writing(d, p) /\ p.id \in Ids
    BY <1>2, Zenon DEF Fits
  <2>2. rows[p.id] = d /\ rows'[p.id] = d /\ users[p.id] # None
    BY <2>1, Zenon DEF Writing, LocksKept
  <2>3. p.id # q.id
    BY <1>1, <2>2, Zenon DEF Fits, Creating, Writing
  <2>4. users'[p.id] = users[p.id]
    BY <1>1, <2>1, <2>3, Zenon
  <2>. QED  BY <2>1, <2>2, <2>4, Zenon DEF Writing
<1>. QED  BY <1>2, <1>3, <1>4, Zenon DEF Fits

LEMMA CommitIInv ==
  ASSUME NEW c \in Callers, IInv, At(c, "commit"), Apply(c), Leaves(c), UNCHANGED <<used, origin>>
  PROVE  IInv'
<1>1. PICK r : call' = [call EXCEPT ![c] = r] /\ (r # None => Begun(c, r))
  BY Zenon DEF Leaves
<1>2. DOMAIN call' = Callers /\ call'[c] = r /\ \A d \in Callers \ {c} : call'[d] = call[d]
  BY <1>1, Zenon DEF IInv, Shape
<1>3. r # None => Fits(c, r)' /\ r.op = call[c].op /\ r.id = call[c].id
  BY <1>1, BegunFits, Zenon DEF Begun, At
<1>4. Shape'
  <2>1. users' \in [Ids -> Seq(Callers) \cup {None}] /\ keys' \in [Keys -> Ids \cup {None}]
    BY CommitKeys, Applied, Zenon
  <2>. QED  BY <1>2, <2>1, Zenon DEF IInv, Shape, Leaves
<1>5. KeysPointBack'
  BY CommitKeys, Zenon
<1>6. OwnIds'
  BY <1>2, <1>3 DEF IInv, OwnIds, At
<1>7. ASSUME NEW d \in Callers \ {c}, call[d] # None PROVE Fits(d, call[d])'
  <2>1. PICK p : p = call[d]
    BY Zenon
  <2>2. Fits(d, p)'
    BY <1>7, <2>1, CommitSparesOthers, Zenon DEF Leaves
  <2>3. call'[d] = p
    BY <1>2, <1>7, <2>1, Zenon
  <2>. QED  BY <2>2, <2>3, Zenon
<1>. QED  BY <1>2, <1>3, <1>4, <1>5, <1>6, <1>7, Zenon DEF IInv
-----------------------------------------------------------------------------
LEMMA InitIInv == Init => IInv
<1>. SUFFICES ASSUME Init PROVE IInv
  BY Zenon
<1>1. Live = {}
  BY Zenon DEF Init, Live
<1>2. Shape
  BY Zenon DEF Init, Shape
<1>3. KeysPointBack
  BY <1>1, PostgresAssumption, Zenon DEF Init, KeysPointBack
<1>. QED  BY <1>2, <1>3, Zenon DEF Init, IInv, OwnIds

LEMMA StepIInv == IInv /\ [Next]_vars => IInv'
<1>. SUFFICES ASSUME IInv, [Next]_vars PROVE IInv'
  BY Zenon
<1>1. ASSUME NEW c \in Callers, Fault(c) PROVE IInv'
  BY <1>1, Leaving, LeavesIInv, Zenon DEF Fault
<1>2. ASSUME NEW c \in Callers, Commit(c) \/ CommitLost(c) PROVE IInv'
  <2>1. At(c, "commit") /\ Apply(c) /\ UNCHANGED <<used, origin>> /\ call[c] # None
    BY <1>2, Zenon DEF Commit, CommitLost, At
  <2>2. Leaves(c)
    BY <1>2, <2>1, Leaving, Zenon DEF Commit, CommitLost
  <2>. QED  BY <2>1, <2>2, CommitIInv, Zenon
<1>3. ASSUME NEW c \in Callers, Proceed(c) PROVE IInv'
  BY <1>2, <1>3, LockCapacityIInv, CreateIInv, LockRowIInv, Zenon DEF Proceed
<1>4. CASE UNCHANGED vars
  <2>1. Live' = Live
    BY <1>4, Zenon DEF vars, Live
  <2>2. Shape' /\ KeysPointBack' /\ OwnIds'
    BY <1>4, <2>1 DEF vars, IInv, Shape, KeysPointBack, OwnIds
  <2>3. ASSUME NEW c \in Callers, call'[c] # None PROVE Fits(c, call[c])'
    BY <1>4, <2>1, <2>3, Zenon DEF vars, IInv, Fits, Creating, Writing
  <2>. QED  BY <2>2, <2>3, Zenon DEF IInv
<1>. QED  BY <1>1, <1>2, <1>3, <1>4, StartIInv, Zenon DEF Next

\* The strengthened invariant of the transactions of postgres.go.
THEOREM Invariance == Spec => []IInv
BY InitIInv, StepIInv, PTL DEF Spec

\* One stored user per idempotency key, however many attempts are made at
\* once and whichever of their commits look lost.
THEOREM KeysAreUnique == Spec => []OneUserPerKey
<1>1. IInv => OneUserPerKey
  <2>. SUFFICES ASSUME IInv, NEW i \in Live, NEW j \in Live, origin[i] = origin[j], origin[i] # None
                PROVE  i = j
    BY Zenon DEF OneUserPerKey
  <2>1. i \in Ids /\ j \in Ids /\ users[i] # None /\ users[j] # None /\ origin[i] \in Keys
    BY Zenon DEF Live, IInv, Shape
  <2>2. keys[origin[i]] = i /\ keys[origin[i]] = j
    BY <2>1 DEF IInv, KeysPointBack
  <2>. QED  BY <2>2, Zenon
<1>. QED  BY <1>1, Invariance, PTL
-----------------------------------------------------------------------------
(* What callers are told *)

Told == NoErrorMeansCommitted /\ KeyedCreateSurvivesLostCommit /\ NotFoundLeavesKeyFree

LEMMA ReturnTold ==
  ASSUME NEW c, NEW e, NEW m, Return(c, e, m), e = "nil" => m = TRUE,
         call[c].op = "create" /\ call[c].key # None => e # "ErrAlreadyExists",
         call[c].op = "create" /\ e = "ErrNotFound" =>
           call[c].key # None /\ keys'[call[c].key] = None
  PROVE  Told'
<1>1. /\ ret'.op = call[c].op /\ ret'.key = call[c].key
      /\ ret'.err = e /\ ret'.mine = m
  BY Zenon DEF Return
<1>. QED  BY <1>1, Zenon DEF Told, NoErrorMeansCommitted, KeyedCreateSurvivesLostCommit, NotFoundLeavesKeyFree

LEMMA NothingTold == ret' = None => Told'
BY Zenon DEF Told, NoErrorMeansCommitted, KeyedCreateSurvivesLostCommit, NotFoundLeavesKeyFree

LEMMA FailTold ==
  ASSUME NEW c, NEW m, Fail(c, m)
  PROVE  Told'
<1>1. ret' = None \/ Return(c, "transient", m) \/ Return(c, "error", m)
  BY Zenon DEF Fail, RetryOrGiveUp
<1>2. ASSUME Return(c, "transient", m) PROVE Told'
  BY <1>2, ReturnTold, Zenon
<1>3. ASSUME Return(c, "error", m) PROVE Told'
  BY <1>3, ReturnTold, Zenon
<1>. QED  BY <1>1, <1>2, <1>3, NothingTold, Zenon

LEMMA CreateTold ==
  ASSUME NEW c \in Callers, IInv,
         LookupKey(c) \/ ScanUser(c) \/ CommitReplay(c) \/ CountUsers(c) \/ InsertUser(c)
  PROVE  Told'
<1>. PICK q : q = call[c]
  BY Zenon
<1>1. q # None /\ q.pc \in {"lookup", "scan", "replay", "count", "insert"} /\ keys' = keys
  BY Zenon DEF LookupKey, ScanUser, CommitReplay, CountUsers, InsertUser, At
<1>2. q.op = "create" /\ Creating(c, q) /\ q.key \in Keys \cup {None} /\ q.id \in Ids
  BY <1>1, Zenon DEF IInv, Fits, Writing
<1>3. CASE LookupKey(c)
  BY <1>3, NothingTold, Zenon DEF LookupKey
<1>4. CASE ScanUser(c)
  <2>1. CASE Goto(c, "replay")
    BY <2>1, NothingTold, Zenon DEF Goto
  <2>2. CASE users[q.view] = None /\ Return(c, "ErrNotFound", q.mine)
    <3>1. q.pc = "scan"
      BY <1>4, Zenon DEF ScanUser, At
    <3>2. q.key # None /\ keys[q.key] \in {q.view, None}
      BY <1>2, <3>1, Zenon DEF Creating
    <3>3. keys[q.key] = None
      <4>1. keys[q.key] \in Ids \cup {None} /\ q.key \in Keys
        BY <1>2, <3>2, Zenon DEF IInv, Shape
      <4>. QED  BY <2>2, <3>2, <4>1, Zenon DEF IInv, KeysPointBack
    <3>. QED  BY <1>1, <2>2, <3>2, <3>3, ReturnTold, Zenon
  <2>. QED  BY <1>4, <2>1, <2>2, Zenon DEF ScanUser
<1>5. CASE CommitReplay(c)
  <2>1. Return(c, "nil", TRUE)
    BY <1>5, Zenon DEF CommitReplay
  <2>. QED  BY <2>1, ReturnTold, Zenon
<1>6. CASE CountUsers(c)
  <2>1. CASE Goto(c, "insert")
    BY <2>1, NothingTold, Zenon DEF Goto
  <2>2. CASE Return(c, "ErrCapacity", q.mine)
    BY <2>2, ReturnTold, Zenon
  <2>. QED  BY <1>6, <2>1, <2>2, Zenon DEF CountUsers
<1>7. CASE InsertUser(c)
  <2>1. CASE Goto(c, "commit")
    BY <2>1, NothingTold, Zenon DEF Goto
  <2>2. CASE users[q.id] # None /\ Return(c, "ErrAlreadyExists", q.mine)
    <3>1. q.pc = "insert"
      BY <1>7, Zenon DEF InsertUser, At
    <3>2. origin[q.id] = q.key /\ (q.key # None => keys[q.key] = None)
      BY <1>2, <3>1, Zenon DEF Creating
    <3>3. q.key = None
      BY <1>2, <2>2, <3>2, PostgresAssumption DEF IInv, KeysPointBack
    <3>. QED  BY <2>2, <3>3, ReturnTold, Zenon
  <2>. QED  BY <1>7, <2>1, <2>2, Zenon DEF InsertUser
<1>. QED  BY <1>3, <1>4, <1>5, <1>6, <1>7, Zenon

LEMMA StepTold == IInv /\ Told /\ [Next]_vars => Told'
<1>. SUFFICES ASSUME IInv, Told, [Next]_vars PROVE Told'
  BY Zenon
<1>1. ASSUME NEW c \in Callers, Fault(c) \/ CommitLost(c) PROVE Told'
  BY <1>1, FailTold, Zenon DEF Fault, CommitLost
<1>2. ASSUME NEW c \in Callers, Commit(c) PROVE Told'
  <2>1. Return(c, "nil", TRUE)
    BY <1>2, Zenon DEF Commit
  <2>. QED  BY <2>1, ReturnTold, Zenon
<1>3. ASSUME NEW c \in Callers, LockCapacity(c) PROVE Told'
  BY <1>3, NothingTold, Zenon DEF LockCapacity, Goto
<1>4. ASSUME NEW c \in Callers, LockRow(c) \/ DeleteRow(c) PROVE Told'
  <2>1. call[c].op # "create"
    BY <1>4, Zenon DEF LockRow, DeleteRow
  <2>2. ret' = None \/ Return(c, "ErrNotFound", call[c].mine)
    BY <1>4, Zenon DEF LockRow, DeleteRow, Goto
  <2>3. ASSUME Return(c, "ErrNotFound", call[c].mine) PROVE Told'
    BY <2>1, <2>3, ReturnTold, Zenon
  <2>. QED  BY <2>2, <2>3, NothingTold, Zenon
<1>5. ASSUME NEW c \in Callers, NEW op \in Ops, NEW id \in Ids, NEW key \in Keys \cup {None},
             Start(c, op, id, key)
      PROVE  Told'
  BY <1>5, NothingTold, Zenon DEF Start
<1>6. CASE UNCHANGED vars
  BY <1>6, Zenon DEF vars, Told, NoErrorMeansCommitted, KeyedCreateSurvivesLostCommit, NotFoundLeavesKeyFree
<1>. QED  BY <1>1, <1>2, <1>3, <1>4, <1>5, <1>6, CreateTold, Zenon DEF Next, Proceed

LEMMA AlwaysTold == Spec => []Told
<1>1. Init => Told
  BY Zenon DEF Init, Told, NoErrorMeansCommitted, KeyedCreateSurvivesLostCommit, NotFoundLeavesKeyFree
<1>. QED  BY <1>1, StepTold, Invariance, PTL DEF Spec

\* For any number of attempts: nil is returned only for what was committed or
\* found under the key.
THEOREM NilMeansCommitted == Spec => []NoErrorMeansCommitted
<1>1. Told => NoErrorMeansCommitted
  BY Zenon DEF Told
<1>. QED  BY <1>1, AlwaysTold, PTL

\* No keyed create is refused for the row that an attempt of its own left.
THEOREM LostCommitSurvived == Spec => []KeyedCreateSurvivesLostCommit
<1>1. Told => KeyedCreateSurvivesLostCommit
  BY Zenon DEF Told
<1>. QED  BY <1>1, AlwaysTold, PTL

\* A create that ends with ErrNotFound leaves its key free for the next.
THEOREM KeyFreeAfterNotFound == Spec => []NotFoundLeavesKeyFree
<1>1. Told => NotFoundLeavesKeyFree
  BY Zenon DEF Told
<1>. QED  BY <1>1, AlwaysTold, PTL
-----------------------------------------------------------------------------
(* Refinement *)

\* A commit is one operation of the contract.
LEMMA CommitIsStoreStep ==
  ASSUME NEW c \in Callers, IInv, At(c, "commit"), Apply(c)
  PROVE  Contract!StoreNext
<1>. PICK q : q = call[c]
  BY Zenon
<1>1. /\ q # None /\ q.pc = "commit" /\ q.id \in Ids /\ q.key \in Keys \cup {None} /\ Fits(c, q)
      /\ q.op \in {"create", "update", "rmu", "delete"}
      /\ users' = [i \in Ids |-> users'[i]] /\ \A i \in Ids \ {q.id} : users'[i] = users[i]
      /\ keys' \in [Keys -> Ids \cup {None}]
  BY Applied, Zenon DEF At
<1>2. users' = [users EXCEPT ![q.id] = users'[q.id]]
  BY <1>1, Zenon DEF IInv, Shape
<1>3. CASE q.op = "create"
  <2>1. /\ users[q.id] = None /\ users'[q.id] = <<c>>
        /\ \A k \in Keys : keys'[k] = IF k = q.key THEN q.id ELSE keys[k]
    BY <1>3, Applied, Zenon
  <2>2. Cardinality(Live) < MaxUsers /\ (q.key # None => keys[q.key] = None)
    BY <1>1, <1>3, Zenon DEF Fits, Creating
  <2>3. Contract!Insert(q.id, c)
    <3>1. Contract!Live = Live
      BY Zenon DEF Contract!Live, Live
    <3>2. Contract!Cardinality(Live) = Cardinality(Live)
      BY Zenon DEF Contract!Cardinality, Cardinality
    <3>. QED  BY <1>2, <2>1, <2>2, <3>1, <3>2, Zenon DEF Contract!Insert
  <2>4. CASE q.key = None
    <3>1. keys' = keys
      BY <1>1, <2>1, <2>4, PostgresAssumption DEF IInv, Shape
    <3>. QED  BY <1>1, <2>3, <3>1, Zenon DEF Contract!StoreNext, Contract!StoreCreate
  <2>5. CASE q.key \in Keys
    <3>1. keys' = [keys EXCEPT ![q.key] = q.id]
      BY <1>1, <2>1, <2>5 DEF IInv, Shape
    <3>2. keys[q.key] = None
      BY <2>2, <2>5, PostgresAssumption, Zenon
    <3>3. Contract!StoreCreateKeyed(q.id, q.key, c)
      BY <2>3, <3>1, <3>2, Zenon DEF Contract!StoreCreateKeyed
    <3>. QED  BY <1>1, <2>5, <3>3, Zenon DEF Contract!StoreNext
  <2>. QED  BY <1>1, <2>4, <2>5, Zenon
<1>4. CASE q.op \in {"update", "rmu"}
  <2>1. /\ users[q.id] # None /\ keys' = keys
        /\ users'[q.id] = IF q.op = "update" THEN <<c>> ELSE Append(users[q.id], c)
    BY <1>4, Applied, Zenon
  <2>2. Contract!StoreUpdate(q.id, c) \/ Contract!StoreModify(q.id, c)
    BY <1>2, <2>1, Zenon DEF Contract!StoreUpdate, Contract!StoreModify
  <2>. QED  BY <1>1, <2>2, Zenon DEF Contract!StoreNext
<1>5. CASE q.op = "delete"
  <2>1. /\ users[q.id] # None /\ users'[q.id] = None
        /\ \A k \in Keys : keys'[k] = IF keys[k] = q.id THEN None ELSE keys[k]
    BY <1>5, Applied
  <2>2. keys' = [k \in Keys |-> IF keys[k] = q.id THEN None ELSE keys[k]]
    BY <1>1, <2>1, Zenon
  <2>3. Contract!StoreDelete(q.id)
    BY <1>2, <2>1, <2>2, Zenon DEF Contract!StoreDelete
  <2>. QED  BY <1>1, <2>3, Zenon DEF Contract!StoreNext
<1>. QED  BY <1>1, <1>3, <1>4, <1>5, Zenon

\* Every behaviour of the Postgres repository is one of the contract: what
\* callers see of the tables changes only when a transaction commits, and then
\* by one whole operation that its locks have kept valid since it was checked.
THEOREM Refinement == Spec => ImplementsUserStore
<1>1. Init => Contract!StoreInit
  BY Zenon DEF Init, Contract!StoreInit
<1>2. IInv /\ [Next]_vars => [Contract!StoreNext]_(Contract!storeVars)
  <2>. SUFFICES ASSUME IInv, [Next]_vars
                PROVE  Contract!StoreNext \/ UNCHANGED <<users, keys>>
    BY Zenon DEF Contract!storeVars
  <2>1. ASSUME NEW c \in Callers, Commit(c) \/ CommitLost(c) PROVE Contract!StoreNext
    BY <2>1, CommitIsStoreStep, Zenon DEF Commit, CommitLost
  <2>2. ASSUME NEW c \in Callers, Proceed(c), ~Commit(c) PROVE UNCHANGED <<users, keys>>
    BY <2>2, Zenon DEF Proceed, LockCapacity, LookupKey, ScanUser, CommitReplay, CountUsers, InsertUser,
       LockRow, DeleteRow
  <2>3. ASSUME NEW c \in Callers, Fault(c) PROVE UNCHANGED <<users, keys>>
    BY <2>3, Zenon DEF Fault
  <2>4. ASSUME NEW c \in Callers, NEW op, NEW id, NEW key, Start(c, op, id, key)
        PROVE  UNCHANGED <<users, keys>>
    BY <2>4, Zenon DEF Start
  <2>5. CASE UNCHANGED vars
    BY <2>5, Zenon DEF vars
  <2>. QED  BY <2>1, <2>2, <2>3, <2>4, <2>5, Zenon DEF Next
<1>. QED
  BY <1>1, <1>2, Invariance, PTL DEF Spec, ImplementsUserStore, Contract!StoreSpec
-----------------------------------------------------------------------------
(* Schema migrations (module Migrations), for any replicas, releases,      *)
(* number of attempts and crashes.                                         *)

\* The objects of a schema are those of its recorded versions.
Exact(d) ==
  /\ DOMAIN d = {"objects", "versions"} /\ d.versions \subseteq 1 .. 3
  /\ d.objects = {Object(v) : v \in d.versions}

\* What the advisory lock keeps true of the open transaction t of replica s:
\* the committed schema is still the one it has read, and its own copy differs
\* from that by the migrations it has run.
Migrating(s, t) ==
  /\ t.todo \cap db.versions = {} /\ t.did \cap db.versions = {}
  /\ t.work.versions = db.versions \cup t.did
  /\ t.todo \cup t.work.versions = Embedded[s]

RollingBack(t) ==
  /\ t.todo \subseteq db.versions /\ t.did \subseteq db.versions
  /\ t.work.versions = db.versions \ t.did

OpenTx(s, t) ==
  /\ DOMAIN t = {"work", "todo", "left", "did"}
  /\ Exact(t.work) /\ t.todo \subseteq 1 .. 3 /\ t.did \subseteq 1 .. 3
  /\ \/ pc[s] = "starting" /\ Migrating(s, t)
     \/ pc[s] = "up" /\ RollingBack(t)

MigInv ==
  /\ Exact(db)
  /\ DOMAIN tx = Servers /\ DOMAIN pc = Servers
  /\ \A s \in Servers : tx[s] # NoTx => OpenTx(s, tx[s])
  /\ \A s, r \in Servers : tx[s] # NoTx /\ tx[r] # NoTx => s = r
  /\ MigrationsRunOnce

LEMMA ObjectsDiffer ==
  \A v, w \in 1 .. 3 : Object(v) = Object(w) => v = w
BY DEF Object

\* Running or undoing one migration keeps a schema exact.
LEMMA ExactStep ==
  ASSUME NEW d, Exact(d), NEW v \in 1 .. 3
  PROVE  Exact(Up(v, d)) /\ Exact(Down(v, d))
<1>1. Exact(Up(v, d))
  BY Zenon DEF Exact, Up
<1>2. {Object(w) : w \in d.versions} \ {Object(v)} = {Object(w) : w \in d.versions \ {v}}
  BY ObjectsDiffer, Zenon DEF Exact
<1>. QED  BY <1>1, <1>2 DEF Exact, Down

\* The next migration to run or to undo is one of those left.
LEMMA NextVersion ==
  ASSUME NEW S \in SUBSET (1 .. 3), S # {}
  PROVE  Min(S) \in S /\ Max(S) \in S
<1>1. (\E x \in S : \A y \in S : x =< y) /\ (\E x \in S : \A y \in S : x >= y)
  <2>1. CASE 1 \in S
    <3>1. CASE 3 \in S
      BY <2>1, <3>1
    <3>2. CASE 3 \notin S /\ 2 \in S
      BY <2>1, <3>2
    <3>3. CASE S = {1}
      BY <3>3
    <3>. QED  BY <2>1, <3>1, <3>2, <3>3
  <2>2. CASE 1 \notin S /\ 2 \in S
    <3>1. CASE 3 \in S
      BY <2>2, <3>1
    <3>2. CASE S = {2}
      BY <3>2
    <3>. QED  BY <2>2, <3>1, <3>2
  <2>3. CASE S = {3}
    BY <2>3
  <2>4. \A x \in S : x = 1 \/ x = 2 \/ x = 3
    OBVIOUS
  <2>5. 1 \notin S /\ 2 \notin S => S = {3}
    BY <2>4, Zenon
  <2>. QED  BY <2>1, <2>2, <2>3, <2>5, Zenon
<1>. QED  BY <1>1, Zenon DEF Min, Max

OnlyOf(s) ==
  /\ DOMAIN tx' = Servers /\ DOMAIN pc' = Servers
  /\ \A r \in Servers \ {s} : tx'[r] = tx[r] /\ pc'[r] = pc[r]

\* A step in which s keeps, changes or ends its transaction and the committed
\* schema stays as it is.
LEMMA SchemaKept ==
  ASSUME MigInv, NEW s \in Servers, UNCHANGED <<db, runs>>, OnlyOf(s),
         tx'[s] # NoTx => OpenTx(s, tx[s])' /\ \A r \in Servers \ {s} : tx[r] = NoTx
  PROVE  MigInv'
<1>1. Exact(db)' /\ DOMAIN tx' = Servers /\ DOMAIN pc' = Servers /\ MigrationsRunOnce'
  BY Zenon DEF MigInv, Exact, MigrationsRunOnce, OnlyOf
<1>2. ASSUME NEW r \in Servers, tx'[r] # NoTx PROVE OpenTx(r, tx[r])'
  <2>1. CASE r = s
    BY <1>2, <2>1, Zenon
  <2>2. CASE r # s
    <3>1. tx'[r] = tx[r] /\ pc'[r] = pc[r] /\ OpenTx(r, tx[r])
      BY <1>2, <2>2, Zenon DEF MigInv, OnlyOf
    <3>. QED  BY <3>1, Zenon DEF OpenTx, Migrating, RollingBack
  <2>. QED  BY <2>1, <2>2, Zenon
<1>3. ASSUME NEW q \in Servers, NEW r \in Servers, tx'[q] # NoTx, tx'[r] # NoTx PROVE q = r
  BY <1>3, Zenon DEF MigInv, OnlyOf
<1>. QED  BY <1>1, <1>2, <1>3 DEF MigInv

\* A replica that begins a transaction, under the lock, has read the committed
\* schema.
LEMMA BeginFits ==
  ASSUME MigInv, NEW s \in Servers,
         UNCHANGED <<db, pc>>, LockFree, NEW todo, NEW left, Begin(s, todo, left),
         \/ pc[s] = "starting" /\ Verify(s) /\ todo = Embedded[s] \ db.versions
         \/ pc[s] = "up" /\ todo = db.versions \cap Embedded[s],
         UNCHANGED runs
  PROVE  MigInv'
<1>. PICK t : t = [work |-> db, todo |-> todo, left |-> left, did |-> {}]
  BY Zenon
<1>1. tx'[s] = t /\ OnlyOf(s)
  BY Zenon DEF Begin, MigInv, OnlyOf
<1>2. \A r \in Servers : tx[r] = NoTx
  BY Zenon DEF LockFree
<1>3. Embedded[s] \subseteq 1 .. 3
  BY MigrationsAssumption, Zenon DEF Versions
<1>4. /\ DOMAIN t = {"work", "todo", "left", "did"}
      /\ Exact(t.work) /\ t.todo \subseteq 1 .. 3 /\ t.did \subseteq 1 .. 3
  BY <1>3, Zenon DEF MigInv, Exact
<1>5. \/ pc[s] = "starting" /\ Migrating(s, t)
      \/ pc[s] = "up" /\ RollingBack(t)
  BY Zenon DEF Verify, Migrating, RollingBack
<1>6. OpenTx(s, tx[s])'
  BY <1>1, <1>4, <1>5 DEF OpenTx, Exact, Migrating, RollingBack
<1>. QED  BY <1>1, <1>2, <1>6, SchemaKept

\* One migration more, up or down, in the copy.
LEMMA ApplyFits ==
  ASSUME MigInv, NEW s \in Servers, ApplyMigration(s)
  PROVE  MigInv'
<1>. PICK v : v = Min(tx[s].todo)
  BY Zenon
<1>. PICK t : t = [tx[s] EXCEPT !.work = Up(v, tx[s].work), !.todo = tx[s].todo \ {v}, !.did = tx[s].did \cup {v}]
  BY Zenon
<1>1. OpenTx(s, tx[s]) /\ \A r \in Servers \ {s} : tx[r] = NoTx
  BY Zenon DEF MigInv, ApplyMigration
<1>2. v \in tx[s].todo /\ v \in 1 .. 3
  BY <1>1, NextVersion, Zenon DEF OpenTx, ApplyMigration
<1>3. tx'[s] = t /\ OnlyOf(s) /\ UNCHANGED <<db, pc, runs>>
  BY Zenon DEF MigInv, ApplyMigration, OnlyOf
<1>4. Exact(Up(v, tx[s].work))
  BY <1>1, <1>2, ExactStep DEF OpenTx
<1>5. /\ DOMAIN t = DOMAIN tx[s] /\ t.work = Up(v, tx[s].work)
      /\ t.todo = tx[s].todo \ {v} /\ t.did = tx[s].did \cup {v}
  BY <1>1, Zenon DEF OpenTx
<1>6. pc[s] = "starting" /\ Migrating(s, tx[s])
  BY <1>1, Zenon DEF OpenTx, ApplyMigration
<1>7. Migrating(s, t)
  BY <1>2, <1>5, <1>6 DEF Migrating, Up
<1>8. Exact(tx[s].work)' /\ Migrating(s, tx[s])'
  BY <1>3, <1>4, <1>5, <1>7 DEF Exact, Migrating
<1>9. OpenTx(s, tx[s])'
  BY <1>1, <1>2, <1>3, <1>5, <1>6, <1>8 DEF OpenTx
<1>. QED  BY <1>1, <1>3, <1>9, SchemaKept

LEMMA DownFits ==
  ASSUME MigInv, NEW s \in Servers, DownMigration(s)
  PROVE  MigInv'
<1>. PICK v : v = Max(tx[s].todo)
  BY Zenon
<1>. PICK t : t = [tx[s] EXCEPT !.work = Down(v, tx[s].work), !.todo = tx[s].todo \ {v},
                                !.left = tx[s].left - 1, !.did = tx[s].did \cup {v}]
  BY Zenon
<1>1. OpenTx(s, tx[s]) /\ \A r \in Servers \ {s} : tx[r] = NoTx
  BY Zenon DEF MigInv, DownMigration, Undoing
<1>2. v \in tx[s].todo /\ v \in 1 .. 3
  BY <1>1, NextVersion, Zenon DEF OpenTx, DownMigration
<1>3. tx'[s] = t /\ OnlyOf(s) /\ UNCHANGED <<db, pc, runs>>
  BY Zenon DEF MigInv, DownMigration, OnlyOf
<1>4. Exact(Down(v, tx[s].work))
  BY <1>1, <1>2, ExactStep DEF OpenTx
<1>5. /\ DOMAIN t = DOMAIN tx[s] /\ t.work = Down(v, tx[s].work)
      /\ t.todo = tx[s].todo \ {v} /\ t.did = tx[s].did \cup {v}
  BY <1>1, Zenon DEF OpenTx
<1>6. pc[s] = "up" /\ RollingBack(tx[s])
  BY <1>1, Zenon DEF OpenTx, DownMigration, Undoing
<1>7. RollingBack(t)
  BY <1>2, <1>5, <1>6 DEF RollingBack, Down
<1>8. Exact(tx[s].work)' /\ RollingBack(tx[s])'
  BY <1>3, <1>4, <1>5, <1>7 DEF Exact, RollingBack
<1>9. OpenTx(s, tx[s])'
  BY <1>1, <1>2, <1>3, <1>5, <1>6, <1>8 DEF OpenTx
<1>. QED  BY <1>1, <1>3, <1>9, SchemaKept

\* A commit installs the copy: no other transaction is open to be surprised,
\* and the migrations it counts are those by which the copy differs.
LEMMA InstallFits ==
  ASSUME MigInv, NEW s \in Servers, tx[s] # NoTx, NEW delta, Install(s, delta),
         \/ pc[s] = "starting" /\ delta = 1
         \/ pc[s] = "up" /\ delta = -1,
         DOMAIN pc' = Servers
  PROVE  MigInv'
<1>1. OpenTx(s, tx[s]) /\ \A r \in Servers \ {s} : tx[r] = NoTx
  BY Zenon DEF MigInv
<1>2. /\ db' = tx[s].work /\ tx' = [tx EXCEPT ![s] = NoTx]
      /\ runs' = [v \in 1 .. 3 |-> runs[v] + IF v \in tx[s].did THEN delta ELSE 0]
  BY Zenon DEF Install, Rollback, Versions
<1>3. Exact(db)' /\ DOMAIN tx' = Servers /\ DOMAIN pc' = Servers /\ \A r \in Servers : tx'[r] = NoTx
  BY <1>1, <1>2, Zenon DEF OpenTx, MigInv, Exact
<1>4. ASSUME NEW v \in 1 .. 3 PROVE runs'[v] = IF v \in db'.versions THEN 1 ELSE 0
  <2>1. runs[v] = (IF v \in db.versions THEN 1 ELSE 0) /\ runs'[v] = runs[v] + IF v \in tx[s].did THEN delta ELSE 0
    BY <1>2, Zenon DEF MigInv, MigrationsRunOnce, Versions
  <2>2. CASE pc[s] = "starting"
    <3>1. v \in db'.versions <=> v \in db.versions \/ v \in tx[s].did
      BY <1>1, <1>2, <2>2 DEF OpenTx, Migrating
    <3>2. ~(v \in db.versions /\ v \in tx[s].did)
      BY <1>1, <2>2, Zenon DEF OpenTx, Migrating
    <3>. QED  BY <2>1, <2>2, <3>1, <3>2
  <2>3. CASE pc[s] = "up"
    <3>1. v \in db'.versions <=> v \in db.versions /\ v \notin tx[s].did
      BY <1>1, <1>2, <2>3 DEF OpenTx, RollingBack
    <3>2. v \in tx[s].did => v \in db.versions
      BY <1>1, <2>3, Zenon DEF OpenTx, RollingBack
    <3>. QED  BY <2>1, <2>3, <3>1, <3>2
  <2>. QED  BY <2>2, <2>3, Zenon
<1>. QED  BY <1>3, <1>4 DEF MigInv, MigrationsRunOnce, Versions

\* The other steps end a transaction or leave it alone.
LEMMA NextAttemptOf ==
  ASSUME MigInv, NEW s \in Servers, NextAttempt(s)
  PROVE  DOMAIN pc' = Servers /\ (\A r \in Servers \ {s} : pc'[r] = pc[r]) /\ pc'[s] \in {pc[s], "failed"}
<1>. QED  BY Zenon DEF MigInv, NextAttempt, Enter

LEMMA MigStep ==
  ASSUME MigInv, NEW s \in Servers,
         \/ StartReplica(s) \/ BeginMigrate(s) \/ ApplyMigration(s) \/ CommitMigrate(s)
         \/ StartupFault(s) \/ Crash(s)
         \/ \E count \in DownCounts : BeginDown(s, count)
         \/ DownMigration(s) \/ CommitDown(s) \/ DownFault(s)
  PROVE  MigInv'
<1>1. ASSUME StartReplica(s) PROVE MigInv'
  <2>1. tx[s] = NoTx
    BY <1>1, Zenon DEF MigInv, OpenTx, StartReplica
  <2>2. UNCHANGED <<db, runs, tx>> /\ OnlyOf(s)
    BY <1>1, Zenon DEF StartReplica, Enter, OnlyOf, MigInv
  <2>. QED  BY <2>1, <2>2, SchemaKept
<1>2. ASSUME BeginMigrate(s) PROVE MigInv'
  <2>1. CASE Verify(s)
    <3>1. Begin(s, Embedded[s] \ db.versions, 0) /\ UNCHANGED <<db, pc, runs>> /\ LockFree /\ pc[s] = "starting"
      BY <1>2, <2>1 DEF BeginMigrate
    <3>. QED  BY <2>1, <3>1, BeginFits
  <2>2. CASE ~Verify(s)
    <3>1. UNCHANGED <<db, runs, tx>> /\ tx[s] = NoTx /\ NextAttempt(s)
      BY <1>2, <2>2, Zenon DEF BeginMigrate
    <3>2. OnlyOf(s)
      BY <3>1, NextAttemptOf, Zenon DEF OnlyOf, MigInv
    <3>. QED  BY <3>1, <3>2, SchemaKept
  <2>. QED  BY <2>1, <2>2
<1>3. ASSUME CommitMigrate(s) PROVE MigInv'
  <2>1. DOMAIN pc' = Servers
    BY <1>3, NextAttemptOf, Zenon DEF CommitMigrate, Enter, MigInv
  <2>. QED  BY <1>3, <2>1, InstallFits DEF CommitMigrate
<1>4. ASSUME StartupFault(s) PROVE MigInv'
  <2>1. DOMAIN pc' = Servers /\ \A r \in Servers \ {s} : pc'[r] = pc[r]
    BY <1>4, NextAttemptOf, Zenon DEF StartupFault, Enter, MigInv
  <2>2. OnlyOf(s) /\ tx'[s] = NoTx /\ UNCHANGED <<db, runs>>
    BY <1>4, <2>1, Zenon DEF StartupFault, Rollback, OnlyOf, MigInv
  <2>. QED  BY <2>2, SchemaKept
<1>5. ASSUME Crash(s) PROVE MigInv'
  <2>1. OnlyOf(s) /\ tx'[s] = NoTx /\ UNCHANGED <<db, runs>>
    BY <1>5, Zenon DEF Crash, Rollback, Enter, OnlyOf, MigInv
  <2>. QED  BY <2>1, SchemaKept, Zenon
<1>6. ASSUME NEW count \in DownCounts, BeginDown(s, count) PROVE MigInv'
  <2>1. Begin(s, db.versions \cap Embedded[s], count) /\ UNCHANGED <<db, pc, runs>> /\ LockFree /\ pc[s] = "up"
    BY <1>6, Zenon DEF BeginDown
  <2>. QED  BY <2>1, BeginFits, Zenon
<1>7. ASSUME CommitDown(s) PROVE MigInv'
  BY <1>7, InstallFits, Zenon DEF CommitDown, Undoing, MigInv
<1>8. ASSUME DownFault(s) PROVE MigInv'
  <2>1. OnlyOf(s) /\ tx'[s] = NoTx /\ UNCHANGED <<db, runs>>
    BY <1>8, Zenon DEF DownFault, Rollback, OnlyOf, MigInv
  <2>. QED  BY <2>1, SchemaKept, Zenon
<1>. QED  BY <1>1, <1>2, <1>3, <1>4, <1>5, <1>6, <1>7, <1>8, ApplyFits, DownFits, Zenon

\* Every reachable state of Migrations satisfies MigInv.
THEOREM MigInvariance == MigrationSpec => []MigInv
<1>1. MigrationInit => MigInv
  BY DEF MigrationInit, MigInv, Exact, MigrationsRunOnce, Versions
<1>2. MigInv /\ [MigrationNext]_migrationVars => MigInv'
  <2>. SUFFICES ASSUME MigInv, [MigrationNext]_migrationVars PROVE MigInv'
    BY Zenon
  <2>1. CASE MigrationNext
    BY <2>1, MigStep, Zenon DEF MigrationNext
  <2>2. CASE UNCHANGED migrationVars
    BY <2>2, Zenon DEF migrationVars, MigInv, Exact, OpenTx, Migrating, RollingBack, MigrationsRunOnce
  <2>. QED  BY <2>1, <2>2, Zenon
<1>. QED  BY <1>1, <1>2, PTL DEF MigrationSpec

\* schema_migrations records exactly the migrations whose objects exist, in
\* every state that any starts, crashes, lost answers and rollbacks lead to.
THEOREM SchemaIsRecorded == MigrationSpec => []SchemaMatchesVersions
<1>1. MigInv => SchemaMatchesVersions
  BY Zenon DEF MigInv, Exact, SchemaMatchesVersions
<1>. QED  BY <1>1, MigInvariance, PTL

\* No migration takes effect twice unless it was undone in between.
THEOREM MigrationsTakeEffectOnce == MigrationSpec => []MigrationsRunOnce
<1>1. MigInv => MigrationsRunOnce
  BY Zenon DEF MigInv
<1>. QED  BY <1>1, MigInvariance, PTL

\* NewPostgresRepository returns only on the schema of its own release: the
\* chain it verified and the migrations it ran are those it was built with,
\* and the lock has kept all others out since it read the versions.
THEOREM ServesItsOwnSchema == MigrationSpec => StartsMigrated
<1>1. MigInv /\ [MigrationNext]_migrationVars
      => [\A s \in Servers : pc[s] # "up" /\ pc'[s] = "up" => Embedded[s] = db'.versions]_migrationVars
  <2>. SUFFICES ASSUME MigInv, MigrationNext, NEW s \in Servers, pc[s] # "up", pc'[s] = "up"
                PROVE  Embedded[s] = db'.versions
    BY Zenon
  <2>1. PICK r \in Servers :
          \/ StartReplica(r) \/ BeginMigrate(r) \/ ApplyMigration(r) \/ CommitMigrate(r)
          \/ StartupFault(r) \/ Crash(r)
          \/ \E count \in DownCounts : BeginDown(r, count)
          \/ DownMigration(r) \/ CommitDown(r) \/ DownFault(r)
    BY Zenon DEF MigrationNext
  <2>2. CASE CommitMigrate(r)
    <3>1. r = s
      BY <2>2, NextAttemptOf, Zenon DEF CommitMigrate, Enter, MigInv
    <3>2. db' = tx[s].work /\ tx[s].todo = {} /\ pc[s] = "starting" /\ OpenTx(s, tx[s])
      BY <2>2, <3>1, Zenon DEF CommitMigrate, Install, MigInv
    <3>. QED  BY <3>2, Zenon DEF OpenTx, Migrating
  <2>3. CASE ~CommitMigrate(r)
    <3>1. pc'[s] \in {pc[s], "starting", "failed", "stopped"}
      <4>1. CASE BeginMigrate(r) \/ StartupFault(r)
        BY <4>1, NextAttemptOf, Zenon DEF BeginMigrate, StartupFault, Enter, MigInv
      <4>. QED  BY <2>1, <2>3, <4>1 DEF StartReplica, ApplyMigration, Crash, BeginDown, DownMigration,
             CommitDown, DownFault, Enter, MigInv
    <3>. QED  BY <3>1, Zenon
  <2>. QED  BY <2>2, <2>3, Zenon
<1>. QED  BY <1>1, MigInvariance, PTL DEF MigrationSpec, StartsMigrated
=============================================================================
