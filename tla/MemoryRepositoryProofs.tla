----------------------- MODULE MemoryRepositoryProofs -----------------------
(***************************************************************************)
(* Theorems about MemoryRepository for any ids, keys and capacity; then    *)
(* about the pages of its List and of the Postgres one (module PagedList), *)
(* which have state and constants of their own.                            *)
(***************************************************************************)
EXTENDS MemoryRepository, PagedList, FiniteSetTheorems, TLAPS

\* Ids are not reused, so an entry of r.idem never comes to stand for a user
\* that was created without its key.
KeysPointBack ==
  /\ Live \subseteq used
  /\ \A k \in Keys : idem[k] # None => idem[k] \in used /\ origin[idem[k]] = k
  /\ \A i \in Live : origin[i] # None => idem[origin[i]] = i

\* What the holder of the lock loaded is still what is stored.
LoadedIsCurrent ==
  rmu # None => /\ users[rmu.id] # None
                /\ rmu.working = Append(users[rmu.id], rmu.mark)

IInv ==
  /\ TypeOK
  /\ CapacityHeld
  /\ KeysPointBack
  /\ LoadedIsCurrent
  /\ ReplayReturnsOriginal
-----------------------------------------------------------------------------
(* Helpers *)

LEMMA LiveFinite == IsFiniteSet(Live) /\ Cardinality(Live) \in Nat
<1>1. Live \subseteq Ids
  BY Zenon DEF Live
<1>. QED  BY <1>1, MemoryAssumption, FS_Subset, FS_CardinalityType, Zenon

\* A row is not None, whatever is written to it.
LEMMA RowsAreNotNone ==
  /\ \A m \in Marks : <<m>> \in Seq(Marks) /\ <<m>> # None
  /\ \A s \in Seq(Marks), m \in Marks :
       Append(s, m) \in Seq(Marks) /\ Append(s, m) # None
<1>1. \A m \in Marks : <<m>> \in Seq(Marks)
  OBVIOUS
<1>2. \A s \in Seq(Marks), m \in Marks : Append(s, m) \in Seq(Marks)
  OBVIOUS
<1>3. None \notin Seq(Marks)
  BY MemoryAssumption, Zenon
<1>. QED  BY <1>1, <1>2, <1>3, Zenon
-----------------------------------------------------------------------------
LEMMA InitIInv == Init => IInv
<1>. SUFFICES ASSUME Init PROVE IInv
  BY Zenon
<1>1. Live = {}
  BY Zenon DEF Init, Live
<1>2. CapacityHeld
  BY <1>1, FS_EmptySet, MemoryAssumption DEF CapacityHeld
<1>3. TypeOK
  BY Zenon DEF Init, TypeOK
<1>. QED
  BY <1>1, <1>2, <1>3, Zenon DEF Init, IInv, KeysPointBack, LoadedIsCurrent,
                          ReplayReturnsOriginal

\* Storing a new user under a fresh id.
LEMMA StoreIInv ==
  ASSUME IInv, MutexFree, UNCHANGED <<closed, rmu>>,
         NEW id \in Ids, NEW key \in Keys \cup {None}, NEW m \in Marks,
         FreshId(id), Store(id, key, m)
  PROVE  IInv'
<1>. USE MemoryAssumption
<1>1. id \notin used
  BY Zenon DEF FreshId, Store
<1>2. TypeOK'
  BY RowsAreNotNone, Zenon DEF IInv, TypeOK, Store, Record
<1>3. Live' = Live \cup {id}
  BY RowsAreNotNone DEF IInv, TypeOK, Store, Live
<1>4. CapacityHeld'
  <2>1. id \notin Live
    BY Zenon DEF Store, Live
  <2>2. Cardinality(Live') = Cardinality(Live) + 1
    BY <1>3, <2>1, LiveFinite, FS_AddElement, Zenon
  <2>. QED  BY <2>2, LiveFinite DEF Store, Room, CapacityHeld
<1>5. KeysPointBack'
  <2>1. \A k \in Keys : idem'[k] = IF k = key THEN id ELSE idem[k]
    BY Zenon DEF IInv, TypeOK, Store, Record
  <2>2. \A i \in Ids : origin'[i] = IF i = id THEN key ELSE origin[i]
    BY Zenon DEF IInv, TypeOK, Store
  <2>3. \A k \in Keys : idem[k] \in Ids \cup {None}
    BY Zenon DEF IInv, TypeOK
  <2>4. \A k \in Keys : idem'[k] # None => idem'[k] \in used' /\ origin'[idem'[k]] = k
    BY <1>1, <2>1, <2>2, <2>3 DEF IInv, KeysPointBack, Store
  <2>5. \A i \in Live' : origin'[i] # None => idem'[origin'[i]] = i
    <3>. SUFFICES ASSUME NEW i \in Live', origin'[i] # None
                  PROVE  idem'[origin'[i]] = i
      BY Zenon
    <3>1. CASE i = id
      BY <3>1, <2>1, <2>2, Zenon
    <3>2. CASE i # id
      <4>1. i \in Live /\ i \in Ids /\ origin'[i] = origin[i]
        BY <3>2, <1>3, <2>2, Zenon DEF Live
      <4>2. origin[i] \in Keys /\ idem[origin[i]] = i
        BY <4>1, Zenon DEF IInv, TypeOK, KeysPointBack
      <4>3. origin[i] # key
        BY <4>1, <4>2, Zenon DEF Store, Hit, Live
      <4>. QED  BY <4>1, <4>2, <4>3, <2>1, Zenon
    <3>. QED  BY <3>1, <3>2, Zenon
  <2>6. Live' \subseteq used'
    BY <1>3, Zenon DEF IInv, KeysPointBack, Store
  <2>. QED  BY <2>4, <2>5, <2>6, Zenon DEF KeysPointBack
<1>. QED
  BY <1>2, <1>4, <1>5, Zenon
  DEF IInv, MutexFree, LoadedIsCurrent, ReplayReturnsOriginal, Store

\* A write to a stored user changes neither who is stored nor any key.
LEMMA RewriteIInv ==
  ASSUME IInv, NEW id \in Ids, users[id] # None, NEW row \in Seq(Marks),
         users' = [users EXCEPT ![id] = row], rmu' = None, replay' = None,
         UNCHANGED <<idem, closed, used, origin>>
  PROVE  IInv'
<1>1. row # None
  BY MemoryAssumption, Zenon
<1>2. Live' = Live
  BY <1>1, Zenon DEF IInv, TypeOK, Live
<1>3. TypeOK'
  BY Zenon DEF IInv, TypeOK
<1>4. KeysPointBack'
  BY <1>2, Zenon DEF IInv, KeysPointBack
<1>. QED
  BY <1>2, <1>3, <1>4, Zenon DEF IInv, CapacityHeld, LoadedIsCurrent, ReplayReturnsOriginal

LEMMA DeleteIInv ==
  ASSUME IInv, NEW id \in Ids, Delete(id)
  PROVE  IInv'
<1>1. Live' = Live \ {id}
  BY Zenon DEF IInv, TypeOK, Delete, Live
<1>2. TypeOK'
  BY Zenon DEF IInv, TypeOK, Delete
<1>3. CapacityHeld'
  <2>1. Cardinality(Live') <= Cardinality(Live)
    BY <1>1, LiveFinite, FS_Subset, Zenon
  <2>2. Cardinality(Live') \in Nat
    BY <1>1, LiveFinite, FS_Subset, FS_CardinalityType, Zenon
  <2>. QED  BY <2>1, <2>2, LiveFinite, MemoryAssumption DEF IInv, CapacityHeld
<1>4. KeysPointBack'
  BY <1>1, Zenon DEF IInv, KeysPointBack, Delete
<1>. QED
  BY <1>2, <1>3, <1>4, Zenon DEF IInv, Delete, MutexFree, LoadedIsCurrent, ReplayReturnsOriginal

LEMMA StepIInv == IInv /\ [Next]_vars => IInv'
<1>. SUFFICES ASSUME IInv, [Next]_vars PROVE IInv'
  BY Zenon
<1>1. ASSUME NEW id \in Ids, NEW m \in Marks, NEW key \in Keys \cup {None},
             CreateWithIdempotency(id, key, m)
      PROVE  IInv'
  <2>1. CASE Store(id, key, m)
    BY <1>1, <2>1, StoreIInv, Zenon DEF CreateWithIdempotency
  <2>2. CASE Replay(key)
    <3>1. key \in Keys /\ idem[key] \in Ids /\ users[idem[key]] # None /\ origin[idem[key]] = key
      BY <2>2, MemoryAssumption, Zenon DEF Replay, Hit, IInv, TypeOK, KeysPointBack
    <3>2. TypeOK' /\ ReplayReturnsOriginal'
      BY <1>1, <2>2, <3>1, Zenon
      DEF IInv, TypeOK, ReplayReturnsOriginal, Replay, CreateWithIdempotency
    <3>3. Live' = Live
      BY <2>2, Zenon DEF Replay, Live
    <3>. QED
      BY <1>1, <2>2, <3>2, <3>3, Zenon
      DEF IInv, CapacityHeld, KeysPointBack, LoadedIsCurrent, Replay, CreateWithIdempotency
  <2>3. CASE Refuse(id, key)
    <3>1. Live' = Live
      BY <2>3, Zenon DEF Refuse, Live
    <3>. QED
      BY <1>1, <2>3, <3>1, Zenon
      DEF IInv, TypeOK, CapacityHeld, KeysPointBack, LoadedIsCurrent,
          ReplayReturnsOriginal, Refuse, CreateWithIdempotency
  <2>. QED  BY <1>1, <2>1, <2>2, <2>3, Zenon DEF CreateWithIdempotency
<1>2. ASSUME NEW id \in Ids, NEW m \in Marks, Update(id, m)
      PROVE  IInv'
  BY <1>2, RowsAreNotNone, RewriteIInv, Zenon DEF Update, MutexFree
<1>3. ASSUME NEW id \in Ids, NEW m \in Marks, ReadModifyUpdateLoad(id, m)
      PROVE  IInv'
  <2>1. users[id] \in Seq(Marks)
    BY <1>3, Zenon DEF ReadModifyUpdateLoad, IInv, TypeOK
  <2>2. rmu' \in [id : Ids, mark : Marks, working : Seq(Marks)]
    BY <1>3, <2>1, RowsAreNotNone, Zenon DEF ReadModifyUpdateLoad
  <2>3. Live' = Live
    BY <1>3, Zenon DEF ReadModifyUpdateLoad, Live
  <2>. QED
    BY <1>3, <2>2, <2>3, Zenon
    DEF IInv, TypeOK, CapacityHeld, KeysPointBack, LoadedIsCurrent,
        ReplayReturnsOriginal, ReadModifyUpdateLoad
<1>4. CASE ReadModifyUpdateStore
  <2>1. /\ rmu.id \in Ids /\ rmu.working \in Seq(Marks)
        /\ users[rmu.id] # None
    BY <1>4, Zenon DEF ReadModifyUpdateStore, IInv, TypeOK, LoadedIsCurrent
  <2>2. CASE users' = [users EXCEPT ![rmu.id] = rmu.working]
    BY <1>4, <2>1, <2>2, RewriteIInv, Zenon DEF ReadModifyUpdateStore
  <2>3. CASE UNCHANGED users
    <3>1. Live' = Live
      BY <2>3, Zenon DEF Live
    <3>. QED
      BY <1>4, <2>3, <3>1, Zenon
      DEF IInv, TypeOK, CapacityHeld, KeysPointBack, LoadedIsCurrent,
          ReplayReturnsOriginal, ReadModifyUpdateStore
  <2>. QED  BY <1>4, <2>2, <2>3, Zenon DEF ReadModifyUpdateStore
<1>5. CASE Close \/ UNCHANGED vars
  <2>1. Live' = Live
    BY <1>5, Zenon DEF Close, vars, Live
  <2>. QED
    BY <1>5, <2>1, Zenon
    DEF IInv, TypeOK, CapacityHeld, KeysPointBack, LoadedIsCurrent,
        ReplayReturnsOriginal, Close, vars
<1>. QED  BY <1>1, <1>2, <1>3, <1>4, <1>5, DeleteIInv, Zenon DEF Next
-----------------------------------------------------------------------------
\* The strengthened invariant of memory.go's operations.
THEOREM Invariance == Spec => []IInv
BY InitIInv, StepIInv, PTL DEF Spec

\* The maps keep their types under every operation.
THEOREM TypeCorrect == Spec => []TypeOK
<1>1. IInv => TypeOK
  BY Zenon DEF IInv
<1>. QED  BY <1>1, Invariance, PTL

\* CreateWithIdempotency never stores more than maxUsers users.
THEOREM Capacity == Spec => []CapacityHeld
<1>1. IInv => CapacityHeld
  BY Zenon DEF IInv
<1>. QED  BY <1>1, Invariance, PTL

\* One stored user per idempotency key, whatever is deleted in between.
THEOREM KeysAreUnique == Spec => []OneUserPerKey
<1>1. IInv => OneUserPerKey
  BY Zenon DEF IInv, KeysPointBack, OneUserPerKey
<1>. QED  BY <1>1, Invariance, PTL

\* A replayed create returns the stored user the key was first used for.
THEOREM ReplayIsOriginal == Spec => []ReplayReturnsOriginal
<1>1. IInv => ReplayReturnsOriginal
  BY Zenon DEF IInv
<1>. QED  BY <1>1, Invariance, PTL

\* Close waits for the lock, so no update is at work once closed is set.
ClosedIsIdle == closed => rmu = None

LEMMA ClosedIdle == Spec => []ClosedIsIdle
<1>1. Init => ClosedIsIdle
  BY Zenon DEF Init, ClosedIsIdle
<1>2. ClosedIsIdle /\ [Next]_vars => ClosedIsIdle'
  BY Zenon DEF ClosedIsIdle, Next, vars, CreateWithIdempotency, Update, ReadModifyUpdateLoad,
         ReadModifyUpdateStore, Delete, Close, MutexFree, Available
<1>. QED  BY <1>1, <1>2, PTL DEF Spec

\* Nothing is written after Close, not even by an update it raced with.
THEOREM ClosedForGood == Spec => FailsClosed
<1>1. ClosedIsIdle /\ [Next]_vars => [closed => UNCHANGED <<users, idem>>]_vars
  BY Zenon DEF ClosedIsIdle, Next, vars, CreateWithIdempotency, Refuse, Update,
         ReadModifyUpdateLoad, ReadModifyUpdateStore, Delete, Close, Available
<1>. QED  BY <1>1, ClosedIdle, PTL DEF Spec, FailsClosed
-----------------------------------------------------------------------------
(* Refinement *)

\* What a step does to the keys' owners, given what it does to users and idem.
LEMMA StoreOwner ==
  ASSUME IInv, NEW id \in Ids, NEW key \in Keys \cup {None}, NEW m \in Marks,
         FreshId(id), Store(id, key, m)
  PROVE  Contract!StoreNext
<1>1. id \notin used
  BY Zenon DEF FreshId, Store
<1>2. \A k \in Keys : idem[k] # id
  BY <1>1, MemoryAssumption, Zenon DEF IInv, KeysPointBack
<1>3. \A k \in Keys : idem'[k] = IF k = key THEN id ELSE idem[k]
  BY MemoryAssumption, Zenon DEF IInv, TypeOK, Store, Record
<1>4. users'[id] # None /\ \A i \in Ids \ {id} : users'[i] = users[i]
  BY RowsAreNotNone, Zenon DEF IInv, TypeOK, Store
<1>5. \A k \in Keys : idem[k] \in Ids \cup {None}
  BY Zenon DEF IInv, TypeOK
<1>6. \A k \in Keys : k # None
  BY MemoryAssumption, Zenon
<1>7. id # None
  BY MemoryAssumption, Zenon
<1>8. \A k \in Keys : Owner'[k] = IF k = key THEN id ELSE Owner[k]
  BY <1>2, <1>3, <1>4, <1>5, <1>6, <1>7 DEF Owner, Hit
<1>9. Contract!Insert(id, m)
  <2>1. Contract!Live = Live
    BY Zenon DEF Contract!Live, Live
  <2>2. Contract!Cardinality(Live) = Cardinality(Live)
    BY Zenon DEF Contract!Cardinality, Cardinality
  <2>. QED  BY <2>1, <2>2, Zenon DEF Contract!Insert, Store, Room
<1>10. CASE key = None
  <2>1. Owner' = Owner
    BY <1>6, <1>8, <1>10, Zenon DEF Owner
  <2>. QED  BY <1>9, <2>1, Zenon DEF Contract!StoreNext, Contract!StoreCreate
<1>11. CASE key \in Keys
  <2>1. Owner[key] = None
    BY <1>11, Zenon DEF Owner, Store
  <2>2. Owner' = [Owner EXCEPT ![key] = id]
    BY <1>8, <1>11, Zenon DEF Owner
  <2>. QED
    BY <1>9, <1>11, <2>1, <2>2, Zenon DEF Contract!StoreNext, Contract!StoreCreateKeyed
<1>. QED  BY <1>10, <1>11, Zenon

LEMMA RewriteOwner ==
  ASSUME IInv, NEW id \in Ids, users[id] # None, NEW row \in Seq(Marks),
         users' = [users EXCEPT ![id] = row], UNCHANGED idem
  PROVE  UNCHANGED Owner
<1>1. row # None
  BY MemoryAssumption, Zenon
<1>2. \A i \in Ids : (users'[i] = None) <=> (users[i] = None)
  BY <1>1, Zenon DEF IInv, TypeOK
<1>3. \A k \in Keys : idem[k] \in Ids \cup {None}
  BY Zenon DEF IInv, TypeOK
<1>4. \A k \in Keys : Hit(k)' <=> Hit(k)
  BY <1>2, <1>3, Zenon DEF Hit
<1>. QED  BY <1>4, Zenon DEF Owner

\* Every behaviour of the in-memory repository is one of the contract: each
\* operation takes effect in one step, its capacity and key checks included.
THEOREM Refinement == Spec => ImplementsUserStore
<1>1. Init => Contract!StoreInit
  BY Zenon DEF Init, Contract!StoreInit, Owner, Hit
<1>2. IInv /\ [Next]_vars => [Contract!StoreNext]_(Contract!storeVars)
  <2>. SUFFICES ASSUME IInv, [Next]_vars
                PROVE  Contract!StoreNext \/ UNCHANGED <<users, Owner>>
    BY Zenon DEF Contract!storeVars
  <2>1. ASSUME UNCHANGED <<users, idem>>
        PROVE  UNCHANGED <<users, Owner>>
    BY <2>1, Zenon DEF Owner, Hit
  <2>2. ASSUME NEW id \in Ids, NEW m \in Marks, NEW key \in Keys \cup {None},
               CreateWithIdempotency(id, key, m)
        PROVE  Contract!StoreNext \/ UNCHANGED <<users, Owner>>
    BY <2>1, <2>2, StoreOwner, Zenon DEF CreateWithIdempotency, Replay, Refuse
  <2>3. ASSUME NEW id \in Ids, NEW m \in Marks, Update(id, m)
        PROVE  Contract!StoreNext
    <3>1. UNCHANGED Owner
      BY <2>3, RowsAreNotNone, RewriteOwner, Zenon DEF Update
    <3>. QED  BY <2>3, <3>1, Zenon DEF Update, Contract!StoreNext, Contract!StoreUpdate
  <2>4. CASE ReadModifyUpdateStore
    <3>1. CASE UNCHANGED users
      BY <2>1, <2>4, <3>1, Zenon DEF ReadModifyUpdateStore
    <3>2. CASE users' = [users EXCEPT ![rmu.id] = rmu.working]
      <4>1. /\ rmu.id \in Ids /\ rmu.mark \in Marks /\ rmu.working \in Seq(Marks)
            /\ users[rmu.id] # None
            /\ rmu.working = Append(users[rmu.id], rmu.mark)
        BY <2>4, Zenon DEF ReadModifyUpdateStore, IInv, TypeOK, LoadedIsCurrent
      <4>2. UNCHANGED Owner
        BY <2>4, <3>2, <4>1, RewriteOwner, Zenon DEF ReadModifyUpdateStore
      <4>3. Contract!StoreModify(rmu.id, rmu.mark)
        BY <3>2, <4>1, <4>2, Zenon DEF Contract!StoreModify
      <4>. QED  BY <4>1, <4>3, Zenon DEF Contract!StoreNext
    <3>. QED  BY <2>4, <3>1, <3>2, Zenon DEF ReadModifyUpdateStore
  <2>5. ASSUME NEW id \in Ids, Delete(id)
        PROVE  Contract!StoreNext
    <3>1. \A k \in Keys : idem[k] \in Ids \cup {None} /\ k # None
      BY MemoryAssumption, Zenon DEF IInv, TypeOK
    <3>2. users'[id] = None /\ \A i \in Ids \ {id} : users'[i] = users[i]
      BY <2>5, Zenon DEF Delete, IInv, TypeOK
    <3>3. \A k \in Keys : Owner'[k] = IF Owner[k] = id THEN None ELSE Owner[k]
      BY <2>5, <3>1, <3>2, MemoryAssumption, Zenon DEF Owner, Hit, Delete
    <3>4. Owner' = [k \in Keys |-> IF Owner[k] = id THEN None ELSE Owner[k]]
      BY <3>3, Zenon DEF Owner
    <3>. QED  BY <2>5, <3>4, Zenon DEF Delete, Contract!StoreNext, Contract!StoreDelete
  <2>6. CASE Close \/ UNCHANGED vars \/ \E id \in Ids, m \in Marks : ReadModifyUpdateLoad(id, m)
    BY <2>1, <2>6, Zenon DEF Close, vars, ReadModifyUpdateLoad
  <2>. QED  BY <2>2, <2>3, <2>4, <2>5, <2>6, Zenon DEF Next
<1>. QED
  BY <1>1, <1>2, Invariance, PTL DEF Spec, ImplementsUserStore, Contract!StoreSpec
-----------------------------------------------------------------------------
(* The pages of List (module PagedList), for any users, page sizes and     *)
(* limits.                                                                 *)

Below(S, i) == {j \in S : j < i}

\* Every nonempty set of naturals has a least element.
LEMMA Least ==
  ASSUME NEW S \in SUBSET Nat, S # {}
  PROVE  \E m \in S : \A i \in S : m <= i
<1>1. PICK m \in S : \A i \in S : ~(<<i, m>> \in OpToRel(<, Nat))
  BY NatLessThanWellFounded, WFMin, Zenon
<1>2. \A i \in S : ~(i < m)
  BY <1>1, Zenon DEF OpToRel
<1>. QED  BY <1>2

\* An id's rank counts the ids before it; it grows with the id.
LEMMA Ranks ==
  ASSUME NEW S \in SUBSET Nat, IsFiniteSet(S)
  PROVE  /\ \A i : IsFiniteSet(Below(S, i)) /\ Cardinality(Below(S, i)) \in Nat
         /\ \A i \in S : Cardinality(Below(S, i)) < Cardinality(S)
         /\ \A i, j \in S : i < j => Cardinality(Below(S, i)) < Cardinality(Below(S, j))
<1>1. \A i : IsFiniteSet(Below(S, i)) /\ Cardinality(Below(S, i)) \in Nat
  BY FS_Subset, FS_CardinalityType, Zenon DEF Below
<1>2. Cardinality(S) \in Nat
  BY FS_CardinalityType, Zenon
<1>3. ASSUME NEW i \in S PROVE Cardinality(Below(S, i)) < Cardinality(S)
  <2>1. Below(S, i) \in SUBSET S /\ Below(S, i) # S
    BY DEF Below
  <2>. QED  BY <1>1, <1>2, <2>1, FS_Subset
<1>4. ASSUME NEW i \in S, NEW j \in S, i < j
      PROVE  Cardinality(Below(S, i)) < Cardinality(Below(S, j))
  <2>0. \A k \in S : k < i => k < j
    BY <1>4
  <2>1. Below(S, i) \in SUBSET Below(S, j)
    BY <2>0, Zenon DEF Below
  <2>2. i \in Below(S, j) /\ i \notin Below(S, i)
    BY <1>4 DEF Below
  <2>. QED  BY <1>1, <2>1, <2>2, FS_Subset
<1>. QED  BY <1>1, <1>3, <1>4, Zenon

\* A finite set of ids has a greatest one, which Max finds.
LEMMA Greatest ==
  ASSUME NEW S \in SUBSET Nat, IsFiniteSet(S), S # {}
  PROVE  Max(S) \in S /\ \A i \in S : i <= Max(S)
<1>. DEFINE left(i) == Cardinality(S) - Cardinality(Below(S, i))
<1>1. \A i \in S : left(i) \in Nat
  BY Ranks, FS_CardinalityType
<1>. HIDE DEF left
<1>2. {left(i) : i \in S} \in SUBSET Nat /\ {left(i) : i \in S} # {}
  BY <1>1, Zenon
<1>. PICK n \in {left(i) : i \in S} : \A k \in {left(i) : i \in S} : n <= k
  BY <1>2, Least, Zenon
<1>3. PICK m \in S : n = left(m)
  BY Zenon
<1>4. ASSUME NEW i \in S, m < i PROVE FALSE
  <2>1. left(m) <= left(i)
    BY <1>3, Zenon
  <2>2. Cardinality(Below(S, m)) < Cardinality(Below(S, i))
    BY <1>4, Ranks, Zenon
  <2>3. Cardinality(S) \in Nat /\ Cardinality(Below(S, m)) \in Nat /\ Cardinality(Below(S, i)) \in Nat
    BY Ranks, FS_CardinalityType, Zenon
  <2>. QED  BY <2>1, <2>2, <2>3 DEF left
<1>5. \A i \in S : m >= i
  BY <1>4
<1>. QED  BY <1>5, Zenon DEF Max

\* What a page holds: the ids of lowest rank, ...
LEMMA PageByRank ==
  ASSUME NEW S, NEW n
  PROVE  FirstIds(S, n) = {i \in S : Cardinality(Below(S, i)) < n}
BY Zenon DEF FirstIds, Below

\* ... with no gap, ...
LEMMA PageHasNoGap ==
  ASSUME NEW S \in SUBSET Nat, IsFiniteSet(S), NEW n \in Nat,
         NEW i \in FirstIds(S, n), NEW j \in S, j <= i
  PROVE  j \in FirstIds(S, n)
<1>1. i \in S /\ Cardinality(Below(S, i)) < n
  BY PageByRank, Zenon
<1>2. Cardinality(Below(S, i)) \in Nat /\ Cardinality(Below(S, j)) \in Nat
  BY Ranks, Zenon
<1>3. j = i \/ Cardinality(Below(S, j)) < Cardinality(Below(S, i))
  <2>1. j = i \/ j < i
    BY <1>1
  <2>. QED  BY <1>1, <2>1, Ranks, Zenon
<1>4. Cardinality(Below(S, j)) < n
  BY <1>1, <1>2, <1>3
<1>. QED  BY <1>4, PageByRank, Zenon

\* ... all ids when they fit, ...
LEMMA PageHoldsAll ==
  ASSUME NEW S \in SUBSET Nat, IsFiniteSet(S), NEW n \in Nat, Cardinality(S) <= n
  PROVE  FirstIds(S, n) = S
<1>1. ASSUME NEW i \in S PROVE Cardinality(Below(S, i)) < n
  <2>1. Cardinality(Below(S, i)) < Cardinality(S) /\ Cardinality(Below(S, i)) \in Nat
    BY Ranks, Zenon
  <2>2. Cardinality(S) \in Nat
    BY FS_CardinalityType, Zenon
  <2>. QED  BY <2>1, <2>2
<1>. QED  BY <1>1, PageByRank, Zenon

\* ... otherwise at least as many as fit, ...
LEMMA PageIsFull ==
  ASSUME NEW S \in SUBSET Nat, IsFiniteSet(S), NEW n \in Nat, FirstIds(S, n) # S
  PROVE  Cardinality(FirstIds(S, n)) >= n
<1>. PICK F : F = FirstIds(S, n)
  OBVIOUS
<1>1. F = {i \in S : Cardinality(Below(S, i)) < n}
  BY PageByRank, Zenon
<1>2. IsFiniteSet(F) /\ Cardinality(F) \in Nat
  BY <1>1, FS_Subset, FS_CardinalityType, Zenon
<1>3. S \ F \in SUBSET Nat /\ S \ F # {}
  BY <1>1, Zenon
<1>4. PICK m \in S \ F : \A i \in S \ F : m <= i
  BY <1>3, Least, Zenon
<1>5. \A i \in S : i < m => i \in F
  BY <1>4
<1>6. Below(S, m) \in SUBSET F
  BY <1>5, Zenon DEF Below
<1>7. Cardinality(Below(S, m)) \in Nat /\ ~(Cardinality(Below(S, m)) < n)
  BY <1>1, <1>4, Ranks, Zenon
<1>8. Cardinality(Below(S, m)) <= Cardinality(F)
  BY <1>2, <1>6, FS_Subset, Zenon
<1>. QED  BY <1>2, <1>7, <1>8

\* ... and some id when there is any.
LEMMA PageIsNotEmpty ==
  ASSUME NEW S \in SUBSET Nat, S # {}, NEW n \in Nat \ {0}
  PROVE  FirstIds(S, n) # {}
<1>1. PICK m \in S : \A i \in S : m <= i
  BY Least, Zenon
<1>2. \A i \in S : ~(i < m)
  BY <1>1
<1>3. Below(S, m) = {}
  BY <1>2, Zenon DEF Below
<1>4. Cardinality(Below(S, m)) < n
  BY <1>3, FS_EmptySet
<1>. QED  BY <1>4, PageByRank, Zenon

\* The two ways to make a page: cut the sorted ids, or ask for one row more and
\* drop it.
LEMMA SamePages ==
  ASSUME live \subseteq UserIds, NEW limit \in Nat \ {0}, NEW afterID
  PROVE  MemoryList(limit, afterID) = PostgresList(limit, afterID)
<1>. PICK S : S = Above(afterID)
  OBVIOUS
<1>. PICK rows : rows = FirstIds(S, limit + 1)
  OBVIOUS
<1>1. S \in SUBSET Nat /\ IsFiniteSet(S) /\ Cardinality(S) \in Nat
  <2>1. S \subseteq UserIds
    BY Zenon DEF Above
  <2>. QED  BY <2>1, PageAssumption, FS_Subset, FS_CardinalityType, Zenon
<1>2. limit \in Nat /\ limit + 1 \in Nat
  OBVIOUS
<1>3. rows = {i \in S : Cardinality(Below(S, i)) < limit + 1}
  BY PageByRank, Zenon
<1>4. rows \in SUBSET S
  BY <1>3, Zenon
<1>5. IsFiniteSet(rows) /\ Cardinality(rows) \in Nat /\ Cardinality(rows) <= Cardinality(S)
  BY <1>1, <1>4, FS_Subset, FS_CardinalityType, Zenon
<1>6. Cardinality(rows) > limit <=> Cardinality(S) > limit
  <2>1. rows = S \/ Cardinality(rows) >= limit + 1
    BY <1>1, <1>2, PageIsFull, Zenon
  <2>. QED  BY <1>1, <1>5, <2>1
<1>7. FirstIds(rows, limit) = FirstIds(S, limit)
  <2>1. \A i \in rows, j \in S : j < i => j \in rows
    <3>1. \A i \in rows, j \in S : j < i => j <= i
      BY <1>1, <1>4
    <3>. QED  BY <1>1, <1>2, <3>1, PageHasNoGap, Zenon
  <2>2. \A i \in rows : Below(rows, i) = Below(S, i)
    BY <1>4, <2>1, Zenon DEF Below
  <2>3. /\ FirstIds(rows, limit) = {i \in rows : Cardinality(Below(rows, i)) < limit}
        /\ FirstIds(S, limit) = {i \in S : Cardinality(Below(S, i)) < limit}
    BY PageByRank, Zenon
  <2>4. \A i \in S : Cardinality(Below(S, i)) \in Nat
    BY <1>1, Ranks, Zenon
  <2>5. \A i \in S : Cardinality(Below(S, i)) < limit => Cardinality(Below(S, i)) < limit + 1
    BY <2>4
  <2>. QED  BY <1>3, <2>2, <2>3, <2>5, Zenon
<1>8. CASE Cardinality(S) > limit
  BY <1>6, <1>7, <1>8, Zenon DEF MemoryList, PostgresList
<1>9. CASE ~(Cardinality(S) > limit)
  <2>1. Cardinality(S) <= limit /\ Cardinality(S) <= limit + 1
    BY <1>1, <1>9
  <2>2. FirstIds(S, limit) = S /\ rows = S
    BY <1>1, <1>2, <2>1, PageHoldsAll, Zenon
  <2>. QED  BY <1>6, <1>9, <2>2, Zenon DEF MemoryList, PostgresList
<1>. QED  BY <1>8, <1>9, Zenon

\* How far the scan has come.
Reached == decodePageToken(token)

\* Up to where the scan has come, it has returned every stable id, and it has
\* returned nothing beyond.
ScanInv ==
  /\ live \subseteq UserIds /\ stable \subseteq live /\ live \cup seen \subseteq ever /\ ever \subseteq UserIds /\ ~repeated
  /\ Reached \in UserIds \cup {0}
  /\ done => stable \subseteq seen
  /\ ~done => /\ \A i \in stable : i <= Reached => i \in seen
              /\ \A i \in seen : i <= Reached

\* The next page continues the scan where it is, or ends it.
LEMMA NextPage ==
  ASSUME ScanInv, ~done, NEW limit \in Nat \ {0},
         NEW page, page = MemoryList(limit, Reached)
  PROVE  /\ page.users \subseteq live
         /\ \A i \in page.users : i > Reached
         /\ page.next = 0 => \A i \in live : i > Reached => i \in page.users
         /\ page.next # 0 => /\ page.next \in page.users
                             /\ \A i \in page.users : i <= page.next
                             /\ \A i \in live : i > Reached /\ i <= page.next => i \in page.users
<1>. PICK S : S = Above(Reached)
  BY Zenon
<1>. PICK F : F = FirstIds(S, limit)
  BY Zenon
<1>1. S = {i \in live : i > Reached} /\ S \subseteq UserIds /\ UserIds \subseteq Nat \ {0}
  BY PageAssumption, Zenon DEF Above, ScanInv
<1>2. S \in SUBSET Nat /\ IsFiniteSet(S) /\ Cardinality(S) \in Nat
  BY <1>1, PageAssumption, FS_Subset, FS_CardinalityType, Zenon
<1>3. page.users = F /\ page.next = IF Cardinality(S) > limit THEN Max(F) ELSE 0
  BY Zenon DEF MemoryList
<1>4. F \in SUBSET S
  BY PageByRank, Zenon
<1>5. CASE ~(Cardinality(S) > limit)
  <2>1. F = S /\ page.next = 0
    <3>1. Cardinality(S) <= limit
      BY <1>2, <1>5
    <3>. QED  BY <1>2, <1>3, <1>5, <3>1, PageHoldsAll, Zenon
  <2>. QED  BY <1>1, <1>3, <2>1, Zenon
<1>6. CASE Cardinality(S) > limit
  <2>1. S # {}
    BY <1>2, <1>6, FS_EmptySet
  <2>2. F # {} /\ IsFiniteSet(F) /\ F \in SUBSET Nat
    BY <1>2, <1>4, <2>1, PageIsNotEmpty, FS_Subset, Zenon
  <2>3. page.next \in F /\ \A i \in F : i <= page.next
    BY <1>3, <1>6, <2>2, Greatest, Zenon
  <2>4. \A j \in S : j <= page.next => j \in F
    BY <1>2, <2>3, PageHasNoGap, Zenon
  <2>. QED  BY <1>1, <1>3, <1>4, <2>3, <2>4, Zenon
<1>. QED  BY <1>5, <1>6, Zenon

LEMMA SizeIsPositive ==
  ASSUME NEW requested \in PageSizes
  PROVE  Size(requested) \in Nat \ {0}
BY PageAssumption DEF Size

LEMMA TokenRoundTrip ==
  ASSUME NEW id \in Nat
  PROVE  /\ decodePageToken(encodePageToken(id)) = id
         /\ encodePageToken(id) = <<>> <=> id = 0
BY Zenon DEF decodePageToken, encodePageToken

\* A page keeps the scan complete up to where it has come, and brings it forward.
LEMMA PageKeepsScan ==
  ASSUME ScanInv, NEW requested \in PageSizes, ListUsers(requested)
  PROVE  ScanInv' /\ (done' \/ Reached < Reached')
<1>. PICK page : page = MemoryList(Size(requested), Reached)
  BY Zenon
<1>1. /\ ~done /\ token' = encodePageToken(page.next) /\ done' = (token' = <<>>)
      /\ seen' = seen \cup page.users /\ repeated' = (repeated \/ page.users \cap seen # {})
      /\ UNCHANGED <<live, stable, ever>>
  BY Zenon DEF ListUsers, Reached
<1>2. /\ page.users \subseteq live
      /\ \A i \in page.users : i > Reached
      /\ page.next = 0 => \A i \in live : i > Reached => i \in page.users
      /\ page.next # 0 => /\ page.next \in page.users
                          /\ \A i \in page.users : i <= page.next
                          /\ \A i \in live : i > Reached /\ i <= page.next => i \in page.users
  BY <1>1, SizeIsPositive, NextPage, Zenon
<1>3. /\ live \subseteq UserIds /\ stable \subseteq live /\ live \cup seen \subseteq ever
      /\ ever \subseteq UserIds /\ ~repeated /\ Reached \in UserIds \cup {0}
      /\ \A i \in stable : i <= Reached => i \in seen
      /\ \A i \in seen : i <= Reached
  BY <1>1, Zenon DEF ScanInv
<1>4. Reached \in Nat /\ \A i \in UserIds : i \in Nat /\ i # 0
  BY <1>3, PageAssumption
<1>5. /\ \A i \in page.users : i \in Nat /\ i # 0 /\ i > Reached
      /\ \A i \in seen : i \in Nat /\ i <= Reached
      /\ \A i \in stable : i \in Nat /\ i \in live
  BY <1>2, <1>3, <1>4, Zenon
<1>6. page.next \in Nat /\ Reached' = page.next /\ (done' <=> page.next = 0)
  <2>1. page.next \in Nat
    BY <1>2, <1>5
  <2>2. Reached' = decodePageToken(encodePageToken(page.next))
    BY <1>1, Zenon DEF Reached, decodePageToken
  <2>. QED  BY <1>1, <2>1, <2>2, TokenRoundTrip, Zenon
<1>7. ~repeated' /\ seen' \subseteq ever
  <2>1. \A i \in page.users : i \notin seen
    BY <1>4, <1>5
  <2>. QED  BY <1>1, <1>2, <1>3, <2>1, Zenon
<1>8. \A i \in stable : i > Reached \/ i \in seen
  BY <1>3, <1>4, <1>5
<1>9. page.next = 0 => stable \subseteq seen'
  BY <1>1, <1>2, <1>5, <1>8, Zenon
<1>10. ASSUME page.next # 0
       PROVE  /\ Reached < page.next
              /\ \A i \in stable : i <= page.next => i \in seen'
              /\ \A i \in seen' : i <= page.next
  <2>1. Reached < page.next
    BY <1>2, <1>4, <1>5, <1>10
  <2>2. \A i \in seen : i <= page.next
    BY <1>4, <1>5, <1>6, <2>1
  <2>. QED  BY <1>1, <1>2, <1>5, <1>8, <1>10, <2>1, <2>2, Zenon
<1>11. Reached' \in UserIds \cup {0}
  BY <1>2, <1>3, <1>6, Zenon
<1>. QED  BY <1>1, <1>3, <1>6, <1>7, <1>9, <1>10, <1>11, Zenon DEF ScanInv

\* Every reachable state of PagedList satisfies ScanInv.
THEOREM ScanInvariance == ScanSpec => []ScanInv
<1>0. UserIds \subseteq Nat \ {0}
  BY PageAssumption, Zenon
<1>1. ScanInit => ScanInv
  BY <1>0 DEF ScanInit, ScanInv, Reached, decodePageToken
<1>2. ScanInv /\ [ScanNext]_scanVars => ScanInv'
  <2>. SUFFICES ASSUME ScanInv, [ScanNext]_scanVars PROVE ScanInv'
    BY Zenon
  <2>1. ASSUME NEW requested \in PageSizes, ListUsers(requested) PROVE ScanInv'
    BY <2>1, PageKeepsScan, Zenon
  <2>2. ASSUME NEW id \in UserIds, CreateUser(id) PROVE ScanInv'
    BY <2>2, Zenon DEF CreateUser, ScanInv, Reached, decodePageToken
  <2>3. ASSUME NEW id \in UserIds, DeleteUser(id) PROVE ScanInv'
    BY <2>3, Zenon DEF DeleteUser, ScanInv, Reached, decodePageToken
  <2>4. CASE Restart
    <3>1. /\ live' = live /\ stable' = live /\ ever' = live /\ seen' = {}
          /\ ~repeated' /\ ~done' /\ Reached' = 0 /\ live \subseteq UserIds
      BY <2>4, Zenon DEF Restart, ScanInv, Reached, decodePageToken
    <3>2. \A i \in UserIds : ~(i <= 0)
      BY <1>0
    <3>. QED  BY <3>1, <3>2, Zenon DEF ScanInv
  <2>5. CASE UNCHANGED scanVars
    BY <2>5, Zenon DEF scanVars, ScanInv, Reached, decodePageToken
  <2>. QED  BY <2>1, <2>2, <2>3, <2>4, <2>5, Zenon DEF ScanNext
<1>. QED  BY <1>1, <1>2, PTL DEF ScanSpec

\* A finished scan has returned every user that was stored all the while, nobody
\* who never was and nobody twice: the continuation id of a page is its last id,
\* so nothing that stays can slip between two pages.
THEOREM ScansAreComplete == ScanSpec => []ScanComplete
<1>1. ScanInv => ScanComplete
  BY Zenon DEF ScanInv, ScanComplete
<1>. QED  BY <1>1, ScanInvariance, PTL

\* Every page but the last brings the scan forward, to an id beyond all it has
\* returned: the continuation id is that of a user on the page.  With finitely
\* many ids a scan that keeps asking ends.
THEOREM PagesAdvance ==
  ScanSpec =>
    [][\A requested \in PageSizes : ListUsers(requested) => done' \/ Reached < Reached']_scanVars
<1>1. ScanInv /\ [ScanNext]_scanVars
      => [\A requested \in PageSizes : ListUsers(requested) => done' \/ Reached < Reached']_scanVars
  BY PageKeepsScan, Zenon
<1>. QED  BY <1>1, ScanInvariance, PTL DEF ScanSpec

\* Both backends give the same page and the same continuation id for every
\* request, whatever users are stored.
THEOREM BackendsGiveSamePages == ScanSpec => []BackendsAgree
<1>1. ScanInv => BackendsAgree
  <2>. SUFFICES ASSUME ScanInv, NEW limit \in 1 .. maxPageSize, NEW afterID \in UserIds \cup {0}
                PROVE  MemoryList(limit, afterID) = PostgresList(limit, afterID)
    BY Zenon DEF BackendsAgree
  <2>1. limit \in Nat \ {0} /\ live \subseteq UserIds
    BY DEF ScanInv
  <2>. QED  BY <2>1, SamePages, Zenon
<1>. QED  BY <1>1, ScanInvariance, PTL
=============================================================================
