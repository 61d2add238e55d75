----------------------- MODULE CacheRepositoryProofs -----------------------
(***************************************************************************)
(* The cache is bounded, serves nothing older than it may, and is out of   *)
(* date only by a race: for any number of callers, ids and entries.        *)
(***************************************************************************)
EXTENDS CacheRepository, FiniteSetTheorems, TLAPS

Entry == [val : Int, age : Nat, old : Nat, raced : BOOLEAN]
Waiting == [op : {"get", "applied"}, id : Ids, late : Nat]
Failed == [op : {"failed"}, id : Ids, err : AllFailures, late : Nat]
Got == [op : {"got"}, id : Ids, late : Nat, val : Int, old : Nat, raced : BOOLEAN]

Pending == Waiting \cup Failed \cup Got \cup {None}

Types ==
  /\ version \in [Ids -> Int]
  /\ m \in [Ids -> Entry \cup {None}]
  /\ call \in [Callers -> Pending]

\* A user on its way to the cache is no older than the call that carries it, and
\* out of date only if a write overlapped the call.
Carried(r) == r # None =>
  /\ r.late <= MaxLatency
  /\ r.op = "got" => r.old <= r.late /\ (Current(r.id, r.val) \/ r.raced)

\* While an entry is fresh, its user has been out of date for no longer than the
\* entry is there, and the call before that has lasted.
Ages(e) == e # None /\ e.age <= ttl => e.old <= e.age + MaxLatency

IInv ==
  /\ Types /\ CacheBounded /\ StalenessBounded /\ OutdatedOnlyByRace
  /\ \A c \in Callers : Carried(call[c])
  /\ \A i \in Ids : Ages(m[i])
-----------------------------------------------------------------------------
LEMMA Limits == ttl \in Nat \ {0} /\ maxEntries \in Nat \ {0} /\ MaxLatency \in Nat
  BY CacheAssumption DEF ttl, maxEntries

\* evictLocked makes room for the key that is inserted after it.
LEMMA SetBounded ==
  ASSUME NEW key \in Ids, NEW e, Set(key, e), CacheBounded
  PROVE  CacheBounded'
<1> DEFINE unexpired == {i \in Entries : Fresh(m[i])}
<1>1. PICK kept \in Evict(key) :
        m' = [i \in Ids |-> IF i = key THEN e ELSE IF i \in kept THEN m[i] ELSE None]
  BY DEF Set
<1>2. IsFiniteSet(Ids) /\ Entries \subseteq Ids /\ unexpired \subseteq Entries
  BY CacheAssumption DEF Entries
<1>3. IsFiniteSet(Entries) /\ IsFiniteSet(unexpired) /\ Cardinality(unexpired) <= Cardinality(Entries)
      /\ Cardinality(Entries) \in Nat /\ Cardinality(unexpired) \in Nat
  <2>1. IsFiniteSet(Entries)
    BY <1>2, FS_Subset
  <2>2. IsFiniteSet(unexpired) /\ Cardinality(unexpired) <= Cardinality(Entries)
    BY <1>2, <2>1, FS_Subset
  <2> QED  BY <2>1, <2>2, FS_CardinalityType
<1> HIDE DEF unexpired
<1>4. \/ kept = Entries /\ (key \in Entries \/ Cardinality(Entries) < maxEntries)
      \/ kept = unexpired /\ Cardinality(unexpired) < maxEntries
      \/ \E i \in unexpired : kept = unexpired \ {i}
  BY <1>1 DEF Evict, unexpired
<1>5. Entries' \subseteq kept \cup {key}
  BY <1>1 DEF Entries
<1>6. /\ IsFiniteSet(kept) /\ Cardinality(kept) \in Nat /\ Cardinality(kept) <= maxEntries
      /\ key \in kept \/ Cardinality(kept) < maxEntries
  <2>1. CASE kept = Entries /\ (key \in Entries \/ Cardinality(Entries) < maxEntries)
    BY <1>3, <2>1 DEF CacheBounded
  <2>2. CASE kept = unexpired /\ Cardinality(unexpired) < maxEntries
    BY <1>3, <2>2, Limits
  <2>3. CASE \E i \in unexpired : kept = unexpired \ {i}
    <3>1. IsFiniteSet(kept) /\ Cardinality(kept) = Cardinality(unexpired) - 1
      BY <1>3, <2>3, FS_RemoveElement
    <3>2. Cardinality(kept) \in Nat
      BY <3>1, FS_CardinalityType
    <3> QED  BY <1>3, <3>1, <3>2, Limits DEF CacheBounded
  <2> QED  BY <1>4, <2>1, <2>2, <2>3
<1>7. IsFiniteSet(kept \cup {key}) /\ Cardinality(kept \cup {key}) <= maxEntries
      /\ Cardinality(kept \cup {key}) \in Nat
  <2>1. CASE key \in kept
    <3>1. kept \cup {key} = kept
      BY <2>1
    <3> QED  BY <1>6, <3>1
  <2>2. CASE key \notin kept
    <3>1. IsFiniteSet(kept \cup {key}) /\ Cardinality(kept \cup {key}) = Cardinality(kept) + 1
      BY <1>6, <2>2, FS_AddElement
    <3> QED  BY <1>6, <2>2, <3>1, Limits
  <2> QED  BY <2>1, <2>2
<1>8. Cardinality(Entries') <= Cardinality(kept \cup {key}) /\ IsFiniteSet(Entries')
  BY <1>5, <1>7, FS_Subset
<1>9. Cardinality(Entries') \in Nat
  BY <1>8, FS_CardinalityType
<1> QED  BY <1>7, <1>8, <1>9, Limits DEF CacheBounded

LEMMA FewerBounded ==
  ASSUME Entries' \subseteq Entries, CacheBounded
  PROVE  CacheBounded'
<1>1. IsFiniteSet(Entries)
  BY CacheAssumption, FS_Subset DEF Entries
<1>2. IsFiniteSet(Entries') /\ Cardinality(Entries') <= Cardinality(Entries)
  BY <1>1, FS_Subset
<1>3. Cardinality(Entries) \in Nat /\ Cardinality(Entries') \in Nat
  BY <1>1, <1>2, FS_CardinalityType
<1> QED  BY <1>2, <1>3, Limits DEF CacheBounded

LEMMA Initially == Init => IInv
<1> SUFFICES ASSUME Init PROVE IInv
  OBVIOUS
<1>1. Types /\ StalenessBounded /\ OutdatedOnlyByRace
  BY DEF Init, Types, Pending, StalenessBounded, OutdatedOnlyByRace
<1>2. /\ \A c \in Callers : Carried(call[c])
      /\ \A i \in Ids : Ages(m[i])
  BY DEF Init, Carried, Ages
<1>3. CacheBounded
  <2>1. Entries = {}
    BY DEF Init, Entries
  <2> QED  BY <2>1, FS_EmptySet, Limits DEF CacheBounded
<1> QED  BY <1>1, <1>2, <1>3 DEF IInv

\* What a write does to the calls under way, and what a tick does.
LEMMA OverlapIs ==
  ASSUME NEW r \in Pending, NEW id, NEW q, q = Overlap(r, id)
  PROVE  /\ q \in Pending
         /\ q # None => /\ r # None /\ q.op = r.op /\ q.id = r.id /\ q.late = r.late
                        /\ q.op = "got" => /\ q.old = r.old /\ q.val = r.val
                                           /\ r.raced \/ r.id = id => q.raced
         /\ r # None /\ r.op = "applied" => q = r
<1>1. CASE r # None /\ r.op = "got" /\ r.id = id
  <2>1. r \in Got
    BY <1>1 DEF Pending, Waiting, Failed, Got
  <2>2. q = [r EXCEPT !.raced = TRUE]
    BY <1>1 DEF Overlap
  <2>3. /\ q \in Got /\ q.op = r.op /\ q.id = r.id /\ q.late = r.late
        /\ q.old = r.old /\ q.val = r.val /\ q.raced
    BY <2>1, <2>2 DEF Got
  <2> QED  BY <1>1, <2>3 DEF Pending
<1>2. CASE ~(r # None /\ r.op = "got" /\ r.id = id)
  <2>1. q = r
    BY <1>2 DEF Overlap
  <2> QED  BY <1>2, <2>1
<1> QED  BY <1>1, <1>2

Later(r) ==
  IF r = None THEN None
  ELSE LET q == [r EXCEPT !.late = @ + 1] IN
       IF q.op = "got" /\ ~Current(q.id, q.val) THEN [q EXCEPT !.old = Older(@)] ELSE q

LEMMA OlderIs == \A n \in Nat : Older(n) \in Nat /\ Older(n) <= n + 1
  BY Limits DEF Older

LEMMA LaterIs ==
  ASSUME NEW r \in Pending, r # None, NEW q, q = Later(r)
  PROVE  /\ q \in Pending /\ q.op = r.op /\ q.id = r.id /\ q.late = r.late + 1
         /\ q.op = "got" => q.val = r.val /\ q.raced = r.raced /\ q.old <= r.old + 1
         /\ q.op = "applied" => q # None
<1> DEFINE p == [r EXCEPT !.late = @ + 1]
<1>1. CASE r \in Got
  <2>1. p \in Got /\ p.op = "got" /\ r.op = "got" /\ p.id = r.id /\ p.late = r.late + 1 /\ p.val = r.val
        /\ p.raced = r.raced /\ p.old = r.old /\ p.old \in Nat
    BY <1>1 DEF Got
  <2> HIDE DEF p
  <2>2. CASE q = p
    BY <2>1, <2>2 DEF Pending
  <2>3. CASE q = [p EXCEPT !.old = Older(@)]
    <3>1. q \in Got /\ q.op = "got" /\ q.id = p.id /\ q.late = p.late /\ q.val = p.val
          /\ q.raced = p.raced /\ q.old = Older(p.old)
      BY <2>1, <2>3, OlderIs DEF Got
    <3> QED  BY <2>1, <3>1, OlderIs DEF Pending
  <2> QED  BY <2>2, <2>3 DEF Later, p
<1>2. CASE r \in Waiting
  <2>1. p \in Waiting /\ p.op = r.op /\ p.op # "got" /\ p.id = r.id /\ p.late = r.late + 1
    BY <1>2 DEF Waiting
  <2>2. p.op = "applied" => p \in [op : {"applied"}, id : Ids, late : Nat]
    BY <1>2 DEF Waiting
  <2> HIDE DEF p
  <2>3. q = p
    BY <2>1 DEF Later, p
  <2> QED  BY <2>1, <2>2, <2>3, CacheAssumption DEF Pending
<1>3. CASE r \in Failed
  <2>1. p \in Failed /\ p.op = "failed" /\ r.op = "failed" /\ p.id = r.id /\ p.late = r.late + 1
    BY <1>3 DEF Failed
  <2> HIDE DEF p
  <2>2. q = p
    BY <2>1 DEF Later, p
  <2> QED  BY <2>1, <2>2 DEF Pending
<1> QED  BY <1>1, <1>2, <1>3 DEF Pending

LEMMA Preserved == IInv /\ [Next]_vars => IInv'
<1> SUFFICES ASSUME IInv, [Next]_vars PROVE IInv'
  OBVIOUS
<1> USE Limits DEF IInv, Types, StalenessBounded, OutdatedOnlyByRace, Current, Carried, Ages, Idle
<1> USE DEF Begin, Return
<1>a. ASSUME m' = m  PROVE CacheBounded'
  BY <1>a, FewerBounded DEF Entries
<1>1. ASSUME NEW c \in Callers, NEW id \in Ids, GetCached(c, id)  PROVE IInv'
  <2>1. CASE /\ UNCHANGED <<version, stored, m, call>> /\ Cached(id)
             /\ ret' = [op |-> "hit", id |-> id, val |-> m[id].val, old |-> m[id].old]
    <3>1. StalenessBounded'
      BY <2>1 DEF Cached, Fresh, Entry
    <3> QED  BY <1>a, <2>1, <3>1
  <2>2. CASE call' = [call EXCEPT ![c] = [op |-> "get", id |-> id, late |-> 0]] /\ ret' = None
             /\ UNCHANGED <<version, stored, m>> /\ call[c] = None
    <3>1. Types'
      BY <2>2 DEF Pending, Waiting
    <3>2. \A d \in Callers : Carried(call[d])'
      BY <2>2
    <3>3. OutdatedOnlyByRace'
      BY <2>2
    <3> QED  BY <1>a, <2>2, <3>1, <3>2, <3>3
  <2> QED  BY <1>1, <2>1, <2>2 DEF GetCached
<1>2. ASSUME NEW c \in Callers, GetLoad(c)  PROVE IInv'
  <2> DEFINE id == call[c].id
  <2>1. /\ call[c] \in Waiting /\ call[c].op = "get" /\ id \in Ids
        /\ call[c].late \in Nat /\ call[c].late <= MaxLatency
        /\ UNCHANGED <<version, stored, m>> /\ call[c] # None
    BY <1>2, SMTT(60) DEF GetLoad, Pending, Waiting, Failed, Got
  <2>2. CASE /\ id \in stored /\ ret' = None
             /\ call' = [call EXCEPT ![c] =
                           [op |-> "got", id |-> id, late |-> call[c].late,
                            val |-> version[id], old |-> 0, raced |-> FALSE]]
    <3>1. Types'
      BY <2>1, <2>2 DEF Pending, Got
    <3>2. \A d \in Callers : Carried(call[d])'
      BY <2>1, <2>2
    <3>3. OutdatedOnlyByRace'
      BY <2>1, <2>2
    <3> QED  BY <1>a, <2>1, <2>2, <3>1, <3>2, <3>3
  <2>3. CASE call' = [call EXCEPT ![c] = None] /\ ret' = [op |-> "ErrNotFound", id |-> id]
    <3>1. Types' /\ (\A d \in Callers : Carried(call[d])') /\ StalenessBounded'
      BY <2>1, <2>3 DEF Pending
    <3>2. OutdatedOnlyByRace'
      BY <2>1, <2>3
    <3> QED  BY <1>a, <2>1, <2>3, <3>1, <3>2
  <2>4. ASSUME NEW err \in Failures,
          call' = [call EXCEPT ![c] = [op |-> "failed", id |-> id, err |-> err, late |-> call[c].late]],
          ret' = None
        PROVE IInv'
    <3>1. Types'
      BY <2>1, <2>4, CacheAssumption DEF Pending, Failed
    <3>2. \A d \in Callers : Carried(call[d])'
      BY <2>1, <2>4
    <3>3. OutdatedOnlyByRace'
      BY <2>1, <2>4
    <3> QED  BY <1>a, <2>1, <2>4, <3>1, <3>2, <3>3
  <2> QED  BY <1>2, <2>2, <2>3, <2>4 DEF GetLoad
<1>3. ASSUME NEW c \in Callers, GetFailed(c)  PROVE IInv'
  <2>1. /\ UNCHANGED <<version, stored, m>> /\ call' = [call EXCEPT ![c] = None]
        /\ call[c] # None /\ call[c].op = "failed" /\ ret'.op \in {"stale", "error"}
    BY <1>3 DEF GetFailed
  <2>2. Types' /\ (\A d \in Callers : Carried(call[d])') /\ StalenessBounded'
    BY <2>1 DEF Pending
  <2>3. OutdatedOnlyByRace'
    BY <2>1
  <2> QED  BY <1>a, <2>1, <2>2, <2>3
<1>4. ASSUME NEW c \in Callers, GetStore(c)  PROVE IInv'
  <2> DEFINE g == call[c]
             e == [val |-> g.val, age |-> 0, old |-> g.old, raced |-> g.raced]
  <2>1. /\ g \in Got /\ g # None /\ g.op = "got" /\ g.id \in Ids /\ e \in Entry
        /\ g.old <= MaxLatency /\ g.old \in Nat /\ (Current(g.id, g.val) \/ g.raced)
    BY <1>4 DEF GetStore, Pending, Waiting, Failed, Got, Entry
  <2>2. /\ Set(g.id, e) /\ UNCHANGED <<version, stored>> /\ call' = [call EXCEPT ![c] = None]
        /\ ret' = [op |-> "loaded", id |-> g.id, val |-> g.val, old |-> g.old]
    BY <1>4 DEF GetStore
  <2>3. CacheBounded'
    BY <2>1, <2>2, SetBounded
  <2>4. /\ m' \in [Ids -> Entry \cup {None}]
        /\ \A i \in Ids : m'[i] = None \/ m'[i] = m[i] \/ (i = g.id /\ m'[i] = e)
    BY <2>1, <2>2 DEF Set
  <2>5. Types' /\ StalenessBounded' /\ \A d \in Callers : Carried(call[d])'
    BY <2>1, <2>2, <2>4 DEF Pending
  <2>6. \A i \in Ids : Ages(m[i])'
    BY <2>1, <2>4
  <2>7. OutdatedOnlyByRace'
    BY <2>1, <2>2, <2>4
  <2> QED  BY <2>3, <2>5, <2>6, <2>7, Zenon
<1>5. ASSUME NEW c \in Callers, NEW id \in Ids, NEW alive \in BOOLEAN, MutateApply(c, id, alive)
      PROVE  IInv'
  <2> DEFINE seen == [d \in Callers |-> Overlap(call[d], id)]
             mine == [op |-> "applied", id |-> id, late |-> 0]
  <2>1. /\ call[c] = None /\ id \in stored /\ version' = [version EXCEPT ![id] = @ + 1]
        /\ stored' \subseteq stored /\ stored \ {id} \subseteq stored' /\ ret' = None
    BY <1>5 DEF MutateApply, Apply
  <2>2. \A d \in Callers :
          /\ seen[d] \in Pending
          /\ seen[d] # None =>
               /\ call[d] # None /\ seen[d].op = call[d].op /\ seen[d].id = call[d].id
               /\ seen[d].late = call[d].late
               /\ seen[d].op = "got" => /\ seen[d].old = call[d].old /\ seen[d].val = call[d].val
                                        /\ call[d].raced \/ call[d].id = id => seen[d].raced
          /\ call[d] # None /\ call[d].op = "applied" => seen[d] = call[d]
    BY OverlapIs
  <2>3. mine \in [op : {"applied"}, id : Ids, late : Nat] /\ mine \in Waiting
    BY DEF Waiting
  <2>4. mine # None /\ mine.op = "applied" /\ mine.late = 0 /\ mine.id = id
    BY <2>3, CacheAssumption
  <2> HIDE DEF seen, mine
  <2>5. \A i \in Ids, v \in Int : Current(i, v)' \/ ~Current(i, v) \/ i = id
    BY <2>1
  <2>6. CASE call' = [seen EXCEPT ![c] = mine] /\ UNCHANGED m
    <3>1. seen \in [Callers -> Pending]
      BY <2>2 DEF seen
    <3>2. Types'
      BY <2>1, <2>3, <2>6, <3>1 DEF Pending
    <3>3. \A d \in Callers : Carried(call[d])'
      BY <2>1, <2>2, <2>4, <2>5, <2>6, <3>1 DEF Pending, Got, Waiting, Failed
    <3>4. OutdatedOnlyByRace'
      BY <2>1, <2>2, <2>4, <2>5, <2>6, <3>1 DEF Entry
    <3> QED  BY <1>a, <2>1, <2>6, <3>2, <3>3, <3>4
  <2>7. CASE /\ call' = seen
             /\ m' = [m EXCEPT ![id] = IF @ = None THEN None ELSE [@ EXCEPT !.raced = TRUE]]
    <3>1. seen \in [Callers -> Pending]
      BY <2>2 DEF seen
    <3>2. /\ m' \in [Ids -> Entry \cup {None}]
          /\ \A i \in Ids : m'[i] # None =>
               /\ m[i] # None /\ m'[i].val = m[i].val /\ m'[i].age = m[i].age /\ m'[i].old = m[i].old
               /\ m[i].raced \/ i = id => m'[i].raced
      <4>1. \A e \in Entry : LET f == [e EXCEPT !.raced = TRUE] IN
              f \in Entry /\ f.val = e.val /\ f.age = e.age /\ f.old = e.old /\ f.raced
        BY DEF Entry
      <4> QED  BY <2>7, <4>1
    <3>3. Types'
      BY <2>1, <2>7, <3>1, <3>2
    <3>4. \A d \in Callers : Carried(call[d])'
      BY <2>1, <2>2, <2>5, <2>7, <3>1 DEF Pending, Got, Waiting, Failed
    <3>5. OutdatedOnlyByRace'
      BY <2>1, <2>2, <2>5, <2>7, <3>2 DEF Entry
    <3>6. \A i \in Ids : Ages(m[i])'
      BY <3>2
    <3>7. CacheBounded'
      BY <3>2, FewerBounded DEF Entries
    <3> QED  BY <2>1, <3>3, <3>4, <3>5, <3>6, <3>7
  <2> QED  BY <1>5, <2>6, <2>7 DEF MutateApply, seen, mine
<1>6. ASSUME NEW c \in Callers, MutateDone(c)  PROVE IInv'
  <2>1. /\ call[c] # None /\ call[c].op = "applied" /\ call[c].id \in Ids
        /\ m' = [m EXCEPT ![call[c].id] = None] /\ call' = [call EXCEPT ![c] = None]
        /\ ret'.op = "written" /\ UNCHANGED <<version, stored>>
    BY <1>6 DEF MutateDone, Del, Pending, Waiting, Failed, Got
  <2>2. CacheBounded'
    BY <2>1, FewerBounded DEF Entries
  <2>3. Types' /\ StalenessBounded' /\ \A d \in Callers : Carried(call[d])'
    BY <2>1 DEF Pending
  <2>4. OutdatedOnlyByRace'
    BY <2>1
  <2>5. \A i \in Ids : Ages(m[i])'
    BY <2>1
  <2> QED  BY <2>2, <2>3, <2>4, <2>5, Zenon
<1>7. ASSUME NEW c \in Callers, NEW id \in Ids, ReadModifyUpdateUnavailable(c, id)  PROVE IInv'
  <2>1. UNCHANGED <<version, stored, m, call>> /\ ret'.op \in {"unwritten", "error"}
    BY <1>7 DEF ReadModifyUpdateUnavailable
  <2> QED  BY <1>a, <2>1
<1>8. CASE Tick
  <2>1. /\ UNCHANGED <<version, stored>> /\ ret' = None
        /\ m' = [i \in Ids |-> IF m[i] = None THEN None
             ELSE [m[i] EXCEPT !.age = IF @ > ttl THEN @ ELSE @ + 1,
                               !.old = IF Current(i, m[i].val) THEN 0 ELSE Older(@)]]
        /\ call' = [d \in Callers |-> Later(call[d])]
        /\ \A d \in Callers : call[d] # None => call[d].late < MaxLatency
    BY <1>8 DEF Tick, Later
  <2>2. /\ m' \in [Ids -> Entry \cup {None}]
        /\ \A i \in Ids : m'[i] # None =>
             /\ m[i] # None /\ m'[i].val = m[i].val /\ m'[i].raced = m[i].raced
             /\ m'[i].age = (IF m[i].age > ttl THEN m[i].age ELSE m[i].age + 1)
             /\ m'[i].old <= m[i].old + 1
    <3> HIDE DEF Current
    <3>1. ASSUME NEW i \in Ids, m[i] # None
          PROVE  /\ m'[i] \in Entry /\ m'[i].val = m[i].val /\ m'[i].raced = m[i].raced
                 /\ m'[i].age = (IF m[i].age > ttl THEN m[i].age ELSE m[i].age + 1)
                 /\ m'[i].old <= m[i].old + 1
      <4> DEFINE e == m[i]
                 a == IF e.age > ttl THEN e.age ELSE e.age + 1
                 o == IF Current(i, e.val) THEN 0 ELSE Older(e.old)
      <4>1. e \in Entry /\ e.age \in Nat /\ e.old \in Nat
        BY <3>1 DEF Entry
      <4>2. m'[i] = [e EXCEPT !.age = a, !.old = o]
        BY <2>1, <3>1
      <4>3. a \in Nat
        BY <4>1
      <4>4. o \in Nat /\ o <= e.old + 1
        BY <4>1, OlderIs
      <4> HIDE DEF e, a, o, IInv
      <4>5. m'[i] \in Entry /\ m'[i].val = e.val /\ m'[i].raced = e.raced /\ m'[i].old = o
            /\ m'[i].age = a
        BY <4>1, <4>2, <4>3, <4>4 DEF Entry
      <4> QED  BY <4>4, <4>5 DEF e, a
    <3>2. \A i \in Ids : m[i] = None => m'[i] = None
      BY <2>1
    <3>3. m' = [i \in Ids |-> m'[i]]
      BY <2>1
    <3> QED  BY <3>1, <3>2, <3>3
  <2>3. \A d \in Callers : call[d] = None => call'[d] = None
    BY <2>1 DEF Later
  <2>4. \A d \in Callers : call[d] # None =>
               /\ call'[d] \in Pending /\ call'[d].op = call[d].op /\ call'[d].id = call[d].id
               /\ call'[d].late = call[d].late + 1
               /\ call'[d].op = "got" => /\ call'[d].val = call[d].val /\ call'[d].raced = call[d].raced
                                         /\ call'[d].old <= call[d].old + 1
               /\ call'[d].op = "applied" => call'[d] # None
    <3> SUFFICES ASSUME NEW d \in Callers, call[d] # None
                 PROVE  /\ call'[d] \in Pending /\ call'[d].op = call[d].op /\ call'[d].id = call[d].id
                        /\ call'[d].late = call[d].late + 1
                        /\ call'[d].op = "got" => /\ call'[d].val = call[d].val
                                                  /\ call'[d].raced = call[d].raced
                                                  /\ call'[d].old <= call[d].old + 1
                        /\ call'[d].op = "applied" => call'[d] # None
      OBVIOUS
    <3>1. call[d] \in Pending /\ call'[d] = Later(call[d])
      BY <2>1
    <3> QED  BY <3>1, LaterIs
  <2>6. Types'
    BY <2>1, <2>2, <2>3, <2>4 DEF Pending
  <2>7. \A d \in Callers : Carried(call[d])'
    <3> SUFFICES ASSUME NEW d \in Callers, call'[d] # None  PROVE Carried(call[d])'
      OBVIOUS
    <3>1. call[d] # None /\ call[d] \in Pending /\ call'[d] \in Pending /\ Carried(call[d])
      BY <2>3, <2>4
    <3>2. call[d].late \in Nat /\ call[d].late < MaxLatency /\ call'[d].late = call[d].late + 1
      BY <2>1, <2>4, <3>1 DEF Pending, Waiting, Failed, Got
    <3>3. CASE call'[d].op = "got"
      <4>1. call[d] \in Got /\ call'[d] \in Got
        BY <2>4, <3>1, <3>3 DEF Pending, Waiting, Failed, Got
      <4>2. call[d].old \in Nat /\ call'[d].old \in Nat
        BY <4>1 DEF Got
      <4>3. /\ call[d].op = "got" /\ call'[d].id = call[d].id /\ call'[d].val = call[d].val
            /\ call'[d].raced = call[d].raced /\ call'[d].old <= call[d].old + 1
        BY <2>4, <3>1, <3>3
      <4>4. call[d].old <= call[d].late /\ (Current(call[d].id, call[d].val) \/ call[d].raced)
        BY <3>1, <4>3
      <4>5. call'[d].old <= call'[d].late /\ call'[d].late <= MaxLatency
        BY <3>2, <4>2, <4>3, <4>4
      <4>6. Current(call[d].id, call[d].val)' \/ call'[d].raced
        BY <2>1, <4>3, <4>4
      <4> QED  BY <4>5, <4>6
    <3>4. CASE call'[d].op # "got"
      BY <3>2, <3>4
    <3> QED  BY <3>3, <3>4
  <2>8. OutdatedOnlyByRace'
    <3> SUFFICES ASSUME NEW i \in Ids, m'[i] # None, ~Current(i, m[i].val)'
                 PROVE  m'[i].raced \/ \E d \in Callers :
                          call'[d] # None /\ call'[d].op = "applied" /\ call'[d].id = i
      OBVIOUS
    <3>1. m[i] # None /\ ~Current(i, m[i].val) /\ m'[i].raced = m[i].raced
      BY <2>1, <2>2
    <3>2. CASE m[i].raced
      BY <3>1, <3>2
    <3>3. ASSUME NEW d \in Callers, call[d] # None, call[d].op = "applied", call[d].id = i
          PROVE  call'[d] # None /\ call'[d].op = "applied" /\ call'[d].id = i
      BY <2>4, <3>3
    <3> QED  BY <3>1, <3>2, <3>3
  <2>9. \A i \in Ids : Ages(m[i])'
    BY <2>2 DEF Entry
  <2>10. CacheBounded'
    BY <2>2, FewerBounded DEF Entries
  <2> QED  BY <2>1, <2>6, <2>7, <2>8, <2>9, <2>10
<1>9. CASE UNCHANGED vars
  BY <1>9, <1>a DEF vars
<1> QED  BY <1>1, <1>2, <1>3, <1>4, <1>5, <1>6, <1>7, <1>8, <1>9, ZenonT(60) DEF Next

THEOREM Invariance == Spec => []IInv
  BY Initially, Preserved, PTL DEF Spec

\* set never takes the map over maxEntries: evictLocked makes room first.
THEOREM Bounded == Spec => []CacheBounded
<1>1. IInv => CacheBounded
  BY DEF IInv
<1> QED  BY Invariance, <1>1, PTL

\* What Get returns from the cache, or loads into it, has been out of date for at
\* most ttl and the time of the call that loaded it.
THEOREM Staleness == Spec => []StalenessBounded
<1>1. IInv => StalenessBounded
  BY DEF IInv
<1> QED  BY Invariance, <1>1, PTL

\* Update, ReadModifyUpdate and Delete drop what they make out of date, except
\* what a Get that overlaps them stores, and what an error hides.
THEOREM OnlyByRace == Spec => []OutdatedOnlyByRace
<1>1. IInv => OutdatedOnlyByRace
  BY DEF IInv
<1> QED  BY Invariance, <1>1, PTL
=============================================================================
