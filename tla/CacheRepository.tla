--------------------------- MODULE CacheRepository ---------------------------
(***************************************************************************)
(* CacheRepository (internal/storage/cache.go) over any Repository.  The   *)
(* cache's lock is held for one map access at a time and never across a    *)
(* call of the wrapped repository, so an operation is several steps and    *)
(* other callers' steps come in between.                                   *)
(*                                                                         *)
(* A stored user is its version, the number of writes to its id; a deleted *)
(* user has none, but deleting counts as a write.  Time is kept as ages in *)
(* clock ticks: an entry is expired when it is older than ttl.             *)
(***************************************************************************)
EXTENDS Integers, FiniteSets

CONSTANTS
  Callers, Ids, None,
  CfgTTL, CfgMaxEntries,   \* arguments of NewCacheRepositoryWithLimit
  Failures,                \* errors the wrapped repository may return
  MaxLatency,              \* bound on the ticks a call of the repository lasts
  MaxVersion               \* bound on the writes to one id

\* "ErrUnavailable", "context" (cancelled or timed out), "failure" (any other
\* error: a wrapped Postgres error, ErrCircuitOpen), and "ambiguous": the same
\* error, returned for a write that was committed all the same.
AllFailures == {"ErrUnavailable", "context", "failure", "ambiguous"}

ASSUME CacheAssumption ==
  /\ IsFiniteSet(Ids)
  /\ CfgTTL \in Int /\ CfgMaxEntries \in Int
  /\ Failures \subseteq AllFailures
  /\ MaxLatency \in Nat /\ MaxVersion \in Nat
  /\ None \notin [op : {"applied"}, id : Ids, late : Nat]

ttl == IF CfgTTL <= 0 THEN 30 ELSE CfgTTL
maxEntries == IF CfgMaxEntries <= 0 THEN 10000 ELSE CfgMaxEntries

VARIABLES
  version,    \* writes to each id so far
  stored,     \* the ids that have a user in the repository
  m,          \* the cache: None or an entry, with its age and, as history,
              \*   old    how long its version has been out of date
              \*   raced  a write to its id overlapped the call that stored it
  call,       \* what each caller is doing; None between operations
  \* History:
  ret         \* what the last step returned to its caller; None if nothing

vars == <<version, stored, m, call, ret>>

Init ==
  /\ version = [i \in Ids |-> 1]
  /\ stored = Ids
  /\ m = [i \in Ids |-> None]
  /\ call = [c \in Callers |-> None]
  /\ ret = None

Entries == {i \in Ids : m[i] # None}

FreshAlways(e) == TRUE
Fresh(e) == e.age <= ttl

Cached(id) == m[id] # None /\ Fresh(m[id])
-----------------------------------------------------------------------------
(* set, del and the eviction in front of an insertion *)

EvictOnlyExpired(key) ==
  {IF Cardinality(Entries) < maxEntries THEN Entries
   ELSE {i \in Entries : Fresh(m[i])}}

\* The ids that may be left after evictLocked: the expired entries go first,
\* then one that is nearest to expiring (any, if several are).
Evict(key) ==
  LET unexpired == {i \in Entries : Fresh(m[i])}
      oldest    == {i \in unexpired : \A j \in unexpired : m[j].age <= m[i].age}
  IN  IF key \in Entries \/ Cardinality(Entries) < maxEntries THEN {Entries}
      ELSE IF Cardinality(unexpired) < maxEntries THEN {unexpired}
      ELSE {unexpired \ {i} : i \in oldest}

Set(key, e) ==
  \E kept \in Evict(key) :
    m' = [i \in Ids |-> IF i = key THEN e ELSE IF i \in kept THEN m[i] ELSE None]

DelKeeps(key) == UNCHANGED m
Del(key) == m' = [m EXCEPT ![key] = None]
-----------------------------------------------------------------------------
(* Get *)

Idle(c) == call[c] = None
Begin(c, rec) == call' = [call EXCEPT ![c] = rec]
Return(c, rec) == call' = [call EXCEPT ![c] = None] /\ ret' = rec

\* get: served from the cache, or a miss that goes on to the repository.
GetCached(c, id) ==
  /\ Idle(c)
  /\ \/ /\ Cached(id)
        /\ ret' = [op |-> "hit", id |-> id, val |-> m[id].val, old |-> m[id].old]
        /\ UNCHANGED call
     \/ /\ ~Cached(id)
        /\ Begin(c, [op |-> "get", id |-> id, late |-> 0])
        /\ ret' = None
  /\ UNCHANGED <<version, stored, m>>

\* Repository.Get answers: a user, ErrNotFound, or an error.
GetLoad(c) ==
  /\ ~Idle(c) /\ call[c].op = "get"
  /\ LET id == call[c].id IN
     \/ /\ id \in stored
        /\ Begin(c, [op |-> "got", id |-> id, late |-> call[c].late,
                     val |-> version[id], old |-> 0, raced |-> FALSE])
        /\ ret' = None
     \/ id \notin stored /\ Return(c, [op |-> "ErrNotFound", id |-> id])
     \/ \E err \in Failures \ {"ambiguous"} :
          /\ Begin(c, [op |-> "failed", id |-> id, err |-> err, late |-> call[c].late])
          /\ ret' = None
  /\ UNCHANGED <<version, stored, m>>

StaleAllowed(err) == err \in {"ErrUnavailable", "context"}

GetFailed(c) ==
  /\ ~Idle(c) /\ call[c].op = "failed"
  /\ LET id == call[c].id IN
     \/ /\ StaleAllowed(call[c].err) /\ m[id] # None
        /\ Return(c, [op |-> "stale", id |-> id])
     \/ /\ ~StaleAllowed(call[c].err) \/ m[id] = None
        /\ Return(c, [op |-> "error", id |-> id])
  /\ UNCHANGED <<version, stored, m>>

GetStore(c) ==
  /\ ~Idle(c) /\ call[c].op = "got"
  /\ LET g == call[c] IN
     /\ Set(g.id, [val |-> g.val, age |-> 0, old |-> g.old, raced |-> g.raced])
     /\ Return(c, [op |-> "loaded", id |-> g.id, val |-> g.val, old |-> g.old])
  /\ UNCHANGED <<version, stored>>
-----------------------------------------------------------------------------
(* Update, ReadModifyUpdate and Delete *)

\* History: what is cached of an id, or on its way to the cache, when the
\* repository commits a write to the id.
Overlap(r, id) ==
  IF r # None /\ r.op = "got" /\ r.id = id THEN [r EXCEPT !.raced = TRUE] ELSE r

\* The wrapped repository applies the write: what was there is out of date.
Apply(id, alive) ==
  /\ version[id] < MaxVersion
  /\ id \in stored
  /\ version' = [version EXCEPT ![id] = @ + 1]
  /\ stored' = IF alive THEN stored ELSE stored \ {id}

\* Update and ReadModifyUpdate keep the user (alive), Delete does not.  An
\* ambiguous write is committed although the repository returns an error; the
\* cache then sees only the error and keeps its entry.
MutateApply(c, id, alive) ==
  /\ Idle(c)
  /\ Apply(id, alive)
  /\ LET seen == [d \in Callers |-> Overlap(call[d], id)] IN
     \/ /\ call' = [seen EXCEPT ![c] =
                      [op |-> "applied", id |-> id, late |-> 0]]
        /\ UNCHANGED m
     \/ /\ "ambiguous" \in Failures
        /\ call' = seen
        /\ m' = [m EXCEPT ![id] = IF @ = None THEN None ELSE [@ EXCEPT !.raced = TRUE]]
  /\ ret' = None

\* The write succeeded: its key is dropped and the writer told.
MutateDone(c) ==
  /\ ~Idle(c) /\ call[c].op = "applied"
  /\ Del(call[c].id)
  /\ Return(c, [op |-> "written", id |-> call[c].id])
  /\ UNCHANGED <<version, stored>>

\* The repository refuses a ReadModifyUpdate with ErrUnavailable, without
\* effect: the cached user is returned, and no error.
ReadModifyUpdateUnavailable(c, id) ==
  /\ Idle(c)
  /\ "ErrUnavailable" \in Failures
  /\ ret' = IF m[id] # None THEN [op |-> "unwritten", id |-> id]
            ELSE [op |-> "error", id |-> id]
  /\ UNCHANGED <<version, stored, m, call>>
-----------------------------------------------------------------------------
\* One tick: entries age, and versions that are not the stored ones grow old.
Older(n) == IF n > ttl + MaxLatency THEN n ELSE n + 1
Current(id, val) == id \in stored /\ version[id] = val

Tick ==
  /\ \A c \in Callers : ~Idle(c) => call[c].late < MaxLatency
  /\ m' = [i \in Ids |-> IF m[i] = None THEN None
             ELSE [m[i] EXCEPT !.age = IF @ > ttl THEN @ ELSE @ + 1,
                               !.old = IF Current(i, m[i].val) THEN 0 ELSE Older(@)]]
  /\ call' = [c \in Callers |-> IF Idle(c) THEN None
                ELSE LET r == [call[c] EXCEPT !.late = @ + 1] IN
                     IF r.op = "got" /\ ~Current(r.id, r.val)
                     THEN [r EXCEPT !.old = Older(@)] ELSE r]
  /\ ret' = None
  /\ UNCHANGED <<version, stored>>

Next ==
  \/ \E c \in Callers, id \in Ids :
       \/ GetCached(c, id)
       \/ \E alive \in BOOLEAN : MutateApply(c, id, alive)
       \/ ReadModifyUpdateUnavailable(c, id)
  \/ \E c \in Callers : GetLoad(c) \/ GetFailed(c) \/ GetStore(c) \/ MutateDone(c)
  \/ Tick

Spec == Init /\ [][Next]_vars
-----------------------------------------------------------------------------
(* Properties *)

\* The cache never holds more than maxEntries users, whatever is inserted,
\* expired and deleted at the same time (evictLocked).
CacheBounded == Cardinality(Entries) <= maxEntries

\* A user served from the cache was the stored one at some moment within the
\* last ttl plus the time one repository call may take.
StalenessBounded ==
  ret # None /\ ret.op \in {"hit", "loaded"} => ret.old <= ttl + MaxLatency

\* "Mutating operations invalidate the affected key": an entry is out of date
\* only while the write is not yet acknowledged, unless the read that stored it
\* overlapped a write or a write ended with an error although it took effect.
OutdatedOnlyByRace ==
  \A i \in Ids :
    m[i] # None /\ ~Current(i, m[i].val)
      => \/ m[i].raced
         \/ \E c \in Callers : ~Idle(c) /\ call[c].op = "applied" /\ call[c].id = i
=============================================================================
