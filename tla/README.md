# Verification of the user service

TLA+ specifications of the gRPC user service in `src/`, model-checked with TLC
on small instances, and theorems about ten of them proved with TLAPS for every
value of their constants. File names below are relative to `src/`.

- [The system](#the-system): parts, state, operations, what is hard about them
- [Modules](#modules): which module models what, and how
- [Runs](#runs): what TLC checks, with which bounds and fairness
- [Proofs](#proofs): what TLAPS proves, and along which argument
- [Where the code and its documents differ](#where-the-code-and-its-documents-differ)
- [Not modelled](#not-modelled)

## The system

A server (`cmd/server`) offers a user service over gRPC and, through a gateway,
over HTTP. A gRPC request passes a chain of interceptors, the service's handler,
and a repository; the repository is a stack of decorators, in production

    CacheRepository  ->  CircuitBreakerRepository  ->  PostgresRepository

(`openRepository`, `cmd/server/main.go`; either decorator may be switched off,
and `MemoryRepository` takes the place of Postgres in development).

| part | state | operations that change it |
|---|---|---|
| Circuit breaker, `internal/storage/circuitbreaker.go` | state, three counters, `openSince`, under `cb.mu` | `beforeCall`, `afterCall` around every operation; `ResetForce`, `Close` |
| Cache, `cache.go` | map of entries with expiry, under `mu` | `Get` (fills), `Update`, `ReadModifyUpdate`, `Delete` (invalidate) |
| Memory repository, `memory.go` | `users`, `idem`, `closed`, under `mu` | `Create`, `CreateWithIdempotency`, `Update`, `ReadModifyUpdate`, `Delete`, `Close` |
| Postgres repository, `postgres.go` | tables `users` and `idempotency_keys`; an advisory lock and row locks | the same, each a transaction inside `retryOperation` |
| Migrations, `postgres.go` | schema, `schema_migrations` | startup loop, `migrateAndPing`, `ApplyDownMigrations` |
| Service, `internal/service/user.go` | none between calls | CRUD, `ListUsers` with page tokens, three stream handlers |
| Interceptors, `pkg/interceptors` | token buckets, semaphore, gauges; audit and metrics records | one chain per request |
| Client, `pkg/interceptors/client_retry.go` | the retry loop of one call | attempts with backoff |
| Lifecycle, `cmd/server/main.go` | listeners, probes, `errCh`, deferred calls | start, readiness, drain, exit, reload on SIGHUP |
| Configuration, `pkg/config/config.go` | none | `Load`: file, environment, `Validate` |

PROJECT.json lists all of the parts under `components`, with those that are not
modelled and why. What makes the parts hard, listed line by line under `hazards`:

- results of calls that arrive when the breaker is in another state than when
  they were admitted, and probes that end without a verdict;
- a read that fills the cache after a write has invalidated the key;
- transactions under READ COMMITTED whose statements interleave, commits that
  take effect although their answer is lost, and the retry that follows;
- attempts a client has given up on, carried out by the server all the same,
  before or after the next attempt;
- buckets that are evicted between the lookup of a request and its token;
- slots and gauges that every way out of a request must give back, panics
  included; tokens that expire on the way;
- users that come and go between two pages of a list;
- replicas of several releases that migrate, crash and roll back together;
- signals and failing listeners at any point of starting and draining, with one
  deadline for all the servers and deferred calls after it;
- capacities and widths: of the store, the cache, the probe budget, the
  semaphore, `errCh`, a `time.Duration` that is shifted.

The correctness properties that follow from them are those of [Runs](#runs).

## Modules

Definitions keep the names of the code where they stand for a function; the
field `map` of PROJECT.json gives the lines of each. In every module the
variables below the line "History" are read by no guard: they record what a
property needs to speak of the past. A definition that only appears under
`mutants` in PROJECT.json (`EnoughOffByOne`, `AdvisoryIgnored`, ...) is a bug the
code does not have, put in front of the definition it would replace; each shows
that one property is sensitive to the code it is about.

### Storage

**CircuitBreaker.** An operation is `beforeCall`, the wrapped operation,
`afterCall`. The two halves run under `cb.mu` and are one action each
(`BeforeCall`, `AfterCall`); `inCall` is the set of callers between them. A call
may end with success, an error of the application, a fault of the backend,
`ErrUnavailable` (which `afterCall` ignores) or a panic (which skips `afterCall`:
it is not deferred). `backend` is the environment: up, down for a while, healed.
Time is the age of `openSince`, saturated one tick above `OpenTimeout`.

**UserStore.** What the `Repository` interface promises of the stored users, one
action per operation that changes them and no locks, transactions or retries.
A row is the sequence of writes it consists of, so that a read-modify-update
that loses a write is not an action of it. Both repositories implement it.

**MemoryRepository.** Every operation holds `mu` and is one action, except
`ReadModifyUpdate`, which calls the caller's function with the lock held and is
two. `Close` makes all later operations fail.

**PostgresRepository.** A step is one statement. A transaction's writes become
visible with `Commit`; its locks are released when it ends, in whatever way.
`Fault` fails any statement, `CommitLost` commits and loses the answer;
`RetryOrGiveUp` is `retryOperation`. A row's writers form its value, as in
UserStore. Postgres itself (READ COMMITTED, `FOR UPDATE`, `ON DELETE CASCADE`, the
advisory lock) is modelled as the code uses it.

**Migrations.** Each replica has the migration files of its release
(`Embedded`). A transaction works on a copy of the schema and installs it at
commit. Replicas may crash at any statement and start again.

**CacheRepository.** The cache's lock is held for one map access and never
across a call of the wrapped repository, so an operation is several steps. A
user is its version, the number of writes to its id. Time is kept as ages.

**PagedList.** A client pages through `ListUsers` while others create and
delete. `MemoryList` and `PostgresList` are the two implementations of `List`.
Ids are integers, ordered as the strings they stand for. The strings are a fixed
prefix and 32 lower-case hexadecimal digits (`newID`); the model takes Postgres to
order them as Go does, which holds for the usual collations.

### Requests

**ClientRetry** composes the client's retry loop with the server's unary handlers
and UserStore. An attempt is a request in `flight`. The client waits for its
answer, but may see the connection break or its own deadline pass first; the
request then stays in flight and may be carried out at any later time, or never.
The server refuses, applies, or applies and fails. Having lost the answer to a
commit, the repository runs the operation again (`RunAgain`, of `retryOperation`),
with the id drawn before the first run (`Own`); the next run finds what the last
one has done, and may end with `ErrCapacity`, `ErrAlreadyExists` or `ErrNotFound`.
`found` is the user a keyed create has looked up and not yet loaded. `seen` and
`effect` record, per attempt, what the client made of it and whether it had effect;
`lost` has the requests that were run again. **MCClientRetry** has the calls each
client makes (`Plan`).

**Backoff** has the two functions that compute a wait, over integers of `Width`
bits that wrap around; a function yields the set of values its jitter may choose.

**TokenBuckets** is the promise of a rate limiter: buckets that are never lost.
**RateLimiter** is `PerClientRateLimiter`: `Lookup` (the part of `Allow` under `mu`)
and `Take` are two steps, and `EvictIdle` may come between them. Buckets are
numbers, and one nobody refers to is free to be allocated again.

**Authenticator** has the credential rules as operators: `credentialFromContext`,
key classes and algorithms, times with skew, issuer, audience, scopes, the method
policy. Cryptography is taken to tell apart by whom a signature was made.
**UserService** has the unary handlers as operators from a request to the set of
ways it may end; a write that was applied (`Applies`) may also end with what a
second run of it finds.

**RequestChain** composes these. `UnaryChain` and `StreamChain` are the orders of
`newGRPCServer`; a request goes in through the chain until something refuses it or
the handler has run, and out through what it has passed. Each interceptor is a
step, so other requests, the clock and refilled buckets come in between. A panic
goes out too and runs only what the code defers. Streams handle a message at a
time and end as the code ends them: at their limit, by the client, by an error, by
their context. The limits are those of TokenBuckets, which RateLimiter implements.
**MCRequestChain** gives it tokens that differ from a good one in one respect each.

### Process

**Config** is `Load`, `applyEnvironment` and `Validate`, field by field; of a text it
keeps whether it is absent, blank, too short or of the form asked for.
**ServerLifecycle** is `main` and `run`: `pc` is where `run` is, `todo` the servers left
of the present loop, `open` and `deferred` what is open and what will be undone.
Beside it run the goroutine of each server (`srv`), the calls, the timer of
`drainCtx`, and the goroutine for SIGHUP, which ends the process while nobody
listens for it. A listener that fails is closed by its own goroutine, before run
knows of it. A reload sets the level only if the file is valid as a whole and
`SetLevel` can parse it. **MCServerLifecycle** has the files and environments it is started
with.

### How they fit together

PostgresRepository and MemoryRepository implement UserStore
(`ImplementsUserStore`, with `owner <- idem` or `owner <- keys`), and ClientRetry
is stated over UserStore. RateLimiter implements TokenBuckets, over which
RequestChain is stated. The cache and the breaker are specified over any
repository and meet all the results one may return, ambiguous writes and panics
included; so what they are shown to do holds over either backend, and for the cache
over the breaker, whose `ErrCircuitOpen` is one of the errors the cache passes on.
The retry of a lost commit in PostgresRepository is what an "ambiguous" result in
CacheRepository, and a write that is applied and fails in UserService and
ClientRetry, comes from. ServerLifecycle takes its configuration from Config and
asks Authenticator whether it can start.

The modules `...Proofs` hold the theorems; **MCPostgres** adds symmetry and
**MCMigrations** the files of each release.

## Runs

Those expected to pass:

| run | shows | bounds |
|---|---|---|
| `breaker` | Never more probes than allowed (`ProbeBudget`); it opens only on consecutive failures of one closed period; late results leave the open window and the open state alone; after an outage it closes for good unless a probe was lost (`Recovers`) | 3 callers, thresholds 2, 2, 2 |
| `memory_repository` | Replays return the user of that key, also when keys outlive users; implements UserStore | 3 ids, 2 keys, capacity 2, rows of up to 2 writes |
| `paged_list` | A scan returns every user that stays exactly once, and ends; the backends' pages are the same | 4 ids, pages of 1 to 3, requests for 0, 2 and 9 |
| `cache` | Size bound; a user served from the cache is out of date for a bounded time; an outdated entry is there only because of a race or an ambiguous write | 2 callers, 2 ids, 1 entry, ttl 1, 3 versions, latency 1 |
| `postgres_creates` | One user per key although statements interleave, fail and are retried; a keyed create survives its own lost commit; `ErrNotFound` from a keyed create leaves the key free; implements UserStore, capacity included | 2 callers, 3 ids, 2 keys, capacity 2, 2 attempts |
| `postgres_rows` | Updates, read-modify-updates and deletes of one row lose no write; success is reported only for what was committed; every operation returns | 2 callers, 1 id, 1 key, 2 attempts |
| `migrations` | Recorded versions and schema agree; each migration takes effect once; a replica serves only on the schema it was built with | 3 replicas of 2 releases, 2 attempts, 1 crash each, rollbacks of 1 and 2 versions |
| `client_retry` | A create without key and opt-in is doubled only by an attempt that was carried out and looked `Unavailable`, or `ResourceExhausted` after a lost commit answer; `ResourceExhausted` means no effect except for a create that was run again; a keyed create is one user; OK means done, by this call; both backoffs stay in range | 2 clients, one with a create or an update in up to 2 attempts, one with a create and then a delete; 3 ids, 1 key, capacity 2, 2 runs, 8-bit durations |
| `rate_limiter` | Eviction cannot be observed (`ImplementsTokenBuckets`), and idle buckets go | 2 clients and the anonymous bucket, 2 requests, burst 2, rate 1 |
| `request_chain` | Slots and gauges are given back on every way out; who holds a slot is authorized and who is denied is charged; only vouched credentials are accepted, and those always; audit, metrics and answers agree; stored users stay valid | 2 requests, 7 methods between them and 47 forms of metadata, bursts and semaphore of 1, 1 message, clock 0 to 1 |
| `server_lifecycle` | Probes say ready only while everything serves or the error of a listener is on its way; the repository outlives the calls; nothing is left open; exit code 0 is a clean stop; the log level is the one started with or that of a valid file; the process stops when asked, or when a listener fails | 18 files and environments, 4 servers, listeners of 2 may fail, a gRPC and a gateway call |

Why the bounds are enough. Breaker: two callers can be in flight from before the
breaker opened while a third probes, and both thresholds need two calls to be
reached; `CfgSuccessThreshold` is 0, so the default of the constructor is used.
Memory: with capacity 2 of 3 ids a create is refused, and succeeds again after a
delete; two keys are needed for a key to be confused with another. Paging: four
ids make pages that are short, exactly full and one over, for each size. Cache:
one entry for two ids evicts on each new key; three versions let a write race
with a read that itself follows a write. Postgres: every conflict is between two
transactions, two attempts are one retry, three ids of capacity two fill the
table and leave a create to refuse; callers, ids and keys are symmetric in
`postgres_creates` (it checks no liveness). Client retry: a second attempt is what
duplicates; an abandoned first one may be carried out before, after or instead of
it, and the other client takes the key or the capacity, or deletes a user, between
any two steps. Two runs are one lost answer and one run that finds its effect;
with capacity 2 such a run finds the store full of its own row and another. In this
instance only updates opt in to more retries, only the delete may have 0 attempts,
and requests are refused with `Internal` alone; the theorems hold for every `Plan`
and all `Refusals`. With 8 bits every base, cap and attempt is tried, past the point of overflow. Rate
limiter: a bucket of two refills in exactly the time an idle one is kept, the
tightest case `LimiterAssumption` allows; two requests let one hold a bucket while
the other makes it idle. Request chain: one slot for two requests makes each
wait on what the other does; one token makes the second refused. Lifecycle:
one configuration has every optional part, one has none, the others each break one
rule of `Validate` or `NewAuthenticator`; two listeners that fail race for the one
read of `errCh`. `MaxWrites`, `MaxVersion`, `MaxLatency`, `MaxCrashes`, `MaxCalls`,
`MaxNow`, `MaxStall` and `Width` are bounds of the models alone. `migrations`,
`client_retry` and `server_lifecycle` do not check for deadlock: replicas that are
all up or have failed, clients that have made their calls, and a process that has
exited may stop.

Fairness. Breaker: time passes; an admitted call ends, because operations run
under the caller's deadline; calls keep arriving, because `/readyz` polls `Ping`
through the breaker. Paging: the client asks for the next page. Postgres: strong
fairness of each caller's next statement, since Postgres grants a lock to its
waiters in order and executes what it can; faults and lost answers are never
required to happen. Lifecycle: weak fairness of `run` and of the serving
goroutines, which Go schedules, of the timer, and of gRPC calls once `Stop` has
ended their contexts; no call is required to end by itself, no signal to come. The
other runs check safety only and assume no fairness.

## Proofs

Each module proves that an inductive invariant holds (`Invariance`, of `IInv`;
RequestChainProofs has one for each group of theorems) and derives the theorems
from it; each such invariant was model-checked on the instance of the run first.
They hold for any number of callers, ids, requests and so on, and for any
configuration the named assumption allows. Every invariant, action property and
refinement that a run checks is proved; what is left to TLC alone is liveness.

Two of the modules also hold the theorems about a second specification:
MemoryRepositoryProofs those about PagedList (`ScanSpec`), whose lists read both
repositories, and PostgresRepositoryProofs those about Migrations (`MigrationSpec`),
which the Postgres repository starts with. The two specifications in such a module
have no variable or constant in common.

| module | theorems | assumption |
|---|---|---|
| `CircuitBreakerProofs` | `TypeCorrect`, `CountersCorrect`, `ProbeBudgetHolds`, `NoWedge`, `FailureBound`, `TripEvidence`, `OpenWindowFixed` | `BreakerAssumption` |
| `MemoryRepositoryProofs` | `TypeCorrect`, `Capacity`, `KeysAreUnique`, `ReplayIsOriginal`, `ClosedForGood`, `Refinement` | finite ids |
| the same, about PagedList | `ScansAreComplete`, `PagesAdvance`, `BackendsGiveSamePages` | `PageAssumption` |
| `PostgresRepositoryProofs` | `KeysAreUnique`, `NilMeansCommitted`, `LostCommitSurvived`, `KeyFreeAfterNotFound`, `Refinement` | `PostgresAssumption` |
| the same, about Migrations | `SchemaIsRecorded`, `MigrationsTakeEffectOnce`, `ServesItsOwnSchema` | `MigrationsAssumption` |
| `CacheRepositoryProofs` | `Bounded`, `Staleness`, `OnlyByRace` | `CacheAssumption` |
| `ClientRetryProofs` | `ExhaustedExplained`, `KeyedCreatesOnce`, `DuplicatesExplained`, `NilMeansApplied`, `WaitsInRange` | `RetryAssumption`, `RequestAssumption`; for `WaitsInRange` also `WidthAssumption`, `PowersOfTwo` |
| `RateLimiterProofs` | `TypeCorrect`, `NoSharing`, `Evicted`, `Refinement` | `LimiterAssumption` |
| `RequestChainProofs` | `Authentic`, `Ordered`, `Truthful`, `UsersStayValid`, `Conservation` | `ChainAssumption`, `CredentialAssumption`, `ClientAssumption` |
| `ServerLifecycleProofs` | `ReadyIsTrue`, `RepositoryLast`, `AllClosed`, `ZeroMeansClean`, `RoomToReport`, `LevelStaysConfigured` | `LifecycleAssumption` |

The assumptions give the constants their types, keep `None` and `Absent` apart from
the values they stand in for, and say what the code or its startup ensures:
`RetryAssumption`, that a refusal is not the code OK; `CredentialAssumption`, that
there is an authenticator (`run` ends otherwise, `cmd/server/main.go:68`), that
times in tokens are numbers, missing or malformed, and that no signature was made
with a key that is missing; `ClientAssumption`, that `Subjects` has every subject that
can be authenticated; `LifecycleAssumption`, that a configuration file that parses
has the field for the log level, blank or not: it is a field of a Go struct;
`PageAssumption`, that ids are finitely many positive numbers and the default page
size is at most the maximum; `MigrationsAssumption`, that a release has some of the
three migration files. `PowersOfTwo` assumes nothing of the code: it states, for the
exponents that matter, that a power of two is positive and doubles with the next
exponent, which is arithmetic the provers do not have.

`CircuitBreakerProofs`. The invariant adds to `TypeOK` and `CountersMatchCalls` the
conjunct `LateFailures`: while the breaker is open, `failureCount` plus the calls in
flight stays below the threshold plus the number of callers (and `failureCount`
alone while half-open). `FailureCountBounded` alone is not inductive: each late
failure raises the count, and only the shrinking number of calls in flight bounds
it. `TripEvidence` and `OpenWindowFixed` are action properties, proved from the
invariant action by action.

`MemoryRepositoryProofs`. The invariant adds `KeysPointBack`, that every stored
user created with a key is the one its key points to, and `LoadedIsCurrent`, that
the copy a read-modify-update works on is still the stored user. The first gives
unique keys; it holds because ids are never used twice (`newID`), so a key re-used
after a delete cannot lead back to an old user. The second makes the second half
of `ReadModifyUpdate` a step of UserStore.

PagedList there: `ScanInv` says that up to the id in the client's token the scan has
returned every user that was stored all the while, and that it has returned nobody
beyond. `ScanComplete` alone is not inductive: it says nothing of a scan under way.
That a page keeps `ScanInv` rests on three facts about the ids of lowest rank in a
finite set: they leave no gap (`PageHasNoGap`), they are all ids if these fit
(`PageHoldsAll`), and they are not empty, so that there is a last one to continue
from (`PageIsNotEmpty`, `Greatest`). `PagesAdvance` adds that a continuation id is
beyond all that went before, the safety half of `ScanEnds`. For
`BackendsGiveSamePages`, `PageIsFull` shows that one row too many arrives exactly
when there are more ids than the limit, and dropping it leaves the same page. The
least and greatest ids come from the well-foundedness of the natural numbers
(`Least`), as the library's induction theorems cannot be used.

`PostgresRepositoryProofs`. What a transaction has read stays true until it commits
only because of the locks it holds. `Creating`: a create past its first statement
has the advisory lock, so the key it looked up, and the capacity it counted, can
only have been freed since; `Writing`: any other operation about to commit has the
lock of its row, and the row it read is still there. With `KeysPointBack` (the
rows of `idempotency_keys` are exactly those of live users, by `ON DELETE CASCADE`) and
`OwnIds` (two creates never share an id) a commit is a whole operation of
UserStore and every other step a stutter: `Refinement`. The theorems about results
come from what each `Return` has read in the same step.

Migrations there: `MigInv` says that at most one transaction is open, and that the
copy it works on is the committed schema with the migrations it has run so far
(`Migrating`), or without those it has undone (`RollingBack`); the lock keeps this
so, since nobody else can commit meanwhile. Both kinds of copy are `Exact`: their
objects are those of their recorded versions. A commit then installs an exact
schema and counts each migration once, and a replica comes up only with nothing
left to run, so that what it commits is the set of versions it verified and was
built with.

`CacheRepositoryProofs`. What is served from the cache is bounded only through
what is on its way there. `Carried` says that a user a call carries is no older
than the call and, if out of date, marked as raced; `Ages` that the user of a fresh
entry has been out of date for no longer than the entry's age plus one call.
`SetBounded` follows `evictLocked` through its three cases.

`ClientRetryProofs`. An attempt is known by its call and number. `Tags`: it is in
flight once, or has had its effect, and no two users come from one attempt.
`InTurn`: an attempt is made only after all before it ended with a code
`shouldRetry` accepts. `Spent` and `Answers`: what the client has seen, or is about
to see, of an attempt is so, though other attempts of the call are still under
way; in particular ResourceExhausted excludes an effect for good, unless the attempt
is a create in `lost`. `Agree`: the
attempts of a call carry the same request; `Keyed`: a live user with a key is the
one its key leads to. Two users of one call come from two attempts, the earlier of
which had its effect and was given up with a safe code: Unavailable, or
ResourceExhausted of an attempt in `lost`: `DuplicatesExplained`. `WaitsInRange`
needs no invariant: two's complement changes nothing within the range (`WrapInRange`) and gives some integer
outside it, which `backoff` brings back between 1 and the cap.

`RateLimiterProofs`. That an evicted bucket is missed by nobody rests on three
facts: a request between lookup and token has its bucket in the map
(`BucketsNotShared`, because it is never late by more than `MaxStall`:
`IdleNotLate`); a bucket idle for `n` ticks holds at least `Credit(n)` tokens
(`Refilling`); and nothing stays idle past a cleanup (`IdleSinceCleanup`). So a
bucket is full when it goes, and `Balance`, the refinement mapping, does not see
it go. `LimiterAssumption` is what the configuration must satisfy for this: that a
bucket refills within two cleanup intervals.

`RequestChainProofs`. `Placed` says where in its chain a request may be in each
phase. `HonestInv` adds what is true of it there: on the way in, which of the
interceptors behind it have passed it and on what evidence (`GoingIn`); on the way
out, why it turned round, what it has applied and what has been recorded of that so
far (`GoingOut`). `Authentic`, `Ordered` and `Truthful` are read off it; none is
inductive, since each compares the end of a request with a check made many steps
earlier, at another time. `Authentic` further needs that `authenticate` accepts exactly
what `Vouched` describes, credential by credential. For `Conservation` the counters are the cardinalities of the sets of requests inside the
interceptor that counts them. `SlotsConserved` alone is not inductive, since
releasing needs to know that the request is one that acquired.

`ServerLifecycleProofs`. `Owed`: what is open has its deferred call to come, or is
the limiter `newGRPCServer` leaves behind. `Listening`: while servers are being
started, what is asked for is open or still in `todo`. `Stopping`: while they are
being stopped, what is asked for is still in `todo`, or takes no more calls and
has none left but those the deadline cut off, which `err` reports. `Counted`: `errCh`
holds no more than one error for each server that has reported. `LevelInv`: the
level comes from a configuration loaded in the one environment of the process.

`CountersMatchCalls`, `NeverWedged`, `FailureCountBounded`, `CapacityHeld`,
`OneUserPerKey` and `FailsClosed` of MemoryRepository, `BucketsNotShared`,
`ErrChHasRoom` and the type invariants are proved and are in no run.

Only model-checked: liveness (`Recovers`, `ScanEnds`, `CallsReturn`,
`StopsWhenAsked`), which is out of the prover's reach, as is ENABLED.

## Where the code and its documents differ

Shown by the run `breaker_shipped_config`, with the lines quoted under `findings`
in PROJECT.json: with `configs/config.yaml` (2 successes needed, 1 half-open
request) the breaker never closes again after an outage. The file as shipped has
the breaker switched off (`configs/config.yaml:85`); the wedge appears once it is
switched on with the values that stand there.

Seen while modelling, and part of the models, without a run of their own:

Storage
- `circuitbreaker.go:186`: errors of the application, such as not found, open the
  breaker over a backend that never failed; `docs/architecture/storage.md:18-19` speaks of
  failures of the backend.
- `circuitbreaker.go:172`: a probe that ends with `ErrUnavailable` keeps its slot;
  enough of them wedge the breaker half-open (hence `lost` in `NeverWedged` and
  `Recovers`). A panic does the same.
- `circuitbreaker.go:159`: a late success of a call admitted before the breaker
  opened counts towards closing it.
- `memory.go:170`: `Delete` keeps the key, so `idem` grows for ever in a repository
  that `memory.go:13` calls bounded.
- `cache.go:151`: a read that overlaps a write stores the old user after the write
  has invalidated the key. `cache.go:144`: most errors are passed on although a
  stale entry is there (`:34-35`). `cache.go:171`: a read-modify-update that failed
  with `ErrUnavailable` is answered from the cache, without an error or a write.
- `postgres.go:536`: a delete between the two lookups of a replay makes a keyed
  create end with `ErrNotFound`. `postgres.go:707`: a delete whose commit answer was
  lost is retried and reports `ErrNotFound` for the user it deleted.
- `postgres.go:402`: `ApplyDownMigrations` of an older release skips versions it does
  not have, and may undo version 2 and leave 3; `verifyMigrations` (`:355`) accepts
  such a gap. The down script of version 1 drops `schema_migrations`, so
  unrecording version 1 always fails.
- `postgres.go:129`: `backoffDuration` has no guard against overflow; the property
  of it is stated for waits that do not overflow.

Requests
- `client_retry.go:25-31` calls `Unavailable` and `ResourceExhausted` codes "where the
  server provably did not process the request". A connection that breaks after the
  request was sent gives the first too. The second may come from a create without
  key whose commit took effect and whose answer was lost: `retryOperation` runs it
  again, and it finds the store full (`postgres.go:485`). Hence
  `DuplicatesOnlyAfterLostAnswer` and `ExhaustedAppliedOnlyIfLost`. If the store is not
  full, the same create ends with `ErrAlreadyExists` for its own row.
- A user that is deleted between two runs of its create is stored anew by the
  second (hence the exception in `OKMeansApplied`). `MaxAttempts` 0 returns nil
  without a call.
- `limits.go`: a burst that does not refill within two cleanup intervals lets an
  evicted client start with more than it had left (`LimiterAssumption`). Health
  checks take tokens of the global bucket and of the anonymous one.
- A mutation whose handler panics leaves no audit record and no metric; an error of
  the context is recorded as `Unknown` and sent as `DeadlineExceeded` or `Canceled`.
- `user.go:376`: `ChatStream` has no message cap, though `cmd/server/main.go:319-320`
  says of streams that "the per-stream message cap bounds their duration". A
  stream outlives the token it was opened with.

Process
- `config.go:285-299`: `server.port` is compared with no other port, so a clash is
  found only by `net.Listen`. Blank keys and secrets may pass `Validate`.
- `main.go:110`: if the certificates cannot be loaded, the limiter's goroutine is
  left (hence the exception in `NothingLeftOpen`).
- `main.go:228`: SIGHUP before the goroutine has registered for it, or after a
  signal has made it return, ends the process. A log level in the environment
  wins over the file on every reload.
- A forced stop of the gRPC server is not reported, and the exit code may be 0.
  The same holds of the error of a listener that fails when a signal has been
  taken (`main.go:188`): nobody reads it from `errCh`.

## Not modelled

- Requests that come through the HTTP gateway reach the handlers of UserService
  in the process, without the chain of RequestChain; ServerLifecycle counts them
  as calls, and what they carry is not modelled.
- `StreamClientRetryInterceptor`: the loop of ClientRetry around opening a stream.
  `StreamTimeoutInterceptor` is used by nobody.
- Request ids, log lines, metric names, error details and the wording of
  messages; the HTTP handlers for metrics and CORS; tracing exporters: output
  that nothing in the program reads back.
- Cryptography and the parsing of tokens, the gRPC and HTTP libraries, Postgres:
  modelled as far as the code relies on them.
- The sums of `CollectUserMetrics` and the payloads of streams.
- The example client and the client's logging and metrics interceptors, the
  generated code, and the demo page.
