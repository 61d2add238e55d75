----------------------------- MODULE Migrations -----------------------------
(***************************************************************************)
(* Schema migrations of PostgresRepository (internal/storage/postgres.go,  *)
(* NewPostgresRepository to loadAppliedVersions).  Replicas built from     *)
(* different releases start in any order against one database; each runs   *)
(* migrateAndPing in a transaction under the advisory lock and retries on  *)
(* any error, and may crash at any statement.  ApplyDownMigrations, which  *)
(* nothing in the program calls, is a method of a started repository.      *)
(*                                                                         *)
(* A transaction works on a copy of the committed schema and installs it   *)
(* when it commits (DDL is transactional in Postgres).                     *)
(***************************************************************************)
EXTENDS Integers, FiniteSets, FiniteSetsExt

CONSTANTS
  Servers,          \* replicas
  Embedded,         \* Embedded[s]: versions of the migration files in s's binary
  retryAttempts,
  MaxCrashes,       \* bound on the crashes of one replica
  DownCounts,       \* arguments of ApplyDownMigrations; {} when nobody calls it
  NoTx              \* no open transaction

Versions == 1 .. 3

ASSUME MigrationsAssumption ==
  /\ retryAttempts \in Nat \ {0}
  /\ MaxCrashes \in Nat
  /\ DownCounts \subseteq Nat
  /\ \A s \in Servers : Embedded[s] \in SUBSET Versions

VARIABLES
  db,         \* committed: tables and indexes, and the rows of schema_migrations
  tx,         \* tx[s]: the open transaction of replica s, or NoTx
  pc,         \* pc[s]: "stopped", "starting", "up" or "failed"
  attempt,    \* attempt[s]: which attempt of the startup loop runs
  crashes,
  \* History:
  runs        \* runs[v]: times migration v took effect less times it was undone

migrationVars == <<db, tx, pc, attempt, crashes, runs>>

MigrationInit ==
  /\ db = [objects |-> {}, versions |-> {}]
  /\ tx = [s \in Servers |-> NoTx]
  /\ pc = [s \in Servers |-> "stopped"]
  /\ attempt = [s \in Servers |-> 0]
  /\ crashes = [s \in Servers |-> 0]
  /\ runs = [v \in Versions |-> 0]
-----------------------------------------------------------------------------
(* The migration files, and the row that records each *)

Object(v) == CASE v = 1 -> "users" [] v = 2 -> "indexes" [] v = 3 -> "idempotency_keys"

\* 0002 and 0003 refer to the users table.
UpRuns(v, d) == v = 1 \/ "users" \in d.objects

Up(v, d) == [objects |-> d.objects \cup {Object(v)}, versions |-> d.versions \cup {v}]

\* 0001's down script drops schema_migrations as well as users, so that the
\* statement that unrecords version 1 fails; the other two succeed.
DownRuns(v) == v # 1

DownKeepsRecord(v, d) == [d EXCEPT !.objects = @ \ {Object(v)}]
Down(v, d) == [objects |-> d.objects \ {Object(v)}, versions |-> d.versions \ {v}]

\* verifyMigrations: version 1 is embedded, and every applied version is.
VerifyNothing(s) == TRUE
Verify(s) ==
  /\ Embedded[s] # {} => 1 \in Embedded[s]
  /\ db.versions \subseteq Embedded[s]
-----------------------------------------------------------------------------
(* Startup *)

\* pg_advisory_xact_lock: every transaction below holds it until it ends.
Unlocked == TRUE
LockFree == \A s \in Servers : tx[s] = NoTx

Begin(s, todo, left) ==
  tx' = [tx EXCEPT ![s] = [work |-> db, todo |-> todo, left |-> left, did |-> {}]]

Rollback(s) == tx' = [tx EXCEPT ![s] = NoTx]

Install(s, delta) ==
  /\ db' = tx[s].work
  /\ runs' = [v \in Versions |-> runs[v] + IF v \in tx[s].did THEN delta ELSE 0]
  /\ Rollback(s)

Enter(s, state) == pc' = [pc EXCEPT ![s] = state]

\* NewPostgresRepository after an error: the next attempt, or give up when
\* there is none.
NextAttempt(s) ==
  \/ /\ attempt[s] < retryAttempts
     /\ attempt' = [attempt EXCEPT ![s] = @ + 1]
     /\ UNCHANGED pc
  \/ /\ attempt[s] = retryAttempts
     /\ Enter(s, "failed")
     /\ UNCHANGED attempt

StartReplica(s) ==
  /\ pc[s] = "stopped"
  /\ Enter(s, "starting")
  /\ attempt' = [attempt EXCEPT ![s] = 1]
  /\ UNCHANGED <<db, tx, crashes, runs>>

\* Takes the lock, finds the pending migrations and verifies the chain.
BeginMigrate(s) ==
  /\ pc[s] = "starting" /\ tx[s] = NoTx
  /\ LockFree
  /\ \/ /\ Verify(s)
        /\ Begin(s, Embedded[s] \ db.versions, 0)
        /\ UNCHANGED <<pc, attempt>>
     \/ /\ ~Verify(s)
        /\ NextAttempt(s)
        /\ UNCHANGED tx
  /\ UNCHANGED <<db, crashes, runs>>

\* Runs the lowest pending migration and records it.
ApplyMigration(s) ==
  /\ pc[s] = "starting" /\ tx[s] # NoTx
  /\ tx[s].todo # {}
  /\ LET v == Min(tx[s].todo) IN
       /\ UpRuns(v, tx[s].work)
       /\ tx' = [tx EXCEPT ![s].work = Up(v, @), ![s].todo = @ \ {v}, ![s].did = @ \cup {v}]
  /\ UNCHANGED <<db, pc, attempt, crashes, runs>>

\* The commit succeeds, or it does and its answer is lost.
CommitMigrate(s) ==
  /\ pc[s] = "starting" /\ tx[s] # NoTx
  /\ tx[s].todo = {}
  /\ Install(s, 1)
  /\ \/ Enter(s, "up") /\ UNCHANGED attempt
     \/ NextAttempt(s)
  /\ UNCHANGED crashes

\* The ping, the wait for the lock or any statement fails or times out; or the
\* caller's context is done, which ends the loop at once.
StartupFault(s) ==
  /\ pc[s] = "starting"
  /\ NextAttempt(s) \/ (Enter(s, "failed") /\ UNCHANGED attempt)
  /\ Rollback(s)
  /\ UNCHANGED <<db, crashes, runs>>

\* The process dies, whatever it is doing; the database ends its transaction.
Crash(s) ==
  /\ pc[s] # "stopped"
  /\ crashes[s] < MaxCrashes
  /\ crashes' = [crashes EXCEPT ![s] = @ + 1]
  /\ Enter(s, "stopped")
  /\ attempt' = [attempt EXCEPT ![s] = 0]
  /\ Rollback(s)
  /\ UNCHANGED <<db, runs>>
-----------------------------------------------------------------------------
(* ApplyDownMigrations(count): a binary has the down files of its up files. *)

BeginDown(s, count) ==
  /\ pc[s] = "up" /\ tx[s] = NoTx
  /\ LockFree
  /\ Begin(s, db.versions \cap Embedded[s], count)
  /\ UNCHANGED <<db, pc, attempt, crashes, runs>>

Undoing(s) == pc[s] = "up" /\ tx[s] # NoTx

\* The down script of the highest version left.
DownMigration(s) ==
  /\ Undoing(s)
  /\ tx[s].todo # {} /\ tx[s].left > 0
  /\ LET v == Max(tx[s].todo) IN
       /\ DownRuns(v)
       /\ tx' = [tx EXCEPT ![s].work = Down(v, @), ![s].todo = @ \ {v},
                           ![s].left = @ - 1, ![s].did = @ \cup {v}]
  /\ UNCHANGED <<db, pc, attempt, crashes, runs>>

CommitDown(s) ==
  /\ Undoing(s)
  /\ tx[s].todo = {} \/ tx[s].left = 0
  /\ Install(s, -1)
  /\ UNCHANGED <<pc, attempt, crashes>>

\* A statement, as version 1's always does, or the commit fails.
DownFault(s) ==
  /\ Undoing(s)
  /\ Rollback(s)
  /\ UNCHANGED <<db, pc, attempt, crashes, runs>>

MigrationNext ==
  \E s \in Servers :
    \/ StartReplica(s) \/ BeginMigrate(s) \/ ApplyMigration(s) \/ CommitMigrate(s)
    \/ StartupFault(s) \/ Crash(s)
    \/ \E count \in DownCounts : BeginDown(s, count)
    \/ DownMigration(s) \/ CommitDown(s) \/ DownFault(s)

MigrationSpec == MigrationInit /\ [][MigrationNext]_migrationVars
-----------------------------------------------------------------------------
(* Properties *)

\* schema_migrations tells the truth: the tables and indexes that exist are
\* those of the recorded versions, after any crashes, retries, lost answers
\* and rollbacks.
SchemaMatchesVersions == db.objects = {Object(v) : v \in db.versions}

\* No migration takes effect twice, however many replicas start at once and
\* however often they retry a commit whose answer was lost.
MigrationsRunOnce == \A v \in Versions : runs[v] = IF v \in db.versions THEN 1 ELSE 0

\* A replica starts to serve only on exactly the schema it was built with; one
\* of an older release never starts on a newer schema (verifyMigrations).
StartsMigrated ==
  [][\A s \in Servers : pc[s] # "up" /\ pc'[s] = "up" => Embedded[s] = db'.versions]_migrationVars
=============================================================================
