------------------------------ MODULE Migrations ------------------------------
(***************************************************************************)
(* The migrations of the database, internal/dbmigrate/migrate.go.  Both    *)
(* stores apply them when they are opened, and during a rollout two        *)
(* processes, perhaps of two builds, do so at once.  A process may stop    *)
(* between any two statements; SQLite then rolls its transaction back.     *)
(***************************************************************************)
EXTENDS Integers

CONSTANTS Openers,       \* processes
          Checksums,     \* of the files of migrations
          MaxLaunches    \* bound

ASSUME MigrationsAssumption ==
  "none" \notin Checksums /\ "none" \notin Openers /\ MaxLaunches \in Nat

VARIABLES step,          \* where Apply is, for each opener
          build,         \* the migrations embedded in an opener: their checksums
          version,       \* the migration at which applyOne is
          registered,    \* ui_schema_migrations
          tables,        \* api_token and the other tables of migration 1 are there
          column,        \* owner_id, of migration 2, is there
          lock,          \* who may write
          overtaken,     \* openers whose snapshot is older than the last commit
          met,           \* history: openers that another opener was there with
          launches

databaseVars == <<registered, tables, column, lock, overtaken>>
migrationVars == <<step, build, version, databaseVars, met, launches>>

Versions == 1 .. 2
Builds == UNION {[1 .. n -> Checksums] : n \in Versions}

\* Only a transaction that is under way holds the lock or a snapshot.
MigrationsTypeOK ==
  /\ step \in [Openers -> {"stopped", "preparing", "checking", "inspecting", "registering",
                           "migrating", "executed", "recorded", "opened", "failed"}]
  /\ build \in [Openers -> Builds]
  /\ version \in [Openers -> 1 .. 3]
  /\ registered \in [Versions -> Checksums \cup {"none"}]
  /\ {tables, column} \subseteq BOOLEAN
  /\ lock \in {"none"} \cup {o \in Openers : step[o] \in {"executed", "recorded"}}
  /\ overtaken \subseteq {o \in Openers : step[o] = "executed"}
  /\ met \subseteq Openers
  /\ launches \in 0 .. MaxLaunches

\* A new database, or one that a release without migrations has left.
MigrationsInit ==
  /\ step = [o \in Openers |-> "stopped"]
  /\ build \in [Openers -> {[v \in Versions |-> c] : c \in Checksums}]
  /\ \A o, p \in Openers : build[o] = build[p]
  /\ version = [o \in Openers |-> 1]
  /\ registered = [v \in Versions |-> "none"]
  /\ tables \in BOOLEAN /\ column \in BOOLEAN /\ (column => tables)
  /\ lock = "none" /\ overtaken = {} /\ met = {} /\ launches = 0

Others(o) == {p \in Openers \ {o} : step[p] \notin {"stopped", "failed"}}

Goto(o, s) == step' = [step EXCEPT ![o] = s]

NextVersion(o) ==
  /\ version' = [version EXCEPT ![o] = @ + 1]
  /\ Goto(o, "checking")

\* Apply returns an error, and the deferred Rollback and Close end what was under way.
Fail(o) ==
  /\ Goto(o, "failed")
  /\ lock' = IF lock = o THEN "none" ELSE lock
  /\ overtaken' = overtaken \ {o}
  /\ UNCHANGED <<version, registered, tables, column>>

\* A process starts, of any build; or the second store of the same process is opened.
Launch(o) ==
  /\ step[o] \in {"stopped", "failed", "opened"} /\ launches < MaxLaunches
  /\ launches' = launches + 1
  /\ Goto(o, "preparing")
  /\ IF step[o] = "opened" THEN UNCHANGED build
     ELSE \E b \in Builds : build' = [build EXCEPT ![o] = b]
  /\ version' = [version EXCEPT ![o] = 1]
  /\ met' = IF Others(o) = {} THEN met \ {o} ELSE met \cup {o} \cup Others(o)
  /\ UNCHANGED databaseVars

\* The process stops or is killed.
Crash(o) ==
  /\ step[o] \notin {"stopped", "failed"}
  /\ Goto(o, "stopped")
  /\ lock' = IF lock = o THEN "none" ELSE lock
  /\ overtaken' = overtaken \ {o}
  /\ UNCHANGED <<build, version, registered, tables, column, met, launches>>

\* The pragmas and migrationsTable: the first has no busy_timeout yet.
Prepare(o) ==
  /\ step[o] = "preparing"
  /\ \/ Goto(o, "checking") /\ UNCHANGED <<version, databaseVars>>
     \/ Others(o) # {} /\ Fail(o)

\* The loop of Apply, and the first query of applyOne.
Check(o) ==
  LET v == version[o] IN
  /\ step[o] = "checking"
  /\ \/ /\ v \notin DOMAIN build[o]
        /\ Goto(o, "opened") /\ UNCHANGED <<version, databaseVars>>
     \/ /\ v \in DOMAIN build[o] /\ registered[v] = build[o][v]
        /\ NextVersion(o) /\ UNCHANGED databaseVars
     \/ /\ v \in DOMAIN build[o] /\ registered[v] = "none"
        /\ Goto(o, "inspecting") /\ UNCHANGED <<version, databaseVars>>
     \/ /\ v \in DOMAIN build[o] /\ registered[v] \notin {"none", build[o][v]}
        /\ Fail(o)

\* Mutant of AlreadyApplied: only ui_schema_migrations is asked.
NeverApplied(v) == FALSE

\* schemaAlreadyApplied
AlreadyApplied(v) == v = 2 /\ column

Inspect(o) ==
  /\ step[o] = "inspecting"
  /\ Goto(o, IF AlreadyApplied(version[o]) THEN "registering" ELSE "migrating")
  /\ UNCHANGED <<version, databaseVars>>

\* A statement that writes waits for busy_timeout, no longer.
TimesOut(o) == lock \notin {"none", o} /\ Fail(o)

\* The transactions that have read but not written.
Readers == {p \in Openers : step[p] = "executed" /\ lock # p}

Register(o) ==
  LET v == version[o] IN
  /\ step[o] = "registering"
  /\ \/ /\ lock = "none" /\ registered[v] = "none"
        /\ registered' = [registered EXCEPT ![v] = build[o][v]]
        /\ overtaken' = overtaken \cup Readers
        /\ NextVersion(o) /\ UNCHANGED <<tables, column, lock>>
     \/ lock = "none" /\ registered[v] # "none" /\ Fail(o)
     \/ TimesOut(o)

\* BeginTx and the migration: statements IF NOT EXISTS only read where everything exists,
\* and ALTER TABLE fails where the column exists.
Execute(o) ==
  LET v == version[o] IN
  /\ step[o] = "migrating"
  /\ \/ /\ v = 1 /\ tables
        /\ Goto(o, "executed") /\ UNCHANGED <<version, databaseVars>>
     \/ /\ IF v = 1 THEN ~tables ELSE tables /\ ~column
        /\ lock = "none" /\ lock' = o
        /\ Goto(o, "executed") /\ UNCHANGED <<version, registered, tables, column, overtaken>>
     \/ v = 2 /\ (column \/ ~tables) /\ Fail(o)
     \/ ~(v = 1 /\ tables) /\ TimesOut(o)

\* The row is inserted: not by a transaction whose snapshot is old, and not twice.
Insert(o) ==
  /\ step[o] = "executed"
  /\ \/ /\ lock \in {"none", o} /\ o \notin overtaken /\ registered[version[o]] = "none"
        /\ lock' = o
        /\ Goto(o, "recorded") /\ UNCHANGED <<version, registered, tables, column, overtaken>>
     \/ (o \in overtaken \/ registered[version[o]] # "none") /\ Fail(o)
     \/ TimesOut(o)

CommitMigration(o) ==
  LET v == version[o] IN
  /\ step[o] = "recorded"
  /\ registered' = [registered EXCEPT ![v] = build[o][v]]
  /\ tables' = TRUE /\ column' = (column \/ v = 2)
  /\ lock' = "none" /\ overtaken' = overtaken \cup Readers
  /\ NextVersion(o)

\* The stores of an opener at work.
Write(o) ==
  /\ step[o] = "opened" /\ lock = "none" /\ Readers \ overtaken # {}
  /\ overtaken' = overtaken \cup Readers
  /\ UNCHANGED <<step, build, version, registered, tables, column, lock, met, launches>>

Statement(o) ==
  /\ \/ Prepare(o) \/ Check(o) \/ Inspect(o) \/ Register(o)
     \/ Execute(o) \/ Insert(o) \/ CommitMigration(o)
  /\ UNCHANGED <<build, met, launches>>

MigrationsNext == \E o \in Openers : Launch(o) \/ Crash(o) \/ Statement(o) \/ Write(o)

MigrationsSpec == MigrationsInit /\ [][MigrationsNext]_migrationVars
-----------------------------------------------------------------------------
(* Properties *)

Changed(o) == \E v \in DOMAIN build[o] : registered[v] \notin {"none", build[o][v]}

\* Whatever was killed or overtaken before: a migration that is registered was applied, a
\* store that is open has all the migrations of its build, and one that does not open has
\* met another opener, or a migration was changed after it was applied (migrate.go:52-58,
\* 102-133).
OpeningRight ==
  /\ registered[1] # "none" => tables
  /\ registered[2] # "none" => column
  /\ \A o \in Openers :
       step[o] = "opened" => \A v \in DOMAIN build[o] : registered[v] = build[o][v]
  /\ \A o \in Openers : step[o] = "failed" => o \in met \/ Changed(o)
=============================================================================
