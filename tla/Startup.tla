------------------------------ MODULE Startup -------------------------------
(***************************************************************************)
(* How the processes of one installation come up: the launcher             *)
(* (scripts/dev.mjs), the choice of a database (packages/database/src/     *)
(* client.ts), the migrations (migrate.ts) and the demo workspace          *)
(* (packages/core/src/demo.ts), which the first API process seeds.  API,   *)
(* worker and the administrative command start at the same time, die and   *)
(* are started again, and may hold different releases of the files.        *)
(***************************************************************************)
EXTENDS Integers, FiniteSets

CONSTANTS
  Process,       \* the started programs; a restart is a new use of the same element
  Api, Worker,   \* the servers and the standalone workers; the rest are commands
  Migrations,    \* number of migration files
  Stages,        \* number of parts the demo workspace is built from
  MaxStarts,     \* bound of the model: starts of processes
  NoOne

VARIABLES
  strict,        \* cfg.isProd, one for the installation; a strict one has no fallback
  launched,      \* what the launcher saw of it when it started the services
  tabled,        \* the table schema_migrations is there
  schema,        \* [1..Migrations -> content recorded in schema_migrations, or 0]
  lock,          \* holder of pg_advisory_xact_lock
  proc,          \* [Process -> where its start has come to]
  demo,          \* the demo organization: its id (0: none) and the parts it has
  seeds,         \* ids given to demo organizations so far
  starts,        \* starts so far
  died           \* history: some process died while it was starting

startVars == <<strict, tabled, launched, schema, lock, proc, demo, seeds, starts, died>>

Versions == 1..Migrations
Off == [at |-> "off", files |-> 1, next |-> 1, drift |-> FALSE, org |-> 0]

\* preparing .. applying are migrate, looking .. seeding the demo workspace.
Steps == {"off", "connecting", "preparing", "tabling", "migrating", "reading", "applying",
          "looking", "creating", "seeding", "up", "embedded", "failed"}

TypeOK ==
  /\ {strict, tabled, launched, died} \subseteq BOOLEAN
  /\ schema \in [Versions -> 0..2]
  /\ lock \in Process \cup {NoOne}
  /\ \A p \in Process :
       /\ proc[p].at \in Steps
       /\ proc[p].files \in 1..2 /\ proc[p].next \in 1..(Migrations + 1)
       /\ proc[p].drift \in BOOLEAN /\ proc[p].org \in 0..seeds
  /\ demo.id \in 0..seeds /\ demo.done \in 0..Stages /\ seeds \in 0..MaxStarts
  /\ starts \in 0..MaxStarts

Init ==
  /\ strict \in BOOLEAN /\ launched \in BOOLEAN
  /\ tabled = FALSE /\ schema = [v \in Versions |-> 0] /\ lock = NoOne
  /\ proc = [p \in Process |-> Off]
  /\ demo = [id |-> 0, done |-> 0] /\ seeds = 0 /\ starts = 0 /\ died = FALSE

At(p, s) == proc[p].at = s
Go(p, s) == proc' = [proc EXCEPT ![p].at = s]

\* The content a process finds in its file of a migration: the first may have
\* been edited after a release.
Content(p, v) == IF v = 1 THEN proc[p].files ELSE 1

-----------------------------------------------------------------------------
(* Launching *)

\* The launcher looks for PostgreSQL once, and each process again when it
\* connects: what they find may differ.  Without PostgreSQL it clears
\* DATABASE_URL and starts no worker; it stops everything when a service ends.
Launch ==
  /\ \A p \in Process : proc[p].at \in {"off", "failed"}
  /\ launched' \in BOOLEAN /\ proc' = [p \in Process |-> Off]
  /\ UNCHANGED <<strict, tabled, schema, lock, demo, seeds, starts, died>>

Start(p) ==
  /\ proc[p].at \in {"off", "failed"} /\ starts < MaxStarts
  /\ p \in Worker => launched
  /\ \E f \in 1..2 : proc' = [proc EXCEPT ![p] = [Off EXCEPT !.at = "connecting", !.files = f]]
  /\ starts' = starts + 1
  /\ UNCHANGED <<strict, tabled, launched, schema, lock, demo, seeds, died>>

\* connectDb and connectRedis: a strict process insists on both servers.  The
\* others fall back to the embedded database, which is a directory of their
\* own: an API serves from it alone, a worker leaves it.
Connect(p) ==
  /\ At(p, "connecting")
  /\ \/ launched /\ Go(p, "preparing")
     \/ ~strict /\ Go(p, IF p \in Worker THEN "failed" ELSE "embedded")
     \/ strict /\ Go(p, "failed")
  /\ UNCHANGED <<strict, tabled, launched, schema, lock, demo, seeds, starts, died>>

-----------------------------------------------------------------------------
(* migrate: a transaction per file, guarded by the lock.  The schema is the *)
(* one in PostgreSQL, which the processes share.                           *)

\* CREATE TABLE IF NOT EXISTS schema_migrations takes no lock: it looks for
\* the table, and creates one that may have come to be there meanwhile, which
\* fails, and the start with it.
LookForTable(p) ==
  /\ At(p, "preparing")
  /\ Go(p, IF tabled THEN "migrating" ELSE "tabling")
  /\ UNCHANGED <<strict, tabled, launched, schema, lock, demo, seeds, starts, died>>

CreateTable(p) ==
  /\ At(p, "tabling")
  /\ tabled' = TRUE /\ Go(p, IF tabled THEN "failed" ELSE "migrating")
  /\ UNCHANGED <<strict, launched, schema, lock, demo, seeds, starts, died>>

\* Mutant: nothing keeps two processes apart.
TakeNoLock(p) ==
  /\ At(p, "migrating") /\ proc[p].next <= Migrations
  /\ Go(p, "reading")
  /\ UNCHANGED <<strict, tabled, launched, schema, lock, demo, seeds, starts, died>>

TakeLock(p) ==
  /\ At(p, "migrating") /\ proc[p].next <= Migrations
  /\ lock = NoOne
  /\ lock' = p /\ Go(p, "reading")
  /\ UNCHANGED <<strict, tabled, launched, schema, demo, seeds, starts, died>>

Release(p) == lock' = IF lock = p THEN NoOne ELSE lock

\* A file whose migration is there is skipped, and remembered if it differs.
Read(p) ==
  LET v == proc[p].next
  IN /\ At(p, "reading")
     /\ IF schema[v] = 0
        THEN Go(p, "applying") /\ UNCHANGED lock
        ELSE /\ proc' = [proc EXCEPT ![p].at = "migrating", ![p].next = v + 1,
                                     ![p].drift = @ \/ schema[v] # Content(p, v)]
             /\ Release(p)
     /\ UNCHANGED <<strict, tabled, launched, schema, demo, seeds, starts, died>>

\* The script and its row are committed together.
Apply(p) ==
  LET v == proc[p].next
  IN /\ At(p, "applying")
     /\ schema' = [schema EXCEPT ![v] = Content(p, v)]
     /\ proc' = [proc EXCEPT ![p].at = "migrating", ![p].next = v + 1]
     /\ Release(p)
     /\ UNCHANGED <<strict, tabled, launched, demo, seeds, starts, died>>

\* Mutant: the warning for everyone.
MayServeModified(p) == TRUE

\* A modified file is only warned of, unless the process is strict.
MayServe(p) == ~(strict /\ proc[p].drift)

\* After migrate an API goes on to the demo workspace, a command was started
\* for it, and a worker begins to work.
Migrated(p) ==
  /\ At(p, "migrating") /\ proc[p].next > Migrations
  /\ Go(p, IF ~MayServe(p) THEN "failed"
           ELSE IF p \in Worker THEN "up" ELSE "looking")
  /\ UNCHANGED <<strict, tabled, launched, schema, lock, demo, seeds, starts, died>>

-----------------------------------------------------------------------------
(* seedDemo: one statement after the other, without a transaction *)

Reset(p) == p \notin Api

\* An API leaves a workspace that exists as it is (or does not look, with
\* SEED_DEMO=false); the command may replace it, whole or not.
Look(p) ==
  /\ At(p, "looking")
  /\ \/ demo.id = 0 /\ Go(p, "creating") /\ UNCHANGED demo
     \/ (demo.id # 0 \/ p \in Api) /\ Go(p, "up") /\ UNCHANGED demo
     \/ demo.id # 0 /\ Reset(p) /\ Go(p, "creating") /\ demo' = [id |-> 0, done |-> 0]
  /\ UNCHANGED <<strict, tabled, launched, schema, lock, seeds, starts, died>>

\* Mutant: whoever comes second takes the workspace over.
CreateDemoOrJoin(p) ==
  /\ At(p, "creating")
  /\ seeds' = IF demo.id = 0 THEN seeds + 1 ELSE seeds
  /\ demo' = IF demo.id = 0 THEN [id |-> seeds + 1, done |-> 0] ELSE demo
  /\ proc' = [proc EXCEPT ![p].at = "seeding", ![p].org = seeds']
  /\ UNCHANGED <<strict, tabled, launched, schema, lock, starts, died>>

\* The slug is unique: the second of two is refused, and its start fails.
CreateDemo(p) ==
  /\ At(p, "creating")
  /\ \/ /\ demo.id = 0
        /\ seeds' = seeds + 1 /\ demo' = [id |-> seeds + 1, done |-> 0]
        /\ proc' = [proc EXCEPT ![p].at = "seeding", ![p].org = seeds + 1]
     \/ demo.id # 0 /\ Go(p, "failed") /\ UNCHANGED <<demo, seeds>>
  /\ UNCHANGED <<strict, tabled, launched, schema, lock, starts, died>>

\* Settings and opportunities, hypotheses and products, experiments, revenue,
\* leads and campaign, history and report: rows of one organization, which
\* are refused once a reset has deleted it.
SeedStage(p) ==
  /\ At(p, "seeding")
  /\ \/ /\ demo.id = proc[p].org /\ demo.done < Stages
        /\ demo' = [demo EXCEPT !.done = @ + 1] /\ UNCHANGED proc
     \/ demo.id # proc[p].org /\ Go(p, "failed") /\ UNCHANGED demo
  /\ UNCHANGED <<strict, tabled, launched, schema, lock, seeds, starts, died>>

Seeded(p) ==
  /\ At(p, "seeding") /\ demo = [id |-> proc[p].org, done |-> Stages]
  /\ Go(p, "up")
  /\ UNCHANGED <<strict, tabled, launched, schema, lock, demo, seeds, starts, died>>

\* A crash, an error of the database, or the launcher ending all services: an
\* open transaction is rolled back and its lock released.
Die(p) ==
  /\ proc[p].at \notin {"off", "failed"}
  /\ Go(p, "off") /\ Release(p)
  /\ died' = (died \/ proc[p].at # "up")
  /\ UNCHANGED <<strict, tabled, launched, schema, demo, seeds, starts>>

Next ==
  \/ Launch
  \/ \E p \in Process :
       \/ Start(p) \/ Connect(p) \/ LookForTable(p) \/ CreateTable(p)
       \/ TakeLock(p) \/ Read(p) \/ Apply(p) \/ Migrated(p)
       \/ Look(p) \/ CreateDemo(p) \/ SeedStage(p) \/ Seeded(p) \/ Die(p)

Spec == Init /\ [][Next]_startVars

-----------------------------------------------------------------------------

\* A process that serves finds every table its release knows, and a strict
\* one serves on no migration that differs from its own file, whoever applied
\* the files, in whichever order the processes came up and died.
ServesOnItsSchema ==
  \A p \in Process : At(p, "up") =>
    \A v \in Versions : schema[v] # 0 /\ (strict => schema[v] = Content(p, v))

\* The migrations in place are the first ones, without a gap, and no process
\* is in the middle of one that another has finished: "API and worker processes
\* starting simultaneously cannot both apply it".  (They can make each other
\* fail before the first of them, in CreateTable.)
MigrationsDoNotCollide ==
  /\ \A v \in 2..Migrations : schema[v] # 0 => schema[v - 1] # 0
  /\ \A p \in Process : At(p, "applying") => schema[proc[p].next] = 0

\* A demo workspace that lacks parts is being built by exactly one process,
\* unless a process has died while starting, which nobody makes good: two
\* first starts, or a start and a reset, never leave a mixture that nobody
\* completes.
DemoIsWhole ==
  /\ demo.id # 0 /\ demo.done < Stages /\ ~died
       => \E p \in Process : At(p, "seeding") /\ proc[p].org = demo.id
  /\ \A p, q \in Process : At(p, "seeding") /\ At(q, "seeding") /\ p # q
                             => proc[p].org # proc[q].org
=============================================================================
