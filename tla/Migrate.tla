------------------------------- MODULE Migrate -------------------------------
(***************************************************************************)
(* How commands find their database and its schema: config.Load,           *)
(* openRepository, fireline migrate, and commands that need the table.     *)
(* Each command is a process with an environment of its own.               *)
(*                                                                         *)
(* Goose is outside src/.  Provider.Up without a session locker, as both   *)
(* backends call it, makes sure that its version table exists (trying      *)
(* again when that fails), lists the versions applied, and runs the one    *)
(* migration, if pending, in a transaction that also records its version.  *)
(***************************************************************************)
EXTENDS Integers, FiniteSets

CONSTANTS
    Procs,          \* the commands that are run
    Envs,           \* the environments they may be run with
    Unset,          \* FIRELINE_STORAGE_BACKEND is not set
    MaxTries,       \* goose's retries of the creation of its version table
    None            \* no environment and no database yet

EnvType == [backend : STRING \cup {Unset}, postgresDSN : STRING, tursoDSN : STRING]

ASSUME EnvsAssumption == Envs \subseteq EnvType /\ None \notin Envs
ASSUME UnsetAssumption == Unset \notin STRING
ASSUME TriesAssumption == MaxTries \in Nat

VARIABLES
    procs,          \* the state of each command
    schema          \* what each database holds

vars == <<procs, schema>>

-----------------------------------------------------------------------------
(* The environment. *)

Backends == {"postgres", "turso"}

\* Mutant: an unset backend is the one whose DSN is set.
BackendByDSN(env) ==
    IF env.backend = Unset
    THEN IF env.tursoDSN # "" THEN "turso" ELSE "postgres"
    ELSE env.backend

\* getenvDefault: set to the empty text is not unset.
StorageBackend(env) == IF env.backend = Unset THEN "postgres" ELSE env.backend

LoadSucceeds(env) == StorageBackend(env) \in Backends

DSN(env) ==
    IF StorageBackend(env) = "postgres" THEN env.postgresDSN ELSE env.tursoDSN

\* A turso DSN of :memory: opens a database that only its process has.
Database(p, env) ==
    [backend |-> StorageBackend(env), dsn |-> DSN(env),
     owner |-> IF StorageBackend(env) = "turso" /\ DSN(env) = ":memory:"
               THEN p ELSE None]

Databases == {Database(p, env) : p \in Procs, env \in Envs}

-----------------------------------------------------------------------------

PCs == {"idle", "loaded", "opened", "creating", "listing", "pending", "applied"}
Ends == {"ok", "no_table", "conflict", "failed", "killed"}
Kinds == {"migrate", "use"}

\* versions: goose's table exists; table, index: those of the migration;
\* recorded: goose's table has the migration's version.
EmptySchema ==
    [versions |-> FALSE, table |-> FALSE, index |-> FALSE, recorded |-> FALSE]
MigratedSchema == [EmptySchema EXCEPT !.versions = TRUE, !.table = TRUE,
                                      !.index = TRUE, !.recorded = TRUE]

\* before is history: the commands that had exited 0 when this one started.
Init ==
    /\ procs = [p \in Procs |->
          [pc |-> "idle", kind |-> "use", env |-> None, db |-> None,
           tries |-> 0, before |-> {}]]
    /\ schema = [d \in Databases |-> EmptySchema]

Db(p) == schema[procs[p].db]
At(p, pc) == procs[p].pc = pc
Goto(p, pc) == procs' = [procs EXCEPT ![p].pc = pc]
Succeeded == {p \in Procs : procs[p].pc = "ok"}

\* The command starts: config.Load.
Load(p) ==
    /\ At(p, "idle")
    /\ \E kind \in Kinds, env \in Envs :
          procs' = [procs EXCEPT ![p] =
             [@ EXCEPT !.pc = IF LoadSucceeds(env) THEN "loaded" ELSE "failed",
                       !.kind = kind, !.env = env, !.before = Succeeded]]
    /\ UNCHANGED schema

\* openRepository: the backend's DSN is set and the database answers the ping.
Open(p) ==
    /\ At(p, "loaded")
    /\ DSN(procs[p].env) # ""
    /\ procs' = [procs EXCEPT ![p].pc = "opened",
                              ![p].db = Database(p, procs[p].env)]
    /\ UNCHANGED schema

OpenFails(p) ==
    /\ At(p, "loaded")
    /\ Goto(p, "failed")
    /\ UNCHANGED schema

\* A statement of a command that needs the observations table.
Use(p) ==
    /\ At(p, "opened") /\ procs[p].kind = "use"
    /\ Goto(p, IF Db(p).table THEN "ok" ELSE "no_table")
    /\ UNCHANGED schema

\* TableExists
CheckVersions(p) ==
    /\ At(p, "opened") /\ procs[p].kind = "migrate"
    /\ Goto(p, IF Db(p).versions THEN "listing" ELSE "creating")
    /\ UNCHANGED schema

\* A transaction: the version table and its row of version 0.
CreateVersions(p) ==
    /\ At(p, "creating") /\ ~Db(p).versions
    /\ schema' = [schema EXCEPT ![procs[p].db].versions = TRUE]
    /\ Goto(p, "listing")

\* Mutant: the retries have no end.
RetriesForever(p) ==
    /\ At(p, "creating")
    /\ Goto(p, "opened")
    /\ UNCHANGED schema

\* Another process has created it meanwhile, or the database fails: look again,
\* MaxTries times.
CreateVersionsFails(p) ==
    /\ At(p, "creating")
    /\ procs' = [procs EXCEPT
          ![p].pc = IF procs[p].tries < MaxTries THEN "opened" ELSE "failed",
          ![p].tries = IF @ < MaxTries THEN @ + 1 ELSE @]
    /\ UNCHANGED schema

\* Mutant: the versions applied are not looked up.
AssumePending(p) ==
    /\ At(p, "listing")
    /\ Goto(p, "pending")
    /\ UNCHANGED schema

\* ListMigrations
ListVersions(p) ==
    /\ At(p, "listing")
    /\ Goto(p, IF Db(p).recorded THEN "applied" ELSE "pending")
    /\ UNCHANGED schema

\* Mutant: the file is run outside of goose's transaction, statement by statement.
ApplyPiecemeal(p) ==
    /\ At(p, "pending") /\ ~Db(p).table
    /\ schema' = [schema EXCEPT ![procs[p].db].table = TRUE]
    /\ \E pc \in {"applied", "failed"} : Goto(p, pc)

\* One transaction: the table, its index and the version; the answer to the
\* commit may be lost.
Apply(p) ==
    /\ At(p, "pending") /\ ~Db(p).table
    /\ schema' = [schema EXCEPT ![procs[p].db] = MigratedSchema]
    /\ \E pc \in {"applied", "failed"} : Goto(p, pc)

\* CREATE TABLE without IF NOT EXISTS: the table is there already.
ApplyConflicts(p) ==
    /\ At(p, "pending") /\ Db(p).table
    /\ Goto(p, "conflict")
    /\ UNCHANGED schema

\* "migrations applied", exit 0.
Report(p) ==
    /\ At(p, "applied")
    /\ Goto(p, "ok")
    /\ UNCHANGED schema

\* The connection breaks; a transaction that was open is rolled back.
DatabaseFails(p) ==
    /\ procs[p].pc \in {"opened", "listing", "pending"}
    /\ Goto(p, "failed")
    /\ UNCHANGED schema

Kill(p) ==
    /\ procs[p].pc \in PCs \ {"idle"}
    /\ Goto(p, "killed")
    /\ UNCHANGED schema

\* What a command does once it has started.
Step(p) ==
    \/ Open(p) \/ OpenFails(p) \/ Use(p)
    \/ CheckVersions(p) \/ CreateVersions(p) \/ CreateVersionsFails(p)
    \/ ListVersions(p) \/ Apply(p) \/ ApplyConflicts(p) \/ Report(p)
    \/ DatabaseFails(p)

Next == \E p \in Procs : Load(p) \/ Step(p) \/ Kill(p)

Spec == Init /\ [][Next]_vars
FairSpec == Spec /\ \A p \in Procs : WF_vars(Step(p))

-----------------------------------------------------------------------------
(* Properties. *)

\* Whatever runs at once, fails or is killed, a database has the whole migration
\* and goose knows it, or has nothing of it (migrations/*/00001, goose's
\* transaction): no state needs repair by hand.
AllOrNothing ==
    \A d \in Databases :
        schema[d].table = schema[d].recorded /\ schema[d].index = schema[d].recorded

\* The backend and DSN that README.md:48-52 says an environment names.
Named(env) ==
    IF env.backend \in {Unset, "postgres"}
    THEN <<"postgres", env.postgresDSN>> ELSE <<env.backend, env.tursoDSN>>

Migrations(p) ==
    {q \in procs[p].before : /\ procs[q].kind = "migrate"
                             /\ Named(procs[q].env) = Named(procs[p].env)}

\* A command run after a migrate that exited 0 with the same backend and DSN
\* finds the table (README.md:57-72: migrate, then import).
MigratedIsUsable ==
    \A p \in Procs : At(p, "no_table") => Migrations(p) = {}

\* "migrate" may be run again (TestMigrateCmd_Idempotent): a run that began after
\* another of its backend and DSN had exited 0 never finds the table in its way,
\* and one that does leaves the schema complete.
ConflictsOnlyInRaces ==
    \A p \in Procs : At(p, "conflict") =>
        Migrations(p) = {} /\ Db(p) = MigratedSchema

\* Every command comes to an end, however often the database fails.
CommandsEnd == \A p \in Procs : ~At(p, "idle") ~> procs[p].pc \in Ends
=============================================================================
