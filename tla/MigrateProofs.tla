---------------------------- MODULE MigrateProofs ----------------------------
(***************************************************************************)
(* Proofs about Migrate, for any number of commands and any environments.  *)
(***************************************************************************)
EXTENDS Migrate, TLAPS

\* What the steps keep, of a database and of a command.
SchemaType == [versions : BOOLEAN, table : BOOLEAN, index : BOOLEAN, recorded : BOOLEAN]
ProcType == [pc : PCs \cup Ends, kind : Kinds, env : Envs \cup {None},
             db : Databases \cup {None}, tries : Nat, before : SUBSET Procs]

TypeOK == procs \in [Procs -> ProcType] /\ schema \in [Databases -> SchemaType]

VersionsFirst == \A d \in Databases : schema[d].recorded => schema[d].versions

WithDatabase == {"opened", "creating", "listing", "pending", "applied",
                 "ok", "no_table", "conflict"}

\* A command past its opening works on the database its environment names.
OnItsDatabase ==
    \A p \in Procs :
        /\ procs[p].pc \in WithDatabase \cup {"loaded"}
              => procs[p].env \in Envs /\ LoadSucceeds(procs[p].env)
        /\ procs[p].pc \in WithDatabase => procs[p].db = Database(p, procs[p].env)

\* A migrate that has the migration applied is right about it.
AppliedIsRecorded ==
    \A p \in Procs :
        \/ procs[p].pc = "applied"
        \/ procs[p].pc = "ok" /\ procs[p].kind = "migrate"
        => schema[procs[p].db].recorded

MigrateInv ==
    /\ TypeOK /\ AllOrNothing /\ VersionsFirst
    /\ OnItsDatabase /\ AppliedIsRecorded

-----------------------------------------------------------------------------

LEMMA MigrateInvInit == Init => MigrateInv
<1> SUFFICES ASSUME Init PROVE MigrateInv
  OBVIOUS
<1>1. TypeOK
  <2>1. EmptySchema \in SchemaType
    BY DEF EmptySchema, SchemaType
  <2>2. [pc |-> "idle", kind |-> "use", env |-> None, db |-> None,
         tries |-> 0, before |-> {}] \in ProcType
    BY DEF ProcType, PCs, Kinds
  <2> QED
    BY <2>1, <2>2 DEF Init, TypeOK
<1>2. AllOrNothing /\ VersionsFirst
  BY DEF Init, AllOrNothing, VersionsFirst, EmptySchema
<1>3. OnItsDatabase /\ AppliedIsRecorded
  BY DEF Init, OnItsDatabase, AppliedIsRecorded, WithDatabase
<1> QED
  BY <1>1, <1>2, <1>3 DEF MigrateInv

\* The rest of a step that leaves every database alone: what its command knows.
LEMMA CommandMoves ==
    ASSUME MigrateInv, NEW p \in Procs, NEW r \in ProcType, UNCHANGED schema,
           procs' = [procs EXCEPT ![p] = r],
           r.pc \in WithDatabase \cup {"loaded"}
              => r.env \in Envs /\ LoadSucceeds(r.env),
           r.pc \in WithDatabase => r.db = Database(p, r.env),
           r.pc = "applied" \/ (r.pc = "ok" /\ r.kind = "migrate")
              => schema[r.db].recorded
    PROVE  MigrateInv'
<1>1. TypeOK'
  BY DEF MigrateInv, TypeOK
<1>2. AllOrNothing' /\ VersionsFirst'
  BY DEF MigrateInv, AllOrNothing, VersionsFirst
<1>3. OnItsDatabase'
  BY DEF MigrateInv, TypeOK, OnItsDatabase
<1>4. AppliedIsRecorded'
  BY DEF MigrateInv, TypeOK, AppliedIsRecorded
<1> QED
  BY <1>1, <1>2, <1>3, <1>4 DEF MigrateInv

\* A step whose command goes on to pc and changes nothing else.
LEMMA CommandGoes ==
    ASSUME MigrateInv, NEW p \in Procs, NEW pc \in PCs \cup Ends, Goto(p, pc),
           UNCHANGED schema,
           pc \in WithDatabase => procs[p].pc \in WithDatabase,
           pc = "loaded" => procs[p].pc = "loaded",
           pc = "applied" \/ (pc = "ok" /\ procs[p].kind = "migrate")
              => schema[procs[p].db].recorded
    PROVE  MigrateInv'
<1> DEFINE r == [procs[p] EXCEPT !.pc = pc]
<1>1. procs[p] \in ProcType
  BY DEF MigrateInv, TypeOK
<1>2. /\ r \in ProcType /\ r.pc = pc /\ r.env = procs[p].env /\ r.db = procs[p].db
      /\ r.kind = procs[p].kind
  BY <1>1 DEF ProcType
<1>3. procs' = [procs EXCEPT ![p] = r]
  BY DEF Goto
<1>4. /\ pc \in WithDatabase \cup {"loaded"}
            => procs[p].env \in Envs /\ LoadSucceeds(procs[p].env)
      /\ pc \in WithDatabase => procs[p].db = Database(p, procs[p].env)
  BY DEF MigrateInv, OnItsDatabase
<1> HIDE DEF r
<1> QED
  BY <1>2, <1>3, <1>4, CommandMoves

LEMMA OpenedDatabase ==
    ASSUME MigrateInv, NEW p \in Procs, procs[p].pc \in WithDatabase
    PROVE  procs[p].db \in Databases
  BY DEF MigrateInv, OnItsDatabase, Databases

\* A step that writes the database of its command, which gains what it lacked.
LEMMA SchemaGrows ==
    ASSUME MigrateInv, NEW p \in Procs, procs[p].pc \in WithDatabase,
           NEW pc \in PCs \cup Ends, Goto(p, pc), NEW s \in SchemaType,
           schema' = [schema EXCEPT ![procs[p].db] = s],
           s.table = s.recorded, s.index = s.recorded, s.recorded => s.versions,
           schema[procs[p].db].recorded => s.recorded,
           pc # "loaded", pc # "ok", pc = "applied" => s.recorded
    PROVE  MigrateInv'
<1>1. procs[p].db \in Databases
  BY OpenedDatabase
<1>2. procs' \in [Procs -> ProcType]
  BY DEF MigrateInv, TypeOK, ProcType, Goto
<1>3. \A q \in Procs : /\ procs'[q].pc = IF q = p THEN pc ELSE procs[q].pc
                       /\ procs'[q].env = procs[q].env
                       /\ procs'[q].db = procs[q].db
                       /\ procs'[q].kind = procs[q].kind
  BY DEF MigrateInv, TypeOK, ProcType, Goto
<1>4. \A d \in Databases : schema'[d] = IF d = procs[p].db THEN s ELSE schema[d]
  BY DEF MigrateInv, TypeOK
<1>5. TypeOK'
  BY <1>1, <1>2 DEF MigrateInv, TypeOK
<1>6. AllOrNothing' /\ VersionsFirst'
  BY <1>4 DEF MigrateInv, AllOrNothing, VersionsFirst
<1>7. OnItsDatabase'
  BY <1>3 DEF MigrateInv, OnItsDatabase
<1>8. AppliedIsRecorded'
  <2> SUFFICES ASSUME NEW q \in Procs,
                      \/ procs'[q].pc = "applied"
                      \/ procs'[q].pc = "ok" /\ procs'[q].kind = "migrate"
               PROVE  schema'[procs'[q].db].recorded
    BY DEF AppliedIsRecorded
  <2>1. CASE q = p
    BY <1>1, <1>3, <1>4, <2>1
  <2>2. CASE q # p
    <3>1. procs[q].pc \in WithDatabase
      BY <1>3, <2>2 DEF WithDatabase
    <3>2. procs[q].db \in Databases
      BY <3>1, OpenedDatabase
    <3>3. schema[procs[q].db].recorded
      BY <1>3, <2>2 DEF MigrateInv, AppliedIsRecorded
    <3> QED
      BY <1>3, <1>4, <3>2, <3>3
  <2> QED
    BY <2>1, <2>2
<1> QED
  BY <1>5, <1>6, <1>7, <1>8 DEF MigrateInv

LEMMA MigrateInvLoad ==
    ASSUME MigrateInv, NEW p \in Procs, Load(p)
    PROVE  MigrateInv'
<1>1. PICK kind \in Kinds, env \in Envs :
        procs' = [procs EXCEPT ![p] =
           [@ EXCEPT !.pc = IF LoadSucceeds(env) THEN "loaded" ELSE "failed",
                     !.kind = kind, !.env = env, !.before = Succeeded]]
  BY DEF Load
<1> DEFINE r == [procs[p] EXCEPT !.pc = IF LoadSucceeds(env) THEN "loaded" ELSE "failed",
                                 !.kind = kind, !.env = env, !.before = Succeeded]
<1>2. procs[p] \in ProcType /\ Succeeded \subseteq Procs
  BY DEF MigrateInv, TypeOK, Succeeded
<1>3. /\ r \in ProcType /\ r.env = env
      /\ r.pc = IF LoadSucceeds(env) THEN "loaded" ELSE "failed"
  BY <1>2 DEF ProcType, PCs, Ends
<1>4. procs' = [procs EXCEPT ![p] = r]
  BY <1>1
<1>5. UNCHANGED schema
  BY DEF Load
<1> HIDE DEF r
<1> QED
  BY <1>3, <1>4, <1>5, CommandMoves DEF WithDatabase

LEMMA MigrateInvOpen ==
    ASSUME MigrateInv, NEW p \in Procs, Open(p)
    PROVE  MigrateInv'
<1> DEFINE r == [procs[p] EXCEPT !.pc = "opened", !.db = Database(p, procs[p].env)]
<1>1. procs[p] \in ProcType /\ procs[p].env \in Envs /\ LoadSucceeds(procs[p].env)
  BY DEF Open, At, MigrateInv, TypeOK, OnItsDatabase
<1>2. Database(p, procs[p].env) \in Databases
  BY <1>1 DEF Databases
<1>3. /\ r \in ProcType /\ r.env = procs[p].env /\ r.pc = "opened"
      /\ r.db = Database(p, procs[p].env)
  BY <1>1, <1>2 DEF ProcType, PCs
<1>4. procs' = [procs EXCEPT ![p] = r] /\ UNCHANGED schema
  BY DEF Open
<1> HIDE DEF r
<1> QED
  BY <1>1, <1>3, <1>4, CommandMoves

LEMMA MigrateInvRetry ==
    ASSUME MigrateInv, NEW p \in Procs, CreateVersionsFails(p)
    PROVE  MigrateInv'
<1> DEFINE pc == IF procs[p].tries < MaxTries THEN "opened" ELSE "failed"
           tries == IF procs[p].tries < MaxTries THEN procs[p].tries + 1
                                                 ELSE procs[p].tries
           r == [procs[p] EXCEPT !.pc = pc, !.tries = tries]
<1>1. procs[p] \in ProcType /\ procs[p].pc = "creating" /\ UNCHANGED schema
  BY DEF MigrateInv, TypeOK, CreateVersionsFails, At
<1>2. pc \in {"opened", "failed"} /\ tries \in Nat
  BY <1>1 DEF ProcType
<1>3. procs' = [procs EXCEPT ![p] = r]
  BY DEF CreateVersionsFails
<1> HIDE DEF pc, tries
<1>4. r \in ProcType /\ r.pc = pc /\ r.env = procs[p].env /\ r.db = procs[p].db
  BY <1>1, <1>2 DEF ProcType, PCs, Ends
<1>5. /\ procs[p].env \in Envs /\ LoadSucceeds(procs[p].env)
      /\ procs[p].db = Database(p, procs[p].env)
  BY <1>1 DEF MigrateInv, OnItsDatabase, WithDatabase
<1> HIDE DEF r
<1> QED
  BY <1>1, <1>2, <1>3, <1>4, <1>5, CommandMoves DEF WithDatabase

LEMMA MigrateInvNext == MigrateInv /\ [Next]_vars => MigrateInv'
<1> SUFFICES ASSUME MigrateInv, [Next]_vars PROVE MigrateInv'
  OBVIOUS
<1> USE DEF PCs, Ends, WithDatabase, At
<1>1. CASE UNCHANGED vars
  BY <1>1 DEF vars, MigrateInv, TypeOK, AllOrNothing, VersionsFirst, OnItsDatabase,
     AppliedIsRecorded
<1>2. ASSUME NEW p \in Procs, Load(p) \/ Step(p) \/ Kill(p)
      PROVE  MigrateInv'
  <2>1. CASE Load(p)
    BY <2>1, MigrateInvLoad
  <2>2. CASE Open(p)
    BY <2>2, MigrateInvOpen
  <2>3. CASE OpenFails(p) \/ DatabaseFails(p)
    BY <2>3, CommandGoes DEF OpenFails, DatabaseFails
  <2>4. CASE Use(p)
    BY <2>4, CommandGoes DEF Use
  <2>5. CASE CheckVersions(p)
    BY <2>5, CommandGoes DEF CheckVersions
  <2>6. CASE CreateVersions(p)
    <3> DEFINE s == [schema[procs[p].db] EXCEPT !.versions = TRUE]
    <3>1. procs[p].pc \in WithDatabase /\ procs[p].db \in Databases
      BY <2>6, OpenedDatabase DEF CreateVersions
    <3>2. schema[procs[p].db] \in SchemaType
      BY <3>1 DEF MigrateInv, TypeOK
    <3>3. /\ s \in SchemaType /\ s.versions
          /\ s.table = schema[procs[p].db].table /\ s.index = schema[procs[p].db].index
          /\ s.recorded = schema[procs[p].db].recorded
      BY <3>2 DEF SchemaType
    <3>4. s.table = s.recorded /\ s.index = s.recorded
      BY <3>1, <3>3 DEF MigrateInv, AllOrNothing
    <3>5. schema' = [schema EXCEPT ![procs[p].db] = s] /\ Goto(p, "listing")
      BY <2>6 DEF CreateVersions
    <3>6. /\ s.recorded => s.versions
          /\ schema[procs[p].db].recorded => s.recorded
      BY <3>3
    <3>7. "listing" \in PCs \cup Ends
      OBVIOUS
    <3> HIDE DEF s
    <3> QED
      BY <3>1, <3>3, <3>4, <3>5, <3>6, <3>7, SchemaGrows
  <2>7. CASE CreateVersionsFails(p)
    BY <2>7, MigrateInvRetry
  <2>8. CASE ListVersions(p)
    BY <2>8, CommandGoes DEF ListVersions, Db
  <2>9. CASE Apply(p)
    <3>1. /\ MigratedSchema \in SchemaType /\ MigratedSchema.versions
          /\ MigratedSchema.table = TRUE /\ MigratedSchema.index = TRUE
          /\ MigratedSchema.recorded = TRUE
      BY DEF MigratedSchema, EmptySchema, SchemaType
    <3>2. PICK pc \in {"applied", "failed"} : Goto(p, pc)
      BY <2>9 DEF Apply
    <3>3. /\ procs[p].pc \in WithDatabase
          /\ schema' = [schema EXCEPT ![procs[p].db] = MigratedSchema]
      BY <2>9 DEF Apply
    <3> QED
      BY <3>1, <3>2, <3>3, SchemaGrows
  <2>10. CASE ApplyConflicts(p)
    BY <2>10, CommandGoes DEF ApplyConflicts
  <2>11. CASE Report(p)
    <3>1. schema[procs[p].db].recorded
      BY <2>11 DEF Report, MigrateInv, AppliedIsRecorded
    <3> QED
      BY <2>11, <3>1, CommandGoes DEF Report
  <2>12. CASE Kill(p)
    BY <2>12, CommandGoes DEF Kill
  <2> QED
    BY <1>2, <2>1, <2>2, <2>3, <2>4, <2>5, <2>6, <2>7, <2>8, <2>9, <2>10, <2>11, <2>12
       DEF Step
<1> QED
  BY <1>1, <1>2 DEF Next

\* However many commands run at once, fail or are killed, and whatever their
\* environments, a database has the whole migration on record or nothing of it
\* (migrations/*/00001_create_observations.sql in goose's transaction).
THEOREM MigrationIsAtomic == Spec => []AllOrNothing
<1>1. MigrateInv => AllOrNothing
  BY DEF MigrateInv
<1> QED
  BY <1>1, MigrateInvInit, MigrateInvNext, PTL DEF Spec

-----------------------------------------------------------------------------
(* With databases that outlive their process. *)

DatabasesStay == \A env \in Envs : env.tursoDSN # ":memory:"

BeforeEnded == \A p \in Procs : \A q \in procs[p].before : procs[q].pc = "ok"

\* A command that found the migration pending, in its way or missing started
\* before any migrate of its database had exited 0.
NoneBefore ==
    \A p \in Procs :
        procs[p].pc \in {"pending", "conflict", "no_table"} => Migrations(p) = {}

ConflictIsComplete ==
    \A p \in Procs : procs[p].pc = "conflict" => Db(p) = MigratedSchema

RaceInv == MigrateInv /\ BeforeEnded /\ NoneBefore /\ ConflictIsComplete

LEMMA NamedIsDatabase ==
    ASSUME DatabasesStay, NEW p, NEW q, NEW d \in Envs, NEW e \in Envs,
           LoadSucceeds(d), LoadSucceeds(e), Named(d) = Named(e)
    PROVE  Database(p, d) = Database(q, e)
<1>1. StorageBackend(d) = StorageBackend(e)
  BY DEF Named, StorageBackend, LoadSucceeds, Backends
<1>2. DSN(d) = DSN(e)
  BY <1>1 DEF Named, DSN, StorageBackend, LoadSucceeds, Backends
<1>3. ASSUME NEW f \in Envs, LoadSucceeds(f), StorageBackend(f) = "turso"
      PROVE  DSN(f) # ":memory:"
  BY <1>3 DEF DatabasesStay, DSN
<1> QED
  BY <1>1, <1>2, <1>3, Zenon DEF Database

\* What a migrate has finished, later commands find.
LEMMA FinishedIsFound ==
    ASSUME DatabasesStay, RaceInv, NEW p \in Procs, procs[p].pc \in WithDatabase,
           NEW q \in Migrations(p)
    PROVE  Db(p).recorded /\ Db(p).table
<1>1. /\ q \in Procs /\ procs[q].pc = "ok" /\ procs[q].kind = "migrate"
      /\ Named(procs[q].env) = Named(procs[p].env)
  BY DEF Migrations, RaceInv, BeforeEnded, MigrateInv, TypeOK, ProcType
<1>2. /\ procs[p].env \in Envs /\ LoadSucceeds(procs[p].env)
      /\ procs[p].db = Database(p, procs[p].env)
      /\ procs[q].env \in Envs /\ LoadSucceeds(procs[q].env)
      /\ procs[q].db = Database(q, procs[q].env)
  BY <1>1 DEF RaceInv, MigrateInv, OnItsDatabase, WithDatabase
<1>3. procs[p].db = procs[q].db
  BY <1>1, <1>2, NamedIsDatabase
<1>4. schema[procs[q].db].recorded
  BY <1>1 DEF RaceInv, MigrateInv, AppliedIsRecorded
<1>5. procs[p].db \in Databases
  BY OpenedDatabase DEF RaceInv
<1> QED
  BY <1>3, <1>4, <1>5 DEF Db, RaceInv, MigrateInv, AllOrNothing

\* A step by which nobody starts: p goes on to pc, databases change only to
\* become complete.
LEMMA HistoryStays ==
    ASSUME RaceInv, NEW p \in Procs, NEW pc, procs[p].pc # "ok",
           \A q \in Procs : /\ procs'[q].pc = IF q = p THEN pc ELSE procs[q].pc
                            /\ procs'[q].kind = procs[q].kind
                            /\ procs'[q].env = procs[q].env
                            /\ procs'[q].before = procs[q].before
                            /\ q = p \/ procs'[q].db = procs[q].db,
           pc \in {"pending", "conflict", "no_table"} => Migrations(p) = {},
           \A d \in Databases : schema[d] = MigratedSchema => schema'[d] = MigratedSchema,
           pc = "conflict" => Db(p)' = MigratedSchema
    PROVE  BeforeEnded' /\ NoneBefore' /\ ConflictIsComplete'
<1>1. \A q \in Procs : procs[q].before \subseteq Procs
  BY DEF RaceInv, MigrateInv, TypeOK, ProcType
<1>2. BeforeEnded'
  BY <1>1 DEF BeforeEnded, RaceInv
<1>3. NoneBefore'
  <2> SUFFICES ASSUME NEW q \in Procs,
                      procs'[q].pc \in {"pending", "conflict", "no_table"}
               PROVE  Migrations(q)' = {}
    BY DEF NoneBefore
  <2>1. Migrations(q)' = {x \in procs'[q].before :
           procs'[x].kind = "migrate" /\ Named(procs'[x].env) = Named(procs'[q].env)}
    BY DEF Migrations, Named
  <2>2. Migrations(q)' = Migrations(q)
    BY <1>1, <2>1 DEF Migrations
  <2>3. Migrations(q) = {}
    BY DEF RaceInv, NoneBefore
  <2> QED
    BY <2>2, <2>3
<1>4. ConflictIsComplete'
  <2> SUFFICES ASSUME NEW q \in Procs, procs'[q].pc = "conflict"
               PROVE  Db(q)' = MigratedSchema
    BY DEF ConflictIsComplete, MigratedSchema, EmptySchema
  <2>1. CASE q = p
    BY <2>1
  <2>2. CASE q # p
    <3>1. procs[q].pc = "conflict" /\ procs'[q].db = procs[q].db
      BY <2>2
    <3>2. procs[q].db \in Databases
      BY <3>1, OpenedDatabase DEF RaceInv, WithDatabase
    <3>3. Db(q) = MigratedSchema
      BY <3>1 DEF RaceInv, ConflictIsComplete
    <3> QED
      BY <3>1, <3>2, <3>3 DEF Db
  <2> QED
    BY <2>1, <2>2
<1> QED
  BY <1>2, <1>3, <1>4

LEMMA RaceInvInit == Init => RaceInv
<1> SUFFICES ASSUME Init PROVE RaceInv
  OBVIOUS
<1>1. BeforeEnded /\ NoneBefore /\ ConflictIsComplete
  BY DEF Init, BeforeEnded, NoneBefore, ConflictIsComplete
<1> QED
  BY <1>1, MigrateInvInit DEF RaceInv

\* The steps that leave every database alone.
LEMMA HistoryOfMove ==
    ASSUME RaceInv, NEW p \in Procs, NEW pc, Goto(p, pc), UNCHANGED schema,
           procs[p].pc # "ok",
           pc \in {"pending", "conflict", "no_table"} => Migrations(p) = {},
           pc = "conflict" => Db(p) = MigratedSchema
    PROVE  BeforeEnded' /\ NoneBefore' /\ ConflictIsComplete'
<1>1. \A q \in Procs : /\ procs'[q].pc = IF q = p THEN pc ELSE procs[q].pc
                       /\ procs'[q].kind = procs[q].kind
                       /\ procs'[q].env = procs[q].env
                       /\ procs'[q].before = procs[q].before
                       /\ procs'[q].db = procs[q].db
  BY DEF Goto, RaceInv, MigrateInv, TypeOK, ProcType
<1>2. Db(p)' = Db(p)
  BY <1>1 DEF Db
<1> QED
  BY <1>1, <1>2, HistoryStays

\* A command that starts has a history of its own and is in nobody else's.
LEMMA HistoryOfLoad ==
    ASSUME RaceInv, NEW p \in Procs, Load(p)
    PROVE  BeforeEnded' /\ NoneBefore' /\ ConflictIsComplete'
<1>1. procs[p].pc = "idle" /\ UNCHANGED schema
  BY DEF Load, At
<1>2. /\ procs'[p].pc \in {"loaded", "failed"} /\ procs'[p].before = Succeeded
      /\ \A q \in Procs : q # p => procs'[q] = procs[q]
  BY DEF Load, RaceInv, MigrateInv, TypeOK, ProcType
<1>3. \A q \in Procs : procs[q].before \subseteq Procs
  BY DEF RaceInv, MigrateInv, TypeOK, ProcType
<1>4. \A q \in Procs : p \notin procs[q].before
  BY <1>1 DEF RaceInv, BeforeEnded
<1>5. BeforeEnded'
  <2> SUFFICES ASSUME NEW x \in Procs, NEW q \in procs'[x].before
               PROVE  procs'[q].pc = "ok"
    BY DEF BeforeEnded
  <2>1. CASE x = p
    BY <1>1, <1>2, <2>1 DEF Succeeded
  <2>2. CASE x # p
    BY <1>2, <1>3, <1>4, <2>2 DEF RaceInv, BeforeEnded
  <2> QED
    BY <2>1, <2>2
<1>6. NoneBefore'
  <2> SUFFICES ASSUME NEW q \in Procs,
                      procs'[q].pc \in {"pending", "conflict", "no_table"}
               PROVE  Migrations(q)' = {}
    BY DEF NoneBefore
  <2>1. Migrations(q)' = {x \in procs'[q].before :
           procs'[x].kind = "migrate" /\ Named(procs'[x].env) = Named(procs'[q].env)}
    BY DEF Migrations, Named
  <2>2. q # p /\ procs'[q] = procs[q]
    BY <1>2
  <2>3. Migrations(q)' = Migrations(q)
    BY <1>2, <1>3, <1>4, <2>1, <2>2 DEF Migrations
  <2>4. Migrations(q) = {}
    BY <2>2 DEF RaceInv, NoneBefore
  <2> QED
    BY <2>3, <2>4
<1>7. ConflictIsComplete'
  BY <1>1, <1>2 DEF RaceInv, ConflictIsComplete, Db, MigratedSchema, EmptySchema
<1> QED
  BY <1>5, <1>6, <1>7

LEMMA RaceInvNext == DatabasesStay /\ RaceInv /\ [Next]_vars => RaceInv'
<1> SUFFICES ASSUME DatabasesStay, RaceInv, [Next]_vars PROVE RaceInv'
  OBVIOUS
<1>1. MigrateInv'
  BY MigrateInvNext DEF RaceInv
<1> USE DEF At
<1>2. CASE UNCHANGED vars
  <2>1. BeforeEnded' /\ ConflictIsComplete'
    BY <1>2 DEF vars, RaceInv, BeforeEnded, ConflictIsComplete, Db, MigratedSchema,
       EmptySchema
  <2>2. NoneBefore'
    BY <1>2 DEF vars, RaceInv, NoneBefore, Migrations, Named
  <2> QED
    BY <1>1, <2>1, <2>2 DEF RaceInv
<1>3. ASSUME NEW p \in Procs, Load(p) \/ Step(p) \/ Kill(p)
      PROVE  BeforeEnded' /\ NoneBefore' /\ ConflictIsComplete'
  <2>1. CASE Load(p)
    BY <2>1, HistoryOfLoad
  <2>2. CASE Open(p)
    <3> DEFINE r == [procs[p] EXCEPT !.pc = "opened", !.db = Database(p, procs[p].env)]
    <3>0. /\ procs' = [procs EXCEPT ![p] = r]
          /\ r.pc = "opened" /\ r.kind = procs[p].kind /\ r.env = procs[p].env
          /\ r.before = procs[p].before
      <4>1. procs \in [Procs -> ProcType] /\ procs[p] \in ProcType
        BY DEF RaceInv, MigrateInv, TypeOK
      <4>2. procs' = [procs EXCEPT ![p] = [@ EXCEPT !.pc = "opened",
                                                    !.db = Database(p, procs[p].env)]]
        BY <2>2 DEF Open
      <4>3. procs' = [procs EXCEPT ![p] = r]
        BY <4>2, Zenon
      <4>4. /\ r.pc = "opened" /\ r.kind = procs[p].kind /\ r.env = procs[p].env
            /\ r.before = procs[p].before
        BY <4>1 DEF ProcType
      <4> QED
        BY <4>3, <4>4
    <3> HIDE DEF r
    <3>1. \A q \in Procs : /\ procs'[q].pc = IF q = p THEN "opened" ELSE procs[q].pc
                           /\ procs'[q].kind = procs[q].kind
                           /\ procs'[q].env = procs[q].env
                           /\ procs'[q].before = procs[q].before
      BY <3>0 DEF RaceInv, MigrateInv, TypeOK
    <3>2. \A q \in Procs : q = p \/ procs'[q].db = procs[q].db
      BY <2>2 DEF Open, RaceInv, MigrateInv, TypeOK
    <3>3. /\ procs[p].pc # "ok"
          /\ \A d \in Databases :
                schema[d] = MigratedSchema => schema'[d] = MigratedSchema
      BY <2>2 DEF Open
    <3> QED
      BY <3>1, <3>2, <3>3, HistoryStays
  <2>3. CASE CreateVersionsFails(p)
    <3> DEFINE pc == IF procs[p].tries < MaxTries THEN "opened" ELSE "failed"
    <3>1. \A q \in Procs : /\ procs'[q].pc = IF q = p THEN pc ELSE procs[q].pc
                           /\ procs'[q].kind = procs[q].kind
                           /\ procs'[q].env = procs[q].env
                           /\ procs'[q].before = procs[q].before
                           /\ procs'[q].db = procs[q].db
      BY <2>3 DEF CreateVersionsFails, RaceInv, MigrateInv, TypeOK, ProcType
    <3>2. pc \in {"opened", "failed"}
      OBVIOUS
    <3>3. /\ procs[p].pc # "ok"
          /\ \A d \in Databases :
                schema[d] = MigratedSchema => schema'[d] = MigratedSchema
      BY <2>3 DEF CreateVersionsFails
    <3> HIDE DEF pc
    <3> QED
      BY <3>1, <3>2, <3>3, HistoryStays
  <2>4. CASE OpenFails(p) \/ DatabaseFails(p) \/ Kill(p) \/ CheckVersions(p) \/ Report(p)
    <3>1. PICK pc \in {"failed", "killed", "listing", "creating", "ok"} : Goto(p, pc)
      BY <2>4 DEF OpenFails, DatabaseFails, Kill, CheckVersions, Report
    <3>2. procs[p].pc # "ok" /\ UNCHANGED schema
      BY <2>4 DEF OpenFails, DatabaseFails, Kill, CheckVersions, Report, PCs
    <3> QED
      BY <3>1, <3>2, HistoryOfMove
  <2>5. CASE Use(p)
    <3>1. ~Db(p).table => Migrations(p) = {}
      BY <2>5, FinishedIsFound DEF Use, WithDatabase
    <3> QED
      BY <2>5, <3>1, HistoryOfMove DEF Use
  <2>6. CASE ListVersions(p)
    <3>1. ~Db(p).recorded => Migrations(p) = {}
      BY <2>6, FinishedIsFound DEF ListVersions, WithDatabase
    <3> QED
      BY <2>6, <3>1, HistoryOfMove DEF ListVersions
  <2>7. CASE ApplyConflicts(p)
    <3>1. Migrations(p) = {}
      BY <2>7 DEF ApplyConflicts, RaceInv, NoneBefore
    <3>2. procs[p].db \in Databases /\ Db(p).table
      BY <2>7, OpenedDatabase DEF ApplyConflicts, RaceInv, WithDatabase
    <3>3. /\ Db(p) \in SchemaType
          /\ Db(p).versions /\ Db(p).index /\ Db(p).recorded
      BY <3>2 DEF Db, RaceInv, MigrateInv, TypeOK, AllOrNothing, VersionsFirst
    <3>4. Db(p) = MigratedSchema
      BY <3>2, <3>3 DEF SchemaType, MigratedSchema, EmptySchema
    <3> QED
      BY <2>7, <3>1, <3>4, HistoryOfMove DEF ApplyConflicts
  <2>8. CASE CreateVersions(p) \/ Apply(p)
    <3>1. PICK pc \in {"listing", "applied", "failed"} : Goto(p, pc)
      BY <2>8 DEF CreateVersions, Apply
    <3>2. procs[p].pc # "ok" /\ procs[p].db \in Databases
      BY <2>8, OpenedDatabase DEF CreateVersions, Apply, RaceInv, WithDatabase
    <3>3. \A q \in Procs : /\ procs'[q].pc = IF q = p THEN pc ELSE procs[q].pc
                           /\ procs'[q].kind = procs[q].kind
                           /\ procs'[q].env = procs[q].env
                           /\ procs'[q].before = procs[q].before
                           /\ procs'[q].db = procs[q].db
      BY <3>1 DEF Goto, RaceInv, MigrateInv, TypeOK, ProcType
    <3>4. ASSUME NEW d \in Databases, schema[d] = MigratedSchema
          PROVE  schema'[d] = MigratedSchema
      <4>1. MigratedSchema.versions /\ MigratedSchema.table
        BY DEF MigratedSchema, EmptySchema
      <4>2. CASE CreateVersions(p)
        BY <3>4, <4>1, <4>2 DEF CreateVersions, Db, RaceInv, MigrateInv, TypeOK
      <4>3. CASE Apply(p)
        BY <3>4, <4>1, <4>3 DEF Apply, Db, RaceInv, MigrateInv, TypeOK
      <4> QED
        BY <2>8, <4>2, <4>3
    <3> QED
      BY <3>1, <3>2, <3>3, <3>4, HistoryStays
  <2> QED
    BY <1>3, <2>1, <2>2, <2>3, <2>4, <2>5, <2>6, <2>7, <2>8 DEF Step
<1> QED
  BY <1>1, <1>2, <1>3 DEF Next, RaceInv

\* Where no DSN is :memory:, a command started after a migrate of its database
\* has exited 0 finds the table, for any number of commands and environments
\* (README.md:57-72).
THEOREM MigratedIsFound ==
    ASSUME DatabasesStay
    PROVE  Spec => []MigratedIsUsable
<1>1. RaceInv => MigratedIsUsable
  BY DEF RaceInv, NoneBefore, MigratedIsUsable, At
<1>2. RaceInv /\ [Next]_vars => RaceInv'
  BY RaceInvNext
<1> QED
  BY <1>1, <1>2, RaceInvInit, PTL DEF Spec

\* There, migrate fails on a table that is in its way only when it raced a first
\* migrate, and then leaves the schema complete (TestMigrateCmd_Idempotent).
THEOREM ConflictIsARace ==
    ASSUME DatabasesStay
    PROVE  Spec => []ConflictsOnlyInRaces
<1>1. RaceInv => ConflictsOnlyInRaces
  BY DEF RaceInv, NoneBefore, ConflictIsComplete, ConflictsOnlyInRaces, At
<1>2. RaceInv /\ [Next]_vars => RaceInv'
  BY RaceInvNext
<1> QED
  BY <1>1, <1>2, RaceInvInit, PTL DEF Spec
=============================================================================
