---------------------------- MODULE SystemProofs ----------------------------
(***************************************************************************)
(* Proofs about System for every value of its constants: the imports and   *)
(* the table, who holds the server's repository handle, and what           *)
(* GET /observations/{id} answers.                                         *)
(***************************************************************************)
EXTENDS System, TLAPS

\* Truncating to microseconds gives an instant no later than the original.
LEMMA StoredTimeBound ==
    ASSUME NEW t \in Nat
    PROVE  StoredTime(t) \in Nat /\ StoredTime(t) <= t
<1>1. Micro \in Nat /\ Micro > 0
  BY ClockAssumption
<1>2. t % Micro \in Nat /\ t % Micro <= t
  BY <1>1, SMT
<1> QED
  BY <1>2, SMT DEF StoredTime

LEMMA StoredType ==
    ASSUME NEW o \in ObservationType
    PROVE  /\ Stored(o) \in ObservationType
           /\ Stored(o).id = o.id
           /\ Stored(o).ingestedAt <= o.ingestedAt
<1>1. StoredTime(None) = None
  BY DEF StoredTime
<1>2. StoredTime(o.claim.observedAt) \in Nat \cup {None}
  BY <1>1, StoredTimeBound DEF ObservationType, ClaimType
<1>3. StoredTime(o.ingestedAt) \in Nat /\ StoredTime(o.ingestedAt) <= o.ingestedAt
  BY StoredTimeBound DEF ObservationType
<1>4. StoredPayload(o.claim.payload) \in Payloads
  BY PayloadsAssumption DEF StoredPayload, ObservationType, ClaimType
<1> QED
  BY <1>2, <1>3, <1>4 DEF Stored, ObservationType, ClaimType

-----------------------------------------------------------------------------
(* Imports and the table. *)

\* The inductive invariant behind the import properties: each of its conjuncts
\* needs the others.
ImportInv ==
    /\ StoreTypeOK /\ ImportTypeOK
    /\ BuiltObservations
    /\ RowsComeFromRuns
    /\ AcknowledgedIsStored
    /\ ReadBackFindsRow

USE NoObsAssumption

\* An evaluation or a server step reads the table and the imports, no more.
LEMMA ReadersReadOnly ==
    ASSUME EvalNext \/ ServeNext
    PROVE  UNCHANGED <<storeVars, importVars>>
<1>1. CASE EvalNext
  BY <1>1 DEF EvalNext, EvalStep, EvaluateRejected, StartEvaluate,
              EvaluateListFails, ListAndReport
<1>2. CASE ServeNext
  <2>1. CASE CommandStep \/ ServeReturns \/ Cancel \/ KillServer \/ Restart
    BY <2>1 DEF CommandStep, LoadAndCompile, OpenRepository, Listen,
                BeginShutdown, ServeReturns, CloseRepository, Exit,
                Cancel, KillServer, Restart
  <2>2. ASSUME NEW q \in Requests, Accept(q) \/ Handle(q) \/ Disconnect(q)
        PROVE  UNCHANGED <<storeVars, importVars>>
    BY <2>2 DEF Accept, Receive, ReceiveBad, Handle, HandlerStep, QueryFails,
                HandleList, ListForCrossings, EvaluateCrossings, HandleGet,
                Disconnect, Respond, Update
  <2> QED
    BY <1>2, <2>1, <2>2 DEF ServeNext
<1> QED
  BY <1>1, <1>2

LEMMA ImportInvInit == Init => ImportInv
<1> SUFFICES ASSUME Init PROVE ImportInv
  OBVIOUS
<1> USE DEF Init, StoreInit, ImportInit
<1>1. StoreTypeOK
  <2>1. now \in 0..MaxNow
    BY MaxNowAssumption
  <2>2. migrated \in BOOLEAN /\ rows \in SUBSET ObservationType
    BY Zenon
  <2> QED
    BY <2>1, <2>2 DEF StoreTypeOK
<1>2. ImportTypeOK
  BY DEF ImportTypeOK, ImportPCs
<1>3. BuiltObservations
  BY DEF BuiltObservations
<1>4. RowsComeFromRuns
  BY DEF RowsComeFromRuns
<1>5. AcknowledgedIsStored /\ ReadBackFindsRow
  BY DEF AcknowledgedIsStored, Acknowledged, ReadBackFindsRow
<1> QED
  BY <1>1, <1>2, <1>3, <1>4, <1>5 DEF ImportInv

LEMMA BuildInv ==
    ASSUME ImportInv, NEW i \in Ids, Build(i)
    PROVE  ImportInv'
<1> USE DEF ImportInv
<1>1. PICK claim \in Claims :
         /\ Validate(claim)
         /\ imports' = [imports EXCEPT ![i].pc = "built",
                                       ![i].obs = NewObservation(i, claim, now)]
  BY DEF Build
<1>2. UNCHANGED storeVars /\ imports[i].pc = "start"
  BY DEF Build
<1> DEFINE obs == NewObservation(i, claim, now)
<1>3. obs \in ObservationType /\ obs.id = i /\ obs.claim = claim
      /\ obs.ingestedAt = now /\ obs # NoObs
  BY ClaimsAssumption DEF NewObservation, ComputeFingerprint, ObservationType,
     ClaimType, StoreTypeOK
<1>4. StoreTypeOK'
  BY <1>2 DEF StoreTypeOK, storeVars
<1>5. ImportTypeOK'
  BY <1>1, <1>3 DEF ImportTypeOK, ImportPCs
<1>6. BuiltObservations'
  BY <1>1, <1>2, <1>3 DEF BuiltObservations, ImportTypeOK, storeVars, StoreTypeOK
<1>7. RowsComeFromRuns'
  <2> SUFFICES ASSUME NEW row \in rows
               PROVE  /\ HasWritten(row.id)'
                      /\ imports'[row.id].obs # NoObs
                      /\ row = Stored(imports'[row.id].obs)
    BY <1>2 DEF RowsComeFromRuns, storeVars
  <2>1. row.id \in Ids
    BY DEF StoreTypeOK, ObservationType
  <2>2. row.id # i
    BY <1>2 DEF RowsComeFromRuns, HasWritten
  <2>3. imports'[row.id] = imports[row.id]
    BY <1>1, <2>1, <2>2 DEF ImportTypeOK
  <2> QED
    BY <2>3 DEF RowsComeFromRuns, HasWritten
<1>8. AcknowledgedIsStored' /\ ReadBackFindsRow'
  BY <1>1, <1>2 DEF AcknowledgedIsStored, Acknowledged, ReadBackFindsRow,
     ImportTypeOK, storeVars
<1> QED
  BY <1>4, <1>5, <1>6, <1>7, <1>8

\* A step of run i that only moves its control state, with its row there when it
\* is past its insert and never once it has none.
LEMMA ControlInv ==
    ASSUME ImportInv, NEW i \in Ids, NEW pc \in ImportPCs \ {"ok", "inserted"},
           Goto(i, pc), UNCHANGED storeVars,
           HasWritten(i) => pc \in {"failed", "killed"},
           pc \in {"built", "open", "lost"} => imports[i].obs # NoObs
    PROVE  ImportInv'
<1> USE DEF ImportInv
<1>1. imports' = [imports EXCEPT ![i].pc = pc]
  BY DEF Goto
<1>2. /\ imports' \in [Ids -> [pc : ImportPCs,
                               obs : ObservationType \cup {NoObs},
                               printed : ObservationType \cup {NoObs}]]
      /\ \A j \in Ids : /\ imports'[j].obs = imports[j].obs
                        /\ imports'[j].printed = imports[j].printed
                        /\ j # i => imports'[j].pc = imports[j].pc
      /\ imports'[i].pc = pc
  BY <1>1 DEF ImportTypeOK
<1>3. StoreTypeOK' /\ ImportTypeOK'
  BY <1>2 DEF StoreTypeOK, storeVars, ImportTypeOK
<1>4. BuiltObservations'
  BY <1>2 DEF BuiltObservations, storeVars
<1>5. RowsComeFromRuns'
  <2> SUFFICES ASSUME NEW row \in rows
               PROVE  /\ HasWritten(row.id)'
                      /\ imports'[row.id].obs # NoObs
                      /\ row = Stored(imports'[row.id].obs)
    BY DEF RowsComeFromRuns, storeVars
  <2>1. row.id \in Ids
    BY DEF StoreTypeOK, ObservationType
  <2> QED
    BY <1>2, <2>1 DEF RowsComeFromRuns, HasWritten
<1>6. AcknowledgedIsStored' /\ ReadBackFindsRow'
  BY <1>2 DEF AcknowledgedIsStored, Acknowledged, ReadBackFindsRow, storeVars
<1> QED
  BY <1>3, <1>4, <1>5, <1>6

\* A run that has not yet stored its observation carries it under its own id.
LEMMA BuiltUnderOwnId ==
    ASSUME ImportInv, NEW i \in Ids, imports[i].pc \in {"open", "lost"}
    PROVE  imports[i].obs \in ObservationType /\ imports[i].obs.id = i
<1>1. imports[i].obs # NoObs /\ imports[i].obs \in ObservationType
  BY DEF ImportInv, BuiltObservations, ImportTypeOK
<1>2. imports[i].obs
        = NewObservation(i, imports[i].obs.claim, imports[i].obs.ingestedAt)
  BY <1>1 DEF ImportInv, BuiltObservations
<1>3. NewObservation(i, imports[i].obs.claim, imports[i].obs.ingestedAt).id = i
  BY DEF NewObservation
<1> QED
  BY <1>1, <1>2, <1>3

\* A step of run i that stores the row of what it built.
LEMMA RowInv ==
    ASSUME ImportInv, NEW i \in Ids, imports[i].pc \in {"open", "lost"},
           NEW pc \in {"inserted", "failed"}, Goto(i, pc),
           rows' = WithRow(imports[i].obs), UNCHANGED <<now, migrated>>
    PROVE  ImportInv'
<1> USE DEF ImportInv
<1>1. imports' = [imports EXCEPT ![i].pc = pc]
  BY DEF Goto
<1>2. /\ imports' \in [Ids -> [pc : ImportPCs,
                               obs : ObservationType \cup {NoObs},
                               printed : ObservationType \cup {NoObs}]]
      /\ \A j \in Ids : /\ imports'[j].obs = imports[j].obs
                        /\ imports'[j].printed = imports[j].printed
                        /\ j # i => imports'[j].pc = imports[j].pc
      /\ imports'[i].pc = pc
  BY <1>1 DEF ImportTypeOK, ImportPCs
<1>3. imports[i].obs \in ObservationType /\ imports[i].obs.id = i
  BY BuiltUnderOwnId
<1>4. Stored(imports[i].obs) \in ObservationType /\ Stored(imports[i].obs).id = i
  BY <1>3, StoredType
<1>5. rows' = rows \cup {Stored(imports[i].obs)}
  BY DEF WithRow
<1>6. StoreTypeOK' /\ ImportTypeOK'
  BY <1>2, <1>4, <1>5 DEF StoreTypeOK, ImportTypeOK
<1>7. BuiltObservations'
  BY <1>2 DEF BuiltObservations
<1>8. RowsComeFromRuns'
  <2> SUFFICES ASSUME NEW row \in rows'
               PROVE  /\ HasWritten(row.id)'
                      /\ imports'[row.id].obs # NoObs
                      /\ row = Stored(imports'[row.id].obs)
    BY DEF RowsComeFromRuns
  <2>1. CASE row \in rows
    <3>1. row.id \in Ids
      BY <2>1 DEF StoreTypeOK, ObservationType
    <3> QED
      BY <1>2, <2>1, <3>1 DEF RowsComeFromRuns, HasWritten
  <2>2. CASE row = Stored(imports[i].obs)
    BY <1>2, <1>3, <1>4, <2>2 DEF HasWritten
  <2> QED
    BY <1>5, <2>1, <2>2
<1>9. AcknowledgedIsStored' /\ ReadBackFindsRow'
  BY <1>2, <1>5 DEF AcknowledgedIsStored, Acknowledged, ReadBackFindsRow
<1> QED
  BY <1>6, <1>7, <1>8, <1>9

\* The primary key: the row Get finds is the one the run stored.
LEMMA RowOfRun ==
    ASSUME ImportInv, NEW i, HasRow(i)
    PROVE  RowOf(i) \in rows /\ RowOf(i).id = i /\ RowOf(i) = Stored(imports[i].obs)
<1>1. RowOf(i) \in rows /\ RowOf(i).id = i
  BY DEF HasRow, RowOf
<1> QED
  BY <1>1 DEF ImportInv, RowsComeFromRuns

LEMMA ReadBackInv ==
    ASSUME ImportInv, NEW i \in Ids, ReadBack(i)
    PROVE  ImportInv'
<1> USE DEF ImportInv
<1>1. /\ imports[i].pc = "inserted"
      /\ HasRow(i)
      /\ imports' = [imports EXCEPT ![i].pc = "ok", ![i].printed = RowOf(i)]
      /\ UNCHANGED storeVars
  BY DEF ReadBack
<1>2. RowOf(i) \in rows /\ RowOf(i) = Stored(imports[i].obs)
  BY <1>1, RowOfRun
<1>3. RowOf(i) \in ObservationType
  BY <1>2 DEF StoreTypeOK
<1>4. /\ imports' \in [Ids -> [pc : ImportPCs,
                               obs : ObservationType \cup {NoObs},
                               printed : ObservationType \cup {NoObs}]]
      /\ \A j \in Ids : /\ imports'[j].obs = imports[j].obs
                        /\ j # i => imports'[j] = imports[j]
      /\ imports'[i].pc = "ok" /\ imports'[i].printed = RowOf(i)
  BY <1>1, <1>3 DEF ImportTypeOK, ImportPCs
<1>5. StoreTypeOK' /\ ImportTypeOK'
  BY <1>1, <1>4 DEF StoreTypeOK, storeVars, ImportTypeOK
<1>6. BuiltObservations'
  BY <1>1, <1>4 DEF BuiltObservations, storeVars
<1>7. RowsComeFromRuns'
  <2> SUFFICES ASSUME NEW row \in rows
               PROVE  /\ HasWritten(row.id)'
                      /\ imports'[row.id].obs # NoObs
                      /\ row = Stored(imports'[row.id].obs)
    BY <1>1 DEF RowsComeFromRuns, storeVars
  <2>1. row.id \in Ids
    BY DEF StoreTypeOK, ObservationType
  <2> QED
    BY <1>4, <2>1 DEF RowsComeFromRuns, HasWritten
<1>8. AcknowledgedIsStored'
  BY <1>1, <1>2, <1>4 DEF AcknowledgedIsStored, Acknowledged, storeVars
<1>9. ReadBackFindsRow'
  BY <1>1, <1>4 DEF ReadBackFindsRow, storeVars
<1> QED
  BY <1>5, <1>6, <1>7, <1>8, <1>9

LEMMA ImportNextInv ==
    ASSUME ImportInv, ImportNext
    PROVE  ImportInv'
<1>1. PICK i \in Ids : ImportStep(i) \/ CommitLate(i) \/ KillImport(i)
  BY DEF ImportNext
<1> USE DEF HasWritten
<1>2. CASE ImportRejected(i)
  BY <1>2, ControlInv DEF ImportRejected, ImportPCs
<1>3. CASE Build(i)
  BY <1>3, BuildInv
<1>4. CASE OpenImport(i)
  BY <1>4, ControlInv DEF OpenImport, ImportPCs, ImportInv, BuiltObservations
<1>5. CASE OpenImportFails(i)
  BY <1>5, ControlInv DEF OpenImportFails, ImportPCs
<1>6. CASE Insert(i)
  BY <1>6, RowInv DEF Insert
<1>7. CASE InsertFails(i)
  BY <1>7, ControlInv DEF InsertFails, ImportPCs, ImportInv, BuiltObservations
<1>8. CASE ReadBack(i)
  BY <1>8, ReadBackInv
<1>9. CASE ReadBackFails(i)
  BY <1>9, ControlInv DEF ReadBackFails, ImportPCs
<1>10. CASE CommitLate(i)
  BY <1>10, RowInv DEF CommitLate
<1>11. CASE KillImport(i)
  BY <1>11, ControlInv DEF KillImport, ImportPCs
<1> QED
  BY <1>1, <1>2, <1>3, <1>4, <1>5, <1>6, <1>7, <1>8, <1>9, <1>10, <1>11
     DEF ImportStep

LEMMA ImportInvNext == ImportInv /\ [Next]_vars => ImportInv'
<1> SUFFICES ASSUME ImportInv, [Next]_vars PROVE ImportInv'
  OBVIOUS
<1>1. CASE (Tick \/ Migrate) /\ UNCHANGED importVars
  <2>1. now' \in 0..MaxNow /\ now <= now' /\ migrated' \in BOOLEAN
        /\ rows' = rows /\ imports' = imports
    <3>1. CASE Tick
      BY <1>1, <3>1, MaxNowAssumption DEF Tick, ImportInv, StoreTypeOK, importVars
    <3>2. CASE Migrate
      BY <1>1, <3>2 DEF Migrate, ImportInv, StoreTypeOK, importVars
    <3> QED
      BY <1>1, <3>1, <3>2
  <2>2. StoreTypeOK' /\ ImportTypeOK'
    BY <2>1 DEF ImportInv, StoreTypeOK, ImportTypeOK
  <2>3. BuiltObservations'
    <3> SUFFICES ASSUME NEW i \in Ids, imports[i].obs # NoObs
                 PROVE  imports[i].obs.ingestedAt <= now'
      BY <2>1 DEF ImportInv, BuiltObservations
    <3>1. imports[i].obs.ingestedAt \in Nat /\ imports[i].obs.ingestedAt <= now
      BY DEF ImportInv, ImportTypeOK, BuiltObservations, ObservationType
    <3> QED
      BY <2>1, <3>1, MaxNowAssumption DEF ImportInv, StoreTypeOK
  <2> QED
    BY <2>1, <2>2, <2>3 DEF ImportInv, RowsComeFromRuns, HasWritten,
       AcknowledgedIsStored, Acknowledged, ReadBackFindsRow
<1>3. CASE ImportNext
  BY <1>3, ImportNextInv
<1>4. CASE UNCHANGED <<storeVars, importVars>>
  BY <1>4 DEF ImportInv, StoreTypeOK, ImportTypeOK, BuiltObservations,
     RowsComeFromRuns, HasWritten, AcknowledgedIsStored, Acknowledged,
     ReadBackFindsRow, storeVars, importVars
<1> QED
  BY <1>1, <1>3, <1>4, ReadersReadOnly DEF Next, vars

LEMMA ImportInvAlways == Spec => []ImportInv
<1>1. Init => ImportInv
  BY ImportInvInit
<1>2. ImportInv /\ [Next]_vars => ImportInv'
  BY ImportInvNext
<1> QED
  BY <1>1, <1>2, PTL DEF Spec

\* What an import run carries is a valid observation under its own id, built at or
\* before now, however many runs work at once (observation.go:53-74).
THEOREM ObservationsAreBuilt == Spec => []BuiltObservations
<1>1. ImportInv => BuiltObservations
  BY DEF ImportInv
<1> QED
  BY <1>1, ImportInvAlways, PTL

\* Every row of the table is the stored form of the observation that exactly one
\* import run built, however many runs, files and readers there are and wherever
\* the runs fail or are killed (importcmd.go:59-84).
THEOREM RowsTraceable == Spec => []RowsComeFromRuns
<1>1. ImportInv => RowsComeFromRuns
  BY DEF ImportInv
<1> QED
  BY <1>1, ImportInvAlways, PTL

\* An import that exits 0 has printed a row that is in the table then and ever
\* after (importcmd.go:40-41).
THEOREM AcknowledgedRowsStored == Spec => []AcknowledgedIsStored
<1>1. ImportInv => AcknowledgedIsStored
  BY DEF ImportInv
<1> QED
  BY <1>1, ImportInvAlways, PTL

\* A run past its insert always finds its row: the read-back of import cannot
\* answer that there is none (importcmd.go:86-89).
THEOREM ReadBackIsFound == Spec => []ReadBackFindsRow
<1>1. ImportInv => ReadBackFindsRow
  BY DEF ImportInv
<1> QED
  BY <1>1, ImportInvAlways, PTL

-----------------------------------------------------------------------------
(* The table is append-only. *)

\* The rows of run i, before and after a step.
RowsOf(i) == {row \in rows : row.id = i}

\* Storing the row of run j changes the rows of run j alone, which had none.
LEMMA RowAdded ==
    ASSUME ImportInv, NEW j \in Ids, imports[j].pc \in {"open", "lost"},
           rows' = WithRow(imports[j].obs), NEW i \in Ids
    PROVE  \/ RowsOf(i)' = RowsOf(i)
           \/ RowsOf(i) = {} /\ imports[i].pc \in {"open", "lost"}
<1>1. imports[j].obs \in ObservationType /\ imports[j].obs.id = j
  BY BuiltUnderOwnId
<1>2. Stored(imports[j].obs).id = j
  BY <1>1, StoredType
<1>3. CASE i = j
  BY <1>3 DEF ImportInv, RowsComeFromRuns, HasWritten, RowsOf
<1>4. CASE i # j
  BY <1>2, <1>4 DEF RowsOf, WithRow
<1> QED
  BY <1>3, <1>4

\* Only Insert and the late commit of a lost one write the table.
LEMMA OnlyInsertsWrite ==
    ASSUME [Next]_vars
    PROVE  \/ rows' = rows
           \/ \E j \in Ids : /\ imports[j].pc \in {"open", "lost"}
                             /\ rows' = WithRow(imports[j].obs)
<1>1. CASE Tick \/ Migrate
  BY <1>1 DEF Tick, Migrate
<1>2. CASE ImportNext
  <2>1. PICK j \in Ids : ImportStep(j) \/ CommitLate(j) \/ KillImport(j)
    BY <1>2 DEF ImportNext
  <2>2. CASE Insert(j) \/ CommitLate(j)
    BY <2>2 DEF Insert, CommitLate
  <2>3. CASE \/ ImportRejected(j) \/ Build(j) \/ OpenImport(j)
             \/ OpenImportFails(j) \/ InsertFails(j) \/ ReadBack(j)
             \/ ReadBackFails(j) \/ KillImport(j)
    BY <2>3 DEF ImportRejected, Build, OpenImport, OpenImportFails, InsertFails,
       ReadBack, ReadBackFails, KillImport, storeVars
  <2> QED
    BY <2>1, <2>2, <2>3 DEF ImportStep
<1>3. CASE EvalNext \/ ServeNext
  BY <1>3, ReadersReadOnly DEF storeVars
<1>4. CASE UNCHANGED vars
  BY <1>4 DEF vars, storeVars
<1> QED
  BY <1>1, <1>2, <1>3, <1>4 DEF Next

\* No step of any process changes or removes a row, or adds one for a run that
\* already has one.
THEOREM RowsNeverChange == Spec => RowsImmutable
<1> DEFINE AddRow == \A i \in Ids :
             LET before == {row \in rows : row.id = i}
                 after == {row \in rows' : row.id = i}
             IN  \/ after = before
                 \/ before = {} /\ imports[i].pc \in {"open", "lost"}
<1>1. ImportInv /\ [Next]_vars => [AddRow]_vars
  <2> SUFFICES ASSUME ImportInv, [Next]_vars PROVE AddRow
    OBVIOUS
  <2>1. CASE rows' = rows
    BY <2>1
  <2>2. CASE \E j \in Ids : /\ imports[j].pc \in {"open", "lost"}
                            /\ rows' = WithRow(imports[j].obs)
    BY <2>2, RowAdded DEF RowsOf
  <2> QED
    BY <2>1, <2>2, OnlyInsertsWrite
<1> QED
  BY <1>1, ImportInvAlways, PTL DEF Spec, RowsImmutable

-----------------------------------------------------------------------------
(* The command, its engine and its handle. *)

\* The handle is open in exactly three control states, and every state after
\* LoadAndCompile has a compiled Fireline.
HandleInv ==
    /\ ServeTypeOK
    /\ repoOpen \in BOOLEAN
    /\ engine # NoFireline => engine \in ServedFirelines /\ Compiles(engine)
    /\ Running => engine # NoFireline
    /\ repoOpen <=> command.pc \in {"opened", "serving", "returned"}

\* Everything but the command leaves the command, its engine and its handle.
LEMMA OthersLeaveServer ==
    ASSUME Next, ~CommandStep, ~ServeReturns, ~Cancel, ~KillServer, ~Restart
    PROVE  UNCHANGED <<command, engine, repoOpen>>
<1>1. CASE UNCHANGED <<apiVars, command>>
  BY <1>1 DEF apiVars
<1>2. CASE ServeNext
  <2>1. PICK q \in Requests : Accept(q) \/ Handle(q) \/ Disconnect(q)
    BY <1>2 DEF ServeNext
  <2> QED
    BY <2>1 DEF Accept, Receive, ReceiveBad, Handle, HandlerStep, QueryFails,
                HandleList, ListForCrossings, EvaluateCrossings, HandleGet,
                Disconnect, Respond, Update
<1> QED
  BY <1>1, <1>2 DEF Next

\* A step of the command, from its start to its exit, a kill and a new start.
LEMMA CommandInv ==
    ASSUME HandleInv,
           CommandStep \/ ServeReturns \/ Cancel \/ KillServer \/ Restart
    PROVE  HandleInv'
<1> USE DEF HandleInv, ServeTypeOK, CommandPCs, Running
<1>1. CASE LoadAndCompile
  <2>1. command.pc = "down"
    BY <1>1 DEF LoadAndCompile
  <2>2. PICK f \in ServedFirelines :
          IF Compiles(f)
          THEN /\ engine' = f
               /\ command' = [command EXCEPT !.pc = "compiled"]
               /\ UNCHANGED repoOpen
          ELSE Fail
    BY <1>1 DEF LoadAndCompile
  <2>3. f # NoFireline
    BY ServedAssumption, FirelinesAssumption
  <2>4. CASE Compiles(f)
    BY <2>1, <2>2, <2>3, <2>4
  <2>5. CASE ~Compiles(f)
    BY <2>2, <2>5 DEF Fail
  <2> QED
    BY <2>4, <2>5
<1>2. CASE OpenRepository
  BY <1>2 DEF OpenRepository, Fail
<1>3. CASE Listen
  BY <1>3 DEF Listen, Fail
<1>4. CASE BeginShutdown \/ ServeReturns \/ Cancel
  <2>1. UNCHANGED <<engine, repoOpen>>
    BY <1>4 DEF BeginShutdown, ServeReturns, Cancel, apiVars
  <2>2. CASE BeginShutdown
    BY <2>1, <2>2 DEF BeginShutdown
  <2>3. CASE ServeReturns
    BY <2>1, <2>3 DEF ServeReturns
  <2>4. CASE Cancel
    BY <2>1, <2>4 DEF Cancel
  <2> QED
    BY <1>4, <2>2, <2>3, <2>4
<1>5. CASE CloseRepository
  BY <1>5 DEF CloseRepository
<1>6. CASE Exit \/ KillServer
  <2>1. engine' = NoFireline /\ command' = [command EXCEPT !.pc = "exited"]
    BY <1>6 DEF Exit, KillServer
  <2>2. repoOpen' = FALSE
    <3>1. CASE Exit
      <4>1. command.pc = "closed" /\ repoOpen' = repoOpen
        BY <3>1 DEF Exit
      <4>2. repoOpen = FALSE
        BY <4>1
      <4> QED
        BY <4>1, <4>2
    <3>2. CASE KillServer
      BY <3>2, Zenon DEF KillServer
    <3> QED
      BY <1>6, <3>1, <3>2
  <2> QED
    BY <2>1, <2>2
<1>7. CASE Restart
  BY <1>7 DEF Restart, apiVars
<1> QED
  BY <1>1, <1>2, <1>3, <1>4, <1>5, <1>6, <1>7 DEF CommandStep

LEMMA HandleInvInit == Init => HandleInv
<1> SUFFICES ASSUME Init PROVE HandleInv
  OBVIOUS
<1>1. /\ command = [pc |-> "down", cancelled |-> FALSE, shutdown |-> FALSE]
      /\ engine = NoFireline
  BY DEF Init, ServeInit, ApiInit
<1>2. ~repoOpen /\ repoOpen \in BOOLEAN
  BY DEF Init, ApiInit
<1> QED
  BY <1>1, <1>2 DEF HandleInv, ServeTypeOK, CommandPCs, Running

LEMMA HandleInvNext == HandleInv /\ [Next]_vars => HandleInv'
<1> SUFFICES ASSUME HandleInv, [Next]_vars PROVE HandleInv'
  OBVIOUS
<1>1. CASE CommandStep \/ ServeReturns \/ Cancel \/ KillServer \/ Restart
  BY <1>1, CommandInv
<1>2. CASE UNCHANGED <<command, engine, repoOpen>>
  BY <1>2 DEF HandleInv, ServeTypeOK, Running
<1>3. UNCHANGED vars => UNCHANGED <<command, engine, repoOpen>>
  BY DEF vars, apiVars
<1> QED
  BY <1>1, <1>2, <1>3, OthersLeaveServer

\* Whatever the order of failures, cancellations, kills and restarts: a Fireline
\* that does not compile is never served, the handle is open only in the process
\* that opened it, and every way out of the command closes it (serve.go:24-46).
THEOREM HandleIsOwned == Spec => []HandleOwned
<1>1. HandleInv => HandleOwned
  BY DEF HandleInv, HandleOwned, Running
<1> QED
  BY <1>1, HandleInvInit, HandleInvNext, PTL DEF Spec

-----------------------------------------------------------------------------
(* GET /observations/{id}, against the imports that run beside it. *)

\* A request is a record of the fields of IdleRequest.
RequestFields == {"pc", "kind", "limit", "id", "engine", "status", "page", "asOf",
                  "crossings", "acked", "answered", "arrived"}
IsRequest(r) == r = [field \in RequestFields |-> r[field]]

\* What a request of route get has been answered with, for a client that relies
\* on what was acknowledged before it came; only crossings have two steps.
GoodAnswer(r) ==
    /\ r.pc = "listed" => r.kind = "crossings"
    /\ (r.pc = "done" /\ r.kind = "get" /\ r.id \in r.acked) =>
          \/ r.status = 500
          \/ r.status = 200 /\ r.page = <<imports[r.id].printed>>

GetInv ==
    /\ requests = [q \in Requests |-> requests[q]]
    /\ \A q \in Requests :
          /\ IsRequest(requests[q])
          /\ requests[q].acked \subseteq Acknowledged
          /\ GoodAnswer(requests[q])

\* An acknowledgement is for ever: a run that exited 0 stays so, with what it
\* printed.
LEMMA AcknowledgedStay ==
    ASSUME ImportInv, [Next]_vars, NEW i \in Acknowledged
    PROVE  i \in Acknowledged' /\ imports'[i].printed = imports[i].printed
<1>1. i \in Ids /\ imports[i].pc = "ok"
  BY DEF Acknowledged
<1>2. CASE UNCHANGED imports
  BY <1>1, <1>2 DEF Acknowledged
<1>3. CASE ImportNext
  <2>1. PICK j \in Ids : ImportStep(j) \/ CommitLate(j) \/ KillImport(j)
    BY <1>3 DEF ImportNext
  <2>2. imports[j].pc # "ok"
    BY <2>1 DEF ImportStep, ImportRejected, Build, OpenImport, OpenImportFails,
       Insert, InsertFails, ReadBack, ReadBackFails, CommitLate, KillImport
  <2>3. imports'[i] = imports[i]
    BY <1>1, <2>1, <2>2 DEF ImportInv, ImportTypeOK, ImportStep, ImportRejected,
       Build, OpenImport, OpenImportFails, Insert, InsertFails, ReadBack,
       ReadBackFails, CommitLate, KillImport, Goto
  <2> QED
    BY <1>1, <2>3 DEF Acknowledged
<1> QED
  BY <1>2, <1>3, ReadersReadOnly DEF Next, vars, importVars

\* The row Get finds for an acknowledged id is the row its import printed.
LEMMA GetFindsPrinted ==
    ASSUME ImportInv, NEW i \in Acknowledged
    PROVE  HasRow(i) /\ RowOf(i) = imports[i].printed
<1>1. i \in Ids /\ imports[i].pc = "ok"
  BY DEF Acknowledged
<1>2. imports[i].printed \in rows /\ imports[i].printed = Stored(imports[i].obs)
  BY DEF ImportInv, AcknowledgedIsStored
<1>3. imports[i].obs \in ObservationType /\ imports[i].obs.id = i
  <2>1. imports[i].obs # NoObs /\ imports[i].obs \in ObservationType
    BY <1>1 DEF ImportInv, BuiltObservations, ImportTypeOK
  <2>2. imports[i].obs
          = NewObservation(i, imports[i].obs.claim, imports[i].obs.ingestedAt)
    BY <1>1, <2>1 DEF ImportInv, BuiltObservations
  <2> QED
    BY <2>1, <2>2 DEF NewObservation
<1>4. imports[i].printed.id = i
  BY <1>2, <1>3, StoredType
<1> QED
  BY <1>2, <1>4, RowOfRun DEF HasRow

LEMMA GetInvInit == Init => GetInv
<1> SUFFICES ASSUME Init PROVE GetInv
  OBVIOUS
<1>1. requests = [q \in Requests |-> IdleRequest]
  BY DEF Init, ApiInit
<1>2. IsRequest(IdleRequest)
  BY DEF IsRequest, RequestFields, IdleRequest
<1>3. IdleRequest.acked = {} /\ IdleRequest.pc = "idle"
  BY DEF IdleRequest
<1> QED
  BY <1>1, <1>2, <1>3 DEF GetInv, GoodAnswer

\* Request r answered without a page.
AnsweredWith(r, status) == [r EXCEPT !.pc = "done", !.status = status]

LEMMA AnsweredForm ==
    ASSUME NEW r, IsRequest(r), NEW status
    PROVE  LET s == AnsweredWith(r, status)
           IN  /\ IsRequest(s) /\ s.pc = "done" /\ s.status = status
               /\ s.kind = r.kind /\ s.id = r.id /\ s.acked = r.acked
  BY DEF AnsweredWith, IsRequest, RequestFields

-----------------------------------------------------------------------------
(* What one step of the system may do to one request r, which becomes s. *)

SameAsk(r, s) ==
    /\ s.kind = r.kind /\ s.limit = r.limit /\ s.id = r.id /\ s.engine = r.engine
    /\ s.acked = r.acked /\ s.answered = r.answered

\* It comes in: with what parseLimit or uuid.Parse accepts, or for a 400.
Arrives(r, s) ==
    /\ command.pc = "serving" /\ r.pc = "idle"
    /\ s.kind \in Routes /\ s.engine = engine
    /\ s.acked = Acknowledged /\ s.answered = Answered
    /\ s.page = r.page /\ s.asOf = r.asOf
    /\ \/ /\ s.pc = "received" /\ s.status = r.status
          /\ IF s.kind = "get" THEN s.limit = 0 /\ s.id \in Ids
             ELSE s.limit \in Limits /\ s.limit > 0 /\ s.id = BadId
       \/ s.pc = "done" /\ s.status = 400 /\ s.limit = 0 /\ s.id = BadId

\* Its connection is reset, or its query fails.
EndsEmpty(r, s) ==
    /\ SameAsk(r, s) /\ s.page = r.page /\ s.asOf = r.asOf
    /\ \/ r.pc \in {"received", "listed"} /\ s.pc = "dropped" /\ s.status = r.status
       \/ r.pc = "received" /\ s.pc = "done" /\ s.status = 500

\* It is given a page of now.
IsListed(r, s) ==
    /\ r.pc = "received" /\ r.kind # "get"
    /\ SameAsk(r, s) /\ s.asOf = r.asOf
    /\ s.page \in Pages(r.limit)
    /\ IF r.kind = "list" THEN s.pc = "done" /\ s.status = 200
       ELSE r.kind = "crossings" /\ s.pc = "listed" /\ s.status = r.status

\* Its page is evaluated as of now.
IsEvaluated(r, s) ==
    /\ r.pc = "listed" /\ s.pc = "done"
    /\ SameAsk(r, s) /\ s.page = r.page /\ s.asOf = now
    /\ LET result == Evaluate(r.engine, r.page, now)
       IN  /\ s.status = (IF result.ok THEN 200 ELSE 500)
           /\ s.crossings = result.crossings

\* It is told of the one observation it asked for.
IsFound(r, s) ==
    /\ r.pc = "received" /\ r.kind = "get" /\ s.pc = "done"
    /\ SameAsk(r, s) /\ s.asOf = r.asOf
    /\ \/ HasRow(r.id) /\ s.status = 200 /\ s.page = <<RowOf(r.id)>>
       \/ ~HasRow(r.id) /\ s.status = 404 /\ s.page = r.page

RequestMove(r, s) ==
    \/ s = r
    \/ /\ IsRequest(s)
       /\ \/ Arrives(r, s) \/ EndsEmpty(r, s)
          \/ IsListed(r, s) \/ IsEvaluated(r, s) \/ IsFound(r, s)

LEMMA AnsweredSame ==
    ASSUME NEW r, IsRequest(r), NEW status
    PROVE  LET s == AnsweredWith(r, status)
           IN  SameAsk(r, s) /\ s.page = r.page /\ s.asOf = r.asOf
  BY DEF SameAsk, AnsweredWith, IsRequest, RequestFields

LEMMA HandlerMove ==
    ASSUME GetInv, NEW q \in Requests, HandlerStep(q)
    PROVE  \E s : Update(q, s) /\ RequestMove(requests[q], s)
<1> DEFINE r == requests[q]
<1>1. IsRequest(r)
  BY DEF GetInv
<1>2. ASSUME NEW status, Respond(q, status)
      PROVE  LET s == AnsweredWith(r, status)
             IN  /\ Update(q, s) /\ IsRequest(s) /\ SameAsk(r, s)
                 /\ s.pc = "done" /\ s.status = status
                 /\ s.page = r.page /\ s.asOf = r.asOf
  BY <1>1, <1>2, AnsweredForm, AnsweredSame DEF Respond, AnsweredWith
<1>3. CASE QueryFails(q)
  BY <1>2, <1>3 DEF QueryFails, RequestMove, EndsEmpty
<1>4. CASE HandleList(q)
  <2>1. PICK page \in Pages(r.limit) :
           Update(q, [r EXCEPT !.pc = "done", !.status = 200, !.page = page])
    BY <1>4 DEF HandleList
  <2> DEFINE s == [r EXCEPT !.pc = "done", !.status = 200, !.page = page]
  <2>2. /\ IsRequest(s) /\ SameAsk(r, s) /\ s.asOf = r.asOf
        /\ s.pc = "done" /\ s.status = 200 /\ s.page = page
    BY <1>1 DEF IsRequest, RequestFields, SameAsk
  <2>3. r.pc = "received" /\ r.kind = "list"
    BY <1>4 DEF HandleList
  <2>4. Update(q, s)
    BY <2>1
  <2> HIDE DEF s
  <2> QED
    BY <2>2, <2>3, <2>4 DEF RequestMove, IsListed
<1>5. CASE ListForCrossings(q)
  <2>1. PICK page \in Pages(r.limit) :
           Update(q, [r EXCEPT !.pc = "listed", !.page = page])
    BY <1>5 DEF ListForCrossings
  <2> DEFINE s == [r EXCEPT !.pc = "listed", !.page = page]
  <2>2. /\ IsRequest(s) /\ SameAsk(r, s) /\ s.asOf = r.asOf
        /\ s.pc = "listed" /\ s.status = r.status /\ s.page = page
    BY <1>1 DEF IsRequest, RequestFields, SameAsk
  <2>3. r.pc = "received" /\ r.kind = "crossings"
    BY <1>5 DEF ListForCrossings
  <2>4. Update(q, s)
    BY <2>1
  <2> HIDE DEF s
  <2> QED
    BY <2>2, <2>3, <2>4 DEF RequestMove, IsListed
<1>6. CASE EvaluateCrossings(q)
  <2> DEFINE result == Evaluate(r.engine, r.page, AsOf(q))
             status == IF result.ok THEN 200 ELSE 500
             s == [r EXCEPT !.pc = "done", !.status = status,
                            !.asOf = AsOf(q), !.crossings = result.crossings]
  <2>1. Update(q, s) /\ r.pc = "listed"
    BY <1>6, Zenon DEF EvaluateCrossings
  <2>2. AsOf(q) = now /\ result = Evaluate(r.engine, r.page, now)
    BY DEF AsOf
  <2> HIDE DEF result, status
  <2>3. /\ IsRequest(s) /\ SameAsk(r, s) /\ s.asOf = AsOf(q) /\ s.page = r.page
        /\ s.pc = "done" /\ s.status = status /\ s.crossings = result.crossings
    BY <1>1 DEF IsRequest, RequestFields, SameAsk
  <2> HIDE DEF s
  <2>4. IsEvaluated(r, s)
    BY <2>1, <2>2, <2>3, Zenon DEF IsEvaluated, status
  <2> QED
    BY <2>1, <2>3, <2>4 DEF RequestMove
<1>7. CASE HandleGet(q)
  <2>1. r.pc = "received" /\ r.kind = "get"
    BY <1>7 DEF HandleGet
  <2>2. CASE HasRow(r.id)
    <3> DEFINE found == <<RowOf(r.id)>>
               s == [r EXCEPT !.pc = "done", !.status = 200, !.page = found]
    <3>1. Update(q, s)
      BY <1>7, <2>2 DEF HandleGet
    <3> HIDE DEF found
    <3>2. /\ IsRequest(s) /\ SameAsk(r, s) /\ s.asOf = r.asOf
          /\ s.pc = "done" /\ s.status = 200 /\ s.page = found
      BY <1>1 DEF IsRequest, RequestFields, SameAsk
    <3> HIDE DEF s
    <3> QED
      BY <2>1, <2>2, <3>1, <3>2 DEF RequestMove, IsFound, found
  <2>3. CASE ~HasRow(r.id)
    <3>1. Respond(q, 404)
      BY <1>7, <2>3 DEF HandleGet
    <3> QED
      BY <1>2, <2>1, <2>3, <3>1 DEF RequestMove, IsFound
  <2> QED
    BY <2>2, <2>3
<1> QED
  BY <1>3, <1>4, <1>5, <1>6, <1>7 DEF HandlerStep

LEMMA AcceptMove ==
    ASSUME GetInv, NEW q \in Requests, Accept(q)
    PROVE  \E s : Update(q, s) /\ RequestMove(requests[q], s)
<1> DEFINE r == requests[q]
<1>1. IsRequest(r) /\ r.pc = "idle" /\ command.pc = "serving"
  BY DEF GetInv, Accept, Receive, ReceiveBad
<1>2. ASSUME NEW kind, NEW limit, NEW id
      PROVE  LET s == Arriving(q, kind, limit, id)
             IN  /\ IsRequest(s) /\ s.pc = "received" /\ s.status = r.status
                 /\ s.kind = kind /\ s.limit = limit /\ s.id = id
                 /\ s.engine = engine /\ s.acked = Acknowledged
                 /\ s.answered = Answered /\ s.page = r.page /\ s.asOf = r.asOf
  BY <1>1 DEF IsRequest, RequestFields, Arriving
<1>3. CASE Receive(q)
  <2>1. PICK kind, limit, id :
          /\ kind \in Routes /\ Update(q, Arriving(q, kind, limit, id))
          /\ \/ kind # "get" /\ limit \in Limits /\ limit > 0 /\ id = BadId
             \/ kind = "get" /\ limit = 0 /\ id \in Ids
    BY <1>3 DEF Receive
  <2> DEFINE s == Arriving(q, kind, limit, id)
  <2>2. Update(q, s) /\ IsRequest(s) /\ Arrives(r, s)
    BY <1>1, <1>2, <2>1 DEF Arrives
  <2> QED
    BY <2>2 DEF RequestMove
<1>4. CASE ReceiveBad(q)
  <2>1. PICK kind \in Routes : Update(q, [Arriving(q, kind, 0, BadId)
                                             EXCEPT !.pc = "done", !.status = 400])
    BY <1>4 DEF ReceiveBad
  <2> DEFINE a == Arriving(q, kind, 0, BadId)
             s == AnsweredWith(a, 400)
  <2>2. /\ IsRequest(a) /\ a.kind = kind /\ a.limit = 0 /\ a.id = BadId
        /\ a.engine = engine /\ a.acked = Acknowledged /\ a.answered = Answered
        /\ a.page = r.page /\ a.asOf = r.asOf
    BY <1>2
  <2>3. Update(q, s)
    BY <2>1 DEF AnsweredWith
  <2> HIDE DEF a
  <2>4. /\ IsRequest(s) /\ s.pc = "done" /\ s.status = 400
        /\ SameAsk(a, s) /\ s.page = a.page /\ s.asOf = a.asOf
    BY <2>2, AnsweredForm, AnsweredSame
  <2> HIDE DEF s
  <2>5. Arrives(r, s)
    BY <1>1, <2>2, <2>4 DEF Arrives, SameAsk
  <2> QED
    BY <2>3, <2>4, <2>5 DEF RequestMove
<1> QED
  BY <1>3, <1>4 DEF Accept

LEMMA DropMove ==
    ASSUME NEW r, IsRequest(r), r.pc \in {"received", "listed"}
    PROVE  RequestMove(r, [r EXCEPT !.pc = "dropped"])
<1> DEFINE s == [r EXCEPT !.pc = "dropped"]
<1>1. /\ IsRequest(s) /\ SameAsk(r, s) /\ s.asOf = r.asOf /\ s.page = r.page
      /\ s.pc = "dropped" /\ s.status = r.status
  BY DEF IsRequest, RequestFields, SameAsk
<1> HIDE DEF s
<1> QED
  BY <1>1 DEF RequestMove, EndsEmpty, s

LEMMA RequestMoves ==
    ASSUME GetInv, [Next]_vars
    PROVE  /\ requests' = [q \in Requests |-> requests'[q]]
           /\ \A q \in Requests : RequestMove(requests[q], requests'[q])
<1>1. /\ requests = [q \in Requests |-> requests[q]]
      /\ \A q \in Requests : IsRequest(requests[q])
  BY DEF GetInv
<1>2. CASE requests' = requests
  BY <1>1, <1>2 DEF RequestMove
<1>3. CASE requests' = Dropped
  BY <1>1, <1>3, DropMove DEF Dropped, InFlight, RequestMove
<1>4. ASSUME NEW q \in Requests, Accept(q) \/ Handle(q) \/ Disconnect(q)
      PROVE  \E s : Update(q, s) /\ RequestMove(requests[q], s)
  BY <1>1, <1>4, AcceptMove, HandlerMove, DropMove DEF Handle, Disconnect, InFlight
<1>5. ASSUME NEW q \in Requests, NEW s, Update(q, s), RequestMove(requests[q], s)
      PROVE  /\ requests' = [p \in Requests |-> requests'[p]]
             /\ \A p \in Requests : RequestMove(requests[p], requests'[p])
  <2>1. requests' = [p \in Requests |-> IF p = q THEN s ELSE requests[p]]
    BY <1>1, <1>5 DEF Update
  <2> QED
    BY <1>5, <2>1 DEF RequestMove
<1>6. CASE ServeNext
  <2>1. CASE CommandStep \/ ServeReturns \/ Cancel \/ Restart \/ KillServer
    BY <1>2, <1>3, <2>1
       DEF CommandStep, LoadAndCompile, OpenRepository, Listen, BeginShutdown,
           ServeReturns, CloseRepository, Exit, Cancel, Restart, KillServer, apiVars
  <2> QED
    BY <1>4, <1>5, <1>6, <2>1 DEF ServeNext
<1>7. CASE UNCHANGED apiVars
  BY <1>2, <1>7 DEF apiVars
<1> QED
  BY <1>6, <1>7 DEF Next, vars

LEMMA GetInvNext == ImportInv /\ GetInv /\ [Next]_vars => GetInv'
<1> SUFFICES ASSUME ImportInv, GetInv, [Next]_vars PROVE GetInv'
  OBVIOUS
<1>1. requests' = [q \in Requests |-> requests'[q]]
  BY RequestMoves
<1>2. ASSUME NEW q \in Requests
      PROVE  /\ IsRequest(requests'[q])
             /\ requests'[q].acked \subseteq Acknowledged'
             /\ GoodAnswer(requests[q])'
  <2> DEFINE r == requests[q]
             s == requests'[q]
  <2>1. RequestMove(r, s)
    BY RequestMoves
  <2>2. IsRequest(r) /\ r.acked \subseteq Acknowledged /\ GoodAnswer(r)
    BY DEF GetInv
  <2>3. \A i \in Acknowledged : /\ i \in Acknowledged'
                                /\ imports'[i].printed = imports[i].printed
    BY AcknowledgedStay
  <2> SUFFICES /\ IsRequest(s) /\ s.acked \subseteq Acknowledged'
               /\ s.pc = "listed" => s.kind = "crossings"
               /\ (s.pc = "done" /\ s.kind = "get" /\ s.id \in s.acked) =>
                     \/ s.status = 500
                     \/ s.status = 200 /\ s.page = <<imports'[s.id].printed>>
    BY DEF GoodAnswer
  <2> HIDE DEF s
  <2>4. CASE s = r
    BY <2>2, <2>3, <2>4 DEF GoodAnswer
  <2>5. CASE IsRequest(s) /\ Arrives(r, s)
    BY <2>3, <2>5, BadIdAssumption DEF Arrives, Acknowledged
  <2>6. CASE IsRequest(s) /\ (EndsEmpty(r, s) \/ IsListed(r, s) \/ IsEvaluated(r, s))
    BY <2>2, <2>3, <2>6 DEF EndsEmpty, IsListed, IsEvaluated, SameAsk, GoodAnswer
  <2>7. CASE IsRequest(s) /\ IsFound(r, s)
    <3>1. /\ s.acked = r.acked /\ s.id = r.id /\ s.pc = "done"
          /\ \/ HasRow(r.id) /\ s.status = 200 /\ s.page = <<RowOf(r.id)>>
             \/ ~HasRow(r.id)
      BY <2>7 DEF IsFound, SameAsk
    <3>2. r.id \in r.acked => HasRow(r.id) /\ RowOf(r.id) = imports[r.id].printed
      BY <2>2, GetFindsPrinted
    <3> QED
      BY <2>2, <2>3, <2>7, <3>1, <3>2
  <2> QED
    BY <2>1, <2>4, <2>5, <2>6, <2>7 DEF RequestMove
<1> QED
  BY <1>1, <1>2 DEF GetInv, IsRequest

\* GET /observations/{id} for an id acknowledged before the request came answers
\* 200 with exactly the row the import printed, or 500, and never 404, through
\* any interleaving with imports, shutdowns, kills and restarts (api.go:102-122).
THEOREM AcknowledgedIsFound == Spec => []GetAnswersAcknowledged
<1>1. GetInv => GetAnswersAcknowledged
  BY DEF GetInv, GoodAnswer, GetAnswersAcknowledged, Answered
<1>2. Init => GetInv
  BY GetInvInit
<1>3. ImportInv /\ GetInv /\ [Next]_vars => GetInv'
  BY GetInvNext
<1> QED
  BY <1>1, <1>2, <1>3, ImportInvAlways, PTL DEF Spec
=============================================================================
