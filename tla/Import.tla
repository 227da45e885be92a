------------------------------- MODULE Import -------------------------------
(***************************************************************************)
(* fireline import: each run reads one file, builds one observation,       *)
(* opens the store, inserts, reads the row back and prints it.  A run is   *)
(* named by the uuid it draws, which no other run draws.  Runs are         *)
(* separate processes; any of them may be killed between two steps.        *)
(***************************************************************************)
EXTENDS Store

VARIABLE imports     \* the runs: their control state, what they built, what they printed

importVars == <<imports>>

ImportPCs == {"start", "built", "open", "inserted",
              "ok", "failed", "lost", "killed"}

ImportTypeOK ==
    imports \in [Ids -> [pc : ImportPCs,
                         obs : ObservationType \cup {NoObs},
                         printed : ObservationType \cup {NoObs}]]

ImportInit ==
    imports = [i \in Ids |-> [pc |-> "start", obs |-> NoObs, printed |-> NoObs]]

\* The runs that exited with status 0.
Acknowledged == {i \in Ids : imports[i].pc = "ok"}

Goto(i, pc) == imports' = [imports EXCEPT ![i].pc = pc]

\* The file cannot be read or decoded, or Validate rejects what it holds.
ImportRejected(i) ==
    /\ imports[i].pc = "start"
    /\ Goto(i, "failed")
    /\ UNCHANGED storeVars

\* Mutant: NewObservation without its call of Validate.
BuildUnvalidated(i) ==
    /\ imports[i].pc = "start"
    /\ \E claim \in Claims :
          imports' = [imports EXCEPT
             ![i].pc = "built", ![i].obs = NewObservation(i, claim, now)]
    /\ UNCHANGED storeVars

Build(i) ==
    /\ imports[i].pc = "start"
    /\ \E claim \in Claims :
          /\ Validate(claim)
          /\ imports' = [imports EXCEPT
                ![i].pc = "built", ![i].obs = NewObservation(i, claim, now)]
    /\ UNCHANGED storeVars

\* config.Load and openRepository succeed.
OpenImport(i) ==
    /\ imports[i].pc = "built"
    /\ Goto(i, "open")
    /\ UNCHANGED storeVars

\* A bad configuration, or a backend that does not answer the ping.
OpenImportFails(i) ==
    /\ imports[i].pc = "built"
    /\ Goto(i, "failed")
    /\ UNCHANGED storeVars

Insert(i) ==
    /\ imports[i].pc = "open"
    /\ migrated /\ ~HasRow(i)
    /\ rows' = WithRow(imports[i].obs)
    /\ Goto(i, "inserted")
    /\ UNCHANGED <<now, migrated>>

\* Mutant: the error of Insert is not returned.
InsertErrorIgnored(i) ==
    /\ imports[i].pc = "open"
    /\ Goto(i, "inserted")
    /\ UNCHANGED storeVars

\* Mutant: an insert that fails is tried again, for ever.
InsertRetries(i) ==
    /\ imports[i].pc = "open"
    /\ UNCHANGED <<storeVars, importVars>>

\* Insert returns an error: the statement had no effect (no table, no
\* connection), or the connection broke with the statement still running.
InsertFails(i) ==
    /\ imports[i].pc = "open"
    /\ \/ Goto(i, "failed")
       \/ migrated /\ ~HasRow(i) /\ Goto(i, "lost")
    /\ UNCHANGED storeVars

\* The statement of a failed run commits after the run has exited.
CommitLate(i) ==
    /\ imports[i].pc = "lost"
    /\ rows' = WithRow(imports[i].obs)
    /\ Goto(i, "failed")
    /\ UNCHANGED <<now, migrated>>

\* Mutant: the run prints what it built instead of what it reads back.
PrintBuilt(i) ==
    /\ imports[i].pc = "inserted"
    /\ imports' = [imports EXCEPT
          ![i].pc = "ok", ![i].printed = imports[i].obs]
    /\ UNCHANGED storeVars

ReadBack(i) ==
    /\ imports[i].pc = "inserted"
    /\ HasRow(i)
    /\ imports' = [imports EXCEPT ![i].pc = "ok", ![i].printed = RowOf(i)]
    /\ UNCHANGED storeVars

\* The row is stored, yet Get fails and so does the run.
ReadBackFails(i) ==
    /\ imports[i].pc = "inserted"
    /\ Goto(i, "failed")
    /\ UNCHANGED storeVars

KillImport(i) ==
    /\ imports[i].pc \in {"built", "open", "inserted"}
    /\ Goto(i, "killed")
    /\ UNCHANGED storeVars

\* What the process itself does next; being killed is not among it.
ImportStep(i) ==
    \/ ImportRejected(i) \/ Build(i)
    \/ OpenImport(i) \/ OpenImportFails(i)
    \/ Insert(i) \/ InsertFails(i)
    \/ ReadBack(i) \/ ReadBackFails(i)

ImportNext == \E i \in Ids : ImportStep(i) \/ CommitLate(i) \/ KillImport(i)

-----------------------------------------------------------------------------
(* Properties. *)

HasWritten(i) == imports[i].pc \in {"inserted", "ok", "failed", "killed"}

\* What a run carries to the store is a valid observation under its own uuid,
\* with the fingerprint of its claim and an ingestion time that has passed
\* (observation.go:53-74).
BuiltObservations ==
    \A i \in Ids :
        LET obs == imports[i].obs
        IN  /\ imports[i].pc \in {"built", "open", "inserted", "ok", "lost"}
                 => obs # NoObs
            /\ obs # NoObs =>
                 /\ obs = NewObservation(i, obs.claim, obs.ingestedAt)
                 /\ Validate(obs.claim)
                 /\ obs.ingestedAt <= now

\* Every row is the stored form of what one run built, and that run is past its
\* Insert: no row is there without its run, twice, or altered
\* (importcmd.go:59-84, observation.go:26-28).
RowsComeFromRuns ==
    \A row \in rows :
        /\ HasWritten(row.id)
        /\ imports[row.id].obs # NoObs
        /\ row = Stored(imports[row.id].obs)

\* A run that exits 0 has its observation in the table, whatever other runs do
\* afterwards, and printed exactly the row that every later reader sees
\* (importcmd.go:40-41, README.md:74-76).
AcknowledgedIsStored ==
    \A i \in Acknowledged :
        /\ imports[i].printed \in rows
        /\ imports[i].printed = Stored(imports[i].obs)

\* The contract "insert then get round trip" of storagetest.go:34-48: what the
\* run printed is the observation it built.
RoundTrip ==
    \A i \in Acknowledged : imports[i].printed = imports[i].obs

\* An import run that passed its insert is never left without its row: a read
\* back that finds no row (importcmd.go:86-89) would mean the store lost one.
ReadBackFindsRow ==
    \A i \in Ids : imports[i].pc = "inserted" => Stored(imports[i].obs) \in rows

SameFinding(c, d) ==
    c.tool = d.tool /\ c.ruleID = d.ruleID /\ c.components = d.components

\* The history of a finding is every observation of it that is stored, whichever
\* version of its scanner reported it, with whatever severity and however its
\* import ended, and no other; what imports acknowledged of it is in it as they
\* printed it; and it is oldest first, on Turso to the second
\* (repository.go:23-30, fingerprint.go:23-26, turso.go:105-128).
FindingHistory ==
    \A row \in rows : \A list \in ListByFingerprint(row.fingerprint) :
        /\ {list[k] : k \in DOMAIN list} = {r \in rows : SameFinding(r.claim, row.claim)}
        /\ \A i \in Acknowledged : SameFinding(imports[i].obs.claim, row.claim) =>
              \E k \in DOMAIN list : list[k] = imports[i].printed
        /\ \A j, k \in DOMAIN list : j < k =>
              /\ list[j].ingestedAt \div Second <= list[k].ingestedAt \div Second
              /\ Backend = "postgres" => list[j].ingestedAt <= list[k].ingestedAt
=============================================================================
