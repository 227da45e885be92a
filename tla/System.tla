------------------------------- MODULE System -------------------------------
(***************************************************************************)
(* fireline-core as a whole: import runs, evaluate runs and one server     *)
(* over one table and one clock.                                           *)
(***************************************************************************)
EXTENDS EvaluateCommand, Serve

vars == <<storeVars, importVars, evalVars, apiVars, command>>

TypeOK ==
    StoreTypeOK /\ ImportTypeOK /\ EvalTypeOK /\ ApiTypeOK /\ ServeTypeOK

Init == StoreInit /\ ImportInit /\ EvalInit /\ ApiInit /\ ServeInit

Next ==
    \/ (Tick \/ Migrate) /\ UNCHANGED <<importVars, evalVars, apiVars, command>>
    \/ ImportNext /\ UNCHANGED <<evalVars, apiVars, command>>
    \/ EvalNext /\ UNCHANGED <<apiVars, command>>
    \/ ServeNext /\ UNCHANGED evalVars

\* Each process runs its own code: a database call returns, with an answer or an
\* error, and a goroutine is scheduled again.  Nothing is assumed of the clock,
\* of the operator (migrate, restart, cancel, kill) or of clients.
Fairness ==
    /\ \A i \in Ids : WF_vars(ImportStep(i) /\ UNCHANGED <<evalVars, apiVars, command>>)
    /\ \A e \in Evals : WF_vars(EvalStep(e) /\ UNCHANGED <<apiVars, command>>)
    /\ \A q \in Requests : WF_vars(Handle(q) /\ UNCHANGED evalVars)
    /\ WF_vars(CommandStep /\ UNCHANGED evalVars)

Spec == Init /\ [][Next]_vars
FairSpec == Spec /\ Fairness

-----------------------------------------------------------------------------
(* Properties of the composition. *)

\* An evaluation started after an import exited 0 sees its observation, unless
\* its page is full of observations at least as new.
EvaluationShowsAcknowledged ==
    \A e \in FinishedEvals : \A i \in evals[e].acked :
        ShowsOrEvicts(evals[e].page, evals[e].limit, i)

PagesSeen ==
    {requests[q].page : q \in Successful("list") \cup Successful("crossings")}
      \cup {evals[e].page : e \in FinishedEvals}

\* What the answer to request p showed is shown again by the answer to q, unless
\* that is full of observations at least as new.
KeepsShown(q, p) ==
    \A k \in DOMAIN requests[p].page :
        LET obs == requests[p].page[k]
            page == requests[q].page
        IN  \/ \E n \in DOMAIN page : page[n] = obs
            \/ /\ Len(page) = requests[q].limit
               /\ \A n \in DOMAIN page : page[n].ingestedAt >= obs.ingestedAt

\* "List returns up to limit Observations, newest (by IngestedAt) first"
\* (repository.go:31): every page, on whichever path it was fetched, is in that
\* order, and leaves out nothing newer than what it shows that a client knows of
\* from an earlier answer, whether or not its import ever exited 0.
NewestFirst ==
    /\ \A page \in PagesSeen : \A j, k \in DOMAIN page :
          j < k => page[j].ingestedAt >= page[k].ingestedAt
    /\ \A q \in Successful("list") \cup Successful("crossings") :
          \A p \in requests[q].answered :
             requests[p].status = 200 => KeepsShown(q, p)

\* What the text order of the Turso backend does guarantee: the seconds descend,
\* and an acknowledged row is only left out for rows of its second or later.
NewestSecondFirst ==
    /\ \A page \in PagesSeen : \A j, k \in DOMAIN page :
          j < k => page[j].ingestedAt \div Second >= page[k].ingestedAt \div Second
    /\ \A e \in FinishedEvals : \A i \in evals[e].acked :
          \/ \E k \in DOMAIN evals[e].page : evals[e].page[k].id = i
          \/ /\ PageFull(evals[e])
             /\ \A k \in DOMAIN evals[e].page :
                   evals[e].page[k].ingestedAt \div Second
                     >= RowOf(i).ingestedAt \div Second

\* Observations are immutable once stored (domain/doc.go:2-3, repository.go:21):
\* whatever runs, no row is changed or lost, and one is added only by the run
\* that built it.
RowsImmutable ==
    [][\A i \in Ids :
          LET before == {row \in rows : row.id = i}
              after == {row \in rows' : row.id = i}
          IN  \/ after = before
              \/ before = {} /\ imports[i].pc \in {"open", "lost"}]_vars

\* What the import runs can leave: a valid claim of a file, under the run's own
\* uuid, as the backend hands it back.
Importable ==
    {Stored(NewObservation(i, claim, t)) :
        i \in Ids, claim \in {c \in Claims : Validate(c)}, t \in 0..MaxNow}

PrintedRows == {imports[i].printed : i \in Acknowledged}

Readers == ({"api"} \X Requests) \cup ({"cli"} \X Evals)

\* The page a request was given, and what a request for one observation was told.
ListedPage(request) == IF request.kind = "get" THEN <<>> ELSE request.page
ToldOf(request) ==
    IF request.kind = "get" /\ request.status \in {200, 404}
    THEN <<request.id, request.page>> ELSE <<>>

ShownPages ==
    [r \in Readers |-> IF r[1] = "api" THEN ListedPage(requests[r[2]])
                       ELSE evals[r[2]].page]

\* The log that users see: a row is an entry, an exit 0 its acknowledgement, and
\* pages and single observations are what requests and evaluations were given.
ObservationLog == INSTANCE Log WITH
    Entries <- Importable,
    Seekers <- Requests,
    log <- rows,
    acked <- PrintedRows,
    shown <- ShownPages,
    found <- [q \in Requests |-> ToldOf(requests[q])]

\* The commands and the server together are that log, through every failure,
\* kill, restart and interleaving, as long as the order of the column is the
\* order of the instants (repository.go:21-34): importcmd.go:82-95 and
\* api.go:58-120 do nothing a reader of the log could tell from it.
ImplementsLog == ObservationLog!Spec

\* Every import and every evaluation comes to an end.
RunsEnd ==
    /\ \A i \in Ids : <>(imports[i].pc \in {"ok", "failed", "lost", "killed"})
    /\ \A e \in Evals : <>(evals[e].pc \in {"ok", "failed"})

\* No request that reached a handler waits for ever: it is answered, or its
\* connection is gone.
RequestsEnd == \A q \in Requests : q \in InFlight ~> q \notin InFlight

\* Cancelling the context ends the command (serve_test.go:92-100), handlers in
\* flight or not.
CancelEndsServe ==
    Running /\ command.cancelled ~> command.pc \in {"failed", "exited"}
=============================================================================
