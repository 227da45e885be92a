--------------------------------- MODULE Api ---------------------------------
(***************************************************************************)
(* The handlers of internal/api over the repository handle and the engine  *)
(* that NewHandler is given.  Each request runs in a goroutine of its own; *)
(* between two steps of one, imports, other requests and the shutdown of   *)
(* the server may run.                                                     *)
(***************************************************************************)
EXTENDS Import

CONSTANTS
    Requests,       \* the requests clients send
    ServedFirelines, \* what the files given to serve decode to
    Routes,         \* the routes they use
    BadId           \* a path value uuid.Parse rejects

Kinds == {"list", "crossings", "get"}

ASSUME BadIdAssumption == BadId \notin Ids
ASSUME RoutesAssumption == Routes \subseteq Kinds
ASSUME ServedAssumption == ServedFirelines \subseteq Firelines

VARIABLES
    requests,       \* what each handler has done so far
    engine,         \* the Fireline the running server compiled
    repoOpen        \* the server's database handle is open

apiVars == <<requests, engine, repoOpen>>

ApiTypeOK ==
    /\ engine \in ServedFirelines \cup {NoFireline}
    /\ repoOpen \in BOOLEAN
    /\ \A q \in Requests :
          /\ requests[q].pc \in {"idle", "received", "listed", "done", "dropped"}
          /\ requests[q].kind \in Kinds
          /\ requests[q].limit \in Limits \cup {0}
          /\ requests[q].id \in Ids \cup {BadId}
          /\ requests[q].engine \in ServedFirelines \cup {NoFireline}
          /\ requests[q].status \in {0, 200, 400, 404, 500}
          /\ requests[q].page \in Seq(ObservationType)
          /\ requests[q].asOf \in Nat
          /\ requests[q].acked \subseteq Ids
          /\ requests[q].answered \subseteq Requests

\* acked, answered and arrived are history: the imports acknowledged, the
\* requests answered and the time when the request was received.
IdleRequest ==
    [pc |-> "idle", kind |-> "list", limit |-> 0, id |-> BadId,
     engine |-> NoFireline, status |-> 0, page |-> <<>>, asOf |-> 0,
     crossings |-> <<>>, acked |-> {}, answered |-> {}, arrived |-> 0]

ApiInit ==
    /\ requests = [q \in Requests |-> IdleRequest]
    /\ engine = NoFireline
    /\ repoOpen = FALSE

Answered == {q \in Requests : requests[q].pc = "done"}
InFlight == {q \in Requests : requests[q].pc \in {"received", "listed"}}

\* What the request is, and what its client may rely on.
Arriving(q, kind, limit, id) ==
    [requests[q] EXCEPT
        !.pc = "received", !.kind = kind, !.limit = limit, !.id = id,
        !.engine = engine,
        !.acked = Acknowledged, !.answered = Answered, !.arrived = now]

Update(q, request) ==
    /\ requests' = [requests EXCEPT ![q] = request]
    /\ UNCHANGED <<storeVars, importVars, engine, repoOpen>>

Respond(q, status) ==
    Update(q, [requests[q] EXCEPT !.pc = "done", !.status = status])

\* parseLimit and uuid.Parse accept the request.
Receive(q) ==
    /\ requests[q].pc = "idle"
    /\ \/ \E kind \in Routes \ {"get"}, limit \in {l \in Limits : l > 0} :
             Update(q, Arriving(q, kind, limit, BadId))
       \/ "get" \in Routes /\ \E id \in Ids : Update(q, Arriving(q, "get", 0, id))

\* A malformed or non-positive limit, or an id that is not a uuid: the
\* repository is not touched.
ReceiveBad(q) ==
    /\ requests[q].pc = "idle"
    /\ \E kind \in Routes :
          Update(q, [Arriving(q, kind, 0, BadId) EXCEPT !.pc = "done", !.status = 400])

\* repo.List, repo.Get: the handle is open and the table exists.
CanQuery == repoOpen /\ migrated

\* Mutant: a query waits for the table to be created.
QueryWaits(q) ==
    /\ requests[q].pc = "received"
    /\ ~repoOpen
    /\ Respond(q, 500)

\* The query returns any error but ErrNotFound.
QueryFails(q) ==
    /\ requests[q].pc = "received"
    /\ Respond(q, 500)

HandleList(q) ==
    /\ requests[q].pc = "received" /\ requests[q].kind = "list"
    /\ CanQuery
    /\ \E page \in Pages(requests[q].limit) :
          Update(q, [requests[q] EXCEPT
                        !.pc = "done", !.status = 200, !.page = page])

\* listCrossings has its page; the evaluation is still to come.
ListForCrossings(q) ==
    /\ requests[q].pc = "received" /\ requests[q].kind = "crossings"
    /\ CanQuery
    /\ \E page \in Pages(requests[q].limit) :
          Update(q, [requests[q] EXCEPT !.pc = "listed", !.page = page])

\* Mutant: the as-of time is read when the request comes in.
AsOfArrival(q) == requests[q].arrived

\* time.Now().UTC() as the argument of Evaluate, after List has returned.
AsOf(q) == now

EvaluateCrossings(q) ==
    /\ requests[q].pc = "listed"
    /\ LET result == Evaluate(requests[q].engine, requests[q].page, AsOf(q))
       IN  Update(q, [requests[q] EXCEPT
              !.pc = "done", !.status = IF result.ok THEN 200 ELSE 500,
              !.asOf = AsOf(q), !.crossings = result.crossings])

\* Mutant: only the newest page is searched for the id.
GetFromPage(q) ==
    /\ requests[q].pc = "received" /\ requests[q].kind = "get"
    /\ CanQuery
    /\ \E page \in Pages(1) :
          IF \E k \in DOMAIN page : page[k].id = requests[q].id
          THEN Update(q, [requests[q] EXCEPT
                  !.pc = "done", !.status = 200, !.page = page])
          ELSE Respond(q, 404)

HandleGet(q) ==
    /\ requests[q].pc = "received" /\ requests[q].kind = "get"
    /\ CanQuery
    /\ IF HasRow(requests[q].id)
       THEN Update(q, [requests[q] EXCEPT
               !.pc = "done", !.status = 200, !.page = <<RowOf(requests[q].id)>>])
       ELSE Respond(q, 404)

HandlerStep(q) ==
    \/ QueryFails(q) \/ HandleList(q) \/ ListForCrossings(q)
    \/ EvaluateCrossings(q) \/ HandleGet(q)

\* Every connection the process still holds is reset.
Dropped ==
    [q \in Requests |->
        IF q \in InFlight THEN [requests[q] EXCEPT !.pc = "dropped"]
        ELSE requests[q]]

-----------------------------------------------------------------------------
(* Properties. *)

Successful(kind) ==
    {q \in Answered : requests[q].status = 200 /\ requests[q].kind = kind}

\* An observation whose import exited 0 before the request arrived is in the
\* page, unless the page is full of observations at least as new
\* (repository.go:31-33, docs/api.md:7): for GET /observations and for the page
\* GET /crossings evaluates.
PageShowsAcknowledged ==
    \A q \in Successful("list") \cup Successful("crossings") :
        \A i \in requests[q].acked :
            ShowsOrEvicts(requests[q].page, requests[q].limit, i)

\* GET /observations/{id} finds what was acknowledged before, and returns what
\* the import printed (api.go:102-122).
GetAnswersAcknowledged ==
    \A q \in Answered :
        (requests[q].kind = "get" /\ requests[q].id \in requests[q].acked) =>
            \/ requests[q].status = 500
            \/ /\ requests[q].status = 200
               /\ requests[q].page = <<imports[requests[q].id].printed>>

\* With a tolerance of zero, any freshly inserted observation of the page that
\* matches crosses at once when it has no observation time of its own
\* (api_test.go:69): its age is never negative, because the as-of time is read
\* after the page.
FreshRowsCross ==
    \A q \in Successful("crossings") :
        \A i \in DOMAIN requests[q].engine.rules, k \in DOMAIN requests[q].page :
            LET rule == requests[q].engine.rules[i]
                obs == requests[q].page[k]
            IN  (/\ ToleranceDuration(rule) = 0
                 /\ obs.claim.observedAt = None
                 /\ Cel(rule.when, Activation(obs)) = "true")
                => \E n \in DOMAIN requests[q].crossings :
                      CrossingKey(requests[q].crossings[n]) = <<rule.id, obs.id>>

\* A crossing reported once is reported by every later GET /crossings whose page
\* still has room for its observation: ages only grow and rows never change.
CrossingsPersist ==
    \A q \in Successful("crossings") :
        \A p \in requests[q].answered \cap Successful("crossings") :
            (/\ requests[q].engine = requests[p].engine
             /\ Len(requests[q].page) < requests[q].limit) =>
                \A k \in DOMAIN requests[p].crossings :
                    \E n \in DOMAIN requests[q].crossings :
                        CrossingKey(requests[q].crossings[n])
                          = CrossingKey(requests[p].crossings[k])
=============================================================================
