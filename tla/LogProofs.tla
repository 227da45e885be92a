------------------------------ MODULE LogProofs ------------------------------
(***************************************************************************)
(* What users of the whole see.  On Postgres, whose column orders as the   *)
(* instants do, it is an append-only log: System implements Log, and what  *)
(* was acknowledged shows in every later page that has room.  On Turso,    *)
(* whose column orders as texts, that is so to the second.                 *)
(***************************************************************************)
EXTENDS SystemProofs, SelectionProofs, FiniteSetTheorems, SequenceTheorems

-----------------------------------------------------------------------------
(* A page of the table is a cut of the log. *)

LEMMA PostgresOrder ==
    ASSUME Backend = "postgres", NEW x, NEW y
    PROVE  SortsBefore(x, y) <=> x.ingestedAt > y.ingestedAt
  BY DEF SortsBefore

LEMMA PageIsCut ==
    ASSUME Backend = "postgres", rows \subseteq ObservationType, IsFiniteSet(rows),
           NEW limit \in Int, limit > 0, NEW page \in Pages(limit)
    PROVE  \E n \in 0..limit : page \in [1..n -> rows] /\ ObservationLog!IsCut(page, limit)
<1> DEFINE n == PageLen(limit)
<1>1. Cardinality(rows) \in Nat
  BY FS_CardinalityType
<1>2. n \in 0..limit /\ (n = limit \/ n = Cardinality(rows))
  BY <1>1 DEF PageLen
<1>3. page \in [1..n -> rows]
  BY DEF Pages
<1>4. \A i \in 1..n : /\ \A j \in 1..(i - 1) : page[j] # page[i]
                      /\ \A row \in rows : row.ingestedAt > page[i].ingestedAt
                            => \E j \in 1..(i - 1) : page[j] = row
  BY PostgresOrder, Zenon DEF Pages
<1>5. \A row \in rows : row.ingestedAt \in Nat
  BY DEF ObservationType
<1> HIDE DEF n
<1>6. DOMAIN page = 1..n /\ Len(page) = n
  <2>1. page \in Seq(rows) 
    BY <1>2, <1>3, SeqDef
  <2> QED
    BY <1>2, <1>3, <2>1, LenProperties
<1>7. \A j, k \in 1..n :
         j < k => page[j] # page[k] /\ page[j].ingestedAt >= page[k].ingestedAt
  <2> SUFFICES ASSUME NEW j \in 1..n, NEW k \in 1..n, j < k
               PROVE  page[j] # page[k] /\ page[j].ingestedAt >= page[k].ingestedAt
    OBVIOUS
  <2>1. page[j] # page[k]
    BY <1>2, <1>4
  <2>2. ASSUME page[k].ingestedAt > page[j].ingestedAt PROVE FALSE
    <3>1. PICK i \in 1..(j - 1) : page[i] = page[k]
      BY <1>3, <1>4, <2>2
    <3> QED
      BY <1>2, <1>4, <3>1
  <2>3. page[j].ingestedAt \in Nat /\ page[k].ingestedAt \in Nat
    BY <1>3, <1>5
  <2> QED
    BY <2>1, <2>2, <2>3
<1>8. ASSUME NEW e \in rows, \A k \in 1..n : page[k] # e
      PROVE  n = limit /\ \A k \in 1..n : page[k].ingestedAt >= e.ingestedAt
  <2>1. ASSUME NEW k \in 1..n PROVE page[k].ingestedAt >= e.ingestedAt
    <3>1. ~(e.ingestedAt > page[k].ingestedAt)
      BY <1>2, <1>4, <1>8
    <3>2. page[k].ingestedAt \in Nat /\ e.ingestedAt \in Nat
      BY <1>3, <1>5
    <3> QED
      BY <3>1, <3>2
  <2>2. ASSUME n = Cardinality(rows) PROVE FALSE
    <3>1. page \in Injection(1..n, rows)
      <4>1. \A j, k \in 1..n : page[j] = page[k] => j = k
        BY <1>2, <1>7
      <4> QED
        BY <1>3, <4>1 DEF Injection, IsInjective
    <3>2. Cardinality(1..n) = n
      BY <1>2, FS_Interval
    <3>3. page \in Surjection(1..n, rows)
      BY <2>2, <3>1, <3>2, FS_Injection
    <3> QED
      BY <1>8, <3>3 DEF Surjection
  <2> QED
    BY <1>2, <2>1, <2>2
<1>9. ObservationLog!IsCut(page, limit)
  BY <1>6, <1>7, <1>8, Zenon DEF ObservationLog!IsCut, ObservationLog!Entry
<1> QED
  BY <1>2, <1>3, <1>9

-----------------------------------------------------------------------------
(* What the steps of the commands are to the log. *)

\* A run of evaluate is a record of the fields of EvalInit.
RunFields == {"pc", "fireline", "against", "asOf", "limit", "page", "report",
              "acked", "finished"}
IsRun(r) == r = [field \in RunFields |-> r[field]]

RequestOK(r) ==
    /\ IsRequest(r)
    /\ r.pc = "idle" => r.kind = "list"
    /\ r.pc \in {"idle", "received"} => r.page = <<>>
    /\ r.pc \in {"idle", "received", "listed"} => r.status = 0
    /\ r.pc = "received" => IF r.kind = "get" THEN r.id \in Ids
                             ELSE r.limit \in Limits /\ r.limit > 0
    /\ r.pc = "listed" => r.kind = "crossings"

RunOK(r) == IsRun(r) /\ (r.pc = "compiled" => r.limit \in Limits /\ r.limit > 0)

RequestsOK ==
    /\ requests = [q \in Requests |-> requests[q]]
    /\ \A q \in Requests : RequestOK(requests[q])

RunsOK ==
    /\ evals = [e \in Evals |-> evals[e]]
    /\ \A e \in Evals : RunOK(evals[e])

\* A run builds what a file holds.
ClaimsOK == \A i \in Ids : imports[i].obs # NoObs => imports[i].obs.claim \in Claims

LogInv == ImportInv /\ IsFiniteSet(rows) /\ ClaimsOK /\ RequestsOK /\ RunsOK

Told == [q \in Requests |-> ToldOf(requests[q])]
LogView == <<rows, PrintedRows, ShownPages, Told>>

LEMMA LogInvInit == Init => LogInv
<1> SUFFICES ASSUME Init PROVE LogInv
  OBVIOUS
<1>1. ImportInv
  BY ImportInvInit
<1>2. IsFiniteSet(rows)
  BY FS_EmptySet DEF Init, StoreInit
<1>3. ClaimsOK
  BY DEF Init, ImportInit, ClaimsOK
<1>4. RequestsOK
  <2>1. requests = [q \in Requests |-> IdleRequest]
    BY DEF Init, ApiInit
  <2>2. IsRequest(IdleRequest)
    BY DEF IsRequest, RequestFields, IdleRequest
  <2>3. /\ IdleRequest.pc = "idle" /\ IdleRequest.kind = "list"
        /\ IdleRequest.page = <<>> /\ IdleRequest.status = 0
    BY DEF IdleRequest
  <2> QED
    BY <2>1, <2>2, <2>3 DEF RequestsOK, RequestOK
<1>5. RunsOK
  BY DEF Init, EvalInit, RunsOK, RunOK, IsRun, RunFields
<1> QED
  BY <1>1, <1>2, <1>3, <1>4, <1>5 DEF LogInv

LEMMA LogInit == Init => ObservationLog!Init
<1> SUFFICES ASSUME Init PROVE ObservationLog!Init
  OBVIOUS
<1>1. rows = {}
  BY DEF Init, StoreInit
<1>2. PrintedRows = {}
  BY DEF Init, ImportInit, PrintedRows, Acknowledged
<1>3. requests = [q \in Requests |-> IdleRequest]
  BY DEF Init, ApiInit
<1>4. ListedPage(IdleRequest) = <<>> /\ ToldOf(IdleRequest) = <<>>
  BY DEF ListedPage, ToldOf, IdleRequest
<1>5. \A e \in Evals : evals[e].page = <<>>
  BY DEF Init, EvalInit
<1>6. ShownPages = [r \in Readers |-> <<>>]
  BY <1>3, <1>4, <1>5 DEF ShownPages, Readers
<1>7. [q \in Requests |-> ToldOf(requests[q])] = [q \in Requests |-> <<>>]
  BY <1>3, <1>4
<1> QED
  BY <1>1, <1>2, <1>6, <1>7 DEF ObservationLog!Init

\* The pages and answers are those of the requests and the runs, and of nothing
\* else.
LEMMA ViewOfRequests ==
    ASSUME RequestsOK, NEW q \in Requests, NEW r,
           requests' = [requests EXCEPT ![q] = r], UNCHANGED evals, RequestOK(r)
    PROVE  /\ RequestsOK'
           /\ ShownPages' = [ShownPages EXCEPT ![<<"api", q>>] = ListedPage(r)]
           /\ Told' = [Told EXCEPT ![q] = ToldOf(r)]
<1>1. requests' = [p \in Requests |-> IF p = q THEN r ELSE requests[p]]
  BY DEF RequestsOK
<1>2. RequestsOK'
  BY <1>1 DEF RequestsOK, RequestOK, IsRequest
<1>3. Told' = [Told EXCEPT ![q] = ToldOf(r)]
  <2>1. Told' = [p \in Requests |-> ToldOf(requests'[p])]
    BY DEF Told, ToldOf
  <2> QED
    BY <1>1, <2>1, Zenon DEF Told
<1>4. ASSUME NEW x \in Readers
      PROVE  ShownPages'[x] = IF x = <<"api", q>> THEN ListedPage(r) ELSE ShownPages[x]
  <2>1. CASE x[1] = "api"
    <3>1. PICK p \in Requests : x = <<"api", p>>
      BY <2>1 DEF Readers
    <3> QED
      BY <1>1, <3>1 DEF ShownPages, ListedPage
  <2>2. CASE x[1] # "api"
    <3>1. x # <<"api", q>>
      BY <2>2
    <3> QED
      BY <2>2, <3>1 DEF ShownPages
  <2> QED
    BY <2>1, <2>2
<1>5. ShownPages' = [ShownPages EXCEPT ![<<"api", q>>] = ListedPage(r)]
  BY <1>4, Zenon DEF ShownPages
<1> QED
  BY <1>2, <1>3, <1>5

LEMMA ViewOfRuns ==
    ASSUME RunsOK, NEW e \in Evals, NEW r,
           evals' = [evals EXCEPT ![e] = r], UNCHANGED requests, RunOK(r)
    PROVE  /\ RunsOK'
           /\ ShownPages' = [ShownPages EXCEPT ![<<"cli", e>>] = r.page]
<1>1. evals' = [d \in Evals |-> IF d = e THEN r ELSE evals[d]]
  BY DEF RunsOK
<1>2. RunsOK'
  BY <1>1 DEF RunsOK, RunOK, IsRun
<1>3. ASSUME NEW x \in Readers
      PROVE  ShownPages'[x] = IF x = <<"cli", e>> THEN r.page ELSE ShownPages[x]
  <2>1. CASE x[1] = "api"
    <3>1. x # <<"cli", e>>
      BY <2>1
    <3> QED
      BY <2>1, <3>1 DEF ShownPages, ListedPage
  <2>2. CASE x[1] # "api"
    <3>1. PICK d \in Evals : x = <<"cli", d>>
      BY <2>2 DEF Readers
    <3> QED
      BY <1>1, <3>1 DEF ShownPages
  <2> QED
    BY <2>1, <2>2
<1>4. ShownPages' = [ShownPages EXCEPT ![<<"cli", e>>] = r.page]
  BY <1>3, Zenon DEF ShownPages
<1> QED
  BY <1>2, <1>4

\* A step that changes what no reader and no seeker has been given.
LEMMA SilentRequest ==
    ASSUME RequestsOK, NEW q \in Requests, NEW r, Update(q, r), UNCHANGED evals,
           RequestOK(r), ListedPage(r) = ListedPage(requests[q]),
           ToldOf(r) = ToldOf(requests[q])
    PROVE  RequestsOK' /\ UNCHANGED LogView
<1>1. requests' = [requests EXCEPT ![q] = r] /\ UNCHANGED <<rows, imports>>
  BY DEF Update, storeVars, importVars
<1>2. /\ RequestsOK'
      /\ ShownPages' = [ShownPages EXCEPT ![<<"api", q>>] = ListedPage(r)]
      /\ Told' = [Told EXCEPT ![q] = ToldOf(r)]
  BY <1>1, ViewOfRequests
<1>3. <<"api", q>> \in Readers
  BY DEF Readers
<1>4. ShownPages[<<"api", q>>] = ListedPage(r)
  BY <1>3 DEF ShownPages
<1>5. ShownPages' = ShownPages
  BY <1>2, <1>4, Zenon DEF ShownPages
<1>6. Told' = Told
  BY <1>2, Zenon DEF Told
<1>7. PrintedRows' = PrintedRows
  BY <1>1 DEF PrintedRows, Acknowledged
<1> QED
  BY <1>1, <1>2, <1>5, <1>6, <1>7 DEF LogView

\* A handler that is given a page shows its reader a cut.
LEMMA PageStep ==
    ASSUME Backend = "postgres", LogInv, NEW q \in Requests, NEW r, Update(q, r),
           UNCHANGED evals, requests[q].pc = "received", requests[q].kind # "get",
           NEW page \in Pages(requests[q].limit), r.page = page,
           r.kind = requests[q].kind, RequestOK(r)
    PROVE  RequestsOK' /\ ObservationLog!List(<<"api", q>>)
<1> DEFINE limit == requests[q].limit
<1>1. limit \in Limits /\ limit > 0
  BY DEF LogInv, RequestsOK, RequestOK
<1>2. requests' = [requests EXCEPT ![q] = r] /\ UNCHANGED <<rows, imports>>
  BY DEF Update, storeVars, importVars
<1>3. ListedPage(r) = page /\ ToldOf(r) = <<>> /\ ToldOf(requests[q]) = <<>>
  BY DEF ListedPage, ToldOf
<1>4. /\ RequestsOK'
      /\ ShownPages' = [ShownPages EXCEPT ![<<"api", q>>] = page]
      /\ Told' = [Told EXCEPT ![q] = <<>>]
  BY <1>2, <1>3, ViewOfRequests DEF LogInv
<1>5. Told' = Told
  BY <1>3, <1>4, Zenon DEF Told
<1>6. PrintedRows' = PrintedRows
  BY <1>2 DEF PrintedRows, Acknowledged
<1>7. limit \in Int /\ rows \subseteq ObservationType /\ IsFiniteSet(rows)
  BY <1>1, LimitsAssumption DEF LogInv, ImportInv, StoreTypeOK
<1>8. \E n \in 0..limit : page \in [1..n -> rows] /\ ObservationLog!IsCut(page, limit)
  BY <1>1, <1>7, PageIsCut
<1> QED
  BY <1>1, <1>2, <1>4, <1>5, <1>6, <1>8, Zenon DEF ObservationLog!List, Told

LEMMA AnsweredPage ==
    ASSUME NEW r, IsRequest(r), NEW status
    PROVE  AnsweredWith(r, status).page = r.page
  BY DEF AnsweredWith, IsRequest, RequestFields

\* Get answers its seeker.
LEMMA GetStep ==
    ASSUME LogInv, NEW q \in Requests, UNCHANGED evals, HandleGet(q)
    PROVE  RequestsOK' /\ ObservationLog!Get(q)
<1> DEFINE r == requests[q]
<1>1. /\ r.pc = "received" /\ r.kind = "get" /\ r.id \in Ids /\ r.page = <<>>
      /\ IsRequest(r)
  BY DEF HandleGet, LogInv, RequestsOK, RequestOK
<1>2. PICK s, page :
         /\ Update(q, s) /\ IsRequest(s)
         /\ s.pc = "done" /\ s.kind = "get" /\ s.id = r.id /\ s.page = page
         /\ s.status \in {200, 404}
         /\ \/ HasRow(r.id) /\ page = <<RowOf(r.id)>>
            \/ ~HasRow(r.id) /\ page = <<>>
  <2>1. CASE HasRow(r.id)
    <3> DEFINE found == <<RowOf(r.id)>>
               s == [r EXCEPT !.pc = "done", !.status = 200, !.page = found]
    <3>1. Update(q, s)
      BY <2>1 DEF HandleGet
    <3> HIDE DEF found
    <3>2. /\ IsRequest(s) /\ s.pc = "done" /\ s.kind = "get" /\ s.id = r.id
          /\ s.page = found /\ s.status = 200
      BY <1>1 DEF IsRequest, RequestFields
    <3> HIDE DEF s
    <3> QED
      BY <2>1, <3>1, <3>2 DEF found
  <2>2. CASE ~HasRow(r.id)
    <3> DEFINE s == AnsweredWith(r, 404)
    <3>1. Update(q, s)
      BY <2>2 DEF HandleGet, Respond, AnsweredWith
    <3>2. /\ IsRequest(s) /\ s.pc = "done" /\ s.kind = "get" /\ s.id = r.id
          /\ s.page = <<>> /\ s.status = 404
      BY <1>1, AnsweredForm, AnsweredPage
    <3> QED
      BY <2>2, <3>1, <3>2
  <2> QED
    BY <2>1, <2>2
<1>4. requests' = [requests EXCEPT ![q] = s] /\ UNCHANGED <<rows, imports>>
  BY <1>2 DEF Update, storeVars, importVars
<1>5. /\ RequestOK(s) /\ ListedPage(s) = <<>> /\ ListedPage(r) = <<>>
      /\ ToldOf(s) = <<r.id, page>>
  BY <1>1, <1>2 DEF RequestOK, ListedPage, ToldOf
<1>6. /\ RequestsOK'
      /\ ShownPages' = [ShownPages EXCEPT ![<<"api", q>>] = <<>>]
      /\ Told' = [Told EXCEPT ![q] = <<r.id, page>>]
  BY <1>4, <1>5, ViewOfRequests DEF LogInv
<1>7. ShownPages' = ShownPages
  <2>1. <<"api", q>> \in Readers
    BY DEF Readers
  <2>2. ShownPages[<<"api", q>>] = <<>>
    BY <1>5, <2>1 DEF ShownPages
  <2> QED
    BY <1>6, <2>2, Zenon DEF ShownPages
<1>8. PrintedRows' = PrintedRows
  BY <1>4 DEF PrintedRows, Acknowledged
<1>9. ObservationLog!IsAnswer(r.id, page)
  BY <1>2, RowOfRun DEF ObservationLog!IsAnswer, HasRow, LogInv
<1>10. page \in {<<>>} \cup {<<e>> : e \in rows}
  BY <1>2, RowOfRun DEF LogInv
<1> QED
  BY <1>1, <1>4, <1>6, <1>7, <1>8, <1>9, <1>10, Zenon
     DEF ObservationLog!Get, Told

LEMMA HandlerStepOfLog ==
    ASSUME Backend = "postgres", LogInv, NEW q \in Requests, UNCHANGED evals,
           HandlerStep(q)
    PROVE  RequestsOK' /\ (ObservationLog!Next \/ UNCHANGED LogView)
<1> DEFINE r == requests[q]
<1>1. RequestOK(r) /\ IsRequest(r) /\ <<"api", q>> \in Readers
  BY DEF LogInv, RequestsOK, RequestOK, Readers
<1>2. CASE QueryFails(q)
  <2> DEFINE s == AnsweredWith(r, 500)
  <2>1. Update(q, s) /\ r.pc = "received" /\ r.status = 0
    BY <1>1, <1>2 DEF QueryFails, Respond, RequestOK, AnsweredWith
  <2>2. /\ IsRequest(s) /\ s.pc = "done" /\ s.status = 500 /\ s.kind = r.kind
        /\ s.page = r.page
    BY <1>1, AnsweredForm, AnsweredPage
  <2> HIDE DEF s
  <2>3. RequestOK(s) /\ ListedPage(s) = ListedPage(r) /\ ToldOf(s) = ToldOf(r)
    BY <2>1, <2>2 DEF RequestOK, ListedPage, ToldOf
  <2> QED
    BY <2>1, <2>3, SilentRequest DEF LogInv
<1>3. CASE HandleList(q)
  <2>1. PICK page \in Pages(r.limit) :
          Update(q, [r EXCEPT !.pc = "done", !.status = 200, !.page = page])
    BY <1>3 DEF HandleList
  <2> DEFINE s == [r EXCEPT !.pc = "done", !.status = 200, !.page = page]
  <2>2. r.pc = "received" /\ r.kind = "list"
    BY <1>3 DEF HandleList
  <2>3. IsRequest(s) /\ s.pc = "done" /\ s.kind = "list" /\ s.page = page
    BY <1>1, <2>2 DEF IsRequest, RequestFields
  <2> HIDE DEF s
  <2>4. RequestOK(s)
    BY <2>3 DEF RequestOK
  <2>5. Update(q, s)
    BY <2>1 DEF s
  <2>6. RequestsOK' /\ ObservationLog!List(<<"api", q>>)
    BY <2>2, <2>3, <2>4, <2>5, PageStep
  <2> QED
    BY <1>1, <2>6 DEF ObservationLog!Next
<1>4. CASE ListForCrossings(q)
  <2>1. PICK page \in Pages(r.limit) :
          Update(q, [r EXCEPT !.pc = "listed", !.page = page])
    BY <1>4 DEF ListForCrossings
  <2> DEFINE s == [r EXCEPT !.pc = "listed", !.page = page]
  <2>2. r.pc = "received" /\ r.kind = "crossings" /\ r.status = 0
    BY <1>1, <1>4 DEF ListForCrossings, RequestOK
  <2>3. /\ IsRequest(s) /\ s.pc = "listed" /\ s.kind = "crossings"
        /\ s.page = page /\ s.status = 0
    BY <1>1, <2>2 DEF IsRequest, RequestFields
  <2> HIDE DEF s
  <2>4. RequestOK(s)
    BY <2>3 DEF RequestOK
  <2>5. Update(q, s)
    BY <2>1 DEF s
  <2>6. RequestsOK' /\ ObservationLog!List(<<"api", q>>)
    BY <2>2, <2>3, <2>4, <2>5, PageStep
  <2> QED
    BY <1>1, <2>6 DEF ObservationLog!Next
<1>5. CASE EvaluateCrossings(q)
  <2>1. r.kind = "crossings"
    BY <1>1, <1>5 DEF EvaluateCrossings, RequestOK
  <2> DEFINE result == Evaluate(r.engine, r.page, AsOf(q))
             status == IF result.ok THEN 200 ELSE 500
             s == [r EXCEPT !.pc = "done", !.status = status, !.asOf = AsOf(q),
                            !.crossings = result.crossings]
  <2>2. Update(q, s)
    BY <1>5, Zenon DEF EvaluateCrossings
  <2> HIDE DEF status, result
  <2>3. IsRequest(s) /\ s.pc = "done" /\ s.kind = "crossings" /\ s.page = r.page
    BY <1>1, <2>1 DEF IsRequest, RequestFields
  <2> HIDE DEF s
  <2>4. RequestOK(s) /\ ListedPage(s) = ListedPage(r) /\ ToldOf(s) = ToldOf(r)
    BY <2>1, <2>3 DEF RequestOK, ListedPage, ToldOf
  <2> QED
    BY <2>2, <2>4, SilentRequest DEF LogInv
<1>6. CASE HandleGet(q)
  BY <1>6, GetStep DEF ObservationLog!Next
<1> QED
  BY <1>2, <1>3, <1>4, <1>5, <1>6 DEF HandlerStep

LEMMA AcceptOfLog ==
    ASSUME LogInv, NEW q \in Requests, UNCHANGED evals, Accept(q)
    PROVE  RequestsOK' /\ UNCHANGED LogView
<1> DEFINE r == requests[q]
<1>1. RequestOK(r) /\ IsRequest(r)
  BY DEF LogInv, RequestsOK, RequestOK
<1>2. r.pc = "idle"
  BY DEF Accept, Receive, ReceiveBad
<1>3. r.kind = "list" /\ r.page = <<>> /\ r.status = 0
  BY <1>1, <1>2 DEF RequestOK
<1>4. ASSUME NEW kind, NEW limit, NEW id
      PROVE  LET s == Arriving(q, kind, limit, id)
             IN  /\ IsRequest(s) /\ s.pc = "received" /\ s.kind = kind
                 /\ s.limit = limit /\ s.id = id
                 /\ s.page = <<>> /\ s.status = 0
  BY <1>1, <1>3 DEF IsRequest, RequestFields, Arriving
<1>5. CASE Receive(q)
  <2>1. PICK kind, limit, id :
          /\ Update(q, Arriving(q, kind, limit, id))
          /\ \/ kind # "get" /\ limit \in Limits /\ limit > 0
             \/ kind = "get" /\ id \in Ids
    BY <1>5 DEF Receive
  <2> DEFINE s == Arriving(q, kind, limit, id)
  <2>2. /\ IsRequest(s) /\ s.pc = "received" /\ s.kind = kind /\ s.limit = limit
        /\ s.id = id /\ s.page = <<>> /\ s.status = 0
    BY <1>4
  <2> HIDE DEF s
  <2>3. RequestOK(s) /\ ListedPage(s) = ListedPage(r) /\ ToldOf(s) = ToldOf(r)
    BY <1>3, <2>1, <2>2 DEF RequestOK, ListedPage, ToldOf
  <2> QED
    BY <2>1, <2>3, SilentRequest DEF LogInv, s
<1>6. CASE ReceiveBad(q)
  <2>1. PICK kind : Update(q, [Arriving(q, kind, 0, BadId)
                                  EXCEPT !.pc = "done", !.status = 400])
    BY <1>6 DEF ReceiveBad
  <2> DEFINE a == Arriving(q, kind, 0, BadId)
             s == AnsweredWith(a, 400)
  <2>2. IsRequest(a) /\ a.page = <<>> /\ a.kind = kind
    BY <1>4
  <2> HIDE DEF a
  <2>3. IsRequest(s) /\ s.pc = "done" /\ s.status = 400 /\ s.page = <<>>
    BY <2>2, AnsweredForm, AnsweredPage
  <2>4. Update(q, s)
    BY <2>1 DEF a, AnsweredWith
  <2> HIDE DEF s
  <2>5. RequestOK(s) /\ ListedPage(s) = ListedPage(r) /\ ToldOf(s) = ToldOf(r)
    BY <1>3, <2>3 DEF RequestOK, ListedPage, ToldOf
  <2> QED
    BY <2>4, <2>5, SilentRequest DEF LogInv
<1> QED
  BY <1>5, <1>6 DEF Accept

LEMMA DroppedRequest ==
    ASSUME NEW r, RequestOK(r)
    PROVE  LET s == [r EXCEPT !.pc = "dropped"]
           IN  /\ RequestOK(s) /\ ListedPage(s) = ListedPage(r)
               /\ ToldOf(s) = ToldOf(r)
<1> DEFINE s == [r EXCEPT !.pc = "dropped"]
<1>1. /\ IsRequest(s) /\ s.pc = "dropped" /\ s.kind = r.kind /\ s.page = r.page
      /\ s.id = r.id /\ s.status = r.status
  BY DEF RequestOK, IsRequest, RequestFields
<1> HIDE DEF s
<1>2. RequestOK(s) /\ ListedPage(s) = ListedPage(r) /\ ToldOf(s) = ToldOf(r)
  BY <1>1 DEF RequestOK, ListedPage, ToldOf
<1> QED
  BY <1>2 DEF s

\* The connections of a process that ends take nothing back.
LEMMA DropOfLog ==
    ASSUME LogInv, requests' = Dropped, UNCHANGED <<rows, imports, evals>>
    PROVE  RequestsOK' /\ UNCHANGED LogView
<1>1. ASSUME NEW q \in Requests
      PROVE  /\ RequestOK(requests'[q])
             /\ ListedPage(requests'[q]) = ListedPage(requests[q])
             /\ ToldOf(requests'[q]) = ToldOf(requests[q])
  <2>1. RequestOK(requests[q])
    BY DEF LogInv, RequestsOK
  <2> QED
    BY <2>1, DroppedRequest DEF Dropped
<1>2. RequestsOK'
  <2>1. requests' = [q \in Requests |-> requests'[q]]
    BY DEF Dropped
  <2> QED
    BY <1>1, <2>1 DEF RequestsOK, RequestOK, IsRequest
<1>3. ShownPages' = ShownPages
  <2>1. ShownPages' = [x \in Readers |-> IF x[1] = "api" THEN ListedPage(requests'[x[2]])
                                         ELSE evals[x[2]].page]
    BY DEF ShownPages, ListedPage
  <2>2. ASSUME NEW x \in Readers, x[1] = "api"
        PROVE  ListedPage(requests'[x[2]]) = ListedPage(requests[x[2]])
    <3>1. x[2] \in Requests
      BY <2>2 DEF Readers
    <3> QED
      BY <1>1, <3>1
  <2> QED
    BY <2>1, <2>2 DEF ShownPages
<1>4. Told' = Told
  <2>1. Told' = [q \in Requests |-> ToldOf(requests'[q])]
    BY DEF Told, ToldOf
  <2> QED
    BY <1>1, <2>1 DEF Told
<1>5. PrintedRows' = PrintedRows
  BY DEF PrintedRows, Acknowledged
<1> QED
  BY <1>2, <1>3, <1>4, <1>5 DEF LogView

LEMMA ReadersIdle ==
    ASSUME LogInv, UNCHANGED <<evals, requests>>
    PROVE  RequestsOK' /\ RunsOK' /\ ShownPages' = ShownPages /\ Told' = Told
<1>1. RequestsOK' /\ RunsOK'
  BY DEF LogInv, RequestsOK, RequestOK, IsRequest, RunsOK, RunOK, IsRun
<1>2. ShownPages' = ShownPages
  BY DEF ShownPages, ListedPage
<1>3. Told' = Told
  BY Zenon DEF Told, ToldOf
<1> QED
  BY <1>1, <1>2, <1>3

LEMMA NothingMoves ==
    ASSUME LogInv, UNCHANGED <<rows, imports, evals, requests>>
    PROVE  RequestsOK' /\ RunsOK' /\ UNCHANGED LogView
<1>1. PrintedRows' = PrintedRows
  BY DEF PrintedRows, Acknowledged
<1> QED
  BY <1>1, ReadersIdle DEF LogView

LEMMA ServeStepOfLog ==
    ASSUME Backend = "postgres", LogInv, ServeNext, UNCHANGED evals
    PROVE  RequestsOK' /\ (ObservationLog!Next \/ UNCHANGED LogView)
<1>1. UNCHANGED <<rows, imports>>
  BY ReadersReadOnly DEF storeVars, importVars
<1>2. CASE CommandStep \/ ServeReturns \/ Cancel \/ KillServer \/ Restart
  <2>1. requests' = requests \/ requests' = Dropped
    BY <1>2 DEF CommandStep, LoadAndCompile, OpenRepository, Listen, BeginShutdown,
       ServeReturns, CloseRepository, Exit, Cancel, KillServer, Restart, apiVars
  <2> QED
    BY <1>1, <2>1, NothingMoves, DropOfLog
<1>3. ASSUME NEW q \in Requests, Accept(q) \/ Handle(q) \/ Disconnect(q)
      PROVE  RequestsOK' /\ (ObservationLog!Next \/ UNCHANGED LogView)
  <2>1. CASE Accept(q)
    BY <2>1, AcceptOfLog
  <2>2. CASE Handle(q)
    BY <2>2, HandlerStepOfLog DEF Handle
  <2>3. CASE Disconnect(q)
    BY <2>3, DroppedRequest, SilentRequest DEF Disconnect, LogInv, RequestsOK
  <2> QED
    BY <1>3, <2>1, <2>2, <2>3
<1> QED
  BY <1>2, <1>3 DEF ServeNext

LEMMA EvalStepOfLog ==
    ASSUME Backend = "postgres", LogInv, EvalNext, UNCHANGED requests
    PROVE  RunsOK' /\ (ObservationLog!Next \/ UNCHANGED LogView)
<1>1. PICK e \in Evals : EvalStep(e)
  BY DEF EvalNext
<1> DEFINE r == evals[e]
<1>2. UNCHANGED <<rows, imports>>
  BY ReadersReadOnly DEF storeVars, importVars
<1>3. IsRun(r) /\ RunOK(r) /\ <<"cli", e>> \in Readers
  BY DEF LogInv, RunsOK, RunOK, Readers
<1>4. PrintedRows' = PrintedRows /\ Told' = Told
  BY <1>2, Zenon DEF PrintedRows, Acknowledged, Told, ToldOf
<1>5. ASSUME NEW s, evals' = [evals EXCEPT ![e] = s], RunOK(s), s.page = r.page
      PROVE  RunsOK' /\ UNCHANGED LogView
  <2>1. RunsOK' /\ ShownPages' = [ShownPages EXCEPT ![<<"cli", e>>] = r.page]
    BY <1>5, ViewOfRuns DEF LogInv
  <2>2. ShownPages[<<"cli", e>>] = r.page
    BY <1>3 DEF ShownPages
  <2>3. ShownPages' = ShownPages
    BY <2>1, <2>2, Zenon DEF ShownPages
  <2> QED
    BY <1>2, <1>4, <2>1, <2>3 DEF LogView
<1>6. CASE EvaluateRejected(e) \/ EvaluateListFails(e)
  <2> DEFINE s == [r EXCEPT !.pc = "failed"]
  <2>1. evals' = [evals EXCEPT ![e] = s]
    BY <1>6 DEF EvaluateRejected, EvaluateListFails
  <2>2. IsRun(s) /\ s.pc = "failed" /\ s.page = r.page
    BY <1>3 DEF IsRun, RunFields
  <2> HIDE DEF s
  <2> QED
    BY <1>5, <2>1, <2>2 DEF RunOK
<1>7. CASE StartEvaluate(e)
  <2>1. PICK asOf \in AsOfFlags \cup {now}, limit \in {l \in Limits : l > 0},
             f \in {g \in Firelines : Compiles(g)},
             b \in {g \in Firelines : Compiles(g)} \cup {NoFireline} :
          evals' = [evals EXCEPT ![e] =
             [@ EXCEPT !.pc = "compiled", !.fireline = f, !.against = b,
                       !.asOf = asOf, !.limit = limit,
                       !.acked = Acknowledged, !.finished = FinishedEvals]]
    BY <1>7 DEF StartEvaluate
  <2> DEFINE s == [r EXCEPT !.pc = "compiled", !.fireline = f, !.against = b,
                            !.asOf = asOf, !.limit = limit,
                            !.acked = Acknowledged, !.finished = FinishedEvals]
  <2>2. IsRun(s) /\ s.limit = limit /\ s.page = r.page
    BY <1>3 DEF IsRun, RunFields
  <2>3. evals' = [evals EXCEPT ![e] = s]
    BY <2>1
  <2> HIDE DEF s
  <2> QED
    BY <1>5, <2>1, <2>2, <2>3 DEF RunOK
<1>8. CASE ListAndReport(e)
  <2>1. PICK page \in Pages(r.limit) :
          evals' = [evals EXCEPT ![e] = Reporting(r, page, page)]
    BY <1>8, Zenon DEF ListAndReport
  <2>2. r.limit \in Limits /\ r.limit > 0
    BY <1>3, <1>8 DEF ListAndReport, RunOK
  <2> DEFINE s == Reporting(r, page, page)
  <2>3. PICK pc, report : /\ s = [r EXCEPT !.pc = pc, !.page = page, !.report = report]
                          /\ pc \in {"ok", "failed"}
    BY Zenon DEF Reporting
  <2> HIDE DEF s
  <2>4. IsRun(s) /\ s.pc = pc /\ s.page = page
    BY <1>3, <2>3 DEF IsRun, RunFields
  <2>5. RunOK(s)
    BY <2>3, <2>4 DEF RunOK
  <2>6. evals' = [evals EXCEPT ![e] = s]
    BY <2>1 DEF s
  <2>7. RunsOK' /\ ShownPages' = [ShownPages EXCEPT ![<<"cli", e>>] = page]
    BY <2>4, <2>5, <2>6, ViewOfRuns DEF LogInv
  <2>8. r.limit \in Int /\ rows \subseteq ObservationType /\ IsFiniteSet(rows)
    BY <2>2, LimitsAssumption DEF LogInv, ImportInv, StoreTypeOK
  <2>9. \E n \in 0..(r.limit) :
           page \in [1..n -> rows] /\ ObservationLog!IsCut(page, r.limit)
    BY <2>2, <2>8, PageIsCut
  <2>10. ObservationLog!List(<<"cli", e>>)
    BY <1>2, <1>4, <2>2, <2>7, <2>9, Zenon DEF ObservationLog!List, Told
  <2> QED
    BY <1>3, <2>7, <2>10 DEF ObservationLog!Next
<1> QED
  BY <1>1, <1>6, <1>7, <1>8 DEF EvalStep

-----------------------------------------------------------------------------
(* Imports append and acknowledge. *)

\* What a run has built comes from a file.
LEMMA ClaimsOKNext ==
    ASSUME ImportInv, ClaimsOK, [Next]_vars
    PROVE  ClaimsOK'
<1>1. CASE UNCHANGED imports
  BY <1>1 DEF ClaimsOK
<1>2. CASE ImportNext
  <2>1. PICK j \in Ids : ImportStep(j) \/ CommitLate(j) \/ KillImport(j)
    BY <1>2 DEF ImportNext
  <2>2. CASE Build(j)
    <3>1. PICK claim \in Claims :
            imports' = [imports EXCEPT ![j].pc = "built",
                                       ![j].obs = NewObservation(j, claim, now)]
      BY <2>2 DEF Build
    <3>2. NewObservation(j, claim, now).claim = claim
      BY DEF NewObservation
    <3> QED
      BY <3>1, <3>2 DEF ClaimsOK, ImportInv, ImportTypeOK
  <2>3. CASE ~Build(j)
    <3>1. \A i \in Ids : imports'[i].obs = imports[i].obs
      BY <2>1, <2>3 DEF ImportInv, ImportTypeOK, ImportStep, ImportRejected,
         OpenImport, OpenImportFails, Insert, InsertFails, ReadBack,
         ReadBackFails, CommitLate, KillImport, Goto
    <3> QED
      BY <3>1 DEF ClaimsOK
  <2> QED
    BY <2>2, <2>3
<1> QED
  BY <1>1, <1>2, ReadersReadOnly DEF Next, vars, importVars

LEMMA FiniteNext ==
    ASSUME IsFiniteSet(rows), [Next]_vars
    PROVE  IsFiniteSet(rows)'
<1>1. CASE rows' = rows
  BY <1>1
<1>2. ASSUME NEW j \in Ids, rows' = WithRow(imports[j].obs)
      PROVE  IsFiniteSet(rows)'
  <2>1. rows' = rows \cup {Stored(imports[j].obs)}
    BY <1>2 DEF WithRow
  <2> QED
    BY <2>1, FS_AddElement
<1> QED
  BY <1>1, <1>2, OnlyInsertsWrite

\* A run's own row is one that imports may leave, and it is new.
LEMMA AppendStep ==
    ASSUME LogInv, NEW i \in Ids, imports[i].pc \in {"open", "lost"},
           rows' = WithRow(imports[i].obs), PrintedRows' = PrintedRows,
           UNCHANGED <<evals, requests>>
    PROVE  \E entry \in Importable : ObservationLog!AppendEntry(entry)
<1> DEFINE obs == imports[i].obs
           entry == Stored(obs)
<1>1. obs \in ObservationType /\ obs.id = i /\ obs # NoObs
  BY BuiltUnderOwnId, NoObsAssumption DEF LogInv
<1>2. entry.id = i
  BY <1>1, StoredType
<1>3. entry \in Importable
  <2>1. /\ obs = NewObservation(i, obs.claim, obs.ingestedAt)
        /\ Validate(obs.claim) /\ obs.ingestedAt <= now
    BY <1>1 DEF LogInv, ImportInv, BuiltObservations
  <2>2. obs.claim \in Claims
    BY <1>1 DEF LogInv, ClaimsOK
  <2>3. obs.ingestedAt \in 0..MaxNow
    BY <1>1, <2>1, MaxNowAssumption
       DEF ObservationType, LogInv, ImportInv, StoreTypeOK
  <2>4. obs.claim \in {c \in Claims : Validate(c)}
    BY <2>1, <2>2
  <2>5. entry = Stored(NewObservation(i, obs.claim, obs.ingestedAt))
    BY <2>1
  <2> HIDE DEF obs, entry
  <2> QED
    BY <2>3, <2>4, <2>5 DEF Importable
<1>4. \A e \in rows : e.id # i
  BY DEF LogInv, ImportInv, RowsComeFromRuns, HasWritten
<1>5. ShownPages' = ShownPages /\ Told' = Told
  BY ReadersIdle
<1> QED
  BY <1>2, <1>3, <1>4, <1>5, Zenon DEF ObservationLog!AppendEntry, WithRow, Told

\* A run that exits 0 acknowledges the entry it has printed.
LEMMA AcknowledgeStep ==
    ASSUME LogInv, NEW i \in Ids, ReadBack(i), UNCHANGED <<evals, requests>>
    PROVE  \E entry \in rows : ObservationLog!Acknowledge(entry)
<1>1. /\ imports[i].pc = "inserted" /\ HasRow(i) /\ rows' = rows
      /\ imports' = [imports EXCEPT ![i].pc = "ok", ![i].printed = RowOf(i)]
  BY DEF ReadBack, storeVars
<1>2. RowOf(i) \in rows
  BY <1>1, RowOfRun DEF LogInv
<1>3. Acknowledged' = Acknowledged \cup {i} /\ i \notin Acknowledged
  BY <1>1 DEF Acknowledged, LogInv, ImportInv, ImportTypeOK
<1>4. \A j \in Acknowledged' :
         imports'[j].printed = IF j = i THEN RowOf(i) ELSE imports[j].printed
  BY <1>1 DEF Acknowledged, LogInv, ImportInv, ImportTypeOK
<1>5. PrintedRows' = PrintedRows \cup {RowOf(i)}
  BY <1>3, <1>4 DEF PrintedRows
<1>6. ShownPages' = ShownPages /\ Told' = Told
  BY ReadersIdle
<1> QED
  BY <1>1, <1>2, <1>5, <1>6, Zenon DEF ObservationLog!Acknowledge, Told

LEMMA ImportStepOfLog ==
    ASSUME LogInv, ImportNext, UNCHANGED <<evals, requests>>
    PROVE  ObservationLog!Next \/ UNCHANGED LogView
<1>1. PICK j \in Ids : ImportStep(j) \/ CommitLate(j) \/ KillImport(j)
  BY DEF ImportNext
<1>2. ASSUME ~ReadBack(j)
      PROVE  PrintedRows' = PrintedRows
  <2>1. \A i \in Ids : /\ imports'[i].pc = "ok" <=> imports[i].pc = "ok"
                       /\ imports'[i].printed = imports[i].printed
    BY <1>1, <1>2 DEF LogInv, ImportInv, ImportTypeOK, ImportStep, ImportRejected,
       Build, OpenImport, OpenImportFails, Insert, InsertFails,
       ReadBackFails, CommitLate, KillImport, Goto
  <2>2. Acknowledged' = Acknowledged
    BY <2>1 DEF Acknowledged
  <2>3. PrintedRows' = {imports'[i].printed : i \in Acknowledged}
    BY <2>2, Zenon DEF PrintedRows
  <2>4. \A i \in Acknowledged : imports'[i].printed = imports[i].printed
    BY <2>1 DEF Acknowledged
  <2> QED
    BY <2>3, <2>4 DEF PrintedRows
<1>3. CASE Insert(j) \/ CommitLate(j)
  <2>1. imports[j].pc \in {"open", "lost"} /\ rows' = WithRow(imports[j].obs)
    BY <1>3 DEF Insert, CommitLate
  <2>2. ~ReadBack(j)
    BY <2>1 DEF ReadBack
  <2> QED
    BY <1>2, <2>1, <2>2, AppendStep DEF ObservationLog!Next
<1>4. CASE ReadBack(j)
  BY <1>4, AcknowledgeStep DEF ObservationLog!Next
<1>5. CASE ~Insert(j) /\ ~CommitLate(j) /\ ~ReadBack(j)
  <2>1. rows' = rows
    BY <1>1, <1>5 DEF ImportStep, ImportRejected, Build, OpenImport,
       OpenImportFails, InsertFails, ReadBackFails, KillImport, storeVars
  <2> QED
    BY <1>2, <1>5, <2>1, ReadersIdle DEF LogView
<1> QED
  BY <1>3, <1>4, <1>5

-----------------------------------------------------------------------------

LEMMA LogNext ==
    ASSUME Backend = "postgres", LogInv, [Next]_vars
    PROVE  LogInv' /\ (ObservationLog!Next \/ UNCHANGED LogView)
<1>1. ImportInv' /\ IsFiniteSet(rows)' /\ ClaimsOK'
  BY ImportInvNext, FiniteNext, ClaimsOKNext DEF LogInv
<1>2. RequestsOK' /\ RunsOK' /\ (ObservationLog!Next \/ UNCHANGED LogView)
  <2>1. CASE (Tick \/ Migrate) /\ UNCHANGED <<importVars, evalVars, apiVars, command>>
    BY <2>1, NothingMoves DEF Tick, Migrate, importVars, evalVars, apiVars
  <2>2. CASE ImportNext /\ UNCHANGED <<evalVars, apiVars, command>>
    BY <2>2, ImportStepOfLog, ReadersIdle DEF evalVars, apiVars
  <2>3. CASE EvalNext /\ UNCHANGED <<apiVars, command>>
    <3>1. UNCHANGED requests /\ RequestsOK'
      BY <2>3 DEF apiVars, LogInv, RequestsOK, RequestOK, IsRequest
    <3> QED
      BY <2>3, <3>1, EvalStepOfLog
  <2>4. CASE ServeNext /\ UNCHANGED evalVars
    <3>1. UNCHANGED evals /\ RunsOK'
      BY <2>4 DEF evalVars, LogInv, RunsOK, RunOK, IsRun
    <3> QED
      BY <2>4, <3>1, ServeStepOfLog
  <2>5. CASE UNCHANGED vars
    BY <2>5, NothingMoves DEF vars, storeVars, importVars, evalVars, apiVars
  <2> QED
    BY <2>1, <2>2, <2>3, <2>4, <2>5 DEF Next
<1> QED
  BY <1>1, <1>2 DEF LogInv

\* On Postgres, for any number of imports, evaluations and requests and wherever
\* they fail, are killed or interleave, what users see of fireline-core is an
\* append-only log: entries are added once, acknowledged from the log, and every
\* reader is shown one newest-first cut of it (importcmd.go:82-95,
\* api.go:58-120, evaluate.go:78-96).
THEOREM SystemIsLog ==
    ASSUME Backend = "postgres"
    PROVE  Spec => ImplementsLog
<1>1. Init => LogInv /\ ObservationLog!Init
  BY LogInvInit, LogInit
<1>2. LogInv /\ [Next]_vars => LogInv' /\ [ObservationLog!Next]_(ObservationLog!logVars)
  <2>1. ObservationLog!logVars' = ObservationLog!logVars <=> UNCHANGED LogView
    BY DEF ObservationLog!logVars, LogView, Told
  <2> QED
    BY <2>1, LogNext
<1> QED
  BY <1>1, <1>2, PTL DEF Spec, ImplementsLog, ObservationLog!Spec

-----------------------------------------------------------------------------
(* What a reader of the log may rely on. *)

Descending(page) ==
    \A j, k \in DOMAIN page : j < k => page[j].ingestedAt >= page[k].ingestedAt

ShownInOrder == \A r \in Readers : Descending(ShownPages[r])

LEMMA LogKeepsOrder ==
    ASSUME ShownInOrder, [ObservationLog!Next]_(ObservationLog!logVars)
    PROVE  ShownInOrder'
<1>1. CASE ShownPages' = ShownPages
  BY <1>1 DEF ShownInOrder, Descending
<1>2. ASSUME NEW reader \in Readers, ObservationLog!List(reader)
      PROVE  ShownInOrder'
  <2>1. PICK limit \in Limits : \E n \in 0..limit : \E page \in [1..n -> rows] :
           /\ ObservationLog!IsCut(page, limit)
           /\ ShownPages' = [ShownPages EXCEPT ![reader] = page]
    BY <1>2, Zenon DEF ObservationLog!List
  <2>2. PICK page : /\ Descending(page)
                    /\ ShownPages' = [ShownPages EXCEPT ![reader] = page]
    BY <2>1 DEF ObservationLog!IsCut, Descending
  <2>3. \A r \in Readers : ShownPages'[r] = IF r = reader THEN page ELSE ShownPages[r]
    BY <2>2, Zenon DEF ShownPages
  <2> QED
    BY <2>2, <2>3 DEF ShownInOrder, Descending
<1>3. CASE \/ UNCHANGED ObservationLog!logVars
           \/ \E entry \in Importable : ObservationLog!AppendEntry(entry)
           \/ \E entry \in rows : ObservationLog!Acknowledge(entry)
           \/ \E seeker \in Requests : ObservationLog!Get(seeker)
  <2>1. ShownPages' = ShownPages
    BY <1>3, Zenon DEF ObservationLog!logVars, ObservationLog!AppendEntry,
       ObservationLog!Acknowledge, ObservationLog!Get
  <2> QED
    BY <1>1, <2>1
<1> QED
  BY <1>2, <1>3 DEF ObservationLog!Next

PagesDescend == \A page \in PagesSeen : Descending(page)

\* On Postgres every page that a request or an evaluation was given is newest
\* first, because a log's readers are shown nothing else.
LEMMA PagesInOrder ==
    ASSUME Backend = "postgres"
    PROVE  Spec => []PagesDescend
<1>1. ObservationLog!Init => ShownInOrder
  BY DEF ObservationLog!Init, ShownInOrder, Descending
<1>2. ShownInOrder /\ [ObservationLog!Next]_(ObservationLog!logVars) => ShownInOrder'
  BY LogKeepsOrder
<1>3. ShownInOrder => PagesDescend
  <2> SUFFICES ASSUME ShownInOrder, NEW page \in PagesSeen PROVE Descending(page)
    BY DEF PagesDescend
  <2>1. CASE page \in {requests[q].page : q \in Successful("list") \cup Successful("crossings")}
    <3>1. PICK q \in Requests : requests[q].kind # "get" /\ page = requests[q].page
      BY <2>1 DEF Successful, Answered
    <3>2. <<"api", q>> \in Readers /\ ShownPages[<<"api", q>>] = page
      BY <3>1 DEF Readers, ShownPages, ListedPage
    <3> QED
      BY <3>2 DEF ShownInOrder
  <2>2. CASE page \in {evals[e].page : e \in FinishedEvals}
    <3>1. PICK e \in Evals : page = evals[e].page
      BY <2>2 DEF FinishedEvals
    <3>2. <<"cli", e>> \in Readers /\ ShownPages[<<"cli", e>>] = page
      BY <3>1 DEF Readers, ShownPages
    <3> QED
      BY <3>2 DEF ShownInOrder
  <2> QED
    BY <2>1, <2>2 DEF PagesSeen
<1>4. Spec => ImplementsLog
  BY SystemIsLog
<1> QED
  BY <1>1, <1>2, <1>3, <1>4, PTL DEF ImplementsLog, ObservationLog!Spec

-----------------------------------------------------------------------------
(* The order of the column. *)

\* A text starts with the seconds: the digits after them are a sequence, for a
\* fraction that is not zero has a last digit that is not.
LEMMA TimeTextStarts ==
    ASSUME NEW t \in Nat
    PROVE  1 \in DOMAIN TimeText(t) /\ TimeText(t)[1] = t \div Second
<1> DEFINE significant == {i \in 1..FracDigits : FracDigit(t, i) # 0}
           IsLast(n) == /\ n = 0 \/ n \in significant
                        /\ \A i \in significant : i <= n
           kept == CHOOSE n \in 0..FracDigits : IsLast(n)
           fraction == [i \in 1..kept |-> 1 + FracDigit(t, i)]
           tail == IF kept = 0 THEN <<Zed>> ELSE <<Dot>> \o fraction \o <<Zed>>
           Chars == {Dot, Zed, t \div Second} \cup {1 + FracDigit(t, i) : i \in 1..kept}
<1>1. FracDigits \in Nat
  BY ClockAssumption
<1>2. \E n \in 0..FracDigits : IsLast(n)
  <2> DEFINE bounds == {n \in 0..FracDigits : \A i \in significant : i <= n}
  <2>1. significant \subseteq 1..FracDigits
    OBVIOUS
  <2> HIDE DEF significant
  <2>2. bounds \in SUBSET Nat
    BY <1>1
  <2>3. FracDigits \in bounds
    BY <1>1, <2>1
  <2>4. PICK n \in bounds : \A m \in bounds : n <= m
    BY <2>2, <2>3, LeastOf
  <2>5. CASE n = 0 \/ n \in significant
    BY <2>4, <2>5
  <2>6. CASE n # 0 /\ n \notin significant
    <3>1. n \in 1..FracDigits /\ \A i \in significant : i <= n
      BY <1>1, <2>6
    <3>2. \A i \in significant : i \in Nat /\ i <= n - 1
      BY <1>1, <2>1, <2>6, <3>1
    <3>3. n - 1 \in bounds
      BY <1>1, <3>1, <3>2
    <3> QED
      BY <1>1, <2>4, <3>1, <3>3
  <2> QED
    BY <2>5, <2>6
<1> HIDE DEF IsLast
<1>3. kept \in 0..FracDigits
  BY <1>2
<1> HIDE DEF kept
<1>4. fraction \in Seq(Chars)
  <2>1. fraction \in [1..kept -> Chars]
    <3> HIDE DEF fraction
    <3>1. fraction = [i \in 1..kept |-> 1 + FracDigit(t, i)]
      BY DEF fraction
    <3> QED
      BY <3>1
  <2>2. kept \in Nat
    BY <1>1, <1>3
  <2> HIDE DEF fraction, Chars
  <2> QED
    BY <2>1, <2>2, SeqDef
<1>5. Dot \in Chars /\ Zed \in Chars /\ t \div Second \in Chars
  OBVIOUS
<1>6. TimeText(t) = <<t \div Second>> \o tail
  BY Zenon DEF TimeText, tail, fraction, kept, IsLast, significant
<1> HIDE DEF fraction, Chars
<1>7. tail \in Seq(Chars)
  BY <1>4, <1>5
<1> HIDE DEF tail
<1>8. <<t \div Second>> \in Seq(Chars)
  BY <1>5
<1> QED
  BY <1>5, <1>6, <1>7, <1>8

\* What decides the order of two rows whatever else the column keeps of a time:
\* the instant on Postgres, its second on Turso.
Rank(t) == IF Backend = "postgres" THEN t ELSE t \div Second

LEMMA RankDecides ==
    ASSUME NEW x \in ObservationType, NEW y \in ObservationType
    PROVE  /\ Rank(x.ingestedAt) \in Nat
           /\ Rank(x.ingestedAt) > Rank(y.ingestedAt) => SortsBefore(x, y)
<1> DEFINE t == x.ingestedAt
           u == y.ingestedAt
<1>1. t \in Nat /\ u \in Nat
  BY DEF ObservationType
<1> HIDE DEF t, u
<1>2. t \div Second \in Nat
  BY <1>1, SecondAssumption
<1>3. ASSUME t \div Second > u \div Second
      PROVE  TextBefore(TimeText(u), TimeText(t))
  <2>1. /\ 1 \in DOMAIN TimeText(u) \cap DOMAIN TimeText(t)
        /\ TimeText(u)[1] < TimeText(t)[1]
    <3>1. t \div Second \in Int /\ u \div Second \in Int
      BY <1>1, SecondAssumption
    <3> QED
      BY <1>1, <1>3, <3>1, TimeTextStarts
  <2>2. 1..(1 - 1) = {}
    OBVIOUS
  <2> QED
    BY <2>1, <2>2 DEF TextBefore
<1> QED
  BY <1>1, <1>2, <1>3 DEF Rank, SortsBefore, t, u

\* Times of one second or later are of that rank or a higher one.
LEMMA RankOfSecond ==
    ASSUME NEW t \in Nat, NEW u \in Nat, Rank(t) >= Rank(u)
    PROVE  /\ t \div Second >= u \div Second
           /\ Backend = "postgres" => t >= u
<1>1. t >= u => t \div Second >= u \div Second
  BY SecondAssumption
<1> QED
  BY <1>1 DEF Rank

-----------------------------------------------------------------------------
(* The history of a finding, on either backend. *)

\* A row's fingerprint is that of the claim it holds: the columns that Postgres
\* alters are not part of it.
LEMMA StoredFingerprint ==
    ASSUME NEW id, NEW claim \in ClaimType, NEW t
    PROVE  LET row == Stored(NewObservation(id, claim, t))
           IN  row.fingerprint = ComputeFingerprint(row.claim)
  BY DEF Stored, NewObservation, ComputeFingerprint, ClaimType

LEMMA FingerprintOfFinding ==
    ASSUME NEW c, NEW d
    PROVE  ComputeFingerprint(c) = ComputeFingerprint(d) <=> SameFinding(c, d)
<1>1. \A e : /\ ComputeFingerprint(e).tool = e.tool
             /\ ComputeFingerprint(e).ruleID = e.ruleID
             /\ ComputeFingerprint(e).components = e.components
  BY DEF ComputeFingerprint
<1>2. SameFinding(c, d) => ComputeFingerprint(c) = ComputeFingerprint(d)
  BY Zenon DEF ComputeFingerprint, SameFinding
<1> QED
  BY <1>1, <1>2 DEF SameFinding

\* Rows that may not come before one another are of descending rank.
LEMMA NotBefore ==
    ASSUME NEW x \in ObservationType, NEW y \in ObservationType, ~SortsBefore(x, y)
    PROVE  /\ x.ingestedAt \div Second <= y.ingestedAt \div Second
           /\ Backend = "postgres" => x.ingestedAt <= y.ingestedAt
<1>1. x.ingestedAt \in Nat /\ y.ingestedAt \in Nat
  BY DEF ObservationType
<1>2. /\ Rank(x.ingestedAt) \in Nat /\ Rank(y.ingestedAt) \in Nat
      /\ ~(Rank(x.ingestedAt) > Rank(y.ingestedAt))
  BY RankDecides
<1>3. Rank(y.ingestedAt) >= Rank(x.ingestedAt)
  BY <1>2
<1>4. /\ y.ingestedAt \div Second >= x.ingestedAt \div Second
      /\ Backend = "postgres" => y.ingestedAt >= x.ingestedAt
  BY <1>1, <1>3, RankOfSecond
<1>5. x.ingestedAt \div Second \in Int /\ y.ingestedAt \div Second \in Int
  BY <1>1, SecondAssumption
<1> QED
  BY <1>1, <1>4, <1>5

LEMMA HistoryOfRow ==
    ASSUME rows \subseteq ObservationType, IsFiniteSet(rows),
           NEW fp, NEW list \in ListByFingerprint(fp)
    PROVE  /\ {list[k] : k \in DOMAIN list} = {row \in rows : row.fingerprint = fp}
           /\ \A j, k \in DOMAIN list : j < k =>
                 /\ list[j].ingestedAt \div Second <= list[k].ingestedAt \div Second
                 /\ Backend = "postgres" => list[j].ingestedAt <= list[k].ingestedAt
<1> DEFINE matching == {row \in rows : row.fingerprint = fp}
           n == Cardinality(matching)
<1>1. IsFiniteSet(matching) /\ n \in Nat
  BY FS_Subset, FS_CardinalityType
<1>2. /\ list \in [1..n -> matching]
      /\ \A i, j \in DOMAIN list :
            i < j => list[i] # list[j] /\ ~SortsBefore(list[i], list[j])
  BY DEF ListByFingerprint
<1> HIDE DEF n
<1>3. list \in Injection(1..n, matching)
  BY <1>1, <1>2 DEF Injection, IsInjective
<1>4. Cardinality(1..n) = n
  BY <1>1, FS_Interval
<1>5. list \in Surjection(1..n, matching)
  BY <1>1, <1>3, <1>4, FS_Injection DEF n
<1>6. {list[k] : k \in DOMAIN list} = matching
  BY <1>2, <1>5 DEF Surjection
<1>7. \A k \in DOMAIN list : list[k] \in ObservationType
  BY <1>2
<1> HIDE DEF matching
<1>8. ASSUME NEW j \in DOMAIN list, NEW k \in DOMAIN list, j < k
      PROVE  /\ list[j].ingestedAt \div Second <= list[k].ingestedAt \div Second
             /\ Backend = "postgres" => list[j].ingestedAt <= list[k].ingestedAt
  BY <1>2, <1>7, <1>8, NotBefore
<1> QED
  BY <1>6, <1>8 DEF matching

\* On either backend, for any number of imports and however they end: the
\* history of a finding is all that is stored of it and nothing else, with what
\* was acknowledged as it was printed, oldest first on Postgres and oldest second
\* first on Turso (repository.go:23-30, turso.go:105-128).
THEOREM HistoryIsComplete == Spec => []FindingHistory
<1>1. ImportInv /\ IsFiniteSet(rows) => FindingHistory
  <2> SUFFICES ASSUME ImportInv, IsFiniteSet(rows), NEW row \in rows,
                      NEW list \in ListByFingerprint(row.fingerprint)
               PROVE  /\ {list[k] : k \in DOMAIN list}
                            = {r \in rows : SameFinding(r.claim, row.claim)}
                      /\ \A i \in Acknowledged :
                            SameFinding(imports[i].obs.claim, row.claim) =>
                               \E k \in DOMAIN list : list[k] = imports[i].printed
                      /\ \A j, k \in DOMAIN list : j < k =>
                            /\ list[j].ingestedAt \div Second
                                  <= list[k].ingestedAt \div Second
                            /\ Backend = "postgres" =>
                                  list[j].ingestedAt <= list[k].ingestedAt
    BY DEF FindingHistory
  <2>1. ASSUME NEW r \in rows
        PROVE  /\ r.fingerprint = ComputeFingerprint(r.claim)
               /\ r.id \in Ids /\ r = Stored(imports[r.id].obs)
               /\ SameFinding(r.claim, imports[r.id].obs.claim)
    <3> DEFINE obs == imports[r.id].obs
    <3>1. r.id \in Ids
      BY DEF ImportInv, StoreTypeOK, ObservationType
    <3>2. /\ obs # NoObs /\ r = Stored(obs)
          /\ obs = NewObservation(r.id, obs.claim, obs.ingestedAt)
      BY <3>1 DEF ImportInv, RowsComeFromRuns, BuiltObservations
    <3>3. obs.claim \in ClaimType
      BY <3>1, <3>2 DEF ImportInv, ImportTypeOK, ObservationType
    <3> HIDE DEF obs
    <3>4. r.fingerprint = ComputeFingerprint(r.claim)
      BY <3>2, <3>3, StoredFingerprint
    <3>5. r.fingerprint = ComputeFingerprint(obs.claim)
      BY <3>2 DEF Stored, NewObservation
    <3>6. SameFinding(r.claim, obs.claim)
      BY <3>4, <3>5, FingerprintOfFinding
    <3> QED
      BY <3>1, <3>2, <3>4, <3>6 DEF obs
  <2>2. \A r \in rows : r.fingerprint = row.fingerprint <=> SameFinding(r.claim, row.claim)
    BY <2>1, FingerprintOfFinding
  <2>3. rows \subseteq ObservationType /\ IsFiniteSet(rows)
    BY DEF ImportInv, StoreTypeOK
  <2>4. /\ {list[k] : k \in DOMAIN list} = {r \in rows : r.fingerprint = row.fingerprint}
        /\ \A j, k \in DOMAIN list : j < k =>
              /\ list[j].ingestedAt \div Second <= list[k].ingestedAt \div Second
              /\ Backend = "postgres" => list[j].ingestedAt <= list[k].ingestedAt
    BY <2>3, HistoryOfRow
  <2>5. {list[k] : k \in DOMAIN list} = {r \in rows : SameFinding(r.claim, row.claim)}
    BY <2>2, <2>4
  <2>6. ASSUME NEW i \in Acknowledged, SameFinding(imports[i].obs.claim, row.claim)
        PROVE  \E k \in DOMAIN list : list[k] = imports[i].printed
    <3>1. HasRow(i) /\ RowOf(i) = imports[i].printed
      BY GetFindsPrinted
    <3>2. imports[i].printed \in rows /\ imports[i].printed.id = i
      BY <3>1, RowOfRun
    <3>3. SameFinding(imports[i].printed.claim, row.claim)
      BY <2>1, <2>6, <3>2 DEF SameFinding
    <3> QED
      BY <2>5, <3>2, <3>3
  <2> QED
    BY <2>4, <2>5, <2>6
<1>2. Init => ImportInv /\ IsFiniteSet(rows)
  BY LogInvInit DEF LogInv
<1>3. ImportInv /\ IsFiniteSet(rows) /\ [Next]_vars => ImportInv' /\ IsFiniteSet(rows)'
  BY ImportInvNext, FiniteNext
<1> QED
  BY <1>1, <1>2, <1>3, PTL DEF Spec
-----------------------------------------------------------------------------
(* Pages, on either backend. *)

\* Rows of the table, each at most once.
IsPage(page) ==
    \E n \in Nat : /\ page \in [1..n -> rows]
                   /\ \A j, k \in 1..n : page[j].id = page[k].id => j = k

LEMMA PageForm ==
    ASSUME NEW page, IsPage(page), rows \subseteq ObservationType
    PROVE  /\ Len(page) \in Nat /\ DOMAIN page = 1..Len(page)
           /\ page \in Seq(ObservationType)
           /\ \A k \in DOMAIN page : page[k] \in rows /\ page[k] \in ObservationType
           /\ \A j, k \in DOMAIN page : page[j].id = page[k].id => j = k
<1>1. PICK n \in Nat : /\ page \in [1..n -> rows]
                       /\ \A j, k \in 1..n : page[j].id = page[k].id => j = k
  BY DEF IsPage
<1>2. page \in Seq(ObservationType)
  <2>1. page \in [1..n -> ObservationType]
    BY <1>1
  <2> QED
    BY <2>1, SeqDef
<1>3. Len(page) \in Nat /\ DOMAIN page = 1..Len(page)
  BY <1>2, LenProperties
<1> QED
  BY <1>1, <1>2, <1>3

\* A page that the limit does not cut has every row.
LEMMA PageTaken ==
    ASSUME ImportInv, IsFiniteSet(rows), NEW limit \in Int, limit > 0,
           NEW page \in Pages(limit)
    PROVE  /\ IsPage(page)
           /\ Len(page) # limit => \A row \in rows : \E k \in DOMAIN page : page[k] = row
<1> DEFINE n == PageLen(limit)
<1>1. Cardinality(rows) \in Nat
  BY FS_CardinalityType
<1>2. n \in Nat /\ (n = limit \/ n = Cardinality(rows))
  BY <1>1 DEF PageLen
<1>3. /\ page \in [1..n -> rows]
      /\ \A i \in 1..n : \A j \in 1..(i - 1) : page[j] # page[i]
  BY DEF Pages
<1> HIDE DEF n
<1>4. \A j, k \in 1..n : page[j] = page[k] => j = k
  BY <1>2, <1>3
<1>5. \A x, y \in rows : x.id = y.id => x = y
  BY DEF ImportInv, RowsComeFromRuns
<1>6. \A j, k \in 1..n : page[j].id = page[k].id => j = k
  BY <1>3, <1>4, <1>5
<1>7. IsPage(page)
  BY <1>2, <1>3, <1>6 DEF IsPage
<1>8. Len(page) = n
  BY <1>2, <1>3, <1>7, PageForm DEF ImportInv, StoreTypeOK
<1>9. ASSUME n = Cardinality(rows)
      PROVE  \A row \in rows : \E k \in DOMAIN page : page[k] = row
  <2>1. page \in Injection(1..n, rows)
    BY <1>3, <1>4 DEF Injection, IsInjective
  <2>2. Cardinality(1..n) = n
    BY <1>2, FS_Interval
  <2>3. page \in Surjection(1..n, rows)
    BY <1>9, <2>1, <2>2, FS_Injection
  <2> QED
    BY <1>3, <2>3 DEF Surjection
<1> QED
  BY <1>2, <1>7, <1>8, <1>9

\* The rows of a page stay, whatever is stored later.
LEMMA PageStays ==
    ASSUME [Next]_vars, NEW page, IsPage(page)
    PROVE  IsPage(page)'
<1>1. rows \subseteq rows'
  BY OnlyInsertsWrite DEF WithRow
<1>2. PICK n \in Nat : /\ page \in [1..n -> rows]
                       /\ \A j, k \in 1..n : page[j].id = page[k].id => j = k
  BY DEF IsPage
<1>3. page \in [1..n -> rows']
  BY <1>1, <1>2
<1> QED
  BY <1>2, <1>3 DEF IsPage

\* A page is in the order of the column, and a row it leaves out comes after
\* every row of a full page.
LEMMA PageInOrder ==
    ASSUME ImportInv, IsFiniteSet(rows), NEW limit \in Int, limit > 0,
           NEW page \in Pages(limit)
    PROVE  /\ \A j, k \in DOMAIN page :
                 j < k => Rank(page[j].ingestedAt) >= Rank(page[k].ingestedAt)
           /\ \A row \in rows :
                 \/ \E k \in DOMAIN page : page[k] = row
                 \/ /\ Len(page) = limit
                    /\ \A k \in DOMAIN page :
                          Rank(page[k].ingestedAt) >= Rank(row.ingestedAt)
<1>1. rows \subseteq ObservationType
  BY DEF ImportInv, StoreTypeOK
<1>2. IsPage(page) /\ (Len(page) # limit => \A row \in rows : \E k \in DOMAIN page : page[k] = row)
  BY PageTaken
<1>3. DOMAIN page = 1..Len(page) /\ Len(page) \in Nat /\ \A k \in DOMAIN page : page[k] \in rows
  BY <1>1, <1>2, PageForm
<1>4. \A k \in DOMAIN page :
         /\ \A j \in 1..(k - 1) : page[j] # page[k]
         /\ \A row \in rows : SortsBefore(row, page[k]) => \E j \in 1..(k - 1) : page[j] = row
  BY Zenon DEF Pages
<1>5. ASSUME NEW k \in DOMAIN page, NEW row \in rows,
             ~(Rank(page[k].ingestedAt) >= Rank(row.ingestedAt))
      PROVE  \E j \in 1..(k - 1) : page[j] = row
  <2>1. row \in ObservationType /\ page[k] \in ObservationType
    BY <1>1, <1>3
  <2>2. Rank(row.ingestedAt) \in Nat /\ Rank(page[k].ingestedAt) \in Nat
    BY <2>1, RankDecides
  <2>3. Rank(row.ingestedAt) > Rank(page[k].ingestedAt)
    BY <1>5, <2>2
  <2> QED
    BY <1>4, <2>1, <2>3, RankDecides
<1>6. ASSUME NEW j \in DOMAIN page, NEW k \in DOMAIN page, j < k,
             ~(Rank(page[j].ingestedAt) >= Rank(page[k].ingestedAt))
      PROVE  FALSE
  <2>1. PICK i \in 1..(j - 1) : page[i] = page[k]
    BY <1>3, <1>5, <1>6
  <2>2. i \in 1..(k - 1)
    BY <1>3, <1>6
  <2> QED
    BY <1>4, <2>1, <2>2
<1>7. ASSUME NEW row \in rows, \A k \in DOMAIN page : page[k] # row,
             NEW k \in DOMAIN page
      PROVE  Rank(page[k].ingestedAt) >= Rank(row.ingestedAt)
  <2>1. \A j \in 1..(k - 1) : j \in DOMAIN page
    BY <1>3
  <2> QED
    BY <1>5, <1>7, <2>1
<1> QED
  BY <1>2, <1>6, <1>7

-----------------------------------------------------------------------------
(* What users rely on of a page. *)

\* ShowsOrEvicts by rank, and in terms of what the import printed, which never
\* changes.
ShowsPrinted(page, limit, i) ==
    \/ \E k \in DOMAIN page : page[k].id = i
    \/ /\ Len(page) = limit
       /\ \A k \in DOMAIN page :
             Rank(page[k].ingestedAt) >= Rank(imports[i].printed.ingestedAt)

Ranked(page) ==
    \A j, k \in DOMAIN page : j < k => Rank(page[j].ingestedAt) >= Rank(page[k].ingestedAt)

ShowsAll(r) == /\ IsPage(r.page) /\ Ranked(r.page)
               /\ \A i \in r.acked : ShowsPrinted(r.page, r.limit, i)

\* The request has the page it will answer, or has answered, with.
HasPage(r) ==
    r.pc = "listed" \/ (r.pc = "done" /\ r.kind # "get" /\ r.status = 200)

RequestsShow == \A q \in Requests : HasPage(requests[q]) => ShowsAll(requests[q])

RunsShow ==
    \A e \in Evals :
        /\ evals[e].acked \subseteq Acknowledged
        /\ evals[e].pc = "ok" => ShowsAll(evals[e])

\* A page taken from the table now is in order and shows what is acknowledged now.
LEMMA PageShows ==
    ASSUME ImportInv, IsFiniteSet(rows), NEW limit \in Int, limit > 0,
           NEW page \in Pages(limit)
    PROVE  /\ IsPage(page) /\ Ranked(page)
           /\ \A i \in Acknowledged : ShowsPrinted(page, limit, i)
<1>1. ASSUME NEW i \in Acknowledged
      PROVE  ShowsPrinted(page, limit, i)
  <2>1. HasRow(i) /\ RowOf(i) = imports[i].printed
    BY GetFindsPrinted
  <2>2. imports[i].printed \in rows /\ imports[i].printed.id = i
    BY <2>1, RowOfRun
  <2> QED
    BY <2>2, PageInOrder, Zenon DEF ShowsPrinted
<1> QED
  BY <1>1, PageTaken, PageInOrder DEF Ranked

\* What a page shows of acknowledged imports it shows for ever.
LEMMA ShownStays ==
    ASSUME ImportInv, [Next]_vars, NEW i \in Acknowledged,
           NEW page, NEW limit, ShowsPrinted(page, limit, i)
    PROVE  ShowsPrinted(page, limit, i)'
<1>1. imports'[i].printed = imports[i].printed
  BY AcknowledgedStay
<1> QED
  BY <1>1 DEF ShowsPrinted

-----------------------------------------------------------------------------
(* Requests. *)

\* What one step may do to request r, which becomes s: leave what it shows, give
\* it a page of now, or leave it without one.
RequestStep(r, s) ==
    \/ s = r
    \/ ~HasPage(s)
    \/ r.pc = "listed" /\ s.page = r.page /\ s.limit = r.limit /\ s.acked = r.acked
    \/ /\ r.limit \in Limits /\ r.limit > 0
       /\ s.limit = r.limit /\ s.acked = r.acked
       /\ s.page \in Pages(r.limit)

LEMMA RequestSteps ==
    ASSUME GetInv, RequestsOK, [Next]_vars, NEW q \in Requests
    PROVE  RequestStep(requests[q], requests'[q])
<1> DEFINE r == requests[q]
<1>1. RequestMove(r, requests'[q]) /\ RequestOK(r)
  BY RequestMoves DEF RequestsOK
<1>2. ASSUME NEW s, Arrives(r, s) \/ EndsEmpty(r, s) \/ IsFound(r, s)
      PROVE  RequestStep(r, s)
  BY <1>2 DEF Arrives, EndsEmpty, IsFound, SameAsk, RequestStep, HasPage
<1>3. ASSUME NEW s, IsListed(r, s) \/ IsEvaluated(r, s)
      PROVE  RequestStep(r, s)
  BY <1>1, <1>3 DEF IsListed, IsEvaluated, SameAsk, RequestStep, RequestOK
<1> QED
  BY <1>1, <1>2, <1>3 DEF RequestMove, RequestStep

LEMMA RequestsOKNext ==
    ASSUME GetInv, RequestsOK, [Next]_vars
    PROVE  RequestsOK'
<1>1. ASSUME NEW q \in Requests PROVE RequestOK(requests'[q])
  <2> DEFINE r == requests[q]
  <2>1. RequestOK(r) /\ RequestMove(r, requests'[q])
    BY RequestMoves DEF RequestsOK
  <2>2. ASSUME NEW s, IsRequest(s),
               \/ Arrives(r, s) \/ EndsEmpty(r, s) \/ IsListed(r, s)
               \/ IsEvaluated(r, s) \/ IsFound(r, s)
        PROVE  RequestOK(s)
    BY <2>1, <2>2 DEF RequestOK, Arrives, EndsEmpty, IsListed, IsEvaluated, IsFound,
       SameAsk
  <2> QED
    BY <2>1, <2>2 DEF RequestMove
<1>2. requests' = [q \in Requests |-> requests'[q]]
  BY RequestMoves
<1> QED
  BY <1>1, <1>2 DEF RequestsOK, RequestOK, IsRequest

\* What is shown of a page is shown of it ever after, to whoever has it.
LEMMA ShownAfter ==
    ASSUME ImportInv, [Next]_vars, NEW page, NEW limit, NEW acked, IsPage(page),
           Ranked(page), acked \subseteq Acknowledged,
           \A i \in acked : ShowsPrinted(page, limit, i)
    PROVE  /\ IsPage(page)' /\ Ranked(page)
           /\ \A i \in acked : ShowsPrinted(page, limit, i)'
<1>1. IsPage(page)'
  BY PageStays
<1>2. ASSUME NEW i \in acked PROVE ShowsPrinted(page, limit, i)'
  BY ShownStays
<1> QED
  BY <1>1, <1>2

LEMMA RequestsShowNext ==
    ASSUME ImportInv, IsFiniteSet(rows), GetInv, RequestsOK, RequestsShow, [Next]_vars
    PROVE  RequestsShow'
<1> SUFFICES ASSUME NEW q \in Requests, NEW s, s = requests'[q], HasPage(s)
             PROVE  ShowsAll(requests[q])'
  BY DEF RequestsShow, HasPage
<1> DEFINE r == requests[q]
<1>1. r.acked \subseteq Acknowledged
  BY DEF GetInv
<1>2. RequestStep(r, s)
  BY RequestSteps
<1>3. /\ IsPage(s.page) /\ Ranked(s.page) /\ s.acked \subseteq Acknowledged
      /\ \A i \in s.acked : ShowsPrinted(s.page, s.limit, i)
  <2>1. CASE \/ s = r
             \/ /\ r.pc = "listed" /\ s.page = r.page
                /\ s.limit = r.limit /\ s.acked = r.acked
    <3>1. ShowsAll(r)
      BY <2>1 DEF RequestsShow, HasPage
    <3> QED
      BY <1>1, <2>1, <3>1 DEF ShowsAll
  <2>2. CASE /\ r.limit \in Limits /\ r.limit > 0
             /\ s.limit = r.limit /\ s.acked = r.acked /\ s.page \in Pages(r.limit)
    BY <1>1, <2>2, PageShows, LimitsAssumption
  <2> QED
    BY <1>2, <2>1, <2>2 DEF RequestStep
<1>4. /\ IsPage(s.page)' /\ Ranked(s.page)
      /\ \A i \in s.acked : ShowsPrinted(s.page, s.limit, i)'
  BY <1>3, ShownAfter
<1> QED
  BY <1>4 DEF ShowsAll, IsPage, Ranked, ShowsPrinted

-----------------------------------------------------------------------------
(* Evaluations. *)

\* What one step of the system may do to run r, which becomes s (RunMove).
SameTask(r, s) ==
    /\ s.fireline = r.fireline /\ s.against = r.against /\ s.asOf = r.asOf
    /\ s.limit = r.limit /\ s.acked = r.acked /\ s.finished = r.finished

Fails(r, s) ==
    /\ r.pc \in {"start", "compiled"} /\ s.pc = "failed"
    /\ SameTask(r, s) /\ s.page = r.page

Starts(r, s) ==
    /\ r.pc = "start" /\ s.pc = "compiled" /\ s.page = r.page
    /\ s.fireline \in Firelines /\ Compiles(s.fireline)
    /\ \/ s.against = NoFireline
       \/ s.against \in Firelines /\ Compiles(s.against)
    /\ s.asOf \in AsOfFlags \cup {now}
    /\ s.limit \in Limits /\ s.limit > 0
    /\ s.acked = Acknowledged /\ s.finished = FinishedEvals

Reports(r, s) ==
    /\ r.pc = "compiled"
    /\ s.page \in Pages(r.limit)
    /\ SameTask(r, s)
    /\ LET reported == Reporting(r, s.page, s.page)
       IN  s.pc = reported.pc /\ s.report = reported.report

RunMove(r, s) == s = r \/ (IsRun(s) /\ (Fails(r, s) \/ Starts(r, s) \/ Reports(r, s)))

LEMMA EvalStepMove ==
    ASSUME NEW e \in Evals, IsRun(evals[e]), EvalStep(e)
    PROVE  \E s : evals' = [evals EXCEPT ![e] = s] /\ RunMove(evals[e], s)
<1> DEFINE r == evals[e]
<1>1. CASE EvaluateRejected(e) \/ EvaluateListFails(e)
  <2> DEFINE s == [r EXCEPT !.pc = "failed"]
  <2>1. evals' = [evals EXCEPT ![e] = s] /\ r.pc \in {"start", "compiled"}
    BY <1>1 DEF EvaluateRejected, EvaluateListFails
  <2>2. IsRun(s) /\ s.pc = "failed" /\ SameTask(r, s) /\ s.page = r.page
    BY DEF IsRun, RunFields, SameTask
  <2> QED
    BY <2>1, <2>2 DEF RunMove, Fails
<1>2. CASE StartEvaluate(e)
  <2>1. PICK asOf \in AsOfFlags \cup {now}, limit \in {l \in Limits : l > 0},
             f \in {g \in Firelines : Compiles(g)},
             b \in {g \in Firelines : Compiles(g)} \cup {NoFireline} :
          evals' = [evals EXCEPT ![e] =
             [@ EXCEPT !.pc = "compiled", !.fireline = f, !.against = b,
                       !.asOf = asOf, !.limit = limit,
                       !.acked = Acknowledged, !.finished = FinishedEvals]]
    BY <1>2 DEF StartEvaluate
  <2> DEFINE s == [r EXCEPT !.pc = "compiled", !.fireline = f, !.against = b,
                            !.asOf = asOf, !.limit = limit,
                            !.acked = Acknowledged, !.finished = FinishedEvals]
  <2>2. /\ IsRun(s) /\ s.pc = "compiled" /\ s.fireline = f /\ s.against = b
        /\ s.asOf = asOf /\ s.limit = limit /\ s.acked = Acknowledged
        /\ s.finished = FinishedEvals /\ s.page = r.page
    BY DEF IsRun, RunFields
  <2>3. evals' = [evals EXCEPT ![e] = s] /\ r.pc = "start"
    BY <1>2, <2>1 DEF StartEvaluate
  <2> HIDE DEF s
  <2>4. Starts(r, s)
    BY <2>2, <2>3 DEF Starts
  <2> QED
    BY <2>2, <2>3, <2>4 DEF RunMove
<1>3. CASE ListAndReport(e)
  <2>1. PICK page \in Pages(r.limit) :
          evals' = [evals EXCEPT ![e] = Reporting(r, page, page)]
    BY <1>3, Zenon DEF ListAndReport
  <2> DEFINE s == Reporting(r, page, page)
  <2>2. PICK pc, report : s = [r EXCEPT !.pc = pc, !.page = page, !.report = report]
    BY Zenon DEF Reporting
  <2>3. evals' = [evals EXCEPT ![e] = s] /\ r.pc = "compiled"
    BY <1>3, <2>1 DEF ListAndReport
  <2> HIDE DEF s
  <2>4. IsRun(s) /\ SameTask(r, s) /\ s.page = page
    BY <2>2 DEF IsRun, RunFields, SameTask
  <2>5. Reports(r, s)
    BY <2>3, <2>4 DEF Reports, s
  <2> QED
    BY <2>3, <2>4, <2>5 DEF RunMove
<1> QED
  BY <1>1, <1>2, <1>3 DEF EvalStep

LEMMA RunMoves ==
    ASSUME RunsOK, [Next]_vars
    PROVE  /\ evals' = [e \in Evals |-> evals'[e]]
           /\ \A e \in Evals : RunMove(evals[e], evals'[e])
<1>1. CASE evals' = evals
  BY <1>1 DEF RunMove, RunsOK
<1>2. CASE EvalNext
  <2>1. PICK e \in Evals : EvalStep(e)
    BY <1>2 DEF EvalNext
  <2>2. PICK s : evals' = [evals EXCEPT ![e] = s] /\ RunMove(evals[e], s)
    BY <2>1, EvalStepMove DEF RunsOK, RunOK
  <2>3. evals' = [d \in Evals |-> IF d = e THEN s ELSE evals[d]]
    BY <2>2 DEF RunsOK
  <2> QED
    BY <2>2, <2>3 DEF RunMove
<1> QED
  BY <1>1, <1>2 DEF Next, vars, evalVars

LEMMA ReportingFields ==
    ASSUME NEW r, IsRun(r), NEW page
    PROVE  LET current == Evaluate(r.fireline, page, r.asOf)
               baseline == Evaluate(r.against, page, r.asOf)
               diff == r.against # NoFireline
               ok == current.ok /\ (diff => baseline.ok)
           IN  /\ Reporting(r, page, page).pc = (IF ok THEN "ok" ELSE "failed")
               /\ ok => Reporting(r, page, page).report
                          = IF diff
                            THEN DiffNewlyCaught(current.crossings, baseline.crossings)
                            ELSE current.crossings
<1> DEFINE current == Evaluate(r.fireline, page, r.asOf)
           baseline == Evaluate(r.against, page, r.asOf)
           diff == r.against # NoFireline
           ok == current.ok /\ (diff => baseline.ok)
           pc == IF ok THEN "ok" ELSE "failed"
           caught == DiffNewlyCaught(current.crossings, baseline.crossings)
           reported == IF diff THEN caught ELSE current.crossings
           report == IF ~ok THEN <<>> ELSE reported
<1>1. Reporting(r, page, page)
        = [r EXCEPT !.pc = pc, !.page = page,
                    !.report = IF ~ok THEN <<>> ELSE IF diff THEN caught
                                                ELSE current.crossings]
  BY Zenon DEF Reporting
<1> HIDE DEF current, baseline, pc, caught, ok, diff
<1>2. Reporting(r, page, page) = [r EXCEPT !.pc = pc, !.page = page, !.report = report]
  BY <1>1, Zenon
<1> HIDE DEF report, reported
<1>3. Reporting(r, page, page).pc = pc /\ Reporting(r, page, page).report = report
  BY <1>2 DEF IsRun, RunFields
<1>4. ok => report = reported
  BY DEF report
<1> QED
  BY <1>3, <1>4, Zenon DEF pc, ok, diff, current, baseline, caught, reported

LEMMA RunsOKNext ==
    ASSUME RunsOK, [Next]_vars
    PROVE  RunsOK'
<1>1. ASSUME NEW e \in Evals PROVE RunOK(evals'[e])
  <2>1. RunMove(evals[e], evals'[e]) /\ RunOK(evals[e])
    BY RunMoves DEF RunsOK
  <2>2. ASSUME NEW s, Fails(evals[e], s) \/ Reports(evals[e], s)
        PROVE  s.pc # "compiled"
    <3>1. CASE Fails(evals[e], s)
      BY <3>1 DEF Fails
    <3>2. CASE Reports(evals[e], s)
      BY <2>1, <3>2, ReportingFields, Zenon DEF Reports, RunOK
    <3> QED
      BY <2>2, <3>1, <3>2
  <2> QED
    BY <2>1, <2>2 DEF RunMove, RunOK, Starts
<1>2. evals' = [e \in Evals |-> evals'[e]]
  BY RunMoves
<1> QED
  BY <1>1, <1>2 DEF RunsOK, RunOK, IsRun

\* Only a run that reports gets what it shows, and it is a page of now.
LEMMA RunSteps ==
    ASSUME RunsOK, [Next]_vars, NEW e \in Evals
    PROVE  LET r == evals[e]
               s == evals'[e]
           IN  \/ s = r
               \/ s.pc # "ok" /\ s.acked \in {r.acked, Acknowledged}
               \/ /\ r.limit \in Limits /\ r.limit > 0
                  /\ s.limit = r.limit /\ s.acked = r.acked
                  /\ s.page \in Pages(r.limit)
<1>1. RunMove(evals[e], evals'[e]) /\ RunOK(evals[e])
  BY RunMoves DEF RunsOK
<1> QED
  BY <1>1 DEF RunMove, Fails, Starts, Reports, SameTask, RunOK

LEMMA RunsShowNext ==
    ASSUME ImportInv, IsFiniteSet(rows), RunsOK, RunsShow, [Next]_vars
    PROVE  RunsShow'
<1> SUFFICES ASSUME NEW e \in Evals, NEW s, s = evals'[e]
             PROVE  /\ s.acked \subseteq Acknowledged'
                    /\ s.pc = "ok" => ShowsAll(evals[e])'
  BY DEF RunsShow
<1> DEFINE r == evals[e]
<1>1. r.acked \subseteq Acknowledged
  BY DEF RunsShow
<1>2. \/ s = r
      \/ s.pc # "ok" /\ s.acked \in {r.acked, Acknowledged}
      \/ /\ r.limit \in Limits /\ r.limit > 0
         /\ s.limit = r.limit /\ s.acked = r.acked
         /\ s.page \in Pages(r.limit)
  BY RunSteps
<1>3. s.acked \subseteq Acknowledged
  BY <1>1, <1>2
<1>4. s.acked \subseteq Acknowledged'
  BY <1>3, AcknowledgedStay
<1>5. ASSUME s.pc = "ok" PROVE ShowsAll(evals[e])'
  <2>1. /\ IsPage(s.page) /\ Ranked(s.page)
        /\ \A i \in s.acked : ShowsPrinted(s.page, s.limit, i)
    <3>1. CASE s = r
      BY <1>5, <3>1 DEF RunsShow, ShowsAll
    <3>2. CASE /\ r.limit \in Limits /\ r.limit > 0
               /\ s.limit = r.limit /\ s.acked = r.acked
               /\ s.page \in Pages(r.limit)
      BY <1>1, <3>2, PageShows, LimitsAssumption
    <3> QED
      BY <1>2, <1>5, <3>1, <3>2
  <2>2. /\ IsPage(s.page)' /\ Ranked(s.page)
        /\ \A i \in s.acked : ShowsPrinted(s.page, s.limit, i)'
    BY <1>3, <2>1, ShownAfter
  <2> QED
    BY <2>2 DEF ShowsAll, IsPage, Ranked, ShowsPrinted
<1> QED
  BY <1>4, <1>5

-----------------------------------------------------------------------------

\* What is shown depends on the whole state of the readers: what each was asked,
\* and what was acknowledged when it was.
ShownInv ==
    /\ ImportInv /\ IsFiniteSet(rows) /\ GetInv
    /\ RequestsOK /\ RunsOK /\ RequestsShow /\ RunsShow

LEMMA ShownInvAlways == Spec => []ShownInv
<1>1. Init => ShownInv
  <2> SUFFICES ASSUME Init PROVE ShownInv
    OBVIOUS
  <2>1. \A q \in Requests : requests[q].pc = "idle"
    BY DEF Init, ApiInit, IdleRequest
  <2>2. \A e \in Evals : evals[e].pc = "start" /\ evals[e].acked = {}
    BY DEF Init, EvalInit
  <2> QED
    BY <2>1, <2>2, LogInvInit, GetInvInit
       DEF ShownInv, LogInv, RequestsShow, HasPage, RunsShow
<1>2. ShownInv /\ [Next]_vars => ShownInv'
  BY ImportInvNext, FiniteNext, GetInvNext, RequestsOKNext, RunsOKNext,
     RequestsShowNext, RunsShowNext DEF ShownInv
<1> QED
  BY <1>1, <1>2, PTL DEF Spec

\* An acknowledged observation is in the page, or the page is full of rows of its
\* rank or a higher one.
LEMMA ShownBySecond ==
    ASSUME ShownInv, NEW r, ShowsAll(r), NEW i \in Acknowledged, i \in r.acked
    PROVE  \/ \E k \in DOMAIN r.page : r.page[k].id = i
           \/ /\ Len(r.page) = r.limit
              /\ \A k \in DOMAIN r.page :
                    /\ r.page[k].ingestedAt \div Second >= RowOf(i).ingestedAt \div Second
                    /\ Backend = "postgres" =>
                          r.page[k].ingestedAt >= RowOf(i).ingestedAt
<1>1. HasRow(i) /\ RowOf(i) = imports[i].printed
  BY GetFindsPrinted DEF ShownInv
<1>2. RowOf(i) \in rows /\ rows \subseteq ObservationType
  BY <1>1, RowOfRun DEF ShownInv, ImportInv, StoreTypeOK
<1>3. \A k \in DOMAIN r.page : r.page[k] \in ObservationType
  BY <1>2, PageForm DEF ShowsAll
<1>4. /\ RowOf(i).ingestedAt \in Nat
      /\ \A k \in DOMAIN r.page : r.page[k].ingestedAt \in Nat
  BY <1>2, <1>3 DEF ObservationType
<1>5. ShowsPrinted(r.page, r.limit, i)
  BY DEF ShowsAll
<1> QED
  BY <1>1, <1>4, <1>5, RankOfSecond DEF ShowsPrinted

LEMMA AnsweredShows ==
    ASSUME ShownInv, NEW q \in Successful("list") \cup Successful("crossings")
    PROVE  q \in Requests /\ ShowsAll(requests[q]) /\ requests[q].acked \subseteq Acknowledged
<1>1. q \in Requests /\ HasPage(requests[q])
  BY DEF Successful, Answered, HasPage
<1> QED
  BY <1>1 DEF ShownInv, GetInv, RequestsShow

LEMMA FinishedShows ==
    ASSUME ShownInv, NEW e \in FinishedEvals
    PROVE  ShowsAll(evals[e]) /\ evals[e].acked \subseteq Acknowledged
  BY DEF FinishedEvals, ShownInv, RunsShow

\* On Postgres an observation whose import exited 0 before the request came is in
\* the page of GET /observations and in the one GET /crossings evaluates, unless
\* that is full of observations at least as new, through any interleaving with
\* imports, shutdowns and restarts (repository.go:31-33, api.go:58-100).
THEOREM AcknowledgedIsListed ==
    ASSUME Backend = "postgres"
    PROVE  Spec => []PageShowsAcknowledged
<1>1. ShownInv => PageShowsAcknowledged
  <2> SUFFICES ASSUME ShownInv, NEW q \in Successful("list") \cup Successful("crossings"),
                      NEW i \in requests[q].acked
               PROVE  ShowsOrEvicts(requests[q].page, requests[q].limit, i)
    BY DEF PageShowsAcknowledged
  <2>1. ShowsAll(requests[q]) /\ i \in Acknowledged
    BY AnsweredShows
  <2> QED
    BY <2>1, ShownBySecond DEF ShowsOrEvicts
<1> QED
  BY <1>1, ShownInvAlways, PTL

\* On Postgres an evaluation that exits 0 has evaluated every observation whose
\* import exited 0 before it started, unless its page is full of observations at
\* least as new (evaluate.go:70-94).
THEOREM AcknowledgedIsEvaluated ==
    ASSUME Backend = "postgres"
    PROVE  Spec => []EvaluationShowsAcknowledged
<1>1. ShownInv => EvaluationShowsAcknowledged
  <2> SUFFICES ASSUME ShownInv, NEW e \in FinishedEvals, NEW i \in evals[e].acked
               PROVE  ShowsOrEvicts(evals[e].page, evals[e].limit, i)
    BY DEF EvaluationShowsAcknowledged
  <2>1. ShowsAll(evals[e]) /\ i \in Acknowledged
    BY FinishedShows
  <2> QED
    BY <2>1, ShownBySecond DEF ShowsOrEvicts
<1> QED
  BY <1>1, ShownInvAlways, PTL

\* On either backend, the text order of Turso included: the seconds of every page
\* that a request or an evaluation was given descend, and an evaluation misses an
\* acknowledged observation only for a page full of rows of its second or later
\* (turso.go:131-153, turso.go:155-160, repository.go:31-33).
THEOREM SecondsDescend == Spec => []NewestSecondFirst
<1>1. ASSUME ShownInv, NEW r, ShowsAll(r),
             NEW j \in DOMAIN r.page, NEW k \in DOMAIN r.page, j < k
      PROVE  r.page[j].ingestedAt \div Second >= r.page[k].ingestedAt \div Second
  <2>1. rows \subseteq ObservationType
    BY <1>1 DEF ShownInv, ImportInv, StoreTypeOK
  <2>2. r.page[j] \in ObservationType /\ r.page[k] \in ObservationType
    BY <1>1, <2>1, PageForm DEF ShowsAll
  <2>3. Rank(r.page[j].ingestedAt) >= Rank(r.page[k].ingestedAt)
    BY <1>1 DEF ShowsAll, Ranked
  <2> QED
    BY <2>2, <2>3, RankOfSecond DEF ObservationType
<1>2. ASSUME ShownInv, NEW page \in PagesSeen
      PROVE  \E r : ShowsAll(r) /\ page = r.page
  BY <1>2, AnsweredShows, FinishedShows DEF PagesSeen
<1>3. ASSUME ShownInv, NEW e \in FinishedEvals, NEW i \in evals[e].acked
      PROVE  \/ \E k \in DOMAIN evals[e].page : evals[e].page[k].id = i
             \/ /\ PageFull(evals[e])
                /\ \A k \in DOMAIN evals[e].page :
                      evals[e].page[k].ingestedAt \div Second
                        >= RowOf(i).ingestedAt \div Second
  <2>1. ShowsAll(evals[e]) /\ i \in Acknowledged
    BY <1>3, FinishedShows
  <2> QED
    BY <1>3, <2>1, ShownBySecond DEF PageFull
<1>4. ShownInv => NewestSecondFirst
  BY <1>1, <1>2, <1>3 DEF NewestSecondFirst
<1> QED
  BY <1>4, ShownInvAlways, PTL
-----------------------------------------------------------------------------
(* Types. *)

RunType(r) ==
    /\ r.pc \in EvalPCs
    /\ r.fireline \in Firelines \cup {NoFireline}
    /\ r.against \in Firelines \cup {NoFireline}
    /\ r.asOf \in Nat
    /\ r.limit \in Limits \cup {0}
    /\ r.page \in Seq(ObservationType)
    /\ r.acked \subseteq Ids /\ r.finished \subseteq Evals

RequestType(r) ==
    /\ r.pc \in {"idle", "received", "listed", "done", "dropped"}
    /\ r.kind \in Kinds
    /\ r.limit \in Limits \cup {0}
    /\ r.id \in Ids \cup {BadId}
    /\ r.engine \in ServedFirelines \cup {NoFireline}
    /\ r.status \in {0, 200, 400, 404, 500}
    /\ r.page \in Seq(ObservationType)
    /\ r.asOf \in Nat
    /\ r.acked \subseteq Ids /\ r.answered \subseteq Requests

\* Pages are of the table's type because the table is, whoever filled it.
TypeInv ==
    /\ ImportInv /\ IsFiniteSet(rows) /\ GetInv /\ HandleInv /\ RequestsOK /\ RunsOK
    /\ \A e \in Evals : RunType(evals[e])
    /\ \A q \in Requests : RequestType(requests[q])

LEMMA TakenType ==
    ASSUME ImportInv, IsFiniteSet(rows), NEW limit \in Limits, limit > 0,
           NEW page \in Pages(limit)
    PROVE  page \in Seq(ObservationType)
<1>1. IsPage(page) /\ rows \subseteq ObservationType
  BY PageTaken, LimitsAssumption DEF ImportInv, StoreTypeOK
<1> QED
  BY <1>1, PageForm

LEMMA RunTypeNext ==
    ASSUME TypeInv, [Next]_vars, NEW e \in Evals
    PROVE  RunType(evals'[e])
<1> DEFINE r == evals[e]
<1>1. PICK s : s = evals'[e] /\ RunMove(r, s)
  BY RunMoves DEF TypeInv
<1>2. RunType(r) /\ RunOK(r) /\ now \in Nat
  BY MaxNowAssumption DEF TypeInv, RunsOK, ImportInv, StoreTypeOK
<1> SUFFICES RunType(s)
  BY <1>1
<1> HIDE DEF r
<1>3. CASE Fails(r, s)
  BY <1>2, <1>3 DEF Fails, SameTask, RunType, EvalPCs
<1>4. CASE Starts(r, s)
  <2>1. s.asOf \in Nat
    BY <1>2, <1>4, AsOfAssumption DEF Starts
  <2>2. s.acked \subseteq Ids /\ s.finished \subseteq Evals
    BY <1>4 DEF Starts, Acknowledged, FinishedEvals
  <2> QED
    BY <1>2, <1>4, <2>1, <2>2 DEF Starts, RunType, EvalPCs
<1>5. CASE Reports(r, s)
  <2>1. s.pc \in {"ok", "failed"}
    BY <1>2, <1>5, ReportingFields, Zenon DEF Reports, RunOK
  <2>2. s.page \in Seq(ObservationType)
    BY <1>2, <1>5, TakenType DEF Reports, RunOK, TypeInv
  <2> QED
    BY <1>2, <1>5, <2>1, <2>2 DEF Reports, SameTask, RunType, EvalPCs
<1> QED
  BY <1>1, <1>2, <1>3, <1>4, <1>5 DEF RunMove

LEMMA RequestTypeNext ==
    ASSUME TypeInv, [Next]_vars, NEW q \in Requests
    PROVE  RequestType(requests'[q])
<1> DEFINE r == requests[q]
<1>1. PICK s : s = requests'[q] /\ RequestMove(r, s)
  BY RequestMoves DEF TypeInv
<1>2. RequestType(r) /\ RequestOK(r) /\ now \in Nat
  BY MaxNowAssumption DEF TypeInv, RequestsOK, ImportInv, StoreTypeOK
<1> SUFFICES RequestType(s)
  BY <1>1
<1> HIDE DEF r
<1>3. CASE Arrives(r, s)
  <2>1. engine \in ServedFirelines \cup {NoFireline}
    BY DEF TypeInv, HandleInv
  <2>2. s.acked \subseteq Ids /\ s.answered \subseteq Requests /\ s.kind \in Kinds
    BY <1>3, RoutesAssumption DEF Arrives, Acknowledged, Answered
  <2>3. s.pc \in {"received", "done"} /\ s.status \in {r.status, 400}
    BY <1>3 DEF Arrives
  <2>4. s.limit \in Limits \cup {0} /\ s.id \in Ids \cup {BadId}
    BY <1>3 DEF Arrives
  <2> QED
    BY <1>2, <1>3, <2>1, <2>2, <2>3, <2>4 DEF Arrives, RequestType
<1>4. CASE EndsEmpty(r, s)
  BY <1>2, <1>4 DEF EndsEmpty, SameAsk, RequestType
<1>5. CASE IsListed(r, s)
  <2>1. s.page \in Seq(ObservationType)
    BY <1>2, <1>5, TakenType DEF IsListed, RequestOK, TypeInv
  <2> QED
    BY <1>2, <1>5, <2>1 DEF IsListed, SameAsk, RequestType
<1>6. CASE IsEvaluated(r, s)
  <2>1. s.status \in {200, 500}
    BY <1>6, Zenon DEF IsEvaluated
  <2> QED
    BY <1>2, <1>6, <2>1 DEF IsEvaluated, SameAsk, RequestType
<1>7. CASE IsFound(r, s)
  <2>1. s.page \in Seq(ObservationType)
    <3>1. CASE HasRow(r.id) /\ s.page = <<RowOf(r.id)>>
      <4>1. RowOf(r.id) \in ObservationType
        BY <3>1, RowOfRun DEF TypeInv, ImportInv, StoreTypeOK
      <4> QED
        BY <3>1, <4>1
    <3>2. CASE s.page = r.page
      BY <1>2, <3>2 DEF RequestType
    <3> QED
      BY <1>7, <3>1, <3>2 DEF IsFound
  <2> QED
    BY <1>2, <1>7, <2>1 DEF IsFound, SameAsk, RequestType
<1> QED
  BY <1>1, <1>2, <1>3, <1>4, <1>5, <1>6, <1>7 DEF RequestMove

\* Every state of the system has the types that the commands, the server and the
\* table declare: limits, ids, statuses, engines and whole pages of observations
\* (api.go:25-122, evaluate.go:25-96, importcmd.go:34-96, serve.go:37-99).
THEOREM TypesHold == Spec => []TypeOK
<1>1. Init => TypeInv
  <2> SUFFICES ASSUME Init PROVE TypeInv
    OBVIOUS
  <2>1. \A e \in Evals : RunType(evals[e])
    <3>1. <<>> \in Seq(ObservationType) /\ 0 \in Nat
      OBVIOUS
    <3>2. \A e \in Evals :
             /\ evals[e].pc = "start" /\ evals[e].fireline = NoFireline
             /\ evals[e].against = NoFireline /\ evals[e].asOf = 0
             /\ evals[e].limit = 0 /\ evals[e].page = <<>>
             /\ evals[e].acked = {} /\ evals[e].finished = {}
      BY DEF Init, EvalInit
    <3> QED
      BY <3>1, <3>2 DEF RunType, EvalPCs
  <2>2. \A q \in Requests : RequestType(requests[q])
    <3>1. <<>> \in Seq(ObservationType) /\ 0 \in Nat
      OBVIOUS
    <3>2. \A q \in Requests : requests[q] = IdleRequest
      BY DEF Init, ApiInit
    <3>3. /\ IdleRequest.pc = "idle" /\ IdleRequest.kind = "list"
          /\ IdleRequest.limit = 0 /\ IdleRequest.id = BadId
          /\ IdleRequest.engine = NoFireline /\ IdleRequest.status = 0
          /\ IdleRequest.page = <<>> /\ IdleRequest.asOf = 0
          /\ IdleRequest.acked = {} /\ IdleRequest.answered = {}
      BY DEF IdleRequest
    <3>4. RequestType(IdleRequest)
      BY <3>1, <3>3 DEF RequestType, Kinds
    <3> QED
      BY <3>2, <3>4, Zenon
  <2> QED
    BY <2>1, <2>2, LogInvInit, GetInvInit, HandleInvInit DEF TypeInv, LogInv
<1>2. TypeInv /\ [Next]_vars => TypeInv'
  <2> SUFFICES ASSUME TypeInv, [Next]_vars PROVE TypeInv'
    OBVIOUS
  <2>1. \A e \in Evals : RunType(evals[e])'
    BY RunTypeNext DEF RunType
  <2>2. \A q \in Requests : RequestType(requests[q])'
    BY RequestTypeNext DEF RequestType
  <2> QED
    BY <2>1, <2>2, ImportInvNext, FiniteNext, GetInvNext, HandleInvNext,
       RequestsOKNext, RunsOKNext DEF TypeInv
<1>3. TypeInv => TypeOK
  <2> SUFFICES ASSUME TypeInv PROVE TypeOK
    OBVIOUS
  <2>1. StoreTypeOK /\ ImportTypeOK /\ ServeTypeOK
    BY DEF TypeInv, ImportInv, HandleInv
  <2>2. EvalTypeOK
    BY DEF TypeInv, EvalTypeOK, RunType
  <2>3. ApiTypeOK
    BY DEF TypeInv, HandleInv, ApiTypeOK, RequestType
  <2> QED
    BY <2>1, <2>2, <2>3 DEF TypeOK
<1> QED
  BY <1>1, <1>2, <1>3, PTL DEF Spec
=============================================================================
