------------------------------- MODULE Columns -------------------------------
(***************************************************************************)
(* What becomes of a value between the file of an import and the answer of *)
(* a server: decoded, written to a column, scanned by another process, and *)
(* encoded as JSON.  Two columns are enough: a text (tool, tool version,   *)
(* rule id or raw severity) and observed_at.                               *)
(*                                                                         *)
(* Instants are integers.  Those a calendar with years 0 to 9999 can name  *)
(* are 0..Last; RFC 3339 names an instant by a local time of that calendar *)
(* and an offset.  Failures and the order of rows are Import's and Store's *)
(* subjects; here every statement succeeds and the newest row is the last  *)
(* inserted.                                                               *)
(***************************************************************************)
EXTENDS Integers, Sequences, Selection

CONSTANTS
    Backend,        \* "postgres" or "turso"
    Ids,            \* the uuids imports draw
    Clients,        \* of the read API
    Last,           \* the last instant of the year 9999, in UTC
    Now,            \* when crossings are evaluated
    Offsets,        \* the offsets files may use
    Zones,          \* the offsets of the zones processes run in
    Texts,          \* the texts files may hold
    DateLike,       \* those the Turso driver takes for dates
    Dated(_),       \* the RFC3339Nano text of such a date
    Limits,
    None            \* no observed_at

ASSUME BackendAssumption == Backend \in {"postgres", "turso"}
ASSUME InstantsAssumption == Last \in Nat /\ Now \in 0..Last
ASSUME OffsetsAssumption == Offsets \subseteq Int /\ Zones \subseteq Int
ASSUME DatesAssumption == DateLike \subseteq Texts
ASSUME LimitsAssumption == Limits \subseteq Nat \ {0}
ASSUME NoneAssumption == None \notin Int

VARIABLES
    runs,           \* the imports
    table,          \* the rows, newest first
    answers         \* what each client was last answered

vars == <<runs, table, answers>>

-----------------------------------------------------------------------------
(* Columns. *)

Named == 0..Last

\* A *time.Time that json.Unmarshal made of a file's observed_at.
FileTimes ==
    {[instant |-> local - offset, zone |-> offset] : local \in Named, offset \in Offsets}

\* Insert writes the instant, Turso as the text of its UTC time.
Column(t) == IF t = None THEN None ELSE t.instant

\* That text is a date to the driver only if its year has four digits; other
\* texts cannot be scanned into a sql.NullTime.
Scans(row) == Backend = "turso" => row.observedAt = None \/ row.observedAt \in Named

\* Mutant: the time scanned on Turso is moved to the zone of the process.
LocalZone(zone) == zone

\* A time scanned is in UTC on Turso and in the process's zone on Postgres.
ScanZone(zone) == IF Backend = "turso" THEN 0 ELSE zone

\* A text that looks like a date comes back from Turso as a time.Time, which
\* database/sql formats as RFC3339Nano into the string it is scanned into.
ScanText(text) == IF Backend = "turso" /\ text \in DateLike THEN Dated(text) ELSE text

Scan(row, zone) ==
    [id |-> row.id, text |-> ScanText(row.text),
     observedAt |-> IF row.observedAt = None THEN None
                    ELSE [instant |-> row.observedAt, zone |-> ScanZone(zone)]]

\* time.Time.MarshalJSON refuses years that do not have four digits.
Encodes(obs) ==
    obs.observedAt = None \/ obs.observedAt.instant + obs.observedAt.zone \in Named

-----------------------------------------------------------------------------
(* Imports. *)

NoRun == [pc |-> "start", built |-> None, zone |-> 0, printed |-> None]
NoAnswer == [status |-> 0, route |-> "list", page |-> <<>>, acked |-> FALSE,
             encoded |-> FALSE, body |-> <<>>]

Init ==
    /\ runs = [i \in Ids |-> NoRun]
    /\ table = <<>>
    /\ answers = [c \in Clients |-> NoAnswer]

Insert(i) ==
    /\ runs[i].pc = "start"
    /\ \E text \in Texts, t \in FileTimes \cup {None}, zone \in Zones :
          LET built == [id |-> i, text |-> text, observedAt |-> t]
          IN  /\ runs' = [runs EXCEPT ![i] =
                    [@ EXCEPT !.pc = "inserted", !.built = built, !.zone = zone]]
              /\ table' = <<[built EXCEPT !.observedAt = Column(@)]>> \o table
    /\ UNCHANGED answers

RowOf(i) == table[CHOOSE k \in DOMAIN table : table[k].id = i]

\* Mutant: the observation built is printed instead of the one read back.
PrintBuilt(i) ==
    /\ runs[i].pc = "inserted"
    /\ runs' = [runs EXCEPT ![i] =
          [@ EXCEPT !.pc = IF Encodes(runs[i].built) THEN "ok" ELSE "failed",
                    !.printed = runs[i].built]]
    /\ UNCHANGED <<table, answers>>

\* Get, MarshalIndent and Println: exit 0 only if the row scans and encodes.
ReadBack(i) ==
    /\ runs[i].pc = "inserted"
    /\ LET got == Scan(RowOf(i), runs[i].zone)
           fine == Scans(RowOf(i)) /\ Encodes(got)
       IN  runs' = [runs EXCEPT ![i] =
              [@ EXCEPT !.pc = IF fine THEN "ok" ELSE "failed",
                        !.printed = IF fine THEN got ELSE None]]
    /\ UNCHANGED <<table, answers>>

-----------------------------------------------------------------------------
(* The read API. *)

Acknowledged(page) == \A k \in DOMAIN page : runs[page[k].id].pc = "ok"

\* The status line is written before the body is encoded: a value that does not
\* encode leaves the answer without one.
Answer(c, route, page, status, body) ==
    answers' = [answers EXCEPT ![c] =
        [status |-> status, route |-> route, page |-> page,
         acked |-> Acknowledged(page),
         encoded |-> \A k \in DOMAIN body : Encodes(body[k]),
         body |-> IF \A k \in DOMAIN body : Encodes(body[k]) THEN body ELSE <<>>]]

ScanAll(page, zone) == [k \in DOMAIN page |-> Scan(page[k], zone)]
AllScan(page) == \A k \in DOMAIN page : Scans(page[k])

\* Mutant: a row that does not scan is passed over.
ListSkipping(c, route, page, zone) ==
    Answer(c, route, page, 200, ScanAll(Selected(page, {k \in DOMAIN page : Scans(page[k])}), zone))

\* A row that does not scan fails the query.
ListPage(c, route, page, zone) ==
    IF AllScan(page)
    THEN Answer(c, route, page, 200, ScanAll(page, zone))
    ELSE Answer(c, route, page, 500, <<>>)

Page(limit) == SubSeq(table, 1, IF limit < Len(table) THEN limit ELSE Len(table))

ListObservations(c, zone) ==
    \E limit \in Limits : ListPage(c, "list", Page(limit), zone)

\* A rule that matches everything, without tolerance; a crossing carries the
\* text and the time of its observation.
Crosses(row) == row.observedAt = None \/ row.observedAt <= Now
Crossing(page) == Selected(page, {k \in DOMAIN page : Crosses(page[k])})

ListCrossings(c, zone) ==
    \E limit \in Limits :
        IF AllScan(Page(limit))
        THEN Answer(c, "crossings", Page(limit), 200,
                    ScanAll(Crossing(Page(limit)), zone))
        ELSE Answer(c, "crossings", Page(limit), 500, <<>>)

GetObservation(c, zone) ==
    \E i \in Ids :
        IF \E k \in DOMAIN table : table[k].id = i
        THEN ListPage(c, "get", <<RowOf(i)>>, zone)
        ELSE Answer(c, "get", <<>>, 404, <<>>)

Request(c) ==
    /\ \E zone \in Zones :
          ListObservations(c, zone) \/ ListCrossings(c, zone) \/ GetObservation(c, zone)
    /\ UNCHANGED <<runs, table>>

Next ==
    \/ \E i \in Ids : Insert(i) \/ ReadBack(i)
    \/ \E c \in Clients : Request(c)

Spec == Init /\ [][Next]_vars

-----------------------------------------------------------------------------
(* Properties. *)

\* What a client is shown of an observation: the text and the instant.
Shown(obs) ==
    <<obs.id, obs.text, IF obs.observedAt = None THEN None ELSE obs.observedAt.instant>>

\* An import that exits 0 leaves a row that does no harm: a page of such rows is
\* answered in full, with what their imports printed (importcmd.go:86-95,
\* api.go:58-67, turso.go:141-152).
PrintedIsShown ==
    \A c \in Clients :
        LET a == answers[c]
        IN  a.acked /\ a.route # "crossings" /\ a.status # 404 /\ a.status # 0 =>
                /\ a.status = 200 /\ a.encoded
                /\ [k \in DOMAIN a.body |-> Shown(a.body[k])]
                     = [k \in DOMAIN a.page |-> Shown(runs[a.page[k].id].printed)]

IdsOf(list) == [k \in DOMAIN list |-> list[k].id]
Due(answer) == IF answer.route = "crossings" THEN Crossing(answer.page) ELSE answer.page

\* A 200 has all of the page that its route owes the client, in order, or no
\* body at all, and that only for an observation whose time does not encode:
\* never the rows that happened to scan or to encode (turso.go:141-152,
\* postgres.go:105-118, api.go:124-130).
NothingSkipped ==
    \A c \in Clients :
        LET a == answers[c]
        IN  a.status = 200 =>
                \/ a.encoded /\ IdsOf(a.body) = IdsOf(Due(a))
                \/ /\ ~a.encoded /\ a.body = <<>>
                   /\ \E k \in DOMAIN a.page, zone \in Zones :
                         ~Encodes(Scan(a.page[k], zone))

\* A 200 has its JSON body: "a bare JSON array, nil coerced to []"
\* (docs/policy-engine/evaluation.md:45-46).
OKHasBody == \A c \in Clients : answers[c].status = 200 => answers[c].encoded
=============================================================================
