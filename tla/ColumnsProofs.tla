---------------------------- MODULE ColumnsProofs ----------------------------
(***************************************************************************)
(* What clients are answered of what was stored, for all texts, times,     *)
(* offsets and zones: on either backend no row is left out, on Turso every *)
(* answer has its body, and on Turso, or between processes of one zone, an *)
(* answer shows what the imports printed.                                  *)
(***************************************************************************)
EXTENDS Columns, SelectionProofs, SequenceTheorems

\* A row, or what a row is scanned into.
IsRow(row) == row.id \in Ids /\ (row.observedAt = None \/ row.observedAt \in Int)

\* Each row is that of the one import that inserted it.
TableInv ==
    /\ runs = [i \in Ids |-> runs[i]]
    /\ answers = [c \in Clients |-> answers[c]]
    /\ \E n \in Nat :
          /\ table = [k \in 1..n |-> table[k]]
          /\ \A k \in 1..n : IsRow(table[k]) /\ runs[table[k].id].pc # "start"
          /\ \A j, k \in 1..n : table[j].id = table[k].id => j = k

LEMMA TableForm ==
    ASSUME TableInv
    PROVE  /\ Len(table) \in Nat /\ DOMAIN table = 1..Len(table)
           /\ table \in Seq({table[k] : k \in DOMAIN table})
           /\ \A k \in DOMAIN table : IsRow(table[k]) /\ runs[table[k].id].pc # "start"
           /\ \A j, k \in DOMAIN table : table[j].id = table[k].id => j = k
<1>1. PICK n \in Nat :
         /\ table = [k \in 1..n |-> table[k]]
         /\ \A k \in 1..n : IsRow(table[k]) /\ runs[table[k].id].pc # "start"
         /\ \A j, k \in 1..n : table[j].id = table[k].id => j = k
  BY DEF TableInv
<1>2. DOMAIN table = 1..n /\ table \in [1..n -> {table[k] : k \in DOMAIN table}]
  BY <1>1
<1>3. table \in Seq({table[k] : k \in DOMAIN table})
  BY <1>2, SeqDef
<1>4. Len(table) = n
  BY <1>2, <1>3, LenProperties
<1> QED
  BY <1>1, <1>2, <1>3, <1>4
-----------------------------------------------------------------------------
(* Pages. *)

\* Rows of the table, in whatever order.
AreRows(page) ==
    \E n \in Nat : /\ page = [k \in 1..n |-> page[k]]
                   /\ \A k \in 1..n : \E j \in DOMAIN table : page[k] = table[j]

LEMMA PageIsRows ==
    ASSUME TableInv, NEW limit \in Limits
    PROVE  AreRows(Page(limit))
<1> DEFINE n == IF limit < Len(table) THEN limit ELSE Len(table)
<1>1. /\ Len(table) \in Nat /\ DOMAIN table = 1..Len(table)
      /\ table \in Seq({table[k] : k \in DOMAIN table})
  BY TableForm
<1>2. n \in Nat /\ n <= Len(table)
  BY <1>1, LimitsAssumption
<1> HIDE DEF n
<1>3. /\ SubSeq(table, 1, n) = [k \in 1..n |-> SubSeq(table, 1, n)[k]]
      /\ \A k \in 1..n : SubSeq(table, 1, n)[k] = table[k]
  BY <1>1, <1>2
<1>4. Page(limit) = SubSeq(table, 1, n)
  BY DEF Page, n
<1>5. \A k \in 1..n : k \in DOMAIN table
  BY <1>1, <1>2
<1> QED
  BY <1>2, <1>3, <1>4, <1>5 DEF AreRows

LEMMA FoundIsRow ==
    ASSUME TableInv, NEW i, \E k \in DOMAIN table : table[k].id = i
    PROVE  /\ RowOf(i).id = i /\ AreRows(<<RowOf(i)>>)
           /\ \A k \in DOMAIN table : table[k].id = i => RowOf(i) = table[k]
<1>1. PICK k \in DOMAIN table : table[k].id = i /\ RowOf(i) = table[k]
  BY DEF RowOf
<1>2. \A j \in DOMAIN table : table[j].id = i => RowOf(i) = table[j]
  BY <1>1, TableForm
<1>3. AreRows(<<RowOf(i)>>)
  <2> DEFINE page == <<RowOf(i)>>
  <2>1. page = [l \in 1..1 |-> page[l]] /\ \A l \in 1..1 : page[l] = RowOf(i)
    OBVIOUS
  <2> HIDE DEF page
  <2> QED
    BY <1>1, <2>1 DEF AreRows, page
<1> QED
  BY <1>1, <1>2, <1>3

\* The crossings of a page are rows of that page.
LEMMA CrossingsAreRows ==
    ASSUME NEW page, AreRows(page)
    PROVE  /\ AreRows(Crossing(page))
           /\ AllScan(page) => AllScan(Crossing(page))
           /\ \A k \in DOMAIN Crossing(page) : \E l \in DOMAIN page : Crossing(page)[k] = page[l]
<1>1. PICK n \in Nat : /\ page = [k \in 1..n |-> page[k]]
                       /\ \A k \in 1..n : \E j \in DOMAIN table : page[k] = table[j]
  BY DEF AreRows
<1> DEFINE keep == {k \in DOMAIN page : Crosses(page[k])}
           N == Cardinality(keep)
<1>2. keep \in SUBSET (1..n) /\ DOMAIN page = 1..n
  BY <1>1
<1> HIDE DEF keep
<1>3. keep \in SUBSET Nat /\ IsFiniteSet(keep)
  <2>1. IsFiniteSet(1..n) /\ 1..n \subseteq Nat
    BY FS_Interval
  <2> QED
    BY <1>2, <2>1, FS_Subset
<1>4. N \in Nat
  BY <1>3, FS_CardinalityType
<1>5. PICK at : at \in [1..N -> keep] /\ Selected(page, keep) = [k \in 1..N |-> page[at[k]]]
  BY <1>3, SelectedInOrder DEF InOrder
<1>6. Crossing(page) = Selected(page, keep)
  BY DEF Crossing, keep
<1> HIDE DEF N
<1>7. /\ Crossing(page) = [k \in 1..N |-> page[at[k]]]
      /\ \A k \in 1..N : at[k] \in 1..n
  BY <1>2, <1>5, <1>6
<1>8. DOMAIN Crossing(page) = 1..N /\ \A k \in 1..N : Crossing(page)[k] = page[at[k]]
  BY <1>7
<1>9. Crossing(page) = [k \in 1..N |-> Crossing(page)[k]]
  BY <1>7
<1> QED
  <2>1. AreRows(Crossing(page))
    <3>1. \A k \in 1..N : \E j \in DOMAIN table : Crossing(page)[k] = table[j]
      BY <1>1, <1>7, <1>8
    <3> QED
      BY <1>4, <1>9, <3>1 DEF AreRows
  <2>2. ASSUME AllScan(page) PROVE AllScan(Crossing(page))
    <3> SUFFICES ASSUME NEW k \in 1..N PROVE Scans(Crossing(page)[k])
      BY <1>8 DEF AllScan
    <3>1. Crossing(page)[k] = page[at[k]] /\ at[k] \in DOMAIN page
      BY <1>2, <1>7, <1>8
    <3> QED
      BY <2>2, <3>1, Zenon DEF AllScan
  <2> QED
    BY <1>2, <1>7, <1>8, <2>1, <2>2

-----------------------------------------------------------------------------
(* Answers. *)

\* On Turso a row that can be scanned can be encoded, and by every process alike.
LEMMA TursoScans ==
    ASSUME Backend = "turso", NEW row, IsRow(row), Scans(row), NEW zone
    PROVE  Encodes(Scan(row, zone)) /\ \A other : Scan(row, other) = Scan(row, zone)
<1>1. row.observedAt = None \/ row.observedAt \in Named
  BY DEF Scans
<1>2. \A z : ScanZone(z) = 0
  BY DEF ScanZone
<1>3. \A z : Scan(row, z) = [id |-> row.id, text |-> ScanText(row.text),
                             observedAt |-> IF row.observedAt = None THEN None
                                ELSE [instant |-> row.observedAt, zone |-> 0]]
  BY <1>2 DEF Scan
<1>4. Encodes(Scan(row, zone))
  <2>1. CASE row.observedAt = None
    BY <1>3, <2>1 DEF Encodes
  <2>2. CASE row.observedAt # None
    <3>1. /\ Scan(row, zone).observedAt = [instant |-> row.observedAt, zone |-> 0]
          /\ row.observedAt \in Named /\ row.observedAt + 0 = row.observedAt
      BY <1>1, <1>3, <2>2, InstantsAssumption DEF Named
    <3> QED
      BY <3>1 DEF Encodes
  <2> QED
    BY <2>1, <2>2
<1> QED
  BY <1>3, <1>4

\* Every process scans the same of a row.
ScansAlike == Backend = "turso" \/ \A y, z \in Zones : y = z

LEMMA SameScan ==
    ASSUME ScansAlike, NEW row, IsRow(row), Scans(row), NEW y \in Zones, NEW z \in Zones
    PROVE  Scan(row, y) = Scan(row, z)
<1>1. CASE Backend = "turso"
  BY <1>1, TursoScans
<1>2. CASE \A v, w \in Zones : v = w
  <2>1. y = z
    BY <1>2
  <2> QED
    BY <2>1
<1> QED
  BY <1>1, <1>2 DEF ScansAlike

RunFields == {"pc", "built", "zone", "printed"}

IsRun(r) ==
    /\ r = [field \in RunFields |-> r[field]]
    /\ r.pc \in {"start", "inserted", "ok", "failed"}

\* What a finished import printed is its row as it was read back.
RunsInv ==
    \A i \in Ids :
        /\ IsRun(runs[i])
        /\ runs[i].pc # "start" =>
              runs[i].zone \in Zones /\ \E k \in DOMAIN table : table[k].id = i
        /\ runs[i].pc = "ok" =>
              \E zone \in Zones : \E k \in DOMAIN table :
                 /\ table[k].id = i /\ Scans(table[k])
                 /\ runs[i].printed = Scan(table[k], zone) /\ Encodes(runs[i].printed)

\* A 200 has all that is due of its page, or no body for a time that does not encode.
Complete(a) ==
    a.status = 200 =>
        \/ a.encoded /\ IdsOf(a.body) = IdsOf(Due(a))
        \/ /\ ~a.encoded /\ a.body = <<>>
           /\ \E k \in DOMAIN a.page, zone \in Zones : ~Encodes(Scan(a.page[k], zone))

HasBody(a) == a.status = 200 => a.encoded

\* What acknowledged rows are shown as is what their imports printed.
Honest(a) ==
    a.acked /\ a.route # "crossings" /\ a.status # 404 /\ a.status # 0 =>
        /\ a.status = 200 /\ a.encoded
        /\ DOMAIN a.body = DOMAIN a.page
        /\ \A k \in DOMAIN a.page :
              /\ a.page[k].id \in Ids /\ runs[a.page[k].id].pc = "ok"
              /\ a.body[k] = runs[a.page[k].id].printed

Fits(a) ==
    /\ Complete(a)
    /\ Backend = "turso" => HasBody(a)
    /\ ScansAlike => Honest(a)

AnswersInv == \A c \in Clients : Fits(answers[c])

ColumnsInv == TableInv /\ RunsInv /\ AnswersInv

\* Rows are of the shape of the table's, and those of an import that exited 0 were
\* scanned by it.
LEMMA RowsAre ==
    ASSUME TableInv, RunsInv, NEW page, AreRows(page), NEW k \in DOMAIN page
    PROVE  /\ IsRow(page[k]) /\ page[k].id \in Ids
           /\ runs[page[k].id].pc = "ok" =>
                 /\ Scans(page[k]) /\ Encodes(runs[page[k].id].printed)
                 /\ \E zone \in Zones : runs[page[k].id].printed = Scan(page[k], zone)
<1>1. PICK j \in DOMAIN table : page[k] = table[j]
  BY DEF AreRows
<1>2. IsRow(page[k]) /\ page[k].id \in Ids
  BY <1>1, TableForm DEF IsRow
<1>3. ASSUME runs[page[k].id].pc = "ok"
      PROVE  /\ Scans(page[k]) /\ Encodes(runs[page[k].id].printed)
             /\ \E zone \in Zones : runs[page[k].id].printed = Scan(page[k], zone)
  <2>1. PICK zone \in Zones, l \in DOMAIN table :
           /\ table[l].id = page[k].id /\ Scans(table[l])
           /\ runs[page[k].id].printed = Scan(table[l], zone)
           /\ Encodes(runs[page[k].id].printed)
    BY <1>2, <1>3, Zenon DEF RunsInv
  <2>2. table[l] = page[k]
    BY <1>1, <2>1, TableForm
  <2> QED
    BY <2>1, <2>2
<1> QED
  BY <1>2, <1>3

\* The answer a, as Answer makes it.
Given(a, route, page, status, body) ==
    /\ a.status = status /\ a.route = route /\ a.page = page
    /\ a.acked <=> Acknowledged(page)
    /\ a.encoded <=> \A k \in DOMAIN body : Encodes(body[k])
    /\ a.body = IF a.encoded THEN body ELSE <<>>

LEMMA AnswerGiven ==
    ASSUME TableInv, NEW c \in Clients, NEW route, NEW page, NEW status, NEW body,
           Answer(c, route, page, status, body)
    PROVE  \E a : /\ Given(a, route, page, status, body)
                  /\ answers' = [d \in Clients |-> IF d = c THEN a ELSE answers[d]]
<1> DEFINE fine == \A k \in DOMAIN body : Encodes(body[k])
           acked == Acknowledged(page)
           sent == IF fine THEN body ELSE <<>>
           a == [status |-> status, route |-> route, page |-> page, acked |-> acked,
                 encoded |-> fine, body |-> sent]
<1>1. answers' = [answers EXCEPT ![c] = a]
  BY Zenon DEF Answer
<1>2. Given(a, route, page, status, body)
  <2>1. /\ (fine \in BOOLEAN) /\ (acked \in BOOLEAN)
        /\ sent = IF fine THEN body ELSE <<>>
    BY Zenon DEF Acknowledged
  <2> HIDE DEF fine, acked, sent
  <2>2. /\ a.status = status /\ a.route = route /\ a.page = page
        /\ a.acked = acked /\ a.encoded = fine /\ a.body = sent
    OBVIOUS
  <2> HIDE DEF a
  <2> QED
    BY <2>1, <2>2, Zenon DEF Given, fine, acked
<1> HIDE DEF a
<1> QED
  BY <1>1, <1>2 DEF TableInv

\* The whole page, scanned.
LEMMA WholePage ==
    ASSUME TableInv, RunsInv, NEW page, AreRows(page), AllScan(page), NEW route,
           route # "crossings", NEW zone \in Zones,
           NEW a, Given(a, route, page, 200, ScanAll(page, zone))
    PROVE  Fits(a)
<1> DEFINE body == ScanAll(page, zone)
<1>1. DOMAIN body = DOMAIN page /\ \A k \in DOMAIN page : body[k] = Scan(page[k], zone)
  BY DEF ScanAll
<1>2. /\ a.page = page /\ a.route = route /\ a.status = 200
      /\ a.encoded <=> \A k \in DOMAIN page : Encodes(body[k])
      /\ a.body = IF a.encoded THEN body ELSE <<>>
      /\ a.acked <=> Acknowledged(page)
  BY <1>1 DEF Given
<1> HIDE DEF body
<1>3. Complete(a)
  <2>1. \A k \in DOMAIN page : body[k].id = page[k].id
    BY <1>1 DEF Scan
  <2>2. IdsOf(body) = IdsOf(page)
    BY <1>1, <2>1 DEF IdsOf
  <2>3. Due(a) = page
    BY <1>2 DEF Due
  <2>4. CASE a.encoded
    BY <1>2, <2>2, <2>3, <2>4, Zenon DEF Complete
  <2>5. CASE ~a.encoded
    <3>1. PICK k \in DOMAIN page : ~Encodes(Scan(page[k], zone))
      BY <1>1, <1>2, <2>5
    <3> QED
      BY <1>2, <2>5, <3>1, Zenon DEF Complete
  <2> QED
    BY <2>4, <2>5
<1>4. ASSUME Backend = "turso" PROVE HasBody(a)
  BY <1>1, <1>2, <1>4, RowsAre, TursoScans DEF AllScan, HasBody
<1>5. ASSUME ScansAlike PROVE Honest(a)
  <2>1. ASSUME a.acked, NEW k \in DOMAIN page
        PROVE  /\ page[k].id \in Ids /\ runs[page[k].id].pc = "ok"
               /\ body[k] = runs[page[k].id].printed /\ Encodes(body[k])
    <3>1. runs[page[k].id].pc = "ok"
      BY <1>2, <2>1 DEF Acknowledged
    <3>2. /\ IsRow(page[k]) /\ page[k].id \in Ids /\ Scans(page[k])
          /\ Encodes(runs[page[k].id].printed)
          /\ \E z \in Zones : runs[page[k].id].printed = Scan(page[k], z)
      BY <3>1, RowsAre
    <3>3. body[k] = runs[page[k].id].printed
      BY <1>1, <1>5, <3>2, SameScan
    <3> QED
      BY <3>1, <3>2, <3>3
  <2>2. a.acked => a.encoded /\ a.body = body
    BY <1>2, <2>1
  <2> QED
    BY <1>1, <1>2, <2>1, <2>2 DEF Honest
<1> QED
  BY <1>3, <1>4, <1>5 DEF Fits

\* The crossings of the page, scanned.
LEMMA CrossingsOfPage ==
    ASSUME TableInv, RunsInv, NEW page, AreRows(page), AllScan(page), NEW zone \in Zones,
           NEW a, Given(a, "crossings", page, 200, ScanAll(Crossing(page), zone))
    PROVE  Fits(a)
<1> DEFINE kept == Crossing(page)
           body == ScanAll(kept, zone)
<1>1. DOMAIN body = DOMAIN kept /\ \A k \in DOMAIN kept : body[k] = Scan(kept[k], zone)
  BY DEF ScanAll
<1>2. /\ a.page = page /\ a.route = "crossings" /\ a.status = 200
      /\ a.encoded <=> \A k \in DOMAIN kept : Encodes(body[k])
      /\ a.body = IF a.encoded THEN body ELSE <<>>
  BY <1>1 DEF Given
<1>3. /\ AreRows(kept) /\ AllScan(kept)
      /\ \A k \in DOMAIN kept : \E l \in DOMAIN page : kept[k] = page[l]
  BY CrossingsAreRows
<1>4. Due(a) = kept
  BY <1>2 DEF Due
<1> HIDE DEF body, kept
<1>5. Complete(a)
  <2>1. \A k \in DOMAIN kept : body[k].id = kept[k].id
    BY <1>1 DEF Scan
  <2>2. IdsOf(body) = IdsOf(kept)
    BY <1>1, <2>1 DEF IdsOf
  <2>3. CASE a.encoded
    BY <1>2, <1>4, <2>2, <2>3, Zenon DEF Complete
  <2>4. CASE ~a.encoded
    <3>1. PICK k \in DOMAIN kept : ~Encodes(Scan(kept[k], zone))
      BY <1>1, <1>2, <2>4
    <3>2. PICK l \in DOMAIN page : ~Encodes(Scan(page[l], zone))
      BY <1>3, <3>1
    <3> QED
      BY <1>2, <2>4, <3>2, Zenon DEF Complete
  <2> QED
    BY <2>3, <2>4
<1>6. ASSUME Backend = "turso" PROVE HasBody(a)
  BY <1>1, <1>2, <1>3, <1>6, RowsAre, TursoScans DEF AllScan, HasBody
<1>7. Honest(a)
  BY <1>2 DEF Honest
<1> QED
  BY <1>5, <1>6, <1>7 DEF Fits

\* An error: 404, or 500 for a row that does not scan, which no acknowledged row is.
LEMMA ErrorAnswer ==
    ASSUME TableInv, RunsInv, NEW page, NEW route, NEW status, NEW a,
           Given(a, route, page, status, <<>>),
           status = 404 \/ (status = 500 /\ AreRows(page) /\ ~AllScan(page))
    PROVE  Fits(a)
<1>1. a.status = status /\ status # 200
  BY DEF Given
<1>2. ASSUME status = 500 PROVE ~a.acked
  <2>1. PICK k \in DOMAIN page : ~Scans(page[k])
    BY <1>2 DEF AllScan
  <2> QED
    BY <1>2, <2>1, RowsAre DEF Given, Acknowledged
<1> QED
  BY <1>1, <1>2 DEF Fits, Complete, HasBody, Honest
-----------------------------------------------------------------------------
(* Steps. *)

LEMMA RequestAnswers ==
    ASSUME TableInv, RunsInv, NEW c \in Clients, Request(c)
    PROVE  \E a : /\ Fits(a)
                  /\ answers' = [d \in Clients |-> IF d = c THEN a ELSE answers[d]]
<1>1. ASSUME NEW page, AreRows(page), NEW route, route # "crossings", NEW zone \in Zones,
             ListPage(c, route, page, zone)
      PROVE  \E a : /\ Fits(a)
                    /\ answers' = [d \in Clients |-> IF d = c THEN a ELSE answers[d]]
  <2>1. CASE AllScan(page)
    <3>1. Answer(c, route, page, 200, ScanAll(page, zone))
      BY <1>1, <2>1 DEF ListPage
    <3> QED
      BY <1>1, <2>1, <3>1, AnswerGiven, WholePage
  <2>2. CASE ~AllScan(page)
    <3>1. Answer(c, route, page, 500, <<>>)
      BY <1>1, <2>2 DEF ListPage
    <3> QED
      BY <1>1, <2>2, <3>1, AnswerGiven, ErrorAnswer
  <2> QED
    BY <2>1, <2>2
<1>2. PICK zone \in Zones :
         ListObservations(c, zone) \/ ListCrossings(c, zone) \/ GetObservation(c, zone)
  BY DEF Request
<1>3. CASE ListObservations(c, zone)
  BY <1>1, <1>3, PageIsRows DEF ListObservations
<1>4. CASE ListCrossings(c, zone)
  <2>1. PICK limit \in Limits :
           IF AllScan(Page(limit))
           THEN Answer(c, "crossings", Page(limit), 200,
                       ScanAll(Crossing(Page(limit)), zone))
           ELSE Answer(c, "crossings", Page(limit), 500, <<>>)
    BY <1>4 DEF ListCrossings
  <2>2. AreRows(Page(limit))
    BY PageIsRows
  <2>3. CASE AllScan(Page(limit))
    <3>1. Answer(c, "crossings", Page(limit), 200, ScanAll(Crossing(Page(limit)), zone))
      BY <2>1, <2>3
    <3> QED
      BY <2>2, <2>3, <3>1, AnswerGiven, CrossingsOfPage
  <2>4. CASE ~AllScan(Page(limit))
    <3>1. Answer(c, "crossings", Page(limit), 500, <<>>)
      BY <2>1, <2>4
    <3> QED
      BY <2>2, <2>4, <3>1, AnswerGiven, ErrorAnswer
  <2> QED
    BY <2>3, <2>4
<1>5. CASE GetObservation(c, zone)
  <2>1. PICK i \in Ids :
           IF \E k \in DOMAIN table : table[k].id = i
           THEN ListPage(c, "get", <<RowOf(i)>>, zone)
           ELSE Answer(c, "get", <<>>, 404, <<>>)
    BY <1>5 DEF GetObservation
  <2>2. CASE \E k \in DOMAIN table : table[k].id = i
    BY <1>1, <2>1, <2>2, FoundIsRow
  <2>3. CASE ~\E k \in DOMAIN table : table[k].id = i
    <3>1. Answer(c, "get", <<>>, 404, <<>>)
      BY <2>1, <2>3
    <3> QED
      BY <3>1, AnswerGiven, ErrorAnswer
  <2> QED
    BY <2>2, <2>3
<1> QED
  BY <1>2, <1>3, <1>4, <1>5

LEMMA RequestInv ==
    ASSUME ColumnsInv, NEW c \in Clients, Request(c)
    PROVE  ColumnsInv'
<1>1. PICK a : /\ Fits(a)
               /\ answers' = [d \in Clients |-> IF d = c THEN a ELSE answers[d]]
  BY RequestAnswers DEF ColumnsInv
<1>2. UNCHANGED <<runs, table>>
  BY DEF Request
<1>3. TableInv' /\ RunsInv'
  BY <1>1, <1>2 DEF ColumnsInv, TableInv, RunsInv, IsRow
<1>4. AnswersInv'
  <2> SUFFICES ASSUME NEW d \in Clients PROVE Fits(answers[d])'
    BY DEF AnswersInv
  <2>1. PICK b : b = answers'[d] /\ Fits(b)
    BY <1>1 DEF ColumnsInv, AnswersInv
  <2>2. Honest(b) => Honest(answers[d])'
    BY <1>2, <2>1 DEF Honest
  <2> QED
    BY <2>1, <2>2 DEF Fits, Complete, HasBody
<1> QED
  BY <1>3, <1>4 DEF ColumnsInv

\* What a run that exited 0 has printed stays, so answers stay honest.
LEMMA AnswersStay ==
    ASSUME AnswersInv, UNCHANGED answers,
           \A i \in Ids : runs[i].pc = "ok" => runs'[i] = runs[i]
    PROVE  AnswersInv'
<1>1. ASSUME NEW c \in Clients, Honest(answers[c]) PROVE Honest(answers[c])'
  BY <1>1 DEF Honest
<1>2. ASSUME NEW c \in Clients PROVE answers'[c] = answers[c]
  OBVIOUS
<1> QED
  BY <1>1, <1>2 DEF AnswersInv, Fits, Complete, HasBody

\* A run moves: the others stay, and it keeps its form.
RunMoves(i, pc) ==
    /\ runs' = [j \in Ids |-> runs'[j]] /\ IsRun(runs'[i]) /\ runs'[i].pc = pc
    /\ \A j \in Ids : j # i => runs'[j] = runs[j]

LEMMA InsertInv ==
    ASSUME ColumnsInv, NEW i \in Ids, Insert(i)
    PROVE  ColumnsInv'
<1>1. PICK text \in Texts, t \in FileTimes \cup {None}, zone \in Zones :
         LET built == [id |-> i, text |-> text, observedAt |-> t]
         IN  /\ runs' = [runs EXCEPT ![i] =
                   [@ EXCEPT !.pc = "inserted", !.built = built, !.zone = zone]]
             /\ table' = <<[built EXCEPT !.observedAt = Column(@)]>> \o table
  BY Zenon DEF Insert
<1> DEFINE built == [id |-> i, text |-> text, observedAt |-> t]
           row == [built EXCEPT !.observedAt = Column(@)]
           n == Len(table)
<1>2. row.id = i /\ row.observedAt = Column(t)
  OBVIOUS
<1>3. Column(t) = None \/ Column(t) \in Int
  <2>1. \A local \in Named, offset \in Offsets : local - offset \in Int
    BY InstantsAssumption, OffsetsAssumption DEF Named
  <2> QED
    BY <2>1 DEF Column, FileTimes
<1>4. UNCHANGED answers /\ runs[i].pc = "start"
  BY DEF Insert
<1>5. table' = <<row>> \o table
  BY <1>1
<1> HIDE DEF row
<1>6. /\ n \in Nat /\ DOMAIN table = 1..n
      /\ table \in Seq({table[k] : k \in DOMAIN table})
      /\ \A k \in 1..n : IsRow(table[k]) /\ runs[table[k].id].pc # "start"
      /\ \A j, k \in 1..n : table[j].id = table[k].id => j = k
  BY TableForm DEF ColumnsInv
<1> HIDE DEF n
<1>7. /\ DOMAIN table' = 1..(n + 1) /\ table'[1] = row
      /\ \A k \in 1..n : table'[k + 1] = table[k]
      /\ table' = [k \in 1..(n + 1) |-> table'[k]]
  <2> DEFINE S == {table[k] : k \in DOMAIN table} \cup {row}
  <2>1. <<row>> \in Seq(S) /\ Len(<<row>>) = 1 /\ <<row>>[1] = row
    OBVIOUS
  <2>2. table \in Seq(S) /\ Len(table) = n
    BY <1>6 DEF n
  <2> HIDE DEF S
  <2>3. /\ table' \in Seq(S) /\ Len(table') = n + 1
        /\ \A k \in 1..(n + 1) : table'[k] = IF k <= 1 THEN <<row>>[k] ELSE table[k - 1]
    BY <1>5, <1>6, <2>1, <2>2, ConcatProperties
  <2>4. 1 \in 1..(n + 1) /\ \A k \in 1..n : k + 1 \in 1..(n + 1) /\ ~(k + 1 <= 1) /\ (k + 1) - 1 = k
    BY <1>6
  <2>5. \A k \in 1..n : table'[k + 1] = table[k]
    BY <2>3, <2>4
  <2> QED
    BY <2>1, <2>3, <2>4, <2>5
<1>8. \A k \in 1..(n + 1) : k = 1 \/ \E j \in 1..n : k = j + 1
  <2> SUFFICES ASSUME NEW k \in 1..(n + 1), k # 1 PROVE k - 1 \in 1..n /\ k = (k - 1) + 1
    OBVIOUS
  <2> QED
    BY <1>6
<1>9. RunMoves(i, "inserted") /\ runs'[i].zone \in Zones
  <2> DEFINE run == [runs[i] EXCEPT !.pc = "inserted", !.built = built, !.zone = zone]
  <2>1. runs' = [runs EXCEPT ![i] = run]
    BY <1>1
  <2>2. runs = [j \in Ids |-> runs[j]] /\ IsRun(runs[i])
    BY DEF ColumnsInv, TableInv, RunsInv
  <2> HIDE DEF built
  <2>3. IsRun(run) /\ run.pc = "inserted" /\ run.zone = zone
    BY <2>2 DEF IsRun, RunFields
  <2> HIDE DEF run
  <2> QED
    BY <2>1, <2>2, <2>3 DEF RunMoves
<1>10. TableInv'
  <2>1. \A k \in 1..n : table[k].id \in Ids /\ table[k].id # i
    BY <1>4, <1>6 DEF IsRow
  <2>2. ASSUME NEW k \in 1..(n + 1)
        PROVE  IsRow(table'[k]) /\ runs'[table'[k].id].pc # "start"
    <3>1. CASE k = 1
      BY <1>2, <1>3, <1>7, <1>9, <3>1 DEF IsRow, RunMoves
    <3>2. ASSUME NEW l \in 1..n, k = l + 1
          PROVE  IsRow(table'[k]) /\ runs'[table'[k].id].pc # "start"
      BY <1>6, <1>7, <1>9, <2>1, <3>2 DEF RunMoves
    <3> QED
      BY <1>8, <3>1, <3>2
  <2>3. ASSUME NEW j \in 1..(n + 1), NEW k \in 1..(n + 1), table'[j].id = table'[k].id
        PROVE  j = k
    <3>1. ASSUME NEW a \in 1..n, j = a + 1, NEW b \in 1..n, k = b + 1 PROVE j = k
      <4>1. table[a].id = table[b].id
        BY <1>7, <2>3, <3>1
      <4> QED
        BY <1>6, <3>1, <4>1
    <3>2. ASSUME NEW a \in 1..n, j = a + 1, k = 1 PROVE FALSE
      BY <1>2, <1>7, <2>1, <2>3, <3>2
    <3>3. ASSUME NEW b \in 1..n, k = b + 1, j = 1 PROVE FALSE
      BY <1>2, <1>7, <2>1, <2>3, <3>3
    <3> QED
      BY <1>8, <3>1, <3>2, <3>3
  <2>4. n + 1 \in Nat
    BY <1>6
  <2>5. runs' = [j \in Ids |-> runs'[j]] /\ answers' = [c \in Clients |-> answers'[c]]
    BY <1>4, <1>9 DEF RunMoves, ColumnsInv, TableInv
  <2> QED
    BY <1>7, <2>2, <2>3, <2>4, <2>5 DEF TableInv, IsRow
<1>11. RunsInv'
  <2> SUFFICES ASSUME NEW j \in Ids
               PROVE  /\ IsRun(runs'[j])
                      /\ runs'[j].pc # "start" =>
                            /\ runs'[j].zone \in Zones
                            /\ \E k \in DOMAIN table' : table'[k].id = j
                      /\ runs'[j].pc = "ok" =>
                            \E z \in Zones : \E k \in DOMAIN table' :
                               /\ table'[k].id = j /\ Scans(table'[k])
                               /\ runs'[j].printed = Scan(table'[k], z)
                               /\ Encodes(runs'[j].printed)
    BY DEF RunsInv, IsRun, Scans, Scan, ScanText, ScanZone, Encodes
  <2>1. CASE j = i
    BY <1>2, <1>6, <1>7, <1>9, <2>1 DEF RunMoves
  <2>2. CASE j # i
    <3>1. runs'[j] = runs[j]
      BY <1>9, <2>2 DEF RunMoves
    <3>2. \A k \in DOMAIN table : k + 1 \in DOMAIN table' /\ table'[k + 1] = table[k]
      BY <1>6, <1>7
    <3>3. runs[j].pc # "start" =>
             runs[j].zone \in Zones /\ \E k \in DOMAIN table : table[k].id = j
      BY DEF ColumnsInv, RunsInv
    <3>4. IsRun(runs[j])
      BY DEF ColumnsInv, RunsInv
    <3>5. runs[j].pc = "ok" => \E z \in Zones : \E k \in DOMAIN table :
             /\ table[k].id = j /\ Scans(table[k])
             /\ runs[j].printed = Scan(table[k], z) /\ Encodes(runs[j].printed)
      BY DEF ColumnsInv, RunsInv
    <3> QED
      BY <3>1, <3>2, <3>3, <3>4, <3>5
  <2> QED
    BY <2>1, <2>2
<1>12. AnswersInv'
  BY <1>4, <1>9, AnswersStay DEF RunMoves, ColumnsInv
<1> QED
  BY <1>10, <1>11, <1>12 DEF ColumnsInv

LEMMA ReadBackInv ==
    ASSUME ColumnsInv, NEW i \in Ids, ReadBack(i)
    PROVE  ColumnsInv'
<1> DEFINE got == Scan(RowOf(i), runs[i].zone)
           fine == Scans(RowOf(i)) /\ Encodes(got)
           pc == IF fine THEN "ok" ELSE "failed"
           printed == IF fine THEN got ELSE None
           run == [runs[i] EXCEPT !.pc = pc, !.printed = printed]
<1>1. runs' = [runs EXCEPT ![i] = run] /\ runs[i].pc = "inserted"
  BY Zenon DEF ReadBack
<1>2. UNCHANGED <<table, answers>>
  BY DEF ReadBack
<1>3. runs = [j \in Ids |-> runs[j]] /\ IsRun(runs[i])
  BY DEF ColumnsInv, TableInv, RunsInv
<1>4. /\ pc \in {"ok", "failed"}
      /\ pc = "ok" => Scans(RowOf(i)) /\ printed = got /\ Encodes(got)
  BY Zenon
<1>5. PICK k \in DOMAIN table : table[k].id = i /\ RowOf(i) = table[k]
  <2>1. \E k \in DOMAIN table : table[k].id = i
    BY <1>1 DEF ColumnsInv, RunsInv
  <2> QED
    BY <2>1, FoundIsRow DEF ColumnsInv
<1>6. RunMoves(i, pc) /\ runs'[i].printed = printed /\ runs'[i].zone = runs[i].zone
  <2> HIDE DEF printed, pc
  <2>1. IsRun(run) /\ run.pc = pc /\ run.printed = printed /\ run.zone = runs[i].zone
    BY <1>3, <1>4 DEF IsRun, RunFields
  <2> HIDE DEF run
  <2> QED
    BY <1>1, <1>3, <2>1 DEF RunMoves
<1> HIDE DEF pc, printed, run
<1>7. TableInv'
  <2>1. \A j \in Ids : runs[j].pc # "start" => runs'[j].pc # "start"
    BY <1>4, <1>6 DEF RunMoves
  <2>2. runs' = [j \in Ids |-> runs'[j]]
    BY <1>6 DEF RunMoves
  <2> QED
    BY <1>2, <2>1, <2>2 DEF ColumnsInv, TableInv, IsRow
<1>8. RunsInv'
  <2> SUFFICES ASSUME NEW j \in Ids
               PROVE  /\ IsRun(runs'[j])
                      /\ runs'[j].pc # "start" =>
                            /\ runs'[j].zone \in Zones
                            /\ \E l \in DOMAIN table' : table'[l].id = j
                      /\ runs'[j].pc = "ok" =>
                            \E z \in Zones : \E l \in DOMAIN table' :
                               /\ table'[l].id = j /\ Scans(table'[l])
                               /\ runs'[j].printed = Scan(table'[l], z)
                               /\ Encodes(runs'[j].printed)
    BY DEF RunsInv, IsRun, Scans, Scan, ScanText, ScanZone, Encodes
  <2>1. CASE j = i
    <3>1. runs[i].zone \in Zones
      BY <1>1 DEF ColumnsInv, RunsInv
    <3> QED
      BY <1>2, <1>4, <1>5, <1>6, <2>1, <3>1 DEF RunMoves
  <2>2. CASE j # i
    BY <1>2, <1>6, <2>2 DEF RunMoves, ColumnsInv, RunsInv
  <2> QED
    BY <2>1, <2>2
<1>9. AnswersInv'
  BY <1>1, <1>2, <1>6, AnswersStay DEF RunMoves, ColumnsInv
<1> QED
  BY <1>7, <1>8, <1>9 DEF ColumnsInv

LEMMA ColumnsInvAlways == Spec => []ColumnsInv
<1>1. Init => ColumnsInv
  <2> SUFFICES ASSUME Init PROVE ColumnsInv
    OBVIOUS
  <2>1. \A i \in Ids : IsRun(runs[i]) /\ runs[i].pc = "start"
    BY DEF Init, NoRun, IsRun, RunFields
  <2>2. RunsInv
    BY <2>1 DEF RunsInv
  <2>3. TableInv
    <3>1. 0 \in Nat /\ table = [k \in 1..0 |-> table[k]] /\ \A k \in 1..0 : FALSE
      BY DEF Init
    <3> QED
      BY <3>1 DEF Init, TableInv
  <2>4. \A c \in Clients : answers[c].status = 0
    BY DEF Init, NoAnswer
  <2>5. AnswersInv
    BY <2>4 DEF AnswersInv, Fits, Complete, HasBody, Honest
  <2> QED
    BY <2>2, <2>3, <2>5 DEF ColumnsInv
<1>2. ColumnsInv /\ [Next]_vars => ColumnsInv'
  <2> SUFFICES ASSUME ColumnsInv, [Next]_vars PROVE ColumnsInv'
    OBVIOUS
  <2>1. ASSUME NEW i \in Ids, Insert(i) PROVE ColumnsInv'
    BY <2>1, InsertInv
  <2>2. ASSUME NEW i \in Ids, ReadBack(i) PROVE ColumnsInv'
    BY <2>2, ReadBackInv
  <2>3. ASSUME NEW c \in Clients, Request(c) PROVE ColumnsInv'
    BY <2>3, RequestInv
  <2>4. CASE UNCHANGED vars
    <3>1. TableInv'
      BY <2>4 DEF vars, ColumnsInv, TableInv, IsRow
    <3>2. RunsInv'
      BY <2>4 DEF vars, ColumnsInv, RunsInv, IsRun
    <3>3. AnswersInv'
      BY <2>4, AnswersStay DEF vars, ColumnsInv
    <3> QED
      BY <3>1, <3>2, <3>3 DEF ColumnsInv
  <2> QED
    BY <2>1, <2>2, <2>3, <2>4 DEF Next
<1> QED
  BY <1>1, <1>2, PTL DEF Spec

-----------------------------------------------------------------------------
(* What clients can rely on. *)

\* On either backend a request is answered with all of the page that its route
\* owes, with an error, or with no body, for a time of that page that does not
\* encode: rows that do not scan or encode are never passed over (turso.go:141-152,
\* postgres.go:105-118, api.go:124-130).
THEOREM NoRowIsSkipped == Spec => []NothingSkipped
<1>1. ColumnsInv => NothingSkipped
  BY DEF ColumnsInv, AnswersInv, Fits, Complete, NothingSkipped
<1> QED
  BY <1>1, ColumnsInvAlways, PTL

\* On Turso every 200 has its JSON body: what can be scanned there is in UTC and
\* of a year MarshalJSON takes (api.go:58-67, turso.go:205-211).
THEOREM EveryOKHasBody ==
    ASSUME Backend = "turso"
    PROVE  Spec => []OKHasBody
<1>1. ColumnsInv => OKHasBody
  BY DEF ColumnsInv, AnswersInv, Fits, HasBody, OKHasBody
<1> QED
  BY <1>1, ColumnsInvAlways, PTL

\* On Turso, and on Postgres where the processes run in one zone, a page of rows
\* whose imports exited 0 is answered in full, by every server, with what the
\* imports printed (importcmd.go:86-95, turso.go:130-153, postgres.go:100-118).
THEOREM AcknowledgedAreShown ==
    ASSUME ScansAlike
    PROVE  Spec => []PrintedIsShown
<1>1. ColumnsInv => PrintedIsShown
  <2> SUFFICES ASSUME ColumnsInv, NEW c \in Clients, Honest(answers[c])
               PROVE  LET a == answers[c]
                      IN  a.acked /\ a.route # "crossings" /\ a.status # 404 /\ a.status # 0 =>
                              /\ a.status = 200 /\ a.encoded
                              /\ [k \in DOMAIN a.body |-> Shown(a.body[k])]
                                   = [k \in DOMAIN a.page |-> Shown(runs[a.page[k].id].printed)]
    BY DEF ColumnsInv, AnswersInv, Fits, PrintedIsShown
  <2> QED
    BY DEF Honest
<1> QED
  BY <1>1, ColumnsInvAlways, PTL
=============================================================================
