-------------------------------- MODULE Store --------------------------------
(***************************************************************************)
(* The observations table behind storage.ObservationRepository, shared by  *)
(* every command that opens it, and the clock the commands read.           *)
(*                                                                         *)
(* One SQL statement is one step: each runs alone in its own transaction.  *)
(* The clock never runs backwards (time.Now().UTC() drops the monotonic    *)
(* reading, so this is an assumption about the host).                      *)
(***************************************************************************)
EXTENDS Policy

CONSTANTS
    MaxNow,      \* bound on the clock, for TLC
    Limits       \* page limits callers give, the non-positive ones included

VARIABLES
    now,         \* what time.Now() returns
    migrated,    \* the observations table exists
    rows         \* the rows of the table, as reads return them

storeVars == <<now, migrated, rows>>

ASSUME MaxNowAssumption == MaxNow \in Nat
ASSUME LimitsAssumption == Limits \subseteq Int

StoreTypeOK ==
    /\ now \in 0..MaxNow
    /\ migrated \in BOOLEAN
    /\ rows \in SUBSET ObservationType

StoreInit ==
    /\ now = 0
    /\ migrated = FALSE
    /\ rows = {}

Tick ==
    /\ now < MaxNow
    /\ now' = now + 1
    /\ UNCHANGED <<migrated, rows>>

\* fireline migrate: goose applies the one migration in a transaction, and
\* finds nothing pending on the next run.
Migrate ==
    /\ migrated' = TRUE
    /\ UNCHANGED <<now, rows>>

-----------------------------------------------------------------------------
(* The statements of the repository, for a table that exists. *)

HasRow(id) == \E row \in rows : row.id = id
RowOf(id) == CHOOSE row \in rows : row.id = id

\* Mutant: an upsert on the fingerprint index.
WithRowPerFingerprint(obs) ==
    {row \in rows : row.fingerprint # obs.fingerprint} \cup {Stored(obs)}

\* Mutant: the table stamps ingested_at itself.
WithStampedRow(obs) == rows \cup {[Stored(obs) EXCEPT !.ingestedAt = now]}

\* INSERT INTO observations; the id is the primary key.
WithRow(obs) == rows \cup {Stored(obs)}

PageLen(limit) ==
    IF limit < Cardinality(rows) THEN limit ELSE Cardinality(rows)

\* Mutant: LIMIT applied before ORDER BY.
PagesOfAnyRows(limit) ==
    UNION {{page \in [1..PageLen(limit) -> kept] :
               \A i, j \in 1..PageLen(limit) :
                  i < j => page[i] # page[j] /\ ~SortsBefore(page[j], page[i])}
           : kept \in {s \in SUBSET rows : Cardinality(s) = PageLen(limit)}}

\* SELECT ... ORDER BY ingested_at DESC LIMIT: no row comes before the ones
\* that sort before it, and rows that tie come in any order.
Pages(limit) ==
    {page \in [1..PageLen(limit) -> rows] :
        \A i \in 1..PageLen(limit) :
            /\ \A j \in 1..(i - 1) : page[j] # page[i]
            /\ \A row \in rows :
                  SortsBefore(row, page[i]) => \E j \in 1..(i - 1) : page[j] = row}

\* SELECT ... WHERE fingerprint_value AND fingerprint_version ORDER BY ingested_at.
ListByFingerprint(fp) ==
    LET matching == {row \in rows : row.fingerprint = fp}
    IN  {list \in [1..Cardinality(matching) -> matching] :
            \A i, j \in DOMAIN list :
               i < j => list[i] # list[j] /\ ~SortsBefore(list[i], list[j])}

-----------------------------------------------------------------------------
(* What a reader may expect of a page, in terms of the real ingestion times. *)

\* The page has the row of id, or it is full of rows at least as new.
ShowsOrEvicts(page, limit, id) ==
    \/ \E k \in DOMAIN page : page[k].id = id
    \/ /\ Len(page) = limit
       /\ \A k \in DOMAIN page : page[k].ingestedAt >= RowOf(id).ingestedAt
=============================================================================
