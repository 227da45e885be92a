--------------------------------- MODULE Log ---------------------------------
(***************************************************************************)
(* What fireline-core is to the people who use it: an append-only log of   *)
(* observations.  An entry is appended once and for good, an import is     *)
(* acknowledged by an entry of the log, a reader is shown one cut of the   *)
(* log and a seeker one entry, as it was at one instant.                   *)
(***************************************************************************)
EXTENDS Integers, Sequences

CONSTANTS
    Entries,        \* the observations an import may leave
    Ids,            \* the names of entries
    Readers,        \* whoever asks for a page
    Limits,         \* page limits
    Seekers         \* whoever asks for one observation

VARIABLES
    log,            \* the entries appended
    acked,          \* the entries imports have printed
    shown,          \* the page each reader was given
    found           \* what each seeker asked for and was given

logVars == <<log, acked, shown, found>>

Init ==
    /\ log = {}
    /\ acked = {}
    /\ shown = [r \in Readers |-> <<>>]
    /\ found = [s \in Seekers |-> <<>>]

AppendEntry(entry) ==
    /\ \A e \in log : e.id # entry.id
    /\ log' = log \cup {entry}
    /\ UNCHANGED <<acked, shown, found>>

Acknowledge(entry) ==
    /\ acked' = acked \cup {entry}
    /\ UNCHANGED <<log, shown, found>>

Entry(page, e) == \E k \in DOMAIN page : page[k] = e

\* Newest first, no entry twice, full unless it has the whole log, and nothing
\* left out that is newer than something shown.
IsCut(page, limit) ==
    /\ \A j, k \in DOMAIN page :
          j < k => page[j] # page[k] /\ page[j].ingestedAt >= page[k].ingestedAt
    /\ \A e \in log : \/ Entry(page, e)
                      \/ /\ Len(page) = limit
                         /\ \A k \in DOMAIN page : page[k].ingestedAt >= e.ingestedAt

List(reader) ==
    /\ \E limit \in Limits : \E n \in 0..limit : \E page \in [1..n -> log] :
          /\ IsCut(page, limit)
          /\ shown' = [shown EXCEPT ![reader] = page]
    /\ UNCHANGED <<log, acked, found>>

\* The entry of that name, or nothing when the log has none.
IsAnswer(id, page) ==
    \/ \E e \in log : e.id = id /\ page = <<e>>
    \/ (\A e \in log : e.id # id) /\ page = <<>>

Get(seeker) ==
    /\ \E id \in Ids : \E page \in {<<>>} \cup {<<e>> : e \in log} :
          /\ IsAnswer(id, page)
          /\ found' = [found EXCEPT ![seeker] = <<id, page>>]
    /\ UNCHANGED <<log, acked, shown>>

Next ==
    \/ \E entry \in Entries : AppendEntry(entry)
    \/ \E entry \in log : Acknowledge(entry)
    \/ \E reader \in Readers : List(reader)
    \/ \E seeker \in Seekers : Get(seeker)

Spec == Init /\ [][Next]_logVars
=============================================================================
