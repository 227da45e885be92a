------------------------------- MODULE Memory -------------------------------
(***************************************************************************)
(* internal/storage/memory: a map from uuids to Observation structs under  *)
(* a read-write mutex.  The struct's map, payload and time pointer are     *)
(* references; here they are addresses of cells of a heap that the store   *)
(* and its callers share, and that is collected at each step.              *)
(*                                                                         *)
(* Each method holds the mutex from its first to its last statement, so a  *)
(* call is one step.                                                       *)
(***************************************************************************)
EXTENDS Integers, Sequences, FiniteSets

CONSTANTS
    Clients, Ids, Fingerprints, Instants, Nil, Limits,
    MaxEdits        \* bound on the writes of the clients

ASSUME LimitsAssumption == Limits \subseteq Int
ASSUME EditsAssumption == MaxEdits \in Nat

\* What a cell holds: what its observation was built with, or a later write.
Contents == {"original", "edited"}
References == {"components", "payload", "observedAt"}

\* The names cells may have; none is the nil pointer.
Holder == ({"store"} \X Ids \X {1}) \cup ({"built", "got"} \X Clients \X (Nat \ {0}))
Cell == Holder \X References \X Nat

ASSUME NilAssumption == Nil \notin Cell \cup Contents

VARIABLES
    heap,           \* the reachable cells
    byID,           \* the store's map
    built,          \* the observations each client has originated
    asked, got,     \* each client's last call and its result
    edits           \* how many writes the clients have made

vars == <<heap, byID, built, asked, got, edits>>

-----------------------------------------------------------------------------
(* The heap.  A cell is named by the holder and the field it was made for  *)
(* and by the least number that makes the name unlike those in use.        *)

Cells(obs) == {obs[field] : field \in References} \ {Nil}
CellsOf(s) == UNION {Cells(s[k]) : k \in DOMAIN s}

Reachable ==
    CellsOf(byID) \cup UNION {CellsOf(built[c]) \cup CellsOf(got[c]) : c \in Clients}

Fresh(holder, field, used) ==
    LET name(n) == <<holder, field, n>>
    IN  name(CHOOSE n \in 0..Cardinality(used) :
                name(n) \notin used /\ \A m \in 0..(n - 1) : name(m) \in used)

\* What a client sees of an observation it holds.
Value(obs) ==
    [field \in DOMAIN obs |->
        IF field \in References /\ obs[field] # Nil
        THEN heap[obs[field]] ELSE obs[field]]

Values(s) == [k \in DOMAIN s |-> Value(s[k])]

\* Mutant: the struct is copied with its pointer to the time.
CloneTimeShared(obs, holder, used) ==
    [obs EXCEPT !.components = Fresh(holder, "components", used),
                !.payload = Fresh(holder, "payload", used)]

\* Every reference gets a cell of its own.
CloneObservation(obs, holder, used) ==
    [obs EXCEPT !.components = Fresh(holder, "components", used),
                !.payload = Fresh(holder, "payload", used),
                !.observedAt = IF @ = Nil THEN Nil ELSE Fresh(holder, "observedAt", used)]

\* The heap once the clones of originals are filled and the garbage is gone.
Filled(originals, clones) ==
    LET copies == UNION {{<<clones[k][field], originals[k][field]>> :
                             field \in References} : k \in DOMAIN clones}
    IN  heap' = [a \in Reachable' |->
                    IF \E copy \in copies : copy[1] = a
                    THEN heap[(CHOOSE copy \in copies : copy[1] = a)[2]]
                    ELSE heap[a]]

-----------------------------------------------------------------------------

Init ==
    /\ heap = <<>>
    /\ byID = <<>>
    /\ built = [c \in Clients |-> <<>>]
    /\ asked = [c \in Clients |-> <<>>]
    /\ got = [c \in Clients |-> <<>>]
    /\ edits = 0

\* NewObservation in the client, over a map, a payload and a time of its own.
Originate(c) ==
    /\ \E id \in Ids, fp \in Fingerprints, t \in Instants, dated \in BOOLEAN :
          LET holder == <<"built", c, Len(built[c]) + 1>>
              cell(field) == Fresh(holder, field, DOMAIN heap)
          IN  /\ \A d \in Clients : \A k \in DOMAIN built[d] : built[d][k].id # id
              /\ built' = [built EXCEPT ![c] = Append(@,
                    [id |-> id, fingerprint |-> fp, ingestedAt |-> t,
                     components |-> cell("components"), payload |-> cell("payload"),
                     observedAt |-> IF dated THEN cell("observedAt") ELSE Nil])]
    /\ UNCHANGED <<byID, asked, got, edits>>
    /\ heap' = [a \in Reachable' |-> IF a \in DOMAIN heap THEN heap[a] ELSE "original"]

\* r.byID[obs.ID] = cloneObservation(obs): whatever is there is replaced.
Insert(c, k) ==
    LET obs == built[c][k]
        clone == CloneObservation(obs, <<"store", obs.id, 1>>, DOMAIN heap)
    IN  /\ byID' = [id \in DOMAIN byID \cup {obs.id} |->
                       IF id = obs.id THEN clone ELSE byID[id]]
        /\ UNCHANGED <<built, asked, got, edits>>
        /\ Filled(<<obs>>, <<clone>>)

\* Every caller inserts an observation under the uuid NewObservation drew, once.
InsertNew(c) ==
    \E k \in DOMAIN built[c] : built[c][k].id \notin DOMAIN byID /\ Insert(c, k)

\* The cells in use once a client has let go of its last result.
UsedWithout(c) ==
    CellsOf(byID) \cup (UNION {CellsOf(built[d]) : d \in Clients})
                  \cup (UNION {CellsOf(got[d]) : d \in Clients \ {c}})

\* Mutant: the structs of the map are returned as they are.
ReturnUncloned(c, call, originals) ==
    /\ asked' = [asked EXCEPT ![c] = call]
    /\ got' = [got EXCEPT ![c] = originals]
    /\ UNCHANGED <<byID, built, edits>>
    /\ Filled(originals, originals)

\* A clone of each result replaces what the client had.
Return(c, call, originals) ==
    LET clones == [k \in DOMAIN originals |->
            CloneObservation(originals[k], <<"got", c, k>>, UsedWithout(c))]
    IN  /\ asked' = [asked EXCEPT ![c] = call]
        /\ got' = [got EXCEPT ![c] = clones]
        /\ UNCHANGED <<byID, built, edits>>
        /\ Filled(originals, clones)

Get(c) ==
    \E id \in Ids :
        Return(c, <<"get", id>>, IF id \in DOMAIN byID THEN <<byID[id]>> ELSE <<>>)

\* sort.Slice is not stable, and the map is iterated in any order.
Sorted(S, Less(_, _)) ==
    {s \in [1..Cardinality(S) -> S] :
        \A i, j \in DOMAIN s : i < j => s[i] # s[j] /\ ~Less(s[j], s[i])}

Matching(fp) == {byID[id] : id \in {i \in DOMAIN byID : byID[i].fingerprint = fp}}
All == {byID[id] : id \in DOMAIN byID}

Before(o, p) == o.ingestedAt < p.ingestedAt
After(o, p) == o.ingestedAt > p.ingestedAt

ListByFingerprint(c) ==
    \E fp \in Fingerprints :
        \E s \in Sorted(Matching(fp), Before) : Return(c, <<"fingerprint", fp>>, s)

Cut(s, limit) == IF limit >= 0 /\ Len(s) > limit THEN SubSeq(s, 1, limit) ELSE s

List(c) ==
    \E limit \in Limits : \E s \in Sorted(All, After) :
        Return(c, <<"list", limit>>, Cut(s, limit))

\* A client writes to a map, a payload or a time it can reach.
Edit(c) ==
    /\ edits < MaxEdits
    /\ \E a \in CellsOf(built[c]) \cup CellsOf(got[c]) :
          heap[a] # "edited" /\ heap' = [heap EXCEPT ![a] = "edited"]
    /\ edits' = edits + 1
    /\ UNCHANGED <<byID, built, asked, got>>

Call(c) == Originate(c) \/ Get(c) \/ ListByFingerprint(c) \/ List(c) \/ Edit(c)

Next == \E c \in Clients : Call(c) \/ InsertNew(c)

Spec == Init /\ [][Next]_vars

-----------------------------------------------------------------------------
(* Properties. *)

\* cloneObservation gives "the same isolation a real database gives for free"
\* (memory.go:84-86): no two observations in the hands of the store or of its
\* callers reach the same cell.
Holders ==
    {<<"store", id, 1>> : id \in DOMAIN byID}
      \cup (UNION {{<<"built", c, k>> : k \in DOMAIN built[c]} : c \in Clients})
      \cup (UNION {{<<"got", c, k>> : k \in DOMAIN got[c]} : c \in Clients})

HeldBy(h) ==
    CASE h[1] = "store" -> byID[h[2]]
      [] h[1] = "built" -> built[h[2]][h[3]]
      [] h[1] = "got" -> got[h[2]][h[3]]

NothingShared ==
    \A g, h \in Holders : g # h => Cells(HeldBy(g)) \cap Cells(HeldBy(h)) = {}

\* Seen through the heap, the store is the repository of Contract: each call
\* returns what the contract lets it return, and no write of a client shows
\* anywhere but in what that client holds.
Abstract == INSTANCE Contract WITH
    stored <- {Value(byID[id]) : id \in DOMAIN byID},
    built <- [c \in Clients |-> Values(built[c])],
    asked <- asked,
    got <- [c \in Clients |-> Values(got[c])]

IsRepository == Abstract!Spec
=============================================================================
