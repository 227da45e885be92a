------------------------------ MODULE Contract ------------------------------
(***************************************************************************)
(* What storage.ObservationRepository promises the code that uses it, as   *)
(* its comments and the shared suite storagetest say it: observations are  *)
(* values.  Clients hold copies; nothing a client does to its copies can   *)
(* be seen in the repository or by another client.                         *)
(***************************************************************************)
EXTENDS Integers, Sequences, FiniteSets

CONSTANTS
    Clients,        \* the goroutines that share a repository
    Ids,            \* the uuids they draw
    Fingerprints,
    Instants,       \* values of IngestedAt
    Contents,       \* what a map, a payload or a time may hold
    Nil,            \* the nil *time.Time
    Limits          \* limits given to List; a negative one is no limit

\* The fields of an Observation that Go keeps behind a reference.
References == {"components", "payload", "observedAt"}

VARIABLES
    stored,         \* the observations inserted
    built,          \* those each client has originated and still holds
    asked,          \* each client's last call
    got             \* its result, as the client has it now

contractVars == <<stored, built, asked, got>>

-----------------------------------------------------------------------------
(* The orders a listing may come in. *)

Orderings(S, Before(_, _)) ==
    {s \in [1..Cardinality(S) -> S] :
        \A i, j \in DOMAIN s : i < j => s[i] # s[j] /\ ~Before(s[j], s[i])}

Older(o, p) == o.ingestedAt < p.ingestedAt
Newer(o, p) == o.ingestedAt > p.ingestedAt

UpTo(limit, n) == IF 0 <= limit /\ limit < n THEN limit ELSE n

Pages(S, limit) ==
    {SubSeq(s, 1, UpTo(limit, Len(s))) : s \in Orderings(S, Newer)}

-----------------------------------------------------------------------------

Init ==
    /\ stored = {}
    /\ built = [c \in Clients |-> <<>>]
    /\ asked = [c \in Clients |-> <<>>]
    /\ got = [c \in Clients |-> <<>>]

\* NewObservation, with an id nobody has drawn before.
Originate(c) ==
    /\ UNCHANGED asked /\ UNCHANGED <<stored, got>>
    /\ \E id \in Ids, fp \in Fingerprints, t \in Instants,
          components, payload \in Contents, observedAt \in Contents \cup {Nil} :
          /\ \A d \in Clients : \A k \in DOMAIN built[d] : built[d][k].id # id
          /\ built' = [built EXCEPT ![c] = Append(@,
                [id |-> id, fingerprint |-> fp, ingestedAt |-> t,
                 components |-> components, payload |-> payload,
                 observedAt |-> observedAt])]

\* An id that is stored already is refused (the primary key of the backends).
Insert(c) ==
    /\ UNCHANGED asked /\ UNCHANGED <<built, got>>
    /\ \E k \in DOMAIN built[c] :
          /\ \A o \in stored : o.id # built[c][k].id
          /\ stored' = stored \cup {built[c][k]}

Ask(c, call) ==
    /\ asked' = [asked EXCEPT ![c] = call]
    /\ UNCHANGED <<stored, built>>

Receive(c, result) == got' = [got EXCEPT ![c] = result]

\* The observation, or nothing for ErrNotFound.
Get(c) ==
    \E id \in Ids :
        /\ Ask(c, <<"get", id>>)
        /\ \/ \E o \in stored : o.id = id /\ Receive(c, <<o>>)
           \/ (\A o \in stored : o.id # id) /\ Receive(c, <<>>)

ListByFingerprint(c) ==
    \E fp \in Fingerprints :
        /\ Ask(c, <<"fingerprint", fp>>)
        /\ \E result \in Orderings({o \in stored : o.fingerprint = fp}, Older) :
              Receive(c, result)

List(c) ==
    \E limit \in Limits :
        /\ Ask(c, <<"list", limit>>)
        /\ \E page \in Pages(stored, limit) : Receive(c, page)

\* The client writes through a field of something it holds.
Edit(c) ==
    /\ UNCHANGED asked /\ UNCHANGED stored
    /\ \E field \in References, content \in Contents :
          \/ \E k \in DOMAIN built[c] :
                /\ built[c][k][field] # Nil
                /\ built' = [built EXCEPT ![c][k][field] = content]
                /\ UNCHANGED got
          \/ \E k \in DOMAIN got[c] :
                /\ got[c][k][field] # Nil
                /\ got' = [got EXCEPT ![c][k][field] = content]
                /\ UNCHANGED built

Next ==
    \E c \in Clients :
        \/ Originate(c) \/ Insert(c) \/ Get(c) \/ ListByFingerprint(c)
        \/ List(c) \/ Edit(c)

Spec == Init /\ [][Next]_contractVars
=============================================================================
