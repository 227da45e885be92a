---------------------------- MODULE Observations ----------------------------
(***************************************************************************)
(* Observations, as internal/domain builds them and as each SQL backend    *)
(* hands them back.  An observation is one immutable claim of one tool     *)
(* run, with the identity the import gave it.                              *)
(*                                                                         *)
(* An instant is a number of ticks of the ingesting clock.  A second has   *)
(* FracBase ^ FracDigits ticks (10 ^ 9 in the code) and a microsecond has  *)
(* Micro ticks (1000 in the code).                                         *)
(***************************************************************************)
EXTENDS Integers, Sequences, FiniteSets

CONSTANTS
    Ids,         \* the uuids the imports draw, one import run each
    Payloads,    \* raw_payload texts, "" the empty one
    Jsonb(_),    \* how Postgres renders a JSONB document
    Claims,      \* the contents an observation file may decode to
    None,        \* the nil *time.Time
    NoObs,       \* no observation built yet
    Backend,     \* the configured StorageBackend
    FracBase, FracDigits, Micro

ClaimType ==
    [tool : STRING, toolVersion : STRING, ruleID : STRING,
     components : SUBSET (STRING \X STRING), severity : STRING,
     payload : Payloads, observedAt : Nat \cup {None}]

ObservationType ==
    [id : Ids,
     fingerprint : [tool : STRING, ruleID : STRING,
                    components : SUBSET (STRING \X STRING), version : {1}],
     claim : ClaimType, ingestedAt : Nat]

ASSUME PayloadsAssumption == \A p \in Payloads : Jsonb(p) \in Payloads
ASSUME ClaimsAssumption == Claims \subseteq ClaimType
ASSUME NoneAssumption == None \notin Int
ASSUME NoObsAssumption == NoObs \notin ObservationType
ASSUME BackendAssumption == Backend \in {"postgres", "turso"}
ASSUME ClockAssumption ==
    FracBase \in Nat \ {0} /\ FracDigits \in Nat \ {0} /\ Micro \in Nat \ {0}

-----------------------------------------------------------------------------
(* Building an observation. *)

Validate(claim) ==
    /\ claim.tool # ""
    /\ claim.ruleID # ""
    /\ claim.components # {}
    /\ claim.severity # ""
    /\ claim.payload # ""

\* Mutant: the algorithm version is left at its zero value.
UnversionedFingerprint(claim) ==
    [tool |-> claim.tool, ruleID |-> claim.ruleID,
     components |-> claim.components, version |-> 0]

\* Mutant: a fingerprint over the whole SourceRef.
FingerprintOfSource(claim) ==
    [tool |-> claim.tool, ruleID |-> claim.ruleID, components |-> claim.components,
     toolVersion |-> claim.toolVersion, version |-> 1]

\* SHA-256 is taken as injective on NUL-free inputs, so the hash is the tuple
\* it is computed from; ToolVersion is not part of it.
ComputeFingerprint(claim) ==
    [tool |-> claim.tool, ruleID |-> claim.ruleID,
     components |-> claim.components, version |-> 1]

NewObservation(id, claim, time) ==
    [id |-> id, fingerprint |-> ComputeFingerprint(claim),
     claim |-> claim, ingestedAt |-> time]

-----------------------------------------------------------------------------
(* The columns of migrations/<backend>/00001_create_observations.sql.      *)

\* TIMESTAMPTZ keeps microseconds and pgx truncates to them; the RFC3339Nano
\* text of the Turso backend keeps every tick.
StoredTime(t) ==
    IF Backend = "postgres" /\ t # None THEN t - (t % Micro) ELSE t

\* JSONB keeps the document and renders it its own way; TEXT keeps the bytes.
StoredPayload(p) ==
    IF Backend = "postgres" THEN Jsonb(p) ELSE p

\* What a read returns of an inserted observation.
Stored(o) ==
    [o EXCEPT !.claim.observedAt = StoredTime(@),
              !.claim.payload = StoredPayload(@),
              !.ingestedAt = StoredTime(@)]

\* The characters after the seconds of an RFC3339Nano text in their ASCII
\* order: the dot, the digits, the final Z.  The fraction has no trailing zero
\* and a zero fraction has no dot.
Dot == 0
Zed == FracBase + 1
Second == FracBase ^ FracDigits
\* 10 ^ 9 ticks.  It follows from ClockAssumption, but the provers know no ^.
ASSUME SecondAssumption == Second \in Nat \ {0}

FracDigit(t, i) == (t \div (FracBase ^ (FracDigits - i))) % FracBase

TimeText(t) ==
    LET significant == {i \in 1..FracDigits : FracDigit(t, i) # 0}
        kept == CHOOSE n \in 0..FracDigits :
                    /\ n = 0 \/ n \in significant
                    /\ \A i \in significant : i <= n
        fraction == [i \in 1..kept |-> 1 + FracDigit(t, i)]
    IN  <<t \div Second>>
          \o (IF kept = 0 THEN <<Zed>> ELSE <<Dot>> \o fraction \o <<Zed>>)

TextBefore(x, y) ==
    \E i \in DOMAIN x \cap DOMAIN y :
        /\ x[i] < y[i]
        /\ \A j \in 1..(i - 1) : x[j] = y[j]

\* Mutant: ORDER BY ingested_at without DESC.
AscendingSortsBefore(x, y) == x.ingestedAt < y.ingestedAt

\* ORDER BY ingested_at DESC: a timestamp in Postgres, a TEXT under the binary
\* collation in Turso.
SortsBefore(x, y) ==
    IF Backend = "postgres"
    THEN x.ingestedAt > y.ingestedAt
    ELSE TextBefore(TimeText(y.ingestedAt), TimeText(x.ingestedAt))
=============================================================================
