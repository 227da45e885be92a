----------------------------- MODULE Fingerprint -----------------------------
(***************************************************************************)
(* domain.ComputeFingerprint down to the bytes it hashes: the keys of the  *)
(* map are collected in whatever order the map yields them, sorted, and    *)
(* written with their values, every string after a NUL but the first.      *)
(*                                                                         *)
(* A string is the sequence of its bytes.  SHA-256 is taken as injective,  *)
(* so the value of a fingerprint is the text that is hashed.               *)
(***************************************************************************)
EXTENDS Integers, Sequences, FiniteSets, SequencesExt

CONSTANTS
    Bytes,          \* the bytes strings are made of
    Names,          \* tools and rule ids
    Versions,       \* tool versions
    Maps            \* identity components: functions from strings to strings

NUL == 0

ASSUME BytesAssumption == NUL \in Bytes /\ Bytes \subseteq 0..255
ASSUME NamesAssumption == Names \subseteq Seq(Bytes)
ASSUME MapsAssumption ==
    \A m \in Maps : /\ DOMAIN m \subseteq Seq(Bytes) /\ IsFiniteSet(DOMAIN m)
                    /\ m \in [DOMAIN m -> Seq(Bytes)]

VARIABLES
    call,           \* the call that is running, or the last one
    returned        \* what a call made before it was given and returned

vars == <<call, returned>>

Inputs == [tool : Names, toolVersion : Versions, ruleID : Names, components : Maps]

-----------------------------------------------------------------------------
(* The parts of the function. *)

StringLess(s, t) ==
    \/ Len(s) < Len(t) /\ SubSeq(t, 1, Len(s)) = s
    \/ \E i \in DOMAIN s \cap DOMAIN t :
          s[i] < t[i] /\ \A j \in 1..(i - 1) : s[j] = t[j]

\* Mutant: the keys are left in the order of the map.
Unsorted(keys) == keys

Ascending(strings) ==
    CHOOSE s \in [1..Cardinality(strings) -> strings] :
        \A i, j \in DOMAIN s : i < j => StringLess(s[i], s[j])

\* sort.Strings, for keys that are all different.
SortStrings(keys) == Ascending({keys[i] : i \in DOMAIN keys})

\* Mutant: a NUL before each key, none between a key and its value.
WriteJoined(tool, ruleID, components, keys) ==
    tool \o <<NUL>> \o ruleID \o
    FlattenSeq([i \in DOMAIN keys |-> <<NUL>> \o keys[i] \o components[keys[i]]])

Write(tool, ruleID, components, keys) ==
    tool \o <<NUL>> \o ruleID \o
    FlattenSeq([i \in DOMAIN keys |->
        <<NUL>> \o keys[i] \o <<NUL>> \o components[keys[i]]])

-----------------------------------------------------------------------------

Begin(input) ==
    [pc |-> "collect", input |-> input, left |-> DOMAIN input.components,
     keys |-> <<>>, value |-> <<>>]

Init ==
    /\ call \in {Begin(input) : input \in Inputs}
    /\ returned = <<>>

\* for k := range components: the map yields any key it has not yielded.
CollectKey ==
    /\ call.pc = "collect"
    /\ \E key \in call.left :
          call' = [call EXCEPT !.left = @ \ {key}, !.keys = Append(@, key)]
    /\ UNCHANGED returned

SortKeys ==
    /\ call.pc = "collect" /\ call.left = {}
    /\ call' = [call EXCEPT !.pc = "sorted", !.keys = SortStrings(@)]
    /\ UNCHANGED returned

Hash ==
    /\ call.pc = "sorted"
    /\ call' = [call EXCEPT !.pc = "done",
          !.value = Write(call.input.tool, call.input.ruleID,
                          call.input.components, call.keys)]
    /\ UNCHANGED returned

\* The program computes a second fingerprint.
CallAgain ==
    /\ call.pc = "done" /\ returned = <<>>
    /\ returned' = <<[input |-> call.input, value |-> call.value]>>
    /\ call' \in {Begin(input) : input \in Inputs}

Next == CollectKey \/ SortKeys \/ Hash \/ CallAgain

Spec == Init /\ [][Next]_vars

-----------------------------------------------------------------------------
(* Properties. *)

\* What two calls must agree on to be about the same finding: "a scanner's
\* version bumping shouldn't change the identity" (fingerprint.go:24-26).
Identity(input) == <<input.tool, input.ruleID, input.components>>

BothReturned == call.pc = "done" /\ returned # <<>>

\* Whatever order each map yields its keys in, calls about the same finding
\* return the same fingerprint (fingerprint.go:23-27).
SameIdentitySameValue ==
    BothReturned /\ Identity(call.input) = Identity(returned[1].input)
        => call.value = returned[1].value

\* "different identity components should produce different fingerprints"
\* (fingerprint_test.go:30), and so should different tools and rules.  They do as
\* long as no string holds the separator.
DistinctIdentityDistinctValue ==
    BothReturned /\ Identity(call.input) # Identity(returned[1].input)
        => call.value # returned[1].value
=============================================================================
