---------------------------- MODULE MCFingerprint ----------------------------
(***************************************************************************)
(* Small instances of Fingerprint for TLC.                                 *)
(***************************************************************************)
EXTENDS Fingerprint

A == <<1>>
B == <<2>>

\* A name that is the beginning of another, and the empty string.
PlainNames == {A, A \o B}
PlainStrings == {<<>>, A, A \o B}
PlainVersions == {A, B}

MapsOver(keys, strings, most) ==
    UNION {[S -> strings] : S \in {T \in SUBSET keys : Cardinality(T) <= most}}

\* Keys that begin others, values that look like keys, and every order of three.
PlainMaps == MapsOver(PlainStrings, PlainStrings, 2)
               \cup MapsOver({A, B, A \o B}, {A}, 3)
=============================================================================
