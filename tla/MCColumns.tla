------------------------------ MODULE MCColumns ------------------------------
(***************************************************************************)
(* Small instances of Columns for TLC.                                     *)
(***************************************************************************)
EXTENDS Columns, TLC

\* Files name times at and beyond both ends of the calendar.
FileOffsets == {-1, 0, 1}
TwoZones == {0, 1}

Severities == {"HIGH", "2024-01-01"}
Dates == {"2024-01-01"}
MCDated(text) == "2024-01-01T00:00:00Z"

Interchangeable == Permutations(Ids)
=============================================================================
