------------------------------ MODULE MCMemory ------------------------------
(***************************************************************************)
(* Small instances of Memory for TLC.                                      *)
(***************************************************************************)
EXTENDS Memory, TLC

Interchangeable == Permutations(Clients) \cup Permutations(Ids)
=============================================================================
