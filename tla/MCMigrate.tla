------------------------------ MODULE MCMigrate ------------------------------
(***************************************************************************)
(* Small instances of Migrate for TLC.                                     *)
(***************************************************************************)
EXTENDS Migrate, TLC

Env(backend, postgresDSN, tursoDSN) ==
    [backend |-> backend, postgresDSN |-> postgresDSN, tursoDSN |-> tursoDSN]

\* One database named in two ways, with another DSN beside it, and a backend that
\* does not exist.
SomeEnvs ==
    {Env(Unset, "pg", "file"), Env("postgres", "pg", ""), Env("mysql", "pg", "")}

MemoryEnv == {Env("turso", "", ":memory:")}

Interchangeable == Permutations(Procs)
=============================================================================
