------------------------------ MODULE MCSystem ------------------------------
(***************************************************************************)
(* Small instances of System for TLC.                                      *)
(***************************************************************************)
EXTENDS System, TLC

\* The compact text of a document, and the one Postgres renders it to.
Texts == {"", "compact", "spaced"}
MCJsonb(p) == IF p = "compact" THEN "spaced" ELSE p

OpenSSL == {<<"package", "openssl">>}

\* Two reports of one finding by two versions of a scanner, the second with an
\* observation time of its own, and a file NewObservation rejects.
First ==
    [tool |-> "trivy", toolVersion |-> "1", ruleID |-> "CVE-2024-1",
     components |-> OpenSSL, severity |-> "LOW", payload |-> "compact",
     observedAt |-> None]
Rescan == [First EXCEPT !.toolVersion = "2", !.severity = "HIGH", !.observedAt = 0]
NoIdentity == [First EXCEPT !.components = {}]

FirstOnly == {First}
TwoReports == {First, Rescan}

\* The same package under another rule.
OtherRule == [First EXCEPT !.ruleID = "CVE-2024-2"]
Files == {First, Rescan, OtherRule, NoIdentity}

MCWhenType(when) == IF when = "number" THEN "int" ELSE "bool"

\* "all" is the text `true`; "high" tests severity_raw; "dated" compares
\* observed_at with a timestamp, an error when it is null.
MCCel(when, activation) ==
    CASE when = "high" -> IF activation.severity = "HIGH" THEN "true" ELSE "false"
      [] when = "dated" -> IF activation.observedAt = None THEN "error" ELSE "true"
      [] OTHER -> "true"

Rule(id, when, tolerance) == [id |-> id, when |-> when, tolerance |-> tolerance]
Fireline(rules) == [name |-> "f", version |-> "1", rules |-> rules]

NoFirelines == {}
Everything == Fireline(<<Rule("r1", "all", NoTolerance)>>)
Graced == Fireline(<<Rule("r1", "high", 0), Rule("r2", "all", 1)>>)
Watched == Fireline(<<Rule("r1", "all", 0), Rule("r2", "all", 1)>>)
Dated == Fireline(<<Rule("r1", "dated", 0)>>)
Number == Fireline(<<Rule("r1", "number", 0)>>)
Twice == Fireline(<<Rule("r1", "all", 0), Rule("r1", "high", 0)>>)
Negative == Fireline(<<Rule("r1", "all", -1)>>)

OneFireline == {Everything}
ReadFirelines == {Everything, Dated}
WatchedOnly == {Watched}
ComparedFirelines == {Everything, Graced, Dated}
StartFirelines == {Everything, Dated, Number, Twice, Negative}

Interchangeable ==
    Permutations(Ids) \cup Permutations(Evals) \cup Permutations(Requests)

\* A server that is up over a migrated table and stays up; files may name an
\* earlier time.
SteadyInit ==
    /\ now = 1 /\ migrated = TRUE /\ rows = {}
    /\ ImportInit /\ EvalInit
    /\ command = [pc |-> "serving", cancelled |-> FALSE, shutdown |-> FALSE]
    /\ repoOpen = TRUE
    /\ engine \in ServedFirelines
    /\ requests = [q \in Requests |-> IdleRequest]
SteadySpec == SteadyInit /\ [][Next /\ UNCHANGED command]_vars
=============================================================================
