--------------------------- MODULE EvaluateCommand ---------------------------
(***************************************************************************)
(* fireline evaluate: each run fixes its as-of time, compiles one or two   *)
(* Firelines, fetches one page and reports the crossings of that page, or  *)
(* with --against the ones the baseline does not already catch.            *)
(***************************************************************************)
EXTENDS Import

CONSTANTS
    Evals,          \* the runs
    AsOfFlags       \* values of --as-of

ASSUME AsOfAssumption == AsOfFlags \subseteq Nat

VARIABLE evals

evalVars == <<evals>>

EvalPCs == {"start", "compiled", "ok", "failed"}

EvalTypeOK ==
    \A e \in Evals :
        /\ evals[e].pc \in EvalPCs
        /\ evals[e].fireline \in Firelines \cup {NoFireline}
        /\ evals[e].against \in Firelines \cup {NoFireline}
        /\ evals[e].asOf \in Nat
        /\ evals[e].limit \in Limits \cup {0}
        /\ evals[e].page \in Seq(ObservationType)
        /\ evals[e].acked \subseteq Ids
        /\ evals[e].finished \subseteq Evals

\* acked and finished are history: the imports acknowledged and the
\* evaluations finished when the run started.
EvalInit ==
    evals = [e \in Evals |->
        [pc |-> "start", fireline |-> NoFireline, against |-> NoFireline,
         asOf |-> 0, limit |-> 0, page |-> <<>>, report |-> <<>>,
         acked |-> {}, finished |-> {}]]

FinishedEvals == {e \in Evals : evals[e].pc = "ok"}

\* A bad flag, or a Fireline that does not load or compile.
EvaluateRejected(e) ==
    /\ evals[e].pc = "start"
    /\ evals' = [evals EXCEPT ![e].pc = "failed"]
    /\ UNCHANGED <<storeVars, importVars>>

\* asOf is the --as-of flag, or the time before anything is loaded or read.
StartEvaluate(e) ==
    /\ evals[e].pc = "start"
    /\ \E asOf \in AsOfFlags \cup {now}, limit \in {l \in Limits : l > 0},
          f \in {g \in Firelines : Compiles(g)},
          b \in {g \in Firelines : Compiles(g)} \cup {NoFireline} :
          /\ evals' = [evals EXCEPT ![e] =
                [@ EXCEPT !.pc = "compiled", !.fireline = f, !.against = b,
                          !.asOf = asOf, !.limit = limit,
                          !.acked = Acknowledged, !.finished = FinishedEvals]]
    /\ UNCHANGED <<storeVars, importVars>>

\* The repository does not open, or List fails.
EvaluateListFails(e) ==
    /\ evals[e].pc = "compiled"
    /\ evals' = [evals EXCEPT ![e].pc = "failed"]
    /\ UNCHANGED <<storeVars, importVars>>

\* What the run reports of a page, its baseline evaluated against basePage.
Reporting(run, page, basePage) ==
    LET current == Evaluate(run.fireline, page, run.asOf)
        baseline == Evaluate(run.against, basePage, run.asOf)
        diff == run.against # NoFireline
        ok == current.ok /\ (diff => baseline.ok)
    IN  [run EXCEPT
           !.pc = IF ok THEN "ok" ELSE "failed",
           !.page = page,
           !.report = IF ~ok THEN <<>>
                      ELSE IF diff
                      THEN DiffNewlyCaught(current.crossings, baseline.crossings)
                      ELSE current.crossings]

\* Mutant: the baseline is evaluated against a second List.
ReportFromTwoLists(e) ==
    /\ evals[e].pc = "compiled"
    /\ migrated
    /\ \E page, again \in Pages(evals[e].limit) :
          evals' = [evals EXCEPT ![e] = Reporting(@, page, again)]
    /\ UNCHANGED <<storeVars, importVars>>

\* One List, then only computation on the page it returned.
ListAndReport(e) ==
    /\ evals[e].pc = "compiled"
    /\ migrated
    /\ \E page \in Pages(evals[e].limit) :
          evals' = [evals EXCEPT ![e] = Reporting(@, page, page)]
    /\ UNCHANGED <<storeVars, importVars>>

EvalStep(e) ==
    \/ EvaluateRejected(e) \/ StartEvaluate(e)
    \/ EvaluateListFails(e) \/ ListAndReport(e)

EvalNext == \E e \in Evals : EvalStep(e)

-----------------------------------------------------------------------------
(* Properties. *)

\* Which (rule, row) pairs of a page cross, in exact arithmetic: what
\* engine.go:61-65 promises, said without the loop, the saturation of
\* time.Time.Sub or the order.
CrossingPairs(f, page, asOf) ==
    UNION {{<<f.rules[i].id, page[j].id>> : i \in
              {r \in DOMAIN f.rules :
                 /\ Cel(f.rules[r].when, Activation(page[j])) = "true"
                 /\ asOf >= EffectiveObservedAt(page[j])
                              + ToleranceDuration(f.rules[r])}}
           : j \in DOMAIN page}

KeysOf(crossings) == {CrossingKey(crossings[k]) : k \in DOMAIN crossings}
EachOnce(crossings) == Cardinality(KeysOf(crossings)) = Len(crossings)

\* A finished evaluation reports exactly the crossings of its Fireline that the
\* baseline has not, each once, over one page and one as-of time
\* (evaluate.go:78-94, docs/policy-engine/evaluation.md:15-19).
ReportExact ==
    \A e \in FinishedEvals :
        LET run == evals[e]
            caught == IF run.against = NoFireline THEN {}
                      ELSE CrossingPairs(run.against, run.page, run.asOf)
        IN  /\ KeysOf(run.report)
                 = CrossingPairs(run.fireline, run.page, run.asOf) \ caught
            /\ EachOnce(run.report)

\* A run that exits 0 met no rule that fails on a row of its page: an error is
\* never passed over in silence (engine.go:83-90).
NoSilentRuleError ==
    \A e \in FinishedEvals :
        \A f \in {evals[e].fireline, evals[e].against} \ {NoFireline} :
            \A i \in DOMAIN f.rules, j \in DOMAIN evals[e].page :
                Cel(f.rules[i].when, Activation(evals[e].page[j])) # "error"

PageFull(run) == Len(run.page) = run.limit

\* Re-evaluating as of the same time is stable: unless its page is full, a later
\* run with the same Fireline reports every crossing record of an earlier one
\* unchanged, whatever was imported in between (engine.go:62-66).
ReplayStable ==
    \A e \in FinishedEvals : \A d \in evals[e].finished :
        LET run == evals[e]
            earlier == evals[d]
        IN  (/\ run.fireline = earlier.fireline /\ run.asOf = earlier.asOf
             /\ run.against = NoFireline
             /\ ~PageFull(run))
            => \A k \in DOMAIN earlier.report :
                  \E n \in DOMAIN run.report : run.report[n] = earlier.report[k]
=============================================================================
