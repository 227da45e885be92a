------------------------------- MODULE Policy -------------------------------
(***************************************************************************)
(* internal/policy with the Fireline and Crossing types of internal/domain *)
(* as pure operators: validation, compilation, evaluation, the diff of two *)
(* evaluations.  CEL itself is outside src/: WhenType gives the type a     *)
(* `when` text compiles to and Cel the value it has for an activation.     *)
(*                                                                         *)
(* A time.Duration is an integer in MinDuration..MaxDuration.              *)
(***************************************************************************)
EXTENDS Observations, Selection

CONSTANTS
    Firelines,        \* what the YAML files given on command lines decode to
    WhenType(_),      \* "bool", another type, or "invalid" for a bad text
    Cel(_, _),        \* "true", "false" or "error"
    NoTolerance,      \* an empty tolerance text
    BadTolerance,     \* a tolerance text time.ParseDuration rejects
    NoFireline,       \* no Fireline given or compiled
    MaxDuration       \* 2 ^ 63 - 1 nanoseconds in the code

MinDuration == -MaxDuration - 1

RuleType ==
    [id : STRING, when : STRING,
     tolerance : (MinDuration..MaxDuration) \cup {NoTolerance, BadTolerance}]
FirelineType == [name : STRING, version : STRING, rules : Seq(RuleType)]

ASSUME MaxDurationAssumption == MaxDuration \in Nat
ASSUME ToleranceAssumption == {NoTolerance, BadTolerance} \cap Int = {}
ASSUME FirelinesAssumption ==
    Firelines \subseteq FirelineType /\ NoFireline \notin Firelines

-----------------------------------------------------------------------------
(* Loading and compiling a Fireline. *)

ToleranceDuration(rule) ==
    IF rule.tolerance = NoTolerance THEN 0 ELSE rule.tolerance

RuleValid(rule) ==
    /\ rule.id # ""
    /\ rule.when # ""
    /\ rule.tolerance # BadTolerance
    /\ ToleranceDuration(rule) >= 0

FirelineValid(f) ==
    /\ f.name # "" /\ f.version # ""
    /\ f.rules # <<>>
    /\ \A i \in DOMAIN f.rules :
          /\ RuleValid(f.rules[i])
          /\ \A j \in DOMAIN f.rules :
                f.rules[i].id = f.rules[j].id => i = j

\* LoadFirelineFile followed by NewEngine return no error.
Compiles(f) ==
    /\ FirelineValid(f)
    /\ \A i \in DOMAIN f.rules : WhenType(f.rules[i].when) = "bool"

-----------------------------------------------------------------------------
(* Evaluating a compiled Fireline against one page of observations. *)

Activation(obs) ==
    [tool |-> obs.claim.tool, toolVersion |-> obs.claim.toolVersion,
     ruleID |-> obs.claim.ruleID, components |-> obs.claim.components,
     severity |-> obs.claim.severity, observedAt |-> obs.claim.observedAt,
     ingestedAt |-> obs.ingestedAt]

EffectiveObservedAt(obs) ==
    IF obs.claim.observedAt = None THEN obs.ingestedAt ELSE obs.claim.observedAt

\* Mutant: the difference of two instants wraps around.
WrappingSub(t, u) ==
    LET span == MaxDuration - MinDuration + 1
    IN  ((t - u - MinDuration) % span) + MinDuration

\* time.Time.Sub saturates.
Sub(t, u) ==
    IF t - u > MaxDuration THEN MaxDuration
    ELSE IF t - u < MinDuration THEN MinDuration ELSE t - u

Crosses(rule, obs, asOf) ==
    /\ Cel(rule.when, Activation(obs)) = "true"
    /\ Sub(asOf, EffectiveObservedAt(obs)) >= ToleranceDuration(rule)

Crossing(rule, obs, asOf) ==
    [ruleID |-> rule.id, observationID |-> obs.id,
     fingerprint |-> obs.fingerprint,
     effectiveObservedAt |-> EffectiveObservedAt(obs),
     age |-> Sub(asOf, EffectiveObservedAt(obs)),
     tolerance |-> ToleranceDuration(rule), asOf |-> asOf]

\* Observations in page order, and the rules in file order for each.
Pairs(f, page) ==
    LET m == Len(f.rules)
    IN  [k \in 1..(Len(page) * m) |->
            [obs |-> page[((k - 1) \div m) + 1],
             rule |-> f.rules[((k - 1) % m) + 1]]]

\* The crossings of pairs, in their order.
CrossingsOf(pairs, asOf) ==
    LET hits == Selected(pairs, {k \in DOMAIN pairs :
                                   Crosses(pairs[k].rule, pairs[k].obs, asOf)})
    IN  [n \in DOMAIN hits |-> Crossing(hits[n].rule, hits[n].obs, asOf)]

\* Mutant: a rule that fails on an observation is skipped, not reported.
EvaluateLeniently(f, page, asOf) ==
    [ok |-> TRUE, crossings |-> CrossingsOf(Pairs(f, page), asOf)]

\* One Eval error on one pair loses the whole result.
Evaluate(f, page, asOf) ==
    LET pairs == Pairs(f, page)
    IN  IF \E k \in DOMAIN pairs :
              Cel(pairs[k].rule.when, Activation(pairs[k].obs)) = "error"
        THEN [ok |-> FALSE, crossings |-> <<>>]
        ELSE [ok |-> TRUE, crossings |-> CrossingsOf(pairs, asOf)]

CrossingKey(c) == <<c.ruleID, c.observationID>>

DiffNewlyCaught(current, baseline) ==
    Selected(current, {k \in DOMAIN current :
        \A i \in DOMAIN baseline :
           CrossingKey(baseline[i]) # CrossingKey(current[k])})
=============================================================================
