---------------------------- MODULE ReportProofs ----------------------------
(***************************************************************************)
(* What evaluations report and what GET /crossings answers, on either      *)
(* backend: exactly the crossings of the page, and the same ones again     *)
(* later.  On Postgres, that a page keeps what earlier answers showed.     *)
(***************************************************************************)
EXTENDS LogProofs

-----------------------------------------------------------------------------
(* The engine. *)

\* A loop over m rules inside one over observations, as one over pairs: which
\* pair rule i makes with observation j, and of which two pair k is.
PairOf(i, j, m) == (j - 1) * m + i
RuleOfPair(k, m) == ((k - 1) % m) + 1
ObsOfPair(k, m) == ((k - 1) \div m) + 1

LEMMA PairOfPlaces ==
    ASSUME NEW m \in Nat, NEW n \in Nat, NEW i \in 1..m, NEW j \in 1..n
    PROVE  /\ PairOf(i, j, m) \in 1..(n * m)
           /\ RuleOfPair(PairOf(i, j, m), m) = i
           /\ ObsOfPair(PairOf(i, j, m), m) = j
  BY DEF PairOf, RuleOfPair, ObsOfPair

LEMMA PlacesOfPair ==
    ASSUME NEW m \in Nat, NEW n \in Nat, NEW k \in 1..(n * m)
    PROVE  /\ RuleOfPair(k, m) \in 1..m /\ ObsOfPair(k, m) \in 1..n
           /\ PairOf(RuleOfPair(k, m), ObsOfPair(k, m), m) = k
  BY DEF PairOf, RuleOfPair, ObsOfPair

LEMMA PairsAre ==
    ASSUME NEW f, NEW page, NEW m \in Nat, NEW n \in Nat,
           Len(f.rules) = m, Len(page) = n
    PROVE  Pairs(f, page) = [k \in 1..(n * m) |-> [obs |-> page[ObsOfPair(k, m)],
                                                  rule |-> f.rules[RuleOfPair(k, m)]]]
  BY DEF Pairs, ObsOfPair, RuleOfPair

\* Which rules of f cross which observations of page, by their places.
Hits(f, page, asOf) ==
    {hit \in (DOMAIN f.rules) \X (DOMAIN page) :
        Crosses(f.rules[hit[1]], page[hit[2]], asOf)}

CrossingAt(f, page, asOf, hit) == Crossing(f.rules[hit[1]], page[hit[2]], asOf)

\* A sequence that lists each element of S once.
ListsOnce(s, S) ==
    /\ \E n \in Nat : s \in [1..n -> S]
    /\ \A x \in S : \E k \in DOMAIN s : s[k] = x
    /\ \A j, k \in DOMAIN s : s[j] = s[k] => j = k

\* The engine lists a crossing for each hit, and for nothing else.
LEMMA CrossingsAreHits ==
    ASSUME NEW f, NEW page, NEW asOf,
           Len(f.rules) \in Nat, DOMAIN f.rules = 1..Len(f.rules),
           Len(page) \in Nat, DOMAIN page = 1..Len(page)
    PROVE  \E hits :
              /\ ListsOnce(hits, Hits(f, page, asOf))
              /\ CrossingsOf(Pairs(f, page), asOf)
                   = [k \in DOMAIN hits |-> CrossingAt(f, page, asOf, hits[k])]
<1> DEFINE m == Len(f.rules)
           n == Len(page)
           pairs == Pairs(f, page)
           keep == {k \in DOMAIN pairs : Crosses(pairs[k].rule, pairs[k].obs, asOf)}
           N == Cardinality(keep)
           P == n * m
           Source(k) == <<RuleOfPair(k, m), ObsOfPair(k, m)>>
<1>0. /\ m \in Nat /\ Len(f.rules) = m /\ DOMAIN f.rules = 1..m
      /\ n \in Nat /\ Len(page) = n /\ DOMAIN page = 1..n
  OBVIOUS
<1> HIDE DEF m, n
<1>1. /\ P \in Nat
      /\ pairs = [k \in 1..P |-> [obs |-> page[Source(k)[2]], rule |-> f.rules[Source(k)[1]]]]
  BY <1>0, PairsAre
<1>2. \A k \in 1..P : /\ Source(k) \in (1..m) \X (1..n)
                      /\ PairOf(Source(k)[1], Source(k)[2], m) = k
  BY <1>0, PlacesOfPair
<1>3. \A hit \in (1..m) \X (1..n) :
         /\ PairOf(hit[1], hit[2], m) \in 1..P
         /\ Source(PairOf(hit[1], hit[2], m)) = hit
  <2> SUFFICES ASSUME NEW i \in 1..m, NEW j \in 1..n
               PROVE  PairOf(i, j, m) \in 1..P /\ Source(PairOf(i, j, m)) = <<i, j>>
    OBVIOUS
  <2> QED
    BY <1>0, PairOfPlaces, Zenon
<1> HIDE DEF pairs, P, Source
<1>4. \A k \in 1..P : k \in keep <=> Source(k) \in Hits(f, page, asOf)
  BY <1>0, <1>1, <1>2 DEF Hits
<1>5. keep \in SUBSET (1..P)
  BY <1>1
<1> HIDE DEF keep
<1>6. keep \in SUBSET Nat /\ IsFiniteSet(keep)
  <2>1. IsFiniteSet(1..P)
    BY <1>1, FS_Interval
  <2>2. IsFiniteSet(keep)
    BY <1>5, <2>1, FS_Subset
  <2>3. 1..P \subseteq Nat
    BY <1>1
  <2> QED
    BY <1>5, <2>2, <2>3
<1>7. N \in Nat
  BY <1>6, FS_CardinalityType
<1>8. PICK at :
         /\ at \in [1..N -> keep]
         /\ \A j, k \in 1..N : j < k => at[j] < at[k]
         /\ \A k \in keep : \E j \in 1..N : at[j] = k
         /\ Selected(pairs, keep) = [k \in 1..N |-> pairs[at[k]]]
  BY <1>6, SelectedInOrder DEF InOrder
<1> DEFINE hits == [k \in 1..N |-> Source(at[k])]
<1> HIDE DEF N
<1>9. \A k \in 1..N : at[k] \in 1..P /\ at[k] \in keep
  BY <1>5, <1>8
<1>10. hits \in [1..N -> Hits(f, page, asOf)]
  BY <1>4, <1>9
<1>11. ASSUME NEW hit \in Hits(f, page, asOf)
       PROVE  \E k \in 1..N : hits[k] = hit
  <2>1. hit \in (1..m) \X (1..n)
    BY <1>0 DEF Hits
  <2>2. PICK k \in 1..P : Source(k) = hit
    BY <1>3, <2>1
  <2>3. PICK j \in 1..N : at[j] = k
    BY <1>4, <1>8, <2>2
  <2> QED
    BY <2>2, <2>3
<1>12. ASSUME NEW j \in 1..N, NEW k \in 1..N, hits[j] = hits[k]
       PROVE  j = k
  <2>1. at[j] = at[k]
    BY <1>2, <1>9, <1>12
  <2>2. at[j] \in Nat /\ at[k] \in Nat
    BY <1>1, <1>9
  <2> QED
    BY <1>7, <1>8, <2>1, <2>2
<1>13. CrossingsOf(pairs, asOf) = [k \in DOMAIN hits |-> CrossingAt(f, page, asOf, hits[k])]
  <2> DEFINE chosen == Selected(pairs, keep)
  <2>1. DOMAIN chosen = 1..N /\ DOMAIN hits = 1..N
    BY <1>8
  <2>2. \A k \in 1..N : /\ chosen[k].obs = page[hits[k][2]]
                        /\ chosen[k].rule = f.rules[hits[k][1]]
    <3> SUFFICES ASSUME NEW k \in 1..N
                 PROVE  /\ chosen[k].obs = page[hits[k][2]]
                        /\ chosen[k].rule = f.rules[hits[k][1]]
      OBVIOUS
    <3>1. chosen[k] = pairs[at[k]] /\ hits[k] = Source(at[k])
      BY <1>8
    <3>2. pairs[at[k]] = [obs |-> page[Source(at[k])[2]], rule |-> f.rules[Source(at[k])[1]]]
      BY <1>1, <1>9
    <3> HIDE DEF chosen, hits
    <3> QED
      BY <3>1, <3>2
  <2>3. CrossingsOf(pairs, asOf)
          = [k \in DOMAIN chosen |-> Crossing(chosen[k].rule, chosen[k].obs, asOf)]
    BY Zenon DEF CrossingsOf, keep
  <2> HIDE DEF chosen, hits
  <2>4. \A k \in 1..N : Crossing(chosen[k].rule, chosen[k].obs, asOf)
                          = CrossingAt(f, page, asOf, hits[k])
    BY <2>2 DEF CrossingAt
  <2> QED
    BY <2>1, <2>3, <2>4
<1>14. ListsOnce(hits, Hits(f, page, asOf))
  <2>1. DOMAIN hits = 1..N
    BY <1>10
  <2> HIDE DEF hits
  <2> QED
    BY <1>7, <1>10, <1>11, <1>12, <2>1 DEF ListsOnce
<1> QED
  BY <1>13, <1>14 DEF pairs
-----------------------------------------------------------------------------
(* Ages and tolerances. *)

LEMMA TimesAreNat ==
    ASSUME NEW obs \in ObservationType
    PROVE  EffectiveObservedAt(obs) \in Nat
  BY DEF EffectiveObservedAt, ObservationType, ClaimType

\* A rule of a Fireline that compiles.
LEMMA ToleranceBound ==
    ASSUME NEW rule \in RuleType, RuleValid(rule)
    PROVE  ToleranceDuration(rule) \in 0..MaxDuration
<1>1. rule.tolerance \in (MinDuration..MaxDuration) \cup {NoTolerance, BadTolerance}
  BY Zenon DEF RuleType
<1>2. rule.tolerance # BadTolerance /\ ToleranceDuration(rule) >= 0
  BY DEF RuleValid
<1>3. CASE rule.tolerance = NoTolerance
  BY <1>3, MaxDurationAssumption DEF ToleranceDuration
<1>4. CASE rule.tolerance # NoTolerance
  BY <1>1, <1>2, <1>4, MaxDurationAssumption DEF ToleranceDuration, MinDuration
<1> QED
  BY <1>3, <1>4

\* Saturation keeps every comparison of an age with a tolerance, and an instant
\* that has passed is never seen as one to come.
LEMMA SaturationIsExact ==
    ASSUME NEW asOf \in Nat, NEW t \in Nat, NEW tolerance \in 0..MaxDuration
    PROVE  Sub(asOf, t) >= tolerance <=> asOf >= t + tolerance
  BY MaxDurationAssumption DEF Sub, MinDuration

LEMMA RulesOf ==
    ASSUME NEW f \in Firelines, FirelineValid(f)
    PROVE  /\ Len(f.rules) \in Nat /\ DOMAIN f.rules = 1..Len(f.rules)
           /\ \A i \in DOMAIN f.rules : ToleranceDuration(f.rules[i]) \in 0..MaxDuration
           /\ \A i, j \in DOMAIN f.rules : f.rules[i].id = f.rules[j].id => i = j
<1>1. f.rules \in Seq(RuleType)
  BY FirelinesAssumption DEF FirelineType
<1>2. Len(f.rules) \in Nat /\ DOMAIN f.rules = 1..Len(f.rules)
  BY <1>1, LenProperties
<1>3. \A i \in DOMAIN f.rules : f.rules[i] \in RuleType
  BY <1>1, ElementOfSeq, LenProperties
<1> QED
  BY <1>2, <1>3, ToleranceBound DEF FirelineValid

\* What engine.go:61-65 promises of a rule and an observation.
LEMMA CrossesWhen ==
    ASSUME NEW f \in Firelines, FirelineValid(f), NEW i \in DOMAIN f.rules,
           NEW obs \in ObservationType, NEW asOf \in Nat
    PROVE  Crosses(f.rules[i], obs, asOf)
             <=> /\ Cel(f.rules[i].when, Activation(obs)) = "true"
                 /\ asOf >= EffectiveObservedAt(obs) + ToleranceDuration(f.rules[i])
<1>1. /\ ToleranceDuration(f.rules[i]) \in 0..MaxDuration
      /\ EffectiveObservedAt(obs) \in Nat
  BY RulesOf, TimesAreNat
<1> QED
  BY <1>1, SaturationIsExact DEF Crosses

-----------------------------------------------------------------------------
(* Evaluations of a page. *)

\* What an evaluation that succeeds has computed: no rule failed, and each hit
\* has its crossing.
Computed(f, page, asOf, crossings) ==
    /\ \A i \in DOMAIN f.rules, j \in DOMAIN page :
          Cel(f.rules[i].when, Activation(page[j])) # "error"
    /\ \E hits : /\ ListsOnce(hits, Hits(f, page, asOf))
                 /\ crossings = [k \in DOMAIN hits |-> CrossingAt(f, page, asOf, hits[k])]

LEMMA EvaluationComputes ==
    ASSUME rows \subseteq ObservationType,
           NEW f \in Firelines, FirelineValid(f), NEW page, IsPage(page), NEW asOf,
           Evaluate(f, page, asOf).ok
    PROVE  Computed(f, page, asOf, Evaluate(f, page, asOf).crossings)
<1> DEFINE m == Len(f.rules)
           n == Len(page)
           pairs == Pairs(f, page)
<1>1. m \in Nat /\ Len(f.rules) = m /\ DOMAIN f.rules = 1..m
  BY RulesOf
<1>2. n \in Nat /\ Len(page) = n /\ DOMAIN page = 1..n
  BY PageForm
<1> HIDE DEF m, n
<1>3. /\ ~\E k \in DOMAIN pairs : Cel(pairs[k].rule.when, Activation(pairs[k].obs)) = "error"
      /\ Evaluate(f, page, asOf).crossings = CrossingsOf(pairs, asOf)
  <2> HIDE DEF pairs
  <2>1. Evaluate(f, page, asOf)
          = IF \E k \in DOMAIN pairs :
                  Cel(pairs[k].rule.when, Activation(pairs[k].obs)) = "error"
            THEN [ok |-> FALSE, crossings |-> <<>>]
            ELSE [ok |-> TRUE, crossings |-> CrossingsOf(pairs, asOf)]
    BY DEF Evaluate, pairs
  <2> QED
    BY <2>1
<1>4. ASSUME NEW i \in DOMAIN f.rules, NEW j \in DOMAIN page
      PROVE  Cel(f.rules[i].when, Activation(page[j])) # "error"
  <2>1. PICK k : k \in 1..(n * m) /\ RuleOfPair(k, m) = i /\ ObsOfPair(k, m) = j
    <3>1. m \in Nat /\ n \in Nat /\ i \in 1..m /\ j \in 1..n
      BY <1>1, <1>2
    <3>2. /\ PairOf(i, j, m) \in 1..(n * m)
          /\ RuleOfPair(PairOf(i, j, m), m) = i /\ ObsOfPair(PairOf(i, j, m), m) = j
      BY <3>1, PairOfPlaces, Zenon
    <3> QED
      BY <3>2, Zenon
  <2>2. pairs = [l \in 1..(n * m) |-> [obs |-> page[ObsOfPair(l, m)],
                                       rule |-> f.rules[RuleOfPair(l, m)]]]
    BY <1>1, <1>2, PairsAre DEF m, n
  <2>3. pairs[k].rule = f.rules[i] /\ pairs[k].obs = page[j] /\ k \in DOMAIN pairs
    BY <2>1, <2>2
  <2> QED
    BY <1>3, <2>3
<1>5. \E hits : /\ ListsOnce(hits, Hits(f, page, asOf))
                /\ CrossingsOf(pairs, asOf)
                     = [k \in DOMAIN hits |-> CrossingAt(f, page, asOf, hits[k])]
  BY <1>1, <1>2, CrossingsAreHits
<1> QED
  BY <1>3, <1>4, <1>5 DEF Computed

\* A list of crossings with a key each.
Keyed(crossings) ==
    \E n \in Nat :
        /\ crossings = [k \in 1..n |-> crossings[k]]
        /\ \A j, k \in 1..n :
              CrossingKey(crossings[j]) = CrossingKey(crossings[k]) => j = k

LEMMA KeyedIsOnce ==
    ASSUME NEW crossings, Keyed(crossings)
    PROVE  EachOnce(crossings)
<1>1. PICK n \in Nat :
         /\ crossings = [k \in 1..n |-> crossings[k]]
         /\ \A j, k \in 1..n :
               CrossingKey(crossings[j]) = CrossingKey(crossings[k]) => j = k
  BY DEF Keyed
<1> DEFINE elements == {crossings[k] : k \in 1..n}
           keys == KeysOf(crossings)
           keyOf == [k \in 1..n |-> CrossingKey(crossings[k])]
<1>2. DOMAIN crossings = 1..n
  BY <1>1
<1>3. Len(crossings) = n
  <2>1. crossings \in [1..n -> elements]
    BY <1>1
  <2>2. crossings \in Seq(elements)
    BY <2>1, SeqDef
  <2> QED
    BY <1>2, <2>2, LenProperties
<1>4. keyOf \in Surjection(1..n, keys) /\ keyOf \in Injection(1..n, keys)
  <2>1. keys = {CrossingKey(crossings[k]) : k \in 1..n}
    BY <1>2 DEF KeysOf
  <2> HIDE DEF keys
  <2> QED
    BY <1>1, <2>1 DEF Surjection, Injection, IsInjective
<1>5. IsFiniteSet(1..n) /\ Cardinality(1..n) = n
  BY FS_Interval
<1>6. Cardinality(keys) = n
  <2> HIDE DEF keys, keyOf
  <2> QED
    BY <1>4, <1>5, FS_Surjection
<1> QED
  BY <1>3, <1>6 DEF EachOnce

\* The keys of an evaluation are the pairs that cross in exact arithmetic.
LEMMA ComputedKeys ==
    ASSUME rows \subseteq ObservationType,
           NEW f \in Firelines, FirelineValid(f), NEW page, IsPage(page),
           NEW asOf \in Nat, NEW crossings, Computed(f, page, asOf, crossings)
    PROVE  /\ Keyed(crossings)
           /\ KeysOf(crossings) = CrossingPairs(f, page, asOf)
<1> DEFINE H == Hits(f, page, asOf)
           Key(hit) == <<f.rules[hit[1]].id, page[hit[2]].id>>
<1>1. PICK hits : /\ ListsOnce(hits, H)
                  /\ crossings = [k \in DOMAIN hits |-> CrossingAt(f, page, asOf, hits[k])]
  BY DEF Computed
<1>2. PICK n \in Nat : hits \in [1..n -> H]
  BY <1>1 DEF ListsOnce
<1>3. /\ \A hit \in H : \E k \in 1..n : hits[k] = hit
      /\ \A j, k \in 1..n : hits[j] = hits[k] => j = k
  BY <1>1, <1>2 DEF ListsOnce
<1>4. \A k \in 1..n : CrossingKey(crossings[k]) = Key(hits[k])
  <2>1. \A hit : CrossingKey(CrossingAt(f, page, asOf, hit)) = Key(hit)
    BY DEF CrossingKey, CrossingAt, Crossing
  <2>2. \A k \in 1..n : crossings[k] = CrossingAt(f, page, asOf, hits[k])
    BY <1>1, <1>2
  <2> QED
    BY <2>1, <2>2, Zenon
<1>5. /\ \A j, k \in DOMAIN page : page[j].id = page[k].id => j = k
      /\ \A k \in DOMAIN page : page[k] \in ObservationType
  BY PageForm
<1>6. \A i, j \in DOMAIN f.rules : f.rules[i].id = f.rules[j].id => i = j
  BY RulesOf
<1>7. \A hit \in H : hit \in (DOMAIN f.rules) \X (DOMAIN page)
  BY DEF Hits
<1>8. \A g, h \in H : Key(g) = Key(h) => g = h
  BY <1>5, <1>6, <1>7
<1>9. CrossingPairs(f, page, asOf) = {Key(hit) : hit \in H}
  <2>1. ASSUME NEW i \in DOMAIN f.rules, NEW j \in DOMAIN page
        PROVE  <<i, j>> \in H
                 <=> /\ Cel(f.rules[i].when, Activation(page[j])) = "true"
                     /\ asOf >= EffectiveObservedAt(page[j]) + ToleranceDuration(f.rules[i])
    BY <1>5, CrossesWhen DEF Hits
  <2>2. ASSUME NEW key \in CrossingPairs(f, page, asOf)
        PROVE  \E hit \in H : Key(hit) = key
    <3>1. PICK j \in DOMAIN page : \E i \in DOMAIN f.rules :
             /\ key = <<f.rules[i].id, page[j].id>>
             /\ Cel(f.rules[i].when, Activation(page[j])) = "true"
             /\ asOf >= EffectiveObservedAt(page[j]) + ToleranceDuration(f.rules[i])
      BY DEF CrossingPairs
    <3> HIDE DEF H
    <3> QED
      BY <2>1, <3>1
  <2>3. ASSUME NEW hit \in H
        PROVE  Key(hit) \in CrossingPairs(f, page, asOf)
    <3>1. PICK i \in DOMAIN f.rules, j \in DOMAIN page : hit = <<i, j>>
      BY <1>7
    <3>2. /\ Cel(f.rules[i].when, Activation(page[j])) = "true"
          /\ asOf >= EffectiveObservedAt(page[j]) + ToleranceDuration(f.rules[i])
      BY <2>1, <3>1
    <3> HIDE DEF H
    <3> QED
      BY <3>1, <3>2 DEF CrossingPairs
  <2> HIDE DEF H, Key
  <2> QED
    BY <2>2, <2>3
<1>10. DOMAIN crossings = 1..n /\ crossings = [k \in 1..n |-> crossings[k]]
  BY <1>1, <1>2
<1> HIDE DEF H, Key
<1>11. Keyed(crossings)
  BY <1>2, <1>3, <1>4, <1>8, <1>10 DEF Keyed
<1>12. KeysOf(crossings) = {Key(hit) : hit \in H}
  BY <1>2, <1>3, <1>4, <1>10 DEF KeysOf
<1> QED
  BY <1>9, <1>11, <1>12

\* diff.go:14-31: what current has and the baseline has not, each as it was.
LEMMA DiffReports ==
    ASSUME NEW current, Keyed(current), NEW baseline
    PROVE  LET report == DiffNewlyCaught(current, baseline)
           IN  /\ Keyed(report)
               /\ KeysOf(report) = KeysOf(current) \ KeysOf(baseline)
               /\ \A k \in DOMAIN report : \E j \in DOMAIN current : report[k] = current[j]
<1> DEFINE report == DiffNewlyCaught(current, baseline)
           keep == {k \in DOMAIN current : \A i \in DOMAIN baseline :
                       CrossingKey(baseline[i]) # CrossingKey(current[k])}
           N == Cardinality(keep)
<1>1. PICK n \in Nat :
         /\ current = [k \in 1..n |-> current[k]]
         /\ \A j, k \in 1..n :
               CrossingKey(current[j]) = CrossingKey(current[k]) => j = k
  BY DEF Keyed
<1>2. DOMAIN current = 1..n
  BY <1>1
<1>3. /\ keep \in SUBSET (1..n)
      /\ \A k \in 1..n : k \in keep <=> CrossingKey(current[k]) \notin KeysOf(baseline)
  BY <1>2 DEF KeysOf
<1>4. report = Selected(current, keep)
  BY DEF DiffNewlyCaught
<1> HIDE DEF keep, report
<1>5. keep \in SUBSET Nat /\ IsFiniteSet(keep)
  <2>1. IsFiniteSet(1..n) /\ 1..n \subseteq Nat
    BY FS_Interval
  <2> QED
    BY <1>3, <2>1, FS_Subset
<1>6. N \in Nat
  BY <1>5, FS_CardinalityType
<1>7. PICK at :
         /\ at \in [1..N -> keep]
         /\ \A j, k \in 1..N : j < k => at[j] < at[k]
         /\ \A k \in keep : \E j \in 1..N : at[j] = k
         /\ Selected(current, keep) = [k \in 1..N |-> current[at[k]]]
  BY <1>5, SelectedInOrder DEF InOrder
<1> HIDE DEF N
<1>8. /\ \A k \in 1..N : at[k] \in keep /\ at[k] \in 1..n
      /\ \A j, k \in 1..N : at[j] = at[k] => j = k
  <2>1. \A k \in 1..N : at[k] \in keep /\ at[k] \in 1..n
    BY <1>3, <1>7
  <2>2. \A j, k \in 1..N : at[j] = at[k] => j = k
    BY <1>6, <1>7, <2>1
  <2> QED
    BY <2>1, <2>2
<1>9. report = [k \in 1..N |-> current[at[k]]] /\ DOMAIN report = 1..N
  BY <1>4, <1>7
<1>10. Keyed(report)
  <2>1. report = [k \in 1..N |-> report[k]]
    BY <1>9
  <2>2. \A j, k \in 1..N : CrossingKey(report[j]) = CrossingKey(report[k]) => j = k
    BY <1>1, <1>8, <1>9
  <2> QED
    BY <1>6, <2>1, <2>2 DEF Keyed
<1>11. KeysOf(report) = KeysOf(current) \ KeysOf(baseline)
  <2>1. KeysOf(report) = {CrossingKey(current[at[k]]) : k \in 1..N}
    BY <1>9 DEF KeysOf
  <2>2. KeysOf(current) = {CrossingKey(current[k]) : k \in 1..n}
    BY <1>2 DEF KeysOf
  <2>3. ASSUME NEW key \in KeysOf(current), key \notin KeysOf(baseline)
        PROVE  key \in KeysOf(report)
    <3>1. PICK k \in 1..n : key = CrossingKey(current[k])
      BY <2>2
    <3>2. PICK j \in 1..N : at[j] = k
      BY <1>3, <1>7, <2>3, <3>1
    <3> QED
      BY <2>1, <3>1, <3>2
  <2>4. ASSUME NEW key \in KeysOf(report)
        PROVE  key \in KeysOf(current) /\ key \notin KeysOf(baseline)
    <3>1. PICK j \in 1..N : key = CrossingKey(current[at[j]])
      BY <2>1
    <3> QED
      BY <1>3, <1>8, <2>2, <3>1
  <2> QED
    BY <2>3, <2>4
<1>12. \A k \in DOMAIN report : \E j \in DOMAIN current : report[k] = current[j]
  BY <1>2, <1>8, <1>9
<1> QED
  BY <1>10, <1>11, <1>12 DEF report
-----------------------------------------------------------------------------
(* What readers have, on either backend. *)

LEMMA ClockGoesOn ==
    ASSUME ImportInv, [Next]_vars
    PROVE  now \in Nat /\ now' \in Nat /\ now <= now'
<1>1. now \in Nat
  BY MaxNowAssumption DEF ImportInv, StoreTypeOK
<1>2. now' = now \/ now' = now + 1
  <2>1. CASE ImportNext
    BY <2>1 DEF ImportNext, ImportStep, ImportRejected, Build, OpenImport,
       OpenImportFails, Insert, InsertFails, ReadBack, ReadBackFails, CommitLate,
       KillImport, storeVars
  <2>2. CASE EvalNext \/ ServeNext
    BY <2>2, ReadersReadOnly DEF storeVars
  <2>3. CASE Tick \/ Migrate \/ UNCHANGED vars
    BY <2>3 DEF Tick, Migrate, vars, storeVars
  <2> QED
    BY <2>1, <2>2, <2>3 DEF Next
<1> QED
  BY <1>1, <1>2

\* No row is of a time to come.
LEMMA RowsArePast ==
    ASSUME ImportInv, NEW row \in rows
    PROVE  row \in ObservationType /\ row.ingestedAt \in Nat /\ row.ingestedAt <= now
<1> DEFINE obs == imports[row.id].obs
<1>1. row \in ObservationType /\ row.id \in Ids
  BY DEF ImportInv, StoreTypeOK, ObservationType
<1>2. obs # NoObs /\ row = Stored(obs)
  BY DEF ImportInv, RowsComeFromRuns
<1>3. obs \in ObservationType /\ obs.ingestedAt <= now
  BY <1>1, <1>2 DEF ImportInv, ImportTypeOK, BuiltObservations
<1>4. row.ingestedAt <= obs.ingestedAt
  BY <1>2, <1>3, StoredType
<1>5. row.ingestedAt \in Nat /\ obs.ingestedAt \in Nat /\ now \in Nat
  BY <1>1, <1>3, MaxNowAssumption DEF ObservationType, ImportInv, StoreTypeOK
<1> QED
  BY <1>1, <1>3, <1>4, <1>5

\* The page has every observation of the other one.
Includes(page, other) == \A k \in DOMAIN other : \E n \in DOMAIN page : page[n] = other[k]

\* What it has not of the other one it has no room for, being full of
\* observations of no lower rank.
Keeps(page, limit, other) ==
    \A k \in DOMAIN other :
        \/ \E n \in DOMAIN page : page[n] = other[k]
        \/ /\ Len(page) = limit
           /\ \A n \in DOMAIN page :
                 Rank(page[n].ingestedAt) >= Rank(other[k].ingestedAt)

LEMMA KeepsTaken ==
    ASSUME ImportInv, IsFiniteSet(rows), NEW limit \in Int, limit > 0,
           NEW page \in Pages(limit), NEW other, IsPage(other)
    PROVE  Keeps(page, limit, other)
<1>1. \A k \in DOMAIN other : other[k] \in rows
  BY DEF IsPage
<1> QED
  BY <1>1, PageInOrder, Zenon DEF Keeps

LEMMA IncludesTaken ==
    ASSUME ImportInv, IsFiniteSet(rows), NEW limit \in Int, limit > 0,
           NEW page \in Pages(limit), Len(page) # limit, NEW other, IsPage(other)
    PROVE  Includes(page, other)
  BY KeepsTaken DEF Keeps, Includes

-----------------------------------------------------------------------------
(* Evaluations. *)

\* A Fireline that LoadFirelineFile and NewEngine have accepted.
Loaded(f) == f \in Firelines /\ Compiles(f)

\* What a run that exits 0 reports: its crossings, less its baseline's.
Reported(r) ==
    \E crossings :
        /\ Computed(r.fireline, r.page, r.asOf, crossings)
        /\ IF r.against = NoFireline
           THEN r.report = crossings
           ELSE \E baseline : /\ Computed(r.against, r.page, r.asOf, baseline)
                              /\ r.report = DiffNewlyCaught(crossings, baseline)

RunRead(r) ==
    /\ r.pc \in {"compiled", "ok"} =>
          /\ Loaded(r.fireline) /\ r.asOf \in Nat
          /\ r.against = NoFireline \/ Loaded(r.against)
    /\ r.pc = "ok" => IsPage(r.page) /\ Reported(r)

RunSees(r, earlier) ==
    r.pc = "ok" /\ Len(r.page) # r.limit => Includes(r.page, earlier.page)

RunsRead ==
    \A e \in Evals :
        /\ RunRead(evals[e])
        /\ evals[e].finished \subseteq FinishedEvals
        /\ \A d \in evals[e].finished : RunSees(evals[e], evals[d])

EvalInv == ImportInv /\ IsFiniteSet(rows) /\ RunsOK /\ RunsRead

\* One List and then only computation: what is reported is of that page.
LEMMA ReportsRead ==
    ASSUME ImportInv, IsFiniteSet(rows), NEW r, RunOK(r), RunRead(r),
           NEW s, Reports(r, s)
    PROVE  /\ RunRead(s)
           /\ Len(s.page) # s.limit =>
                 \A other : IsPage(other) => Includes(s.page, other)
<1>1. /\ IsRun(r) /\ r.pc = "compiled" /\ r.limit \in Int /\ r.limit > 0
      /\ s.page \in Pages(r.limit) /\ SameTask(r, s)
      /\ rows \subseteq ObservationType
  BY LimitsAssumption DEF Reports, RunOK, ImportInv, StoreTypeOK
<1>2. IsPage(s.page)
  BY <1>1, PageTaken
<1>3. Len(s.page) # s.limit => \A other : IsPage(other) => Includes(s.page, other)
  BY <1>1, IncludesTaken DEF SameTask
<1>4. /\ Loaded(r.fireline) /\ r.asOf \in Nat
      /\ r.against = NoFireline \/ Loaded(r.against)
  BY <1>1 DEF RunRead
<1> DEFINE current == Evaluate(r.fireline, s.page, r.asOf)
           baseline == Evaluate(r.against, s.page, r.asOf)
<1>5. s.pc \in {"ok", "failed"}
  BY <1>1, ReportingFields, Zenon DEF Reports
<1>6. ASSUME s.pc = "ok"
      PROVE  /\ current.ok /\ (r.against # NoFireline => baseline.ok)
             /\ s.report = IF r.against # NoFireline
                           THEN DiffNewlyCaught(current.crossings, baseline.crossings)
                           ELSE current.crossings
  <2> DEFINE reported == Reporting(r, s.page, s.page)
  <2>1. s.pc = reported.pc /\ s.report = reported.report
    BY Zenon DEF Reports
  <2> HIDE DEF reported, current, baseline
  <2>2. /\ reported.pc = (IF current.ok /\ (r.against # NoFireline => baseline.ok)
                          THEN "ok" ELSE "failed")
        /\ current.ok /\ (r.against # NoFireline => baseline.ok) =>
              reported.report = IF r.against # NoFireline
                         THEN DiffNewlyCaught(current.crossings, baseline.crossings)
                         ELSE current.crossings
    BY <1>1, ReportingFields, Zenon DEF reported, current, baseline
  <2>3. "ok" # "failed"
    OBVIOUS
  <2> QED
    BY <1>6, <2>1, <2>2, <2>3
<1>7. ASSUME NEW f, Loaded(f), Evaluate(f, s.page, r.asOf).ok
      PROVE  Computed(f, s.page, r.asOf, Evaluate(f, s.page, r.asOf).crossings)
  BY <1>1, <1>2, <1>7, EvaluationComputes DEF Loaded, Compiles
<1>8. ASSUME s.pc = "ok" PROVE Reported(s)
  <2>1. Computed(r.fireline, s.page, r.asOf, current.crossings)
    BY <1>4, <1>6, <1>7, <1>8
  <2>2. r.against # NoFireline =>
           Computed(r.against, s.page, r.asOf, baseline.crossings)
    BY <1>4, <1>6, <1>7, <1>8
  <2>3. s.fireline = r.fireline /\ s.against = r.against /\ s.asOf = r.asOf
    BY <1>1 DEF SameTask
  <2> HIDE DEF current, baseline
  <2> QED
    BY <1>6, <1>8, <2>1, <2>2, <2>3 DEF Reported
<1>9. RunRead(s)
  BY <1>1, <1>2, <1>4, <1>8 DEF RunRead, SameTask
<1> QED
  BY <1>3, <1>9

LEMMA EvalInvInit == Init => EvalInv
<1> SUFFICES ASSUME Init PROVE EvalInv
  OBVIOUS
<1>1. \A e \in Evals : evals[e].pc = "start" /\ evals[e].finished = {}
  BY DEF Init, EvalInit
<1>2. RunsRead
  BY <1>1 DEF RunsRead, RunRead
<1> QED
  BY <1>2, LogInvInit DEF EvalInv, LogInv

LEMMA EvalInvNext == EvalInv /\ [Next]_vars => EvalInv'
<1> SUFFICES ASSUME EvalInv, [Next]_vars PROVE EvalInv'
  OBVIOUS
<1>1. ImportInv' /\ IsFiniteSet(rows)' /\ RunsOK'
  BY ImportInvNext, FiniteNext, RunsOKNext DEF EvalInv
<1>2. \A e \in Evals : RunMove(evals[e], evals'[e])
  BY RunMoves DEF EvalInv
<1>3. \A e \in FinishedEvals : evals'[e] = evals[e] /\ e \in FinishedEvals'
  <2> SUFFICES ASSUME NEW e \in Evals, evals[e].pc = "ok"
               PROVE  evals'[e] = evals[e]
    BY DEF FinishedEvals
  <2> QED
    BY <1>2 DEF RunMove, Fails, Starts, Reports
<1>4. ASSUME NEW e \in Evals, NEW s, s = evals'[e], RunRead(s)
      PROVE  RunRead(evals[e])'
  <2>1. IsPage(s.page) => IsPage(s.page)'
    BY PageStays
  <2>2. IsPage(s.page)' => IsPage(evals[e].page)'
    BY <1>4 DEF IsPage
  <2>3. Reported(s) => Reported(evals[e])'
    BY <1>4 DEF Reported
  <2> QED
    BY <1>4, <2>1, <2>2, <2>3 DEF RunRead
<1>5. ASSUME NEW e \in Evals
      PROVE  /\ RunRead(evals[e])'
             /\ evals'[e].finished \subseteq FinishedEvals'
             /\ \A d \in evals'[e].finished : RunSees(evals'[e], evals'[d])
  <2> DEFINE r == evals[e]
  <2>1. /\ RunOK(r) /\ RunRead(r) /\ r.finished \subseteq FinishedEvals
        /\ \A d \in r.finished : RunSees(r, evals[d])
        /\ ImportInv /\ IsFiniteSet(rows)
    BY DEF EvalInv, RunsOK, RunsRead
  <2>2. PICK s : s = evals'[e] /\ RunMove(r, s)
    BY <1>2
  <2>3. RunRead(s)
    <3>1. CASE Fails(r, s)
      BY <3>1 DEF Fails, RunRead
    <3>2. CASE Starts(r, s)
      <4>1. s.asOf \in Nat
        BY <2>1, <3>2, ClockGoesOn, AsOfAssumption DEF Starts
      <4> QED
        BY <3>2, <4>1 DEF Starts, RunRead, Loaded
    <3>3. CASE Reports(r, s)
      BY <2>1, <3>3, ReportsRead
    <3> QED
      BY <2>1, <2>2, <3>1, <3>2, <3>3 DEF RunMove
  <2>4. s.finished \subseteq FinishedEvals
    BY <2>1, <2>2 DEF RunMove, Fails, Starts, Reports, SameTask
  <2>5. ASSUME NEW d \in s.finished PROVE RunSees(s, evals[d])
    <3>1. CASE s = r
      BY <2>1, <2>5, <3>1
    <3>2. CASE Fails(r, s) \/ Starts(r, s)
      BY <3>2 DEF Fails, Starts, RunSees
    <3>3. CASE Reports(r, s)
      <4>1. d \in Evals /\ evals[d].pc = "ok"
        BY <2>4, <2>5 DEF FinishedEvals
      <4>2. IsPage(evals[d].page)
        BY <4>1 DEF EvalInv, RunsRead, RunRead
      <4> QED
        BY <2>1, <3>3, <4>2, ReportsRead DEF RunSees
    <3> QED
      BY <2>2, <3>1, <3>2, <3>3 DEF RunMove
  <2> QED
    BY <1>3, <1>4, <2>2, <2>3, <2>4, <2>5
<1>6. RunsRead'
  BY <1>5 DEF RunsRead, RunSees, Includes
<1> QED
  BY <1>1, <1>6 DEF EvalInv

LEMMA EvalInvAlways == Spec => []EvalInv
  BY EvalInvInit, EvalInvNext, PTL DEF Spec

LEMMA FinishedRun ==
    ASSUME EvalInv, NEW e \in FinishedEvals
    PROVE  /\ e \in Evals /\ rows \subseteq ObservationType
           /\ Loaded(evals[e].fireline) /\ evals[e].asOf \in Nat
           /\ evals[e].against = NoFireline \/ Loaded(evals[e].against)
           /\ IsPage(evals[e].page) /\ Reported(evals[e])
  BY DEF FinishedEvals, EvalInv, RunsRead, RunRead, ImportInv, StoreTypeOK

\* On either backend and for every Fireline, an evaluation that exits 0 met no
\* rule of its Fireline or of its baseline that fails on a row of its page
\* (engine.go:83-90, evaluate.go:78-94).
THEOREM NoErrorIsSilent == Spec => []NoSilentRuleError
<1>1. EvalInv => NoSilentRuleError
  <2> SUFFICES ASSUME EvalInv, NEW e \in FinishedEvals,
                      NEW f \in {evals[e].fireline, evals[e].against} \ {NoFireline},
                      NEW i \in DOMAIN f.rules, NEW j \in DOMAIN evals[e].page
               PROVE  Cel(f.rules[i].when, Activation(evals[e].page[j])) # "error"
    BY DEF NoSilentRuleError
  <2>1. PICK crossings : Computed(f, evals[e].page, evals[e].asOf, crossings)
    BY FinishedRun DEF Reported
  <2> QED
    BY <2>1 DEF Computed
<1> QED
  BY <1>1, EvalInvAlways, PTL

\* On either backend, for every Fireline, page, as-of time and whatever the CEL
\* rules say: an evaluation that exits 0 reports exactly the crossings of its page
\* in exact arithmetic, less those of its baseline, each once
\* (evaluate.go:78-94, engine.go:61-111, diff.go:14-31).
THEOREM ReportsAreExact == Spec => []ReportExact
<1>1. EvalInv => ReportExact
  <2> SUFFICES ASSUME EvalInv, NEW e \in FinishedEvals
               PROVE  LET run == evals[e]
                          caught == IF run.against = NoFireline THEN {}
                                    ELSE CrossingPairs(run.against, run.page, run.asOf)
                      IN  /\ KeysOf(run.report)
                               = CrossingPairs(run.fireline, run.page, run.asOf) \ caught
                          /\ EachOnce(run.report)
    BY DEF ReportExact
  <2> DEFINE run == evals[e]
  <2>1. /\ rows \subseteq ObservationType
        /\ Loaded(run.fireline) /\ run.asOf \in Nat
        /\ run.against = NoFireline \/ Loaded(run.against)
        /\ IsPage(run.page) /\ Reported(run)
    BY FinishedRun
  <2> HIDE DEF run
  <2>2. ASSUME NEW f, Loaded(f), NEW crossings,
               Computed(f, run.page, run.asOf, crossings)
        PROVE  /\ Keyed(crossings)
               /\ KeysOf(crossings) = CrossingPairs(f, run.page, run.asOf)
    BY <2>1, <2>2, ComputedKeys DEF Loaded, Compiles
  <2>3. PICK crossings :
           /\ Computed(run.fireline, run.page, run.asOf, crossings)
           /\ IF run.against = NoFireline
              THEN run.report = crossings
              ELSE \E baseline : /\ Computed(run.against, run.page, run.asOf, baseline)
                                 /\ run.report = DiffNewlyCaught(crossings, baseline)
    BY <2>1 DEF Reported
  <2>4. /\ Keyed(crossings)
        /\ KeysOf(crossings) = CrossingPairs(run.fireline, run.page, run.asOf)
    BY <2>1, <2>2, <2>3
  <2>5. CASE run.against = NoFireline
    BY <2>3, <2>4, <2>5, KeyedIsOnce DEF run
  <2>6. CASE run.against # NoFireline
    <3>1. PICK baseline : /\ Computed(run.against, run.page, run.asOf, baseline)
                          /\ run.report = DiffNewlyCaught(crossings, baseline)
      BY <2>3, <2>6
    <3>2. KeysOf(baseline) = CrossingPairs(run.against, run.page, run.asOf)
      BY <2>1, <2>2, <2>6, <3>1
    <3>3. /\ Keyed(run.report)
          /\ KeysOf(run.report) = KeysOf(crossings) \ KeysOf(baseline)
      BY <2>4, <3>1, DiffReports
    <3> QED
      BY <2>4, <2>6, <3>2, <3>3, KeyedIsOnce DEF run
  <2> QED
    BY <2>5, <2>6
<1> QED
  BY <1>1, EvalInvAlways, PTL

\* Each crossing computed is that of a rule and an observation that cross, and
\* each two that cross have theirs.
LEMMA ComputedAre ==
    ASSUME NEW f, NEW page, NEW asOf, NEW crossings, Computed(f, page, asOf, crossings)
    PROVE  /\ \A k \in DOMAIN crossings : \E i \in DOMAIN f.rules, j \in DOMAIN page :
                 /\ Crosses(f.rules[i], page[j], asOf)
                 /\ crossings[k] = Crossing(f.rules[i], page[j], asOf)
           /\ \A i \in DOMAIN f.rules, j \in DOMAIN page :
                 Crosses(f.rules[i], page[j], asOf) =>
                    \E k \in DOMAIN crossings :
                       crossings[k] = Crossing(f.rules[i], page[j], asOf)
<1> DEFINE H == Hits(f, page, asOf)
<1>1. PICK hits : /\ ListsOnce(hits, H)
                  /\ crossings = [k \in DOMAIN hits |-> CrossingAt(f, page, asOf, hits[k])]
  BY DEF Computed
<1>2. PICK n \in Nat : hits \in [1..n -> H]
  BY <1>1 DEF ListsOnce
<1>3. DOMAIN crossings = 1..n /\ DOMAIN hits = 1..n
  BY <1>1, <1>2
<1>4. \A k \in 1..n : crossings[k] = CrossingAt(f, page, asOf, hits[k])
  BY <1>1, <1>3
<1>5. ASSUME NEW k \in 1..n
      PROVE  \E i \in DOMAIN f.rules, j \in DOMAIN page :
                /\ Crosses(f.rules[i], page[j], asOf)
                /\ crossings[k] = Crossing(f.rules[i], page[j], asOf)
  <2>1. hits[k] \in H
    BY <1>2
  <2>2. PICK i \in DOMAIN f.rules, j \in DOMAIN page :
           hits[k] = <<i, j>> /\ Crosses(f.rules[i], page[j], asOf)
    BY <2>1 DEF Hits
  <2> QED
    BY <1>4, <2>2 DEF CrossingAt
<1>6. ASSUME NEW i \in DOMAIN f.rules, NEW j \in DOMAIN page,
             Crosses(f.rules[i], page[j], asOf)
      PROVE  \E k \in 1..n : crossings[k] = Crossing(f.rules[i], page[j], asOf)
  <2>1. <<i, j>> \in H
    BY <1>6 DEF Hits
  <2>2. PICK k \in 1..n : hits[k] = <<i, j>>
    BY <1>1, <1>3, <2>1 DEF ListsOnce
  <2> QED
    BY <1>4, <2>2 DEF CrossingAt
<1> QED
  BY <1>3, <1>5, <1>6

\* On either backend: a later evaluation with the same Fireline as of the same
\* time, whose page has room, reports every crossing record of an earlier one
\* unchanged, whatever was imported in between (engine.go:62-66).
THEOREM ReplayIsStable == Spec => []ReplayStable
<1>1. EvalInv => ReplayStable
  <2> SUFFICES ASSUME EvalInv, NEW e \in FinishedEvals, NEW d \in evals[e].finished,
                      evals[e].fireline = evals[d].fireline,
                      evals[e].asOf = evals[d].asOf,
                      evals[e].against = NoFireline, ~PageFull(evals[e]),
                      NEW k \in DOMAIN evals[d].report
               PROVE  \E n \in DOMAIN evals[e].report :
                         evals[e].report[n] = evals[d].report[k]
    BY DEF ReplayStable
  <2> DEFINE run == evals[e]
             earlier == evals[d]
             f == run.fireline
             asOf == run.asOf
  <2>1. d \in FinishedEvals /\ Includes(run.page, earlier.page)
    BY DEF FinishedEvals, EvalInv, RunsRead, RunSees, PageFull
  <2>2. Computed(f, run.page, asOf, run.report)
    BY FinishedRun DEF Reported
  <2>3. PICK crossings :
           /\ Computed(f, earlier.page, asOf, crossings)
           /\ \/ earlier.report = crossings
              \/ \E baseline : earlier.report = DiffNewlyCaught(crossings, baseline)
    BY <2>1, FinishedRun DEF Reported
  <2>4. Keyed(crossings)
    BY <2>1, <2>3, FinishedRun, ComputedKeys DEF Loaded, Compiles
  <2>5. PICK j \in DOMAIN crossings : earlier.report[k] = crossings[j]
    BY <2>3, <2>4, DiffReports
  <2>6. PICK i \in DOMAIN f.rules, l \in DOMAIN earlier.page :
           /\ Crosses(f.rules[i], earlier.page[l], asOf)
           /\ crossings[j] = Crossing(f.rules[i], earlier.page[l], asOf)
    BY <2>3, ComputedAre
  <2>7. PICK n \in DOMAIN run.page : run.page[n] = earlier.page[l]
    BY <2>1 DEF Includes
  <2> QED
    BY <2>2, <2>5, <2>6, <2>7, ComputedAre
<1> QED
  BY <1>1, EvalInvAlways, PTL

-----------------------------------------------------------------------------
(* Requests, of which a later one sees what an earlier one was shown. *)

\* The request was answered with observations, one or a page of them, or with the
\* crossings of a page.
IsShown(r) == r.pc = "done" /\ r.status = 200

HasCrossings(r) == r.pc = "done" /\ r.kind = "crossings" /\ r.status = 200

\* A request has an engine from when it came, and was evaluated after its page
\* was taken.
RequestRead(r) ==
    /\ r.pc \in {"received", "listed", "done"} =>
          r.engine \in ServedFirelines /\ Compiles(r.engine)
    /\ HasPage(r) \/ IsShown(r) => IsPage(r.page)
    /\ HasCrossings(r) =>
          /\ r.asOf \in Nat /\ r.asOf <= now
          /\ \A k \in DOMAIN r.page : r.page[k].ingestedAt <= r.asOf
          /\ Computed(r.engine, r.page, r.asOf, r.crossings)

RequestSees(r, earlier) ==
    /\ HasPage(r) /\ IsShown(earlier) => Keeps(r.page, r.limit, earlier.page)
    /\ HasCrossings(r) /\ HasCrossings(earlier) => earlier.asOf <= r.asOf

RequestsRead ==
    \A q \in Requests :
        /\ RequestRead(requests[q])
        /\ requests[q].answered \subseteq Answered
        /\ \A p \in requests[q].answered : RequestSees(requests[q], requests[p])

ReadInv ==
    /\ ImportInv /\ IsFiniteSet(rows) /\ GetInv /\ HandleInv
    /\ RequestsOK /\ RequestsRead

LEMMA ReadInvInit == Init => ReadInv
<1> SUFFICES ASSUME Init PROVE ReadInv
  OBVIOUS
<1>1. \A q \in Requests : requests[q].pc = "idle" /\ requests[q].answered = {}
  BY DEF Init, ApiInit, IdleRequest
<1>2. RequestsRead
  BY <1>1 DEF RequestsRead, RequestRead, HasPage, IsShown, HasCrossings
<1> QED
  BY <1>2, LogInvInit, GetInvInit, HandleInvInit DEF ReadInv, LogInv

LEMMA OneRowIsPage ==
    ASSUME NEW row \in rows
    PROVE  IsPage(<<row>>)
<1>1. <<row>> \in [1..1 -> rows] /\ \A j, k \in 1..1 : j = k
  OBVIOUS
<1> QED
  BY <1>1 DEF IsPage

LEMMA MoveRead ==
    ASSUME ReadInv, NEW q \in Requests, NEW s, RequestMove(requests[q], s)
    PROVE  RequestRead(s)
<1> DEFINE r == requests[q]
<1>1. /\ RequestRead(r) /\ RequestOK(r) /\ ImportInv /\ IsFiniteSet(rows)
      /\ rows \subseteq ObservationType /\ now \in Nat
  BY MaxNowAssumption DEF ReadInv, RequestsRead, RequestsOK, ImportInv, StoreTypeOK
<1>2. CASE Arrives(r, s)
  <2>1. engine \in ServedFirelines /\ Compiles(engine)
    BY <1>2 DEF Arrives, ReadInv, HandleInv, Running
  <2> QED
    BY <1>1, <1>2, <2>1 DEF Arrives, RequestRead, HasPage, IsShown, HasCrossings
<1>3. CASE EndsEmpty(r, s)
  BY <1>1, <1>3 DEF EndsEmpty, SameAsk, RequestRead, HasPage, IsShown, HasCrossings
<1>4. CASE IsFound(r, s)
  <2>1. ASSUME HasRow(r.id), s.page = <<RowOf(r.id)>> PROVE IsPage(s.page)
    <3>1. RowOf(r.id) \in rows
      BY <1>1, <2>1, RowOfRun
    <3> QED
      BY <2>1, <3>1, OneRowIsPage
  <2> QED
    BY <1>1, <1>4, <2>1 DEF IsFound, SameAsk, RequestRead, HasPage, IsShown, HasCrossings
<1>5. CASE IsListed(r, s)
  <2>1. r.limit \in Int /\ r.limit > 0 /\ s.page \in Pages(r.limit)
    BY <1>1, <1>5, LimitsAssumption DEF IsListed, RequestOK
  <2>2. IsPage(s.page)
    BY <1>1, <2>1, PageTaken
  <2> QED
    BY <1>1, <1>5, <2>2 DEF IsListed, SameAsk, RequestRead, IsShown, HasCrossings
<1>6. CASE IsEvaluated(r, s)
  <2>1. IsPage(s.page) /\ s.page = r.page /\ s.engine = r.engine /\ s.asOf = now
    BY <1>1, <1>6 DEF IsEvaluated, SameAsk, RequestRead, HasPage
  <2>2. r.engine \in ServedFirelines /\ Compiles(r.engine)
    BY <1>1, <1>6 DEF IsEvaluated, RequestRead
  <2>3. \A k \in DOMAIN s.page : s.page[k].ingestedAt <= now
    BY <1>1, <2>1, PageForm, RowsArePast
  <2>4. ASSUME s.status = 200
        PROVE  Computed(s.engine, s.page, s.asOf, s.crossings)
    <3> DEFINE result == Evaluate(r.engine, r.page, now)
    <3>1. s.status = (IF result.ok THEN 200 ELSE 500) /\ s.crossings = result.crossings
      BY <1>6, Zenon DEF IsEvaluated
    <3> HIDE DEF result
    <3>2. result.ok
      BY <2>4, <3>1
    <3>3. Computed(r.engine, r.page, now, result.crossings)
      BY <1>1, <2>1, <2>2, <3>2, EvaluationComputes, ServedAssumption
         DEF Compiles, result
    <3> QED
      BY <2>1, <3>1, <3>3
  <2> QED
    BY <1>1, <1>6, <2>1, <2>2, <2>3, <2>4
       DEF IsEvaluated, RequestRead, IsShown, HasCrossings
<1> QED
  BY <1>1, <1>2, <1>3, <1>4, <1>5, <1>6 DEF RequestMove

LEMMA MoveSees ==
    ASSUME ReadInv, NEW q \in Requests, NEW s, RequestMove(requests[q], s),
           NEW p \in s.answered
    PROVE  RequestSees(s, requests[p])
<1> DEFINE r == requests[q]
           earlier == requests[p]
<1>1. /\ RequestRead(r) /\ RequestOK(r) /\ ImportInv /\ IsFiniteSet(rows)
      /\ r.answered \subseteq Answered
      /\ \A o \in r.answered : RequestSees(r, requests[o])
  BY DEF ReadInv, RequestsRead, RequestsOK
<1>2. CASE s = r
  BY <1>1, <1>2
<1>3. CASE Arrives(r, s) \/ EndsEmpty(r, s) \/ IsFound(r, s)
  BY <1>3 DEF Arrives, EndsEmpty, IsFound, SameAsk, RequestSees, HasPage, HasCrossings
<1>4. ASSUME IsListed(r, s) \/ IsEvaluated(r, s)
      PROVE  RequestRead(earlier) /\ RequestSees(r, earlier)
  <2>1. p \in r.answered /\ p \in Requests
    BY <1>1, <1>4 DEF IsListed, IsEvaluated, SameAsk, Answered
  <2> QED
    BY <1>1, <2>1 DEF ReadInv, RequestsRead
<1>5. CASE IsListed(r, s)
  <2>1. /\ r.limit \in Int /\ r.limit > 0 /\ s.page \in Pages(r.limit)
        /\ s.limit = r.limit /\ ~HasCrossings(s)
    BY <1>1, <1>5, LimitsAssumption DEF IsListed, SameAsk, RequestOK, HasCrossings
  <2>2. IsShown(earlier) => IsPage(earlier.page)
    BY <1>4, <1>5 DEF RequestRead
  <2> QED
    BY <1>1, <2>1, <2>2, KeepsTaken DEF RequestSees
<1>6. CASE IsEvaluated(r, s)
  <2>1. /\ HasPage(r) /\ s.page = r.page /\ s.limit = r.limit /\ s.asOf = now
    BY <1>6 DEF IsEvaluated, SameAsk, HasPage
  <2> QED
    BY <1>4, <1>6, <2>1 DEF RequestSees, RequestRead
<1> QED
  BY <1>2, <1>3, <1>5, <1>6 DEF RequestMove

LEMMA ReadInvNext == ReadInv /\ [Next]_vars => ReadInv'
<1> SUFFICES ASSUME ReadInv, [Next]_vars PROVE ReadInv'
  OBVIOUS
<1>1. ImportInv' /\ IsFiniteSet(rows)' /\ GetInv' /\ HandleInv' /\ RequestsOK'
  BY ImportInvNext, FiniteNext, GetInvNext, HandleInvNext, RequestsOKNext DEF ReadInv
<1>2. \A q \in Requests : RequestMove(requests[q], requests'[q])
  BY RequestMoves DEF ReadInv
<1>3. \A p \in Answered : requests'[p] = requests[p] /\ p \in Answered'
  <2> SUFFICES ASSUME NEW p \in Requests, requests[p].pc = "done"
               PROVE  requests'[p] = requests[p]
    BY DEF Answered
  <2> QED
    BY <1>2 DEF RequestMove, Arrives, EndsEmpty, IsListed, IsEvaluated, IsFound
<1>4. ASSUME NEW q \in Requests, NEW s, s = requests'[q], RequestRead(s)
      PROVE  RequestRead(requests[q])'
  <2>1. HasPage(s) \/ IsShown(s) => IsPage(requests[q].page)'
    <3>1. IsPage(s.page) => IsPage(s.page)'
      BY PageStays
    <3> QED
      BY <1>4, <3>1 DEF RequestRead, IsPage
  <2>2. HasCrossings(s) => s.asOf \in Nat /\ s.asOf <= now'
    BY <1>4, ClockGoesOn DEF RequestRead, ReadInv
  <2> QED
    BY <1>4, <2>1, <2>2 DEF RequestRead, HasPage, IsShown, HasCrossings
<1>5. ASSUME NEW q \in Requests
      PROVE  /\ RequestRead(requests[q])'
             /\ requests'[q].answered \subseteq Answered'
             /\ \A p \in requests'[q].answered : RequestSees(requests'[q], requests'[p])
  <2> DEFINE r == requests[q]
  <2>1. PICK s : s = requests'[q] /\ RequestMove(r, s)
    BY <1>2
  <2>2. RequestRead(s) /\ \A p \in s.answered : RequestSees(s, requests[p])
    BY <2>1, MoveRead, MoveSees
  <2>3. r.answered \subseteq Answered
    BY DEF ReadInv, RequestsRead
  <2>4. s.answered \subseteq Answered
    BY <2>1, <2>3 DEF RequestMove, Arrives, EndsEmpty, IsListed, IsEvaluated, IsFound,
       SameAsk
  <2> QED
    BY <1>3, <1>4, <2>1, <2>2, <2>4
<1>6. RequestsRead'
  BY <1>5 DEF RequestsRead, RequestSees, Keeps, Rank, HasPage, IsShown, HasCrossings
<1> QED
  BY <1>1, <1>6 DEF ReadInv

LEMMA ReadInvAlways == Spec => []ReadInv
  BY ReadInvInit, ReadInvNext, PTL DEF Spec

LEMMA AnsweredCrossings ==
    ASSUME ReadInv, NEW q \in Successful("crossings")
    PROVE  LET r == requests[q]
           IN  /\ q \in Requests /\ HasCrossings(r) /\ HasPage(r) /\ RequestRead(r)
               /\ r.engine \in Firelines /\ FirelineValid(r.engine)
               /\ IsPage(r.page) /\ rows \subseteq ObservationType
<1>1. q \in Requests /\ HasCrossings(requests[q]) /\ HasPage(requests[q])
  BY DEF Successful, Answered, HasCrossings, HasPage
<1>2. RequestRead(requests[q]) /\ rows \subseteq ObservationType
  BY <1>1 DEF ReadInv, RequestsRead, ImportInv, StoreTypeOK
<1> QED
  BY <1>1, <1>2, ServedAssumption DEF RequestRead, HasCrossings, Compiles

\* On either backend: a fresh observation of the page without a time of its own
\* crosses at once every rule it matches with a tolerance of zero, because the
\* as-of time is read after the page (api.go:72-100, api_test.go:69).
THEOREM FreshAlwaysCross == Spec => []FreshRowsCross
<1>1. ReadInv => FreshRowsCross
  <2> SUFFICES ASSUME ReadInv, NEW q \in Successful("crossings"),
                      NEW i \in DOMAIN requests[q].engine.rules,
                      NEW k \in DOMAIN requests[q].page,
                      ToleranceDuration(requests[q].engine.rules[i]) = 0,
                      requests[q].page[k].claim.observedAt = None,
                      Cel(requests[q].engine.rules[i].when,
                          Activation(requests[q].page[k])) = "true"
               PROVE  \E n \in DOMAIN requests[q].crossings :
                         CrossingKey(requests[q].crossings[n])
                           = <<requests[q].engine.rules[i].id, requests[q].page[k].id>>
    BY DEF FreshRowsCross
  <2> DEFINE r == requests[q]
             rule == r.engine.rules[i]
             obs == r.page[k]
  <2>1. /\ r.engine \in Firelines /\ FirelineValid(r.engine) /\ IsPage(r.page)
        /\ rows \subseteq ObservationType /\ RequestRead(r) /\ HasCrossings(r)
    BY AnsweredCrossings
  <2>2. /\ r.asOf \in Nat /\ obs.ingestedAt <= r.asOf
        /\ Computed(r.engine, r.page, r.asOf, r.crossings)
    BY <2>1 DEF RequestRead
  <2>3. obs \in ObservationType /\ obs.ingestedAt \in Nat
    BY <2>1, PageForm DEF ObservationType
  <2>4. EffectiveObservedAt(obs) = obs.ingestedAt
    BY DEF EffectiveObservedAt
  <2>5. Crosses(rule, obs, r.asOf)
    BY <2>1, <2>2, <2>3, <2>4, CrossesWhen
  <2>6. PICK n \in DOMAIN r.crossings : r.crossings[n] = Crossing(rule, obs, r.asOf)
    BY <2>2, <2>5, ComputedAre
  <2> QED
    BY <2>6 DEF CrossingKey, Crossing
<1> QED
  BY <1>1, ReadInvAlways, PTL

\* On either backend: a crossing that GET /crossings reported, every later one
\* with the same Fireline reports while its page has room, through any number of
\* imports, restarts and concurrent requests: ages only grow and rows never
\* change (api.go:72-100, engine.go:61-65).
THEOREM CrossingsStay == Spec => []CrossingsPersist
<1>1. ReadInv => CrossingsPersist
  <2> SUFFICES ASSUME ReadInv, NEW q \in Successful("crossings"),
                      NEW p \in requests[q].answered \cap Successful("crossings"),
                      requests[q].engine = requests[p].engine,
                      Len(requests[q].page) < requests[q].limit,
                      NEW k \in DOMAIN requests[p].crossings
               PROVE  \E n \in DOMAIN requests[q].crossings :
                         CrossingKey(requests[q].crossings[n])
                           = CrossingKey(requests[p].crossings[k])
    BY DEF CrossingsPersist
  <2> DEFINE r == requests[q]
             earlier == requests[p]
             f == r.engine
  <2>1. /\ f \in Firelines /\ FirelineValid(f) /\ IsPage(r.page) /\ IsPage(earlier.page)
        /\ rows \subseteq ObservationType /\ RequestRead(r) /\ RequestRead(earlier)
        /\ HasCrossings(r) /\ HasCrossings(earlier) /\ HasPage(r) /\ HasPage(earlier)
    BY AnsweredCrossings
  <2>2. /\ r.asOf \in Nat /\ Computed(f, r.page, r.asOf, r.crossings)
        /\ earlier.asOf \in Nat
        /\ Computed(f, earlier.page, earlier.asOf, earlier.crossings)
    BY <2>1 DEF RequestRead
  <2>3. Len(r.page) # r.limit
    <3>1. Len(r.page) \in Nat
      BY <2>1, PageForm
    <3> QED
      BY <3>1
  <2>4. RequestSees(r, earlier)
    BY DEF ReadInv, RequestsRead, Successful, Answered
  <2>5. Includes(r.page, earlier.page) /\ earlier.asOf <= r.asOf
    BY <2>1, <2>3, <2>4 DEF RequestSees, HasPage, IsShown, HasCrossings, Keeps, Includes
  <2>6. PICK i \in DOMAIN f.rules, l \in DOMAIN earlier.page :
           /\ Crosses(f.rules[i], earlier.page[l], earlier.asOf)
           /\ earlier.crossings[k] = Crossing(f.rules[i], earlier.page[l], earlier.asOf)
    BY <2>2, ComputedAre
  <2>7. PICK n \in DOMAIN r.page : r.page[n] = earlier.page[l]
    BY <2>5 DEF Includes
  <2> DEFINE obs == r.page[n]
             rule == f.rules[i]
  <2>8. Crosses(rule, obs, r.asOf)
    <3>1. /\ obs \in ObservationType
          /\ EffectiveObservedAt(obs) \in Nat
          /\ ToleranceDuration(rule) \in 0..MaxDuration
      BY <2>1, PageForm, TimesAreNat, RulesOf
    <3>2. Crosses(rule, obs, earlier.asOf)
      BY <2>6, <2>7
    <3>3. /\ Cel(rule.when, Activation(obs)) = "true"
          /\ earlier.asOf >= EffectiveObservedAt(obs) + ToleranceDuration(rule)
      BY <2>1, <2>2, <3>1, <3>2, CrossesWhen
    <3>4. r.asOf >= EffectiveObservedAt(obs) + ToleranceDuration(rule)
      BY <2>2, <2>5, <3>1, <3>3
    <3> QED
      BY <2>1, <2>2, <3>1, <3>3, <3>4, CrossesWhen
  <2>9. PICK m \in DOMAIN r.crossings : r.crossings[m] = Crossing(rule, obs, r.asOf)
    BY <2>2, <2>8, ComputedAre
  <2> QED
    BY <2>6, <2>7, <2>9 DEF CrossingKey, Crossing
<1> QED
  BY <1>1, ReadInvAlways, PTL

\* On Postgres every page is newest first, and a page leaves out what an earlier
\* answer showed only for being full of observations at least as new: between two
\* answers of any routes nothing a client knows of is lost or replaced by
\* something older, whether its import exited 0, failed or was killed, through
\* any imports, restarts and concurrent requests (repository.go:31-33).
THEOREM PagesNewestFirst ==
    ASSUME Backend = "postgres"
    PROVE  Spec => []NewestFirst
<1>1. ReadInv /\ PagesDescend => NewestFirst
  <2> SUFFICES ASSUME ReadInv,
                      NEW q \in Successful("list") \cup Successful("crossings"),
                      NEW p \in requests[q].answered, requests[p].status = 200
               PROVE  KeepsShown(q, p)
    BY DEF NewestFirst, PagesDescend, Descending
  <2>1. /\ q \in Requests /\ HasPage(requests[q])
        /\ requests[q].answered \subseteq Answered
        /\ RequestRead(requests[q]) /\ RequestSees(requests[q], requests[p])
    BY DEF Successful, Answered, HasPage, ReadInv, RequestsRead
  <2>2. p \in Requests /\ IsShown(requests[p]) /\ RequestRead(requests[p])
    BY <2>1 DEF Answered, IsShown, ReadInv, RequestsRead
  <2>3. /\ IsPage(requests[q].page) /\ IsPage(requests[p].page)
        /\ rows \subseteq ObservationType
    BY <2>1, <2>2 DEF RequestRead, ReadInv, ImportInv, StoreTypeOK
  <2>4. Keeps(requests[q].page, requests[q].limit, requests[p].page)
    BY <2>1, <2>2 DEF RequestSees
  <2>5. \A t : Rank(t) = t
    BY DEF Rank
  <2> QED
    BY <2>4, <2>5 DEF KeepsShown, Keeps
<1>2. Spec => []PagesDescend
  BY PagesInOrder
<1> QED
  BY <1>1, <1>2, ReadInvAlways, PTL
=============================================================================
