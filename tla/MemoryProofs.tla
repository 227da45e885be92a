---------------------------- MODULE MemoryProofs ----------------------------
(***************************************************************************)
(* The in-memory store is a repository of values: what its clients hold    *)
(* and write to shares no cell with what it holds, for any number of       *)
(* clients, observations, calls and writes.                                *)
(***************************************************************************)
EXTENDS Memory, SelectionProofs, SequenceTheorems

\* An Observation struct: three of its fields are references.
Struct ==
    [id : Ids, fingerprint : Fingerprints, ingestedAt : Instants,
     components : Cell, payload : Cell, observedAt : Cell \cup {Nil}]

\* The references of obs were made for this holder, each for its field.
Owns(holder, obs) ==
    \A field \in References :
        obs[field] # Nil => obs[field][1] = holder /\ obs[field][2] = field

HeldInv ==
    /\ DOMAIN byID \subseteq Ids /\ IsFiniteSet(DOMAIN byID)
    /\ byID \in [DOMAIN byID -> Struct]
    /\ \A id \in DOMAIN byID : byID[id].id = id /\ Owns(<<"store", id, 1>>, byID[id])
    /\ built \in [Clients -> Seq(Struct)] /\ got \in [Clients -> Seq(Struct)]
    /\ \A c \in Clients :
          /\ \A k \in DOMAIN built[c] : Owns(<<"built", c, k>>, built[c][k])
          /\ \A k \in DOMAIN got[c] : Owns(<<"got", c, k>>, got[c][k])

HeapInv ==
    /\ DOMAIN heap = Reachable /\ IsFiniteSet(DOMAIN heap)
    /\ heap \in [DOMAIN heap -> Contents]

MemoryInv == HeldInv /\ HeapInv

-----------------------------------------------------------------------------
(* Cells. *)

\* There is always a number that makes a name fresh: of Cardinality(used) + 1
\* names one is not in use.
LEMMA FreshIs ==
    ASSUME NEW holder \in Holder, NEW field \in References, NEW used, IsFiniteSet(used)
    PROVE  /\ Fresh(holder, field, used) \in Cell
           /\ Fresh(holder, field, used)[1] = holder /\ Fresh(holder, field, used)[2] = field
           /\ Fresh(holder, field, used) \notin used
<1> DEFINE name(n) == <<holder, field, n>>
           N == Cardinality(used)
           Free == {n \in 0..N : name(n) \notin used}
           Least(n) == name(n) \notin used /\ \A m \in 0..(n - 1) : name(m) \in used
<1>1. N \in Nat
  BY FS_CardinalityType
<1>2. Free # {}
  <2> SUFFICES ASSUME \A n \in 0..N : name(n) \in used PROVE FALSE
    OBVIOUS
  <2> DEFINE naming == [n \in 0..N |-> name(n)]
             names == {naming[n] : n \in 0..N}
  <2>1. naming \in Bijection(0..N, names)
    BY DEF Bijection, Injection, Surjection, IsInjective
  <2>2. names \in SUBSET used
    OBVIOUS
  <2>3. IsFiniteSet(0..N) /\ Cardinality(0..N) = N + 1
    <3>1. 0 \in Int /\ N \in Int /\ 0 <= N /\ N - 0 + 1 = N + 1
      BY <1>1
    <3> HIDE DEF N
    <3> QED
      BY <3>1, FS_Interval
  <2> HIDE DEF naming, names
  <2>4. Cardinality(names) = N + 1
    BY <2>1, <2>3, FS_Bijection DEF ExistsBijection
  <2>5. Cardinality(names) <= N
    BY <2>2, FS_Subset
  <2> HIDE DEF N
  <2> QED
    BY <1>1, <2>4, <2>5
<1>3. PICK n \in Free : \A m \in Free : n <= m
  <2>1. Free \in SUBSET Nat
    OBVIOUS
  <2> HIDE DEF Free
  <2> QED
    BY <1>2, <2>1, LeastOf
<1>4. n \in 0..N /\ Least(n)
  <2>1. n \in 0..N /\ name(n) \notin used
    OBVIOUS
  <2>2. ASSUME NEW m \in 0..(n - 1), name(m) \notin used PROVE FALSE
    <3>1. m \in Free /\ ~(n <= m)
      BY <1>1, <2>1, <2>2
    <3> HIDE DEF Free
    <3> QED
      BY <1>3, <3>1
  <2> QED
    BY <2>1, <2>2
<1> DEFINE chosen == CHOOSE m \in 0..N : Least(m)
<1>5. chosen \in 0..N /\ Least(chosen)
  <2> HIDE DEF Least, N
  <2> QED
    BY <1>4
<1>6. Fresh(holder, field, used) = name(chosen)
  BY DEF Fresh
<1>7. chosen \in Nat
  BY <1>1, <1>5
<1> HIDE DEF chosen
<1> QED
  BY <1>5, <1>6, <1>7 DEF Cell

LEMMA NilIsNoCell == Nil \notin Cell /\ Nil \notin Contents
  BY NilAssumption

\* A clone has the scalars of its original and cells of its own.
LEMMA CloneIs ==
    ASSUME NEW obs \in Struct, NEW holder \in Holder, NEW used, IsFiniteSet(used)
    PROVE  LET clone == CloneObservation(obs, holder, used)
           IN  /\ clone \in Struct /\ Owns(holder, clone)
               /\ clone.id = obs.id /\ clone.fingerprint = obs.fingerprint
               /\ clone.ingestedAt = obs.ingestedAt
               /\ \A field \in References : clone[field] = Nil <=> obs[field] = Nil
<1> DEFINE components == Fresh(holder, "components", used)
           payload == Fresh(holder, "payload", used)
           time == Fresh(holder, "observedAt", used)
           observedAt == IF obs.observedAt = Nil THEN Nil ELSE time
           clone == [obs EXCEPT !.components = components, !.payload = payload,
                                !.observedAt = observedAt]
<1>1. /\ components \in Cell /\ components[1] = holder /\ components[2] = "components"
      /\ payload \in Cell /\ payload[1] = holder /\ payload[2] = "payload"
      /\ time \in Cell /\ time[1] = holder /\ time[2] = "observedAt"
  BY FreshIs DEF References
<1> HIDE DEF components, payload, time
<1>2. /\ observedAt \in Cell \cup {Nil} /\ (observedAt = Nil <=> obs.observedAt = Nil)
      /\ observedAt # Nil => observedAt = time
  BY <1>1, NilIsNoCell
<1>3. CloneObservation(obs, holder, used) = clone
  BY Zenon DEF CloneObservation, components, payload, time
<1> HIDE DEF observedAt
<1>4. /\ clone \in Struct /\ clone.id = obs.id /\ clone.fingerprint = obs.fingerprint
      /\ clone.ingestedAt = obs.ingestedAt /\ clone.components = components
      /\ clone.payload = payload /\ clone.observedAt = observedAt
  BY <1>1, <1>2 DEF Struct
<1> HIDE DEF clone
<1>5. obs.components # Nil /\ obs.payload # Nil /\ components # Nil /\ payload # Nil
  BY <1>1, NilIsNoCell DEF Struct
<1>6. \A field \in References : clone[field] = Nil <=> obs[field] = Nil
  BY <1>2, <1>4, <1>5 DEF References
<1>7. Owns(holder, clone)
  BY <1>1, <1>2, <1>4 DEF Owns, References
<1> QED
  BY <1>3, <1>4, <1>6, <1>7
-----------------------------------------------------------------------------
(* The heap. *)

\* A cell is reachable through an observation somebody holds.
Through(a) ==
    \/ \E id \in DOMAIN byID : a \in Cells(byID[id])
    \/ \E c \in Clients : \E k \in DOMAIN built[c] : a \in Cells(built[c][k])
    \/ \E c \in Clients : \E k \in DOMAIN got[c] : a \in Cells(got[c][k])

LEMMA ReachableIs ==
    ASSUME NEW a
    PROVE  (a \in Reachable <=> Through(a)) /\ (a \in Reachable' <=> Through(a)')
<1>1. a \in Reachable <=> Through(a)
  BY DEF Reachable, CellsOf, Through
<1>2. a \in Reachable' <=> Through(a)'
  BY DEF Reachable, CellsOf, Through
<1> QED
  BY <1>1, <1>2

\* An observation has three references at most.
LEMMA CellsFinite ==
    ASSUME NEW obs
    PROVE  IsFiniteSet(Cells(obs))
<1> DEFINE some == {obs["components"], obs["payload"], obs["observedAt"]}
<1>1. IsFiniteSet({obs["components"]} \cup ({obs["payload"]} \cup {obs["observedAt"]}))
  BY FS_Singleton, FS_Union
<1>2. IsFiniteSet(some)
  <2>1. some = {obs["components"]} \cup ({obs["payload"]} \cup {obs["observedAt"]})
    OBVIOUS
  <2> HIDE DEF some
  <2> QED
    BY <1>1, <2>1
<1>3. Cells(obs) \in SUBSET some
  BY DEF Cells, References
<1> HIDE DEF some
<1> QED
  BY <1>2, <1>3, FS_Subset

\* Finitely many observations have finitely many cells.
LEMMA CellsOfFinite ==
    ASSUME NEW n \in Nat, NEW s, DOMAIN s = 1..n
    PROVE  IsFiniteSet(CellsOf(s))
<1> DEFINE parts == {Cells(s[k]) : k \in DOMAIN s}
           naming == [k \in 1..n |-> Cells(s[k])]
<1>1. naming \in Surjection(1..n, parts)
  BY DEF Surjection
<1>2. IsFiniteSet(1..n)
  BY FS_Interval
<1>3. \A x \in parts : IsFiniteSet(x)
  BY CellsFinite
<1> HIDE DEF parts, naming
<1>4. IsFiniteSet(parts)
  BY <1>1, <1>2, FS_Surjection
<1>5. IsFiniteSet(UNION parts)
  BY <1>3, <1>4, FS_UNION
<1> QED
  BY <1>5 DEF CellsOf, parts

\* A step that makes finitely many new cells keeps the heap finite.
LEMMA HeapGrows ==
    ASSUME HeapInv, NEW new, IsFiniteSet(new), Reachable' \subseteq Reachable \cup new,
           heap' \in [Reachable' -> Contents]
    PROVE  HeapInv'
<1>1. IsFiniteSet(DOMAIN heap \cup new)
  BY FS_Union DEF HeapInv
<1>2. Reachable' \in SUBSET (DOMAIN heap \cup new)
  BY DEF HeapInv
<1>3. IsFiniteSet(Reachable')
  BY <1>1, <1>2, FS_Subset
<1>4. DOMAIN heap' = Reachable'
  OBVIOUS
<1> QED
  BY <1>3, <1>4 DEF HeapInv

\* Every clone is filled from its original, and no other cell changes.
LEMMA FilledIs ==
    ASSUME NEW originals, NEW clones, Filled(originals, clones),
           \A j, k \in DOMAIN clones : \A f, g \in References :
              clones[j][f] = clones[k][g] /\ clones[j][f] # Nil => j = k /\ f = g
    PROVE  /\ heap' = [a \in Reachable' |-> heap'[a]]
           /\ \A k \in DOMAIN clones : \A f \in References :
                 clones[k][f] # Nil /\ clones[k][f] \in Reachable'
                    => heap'[clones[k][f]] = heap[originals[k][f]]
           /\ \A a \in Reachable' :
                 (\A k \in DOMAIN clones : \A f \in References : clones[k][f] # a)
                    => heap'[a] = heap[a]
<1> DEFINE copies == UNION {{<<clones[k][field], originals[k][field]>> :
                               field \in References} : k \in DOMAIN clones}
           From(a) == CHOOSE copy \in copies : copy[1] = a
<1>1. heap' = [a \in Reachable' |->
          IF \E copy \in copies : copy[1] = a THEN heap[From(a)[2]] ELSE heap[a]]
  BY Zenon DEF Filled
<1>2. \A copy : copy \in copies <=> \E k \in DOMAIN clones : \E f \in References :
          copy = <<clones[k][f], originals[k][f]>>
  OBVIOUS
<1>3. \A a : (\E copy \in copies : copy[1] = a) => From(a) \in copies /\ From(a)[1] = a
  <2> HIDE DEF copies
  <2> QED
    BY Zenon
<1> HIDE DEF From, copies
<1>4. ASSUME NEW k \in DOMAIN clones, NEW f \in References,
             clones[k][f] # Nil, clones[k][f] \in Reachable'
      PROVE  heap'[clones[k][f]] = heap[originals[k][f]]
  <2> DEFINE a == clones[k][f]
             copy == <<clones[k][f], originals[k][f]>>
  <2>1. copy \in copies /\ copy[1] = a
    BY <1>2
  <2>2. From(a) \in copies /\ From(a)[1] = a
    BY <1>3, <2>1
  <2>3. PICK j \in DOMAIN clones : \E g \in References :
            From(a) = <<clones[j][g], originals[j][g]>>
    BY <1>2, <2>2
  <2>4. PICK g \in References : From(a) = <<clones[j][g], originals[j][g]>>
    BY <2>3
  <2>5. clones[k][f] = clones[j][g]
    BY <2>2, <2>4
  <2>6. j = k /\ g = f
    BY <1>4, <2>5
  <2>7. From(a)[2] = originals[k][f]
    BY <2>4, <2>6
  <2>8. heap'[a] = heap[From(a)[2]]
    <3> HIDE DEF copy
    <3> QED
      BY <1>1, <1>4, <2>1
  <2> QED
    BY <2>7, <2>8
<1>5. ASSUME NEW a \in Reachable',
             \A k \in DOMAIN clones : \A f \in References : clones[k][f] # a
      PROVE  heap'[a] = heap[a]
  <2>1. ~ \E copy \in copies : copy[1] = a
    BY <1>2, <1>5
  <2> QED
    BY <1>1, <2>1
<1>6. heap' = [a \in Reachable' |-> heap'[a]]
  BY <1>1
<1> QED
  BY <1>4, <1>5, <1>6
-----------------------------------------------------------------------------
(* What each operation does, in terms of the observations it makes. *)

\* copy is an observation like obs, in cells of its own.
Copies(copy, obs, holder) ==
    /\ copy \in Struct /\ Owns(holder, copy)
    /\ copy.id = obs.id /\ copy.fingerprint = obs.fingerprint
    /\ copy.ingestedAt = obs.ingestedAt
    /\ \A field \in References : copy[field] = Nil <=> obs[field] = Nil

\* The references of copy that can be reached hold what those of obs hold.
FilledFrom(copy, obs) ==
    \A field \in References :
        copy[field] # Nil /\ copy[field] \in Reachable' => heap'[copy[field]] = heap[obs[field]]

\* What is reachable and was not made by one of these holders is as it was.
Untouched(holders) ==
    /\ heap' = [a \in Reachable' |-> heap'[a]]
    /\ \A a \in Reachable' : a[1] \notin holders => heap'[a] = heap[a]

Originated(c, obs) ==
    /\ obs \in Struct /\ Owns(<<"built", c, Len(built[c]) + 1>>, obs)
    /\ \A d \in Clients : \A k \in DOMAIN built[d] : built[d][k].id # obs.id
    /\ built' = [built EXCEPT ![c] = Append(@, obs)]
    /\ UNCHANGED <<byID, asked, got, edits>>
    /\ heap' = [a \in Reachable' |-> IF a \in DOMAIN heap THEN heap[a] ELSE "original"]

Inserted(c, k, clone) ==
    /\ built[c][k].id \notin DOMAIN byID
    /\ Copies(clone, built[c][k], <<"store", built[c][k].id, 1>>)
    /\ byID' = [id \in DOMAIN byID \cup {clone.id} |->
                   IF id = clone.id THEN clone ELSE byID[id]]
    /\ UNCHANGED <<built, asked, got, edits>>
    /\ FilledFrom(clone, built[c][k])
    /\ Untouched({<<"store", clone.id, 1>>})

Returned(c, call, originals, clones) ==
    /\ clones \in Seq(Struct) /\ DOMAIN clones = DOMAIN originals
    /\ \A k \in DOMAIN clones : Copies(clones[k], originals[k], <<"got", c, k>>)
    /\ asked' = [asked EXCEPT ![c] = call]
    /\ got' = [got EXCEPT ![c] = clones]
    /\ UNCHANGED <<byID, built, edits>>
    /\ \A k \in DOMAIN clones : FilledFrom(clones[k], originals[k])
    /\ Untouched({<<"got", c, k>> : k \in DOMAIN clones})

\* The heap when each clone is filled, in the place of a holder, and nothing else is.
FillsOnly(originals, clones, place) ==
    /\ \A k \in DOMAIN clones : FilledFrom(clones[k], originals[k])
    /\ Untouched({place[k] : k \in DOMAIN clones})

LEMMA OriginateIs ==
    ASSUME MemoryInv, NEW c \in Clients, Originate(c)
    PROVE  \E obs : Originated(c, obs)
<1> DEFINE holder == <<"built", c, Len(built[c]) + 1>>
           cell(field) == Fresh(holder, field, DOMAIN heap)
           made(id, fp, t, dated) ==
               [id |-> id, fingerprint |-> fp, ingestedAt |-> t,
                components |-> cell("components"), payload |-> cell("payload"),
                observedAt |-> IF dated THEN cell("observedAt") ELSE Nil]
<1>1. PICK id \in Ids, fp \in Fingerprints, t \in Instants, dated \in BOOLEAN :
          /\ \A d \in Clients : \A k \in DOMAIN built[d] : built[d][k].id # id
          /\ built' = [built EXCEPT ![c] = Append(@, made(id, fp, t, dated))]
  BY Zenon DEF Originate
<1>2. built[c] \in Seq(Struct) /\ IsFiniteSet(DOMAIN heap)
  BY DEF MemoryInv, HeldInv, HeapInv
<1>3. holder \in Holder
  <2>1. Len(built[c]) \in Nat
    BY <1>2, LenProperties
  <2>2. Len(built[c]) + 1 \in Nat \ {0}
    BY <2>1
  <2> HIDE DEF MemoryInv
  <2> QED
    BY <2>2 DEF Holder
<1> HIDE DEF holder
<1>4. \A field \in References :
          cell(field) \in Cell /\ cell(field)[1] = holder /\ cell(field)[2] = field
  BY <1>2, <1>3, FreshIs
<1> DEFINE obs == made(id, fp, t, dated)
<1>5. obs \in Struct /\ Owns(holder, obs) /\ obs.id = id
  <2> HIDE DEF cell
  <2> QED
    BY <1>4, NilIsNoCell DEF Struct, Owns, References
<1>6. /\ UNCHANGED <<byID, asked, got, edits>>
      /\ heap' = [a \in Reachable' |-> IF a \in DOMAIN heap THEN heap[a] ELSE "original"]
  BY Zenon DEF Originate
<1> HIDE DEF made
<1>7. Originated(c, obs)
  BY <1>1, <1>5, <1>6, Zenon DEF Originated, holder
<1> QED
  BY <1>7

\* Clones of different places are in different cells.
LEMMA ClonesApart ==
    ASSUME NEW clones, NEW place,
           \A j, k \in DOMAIN clones : place[j] = place[k] => j = k,
           \A k \in DOMAIN clones : Owns(place[k], clones[k])
    PROVE  \A j, k \in DOMAIN clones : \A f, g \in References :
              clones[j][f] = clones[k][g] /\ clones[j][f] # Nil => j = k /\ f = g
BY DEF Owns
\* Filling clones of different places reads the originals and leaves all else.
LEMMA FillingIs ==
    ASSUME NEW originals, NEW clones, NEW place, Filled(originals, clones),
           \A j, k \in DOMAIN clones : place[j] = place[k] => j = k,
           \A k \in DOMAIN clones : Owns(place[k], clones[k]),
           Nil \notin Reachable'
    PROVE  FillsOnly(originals, clones, place)
<1>1. \A j, k \in DOMAIN clones : \A f, g \in References :
          clones[j][f] = clones[k][g] /\ clones[j][f] # Nil => j = k /\ f = g
  BY ClonesApart
<1>2. /\ heap' = [a \in Reachable' |-> heap'[a]]
      /\ \A k \in DOMAIN clones : \A f \in References :
            clones[k][f] # Nil /\ clones[k][f] \in Reachable'
               => heap'[clones[k][f]] = heap[originals[k][f]]
      /\ \A a \in Reachable' :
            (\A k \in DOMAIN clones : \A f \in References : clones[k][f] # a)
               => heap'[a] = heap[a]
  BY <1>1, FilledIs
<1>3. \A k \in DOMAIN clones : FilledFrom(clones[k], originals[k])
  BY <1>2 DEF FilledFrom
<1>4. ASSUME NEW a \in Reachable', a[1] \notin {place[k] : k \in DOMAIN clones}
      PROVE  heap'[a] = heap[a]
  <2>1. ASSUME NEW k \in DOMAIN clones, NEW f \in References PROVE clones[k][f] # a
    BY <1>4 DEF Owns
  <2> QED
    BY <1>2, <2>1
<1> QED
  BY <1>2, <1>3, <1>4 DEF Untouched, FillsOnly

\* Only cells are reachable.
LEMMA ReachableCells ==
    ASSUME HeldInv
    PROVE  Reachable \subseteq Cell
<1>1. \A obs \in Struct : Cells(obs) \subseteq Cell
  BY DEF Cells, Struct, References
<1>2. \A id \in DOMAIN byID : byID[id] \in Struct
  BY DEF HeldInv
<1>3. \A c \in Clients : \A k \in DOMAIN built[c] : built[c][k] \in Struct
  BY ElementOfSeq DEF HeldInv
<1>4. \A c \in Clients : \A k \in DOMAIN got[c] : got[c][k] \in Struct
  BY ElementOfSeq DEF HeldInv
<1> QED
  BY <1>1, <1>2, <1>3, <1>4, ReachableIs DEF Through

LEMMA InsertIs ==
    ASSUME MemoryInv, NEW c \in Clients, InsertNew(c)
    PROVE  \E k \in DOMAIN built[c] : \E clone : Inserted(c, k, clone)
<1>1. PICK k \in DOMAIN built[c] : built[c][k].id \notin DOMAIN byID /\ Insert(c, k)
  BY DEF InsertNew
<1>2. PICK obs : obs = built[c][k]
  OBVIOUS
<1>3. PICK holder : holder = <<"store", obs.id, 1>>
  OBVIOUS
<1>4. PICK clone : clone = CloneObservation(obs, holder, DOMAIN heap)
  OBVIOUS
<1>5. obs \in Struct /\ IsFiniteSet(DOMAIN heap)
  BY <1>2, ElementOfSeq DEF MemoryInv, HeldInv, HeapInv
<1>6. holder \in Holder
  BY <1>3, <1>5 DEF Holder, Struct
<1>7. Copies(clone, obs, holder)
  BY <1>4, <1>5, <1>6, CloneIs DEF Copies
<1>8. /\ byID' = [id \in DOMAIN byID \cup {obs.id} |-> IF id = obs.id THEN clone ELSE byID[id]]
      /\ UNCHANGED <<built, asked, got, edits>>
  BY <1>1, <1>2, <1>3, <1>4, Zenon DEF Insert
<1>9. Filled(<<obs>>, <<clone>>)
  BY <1>1, <1>2, <1>3, <1>4, Zenon DEF Insert
<1>10. clone.id = obs.id /\ Owns(holder, clone)
  BY <1>7 DEF Copies
<1>11. Nil \notin Reachable'
  BY ReachableIs DEF Through, Cells
<1>12. PICK originals, clones, place :
           originals = <<obs>> /\ clones = <<clone>> /\ place = <<holder>>
  OBVIOUS
<1>13. DOMAIN clones = {1} /\ place[1] = holder /\ clones[1] = clone /\ originals[1] = obs
  BY <1>12
<1>14. FillsOnly(originals, clones, place)
  <2>1. /\ \A i, j \in DOMAIN clones : place[i] = place[j] => i = j
        /\ \A j \in DOMAIN clones : Owns(place[j], clones[j])
    BY <1>10, <1>13
  <2>2. Filled(originals, clones)
    BY <1>9, <1>12
  <2> QED
    BY <1>11, <2>1, <2>2, FillingIs, Zenon
<1>15. FilledFrom(clone, obs) /\ Untouched({holder})
  <2>1. {place[j] : j \in DOMAIN clones} = {holder}
    BY <1>13
  <2> QED
    BY <1>13, <1>14, <2>1 DEF FillsOnly
<1>16. Inserted(c, k, clone)
  BY <1>1, <1>2, <1>3, <1>7, <1>8, <1>10, <1>15, Zenon DEF Inserted
<1> QED
  BY <1>16

\* A call that returns observations of the store.
LEMMA ReturnIs ==
    ASSUME MemoryInv, NEW c \in Clients, NEW call, NEW n \in Nat,
           NEW originals \in [1..n -> All], Return(c, call, originals)
    PROVE  \E clones : Returned(c, call, originals, clones)
<1>1. PICK used : used = UsedWithout(c)
  OBVIOUS
<1> DEFINE clone(k) == CloneObservation(originals[k], <<"got", c, k>>, used)
<1>2. PICK clones : clones = [k \in DOMAIN originals |-> clone(k)]
  OBVIOUS
<1>3. PICK place : place = [k \in 1..n |-> <<"got", c, k>>]
  OBVIOUS
<1>4. IsFiniteSet(used)
  <2>1. used \subseteq Reachable
    BY <1>1, ReachableIs DEF UsedWithout, CellsOf, Through
  <2>2. IsFiniteSet(Reachable)
    BY DEF MemoryInv, HeapInv
  <2> QED
    BY <2>1, <2>2, FS_Subset
<1>5. DOMAIN originals = 1..n /\ \A k \in 1..n : originals[k] \in Struct
  BY DEF All, MemoryInv, HeldInv
<1>6. \A k \in 1..n : <<"got", c, k>> \in Holder
  BY DEF Holder
<1>7. \A k \in 1..n : Copies(clone(k), originals[k], <<"got", c, k>>)
  BY <1>4, <1>5, <1>6, CloneIs DEF Copies
<1>8. /\ asked' = [asked EXCEPT ![c] = call] /\ got' = [got EXCEPT ![c] = clones]
      /\ UNCHANGED <<byID, built, edits>> /\ Filled(originals, clones)
  BY <1>1, <1>2, Zenon DEF Return
<1> HIDE DEF clone
<1>9. DOMAIN clones = 1..n /\ \A k \in 1..n : clones[k] = clone(k)
  BY <1>2, <1>5
<1>10. \A k \in 1..n : Copies(clones[k], originals[k], <<"got", c, k>>)
  BY <1>7, <1>9
<1>11. clones \in Seq(Struct)
  <2>1. \A k \in 1..n : clones[k] \in Struct
    BY <1>10 DEF Copies
  <2>2. clones = [k \in 1..n |-> clones[k]]
    BY <1>2, <1>5
  <2>3. clones \in [1..n -> Struct]
    BY <2>1, <2>2
  <2> QED
    BY <2>3, SeqDef
<1>12. Nil \notin Reachable'
  BY ReachableIs DEF Through, Cells
<1>13. FillsOnly(originals, clones, place)
  <2>1. /\ \A j, k \in DOMAIN clones : place[j] = place[k] => j = k
        /\ \A k \in DOMAIN clones : Owns(place[k], clones[k])
    BY <1>3, <1>9, <1>10 DEF Copies
  <2> QED
    BY <1>8, <1>12, <2>1, FillingIs, Zenon
<1>14. {place[k] : k \in DOMAIN clones} = {<<"got", c, k>> : k \in DOMAIN clones}
  BY <1>3, <1>9
<1>15. Returned(c, call, originals, clones)
  BY <1>5, <1>8, <1>9, <1>10, <1>11, <1>13, <1>14, Zenon DEF Returned, FillsOnly
<1> QED
  BY <1>15
-----------------------------------------------------------------------------
(* The invariant. *)

\* Every call that answers returns observations of the store.
LEMMA AnswersAreStored ==
    ASSUME MemoryInv, NEW c \in Clients, Get(c) \/ ListByFingerprint(c) \/ List(c)
    PROVE  \E call : \E n \in Nat : \E originals \in [1..n -> All] : Return(c, call, originals)
<1>1. ASSUME NEW S, S \subseteq All
      PROVE  IsFiniteSet(S) /\ Cardinality(S) \in Nat
  <2> DEFINE of == [id \in DOMAIN byID |-> byID[id]]
  <2>1. of \in Surjection(DOMAIN byID, All)
    BY DEF Surjection, All
  <2>2. IsFiniteSet(DOMAIN byID)
    BY DEF MemoryInv, HeldInv
  <2>3. IsFiniteSet(All)
    <3> HIDE DEF of
    <3> QED
      BY <2>1, <2>2, FS_Surjection
  <2> QED
    BY <1>1, <2>3, FS_Subset, FS_CardinalityType
<1>2. CASE Get(c)
  <2>1. PICK id \in Ids :
            Return(c, <<"get", id>>, IF id \in DOMAIN byID THEN <<byID[id]>> ELSE <<>>)
    BY <1>2 DEF Get
  <2>2. CASE id \in DOMAIN byID
    <3>1. <<byID[id]>> \in [1..1 -> All]
      BY <2>2 DEF All
    <3>2. Return(c, <<"get", id>>, <<byID[id]>>)
      BY <2>1, <2>2
    <3> QED
      BY <3>1, <3>2
  <2>3. CASE id \notin DOMAIN byID
    <3>1. <<>> \in [1..0 -> All]
      OBVIOUS
    <3>2. Return(c, <<"get", id>>, <<>>)
      BY <2>1, <2>3
    <3> QED
      BY <3>1, <3>2
  <2> QED
    BY <2>2, <2>3
<1>3. CASE ListByFingerprint(c)
  <2>1. PICK fp \in Fingerprints : \E s \in [1..Cardinality(Matching(fp)) -> Matching(fp)] :
            Return(c, <<"fingerprint", fp>>, s)
    BY <1>3 DEF ListByFingerprint, Sorted
  <2>2. PICK s \in [1..Cardinality(Matching(fp)) -> Matching(fp)] :
            Return(c, <<"fingerprint", fp>>, s)
    BY <2>1
  <2>3. Matching(fp) \subseteq All
    BY DEF Matching, All
  <2>4. s \in [1..Cardinality(Matching(fp)) -> All]
    BY <2>3
  <2> QED
    BY <1>1, <2>2, <2>3, <2>4
<1>4. CASE List(c)
  <2>1. PICK limit \in Limits : \E s \in [1..Cardinality(All) -> All] :
            Return(c, <<"list", limit>>, Cut(s, limit))
    BY <1>4 DEF List, Sorted
  <2>2. PICK s \in [1..Cardinality(All) -> All] : Return(c, <<"list", limit>>, Cut(s, limit))
    BY <2>1
  <2>3. Cardinality(All) \in Nat
    BY <1>1
  <2>4. s \in Seq(All) /\ Len(s) = Cardinality(All)
    BY <2>2, <2>3
  <2>5. \E n \in Nat : Cut(s, limit) \in [1..n -> All]
    <3>1. limit \in Int
      BY LimitsAssumption
    <3>2. CASE limit >= 0 /\ Len(s) > limit
      <4>1. Cut(s, limit) = [i \in 1..limit |-> s[i]] /\ limit \in Nat
        BY <2>3, <2>4, <3>1, <3>2 DEF Cut
      <4>2. \A i \in 1..limit : s[i] \in All
        BY <2>3, <2>4, <3>1, <3>2
      <4>3. Cut(s, limit) \in [1..limit -> All]
        BY <4>1, <4>2
      <4> QED
        BY <4>1, <4>3
    <3>3. CASE ~(limit >= 0 /\ Len(s) > limit)
      BY <2>2, <2>3, <3>3 DEF Cut
    <3> QED
      BY <3>2, <3>3
  <2> QED
    BY <2>2, <2>5
<1> QED
  BY <1>2, <1>3, <1>4

LEMMA MemoryInit == Init => MemoryInv
<1> SUFFICES ASSUME Init PROVE MemoryInv
  OBVIOUS
<1>1. DOMAIN byID = {} /\ DOMAIN heap = {} /\ \A c \in Clients : built[c] = <<>> /\ got[c] = <<>>
  BY DEF Init
<1>2. IsFiniteSet(DOMAIN byID) /\ IsFiniteSet(DOMAIN heap)
  BY <1>1, FS_EmptySet
<1>3. HeldInv
  <2>1. built \in [Clients -> Seq(Struct)] /\ got \in [Clients -> Seq(Struct)]
    <3>1. <<>> \in Seq(Struct)
      OBVIOUS
    <3> QED
      BY <3>1 DEF Init
  <2>2. byID \in [DOMAIN byID -> Struct]
    BY <1>1 DEF Init
  <2>3. \A c \in Clients : DOMAIN built[c] = {} /\ DOMAIN got[c] = {}
    BY <1>1
  <2> QED
    BY <1>1, <1>2, <2>1, <2>2, <2>3 DEF HeldInv
<1>4. DOMAIN heap = Reachable
  <2>1. \A a : ~Through(a)
    BY <1>1 DEF Through
  <2>2. Reachable = {}
    BY <2>1, ReachableIs
  <2> QED
    BY <1>1, <2>2
<1>5. heap \in [DOMAIN heap -> Contents]
  BY <1>1 DEF Init
<1> QED
  BY <1>2, <1>3, <1>4, <1>5 DEF MemoryInv, HeapInv

LEMMA OriginateInv ==
    ASSUME MemoryInv, NEW c \in Clients, Originate(c)
    PROVE  MemoryInv'
<1>1. PICK obs : Originated(c, obs)
  BY OriginateIs
<1>2. PICK own : own = built[c]
  OBVIOUS
<1>3. /\ built \in [Clients -> Seq(Struct)] /\ own \in Seq(Struct) /\ obs \in Struct
      /\ Len(own) \in Nat /\ DOMAIN own = 1..Len(own)
  BY <1>1, <1>2 DEF Originated, MemoryInv, HeldInv
<1>4. /\ Append(own, obs) \in Seq(Struct) /\ DOMAIN Append(own, obs) = 1..(Len(own) + 1)
      /\ \A k \in 1..Len(own) : Append(own, obs)[k] = own[k]
      /\ Append(own, obs)[Len(own) + 1] = obs
  BY <1>3, AppendProperties
<1>5. /\ built' = [built EXCEPT ![c] = Append(own, obs)]
      /\ UNCHANGED <<byID, got>>
  BY <1>1, <1>2 DEF Originated
<1>6. built'[c] = Append(own, obs) /\ \A d \in Clients : d # c => built'[d] = built[d]
  BY <1>3, <1>5
<1>7. HeldInv'
  <2>1. built' \in [Clients -> Seq(Struct)]
    BY <1>3, <1>4, <1>5
  <2>2. ASSUME NEW d \in Clients, NEW k \in DOMAIN built'[d]
        PROVE  Owns(<<"built", d, k>>, built'[d][k])
    <3>1. CASE d # c
      BY <1>6, <3>1 DEF MemoryInv, HeldInv
    <3>2. CASE d = c /\ k \in 1..Len(own)
      BY <1>2, <1>3, <1>4, <1>6, <3>2 DEF MemoryInv, HeldInv
    <3>3. CASE d = c /\ k = Len(own) + 1
      BY <1>1, <1>2, <1>4, <1>6, <3>3 DEF Originated
    <3>4. d = c => k \in 1..Len(own) \/ k = Len(own) + 1
      BY <1>3, <1>4, <1>6, <2>2
    <3> QED
      BY <3>1, <3>2, <3>3, <3>4
  <2> QED
    BY <1>5, <2>1, <2>2 DEF MemoryInv, HeldInv
<1>8. Reachable' \subseteq Reachable \cup Cells(obs)
  <2> SUFFICES ASSUME NEW a \in Reachable', a \notin Cells(obs) PROVE Through(a)
    BY ReachableIs
  <2>1. Through(a)'
    BY ReachableIs
  <2>2. ASSUME NEW d \in Clients, NEW k \in DOMAIN built'[d], a \in Cells(built'[d][k])
        PROVE  k \in DOMAIN built[d] /\ a \in Cells(built[d][k])
    <3>1. CASE d # c
      BY <1>6, <2>2, <3>1
    <3>2. CASE d = c
      <4>1. k \in 1..(Len(own) + 1) /\ built'[d][k] = Append(own, obs)[k]
        BY <1>4, <1>6, <2>2, <3>2
      <4>2. k # Len(own) + 1
        BY <1>4, <2>2, <4>1
      <4>3. k \in 1..Len(own)
        BY <1>3, <4>1, <4>2
      <4> QED
        BY <1>2, <1>3, <1>4, <2>2, <3>2, <4>1, <4>3
    <3> QED
      BY <3>1, <3>2
  <2> QED
    BY <1>5, <2>1, <2>2 DEF Through
<1>9. heap' \in [Reachable' -> Contents]
  <2>1. heap' = [a \in Reachable' |-> IF a \in DOMAIN heap THEN heap[a] ELSE "original"]
    BY <1>1 DEF Originated
  <2> QED
    BY <2>1 DEF MemoryInv, HeapInv, Contents
<1> QED
  BY <1>7, <1>8, <1>9, CellsFinite, HeapGrows DEF MemoryInv
\* The cells of an observation bear its holder's name.
LEMMA CellsBearNames ==
    ASSUME NEW holder, NEW obs, Owns(holder, obs), NEW a \in Cells(obs)
    PROVE  a[1] = holder
BY DEF Owns, Cells

LEMMA NamesAreHolders ==
    ASSUME HeldInv, NEW a
    PROVE  /\ \A id \in DOMAIN byID : a \in Cells(byID[id]) => a[1] = <<"store", id, 1>>
           /\ \A c \in Clients : \A k \in DOMAIN built[c] :
                 a \in Cells(built[c][k]) => a[1] = <<"built", c, k>>
           /\ \A c \in Clients : \A k \in DOMAIN got[c] :
                 a \in Cells(got[c][k]) => a[1] = <<"got", c, k>>
<1>1. \A id \in DOMAIN byID : Owns(<<"store", id, 1>>, byID[id])
  BY DEF HeldInv
<1>2. \A c \in Clients : /\ \A k \in DOMAIN built[c] : Owns(<<"built", c, k>>, built[c][k])
                         /\ \A k \in DOMAIN got[c] : Owns(<<"got", c, k>>, got[c][k])
  BY DEF HeldInv
<1> QED
  BY <1>1, <1>2, CellsBearNames

LEMMA InsertInv ==
    ASSUME MemoryInv, NEW c \in Clients, InsertNew(c)
    PROVE  MemoryInv'
<1>1. PICK k \in DOMAIN built[c] : \E clone : Inserted(c, k, clone)
  BY InsertIs
<1>2. PICK clone : Inserted(c, k, clone)
  BY <1>1
<1>3. PICK obs, holder : obs = built[c][k] /\ holder = <<"store", clone.id, 1>>
  OBVIOUS
<1>4. obs \in Struct
  BY <1>3, ElementOfSeq DEF MemoryInv, HeldInv
<1>5. clone.id = obs.id /\ clone.id \in Ids /\ clone.id \notin DOMAIN byID
  BY <1>2, <1>3, <1>4 DEF Inserted, Copies, Struct
<1>6. /\ Copies(clone, obs, holder) /\ clone \in Struct /\ Owns(holder, clone)
      /\ UNCHANGED <<built, got>>
      /\ byID' = [id \in DOMAIN byID \cup {clone.id} |->
                     IF id = clone.id THEN clone ELSE byID[id]]
      /\ FilledFrom(clone, obs) /\ Untouched({holder})
  BY <1>2, <1>3, <1>5, Zenon DEF Inserted, Copies
<1>7. /\ DOMAIN byID' = DOMAIN byID \cup {clone.id} /\ byID'[clone.id] = clone
      /\ \A id \in DOMAIN byID : byID'[id] = byID[id]
  BY <1>5, <1>6
<1>8. HeldInv'
  <2>1. DOMAIN byID' \subseteq Ids /\ IsFiniteSet(DOMAIN byID')
    <3>1. IsFiniteSet(DOMAIN byID \cup {clone.id})
      BY FS_AddElement DEF MemoryInv, HeldInv
    <3> QED
      BY <1>5, <1>7, <3>1 DEF MemoryInv, HeldInv
  <2>2. byID' \in [DOMAIN byID' -> Struct]
    BY <1>6 DEF MemoryInv, HeldInv
  <2>3. \A id \in DOMAIN byID' : byID'[id].id = id /\ Owns(<<"store", id, 1>>, byID'[id])
    BY <1>3, <1>6, <1>7 DEF MemoryInv, HeldInv
  <2> QED
    BY <1>6, <2>1, <2>2, <2>3 DEF MemoryInv, HeldInv
<1>9. \A a \in Reachable' : a \in Reachable \/ a \in Cells(clone)
  <2> SUFFICES ASSUME NEW a \in Reachable', a \notin Cells(clone) PROVE Through(a)
    BY ReachableIs
  <2>1. Through(a)'
    BY ReachableIs
  <2> QED
    BY <1>6, <1>7, <2>1 DEF Through
<1>10. heap' \in [Reachable' -> Contents]
  <2> SUFFICES ASSUME NEW a \in Reachable' PROVE heap'[a] \in Contents
    BY <1>6 DEF Untouched
  <2>1. CASE a \in Cells(clone)
    <3>1. PICK f \in References : a = clone[f] /\ clone[f] # Nil
      BY <2>1 DEF Cells
    <3>2. heap'[a] = heap[obs[f]]
      BY <1>6, <3>1 DEF FilledFrom
    <3>3. obs[f] # Nil
      BY <1>6, <3>1 DEF Copies
    <3>4. obs[f] \in Reachable
      BY <1>3, <3>3, ReachableIs DEF Through, Cells
    <3> QED
      BY <3>2, <3>4 DEF MemoryInv, HeapInv
  <2>2. CASE a \notin Cells(clone)
    <3>1. a \in Reachable
      BY <1>9, <2>2
    <3>2. a[1] # holder
      <4>1. HeldInv /\ Through(a)
        BY <3>1, ReachableIs DEF MemoryInv
      <4> QED
        BY <1>3, <1>5, <4>1, NamesAreHolders DEF Through
    <3>3. heap'[a] = heap[a]
      BY <1>6, <3>2 DEF Untouched
    <3> QED
      BY <3>1, <3>3 DEF MemoryInv, HeapInv
  <2> QED
    BY <2>1, <2>2
<1> QED
  BY <1>8, <1>9, <1>10, CellsFinite, HeapGrows DEF MemoryInv

LEMMA ReturnInv ==
    ASSUME MemoryInv, NEW c \in Clients, NEW call, NEW n \in Nat,
           NEW originals \in [1..n -> All], Return(c, call, originals)
    PROVE  MemoryInv'
<1>1. PICK clones : Returned(c, call, originals, clones)
  BY ReturnIs
<1>2. DOMAIN clones = 1..n /\ clones \in Seq(Struct)
  BY <1>1 DEF Returned
<1>3. \A k \in 1..n : Copies(clones[k], originals[k], <<"got", c, k>>)
                      /\ FilledFrom(clones[k], originals[k])
  BY <1>1, <1>2 DEF Returned
<1>4. /\ got' = [got EXCEPT ![c] = clones] /\ UNCHANGED <<byID, built>>
      /\ Untouched({<<"got", c, k>> : k \in DOMAIN clones})
  BY <1>1, Zenon DEF Returned
<1>5. got'[c] = clones /\ \A d \in Clients : d # c => got'[d] = got[d]
  BY <1>4 DEF MemoryInv, HeldInv
<1>6. HeldInv'
  <2>1. got' \in [Clients -> Seq(Struct)]
    BY <1>2, <1>4 DEF MemoryInv, HeldInv
  <2>2. ASSUME NEW d \in Clients, NEW k \in DOMAIN got'[d]
        PROVE  Owns(<<"got", d, k>>, got'[d][k])
    <3>1. CASE d # c
      BY <1>5, <3>1 DEF MemoryInv, HeldInv
    <3>2. CASE d = c
      BY <1>2, <1>3, <1>5, <3>2 DEF Copies
    <3> QED
      BY <3>1, <3>2
  <2> QED
    BY <1>4, <2>1, <2>2 DEF MemoryInv, HeldInv
<1>7. ASSUME NEW a \in Reachable'
      PROVE  \/ a \in Reachable /\ a[1] \notin {<<"got", c, k>> : k \in DOMAIN clones}
             \/ a \in CellsOf(clones)
  <2>1. Through(a)' /\ HeldInv
    BY ReachableIs DEF MemoryInv
  <2>2. CASE \E id \in DOMAIN byID : a \in Cells(byID[id])
    BY <2>1, <2>2, ReachableIs, NamesAreHolders DEF Through
  <2>3. CASE \E d \in Clients : \E k \in DOMAIN built[d] : a \in Cells(built[d][k])
    BY <2>1, <2>3, ReachableIs, NamesAreHolders DEF Through
  <2>4. CASE \E d \in Clients \ {c} : \E k \in DOMAIN got[d] : a \in Cells(got[d][k])
    BY <2>1, <2>4, ReachableIs, NamesAreHolders DEF Through
  <2>5. CASE \E k \in DOMAIN clones : a \in Cells(clones[k])
    BY <2>5 DEF CellsOf
  <2>6. \/ \E id \in DOMAIN byID : a \in Cells(byID[id])
        \/ \E d \in Clients : \E k \in DOMAIN built[d] : a \in Cells(built[d][k])
        \/ \E d \in Clients \ {c} : \E k \in DOMAIN got[d] : a \in Cells(got[d][k])
        \/ \E k \in DOMAIN clones : a \in Cells(clones[k])
    BY <1>4, <1>5, <2>1 DEF Through
  <2> QED
    BY <2>2, <2>3, <2>4, <2>5, <2>6
<1>8. heap' \in [Reachable' -> Contents]
  <2> SUFFICES ASSUME NEW a \in Reachable' PROVE heap'[a] \in Contents
    BY <1>4 DEF Untouched
  <2>1. CASE a \in CellsOf(clones)
    <3>1. PICK k \in 1..n : a \in Cells(clones[k])
      BY <1>2, <2>1 DEF CellsOf
    <3>2. PICK f \in References : a = clones[k][f] /\ a # Nil
      BY <3>1 DEF Cells
    <3>3. heap'[a] = heap[originals[k][f]] /\ originals[k][f] # Nil
      BY <1>3, <3>2 DEF FilledFrom, Copies
    <3>4. PICK id \in DOMAIN byID : originals[k] = byID[id]
      BY DEF All
    <3>5. originals[k][f] \in Reachable
      BY <3>3, <3>4, ReachableIs DEF Through, Cells
    <3> QED
      BY <3>3, <3>5 DEF MemoryInv, HeapInv
  <2>2. CASE a \notin CellsOf(clones)
    <3>1. heap'[a] = heap[a] /\ a \in Reachable
      BY <1>4, <1>7, <2>2 DEF Untouched
    <3> QED
      BY <3>1 DEF MemoryInv, HeapInv
  <2> QED
    BY <2>1, <2>2
<1>9. IsFiniteSet(CellsOf(clones)) /\ Reachable' \subseteq Reachable \cup CellsOf(clones)
  BY <1>2, <1>7, CellsOfFinite
<1> QED
  BY <1>6, <1>8, <1>9, HeapGrows DEF MemoryInv

LEMMA EditInv ==
    ASSUME MemoryInv, NEW c \in Clients, Edit(c)
    PROVE  MemoryInv'
<1>1. UNCHANGED <<byID, built, got>>
  BY DEF Edit
<1>2. PICK a : heap' = [heap EXCEPT ![a] = "edited"]
  BY DEF Edit
<1>3. Reachable' = Reachable /\ HeldInv'
  BY <1>1 DEF Reachable, CellsOf, MemoryInv, HeldInv
<1>4. DOMAIN heap' = DOMAIN heap /\ heap' \in [DOMAIN heap -> Contents]
  BY <1>2 DEF MemoryInv, HeapInv, Contents
<1> QED
  BY <1>3, <1>4 DEF MemoryInv, HeapInv

LEMMA MemoryStep == MemoryInv /\ [Next]_vars => MemoryInv'
<1> SUFFICES ASSUME MemoryInv, [Next]_vars PROVE MemoryInv'
  OBVIOUS
<1>1. ASSUME NEW c \in Clients, Originate(c) PROVE MemoryInv'
  BY <1>1, OriginateInv
<1>2. ASSUME NEW c \in Clients, InsertNew(c) PROVE MemoryInv'
  BY <1>2, InsertInv
<1>3. ASSUME NEW c \in Clients, Get(c) \/ ListByFingerprint(c) \/ List(c) PROVE MemoryInv'
  BY <1>3, AnswersAreStored, ReturnInv
<1>4. ASSUME NEW c \in Clients, Edit(c) PROVE MemoryInv'
  BY <1>4, EditInv
<1>5. CASE UNCHANGED vars
  BY <1>5 DEF vars, MemoryInv, HeldInv, HeapInv, Reachable, CellsOf
<1> QED
  BY <1>1, <1>2, <1>3, <1>4, <1>5 DEF Next, Call

LEMMA MemoryAlways == Spec => []MemoryInv
BY MemoryInit, MemoryStep, PTL DEF Spec

\* cloneObservation: no two observations in the hands of the store or of its
\* callers ever reach the same cell.
THEOREM CallersShareNothing == Spec => []NothingShared
<1>1. MemoryInv => NothingShared
  <2> SUFFICES ASSUME MemoryInv, NEW g \in Holders, NEW h \in Holders, g # h,
                      NEW a \in Cells(HeldBy(g)), a \in Cells(HeldBy(h))
               PROVE  FALSE
    BY Zenon DEF NothingShared
  <2>1. ASSUME NEW x \in Holders PROVE Owns(x, HeldBy(x))
    <3>1. \/ \E id \in DOMAIN byID : x = <<"store", id, 1>>
          \/ \E c \in Clients : \E k \in DOMAIN built[c] : x = <<"built", c, k>>
          \/ \E c \in Clients : \E k \in DOMAIN got[c] : x = <<"got", c, k>>
      BY DEF Holders
    <3>2. ASSUME NEW id \in DOMAIN byID, x = <<"store", id, 1>> PROVE HeldBy(x) = byID[id]
      BY <3>2 DEF HeldBy
    <3>3. ASSUME NEW c \in Clients, NEW k \in DOMAIN built[c], x = <<"built", c, k>>
          PROVE  HeldBy(x) = built[c][k]
      BY <3>3 DEF HeldBy
    <3>4. ASSUME NEW c \in Clients, NEW k \in DOMAIN got[c], x = <<"got", c, k>>
          PROVE  HeldBy(x) = got[c][k]
      BY <3>4 DEF HeldBy
    <3> QED
      BY <3>1, <3>2, <3>3, <3>4 DEF MemoryInv, HeldInv
  <2> QED
    BY <2>1, CellsBearNames
<1> QED
  BY <1>1, MemoryAlways, PTL
-----------------------------------------------------------------------------
(* The store as its clients see it. *)

\* An observation seen through a heap.
Seen(h, obs) ==
    [field \in DOMAIN obs |->
        IF field \in References /\ obs[field] # Nil THEN h[obs[field]] ELSE obs[field]]

SeenAll(h, s) == [k \in DOMAIN s |-> Seen(h, s[k])]

\* The variables of Contract under the mapping of Abstract.
storedBar == {Value(byID[id]) : id \in DOMAIN byID}
builtBar == [c \in Clients |-> Values(built[c])]
gotBar == [c \in Clients |-> Values(got[c])]

LEMMA BarsAre ==
    /\ storedBar = {Seen(heap, byID[id]) : id \in DOMAIN byID}
    /\ storedBar' = {Seen(heap', byID'[id]) : id \in DOMAIN byID'}
    /\ builtBar = [c \in Clients |-> SeenAll(heap, built[c])]
    /\ builtBar' = [c \in Clients |-> SeenAll(heap', built'[c])]
    /\ gotBar = [c \in Clients |-> SeenAll(heap, got[c])]
    /\ gotBar' = [c \in Clients |-> SeenAll(heap', got'[c])]
<1>1. storedBar = {Seen(heap, byID[id]) : id \in DOMAIN byID}
  BY Zenon DEF storedBar, Value, Seen
<1>2. storedBar' = {Seen(heap', byID'[id]) : id \in DOMAIN byID'}
  BY Zenon DEF storedBar, Value, Seen
<1>3. builtBar = [c \in Clients |-> SeenAll(heap, built[c])]
  BY Zenon DEF builtBar, Values, Value, SeenAll, Seen
<1>4. builtBar' = [c \in Clients |-> SeenAll(heap', built'[c])]
  BY Zenon DEF builtBar, Values, Value, SeenAll, Seen
<1>5. gotBar = [c \in Clients |-> SeenAll(heap, got[c])]
  BY Zenon DEF gotBar, Values, Value, SeenAll, Seen
<1>6. gotBar' = [c \in Clients |-> SeenAll(heap', got'[c])]
  BY Zenon DEF gotBar, Values, Value, SeenAll, Seen
<1> QED
  BY <1>1, <1>2, <1>3, <1>4, <1>5, <1>6

Fields == {"id", "fingerprint", "ingestedAt", "components", "payload", "observedAt"}

LEMMA SeenIs ==
    ASSUME NEW h, NEW obs \in Struct
    PROVE  /\ Seen(h, obs) = [field \in Fields |-> Seen(h, obs)[field]]
           /\ Seen(h, obs).id = obs.id /\ Seen(h, obs).fingerprint = obs.fingerprint
           /\ Seen(h, obs).ingestedAt = obs.ingestedAt
           /\ \A f \in References :
                 Seen(h, obs)[f] = IF obs[f] = Nil THEN Nil ELSE h[obs[f]]
<1>1. DOMAIN obs = Fields
  BY DEF Struct, Fields
<1>2. /\ "id" \in Fields /\ "fingerprint" \in Fields /\ "ingestedAt" \in Fields
      /\ "id" \notin References /\ "fingerprint" \notin References
      /\ "ingestedAt" \notin References /\ References \subseteq Fields
  BY DEF Fields, References
<1>3. Seen(h, obs) = [field \in Fields |->
          IF field \in References /\ obs[field] # Nil THEN h[obs[field]] ELSE obs[field]]
  BY <1>1, Zenon DEF Seen
<1>4. \A field \in Fields : Seen(h, obs)[field] =
          IF field \in References /\ obs[field] # Nil THEN h[obs[field]] ELSE obs[field]
  BY <1>3
<1>5. Seen(h, obs) = [field \in Fields |-> Seen(h, obs)[field]]
  BY <1>3
<1> HIDE DEF Fields
<1> QED
  BY <1>2, <1>4, <1>5

\* Observations of one id, fingerprint and time whose references hold the same
\* are the same observation to those who see them.
LEMMA SeenAlike ==
    ASSUME NEW h, NEW o \in Struct, NEW g, NEW p \in Struct,
           o.id = p.id, o.fingerprint = p.fingerprint, o.ingestedAt = p.ingestedAt,
           \A f \in References : (o[f] = Nil <=> p[f] = Nil) /\ (o[f] # Nil => h[o[f]] = g[p[f]])
    PROVE  Seen(h, o) = Seen(g, p)
<1>1. \A f \in Fields \ References : Seen(h, o)[f] = Seen(g, p)[f]
  BY SeenIs DEF Fields, References
<1>2. \A f \in References : Seen(h, o)[f] = Seen(g, p)[f]
  BY SeenIs
<1>3. \A f \in Fields : Seen(h, o)[f] = Seen(g, p)[f]
  BY <1>1, <1>2
<1>4. /\ Seen(h, o) = [f \in Fields |-> Seen(h, o)[f]]
      /\ Seen(g, p) = [f \in Fields |-> Seen(g, p)[f]]
  BY SeenIs
<1> QED
  BY <1>3, <1>4, Zenon

\* An observation none of whose cells changes looks the same.
LEMMA SeenStays ==
    ASSUME NEW h, NEW g, NEW obs \in Struct, \A a \in Cells(obs) : h[a] = g[a]
    PROVE  Seen(h, obs) = Seen(g, obs)
<1>1. \A f \in References : obs[f] # Nil => h[obs[f]] = g[obs[f]]
  BY DEF Cells
<1> QED
  BY <1>1, SeenAlike

\* A step writes to cells of these holders only, of those reachable before and after.
Unwritten(holders) ==
    \A a \in Reachable : a \in Reachable' /\ a[1] \notin holders => heap'[a] = heap[a]

LEMMA Kept ==
    ASSUME NEW obs \in Struct, NEW holder, Owns(holder, obs), NEW holders,
           Unwritten(holders), holder \notin holders,
           Cells(obs) \subseteq Reachable, Cells(obs) \subseteq Reachable'
    PROVE  Seen(heap', obs) = Seen(heap, obs)
<1>1. \A a \in Cells(obs) : heap'[a] = heap[a]
  BY CellsBearNames DEF Unwritten
<1> QED
  BY <1>1, SeenStays

\* A clone looks like its original.
LEMMA CloneLooksAlike ==
    ASSUME NEW obs \in Struct, NEW clone, NEW holder, Copies(clone, obs, holder),
           FilledFrom(clone, obs), Cells(clone) \subseteq Reachable'
    PROVE  Seen(heap', clone) = Seen(heap, obs)
<1>1. \A f \in References :
          (clone[f] = Nil <=> obs[f] = Nil) /\ (clone[f] # Nil => heap'[clone[f]] = heap[obs[f]])
  BY DEF Copies, FilledFrom, Cells
<1> QED
  BY <1>1, SeenAlike DEF Copies
\* What is not written is seen as it was: in the store,
LEMMA StoredStays ==
    ASSUME HeldInv, NEW holders, Unwritten(holders),
           NEW id \in DOMAIN byID, id \in DOMAIN byID', byID'[id] = byID[id],
           <<"store", id, 1>> \notin holders
    PROVE  Seen(heap', byID'[id]) = Seen(heap, byID[id])
<1>1. PICK obs : obs = byID[id]
  OBVIOUS
<1>2. obs \in Struct /\ Owns(<<"store", id, 1>>, obs)
  BY <1>1 DEF HeldInv
<1>3. Cells(obs) \subseteq Reachable /\ Cells(obs) \subseteq Reachable'
  BY <1>1, ReachableIs DEF Through
<1> QED
  BY <1>1, <1>2, <1>3, Kept

\* among what a client has originated,
LEMMA BuiltStays ==
    ASSUME HeldInv, NEW holders, Unwritten(holders), NEW c \in Clients,
           NEW k \in DOMAIN built[c], k \in DOMAIN built'[c], built'[c][k] = built[c][k],
           <<"built", c, k>> \notin holders
    PROVE  Seen(heap', built'[c][k]) = Seen(heap, built[c][k])
<1>1. PICK obs : obs = built[c][k]
  OBVIOUS
<1>2. obs \in Struct /\ Owns(<<"built", c, k>>, obs)
  BY <1>1, ElementOfSeq DEF HeldInv
<1>3. Cells(obs) \subseteq Reachable /\ Cells(obs) \subseteq Reachable'
  BY <1>1, ReachableIs DEF Through
<1> QED
  BY <1>1, <1>2, <1>3, Kept

\* and among its last results.
LEMMA GotStays ==
    ASSUME HeldInv, NEW holders, Unwritten(holders), NEW c \in Clients,
           NEW k \in DOMAIN got[c], k \in DOMAIN got'[c], got'[c][k] = got[c][k],
           <<"got", c, k>> \notin holders
    PROVE  Seen(heap', got'[c][k]) = Seen(heap, got[c][k])
<1>1. PICK obs : obs = got[c][k]
  OBVIOUS
<1>2. obs \in Struct /\ Owns(<<"got", c, k>>, obs)
  BY <1>1, ElementOfSeq DEF HeldInv
<1>3. Cells(obs) \subseteq Reachable /\ Cells(obs) \subseteq Reachable'
  BY <1>1, ReachableIs DEF Through
<1> QED
  BY <1>1, <1>2, <1>3, Kept

LEMMA SameStored ==
    ASSUME HeldInv, UNCHANGED byID, NEW holders, Unwritten(holders),
           \A id : <<"store", id, 1>> \notin holders
    PROVE  storedBar' = storedBar
<1>1. \A id \in DOMAIN byID : Seen(heap', byID'[id]) = Seen(heap, byID[id])
  BY StoredStays
<1> QED
  BY <1>1, BarsAre

LEMMA SameBuilt ==
    ASSUME HeldInv, NEW holders, Unwritten(holders), NEW c \in Clients,
           built'[c] = built[c], \A k : <<"built", c, k>> \notin holders
    PROVE  SeenAll(heap', built'[c]) = SeenAll(heap, built[c])
<1>1. \A k \in DOMAIN built[c] : Seen(heap', built'[c][k]) = Seen(heap, built[c][k])
  BY BuiltStays
<1> QED
  BY <1>1 DEF SeenAll

LEMMA SameGot ==
    ASSUME HeldInv, NEW holders, Unwritten(holders), NEW c \in Clients,
           got'[c] = got[c], \A k : <<"got", c, k>> \notin holders
    PROVE  SeenAll(heap', got'[c]) = SeenAll(heap, got[c])
<1>1. \A k \in DOMAIN got[c] : Seen(heap', got'[c][k]) = Seen(heap, got[c][k])
  BY GotStays
<1> QED
  BY <1>1 DEF SeenAll
-----------------------------------------------------------------------------
(* Every step of the store is a step of the repository. *)

LEMMA InsertRefines ==
    ASSUME MemoryInv, NEW c \in Clients, InsertNew(c)
    PROVE  Abstract!Insert(c)
<1>1. PICK k \in DOMAIN built[c] : \E clone : Inserted(c, k, clone)
  BY InsertIs
<1>2. PICK clone : Inserted(c, k, clone)
  BY <1>1
<1>3. PICK obs, holder : obs = built[c][k] /\ holder = <<"store", clone.id, 1>>
  OBVIOUS
<1>4. obs \in Struct /\ HeldInv
  BY <1>3, ElementOfSeq DEF MemoryInv, HeldInv
<1>5. clone.id = obs.id /\ clone.id \notin DOMAIN byID /\ clone \in Struct
  BY <1>2, <1>3 DEF Inserted, Copies
<1>6. /\ Copies(clone, obs, holder) /\ UNCHANGED <<built, asked, got>>
      /\ byID' = [id \in DOMAIN byID \cup {clone.id} |->
                     IF id = clone.id THEN clone ELSE byID[id]]
      /\ FilledFrom(clone, obs) /\ Unwritten({holder})
  BY <1>2, <1>3, <1>5 DEF Inserted, Copies, Untouched, Unwritten
<1>7. /\ DOMAIN byID' = DOMAIN byID \cup {clone.id} /\ byID'[clone.id] = clone
      /\ \A id \in DOMAIN byID : byID'[id] = byID[id]
  BY <1>5, <1>6
<1>8. builtBar' = builtBar
  <2>1. \A d \in Clients : SeenAll(heap', built'[d]) = SeenAll(heap, built[d])
    BY <1>3, <1>4, <1>6, SameBuilt
  <2> QED
    BY <2>1, BarsAre
<1>9. gotBar' = gotBar
  <2>1. \A d \in Clients : SeenAll(heap', got'[d]) = SeenAll(heap, got[d])
    BY <1>3, <1>4, <1>6, SameGot
  <2> QED
    BY <2>1, BarsAre
<1>10. k \in DOMAIN builtBar[c] /\ builtBar[c][k] = Seen(heap, obs)
  BY <1>3, BarsAre DEF SeenAll
<1>11. Seen(heap', clone) = Seen(heap, obs)
  <2>1. Cells(clone) \subseteq Reachable'
    BY <1>7, ReachableIs DEF Through
  <2> QED
    BY <1>4, <1>6, <2>1, CloneLooksAlike
<1>12. storedBar' = storedBar \cup {builtBar[c][k]}
  <2>1. ASSUME NEW id \in DOMAIN byID
        PROVE  Seen(heap', byID'[id]) = Seen(heap, byID[id])
    <3>1. id \in DOMAIN byID' /\ byID'[id] = byID[id] /\ <<"store", id, 1>> \notin {holder}
      BY <1>3, <1>5, <1>7
    <3> QED
      BY <1>4, <1>6, <3>1, StoredStays
  <2>2. storedBar = {Seen(heap, byID[id]) : id \in DOMAIN byID}
        /\ storedBar' = {Seen(heap', byID'[id]) : id \in DOMAIN byID'}
    BY BarsAre
  <2> QED
    BY <1>7, <1>10, <1>11, <2>1, <2>2
<1>13. \A o \in storedBar : o.id # builtBar[c][k].id
  <2>1. \A id \in DOMAIN byID : Seen(heap, byID[id]).id = id
    <3>1. \A id \in DOMAIN byID : byID[id] \in Struct /\ byID[id].id = id
      BY <1>4 DEF HeldInv
    <3> QED
      BY <3>1, SeenIs
  <2>2. builtBar[c][k].id = clone.id
    BY <1>4, <1>5, <1>10, SeenIs
  <2> QED
    BY <1>5, <2>1, <2>2, BarsAre
<1> QED
  BY <1>6, <1>8, <1>9, <1>10, <1>12, <1>13, Zenon
     DEF Abstract!Insert, builtBar, gotBar, storedBar
\* What was appended to is seen with one more observation.
LEMMA SeenAppend ==
    ASSUME NEW h, NEW g, NEW s \in Seq(Struct), NEW obs \in Struct,
           \A k \in DOMAIN s : Seen(h, s[k]) = Seen(g, s[k])
    PROVE  SeenAll(h, Append(s, obs)) = Append(SeenAll(g, s), Seen(h, obs))
<1> DEFINE X == {Seen(g, s[k]) : k \in DOMAIN s} \cup {Seen(h, obs)}
           seen == SeenAll(g, s)
           t == SeenAll(h, Append(s, obs))
           n == Len(s)
<1>1. n \in Nat /\ DOMAIN s = 1..n
  BY LenProperties
<1>2. /\ Append(s, obs) \in Seq(Struct) /\ DOMAIN Append(s, obs) = 1..(n + 1)
      /\ \A k \in 1..n : Append(s, obs)[k] = s[k]
      /\ Append(s, obs)[n + 1] = obs
  BY <1>1, AppendProperties
<1> HIDE DEF n
<1>3. seen = [k \in 1..n |-> Seen(g, s[k])] /\ seen \in [1..n -> X]
  BY <1>1 DEF SeenAll
<1>4. seen \in Seq(X) /\ Len(seen) = n
  <2> HIDE DEF seen, X
  <2> QED
    BY <1>1, <1>3, SeqDef, LenProperties
<1>5. t = [k \in 1..(n + 1) |-> Seen(h, Append(s, obs)[k])]
  BY <1>2 DEF SeenAll
<1>6. Seen(h, obs) \in X
  OBVIOUS
<1> HIDE DEF X, seen, t
<1>7. /\ Append(seen, Seen(h, obs)) \in Seq(X) /\ Len(Append(seen, Seen(h, obs))) = n + 1
      /\ \A k \in 1..n : Append(seen, Seen(h, obs))[k] = seen[k]
      /\ Append(seen, Seen(h, obs))[n + 1] = Seen(h, obs)
  BY <1>4, <1>6, AppendProperties
<1>8. Append(seen, Seen(h, obs)) = [k \in 1..(n + 1) |-> Append(seen, Seen(h, obs))[k]]
  <2>1. PICK w : w = Append(seen, Seen(h, obs))
    OBVIOUS
  <2>2. w \in [1..(n + 1) -> X]
    BY <1>7, <2>1, LenProperties
  <2>3. w = [k \in 1..(n + 1) |-> w[k]]
    BY <2>2
  <2> QED
    BY <2>1, <2>3
<1>9. \A k \in 1..(n + 1) : Append(seen, Seen(h, obs))[k] = Seen(h, Append(s, obs)[k])
  <2> TAKE k \in 1..(n + 1)
  <2>1. k \in 1..n \/ k = n + 1
    BY <1>1
  <2>2. CASE k \in 1..n
    BY <1>1, <1>2, <1>3, <1>7, <2>2
  <2>3. CASE k = n + 1
    BY <1>2, <1>7, <2>3
  <2> QED
    BY <2>1, <2>2, <2>3
<1> QED
  BY <1>5, <1>8, <1>9 DEF seen, t

LEMMA OriginateRefines ==
    ASSUME MemoryInv, NEW c \in Clients, Originate(c)
    PROVE  Abstract!Originate(c)
<1>1. PICK obs : Originated(c, obs)
  BY OriginateIs
<1>2. PICK own : own = built[c]
  OBVIOUS
<1>3. /\ HeldInv /\ own \in Seq(Struct) /\ obs \in Struct
      /\ built' = [built EXCEPT ![c] = Append(own, obs)]
      /\ UNCHANGED <<byID, asked, got>>
      /\ \A d \in Clients : \A k \in DOMAIN built[d] : built[d][k].id # obs.id
  BY <1>1, <1>2 DEF Originated, MemoryInv, HeldInv
<1>4. built'[c] = Append(own, obs) /\ \A d \in Clients : d # c => built'[d] = built[d]
  BY <1>3 DEF HeldInv
<1>5. /\ DOMAIN own = 1..Len(own) /\ Len(own) \in Nat
      /\ DOMAIN Append(own, obs) = 1..(Len(own) + 1)
      /\ \A k \in 1..Len(own) : Append(own, obs)[k] = own[k]
      /\ Append(own, obs)[Len(own) + 1] = obs
  BY <1>3, AppendProperties, LenProperties
<1>6. Unwritten({})
  BY <1>1 DEF Unwritten, Originated, MemoryInv, HeapInv
<1>7. storedBar' = storedBar
  BY <1>3, <1>6, SameStored
<1>8. gotBar' = gotBar
  <2>1. \A d \in Clients : SeenAll(heap', got'[d]) = SeenAll(heap, got[d])
    BY <1>3, <1>6, SameGot
  <2> QED
    BY <2>1, BarsAre
<1> DEFINE new == Seen(heap', obs)
<1>9. SeenAll(heap', built'[c]) = Append(SeenAll(heap, own), new)
  <2>1. ASSUME NEW k \in DOMAIN own PROVE Seen(heap', own[k]) = Seen(heap, own[k])
    <3>1. /\ k \in DOMAIN built[c] /\ k \in DOMAIN built'[c]
          /\ built'[c][k] = own[k] /\ built[c][k] = own[k]
          /\ built'[c][k] = built[c][k]
      BY <1>2, <1>4, <1>5
    <3>2. PICK holders : Unwritten(holders) /\ <<"built", c, k>> \notin holders
      BY <1>6
    <3>3. Seen(heap', built'[c][k]) = Seen(heap, built[c][k])
      BY <1>3, <3>1, <3>2, BuiltStays
    <3> QED
      BY <3>1, <3>3
  <2>2. SeenAll(heap', Append(own, obs)) = Append(SeenAll(heap, own), Seen(heap', obs))
    BY <1>3, <2>1, SeenAppend, Zenon
  <2> QED
    BY <1>4, <2>2
<1>10. \A d \in Clients : d # c => SeenAll(heap', built'[d]) = SeenAll(heap, built[d])
  BY <1>3, <1>4, <1>6, SameBuilt
<1>11. builtBar' = [builtBar EXCEPT ![c] = Append(@, new)]
  <2>1. /\ builtBar = [d \in Clients |-> SeenAll(heap, built[d])]
        /\ builtBar' = [d \in Clients |-> SeenAll(heap', built'[d])]
    BY BarsAre
  <2> HIDE DEF new
  <2> QED
    BY <1>2, <1>9, <1>10, <2>1
<1>12. \A d \in Clients : \A k \in DOMAIN builtBar[d] : builtBar[d][k].id # obs.id
  <2> SUFFICES ASSUME NEW d \in Clients, NEW k \in DOMAIN builtBar[d]
               PROVE  builtBar[d][k].id # obs.id
    OBVIOUS
  <2>1. k \in DOMAIN built[d] /\ builtBar[d][k] = Seen(heap, built[d][k])
    BY BarsAre DEF SeenAll
  <2>2. built[d][k] \in Struct
    BY <1>3, <2>1, ElementOfSeq DEF HeldInv
  <2> QED
    BY <1>3, <2>1, <2>2, SeenIs
<1>13. \A f \in References : obs[f] # Nil => heap'[obs[f]] \in Contents
  <2>1. \A a \in Cells(obs) : a \in Reachable'
    BY <1>4, <1>5, ReachableIs DEF Through
  <2>2. HeapInv'
    BY OriginateInv DEF MemoryInv
  <2> QED
    BY <2>1, <2>2 DEF Cells, HeapInv
<1>14. /\ obs.id \in Ids /\ obs.fingerprint \in Fingerprints /\ obs.ingestedAt \in Instants
       /\ obs.components # Nil /\ obs.payload # Nil
  BY <1>3, NilIsNoCell DEF Struct
<1>15. /\ new.components \in Contents /\ new.payload \in Contents
       /\ new.observedAt \in Contents \cup {Nil}
  BY <1>3, <1>13, <1>14, SeenIs DEF References
<1>16. new = [id |-> obs.id, fingerprint |-> obs.fingerprint, ingestedAt |-> obs.ingestedAt,
              components |-> new.components, payload |-> new.payload,
              observedAt |-> new.observedAt]
  <2>1. /\ new = [field \in Fields |-> new[field]] /\ new.id = obs.id
        /\ new.fingerprint = obs.fingerprint /\ new.ingestedAt = obs.ingestedAt
    BY <1>3, SeenIs
  <2> HIDE DEF new
  <2> QED
    BY <2>1 DEF Fields
<1> HIDE DEF new
<1>17. \E id \in Ids, fp \in Fingerprints, t \in Instants,
          components, payload \in Contents, observedAt \in Contents \cup {Nil} :
          /\ \A d \in Clients : \A k \in DOMAIN builtBar[d] : builtBar[d][k].id # id
          /\ builtBar' = [builtBar EXCEPT ![c] = Append(@,
                [id |-> id, fingerprint |-> fp, ingestedAt |-> t,
                 components |-> components, payload |-> payload,
                 observedAt |-> observedAt])]
  <2>1. builtBar' = [builtBar EXCEPT ![c] = Append(@,
             [id |-> obs.id, fingerprint |-> obs.fingerprint,
              ingestedAt |-> obs.ingestedAt, components |-> new.components,
              payload |-> new.payload, observedAt |-> new.observedAt])]
    BY <1>11, <1>16
  <2> QED
    BY <1>12, <1>14, <1>15, <2>1, Zenon
<1> QED
  BY <1>3, <1>7, <1>8, <1>17, Zenon DEF Abstract!Originate, builtBar, gotBar, storedBar
\* A call that answers with these values and leaves all others.
Gives(c, call, result) ==
    /\ asked' = [asked EXCEPT ![c] = call]
    /\ storedBar' = storedBar /\ builtBar' = builtBar
    /\ gotBar' = [gotBar EXCEPT ![c] = result]

LEMMA ReturnGives ==
    ASSUME MemoryInv, NEW c \in Clients, NEW call, NEW n \in Nat,
           NEW originals \in [1..n -> All], Return(c, call, originals)
    PROVE  Gives(c, call, SeenAll(heap, originals))
<1>1. PICK clones : Returned(c, call, originals, clones)
  BY ReturnIs
<1>2. PICK holders : holders = {<<"got", c, k>> : k \in DOMAIN clones}
  OBVIOUS
<1>3. /\ HeldInv /\ Unwritten(holders) /\ UNCHANGED <<byID, built>>
      /\ got' = [got EXCEPT ![c] = clones] /\ asked' = [asked EXCEPT ![c] = call]
      /\ DOMAIN clones = 1..n /\ DOMAIN originals = 1..n
  BY <1>1, <1>2 DEF Returned, Untouched, Unwritten, MemoryInv
<1>4. got'[c] = clones /\ \A d \in Clients : d # c => got'[d] = got[d]
  BY <1>3 DEF HeldInv
<1>5. storedBar' = storedBar
  <2>1. \A id : <<"store", id, 1>> \notin holders
    BY <1>2
  <2> QED
    BY <1>3, <2>1, SameStored
<1>6. builtBar' = builtBar
  <2>1. \A d, k : <<"built", d, k>> \notin holders
    BY <1>2
  <2>2. \A d \in Clients : SeenAll(heap', built'[d]) = SeenAll(heap, built[d])
    BY <1>3, <2>1, SameBuilt
  <2> QED
    BY <2>2, BarsAre
<1>7. ASSUME NEW d \in Clients, d # c
      PROVE  SeenAll(heap', got'[d]) = SeenAll(heap, got[d])
  <2>1. \A k : <<"got", d, k>> \notin holders
    BY <1>2, <1>7
  <2>2. got'[d] = got[d]
    BY <1>4, <1>7
  <2> QED
    BY <1>3, <2>1, <2>2, SameGot
<1>8. ASSUME NEW k \in 1..n
      PROVE  Seen(heap', clones[k]) = Seen(heap, originals[k])
  <2>1. PICK original, clone : original = originals[k] /\ clone = clones[k]
    OBVIOUS
  <2>2. Copies(clone, original, <<"got", c, k>>) /\ FilledFrom(clone, original)
    BY <1>1, <1>3, <2>1 DEF Returned
  <2>3. original \in Struct
    BY <1>3, <2>1 DEF All, HeldInv
  <2>4. Cells(clone) \subseteq Reachable'
    BY <1>3, <1>4, <2>1, ReachableIs DEF Through
  <2>5. Seen(heap', clone) = Seen(heap, original)
    BY <2>2, <2>3, <2>4, CloneLooksAlike
  <2> QED
    BY <2>1, <2>5
<1>9. SeenAll(heap', got'[c]) = SeenAll(heap, originals)
  BY <1>3, <1>4, <1>8 DEF SeenAll
<1>10. gotBar' = [gotBar EXCEPT ![c] = SeenAll(heap, originals)]
  <2>1. /\ gotBar = [d \in Clients |-> SeenAll(heap, got[d])]
        /\ gotBar' = [d \in Clients |-> SeenAll(heap', got'[d])]
    BY BarsAre
  <2> QED
    BY <1>7, <1>9, <2>1
<1> QED
  BY <1>3, <1>5, <1>6, <1>10 DEF Gives

\* The observations of ids, as the store holds them and as clients see them.
Structs(ids) == {byID[id] : id \in ids}
Views(ids) == {Seen(heap, byID[id]) : id \in ids}

\* The ways a listing of structs and one of views can be ordered are the same.
LEMMA ListingIsSeen ==
    ASSUME MemoryInv, NEW ids, ids \subseteq DOMAIN byID,
           NEW s \in [1..Cardinality(Structs(ids)) -> Structs(ids)]
    PROVE  /\ Cardinality(Structs(ids)) \in Nat
           /\ Structs(ids) \subseteq All
           /\ SeenAll(heap, s) \in [1..Cardinality(Views(ids)) -> Views(ids)]
           /\ DOMAIN SeenAll(heap, s) = DOMAIN s
           /\ \A k \in DOMAIN s : SeenAll(heap, s)[k].ingestedAt = s[k].ingestedAt
           /\ \A i, j \in DOMAIN s : s[i] # s[j] => SeenAll(heap, s)[i] # SeenAll(heap, s)[j]
<1> DEFINE S == Structs(ids)
           T == Views(ids)
<1>1. PICK of : of = [id \in ids |-> byID[id]]
  OBVIOUS
<1>2. PICK look : look = [o \in S |-> Seen(heap, o)]
  OBVIOUS
<1>3. \A id \in ids : byID[id] \in Struct /\ byID[id].id = id
  BY DEF MemoryInv, HeldInv
<1>4. IsFiniteSet(S) /\ Cardinality(S) \in Nat
  <2>1. of \in Surjection(ids, S)
    BY <1>1 DEF Surjection, Structs
  <2>2. IsFiniteSet(ids)
    BY FS_Subset DEF MemoryInv, HeldInv
  <2> HIDE DEF S
  <2> QED
    BY <2>1, <2>2, FS_Surjection, FS_CardinalityType
<1>5. \A o \in S : o \in Struct /\ o = byID[o.id]
  BY <1>3 DEF Structs
<1>6. \A o \in S : look[o].id = o.id /\ look[o].ingestedAt = o.ingestedAt
  BY <1>2, <1>5, SeenIs
<1>7. \A o, p \in S : look[o] = look[p] => o = p
  <2> HIDE DEF S
  <2> QED
    BY <1>5, <1>6
<1>8. look \in Bijection(S, T)
  <2>1. \A o \in S : look[o] \in T
    BY <1>2 DEF Structs, Views
  <2>2. \A v \in T : \E o \in S : look[o] = v
    BY <1>2 DEF Structs, Views
  <2>3. DOMAIN look = S /\ look = [o \in S |-> look[o]]
    BY <1>2
  <2> HIDE DEF S, T
  <2> QED
    BY <1>7, <2>1, <2>2, <2>3 DEF Bijection, Injection, Surjection, IsInjective
<1>9. Cardinality(T) = Cardinality(S)
  <2> HIDE DEF S, T
  <2> QED
    BY <1>4, <1>8, FS_Bijection DEF ExistsBijection
<1>10. \A k \in DOMAIN s : s[k] \in S
  OBVIOUS
<1>11. DOMAIN SeenAll(heap, s) = DOMAIN s
       /\ \A k \in DOMAIN s : SeenAll(heap, s)[k] = look[s[k]]
  BY <1>2, <1>10 DEF SeenAll
<1>12. SeenAll(heap, s) \in [1..Cardinality(T) -> T]
  <2>1. \A k \in DOMAIN s : look[s[k]] \in T
    BY <1>2, <1>10 DEF Structs, Views
  <2>2. SeenAll(heap, s) = [k \in 1..Cardinality(S) |-> look[s[k]]]
    BY <1>11 DEF SeenAll
  <2> QED
    BY <1>9, <2>1, <2>2
<1>13. S \subseteq All
  BY DEF Structs, All
<1> HIDE DEF S, T
<1>14. /\ \A k \in DOMAIN s : SeenAll(heap, s)[k].ingestedAt = s[k].ingestedAt
       /\ \A i, j \in DOMAIN s : s[i] # s[j] => SeenAll(heap, s)[i] # SeenAll(heap, s)[j]
  BY <1>6, <1>7, <1>10, <1>11
<1> QED
  BY <1>4, <1>11, <1>12, <1>13, <1>14 DEF S, T
LEMMA GetRefines ==
    ASSUME MemoryInv, NEW c \in Clients, Get(c)
    PROVE  Abstract!Get(c)
<1>1. PICK id \in Ids :
          Return(c, <<"get", id>>, IF id \in DOMAIN byID THEN <<byID[id]>> ELSE <<>>)
  BY DEF Get
<1>2. PICK call : call = <<"get", id>>
  OBVIOUS
<1>3. storedBar = {Seen(heap, byID[i]) : i \in DOMAIN byID}
  BY BarsAre
<1>4. \A i \in DOMAIN byID : Seen(heap, byID[i]).id = i
  <2>1. \A i \in DOMAIN byID : byID[i] \in Struct /\ byID[i].id = i
    BY DEF MemoryInv, HeldInv
  <2> QED
    BY <2>1, SeenIs
<1>5. \/ \E o \in storedBar : o.id = id /\ Gives(c, call, <<o>>)
      \/ (\A o \in storedBar : o.id # id) /\ Gives(c, call, <<>>)
  <2>1. CASE id \in DOMAIN byID
    <3>1. PICK originals : originals = <<byID[id]>>
      OBVIOUS
    <3>2. originals \in [1..1 -> All] /\ Return(c, call, originals)
      BY <1>1, <1>2, <2>1, <3>1 DEF All
    <3>3. Gives(c, call, SeenAll(heap, originals))
      BY <3>2, ReturnGives
    <3>4. SeenAll(heap, originals) = <<Seen(heap, byID[id])>>
      BY <3>1 DEF SeenAll
    <3> QED
      BY <1>3, <1>4, <2>1, <3>3, <3>4
  <2>2. CASE id \notin DOMAIN byID
    <3>1. PICK originals : originals = <<>>
      OBVIOUS
    <3>2. originals \in [1..0 -> All] /\ Return(c, call, originals)
      BY <1>1, <1>2, <2>2, <3>1
    <3>3. Gives(c, call, SeenAll(heap, originals))
      BY <3>2, ReturnGives
    <3>4. SeenAll(heap, originals) = <<>>
      BY <3>1 DEF SeenAll
    <3> QED
      BY <1>3, <1>4, <2>2, <3>3, <3>4
  <2> QED
    BY <2>1, <2>2
<1>6. \/ \E o \in storedBar : o.id = id /\ Gives(c, <<"get", id>>, <<o>>)
      \/ (\A o \in storedBar : o.id # id) /\ Gives(c, <<"get", id>>, <<>>)
  BY <1>2, <1>5
<1> QED
  BY <1>6, Zenon DEF Abstract!Get, Abstract!Ask, Abstract!Receive, Gives,
     builtBar, gotBar, storedBar

\* Contract's copy of the library's definition.
LEMMA SameCardinality ==
    ASSUME NEW S
    PROVE  Abstract!Cardinality(S) = Cardinality(S)
BY DEF Abstract!Cardinality, Cardinality

LEMMA ListByFingerprintRefines ==
    ASSUME MemoryInv, NEW c \in Clients, ListByFingerprint(c)
    PROVE  Abstract!ListByFingerprint(c)
<1>1. PICK fp \in Fingerprints : \E s \in [1..Cardinality(Matching(fp)) -> Matching(fp)] :
          /\ \A i, j \in DOMAIN s : i < j => s[i] # s[j] /\ ~(s[j].ingestedAt < s[i].ingestedAt)
          /\ Return(c, <<"fingerprint", fp>>, s)
  BY DEF ListByFingerprint, Sorted, Before
<1>2. PICK s \in [1..Cardinality(Matching(fp)) -> Matching(fp)] :
          /\ \A i, j \in DOMAIN s : i < j => s[i] # s[j] /\ ~(s[j].ingestedAt < s[i].ingestedAt)
          /\ Return(c, <<"fingerprint", fp>>, s)
  BY <1>1
<1>3. PICK ids : ids = {i \in DOMAIN byID : byID[i].fingerprint = fp}
  OBVIOUS
<1>4. Matching(fp) = Structs(ids) /\ ids \subseteq DOMAIN byID
  BY <1>3 DEF Matching, Structs
<1>5. PICK t : t = SeenAll(heap, s)
  OBVIOUS
<1>6. /\ Cardinality(Matching(fp)) \in Nat /\ Matching(fp) \subseteq All
      /\ t \in [1..Cardinality(Views(ids)) -> Views(ids)] /\ DOMAIN t = DOMAIN s
      /\ \A k \in DOMAIN s : t[k].ingestedAt = s[k].ingestedAt
      /\ \A i, j \in DOMAIN s : s[i] # s[j] => t[i] # t[j]
  BY <1>4, <1>5, ListingIsSeen
<1>7. Gives(c, <<"fingerprint", fp>>, t)
  <2>1. s \in [1..Cardinality(Matching(fp)) -> All]
    BY <1>6
  <2> QED
    BY <1>2, <1>5, <1>6, <2>1, ReturnGives
<1>8. Views(ids) = {o \in storedBar : o.fingerprint = fp}
  <2>1. \A i \in DOMAIN byID : byID[i] \in Struct
    BY DEF MemoryInv, HeldInv
  <2>2. \A i \in DOMAIN byID : Seen(heap, byID[i]).fingerprint = byID[i].fingerprint
    BY <2>1, SeenIs
  <2>3. storedBar = {Seen(heap, byID[i]) : i \in DOMAIN byID}
    BY BarsAre
  <2> QED
    BY <1>3, <2>2, <2>3 DEF Views
<1>9. \E result \in {r \in [1..Cardinality({o \in storedBar : o.fingerprint = fp}) ->
                            {o \in storedBar : o.fingerprint = fp}] :
                       \A i, j \in DOMAIN r :
                          i < j => r[i] # r[j] /\ ~(r[j].ingestedAt < r[i].ingestedAt)} :
          Gives(c, <<"fingerprint", fp>>, result)
  <2>1. \A i, j \in DOMAIN t : i < j => t[i] # t[j] /\ ~(t[j].ingestedAt < t[i].ingestedAt)
    BY <1>2, <1>6
  <2>2. t \in [1..Cardinality({o \in storedBar : o.fingerprint = fp}) ->
                 {o \in storedBar : o.fingerprint = fp}]
    BY <1>6, <1>8
  <2> QED
    BY <1>7, <2>1, <2>2, Zenon
<1>10. \E phi \in Fingerprints :
          /\ asked' = [asked EXCEPT ![c] = <<"fingerprint", phi>>]
          /\ UNCHANGED <<storedBar, builtBar>>
          /\ \E result \in {r \in [1..Cardinality({o \in storedBar : o.fingerprint = phi}) ->
                                   {o \in storedBar : o.fingerprint = phi}] :
                            \A i, j \in DOMAIN r :
                               i < j => r[i] # r[j] /\ ~(r[j].ingestedAt < r[i].ingestedAt)} :
                gotBar' = [gotBar EXCEPT ![c] = result]
  BY <1>9, Zenon DEF Gives
<1> QED
  BY <1>10, SameCardinality, Zenon DEF Abstract!ListByFingerprint, Abstract!Ask, Abstract!Receive,
     Abstract!Orderings, Abstract!Older, builtBar, gotBar, storedBar

LEMMA ListRefines ==
    ASSUME MemoryInv, NEW c \in Clients, List(c)
    PROVE  Abstract!List(c)
<1>1. PICK limit \in Limits : \E s \in [1..Cardinality(All) -> All] :
          /\ \A i, j \in DOMAIN s : i < j => s[i] # s[j] /\ ~(s[j].ingestedAt > s[i].ingestedAt)
          /\ Return(c, <<"list", limit>>, Cut(s, limit))
  BY DEF List, Sorted, After
<1>2. PICK s \in [1..Cardinality(All) -> All] :
          /\ \A i, j \in DOMAIN s : i < j => s[i] # s[j] /\ ~(s[j].ingestedAt > s[i].ingestedAt)
          /\ Return(c, <<"list", limit>>, Cut(s, limit))
  BY <1>1
<1>3. PICK ids : ids = DOMAIN byID
  OBVIOUS
<1>4. All = Structs(ids) /\ ids \subseteq DOMAIN byID
  BY <1>3 DEF All, Structs
<1>5. PICK t : t = SeenAll(heap, s)
  OBVIOUS
<1>6. /\ Cardinality(All) \in Nat
      /\ t \in [1..Cardinality(Views(ids)) -> Views(ids)] /\ DOMAIN t = DOMAIN s
      /\ \A k \in DOMAIN s : t[k].ingestedAt = s[k].ingestedAt
      /\ \A i, j \in DOMAIN s : s[i] # s[j] => t[i] # t[j]
  BY <1>4, <1>5, ListingIsSeen
<1>7. PICK n : n = Cardinality(All)
  OBVIOUS
<1>8. /\ n \in Nat /\ s \in [1..n -> All] /\ DOMAIN t = 1..n
      /\ s \in Seq(All) /\ Len(s) = n
  BY <1>2, <1>6, <1>7, SeqDef
<1>9. limit \in Int
  BY LimitsAssumption
<1>10. t \in Seq(Views(ids)) /\ Len(t) = n /\ t = [k \in 1..n |-> Seen(heap, s[k])]
  <2>1. t = [k \in 1..n |-> Seen(heap, s[k])]
    BY <1>5, <1>8 DEF SeenAll
  <2>2. t \in [1..n -> Views(ids)]
    BY <1>6, <1>8, <2>1
  <2>3. t \in Seq(Views(ids))
    BY <1>8, <2>2, SeqDef
  <2> QED
    BY <1>8, <2>1, <2>3, LenProperties
<1>11. PICK m : m = IF 0 <= limit /\ limit < n THEN limit ELSE n
  OBVIOUS
<1>12. m \in Nat /\ m <= n
  BY <1>8, <1>9, <1>11
<1>13. PICK page : page = Cut(s, limit)
  OBVIOUS
<1>14. page = [k \in 1..m |-> s[k]]
  <2>1. CASE limit >= 0 /\ n > limit
    BY <1>8, <1>9, <1>11, <1>13, <2>1 DEF Cut
  <2>2. CASE ~(limit >= 0 /\ n > limit)
    BY <1>8, <1>9, <1>11, <1>13, <2>2 DEF Cut
  <2> QED
    BY <2>1, <2>2
<1>15. page \in [1..m -> All]
  <2>1. \A k \in 1..m : k \in 1..n
    BY <1>8, <1>12
  <2>2. \A k \in 1..m : s[k] \in All
    BY <1>8, <2>1
  <2> QED
    BY <1>14, <2>2
<1>16. Gives(c, <<"list", limit>>, SeenAll(heap, page))
  BY <1>2, <1>12, <1>13, <1>15, ReturnGives
<1>17. SeenAll(heap, page) = SubSeq(t, 1, m)
  <2>1. SeenAll(heap, page) = [k \in 1..m |-> Seen(heap, s[k])]
    BY <1>14, <1>15 DEF SeenAll
  <2>2. \A k \in 1..m : t[k] = Seen(heap, s[k])
    BY <1>8, <1>10, <1>12
  <2>3. SubSeq(t, 1, m) = [k \in 1..m |-> t[k]]
    BY <1>8, <1>10, <1>12
  <2> QED
    BY <2>1, <2>2, <2>3
<1>18. Views(ids) = storedBar
  BY <1>3, BarsAre DEF Views
<1>19. t \in {r \in [1..Cardinality(storedBar) -> storedBar] :
                 \A i, j \in DOMAIN r :
                    i < j => r[i] # r[j] /\ ~(r[j].ingestedAt > r[i].ingestedAt)}
  <2>1. t \in [1..Cardinality(storedBar) -> storedBar]
    BY <1>6, <1>18
  <2>2. \A i, j \in DOMAIN t : i < j => t[i] # t[j] /\ ~(t[j].ingestedAt > t[i].ingestedAt)
    BY <1>2, <1>6
  <2> QED
    BY <2>1, <2>2, Zenon
<1>20. SubSeq(t, 1, m) = SubSeq(t, 1, IF 0 <= limit /\ limit < Len(t) THEN limit ELSE Len(t))
  BY <1>10, <1>11
<1>21. \E p \in {SubSeq(r, 1, IF 0 <= limit /\ limit < Len(r) THEN limit ELSE Len(r)) :
                   r \in {r \in [1..Cardinality(storedBar) -> storedBar] :
                            \A i, j \in DOMAIN r :
                               i < j => r[i] # r[j] /\ ~(r[j].ingestedAt > r[i].ingestedAt)}} :
          Gives(c, <<"list", limit>>, p)
  BY <1>16, <1>17, <1>19, <1>20, Zenon
<1>22. \E most \in Limits :
          /\ asked' = [asked EXCEPT ![c] = <<"list", most>>]
          /\ UNCHANGED <<storedBar, builtBar>>
          /\ \E p \in {SubSeq(r, 1, IF 0 <= most /\ most < Len(r) THEN most ELSE Len(r)) :
                      r \in {r \in [1..Cardinality(storedBar) -> storedBar] :
                               \A i, j \in DOMAIN r :
                                  i < j => r[i] # r[j] /\ ~(r[j].ingestedAt > r[i].ingestedAt)}} :
                gotBar' = [gotBar EXCEPT ![c] = p]
  BY <1>21, Zenon DEF Gives
<1> QED
  BY <1>22, SameCardinality, Zenon DEF Abstract!List, Abstract!Ask, Abstract!Receive, Abstract!Pages,
     Abstract!UpTo, Abstract!Orderings, Abstract!Newer, builtBar, gotBar, storedBar
\* A write to one cell of an observation is a write to one field of its view.
LEMMA SeenEdit ==
    ASSUME NEW h, NEW g, NEW obs \in Struct, NEW holder, Owns(holder, obs),
           NEW f \in References, obs[f] # Nil, g[obs[f]] = "edited",
           \A a \in Cells(obs) : a # obs[f] => g[a] = h[a]
    PROVE  Seen(g, obs) = [Seen(h, obs) EXCEPT ![f] = "edited"]
<1>1. /\ Seen(g, obs) = [field \in Fields |-> Seen(g, obs)[field]]
      /\ Seen(h, obs) = [field \in Fields |-> Seen(h, obs)[field]]
  BY SeenIs
<1>2. Seen(g, obs)[f] = "edited"
  BY SeenIs
<1>3. \A e \in References : e # f => Seen(g, obs)[e] = Seen(h, obs)[e]
  <2>1. \A e \in References : e # f /\ obs[e] # Nil => obs[e] # obs[f]
    BY DEF Owns
  <2>2. \A e \in References : e # f /\ obs[e] # Nil => g[obs[e]] = h[obs[e]]
    BY <2>1 DEF Cells
  <2> QED
    BY <2>2, SeenIs
<1>4. \A e \in Fields : e \notin References => Seen(g, obs)[e] = Seen(h, obs)[e]
  BY SeenIs DEF Fields, References
<1>5. \A e \in Fields : e # f => Seen(g, obs)[e] = Seen(h, obs)[e]
  BY <1>3, <1>4
<1>6. f \in Fields
  BY DEF Fields, References
<1> QED
  BY <1>1, <1>2, <1>5, <1>6

LEMMA EditRefines ==
    ASSUME MemoryInv, NEW c \in Clients, Edit(c)
    PROVE  Abstract!Edit(c)
<1>1. PICK a \in CellsOf(built[c]) \cup CellsOf(got[c]) : heap' = [heap EXCEPT ![a] = "edited"]
  BY DEF Edit
<1>2. UNCHANGED <<byID, built, asked, got>> /\ HeldInv
  BY DEF Edit, MemoryInv
<1>3. PICK holders : holders = {a[1]}
  OBVIOUS
<1>4. Unwritten(holders)
  BY <1>1, <1>3 DEF Unwritten, MemoryInv, HeapInv
<1>5. a[1] \in {<<"built", c, k>> : k \in DOMAIN built[c]}
               \cup {<<"got", c, k>> : k \in DOMAIN got[c]}
  <2>1. ASSUME NEW k \in DOMAIN built[c], a \in Cells(built[c][k])
        PROVE  a[1] = <<"built", c, k>>
    BY <1>2, <2>1, NamesAreHolders
  <2>2. ASSUME NEW k \in DOMAIN got[c], a \in Cells(got[c][k])
        PROVE  a[1] = <<"got", c, k>>
    BY <1>2, <2>2, NamesAreHolders
  <2>3. \/ \E k \in DOMAIN built[c] : a \in Cells(built[c][k])
        \/ \E k \in DOMAIN got[c] : a \in Cells(got[c][k])
    BY <1>1 DEF CellsOf
  <2> QED
    BY <2>1, <2>2, <2>3
<1>6. storedBar' = storedBar
  <2>1. \A id : <<"store", id, 1>> \notin holders
    BY <1>3, <1>5
  <2> QED
    BY <1>2, <1>4, <2>1, SameStored
<1>7. /\ builtBar = [d \in Clients |-> SeenAll(heap, built[d])]
      /\ builtBar' = [d \in Clients |-> SeenAll(heap', built'[d])]
      /\ gotBar = [d \in Clients |-> SeenAll(heap, got[d])]
      /\ gotBar' = [d \in Clients |-> SeenAll(heap', got'[d])]
  BY BarsAre
<1>8. CASE a \in CellsOf(built[c])
  <2>1. PICK k \in DOMAIN built[c] : a \in Cells(built[c][k])
    BY <1>8 DEF CellsOf
  <2>2. PICK obs : obs = built[c][k]
    OBVIOUS
  <2>3. PICK f \in References : a = obs[f] /\ a # Nil
    BY <2>1, <2>2 DEF Cells
  <2>4. obs \in Struct /\ Owns(<<"built", c, k>>, obs) /\ a[1] = <<"built", c, k>>
    BY <1>2, <2>1, <2>2, ElementOfSeq, CellsBearNames DEF HeldInv
  <2>5. Cells(obs) \subseteq DOMAIN heap
    BY <2>2, ReachableIs DEF Through, MemoryInv, HeapInv
  <2>6. Seen(heap', obs) = [Seen(heap, obs) EXCEPT ![f] = "edited"]
    <3>1. a \in DOMAIN heap
      BY <2>3, <2>5 DEF Cells
    <3>2. /\ heap'[obs[f]] = "edited" /\ obs[f] # Nil
          /\ \A b \in Cells(obs) : b # obs[f] => heap'[b] = heap[b]
      BY <1>1, <2>3, <2>5, <3>1
    <3> QED
      BY <2>4, <3>2, SeenEdit
  <2>7. ASSUME NEW j \in DOMAIN built[c], j # k
        PROVE  Seen(heap', built[c][j]) = Seen(heap, built[c][j])
    <3>1. <<"built", c, j>> \notin holders
      BY <1>3, <2>4, <2>7
    <3>2. j \in DOMAIN built'[c] /\ built'[c][j] = built[c][j]
      BY <1>2
    <3>3. Seen(heap', built'[c][j]) = Seen(heap, built[c][j])
      BY <1>2, <1>4, <3>1, <3>2, BuiltStays
    <3> QED
      BY <3>2, <3>3
  <2>8. ASSUME NEW d \in Clients, d # c
        PROVE  SeenAll(heap', built'[d]) = SeenAll(heap, built[d])
    <3>1. \A j : <<"built", d, j>> \notin holders
      BY <1>3, <2>4, <2>8
    <3>2. built'[d] = built[d]
      BY <1>2
    <3> QED
      BY <1>2, <1>4, <3>1, <3>2, SameBuilt
  <2>9. SeenAll(heap', built'[c]) =
            [SeenAll(heap, built[c]) EXCEPT ![k] = [Seen(heap, obs) EXCEPT ![f] = "edited"]]
    BY <1>2, <2>2, <2>6, <2>7 DEF SeenAll
  <2>10. k \in DOMAIN builtBar[c] /\ builtBar[c][k] = Seen(heap, obs)
    BY <1>7, <2>2 DEF SeenAll
  <2>11. builtBar' = [builtBar EXCEPT ![c] =
             [SeenAll(heap, built[c]) EXCEPT ![k] = [Seen(heap, obs) EXCEPT ![f] = "edited"]]]
    BY <1>7, <2>8, <2>9
  <2>12. builtBar' = [builtBar EXCEPT ![c][k][f] = "edited"]
    <3>1. builtBar[c] = SeenAll(heap, built[c])
      BY <1>7
    <3> QED
      BY <2>10, <2>11, <3>1
  <2>13. gotBar' = gotBar
    <3>1. \A d, j : <<"got", d, j>> \notin holders
      BY <1>3, <2>4
    <3>2. \A d \in Clients : SeenAll(heap', got'[d]) = SeenAll(heap, got[d])
      BY <1>2, <1>4, <3>1, SameGot
    <3> QED
      BY <1>7, <3>2
  <2>14. builtBar[c][k][f] # Nil
    <3>1. a \in DOMAIN heap /\ heap[a] \in Contents
      BY <2>3, <2>5 DEF Cells, MemoryInv, HeapInv
    <3> QED
      BY <2>3, <2>4, <2>10, <3>1, SeenIs, NilIsNoCell
  <2>15. "edited" \in Contents
    BY DEF Contents
  <2> QED
    BY <1>2, <1>6, <2>10, <2>12, <2>13, <2>14, <2>15, Zenon
       DEF Abstract!Edit, Abstract!References, References, builtBar, gotBar, storedBar
<1>9. CASE a \in CellsOf(got[c])
  <2>1. PICK k \in DOMAIN got[c] : a \in Cells(got[c][k])
    BY <1>9 DEF CellsOf
  <2>2. PICK obs : obs = got[c][k]
    OBVIOUS
  <2>3. PICK f \in References : a = obs[f] /\ a # Nil
    BY <2>1, <2>2 DEF Cells
  <2>4. obs \in Struct /\ Owns(<<"got", c, k>>, obs) /\ a[1] = <<"got", c, k>>
    BY <1>2, <2>1, <2>2, ElementOfSeq, CellsBearNames DEF HeldInv
  <2>5. Cells(obs) \subseteq DOMAIN heap
    BY <2>2, ReachableIs DEF Through, MemoryInv, HeapInv
  <2>6. Seen(heap', obs) = [Seen(heap, obs) EXCEPT ![f] = "edited"]
    <3>1. a \in DOMAIN heap
      BY <2>3, <2>5 DEF Cells
    <3>2. /\ heap'[obs[f]] = "edited" /\ obs[f] # Nil
          /\ \A b \in Cells(obs) : b # obs[f] => heap'[b] = heap[b]
      BY <1>1, <2>3, <2>5, <3>1
    <3> QED
      BY <2>4, <3>2, SeenEdit
  <2>7. ASSUME NEW j \in DOMAIN got[c], j # k
        PROVE  Seen(heap', got[c][j]) = Seen(heap, got[c][j])
    <3>1. <<"got", c, j>> \notin holders
      BY <1>3, <2>4, <2>7
    <3>2. j \in DOMAIN got'[c] /\ got'[c][j] = got[c][j]
      BY <1>2
    <3>3. Seen(heap', got'[c][j]) = Seen(heap, got[c][j])
      BY <1>2, <1>4, <3>1, <3>2, GotStays
    <3> QED
      BY <3>2, <3>3
  <2>8. ASSUME NEW d \in Clients, d # c
        PROVE  SeenAll(heap', got'[d]) = SeenAll(heap, got[d])
    <3>1. \A j : <<"got", d, j>> \notin holders
      BY <1>3, <2>4, <2>8
    <3>2. got'[d] = got[d]
      BY <1>2
    <3> QED
      BY <1>2, <1>4, <3>1, <3>2, SameGot
  <2>9. SeenAll(heap', got'[c]) =
            [SeenAll(heap, got[c]) EXCEPT ![k] = [Seen(heap, obs) EXCEPT ![f] = "edited"]]
    BY <1>2, <2>2, <2>6, <2>7 DEF SeenAll
  <2>10. k \in DOMAIN gotBar[c] /\ gotBar[c][k] = Seen(heap, obs)
    BY <1>7, <2>2 DEF SeenAll
  <2>11. gotBar' = [gotBar EXCEPT ![c] =
             [SeenAll(heap, got[c]) EXCEPT ![k] = [Seen(heap, obs) EXCEPT ![f] = "edited"]]]
    BY <1>7, <2>8, <2>9
  <2>12. gotBar' = [gotBar EXCEPT ![c][k][f] = "edited"]
    <3>1. gotBar[c] = SeenAll(heap, got[c])
      BY <1>7
    <3> QED
      BY <2>10, <2>11, <3>1
  <2>13. builtBar' = builtBar
    <3>1. \A d, j : <<"built", d, j>> \notin holders
      BY <1>3, <2>4
    <3>2. \A d \in Clients : SeenAll(heap', built'[d]) = SeenAll(heap, built[d])
      BY <1>2, <1>4, <3>1, SameBuilt
    <3> QED
      BY <1>7, <3>2
  <2>14. gotBar[c][k][f] # Nil
    <3>1. a \in DOMAIN heap /\ heap[a] \in Contents
      BY <2>3, <2>5 DEF Cells, MemoryInv, HeapInv
    <3> QED
      BY <2>3, <2>4, <2>10, <3>1, SeenIs, NilIsNoCell
  <2>15. "edited" \in Contents
    BY DEF Contents
  <2> QED
    BY <1>2, <1>6, <2>10, <2>12, <2>13, <2>14, <2>15, Zenon
       DEF Abstract!Edit, Abstract!References, References, builtBar, gotBar, storedBar
<1> QED
  BY <1>1, <1>8, <1>9

LEMMA InitRefines == Init => Abstract!Init
<1> SUFFICES ASSUME Init PROVE Abstract!Init
  OBVIOUS
<1>1. storedBar = {}
  BY DEF Init, storedBar
<1>2. \A c \in Clients : Values(built[c]) = <<>> /\ Values(got[c]) = <<>>
  BY DEF Init, Values
<1>3. builtBar = [c \in Clients |-> <<>>] /\ gotBar = [c \in Clients |-> <<>>]
  BY <1>2 DEF builtBar, gotBar
<1>4. asked = [c \in Clients |-> <<>>]
  BY DEF Init
<1> QED
  BY <1>1, <1>3, <1>4, Zenon DEF Abstract!Init, storedBar, builtBar, gotBar

\* The in-memory store does what storage.ObservationRepository and the shared
\* suite promise of a repository, whatever its clients write to what they hold.
THEOREM StoreIsRepository == Spec => IsRepository
<1>1. Init => Abstract!Init
  BY InitRefines
<1>2. MemoryInv /\ [Next]_vars => [Abstract!Next]_(Abstract!contractVars)
  <2> SUFFICES ASSUME MemoryInv, [Next]_vars
               PROVE  Abstract!Next \/ UNCHANGED Abstract!contractVars
    OBVIOUS
  <2>1. ASSUME NEW c \in Clients, Call(c) \/ InsertNew(c) PROVE Abstract!Next
    <3>1. CASE Originate(c)
      BY <3>1, OriginateRefines, Zenon DEF Abstract!Next
    <3>2. CASE InsertNew(c)
      BY <3>2, InsertRefines, Zenon DEF Abstract!Next
    <3>3. CASE Get(c)
      BY <3>3, GetRefines, Zenon DEF Abstract!Next
    <3>4. CASE ListByFingerprint(c)
      BY <3>4, ListByFingerprintRefines, Zenon DEF Abstract!Next
    <3>5. CASE List(c)
      BY <3>5, ListRefines, Zenon DEF Abstract!Next
    <3>6. CASE Edit(c)
      BY <3>6, EditRefines, Zenon DEF Abstract!Next
    <3> QED
      BY <2>1, <3>1, <3>2, <3>3, <3>4, <3>5, <3>6, Zenon DEF Call
  <2>2. CASE UNCHANGED vars
    BY <2>2 DEF vars, Abstract!contractVars, Values, Value
  <2> QED
    BY <2>1, <2>2, Zenon DEF Next
<1> QED
  BY <1>1, <1>2, MemoryAlways, PTL DEF Spec, IsRepository, Abstract!Spec
=============================================================================
