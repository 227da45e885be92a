-------------------------- MODULE FingerprintProofs --------------------------
(***************************************************************************)
(* A fingerprint depends on the tool, the rule and the components alone,   *)
(* for every map, whatever order its keys come in; and it tells them       *)
(* apart, because the text that is hashed can be read back.                *)
(***************************************************************************)
EXTENDS Fingerprint, SelectionProofs, SequenceTheorems

Strings == Seq(Bytes)

KeysOf(keys) == {keys[i] : i \in DOMAIN keys}

\* The text that a call about this input hashes.
Text(input) ==
    Write(input.tool, input.ruleID, input.components,
          Ascending(DOMAIN input.components))

\* While it collects, a call has every key in its slice or still to come;
\* once sorted, the slice is the ascending sequence of the map's keys.
CallOK(c) ==
    /\ c.input \in Inputs
    /\ c = [pc |-> c.pc, input |-> c.input, left |-> c.left,
            keys |-> c.keys, value |-> c.value]
    /\ c.pc \in {"collect", "sorted", "done"}
    /\ c.pc = "collect" =>
          /\ c.keys \in Seq(Strings)
          /\ KeysOf(c.keys) \cup c.left = DOMAIN c.input.components
    /\ c.pc = "sorted" => c.keys = Ascending(DOMAIN c.input.components)
    /\ c.pc = "done" => c.value = Text(c.input)

CallInv == CallOK(call)

ReturnedInv ==
    returned # <<>> => /\ returned[1].input \in Inputs
                       /\ returned[1].value = Text(returned[1].input)

\* A call begins with an empty slice and every key to come.
LEMMA BeginOK ==
    ASSUME NEW input \in Inputs
    PROVE  CallOK(Begin(input))
<1>1. KeysOf(<<>>) = {}
  BY DEF KeysOf
<1> QED
  BY <1>1 DEF Begin, CallOK

\* Appending a key adds it to the keys of the slice.
LEMMA AppendKey ==
    ASSUME NEW keys \in Seq(Strings), NEW key \in Strings
    PROVE  /\ Append(keys, key) \in Seq(Strings)
           /\ KeysOf(Append(keys, key)) = KeysOf(keys) \cup {key}
<1>1. /\ DOMAIN Append(keys, key) = 1..(Len(keys) + 1)
      /\ \A i \in 1..Len(keys) : Append(keys, key)[i] = keys[i]
      /\ Append(keys, key)[Len(keys) + 1] = key
      /\ DOMAIN keys = 1..Len(keys) /\ Len(keys) \in Nat
  OBVIOUS
<1>2. 1..(Len(keys) + 1) = 1..Len(keys) \cup {Len(keys) + 1}
  BY <1>1
<1> QED
  BY <1>1, <1>2 DEF KeysOf

LEMMA CollectKeyInv ==
    ASSUME CallInv, CollectKey
    PROVE  CallInv'
<1>1. PICK key \in call.left :
         call' = [call EXCEPT !.left = @ \ {key}, !.keys = Append(@, key)]
  BY DEF CollectKey
<1>2. call.pc = "collect"
  BY DEF CollectKey
<1>3. call' = [pc |-> call.pc, input |-> call.input, left |-> call.left \ {key},
               keys |-> Append(call.keys, key), value |-> call.value]
  BY <1>1 DEF CallInv, CallOK
<1>4. key \in Strings
  BY <1>2, MapsAssumption DEF CallInv, CallOK, Inputs, Strings
<1>5. /\ Append(call.keys, key) \in Seq(Strings)
      /\ KeysOf(Append(call.keys, key)) = KeysOf(call.keys) \cup {key}
  BY <1>2, <1>4, AppendKey DEF CallInv, CallOK
<1> QED
  BY <1>2, <1>3, <1>5 DEF CallInv, CallOK

LEMMA SortKeysInv ==
    ASSUME CallInv, SortKeys
    PROVE  CallInv'
<1>1. call.pc = "collect" /\ call.left = {}
  BY DEF SortKeys
<1>2. call' = [pc |-> "sorted", input |-> call.input, left |-> call.left,
               keys |-> SortStrings(call.keys), value |-> call.value]
  BY DEF SortKeys, CallInv, CallOK
<1>3. KeysOf(call.keys) = DOMAIN call.input.components
  BY <1>1 DEF CallInv, CallOK
<1>4. SortStrings(call.keys) = Ascending(DOMAIN call.input.components)
  BY <1>3 DEF SortStrings, KeysOf
<1> QED
  BY <1>2, <1>4 DEF CallInv, CallOK

LEMMA HashInv ==
    ASSUME CallInv, Hash
    PROVE  CallInv'
<1> DEFINE text == Write(call.input.tool, call.input.ruleID,
                         call.input.components, call.keys)
<1>1. call' = [pc |-> "done", input |-> call.input, left |-> call.left,
               keys |-> call.keys, value |-> text]
  BY DEF Hash, CallInv, CallOK
<1>2. text = Text(call.input)
  BY DEF Hash, CallInv, CallOK, Text
<1> QED
  BY <1>1, <1>2 DEF CallInv, CallOK

LEMMA FingerprintInv == Spec => [](CallInv /\ ReturnedInv)
<1>1. Init => CallInv /\ ReturnedInv
  BY BeginOK DEF Init, CallInv, ReturnedInv
<1>2. CallInv /\ ReturnedInv /\ [Next]_vars => (CallInv /\ ReturnedInv)'
  <2> SUFFICES ASSUME CallInv, ReturnedInv, [Next]_vars
               PROVE  CallInv' /\ ReturnedInv'
    OBVIOUS
  <2>1. CASE CollectKey
    BY <2>1, CollectKeyInv DEF CollectKey, ReturnedInv
  <2>2. CASE SortKeys
    BY <2>2, SortKeysInv DEF SortKeys, ReturnedInv
  <2>3. CASE Hash
    BY <2>3, HashInv DEF Hash, ReturnedInv
  <2>4. CASE CallAgain
    <3>1. CallInv'
      BY <2>4, BeginOK DEF CallAgain, CallInv
    <3>2. ReturnedInv'
      BY <2>4 DEF CallAgain, ReturnedInv, CallInv, CallOK
    <3> QED
      BY <3>1, <3>2
  <2>5. CASE UNCHANGED vars
    BY <2>5 DEF vars, CallInv, CallOK, ReturnedInv
  <2> QED
    BY <2>1, <2>2, <2>3, <2>4, <2>5 DEF Next
<1> QED
  BY <1>1, <1>2, PTL DEF Spec

\* Two calls about the same tool, rule and components return the same value,
\* for all strings and maps, all tool versions, and every order in which the
\* maps yield their keys.
THEOREM FingerprintIsIdentity == Spec => []SameIdentitySameValue
<1>1. CallInv /\ ReturnedInv => SameIdentitySameValue
  <2> SUFFICES ASSUME CallInv, ReturnedInv, BothReturned,
                      Identity(call.input) = Identity(returned[1].input)
               PROVE  call.value = returned[1].value
    BY DEF SameIdentitySameValue
  <2>1. /\ call.input.tool = returned[1].input.tool
        /\ call.input.ruleID = returned[1].input.ruleID
        /\ call.input.components = returned[1].input.components
    BY DEF Identity
  <2> QED
    BY <2>1 DEF CallInv, CallOK, ReturnedInv, BothReturned, Text
<1> QED
  BY <1>1, FingerprintInv, PTL
-----------------------------------------------------------------------------
(* Texts that hold a NUL. *)

\* A string without the separator.
Plain(s) == s \in Strings /\ \A i \in DOMAIN s : s[i] # NUL

\* Two strings with a NUL between them.
Joined(a, x) == a \o <<NUL>> \o x

LEMMA JoinProperties ==
    ASSUME NEW a \in Strings, NEW x \in Strings
    PROVE  LET t == Joined(a, x)
           IN  /\ t \in Strings /\ Len(t) = Len(a) + 1 + Len(x)
               /\ \A i \in 1..Len(a) : t[i] = a[i]
               /\ t[Len(a) + 1] = NUL
               /\ \A i \in 1..Len(x) : t[Len(a) + 1 + i] = x[i]
<1> DEFINE b == a \o <<NUL>>
           t == b \o x
<1>1. <<NUL>> \in Seq(Bytes) /\ Len(<<NUL>>) = 1 /\ <<NUL>>[1] = NUL
  BY BytesAssumption
<1>2. Len(a) \in Nat /\ Len(x) \in Nat
  BY DEF Strings
<1>3. /\ b \in Seq(Bytes) /\ Len(b) = Len(a) + 1
      /\ \A i \in 1..(Len(a) + 1) : b[i] = IF i <= Len(a) THEN a[i] ELSE <<NUL>>[i - Len(a)]
  BY <1>1, ConcatProperties DEF Strings
<1> HIDE DEF b
<1>4. /\ t \in Seq(Bytes) /\ Len(t) = Len(a) + 1 + Len(x)
      /\ \A i \in 1..(Len(a) + 1 + Len(x)) :
            t[i] = IF i <= Len(a) + 1 THEN b[i] ELSE x[i - (Len(a) + 1)]
  <2>1. /\ t \in Seq(Bytes) /\ Len(t) = Len(b) + Len(x)
        /\ \A i \in 1..(Len(b) + Len(x)) : t[i] = IF i <= Len(b) THEN b[i] ELSE x[i - Len(b)]
    <3>1. b \in Seq(Bytes) /\ x \in Seq(Bytes)
      BY <1>3 DEF Strings
    <3> QED
      BY <3>1, ConcatProperties, Zenon
  <2> HIDE DEF t
  <2> QED
    BY <1>3, <2>1
<1> HIDE DEF t
<1>5. ASSUME NEW i \in 1..Len(a) PROVE t[i] = a[i]
  <2>1. i \in 1..(Len(a) + 1 + Len(x)) /\ i \in 1..(Len(a) + 1) /\ i <= Len(a) + 1 /\ i <= Len(a)
    BY <1>2
  <2> QED
    BY <1>3, <1>4, <2>1
<1>6. t[Len(a) + 1] = NUL
  <2> DEFINE l == Len(a) + 1
  <2>1. l \in 1..(Len(a) + 1 + Len(x)) /\ l <= Len(a) + 1 /\ ~(l <= Len(a)) /\ l - Len(a) = 1
        /\ l \in 1..(Len(a) + 1)
    BY <1>2
  <2> HIDE DEF l
  <2>2. t[l] = NUL
    BY <1>1, <1>3, <1>4, <2>1
  <2> QED
    BY <2>2 DEF l
<1>7. ASSUME NEW i \in 1..Len(x) PROVE t[Len(a) + 1 + i] = x[i]
  <2> DEFINE l == Len(a) + 1 + i
  <2>1. l \in 1..(Len(a) + 1 + Len(x)) /\ ~(l <= Len(a) + 1) /\ l - (Len(a) + 1) = i
    BY <1>2
  <2> HIDE DEF l
  <2>2. t[l] = x[i]
    BY <1>4, <2>1
  <2> QED
    BY <2>2 DEF l
<1> QED
  BY <1>4, <1>5, <1>6, <1>7 DEF t, b, Joined, Strings

\* The last NUL of a text is where it is: what comes after it is read back, and
\* what comes before it.
LEMMA LastSplit ==
    ASSUME NEW a \in Strings, NEW b \in Strings, NEW x, Plain(x), NEW y, Plain(y),
           Joined(a, x) = Joined(b, y)
    PROVE  a = b /\ x = y
<1>1. x \in Strings /\ y \in Strings
  BY DEF Plain
<1>2. /\ Len(a) \in Nat /\ Len(b) \in Nat /\ Len(x) \in Nat /\ Len(y) \in Nat
      /\ DOMAIN x = 1..Len(x) /\ DOMAIN y = 1..Len(y)
      /\ a = [i \in 1..Len(a) |-> a[i]] /\ b = [i \in 1..Len(b) |-> b[i]]
      /\ x = [i \in 1..Len(x) |-> x[i]] /\ y = [i \in 1..Len(y) |-> y[i]]
  BY <1>1 DEF Strings
<1> DEFINE t == Joined(a, x)
<1>3. /\ Len(t) = Len(a) + 1 + Len(x) /\ t[Len(a) + 1] = NUL
      /\ \A i \in 1..Len(a) : t[i] = a[i]
      /\ \A i \in 1..Len(x) : t[Len(a) + 1 + i] = x[i]
  BY <1>1, JoinProperties
<1>0. t = Joined(b, y)
  OBVIOUS
<1> HIDE DEF t
<1>4. /\ Len(t) = Len(b) + 1 + Len(y) /\ t[Len(b) + 1] = NUL
      /\ \A i \in 1..Len(b) : t[i] = b[i]
      /\ \A i \in 1..Len(y) : t[Len(b) + 1 + i] = y[i]
  BY <1>0, <1>1, JoinProperties
<1>5. ~(Len(a) < Len(b))
  <2> SUFFICES ASSUME Len(a) < Len(b) PROVE FALSE
    OBVIOUS
  <2>1. Len(b) - Len(a) \in 1..Len(x) /\ Len(a) + 1 + (Len(b) - Len(a)) = Len(b) + 1
    BY <1>2, <1>3, <1>4
  <2>2. x[Len(b) - Len(a)] = NUL
    BY <1>3, <1>4, <2>1
  <2> QED
    BY <1>2, <2>1, <2>2 DEF Plain
<1>6. ~(Len(b) < Len(a))
  <2> SUFFICES ASSUME Len(b) < Len(a) PROVE FALSE
    OBVIOUS
  <2>1. Len(a) - Len(b) \in 1..Len(y) /\ Len(b) + 1 + (Len(a) - Len(b)) = Len(a) + 1
    BY <1>2, <1>3, <1>4
  <2>2. y[Len(a) - Len(b)] = NUL
    BY <1>3, <1>4, <2>1
  <2> QED
    BY <1>2, <2>1, <2>2 DEF Plain
<1>7. Len(a) = Len(b) /\ Len(x) = Len(y)
  <2>1. Len(a) + 1 + Len(x) = Len(b) + 1 + Len(y)
    BY <1>3, <1>4
  <2>2. Len(a) \in Nat /\ Len(b) \in Nat /\ Len(x) \in Nat /\ Len(y) \in Nat
    BY <1>2
  <2>3. Len(a) = Len(b)
    BY <1>5, <1>6, <2>2
  <2> QED
    BY <2>1, <2>2, <2>3
<1>8. \A i \in 1..Len(a) : a[i] = b[i]
  BY <1>3, <1>4, <1>7
<1>9. \A i \in 1..Len(x) : x[i] = y[i]
  BY <1>3, <1>4, <1>7
<1> QED
  BY <1>2, <1>7, <1>8, <1>9

\* A text with a NUL is not plain.
LEMMA JoinedIsNotPlain ==
    ASSUME NEW a \in Strings, NEW x \in Strings
    PROVE  ~Plain(Joined(a, x))
<1> DEFINE t == Joined(a, x)
<1>1. t \in Strings /\ Len(t) = Len(a) + 1 + Len(x) /\ t[Len(a) + 1] = NUL
  BY JoinProperties
<1> HIDE DEF t
<1>2. Len(a) + 1 \in DOMAIN t
  <2>1. Len(a) \in Nat /\ Len(x) \in Nat /\ DOMAIN t = 1..Len(t)
    BY <1>1 DEF Strings
  <2> QED
    BY <1>1, <2>1
<1> QED
  BY <1>1, <1>2 DEF Plain, t
-----------------------------------------------------------------------------
(* The bytes that are hashed. *)

\* f[i] is the first i of seqs, one after the other.
Flattens(f, seqs, n) ==
    f = [i \in 1..n |-> IF i = 1 THEN seqs[i] ELSE f[i - 1] \o seqs[i]]

\* The function FlattenSeq defines recursively exists.
LEMMA FlattenExists ==
    ASSUME NEW seqs, NEW n \in Nat
    PROVE  \E f : Flattens(f, seqs, n)
<1> DEFINE Bad == {m \in Nat : ~\E f : Flattens(f, seqs, m)}
<1> SUFFICES ASSUME Bad # {} PROVE FALSE
  OBVIOUS
<1>1. PICK m \in Bad : \A k \in Bad : m <= k
  <2>1. Bad \in SUBSET Nat
    OBVIOUS
  <2> HIDE DEF Bad
  <2> QED
    BY <2>1, LeastOf
<1>2. m # 0
  <2> SUFFICES ASSUME m = 0 PROVE FALSE
    OBVIOUS
  <2> DEFINE g == [i \in 1..0 |-> <<>>]
  <2>1. Flattens(g, seqs, 0)
    BY DEF Flattens
  <2> HIDE DEF g
  <2> QED
    BY <2>1
<1>3. PICK f : Flattens(f, seqs, m - 1)
  <2>1. m - 1 \in Nat /\ ~(m <= m - 1)
    BY <1>2
  <2> QED
    BY <1>1, <2>1
<1> DEFINE g == [i \in 1..m |-> IF i < m THEN f[i]
                                ELSE IF i = 1 THEN seqs[i] ELSE f[i - 1] \o seqs[i]]
<1>4. ASSUME NEW i \in 1..m
      PROVE  g[i] = IF i = 1 THEN seqs[i] ELSE g[i - 1] \o seqs[i]
  <2>1. i # 1 => i - 1 \in 1..m /\ i - 1 < m
    OBVIOUS
  <2>2. i # 1 => g[i - 1] = f[i - 1]
    BY <2>1
  <2>3. CASE i < m
    <3>1. i \in 1..(m - 1)
      BY <2>3
    <3>2. f[i] = IF i = 1 THEN seqs[i] ELSE f[i - 1] \o seqs[i]
      BY <1>3, <3>1, Zenon DEF Flattens
    <3>3. g[i] = f[i]
      BY <2>3
    <3> HIDE DEF g
    <3> QED
      BY <2>2, <3>2, <3>3
  <2>4. CASE ~(i < m)
    <3>1. g[i] = IF i = 1 THEN seqs[i] ELSE f[i - 1] \o seqs[i]
      BY <2>4
    <3> HIDE DEF g
    <3> QED
      BY <2>2, <3>1
  <2> QED
    BY <2>3, <2>4
<1>5. g = [i \in 1..m |-> g[i]]
  OBVIOUS
<1> HIDE DEF g
<1>6. Flattens(g, seqs, m)
  BY <1>4, <1>5, Zenon DEF Flattens
<1> QED
  BY <1>6

LEMMA FlattenIs ==
    ASSUME NEW seqs, Len(seqs) \in Nat \ {0}
    PROVE  \E f : Flattens(f, seqs, Len(seqs)) /\ FlattenSeq(seqs) = f[Len(seqs)]
<1> DEFINE flatten == CHOOSE f : Flattens(f, seqs, Len(seqs))
<1>1. Flattens(flatten, seqs, Len(seqs))
  BY FlattenExists
<1>2. FlattenSeq(seqs) = flatten[Len(seqs)]
  BY Zenon DEF FlattenSeq, Flattens
<1> QED
  BY <1>1, <1>2
\* An input none of whose strings has the separator.
PlainInput(input) ==
    LET components == input.components
    IN  /\ Plain(input.tool) /\ Plain(input.ruleID)
        /\ IsFiniteSet(DOMAIN components)
        /\ \A key \in DOMAIN components : Plain(key) /\ Plain(components[key])

\* g[i] is the text up to the value of the i-th key.
Spells(g, input, keys, n) ==
    /\ \A i \in 0..n : g[i] \in Strings
    /\ g[0] = Joined(input.tool, input.ruleID)
    /\ \A i \in 1..n :
          g[i] = Joined(Joined(g[i - 1], keys[i]), input.components[keys[i]])

LEMMA Associative ==
    ASSUME NEW a \in Strings, NEW b \in Strings, NEW c \in Strings
    PROVE  a \o (b \o c) = a \o b \o c
<1> DEFINE ab == a \o b
           bc == b \o c
           left == a \o bc
           right == ab \o c
<1>1. Len(a) \in Nat /\ Len(b) \in Nat /\ Len(c) \in Nat
  BY DEF Strings
<1>2. /\ ab \in Seq(Bytes) /\ Len(ab) = Len(a) + Len(b)
      /\ \A i \in 1..(Len(a) + Len(b)) : ab[i] = IF i <= Len(a) THEN a[i] ELSE b[i - Len(a)]
  BY ConcatProperties DEF Strings
<1>3. /\ bc \in Seq(Bytes) /\ Len(bc) = Len(b) + Len(c)
      /\ \A i \in 1..(Len(b) + Len(c)) : bc[i] = IF i <= Len(b) THEN b[i] ELSE c[i - Len(b)]
  BY ConcatProperties DEF Strings
<1> HIDE DEF ab, bc
<1>0. /\ a \in Seq(Bytes) /\ c \in Seq(Bytes)
      /\ ab \in Seq(Bytes) /\ bc \in Seq(Bytes)
  BY <1>2, <1>3 DEF Strings
<1>4. /\ left \in Seq(Bytes) /\ Len(left) = Len(a) + Len(bc)
      /\ \A i \in 1..(Len(a) + Len(bc)) : left[i] = IF i <= Len(a) THEN a[i] ELSE bc[i - Len(a)]
  BY <1>0, ConcatProperties
<1>5. /\ right \in Seq(Bytes) /\ Len(right) = Len(ab) + Len(c)
      /\ \A i \in 1..(Len(ab) + Len(c)) : right[i] = IF i <= Len(ab) THEN ab[i] ELSE c[i - Len(ab)]
  BY <1>0, ConcatProperties
<1> HIDE DEF left, right
<1>6. Len(left) = Len(right)
  BY <1>1, <1>2, <1>3, <1>4, <1>5
<1>7. ASSUME NEW i \in 1..Len(left) PROVE left[i] = right[i]
  <2>0. i \in 1..(Len(a) + Len(bc)) /\ i \in 1..(Len(ab) + Len(c))
    BY <1>4, <1>5, <1>6
  <2>1. CASE i <= Len(a)
    BY <1>1, <1>2, <1>4, <1>5, <2>0, <2>1
  <2>2. CASE ~(i <= Len(a)) /\ i <= Len(a) + Len(b)
    <3>1. i - Len(a) \in 1..(Len(b) + Len(c)) /\ i - Len(a) <= Len(b) /\ i \in 1..(Len(a) + Len(b))
      BY <1>1, <2>0, <2>2
    <3> QED
      BY <1>1, <1>2, <1>3, <1>4, <1>5, <2>0, <2>2, <3>1
  <2>3. CASE ~(i <= Len(a) + Len(b))
    <3>1. /\ ~(i <= Len(a)) /\ i - Len(a) \in 1..(Len(b) + Len(c)) /\ ~(i - Len(a) <= Len(b))
          /\ (i - Len(a)) - Len(b) = i - (Len(a) + Len(b))
      BY <1>1, <1>3, <2>0, <2>3
    <3>2. left[i] = c[(i - Len(a)) - Len(b)]
      BY <1>3, <1>4, <2>0, <3>1
    <3>3. right[i] = c[i - (Len(a) + Len(b))]
      BY <1>2, <1>5, <2>0, <2>3
    <3> QED
      BY <3>1, <3>2, <3>3
  <2> QED
    BY <2>1, <2>2, <2>3
<1>8. left = right
  BY <1>4, <1>5, <1>6, <1>7, SeqEqual
<1> QED
  BY <1>8 DEF left, right, ab, bc

LEMMA Regroup ==
    ASSUME NEW a \in Strings, NEW k \in Strings, NEW v \in Strings
    PROVE  /\ <<NUL>> \o k \o <<NUL>> \o v \in Strings
           /\ a \o (<<NUL>> \o k \o <<NUL>> \o v) = a \o <<NUL>> \o k \o <<NUL>> \o v
<1> DEFINE nul == <<NUL>>
           key == nul \o k
           front == key \o nul
<1>1. nul \in Strings
  BY BytesAssumption DEF Strings
<1> HIDE DEF nul
<1>2. key \in Strings
  BY <1>1, ConcatProperties DEF Strings
<1>3. a \o key = a \o nul \o k
  BY <1>1, Associative
<1> HIDE DEF key
<1>4. front \in Strings
  BY <1>1, <1>2, ConcatProperties DEF Strings
<1>5. a \o front = a \o key \o nul
  BY <1>1, <1>2, Associative
<1> HIDE DEF front
<1>6. front \o v \in Strings
  BY <1>4, ConcatProperties DEF Strings
<1>7. a \o (front \o v) = a \o front \o v
  BY <1>4, Associative
<1>8. a \o (front \o v) = a \o nul \o k \o nul \o v
  BY <1>3, <1>5, <1>7
<1> QED
  BY <1>6, <1>8 DEF nul, key, front

\* Every text is spelled pair by pair.
LEMMA TextSpelled ==
    ASSUME NEW input, PlainInput(input), NEW n \in Nat,
           NEW keys \in [1..n -> DOMAIN input.components]
    PROVE  \E g : /\ Spells(g, input, keys, n)
                  /\ Write(input.tool, input.ruleID, input.components, keys) = g[n]
<1> DEFINE c == input.components
           pair(i) == <<NUL>> \o keys[i] \o <<NUL>> \o c[keys[i]]
           seqs == [i \in DOMAIN keys |-> pair(i)]
           head == Joined(input.tool, input.ruleID)
<1>1. \A i \in 1..n : keys[i] \in Strings /\ c[keys[i]] \in Strings
  BY DEF PlainInput, Plain
<1>2. head \in Strings
  BY JoinProperties DEF PlainInput, Plain
<1>3. \A i \in 1..n : pair(i) \in Strings
  BY <1>1, <1>2, Regroup, Zenon
<1>4. /\ seqs \in Seq(Strings) /\ Len(seqs) = n
      /\ \A i \in 1..n : seqs[i] = pair(i)
  <2> HIDE DEF pair
  <2>1. seqs \in [1..n -> Strings] /\ \A i \in 1..n : seqs[i] = pair(i)
    BY <1>3
  <2> HIDE DEF seqs
  <2> QED
    BY <2>1, SeqDef, LenProperties
<1>5. Write(input.tool, input.ruleID, input.components, keys) = head \o FlattenSeq(seqs)
  BY Zenon DEF Write, Joined
<1> HIDE DEF head, seqs
<1>6. CASE n = 0
  <2> DEFINE g == [i \in 0..0 |-> head]
  <2>1. FlattenSeq(seqs) = <<>>
    BY <1>4, <1>6 DEF FlattenSeq
  <2>2. head \o <<>> = head
    BY <1>2, ConcatEmptySeq DEF Strings
  <2>3. g[0] = head /\ \A i \in 0..0 : g[i] = head
    OBVIOUS
  <2>4. Spells(g, input, keys, 0)
    <3> HIDE DEF g
    <3> QED
      BY <1>2, <2>3, \A i \in 1..0 : FALSE DEF Spells, head
  <2> HIDE DEF g
  <2> QED
    BY <1>5, <1>6, <2>1, <2>2, <2>3, <2>4
<1>7. CASE n # 0
  <2>1. PICK f : Flattens(f, seqs, n) /\ FlattenSeq(seqs) = f[n]
    BY <1>4, <1>7, FlattenIs
  <2>2. \A i \in 1..n : f[i] = IF i = 1 THEN seqs[i] ELSE f[i - 1] \o seqs[i]
    BY <2>1, Zenon DEF Flattens
  <2> HIDE DEF pair
  <2>3. \A i \in 1..n : f[i] \in Strings
    <3> DEFINE Bad == {i \in 1..n : f[i] \notin Strings}
    <3> SUFFICES ASSUME Bad # {} PROVE FALSE
      OBVIOUS
    <3>1. PICK i \in Bad : \A j \in Bad : i <= j
      <4>1. Bad \in SUBSET Nat
        OBVIOUS
      <4> HIDE DEF Bad
      <4> QED
        BY <4>1, LeastOf
    <3>2. seqs[i] \in Strings
      BY <1>3, <1>4
    <3>3. i # 1 => i - 1 \in 1..n /\ f[i - 1] \in Strings
      BY <3>1
    <3>4. i # 1 => f[i - 1] \o seqs[i] \in Strings
      BY <3>2, <3>3, ConcatProperties DEF Strings
    <3>5. i \in 1..n /\ f[i] \notin Strings
      OBVIOUS
    <3> HIDE DEF Bad
    <3> QED
      BY <2>2, <3>2, <3>4, <3>5
  <2> DEFINE g == [i \in 0..n |-> IF i = 0 THEN head ELSE head \o f[i]]
  <2>4. g[0] = head /\ \A i \in 1..n : g[i] = head \o f[i]
    OBVIOUS
  <2> HIDE DEF g
  <2>5. \A i \in 0..n : g[i] \in Strings
    <3>1. \A i \in 1..n : head \o f[i] \in Strings
      BY <1>2, <2>3, ConcatProperties DEF Strings
    <3>2. \A i \in 0..n : i = 0 \/ i \in 1..n
      OBVIOUS
    <3> QED
      BY <1>2, <2>4, <3>1, <3>2
  <2>6. ASSUME NEW i \in 1..n PROVE g[i] = g[i - 1] \o pair(i)
    <3>1. CASE i = 1
      <4>1. f[1] = seqs[1] /\ seqs[1] = pair(1) /\ g[1] = head \o f[1] /\ g[0] = head
        BY <1>4, <2>2, <2>4, <3>1
      <4>2. i - 1 = 0
        BY <3>1
      <4> QED
        BY <3>1, <4>1, <4>2, Zenon
    <3>2. CASE i # 1
      <4>1. i - 1 \in 1..n
        BY <3>2
      <4>2. f[i] = f[i - 1] \o pair(i)
        BY <1>4, <2>2, <3>2
      <4>3. head \o (f[i - 1] \o pair(i)) = (head \o f[i - 1]) \o pair(i)
        BY <1>2, <1>3, <2>3, <4>1, Associative, Zenon
      <4>4. g[i] = head \o f[i] /\ g[i - 1] = head \o f[i - 1]
        BY <2>4, <4>1
      <4> QED
        BY <4>2, <4>3, <4>4
    <3> QED
      BY <3>1, <3>2
  <2>7. ASSUME NEW i \in 1..n
        PROVE  g[i] = Joined(Joined(g[i - 1], keys[i]), c[keys[i]])
    <3>1. i - 1 \in 0..n
      OBVIOUS
    <3>2. g[i - 1] \in Strings
      BY <2>5, <3>1
    <3>3. g[i - 1] \o pair(i) = Joined(Joined(g[i - 1], keys[i]), c[keys[i]])
      BY <1>1, <3>2, Regroup, Zenon DEF pair, Joined
    <3> QED
      BY <2>6, <3>3
  <2>8. Spells(g, input, keys, n)
    BY <2>4, <2>5, <2>7 DEF Spells, head
  <2>9. n \in 1..n
    BY <1>7
  <2> QED
    BY <1>5, <2>1, <2>4, <2>8, <2>9
<1> QED
  BY <1>6, <1>7
\* The texts are spelled from the same strings.
SameStrings(x, k, n, y, l, m) ==
    /\ n = m /\ x.tool = y.tool /\ x.ruleID = y.ruleID
    /\ \A i \in 1..n : k[i] = l[i] /\ x.components[k[i]] = y.components[l[i]]

\* Two texts that are the same were spelled from the same strings: peel the last
\* value and the last key off both until none is left.
LEMMA SpelledAlike ==
    ASSUME NEW x, PlainInput(x), NEW y, PlainInput(y), NEW n \in Nat, NEW m \in Nat,
           NEW k \in [1..n -> DOMAIN x.components], NEW l \in [1..m -> DOMAIN y.components],
           NEW g, Spells(g, x, k, n), NEW h, Spells(h, y, l, m), g[n] = h[m]
    PROVE  SameStrings(x, k, n, y, l, m)
<1> DEFINE Pair(i) == k[i] = l[i] /\ x.components[k[i]] = y.components[l[i]]
           Alike(i, j) == /\ i = j /\ x.tool = y.tool /\ x.ruleID = y.ruleID
                          /\ \A r \in 1..i : Pair(r)
           Bad == {i \in 0..n : \E j \in 0..m : g[i] = h[j] /\ ~Alike(i, j)}
<1>1. /\ \A i \in 1..n : /\ Plain(k[i]) /\ Plain(x.components[k[i]])
                         /\ k[i] \in Strings
      /\ \A i \in 1..m : /\ Plain(l[i]) /\ Plain(y.components[l[i]])
                         /\ l[i] \in Strings
  BY DEF PlainInput, Plain
<1>2. /\ Plain(x.tool) /\ Plain(x.ruleID) /\ x.tool \in Strings
      /\ Plain(y.tool) /\ Plain(y.ruleID) /\ y.tool \in Strings
  BY DEF PlainInput, Plain
<1>3. /\ \A i \in 0..n : g[i] \in Strings
      /\ \A i \in 0..m : h[i] \in Strings
  BY DEF Spells
\* The text before the i-th value, and before the i-th key.
<1> DEFINE gk(i) == Joined(g[i - 1], k[i])
           hl(i) == Joined(h[i - 1], l[i])
<1>4. /\ \A i \in 1..n : /\ gk(i) \in Strings /\ ~Plain(gk(i)) /\ i - 1 \in 0..n
                         /\ g[i] = Joined(gk(i), x.components[k[i]])
      /\ \A i \in 1..m : /\ hl(i) \in Strings /\ ~Plain(hl(i)) /\ i - 1 \in 0..m
                         /\ h[i] = Joined(hl(i), y.components[l[i]])
  <2>1. ASSUME NEW i \in 1..n
        PROVE  /\ gk(i) \in Strings /\ ~Plain(gk(i)) /\ i - 1 \in 0..n
               /\ g[i] = Joined(gk(i), x.components[k[i]])
    <3>1. i - 1 \in 0..n
      OBVIOUS
    <3>2. g[i - 1] \in Strings /\ k[i] \in Strings
      BY <1>1, <1>3, <3>1
    <3>3. gk(i) \in Strings /\ ~Plain(gk(i))
      BY <3>2, JoinProperties, JoinedIsNotPlain, Zenon
    <3> QED
      BY <3>1, <3>3, Zenon DEF Spells
  <2>2. ASSUME NEW i \in 1..m
        PROVE  /\ hl(i) \in Strings /\ ~Plain(hl(i)) /\ i - 1 \in 0..m
               /\ h[i] = Joined(hl(i), y.components[l[i]])
    <3>1. i - 1 \in 0..m
      OBVIOUS
    <3>2. h[i - 1] \in Strings /\ l[i] \in Strings
      BY <1>1, <1>3, <3>1
    <3>3. hl(i) \in Strings /\ ~Plain(hl(i))
      BY <3>2, JoinProperties, JoinedIsNotPlain, Zenon
    <3> QED
      BY <3>1, <3>3, Zenon DEF Spells
  <2> QED
    BY <2>1, <2>2
<1>5. /\ g[0] = Joined(x.tool, x.ruleID)
      /\ h[0] = Joined(y.tool, y.ruleID)
  BY DEF Spells
<1>6. ASSUME NEW i \in 1..n, NEW j \in 1..m, g[i] = h[j]
      PROVE  /\ g[i - 1] = h[j - 1] /\ k[i] = l[j]
             /\ x.components[k[i]] = y.components[l[j]]
  <2>1. gk(i) = hl(j) /\ x.components[k[i]] = y.components[l[j]]
    <3> HIDE DEF gk, hl
    <3> QED
      BY <1>1, <1>4, <1>6, LastSplit
  <2>2. g[i - 1] \in Strings /\ h[j - 1] \in Strings
    BY <1>3, <1>4
  <2> QED
    BY <1>1, <2>1, <2>2, LastSplit
<1>7. ASSUME NEW j \in 1..m, g[0] = h[j] PROVE FALSE
  <2>1. hl(j) = x.tool
    <3> HIDE DEF hl
    <3>1. /\ Joined(hl(j), y.components[l[j]]) = Joined(x.tool, x.ruleID)
          /\ hl(j) \in Strings /\ Plain(y.components[l[j]])
      BY <1>1, <1>4, <1>5, <1>7
    <3>2. x.tool \in Strings /\ Plain(x.ruleID)
      BY <1>2
    <3> QED
      BY <3>1, <3>2, LastSplit
  <2> HIDE DEF hl
  <2> QED
    BY <1>2, <1>4, <2>1
<1>8. ASSUME NEW i \in 1..n, g[i] = h[0] PROVE FALSE
  <2>1. gk(i) = y.tool
    <3> HIDE DEF gk
    <3> QED
      BY <1>1, <1>2, <1>4, <1>5, <1>8, LastSplit
  <2> HIDE DEF gk
  <2> QED
    BY <1>2, <1>4, <2>1
<1>9. ASSUME g[0] = h[0] PROVE x.tool = y.tool /\ x.ruleID = y.ruleID
  <2>1. Joined(x.tool, x.ruleID) = Joined(y.tool, y.ruleID)
    BY <1>5, <1>9
  <2> QED
    BY <1>2, <2>1, LastSplit, Zenon
<1> HIDE DEF gk, hl
<1>10. Bad = {}
  <2> SUFFICES ASSUME Bad # {} PROVE FALSE
    OBVIOUS
  <2>1. PICK i \in Bad : \A a \in Bad : i <= a
    <3>1. Bad \in SUBSET Nat
      OBVIOUS
    <3> HIDE DEF Bad
    <3> QED
      BY <3>1, LeastOf
  <2>2. PICK j \in 0..m : i \in 0..n /\ g[i] = h[j] /\ ~Alike(i, j)
    OBVIOUS
  <2>3. i # 0 => i \in 1..n /\ i - 1 \in 0..n /\ ~(i <= i - 1)
    BY <2>2
  <2>4. j # 0 => j \in 1..m /\ j - 1 \in 0..m
    OBVIOUS
  <2>5. CASE i = 0
    <3>1. j = 0
      BY <1>7, <2>2, <2>4, <2>5
    <3>2. \A r \in 1..i : FALSE
      BY <2>5
    <3> QED
      BY <1>9, <2>2, <2>5, <3>1, <3>2
  <2>6. CASE i # 0
    <3>1. j # 0
      BY <1>8, <2>2, <2>3, <2>6
    <3>2. g[i - 1] = h[j - 1] /\ k[i] = l[j] /\ x.components[k[i]] = y.components[l[j]]
      BY <1>6, <2>2, <2>3, <2>4, <2>6, <3>1
    <3>3. Alike(i - 1, j - 1)
      BY <2>1, <2>3, <2>4, <2>6, <3>1, <3>2
    <3>4. i = j
      BY <2>2, <3>3
    <3>5. Pair(i)
      BY <3>2, <3>4
    <3>6. \A r \in 1..i : r = i \/ r \in 1..(i - 1)
      BY <2>2
    <3>7. Alike(i, j)
      <4> HIDE DEF Pair
      <4> QED
        BY <3>3, <3>4, <3>5, <3>6
    <3> QED
      BY <2>2, <3>7
  <2> QED
    BY <2>5, <2>6
<1>11. Alike(n, m)
  <2>1. n \in 0..n /\ m \in 0..m
    OBVIOUS
  <2> HIDE DEF Alike
  <2> QED
    BY <1>10, <2>1
<1> QED
  BY <1>11 DEF SameStrings
-----------------------------------------------------------------------------
(* The order of sort.Strings. *)

\* s goes before t at place i: they agree up to there, and s ends or is less.
LessAt(s, t, i) ==
    /\ i \in 1..Len(t) /\ i <= Len(s) + 1
    /\ \A j \in 1..(i - 1) : s[j] = t[j]
    /\ i <= Len(s) => s[i] < t[i]

LEMMA StringLessAt ==
    ASSUME NEW s \in Strings, NEW t \in Strings
    PROVE  StringLess(s, t) <=> \E i \in Nat : LessAt(s, t, i)
<1>1. /\ Len(s) \in Nat /\ DOMAIN s = 1..Len(s) /\ Len(t) \in Nat /\ DOMAIN t = 1..Len(t)
      /\ s \in Seq(Bytes) /\ t \in Seq(Bytes)
  BY DEF Strings
<1>2. ASSUME Len(s) < Len(t), SubSeq(t, 1, Len(s)) = s PROVE LessAt(s, t, Len(s) + 1)
  <2>1. \A j \in 1..Len(s) : SubSeq(t, 1, Len(s))[j] = t[j]
    BY <1>1, <1>2
  <2>2. \A j \in 1..Len(s) : s[j] = t[j]
    BY <1>2, <2>1
  <2> QED
    BY <1>1, <1>2, <2>2 DEF LessAt
<1>3. ASSUME NEW i \in DOMAIN s \cap DOMAIN t, s[i] < t[i], \A j \in 1..(i - 1) : s[j] = t[j]
      PROVE  LessAt(s, t, i)
  BY <1>1, <1>3 DEF LessAt
<1>4. ASSUME NEW i \in Nat, LessAt(s, t, i), ~(i <= Len(s))
      PROVE  Len(s) < Len(t) /\ SubSeq(t, 1, Len(s)) = s
  <2>1. i = Len(s) + 1 /\ Len(s) < Len(t) /\ \A j \in 1..Len(s) : s[j] = t[j]
    BY <1>1, <1>4 DEF LessAt
  <2> DEFINE u == SubSeq(t, 1, Len(s))
  <2>2. u \in Seq(Bytes) /\ Len(u) = Len(s) /\ \A j \in 1..Len(s) : u[j] = t[j]
    BY <1>1, <2>1
  <2> HIDE DEF u
  <2>3. u = s
    BY <1>1, <2>1, <2>2, SeqEqual
  <2> QED
    BY <2>1, <2>3 DEF u
<1>5. ASSUME NEW i \in Nat, LessAt(s, t, i), i <= Len(s)
      PROVE  /\ i \in DOMAIN s \cap DOMAIN t /\ s[i] < t[i]
             /\ \A j \in 1..(i - 1) : s[j] = t[j]
  BY <1>1, <1>5 DEF LessAt
<1>6. Len(s) + 1 \in Nat /\ DOMAIN s \subseteq Nat
  BY <1>1
<1> QED
  BY <1>2, <1>3, <1>4, <1>5, <1>6 DEF StringLess

LEMMA BytesAreInts ==
    ASSUME NEW s \in Strings
    PROVE  /\ Len(s) \in Nat /\ s = [i \in 1..Len(s) |-> s[i]]
           /\ \A i \in 1..Len(s) : s[i] \in Int
<1>1. /\ s \in Seq(Bytes) /\ Len(s) \in Nat /\ s = [i \in 1..Len(s) |-> s[i]]
      /\ \A i \in 1..Len(s) : s[i] \in Bytes
  BY DEF Strings
<1>2. \A b \in Bytes : b \in Int
  BY BytesAssumption
<1> QED
  BY <1>1, <1>2

\* Different strings differ at a first place.
LEMMA FirstDifference ==
    ASSUME NEW s \in Strings, NEW t \in Strings, s # t
    PROVE  \E i \in Nat : LessAt(s, t, i) \/ LessAt(t, s, i)
<1> DEFINE Differ == {i \in Nat : /\ 1 <= i /\ i <= Len(s) + 1 /\ i <= Len(t) + 1
                                  /\ i <= Len(s) \/ i <= Len(t)
                                  /\ i <= Len(s) /\ i <= Len(t) => s[i] # t[i]}
<1>1. /\ Len(s) \in Nat /\ s = [i \in 1..Len(s) |-> s[i]]
      /\ Len(t) \in Nat /\ t = [i \in 1..Len(t) |-> t[i]]
      /\ \A i \in 1..Len(s) : s[i] \in Int
      /\ \A i \in 1..Len(t) : t[i] \in Int
  BY BytesAreInts
<1>2. Differ # {}
  <2> SUFFICES ASSUME Differ = {} PROVE FALSE
    OBVIOUS
  <2>1. ~(Len(s) < Len(t))
    <3>1. Len(s) < Len(t) => Len(s) + 1 \in Differ
      BY <1>1
    <3> QED
      BY <3>1
  <2>2. ~(Len(t) < Len(s))
    <3>1. Len(t) < Len(s) => Len(t) + 1 \in Differ
      BY <1>1
    <3> QED
      BY <3>1
  <2>3. Len(s) = Len(t)
    <3>1. Len(s) \in Nat /\ Len(t) \in Nat
      BY <1>1
    <3> QED
      BY <2>1, <2>2, <3>1
  <2>4. \A i \in 1..Len(s) : s[i] = t[i]
    <3> SUFFICES ASSUME NEW i \in 1..Len(s), s[i] # t[i] PROVE FALSE
      OBVIOUS
    <3>1. i \in Differ
      BY <1>1, <2>3
    <3> QED
      BY <3>1
  <2>5. s = t
    BY <1>1, <2>3, <2>4
  <2> QED
    BY <2>5
<1>3. PICK i \in Differ : \A j \in Differ : i <= j
  <2>1. Differ \in SUBSET Nat
    OBVIOUS
  <2> HIDE DEF Differ
  <2> QED
    BY <1>2, <2>1, LeastOf
<1>4. \A j \in 1..(i - 1) : s[j] = t[j]
  <2> SUFFICES ASSUME NEW j \in 1..(i - 1), s[j] # t[j] PROVE FALSE
    OBVIOUS
  <2>1. j \in Differ
    BY <1>1
  <2> QED
    BY <1>3, <2>1
<1>5. CASE i <= Len(s) /\ i <= Len(t)
  <2>1. s[i] \in Int /\ t[i] \in Int /\ s[i] # t[i]
    BY <1>1, <1>5
  <2>2. s[i] < t[i] \/ t[i] < s[i]
    BY <2>1
  <2> QED
    BY <1>1, <1>4, <1>5, <2>2 DEF LessAt
<1>6. CASE ~(i <= Len(s))
  BY <1>1, <1>4, <1>6 DEF LessAt
<1>7. CASE ~(i <= Len(t))
  BY <1>1, <1>4, <1>7 DEF LessAt
<1> QED
  BY <1>5, <1>6, <1>7

LEMMA LessTransitive ==
    ASSUME NEW s \in Strings, NEW t \in Strings, NEW u \in Strings,
           NEW i \in Nat, LessAt(s, t, i), NEW j \in Nat, LessAt(t, u, j)
    PROVE  \E k \in Nat : LessAt(s, u, k)
<1>1. /\ Len(s) \in Nat /\ Len(t) \in Nat /\ Len(u) \in Nat
      /\ \A k \in 1..Len(s) : s[k] \in Int
      /\ \A k \in 1..Len(t) : t[k] \in Int
      /\ \A k \in 1..Len(u) : u[k] \in Int
  BY BytesAreInts
<1>2. CASE i < j
  <2>1. i \in 1..Len(u) /\ i <= Len(t)
    BY <1>1, <1>2 DEF LessAt
  <2>2. t[i] = u[i] /\ \A k \in 1..(i - 1) : s[k] = u[k]
    BY <1>2, <2>1 DEF LessAt
  <2> QED
    BY <2>1, <2>2 DEF LessAt
<1>3. CASE j < i
  <2>1. j \in 1..Len(u) /\ j <= Len(t) /\ j <= Len(s)
    BY <1>1, <1>3 DEF LessAt
  <2>2. s[j] = t[j] /\ t[j] < u[j] /\ \A k \in 1..(j - 1) : s[k] = u[k]
    BY <1>3, <2>1 DEF LessAt
  <2> QED
    BY <1>1, <2>1, <2>2 DEF LessAt
<1>4. CASE i = j
  <2>1. i \in 1..Len(u) /\ i \in 1..Len(t) /\ i <= Len(s) + 1
    BY <1>4 DEF LessAt
  <2>2. t[i] < u[i] /\ \A k \in 1..(i - 1) : s[k] = u[k]
    BY <1>1, <1>4, <2>1 DEF LessAt
  <2>3. i <= Len(s) => s[i] < u[i]
    <3> SUFFICES ASSUME i <= Len(s) PROVE s[i] < u[i]
      OBVIOUS
    <3>1. s[i] \in Int /\ t[i] \in Int /\ u[i] \in Int /\ s[i] < t[i]
      BY <1>1, <2>1 DEF LessAt
    <3> QED
      BY <2>2, <3>1
  <2> QED
    BY <2>1, <2>2, <2>3 DEF LessAt
<1> QED
  BY <1>2, <1>3, <1>4

Before == {p \in Strings \X Strings : StringLess(p[1], p[2])}

LEMMA StringsAreOrdered ==
    ASSUME NEW S \in SUBSET Strings
    PROVE  Orders(Before, S)
<1>0. \A s, t \in S : <<s, t>> \in Before <=> \E i \in Nat : LessAt(s, t, i)
  BY StringLessAt DEF Before
<1>1. ASSUME NEW s \in S PROVE <<s, s>> \notin Before
  <2> SUFFICES ASSUME NEW i \in Nat, LessAt(s, s, i) PROVE FALSE
    BY <1>0
  <2>1. i \in 1..Len(s) /\ s[i] < s[i] /\ s[i] \in Int
    BY BytesAreInts DEF LessAt
  <2> QED
    BY <2>1
<1>2. ASSUME NEW s \in S, NEW t \in S, NEW u \in S, <<s, t>> \in Before, <<t, u>> \in Before
      PROVE  <<s, u>> \in Before
  BY <1>0, <1>2, LessTransitive
<1>3. ASSUME NEW s \in S, NEW t \in S
      PROVE  s = t \/ <<s, t>> \in Before \/ <<t, s>> \in Before
  BY <1>0, FirstDifference
<1> QED
  BY <1>1, <1>2, <1>3, Zenon DEF Orders

\* sort.Strings loses no key and repeats none.
LEMMA AscendingLists ==
    ASSUME NEW S \in SUBSET Strings, IsFiniteSet(S)
    PROVE  /\ Ascending(S) \in [1..Cardinality(S) -> S]
           /\ \A x \in S : \E n \in 1..Cardinality(S) : Ascending(S)[n] = x
<1> DEFINE N == Cardinality(S)
           Sorted(s) == \A i, j \in DOMAIN s : i < j => StringLess(s[i], s[j])
<1>1. PICK t : Lists(t, S, Before)
  BY StringsAreOrdered, ListExists
<1>2. t \in [1..N -> S] /\ Sorted(t)
  BY <1>1 DEF Lists, Before
<1>3. Ascending(S) \in [1..N -> S] /\ Sorted(Ascending(S))
  <2>1. Ascending(S) = CHOOSE s \in [1..N -> S] : Sorted(s)
    BY Zenon DEF Ascending
  <2> HIDE DEF Sorted
  <2> QED
    BY <1>2, <2>1
<1>4. Lists(Ascending(S), S, Before)
  <2> DEFINE a == Ascending(S)
  <2>1. a \in [1..N -> S] /\ \A i, j \in 1..N : i < j => StringLess(a[i], a[j])
    BY <1>3
  <2> HIDE DEF a
  <2>2. \A i, j \in 1..N : i < j => <<a[i], a[j]>> \in Before
    BY <2>1 DEF Before
  <2> QED
    BY <2>1, <2>2 DEF Lists, a
<1>5. Orders(Before, S)
  BY StringsAreOrdered
<1>6. \A x \in S : \E n \in 1..N : Ascending(S)[n] = x
  <2> HIDE DEF N
  <2> QED
    BY <1>4, <1>5, ListIsComplete DEF N
<1> QED
  BY <1>3, <1>6

-----------------------------------------------------------------------------
(* Texts and identities. *)

LEMMA TextTellsApart ==
    ASSUME NEW x, PlainInput(x), NEW y, PlainInput(y), Text(x) = Text(y),
           x.components = [key \in DOMAIN x.components |-> x.components[key]],
           y.components = [key \in DOMAIN y.components |-> y.components[key]]
    PROVE  Identity(x) = Identity(y)
<1> DEFINE X == DOMAIN x.components
           Y == DOMAIN y.components
           n == Cardinality(X)
           m == Cardinality(Y)
           k == Ascending(X)
           l == Ascending(Y)
<1>1. /\ X \in SUBSET Strings /\ IsFiniteSet(X) /\ n \in Nat
      /\ Y \in SUBSET Strings /\ IsFiniteSet(Y) /\ m \in Nat
  BY FS_CardinalityType DEF PlainInput, Plain
<1>2. /\ k \in [1..n -> X] /\ \A key \in X : \E i \in 1..n : k[i] = key
      /\ l \in [1..m -> Y] /\ \A key \in Y : \E i \in 1..m : l[i] = key
  BY <1>1, AscendingLists
<1>0. /\ Text(x) = Write(x.tool, x.ruleID, x.components, k)
      /\ Text(y) = Write(y.tool, y.ruleID, y.components, l)
  BY Zenon DEF Text
<1> HIDE DEF n, m, k, l
<1>3. PICK g : Spells(g, x, k, n) /\ Text(x) = g[n]
  <2>1. n \in Nat /\ k \in [1..n -> DOMAIN x.components]
    BY <1>1, <1>2
  <2>2. \E g : /\ Spells(g, x, k, n)
               /\ Write(x.tool, x.ruleID, x.components, k) = g[n]
    BY <2>1, TextSpelled
  <2> QED
    BY <1>0, <2>2
<1>4. PICK h : Spells(h, y, l, m) /\ Text(y) = h[m]
  <2>1. m \in Nat /\ l \in [1..m -> DOMAIN y.components]
    BY <1>1, <1>2
  <2>2. \E h : /\ Spells(h, y, l, m)
               /\ Write(y.tool, y.ruleID, y.components, l) = h[m]
    BY <2>1, TextSpelled
  <2> QED
    BY <1>0, <2>2
<1>5. /\ n = m /\ x.tool = y.tool /\ x.ruleID = y.ruleID
      /\ \A i \in 1..n : k[i] = l[i] /\ x.components[k[i]] = y.components[l[i]]
  <2>1. n \in Nat /\ k \in [1..n -> DOMAIN x.components]
    BY <1>1, <1>2
  <2>2. m \in Nat /\ l \in [1..m -> DOMAIN y.components]
    BY <1>1, <1>2
  <2>3. g[n] = h[m]
    BY <1>3, <1>4
  <2>4. Spells(g, x, k, n) /\ Spells(h, y, l, m)
    BY <1>3, <1>4
  <2>5. SameStrings(x, k, n, y, l, m)
    BY <2>1, <2>2, <2>3, <2>4, SpelledAlike
  <2> QED
    BY <2>5 DEF SameStrings
<1>6. X = Y
  BY <1>2, <1>5
<1>7. \A key \in X : x.components[key] = y.components[key]
  BY <1>2, <1>5
<1>8. x.components = y.components
  BY <1>6, <1>7
<1> QED
  BY <1>5, <1>8 DEF Identity
\* No name, key or value holds the separator.
NoSeparator ==
    /\ \A name \in Names : \A i \in DOMAIN name : name[i] # NUL
    /\ \A m \in Maps : \A key \in DOMAIN m :
          /\ \A i \in DOMAIN key : key[i] # NUL
          /\ \A i \in DOMAIN m[key] : m[key][i] # NUL

LEMMA InputIsPlain ==
    ASSUME NoSeparator, NEW input \in Inputs
    PROVE  /\ PlainInput(input)
           /\ input.components = [key \in DOMAIN input.components |-> input.components[key]]
<1> DEFINE m == input.components
<1>1. input.tool \in Names /\ input.ruleID \in Names /\ m \in Maps
  BY DEF Inputs
<1> HIDE DEF m
<1>2. /\ DOMAIN m \subseteq Strings /\ IsFiniteSet(DOMAIN m)
      /\ m \in [DOMAIN m -> Strings]
  BY <1>1, MapsAssumption DEF Strings
<1>3. m = [key \in DOMAIN m |-> m[key]] /\ \A key \in DOMAIN m : m[key] \in Strings
  BY <1>2
<1>4. \A key \in DOMAIN m : Plain(key) /\ Plain(m[key])
  BY <1>1, <1>2, <1>3 DEF NoSeparator, Plain
<1>5. Plain(input.tool) /\ Plain(input.ruleID)
  BY <1>1, NamesAssumption DEF NoSeparator, Plain, Strings
<1> QED
  BY <1>2, <1>3, <1>4, <1>5 DEF PlainInput, m

\* Two calls about different tools, rules or components return different values,
\* for all strings without a NUL and all maps of them: the length and the number
\* of the parts need not be hashed, for the NULs part the text
\* (fingerprint.go:34-43, fingerprint_test.go:30).
THEOREM FindingsAreToldApart ==
    ASSUME NoSeparator
    PROVE  Spec => []DistinctIdentityDistinctValue
<1>1. CallInv /\ ReturnedInv => DistinctIdentityDistinctValue
  <2> SUFFICES ASSUME CallInv, ReturnedInv, BothReturned, call.value = returned[1].value
               PROVE  Identity(call.input) = Identity(returned[1].input)
    BY DEF DistinctIdentityDistinctValue
  <2> DEFINE x == call.input
             y == returned[1].input
  <2>1. x \in Inputs /\ y \in Inputs /\ Text(x) = Text(y)
    BY DEF CallInv, CallOK, ReturnedInv, BothReturned
  <2> HIDE DEF x, y
  <2>2. Identity(x) = Identity(y)
    BY <2>1, InputIsPlain, TextTellsApart
  <2> QED
    BY <2>2 DEF x, y
<1> QED
  BY <1>1, FingerprintInv, PTL
=============================================================================
