---------------------------- MODULE RendererProofs ----------------------------
(***************************************************************************)
(* What the renderers make of arguments that fit the grammar: scopes that   *)
(* are in terms of the grammar and do not meet, that are met exactly when   *)
(* the arguments are, and whose commands touch nothing the arguments are    *)
(* not about - for every typed operation, grammar and call.                 *)
(***************************************************************************)
EXTENDS Arguments, ConfigPlanProofs, FiniteSetTheorems

-----------------------------------------------------------------------------
(* Paths behind a path.                                                     *)

\* One path behind another: its length and its elements.
LEMMA Joint ==
    ASSUME NEW p \in Words, NEW q \in Words
    PROVE  /\ p \o q \in Words /\ Len(p \o q) = Len(p) + Len(q)
           /\ Len(p) \in Nat /\ Len(q) \in Nat
           /\ \A i \in 1..Len(p) : (p \o q)[i] = p[i]
           /\ \A i \in 1..Len(q) : (p \o q)[Len(p) + i] = q[i]
<1>1. Len(p) \in Nat /\ Len(q) \in Nat
  BY LenProperties DEF Words
<1>2. /\ p \o q \in Words /\ Len(p \o q) = Len(p) + Len(q)
      /\ \A i \in 1..(Len(p) + Len(q)) :
             (p \o q)[i] = IF i <= Len(p) THEN p[i] ELSE q[i - Len(p)]
  BY ConcatProperties DEF Words
<1> QED
  BY <1>1, <1>2

\* What is behind a path is at or below it, and lies as it does in the tree.
LEMMA BehindPath ==
    ASSUME NEW path \in Words, NEW p \in Words, NEW q \in Words
    PROVE  /\ IsPrefix(path, path \o p)
           /\ IsPrefix(path \o p, path \o q) <=> IsPrefix(p, q)
           /\ path \o p = path <=> p = <<>>
           /\ path \o p = path \o q => p = q
<1>1. /\ path \o p \in Words /\ Len(path \o p) = Len(path) + Len(p)
      /\ \A i \in 1..Len(path) : (path \o p)[i] = path[i]
      /\ \A i \in 1..Len(p) : (path \o p)[Len(path) + i] = p[i]
      /\ Len(path) \in Nat /\ Len(p) \in Nat
  BY Joint
<1>2. /\ path \o q \in Words /\ Len(path \o q) = Len(path) + Len(q)
      /\ \A i \in 1..Len(path) : (path \o q)[i] = path[i]
      /\ \A i \in 1..Len(q) : (path \o q)[Len(path) + i] = q[i]
      /\ Len(q) \in Nat
  BY Joint
<1> DEFINE pp == path \o p
           qq == path \o q
<1>3. IsPrefix(path, pp)
  <2>1. pp \in Words /\ Len(path) <= Len(pp) /\ \A i \in 1..Len(path) : path[i] = pp[i]
    BY <1>1
  <2> HIDE DEF pp
  <2> QED
    BY <2>1, PrefixIs
<1>4. IsPrefix(pp, qq) <=> Len(pp) <= Len(qq) /\ \A i \in 1..Len(pp) : pp[i] = qq[i]
  BY <1>1, <1>2, PrefixIs
<1>5. IsPrefix(p, q) <=> Len(p) <= Len(q) /\ \A i \in 1..Len(p) : p[i] = q[i]
  BY PrefixIs
<1>6. pp = path <=> p = <<>>
  <2>1. path \in Seq(STRING) /\ p \in Seq(STRING)
    BY DEF Words
  <2> QED
    BY <2>1, ConcatEqualIffEmpty
<1> HIDE DEF pp, qq
<1>8. ASSUME IsPrefix(p, q)
      PROVE  IsPrefix(pp, qq)
  <2>1. Len(p) <= Len(q) /\ \A i \in 1..Len(p) : p[i] = q[i]
    BY <1>5, <1>8
  <2>2. ASSUME NEW i \in 1..Len(pp)
        PROVE  pp[i] = qq[i]
    <3>1. CASE i <= Len(path)
      <4>1. i \in 1..Len(path)
        BY <1>1, <2>2, <3>1 DEF pp
      <4> QED
        BY <1>1, <1>2, <4>1 DEF pp, qq
    <3>2. CASE ~(i <= Len(path))
      <4>1. i - Len(path) \in 1..Len(p) /\ i = Len(path) + (i - Len(path))
        BY <1>1, <2>2, <3>2 DEF pp
      <4>2. i - Len(path) \in 1..Len(q)
        BY <1>1, <1>2, <2>1, <4>1
      <4> DEFINE k == i - Len(path)
      <4>3. pp[Len(path) + k] = p[k] /\ qq[Len(path) + k] = q[k] /\ p[k] = q[k]
        BY <1>1, <1>2, <2>1, <4>1, <4>2 DEF pp, qq
      <4> QED
        BY <4>1, <4>3
    <3> QED
      BY <3>1, <3>2
  <2> QED
    BY <1>1, <1>2, <1>4, <2>1, <2>2 DEF pp, qq
<1>9. ASSUME IsPrefix(pp, qq)
      PROVE  IsPrefix(p, q)
  <2>1. Len(pp) <= Len(qq) /\ \A i \in 1..Len(pp) : pp[i] = qq[i]
    BY <1>4, <1>9
  <2>2. Len(p) <= Len(q)
    BY <1>1, <1>2, <2>1 DEF pp, qq
  <2>3. ASSUME NEW i \in 1..Len(p)
        PROVE  p[i] = q[i]
    <3> DEFINE k == Len(path) + i
    <3>1. k \in 1..Len(pp) /\ i \in 1..Len(q)
      BY <1>1, <1>2, <2>2 DEF pp
    <3>2. pp[k] = p[i] /\ qq[k] = q[i]
      BY <1>1, <1>2, <3>1 DEF pp, qq
    <3> QED
      BY <2>1, <3>1, <3>2
  <2> QED
    BY <1>5, <2>2, <2>3
<1>10. ASSUME pp = qq
       PROVE  p = q
  <2>1. IsPrefix(pp, qq) /\ IsPrefix(qq, pp)
    BY <1>1, <1>10, PrefixOrder DEF pp
  <2>2. Len(p) = Len(q)
    BY <1>1, <1>2, <1>10 DEF pp, qq
  <2> QED
    BY <1>5, <1>9, <2>1, <2>2, SeqEqual DEF Words
<1> QED
  BY <1>3, <1>6, <1>8, <1>9, <1>10 DEF pp, qq

\* Paths that differ somewhere do not meet.
LEMMA Differ ==
    ASSUME NEW p \in Words, NEW q \in Words, NEW i \in Nat,
           1 <= i, i <= Len(p), i <= Len(q), p[i] # q[i]
    PROVE  ~IsPrefix(p, q) /\ ~IsPrefix(q, p)
<1>1. Len(p) \in Nat /\ Len(q) \in Nat
  BY LenProperties DEF Words
<1> QED
  BY <1>1, PrefixIs

\* A sequence of one element.
LEMMA OneElement ==
    ASSUME NEW T, NEW x \in T
    PROVE  <<x>> \in Seq(T) /\ Len(<<x>>) = 1 /\ <<x>>[1] = x
OBVIOUS

\* A sequence with one element more.
OneMore(T, p, x, longer) ==
    /\ longer \in Seq(T) /\ longer # <<>>
    /\ Len(longer) = Len(p) + 1
    /\ \A i \in 1..Len(p) : longer[i] = p[i]
    /\ longer[Len(p) + 1] = x

LEMMA Appended ==
    ASSUME NEW T, NEW p \in Seq(T), NEW x \in T
    PROVE  OneMore(T, p, x, Append(p, x))
BY AppendProperties DEF OneMore

\* One key behind a path.
LEMMA OneKey ==
    ASSUME NEW p \in Words, NEW key \in STRING
    PROVE  /\ Append(p, key) = p \o <<key>> /\ Append(p, key) \in Words \ {<<>>}
           /\ Len(Append(p, key)) = Len(p) + 1 /\ Append(p, key)[Len(p) + 1] = key
           /\ Front(Append(p, key)) = p
           /\ IsStrictPrefix(p, Append(p, key))
<1> DEFINE T == STRING
           longer == Append(p, key)
           one == <<key>>
           cut == SubSeq(longer, 1, Len(p))
<1>1. p \in Seq(T) /\ key \in T
  BY DEF Words
<1> HIDE DEF T
<1>2. one \in Seq(T) /\ Len(one) = 1 /\ one[1] = key
  BY <1>1, OneElement
<1> HIDE DEF one
<1>0. OneMore(T, p, key, longer)
  BY <1>1, Appended
<1> HIDE DEF longer
<1>3. /\ longer \in Seq(T) /\ longer # <<>> /\ Len(longer) = Len(p) + 1
      /\ \A i \in 1..Len(p) : longer[i] = p[i]
      /\ longer[Len(p) + 1] = key
  BY <1>0 DEF OneMore
<1>4. Len(p) \in Nat
  BY <1>1, LenProperties
<1>5. one \in Words /\ longer \in Words
  BY <1>2, <1>3 DEF Words, T
<1>6. /\ p \o one \in Seq(T) /\ Len(p \o one) = Len(p) + 1
      /\ \A i \in 1..Len(p) : (p \o one)[i] = p[i]
      /\ (p \o one)[Len(p) + 1] = key
  <2>1. /\ p \o one \in Words /\ Len(p \o one) = Len(p) + Len(one)
        /\ \A i \in 1..Len(p) : (p \o one)[i] = p[i]
        /\ \A i \in 1..Len(one) : (p \o one)[Len(p) + i] = one[i]
    BY <1>5, Joint
  <2>2. 1 \in 1..Len(one)
    BY <1>2
  <2>3. (p \o one)[Len(p) + 1] = one[1]
    BY <2>1, <2>2
  <2>4. p \o one \in Seq(T)
    BY <2>1 DEF Words, T
  <2> QED
    BY <1>2, <2>1, <2>3, <2>4
<1>7. ASSUME NEW i \in 1..Len(longer)
      PROVE  longer[i] = (p \o one)[i]
  <2>1. i \in 1..Len(p) \/ i = Len(p) + 1
    BY <1>3, <1>4, <1>7
  <2> QED
    BY <1>3, <1>6, <2>1
<1>8. longer = p \o one
  BY <1>3, <1>6, <1>7, SeqEqual
<1>9. IsPrefix(p, longer) /\ longer # p
  BY <1>3, <1>4, <1>5, PrefixIs
<1>10. IsStrictPrefix(p, longer)
  BY <1>5, <1>9, StrictOrder
<1>11. Front(longer) = cut
  <2>1. Len(longer) - 1 = Len(p)
    BY <1>3, <1>4
  <2> QED
    BY <2>1 DEF Front
<1>12. cut \in Words /\ Len(cut) = Len(p) /\ IsPrefix(cut, longer)
  BY <1>3, <1>4, <1>5, Cut
<1> HIDE DEF cut
<1>13. \A i \in 1..Len(p) : cut[i] = longer[i]
  BY <1>3, <1>4, <1>5, <1>12, PrefixIs
<1>14. cut \in Seq(T)
  BY <1>12 DEF Words, T
<1>15. cut = p
  BY <1>1, <1>3, <1>12, <1>13, <1>14, SeqEqual
<1> QED
  BY <1>3, <1>5, <1>8, <1>10, <1>11, <1>15 DEF longer, one

-----------------------------------------------------------------------------
(* Sequences that have every element of a set, once.                        *)

Enumerates(seq, set) ==
    /\ seq \in Seq(set)
    /\ \A x \in set : \E i \in DOMAIN seq : seq[i] = x
    /\ \A i, j \in DOMAIN seq : seq[i] = seq[j] => i = j

\* The shortest of them, and one behind another.
LEMMA Enumerations ==
    /\ Enumerates(<<>>, {})
    /\ \A x : Enumerates(<<x>>, {x})
    /\ \A s, t, S, T : Enumerates(s, S) /\ Enumerates(t, T) /\ S \cap T = {} =>
                           Enumerates(s \o t, S \cup T)
<1>1. Enumerates(<<>>, {})
  BY DEF Enumerates
<1>2. ASSUME NEW x
      PROVE  Enumerates(<<x>>, {x})
  <2>1. <<x>> \in Seq({x}) /\ DOMAIN <<x>> = {1} /\ <<x>>[1] = x
    OBVIOUS
  <2> QED
    BY <2>1 DEF Enumerates
<1>3. ASSUME NEW s, NEW t, NEW S, NEW T, Enumerates(s, S), Enumerates(t, T), S \cap T = {}
      PROVE  Enumerates(s \o t, S \cup T)
  <2> DEFINE both == s \o t
             U == S \cup T
  <2>1. /\ s \in Seq(S) /\ t \in Seq(T)
        /\ s \in Seq(U) /\ t \in Seq(U)
    BY <1>3 DEF Enumerates
  <2>2. /\ Len(s) \in Nat /\ DOMAIN s = 1..Len(s) /\ Len(t) \in Nat /\ DOMAIN t = 1..Len(t)
        /\ \A i \in 1..Len(s) : s[i] \in S
        /\ \A i \in 1..Len(t) : t[i] \in T
    BY <2>1, LenProperties, ElementOfSeq
  <2> HIDE DEF U
  <2>3. /\ both \in Seq(U) /\ Len(both) = Len(s) + Len(t)
        /\ \A i \in 1..(Len(s) + Len(t)) :
               both[i] = IF i <= Len(s) THEN s[i] ELSE t[i - Len(s)]
    BY <2>1, ConcatProperties
  <2>4. DOMAIN both = 1..(Len(s) + Len(t))
    BY <2>3, LenProperties
  <2> HIDE DEF both
  <2>5. /\ \A i \in 1..Len(s) : i \in DOMAIN both /\ both[i] = s[i]
        /\ \A i \in 1..Len(t) : Len(s) + i \in DOMAIN both /\ both[Len(s) + i] = t[i]
    BY <2>2, <2>3, <2>4
  <2>6. ASSUME NEW i \in DOMAIN both
        PROVE  \/ i \in 1..Len(s) /\ both[i] = s[i]
               \/ i - Len(s) \in 1..Len(t) /\ both[i] = t[i - Len(s)]
    <3>1. i \in 1..(Len(s) + Len(t))
      BY <2>4, <2>6
    <3>2. both[i] = IF i <= Len(s) THEN s[i] ELSE t[i - Len(s)]
      BY <2>3, <3>1
    <3>3. Len(s) \in Nat /\ Len(t) \in Nat
      BY <2>2
    <3>4. IF i <= Len(s) THEN i \in 1..Len(s) ELSE i - Len(s) \in 1..Len(t)
      BY <3>1, <3>3
    <3> QED
      BY <3>2, <3>4
  <2>7. ASSUME NEW x \in U
        PROVE  \E i \in DOMAIN both : both[i] = x
    <3>1. CASE x \in S
      <4>1. PICK i \in 1..Len(s) : s[i] = x
        BY <1>3, <2>2, <3>1 DEF Enumerates
      <4> QED
        BY <2>5, <4>1
    <3>2. CASE x \in T
      <4>1. PICK i \in 1..Len(t) : t[i] = x
        BY <1>3, <2>2, <3>2 DEF Enumerates
      <4> QED
        BY <2>5, <4>1
    <3> QED
      BY <3>1, <3>2 DEF U
  <2>8. ASSUME NEW i \in DOMAIN both, NEW j \in DOMAIN both, both[i] = both[j]
        PROVE  i = j
    <3>1. CASE i \in 1..Len(s) /\ j \in 1..Len(s)
      BY <1>3, <2>2, <2>5, <2>8, <3>1 DEF Enumerates
    <3>2. CASE i - Len(s) \in 1..Len(t) /\ j - Len(s) \in 1..Len(t)
      <4> DEFINE k == i - Len(s)
                 l == j - Len(s)
      <4>1. i \in Nat /\ j \in Nat /\ i = Len(s) + k /\ j = Len(s) + l
        BY <2>2, <2>4
      <4>2. t[k] = t[l]
        BY <2>5, <2>8, <3>2, <4>1
      <4>3. k = l
        BY <1>3, <2>2, <3>2, <4>2 DEF Enumerates
      <4> QED
        BY <4>1, <4>3
    <3>3. CASE i \in 1..Len(s) /\ j - Len(s) \in 1..Len(t)
      <4>1. both[i] \in S
        BY <2>2, <2>5, <3>3
      <4>2. j \notin 1..Len(s)
        BY <2>2, <2>4, <3>3
      <4>3. both[j] \in T
        BY <2>2, <2>6, <4>2
      <4> QED
        BY <1>3, <2>8, <4>1, <4>3
    <3>4. CASE i - Len(s) \in 1..Len(t) /\ j \in 1..Len(s)
      <4>1. both[j] \in S
        BY <2>2, <2>5, <3>4
      <4>2. i \notin 1..Len(s)
        BY <2>2, <2>4, <3>4
      <4>3. both[i] \in T
        BY <2>2, <2>6, <4>2
      <4> QED
        BY <1>3, <2>8, <4>1, <4>3
    <3> QED
      BY <2>6, <3>1, <3>2, <3>3, <3>4
  <2> QED
    BY <2>3, <2>7, <2>8 DEF Enumerates, both, U
<1> QED
  BY <1>1, <1>2, <1>3

\* A finite set has one.
LEMMA SetsEnumerated ==
    ASSUME NEW S, IsFiniteSet(S)
    PROVE  Enumerates(SetToSeq(S), S)
<1> DEFINE n == Cardinality(S)
           seq == SetToSeq(S)
<1>1. n \in Nat /\ ExistsBijection(1..n, S)
  BY FS_CardinalityType
<1>2. PICK f : f \in Injection(1..n, S)
  BY <1>1 DEF ExistsBijection, Bijection
<1>3. \E g \in [1..n -> S] : IsInjective(g)
  BY <1>2 DEF Injection
<1>4. seq \in [1..n -> S] /\ IsInjective(seq)
  BY <1>3 DEF SetToSeq
<1> HIDE DEF n, seq
<1>5. \A i, j \in 1..n : seq[i] = seq[j] => i = j
  BY <1>4 DEF IsInjective
<1>6. seq \in Injection(1..n, S)
  BY <1>4 DEF Injection
<1>7. IsFiniteSet(1..n) /\ Cardinality(1..n) = n
  BY <1>1, FS_Interval
<1>8. seq \in Surjection(1..n, S)
  BY <1>6, <1>7, FS_Injection DEF n
<1>9. \A x \in S : \E i \in 1..n : seq[i] = x
  BY <1>8 DEF Surjection
<1>10. seq \in Seq(S) /\ DOMAIN seq = 1..n
  BY <1>1, <1>4, SeqDef
<1> QED
  BY <1>5, <1>9, <1>10 DEF Enumerates, seq

\* A sequence of trees at their places is what may be asked for.
LEMMA TreesAreAsked ==
    ASSUME NEW S, \A s \in S : IsScope(s), NEW scopes \in Seq(S)
    PROVE  IsOperation(scopes)
<1> DEFINE T == { scopes[i] : i \in DOMAIN scopes }
<1>1. Len(scopes) \in Nat /\ DOMAIN scopes = 1..Len(scopes)
      /\ \A i \in DOMAIN scopes : scopes[i] \in S
  BY LenProperties, ElementOfSeq
<1>2. \A i \in DOMAIN scopes : scopes[i] \in T
  OBVIOUS
<1> HIDE DEF T
<1>3. scopes \in Seq(T)
  BY <1>1, <1>2, SeqDef, LenProperties
<1> QED
  BY <1>1, <1>3 DEF IsOperation, T

\* Scopes that are posed and apart are well posed together, in any order.
LEMMA PosedTogether ==
    ASSUME NEW scopes, IsOperation(scopes), NEW S, Enumerates(scopes, S),
           \A x \in S : Posed(x),
           \A x, y \in S : x # y => Apart(x, y)
    PROVE  WellPosed(scopes)
<1>1. /\ \A i \in DOMAIN scopes : scopes[i] \in S
      /\ \A i, j \in DOMAIN scopes : i # j => scopes[i] # scopes[j]
  <2>1. scopes \in Seq(S)
    BY DEF Enumerates
  <2>2. \A i \in DOMAIN scopes : scopes[i] \in S
    BY <2>1, LenProperties, ElementOfSeq
  <2> QED
    BY <2>2 DEF Enumerates
<1>2. \A i \in DOMAIN scopes : Posed(scopes[i])
  BY <1>1
<1>3. \A i, j \in DOMAIN scopes : i # j => Apart(scopes[i], scopes[j])
  BY <1>1
<1>4. ASSUME NEW i \in DOMAIN scopes, NEW j \in DOMAIN scopes, i # j,
             scopes[i].intent # "merge",
             NEW path \in {scopes[j].path} \cup
                          IF scopes[j].intent = "merge" THEN Required(scopes[j].node) ELSE {}
      PROVE  ~IsPrefix(scopes[i].path, path)
  BY <1>3, <1>4 DEF Apart
<1>5. ASSUME NEW i \in DOMAIN scopes, NEW j \in DOMAIN scopes,
             scopes[i].intent # "absent", scopes[j].intent # "absent",
             NEW v \in scopes[i].node.values, NEW w \in scopes[j].node.values,
             Front(v) = Front(w) /\ Front(v) \in SingleLeaves
      PROVE  v = w
  <2>1. CASE i = j
    BY <1>2, <1>5, <2>1 DEF Posed, Single
  <2>2. CASE i # j
    BY <1>3, <1>5, <2>2 DEF Apart
  <2> QED
    BY <2>1, <2>2
<1>6. Compatible(scopes)
  BY <1>4, <1>5 DEF Compatible
<1> QED
  BY <1>2, <1>6 DEF WellPosed, Posed

-----------------------------------------------------------------------------
(* Where the fields of a call belong.                                       *)

Typed(c) == DOMAIN c.args \ {"values"}

Local(c, field) ==
    IF field = "members" THEN <<GroupTable[c.group_type][2]>> ELSE FieldKeys[field]

\* Below the object there are one or two keys of each field.
LEMMA Locals ==
    ASSUME NEW c, IsCall(c), ~Rejects(c), NEW field \in Typed(c)
    PROVE  /\ FieldPath(c, field) = ObjectPath(c) \o Local(c, field)
           /\ Local(c, field) \in Words
           /\ IF c.op = "user" /\ field # "full_name" THEN Len(Local(c, field)) = 2
              ELSE Len(Local(c, field)) = 1
<1>1. FieldPath(c, field) = ObjectPath(c) \o Local(c, field)
  BY DEF FieldPath, Local
<1>2. field \in Fields[c.op] /\ c.op \in DOMAIN Fields
  BY DEF IsCall, Typed
<1>3. CASE field = "members"
  <2>1. c.op = "firewall_group"
    BY <1>2, <1>3 DEF Fields
  <2> DEFINE key == GroupTable[c.group_type][2]
  <2>2. c.group_type \in DOMAIN GroupTable
    BY <2>1 DEF Rejects, GroupRejects
  <2>3. key \in STRING
    BY <2>2, NameAssumption
  <2> HIDE DEF key
  <2>4. <<key>> \in Seq(STRING) /\ Len(<<key>>) = 1
    BY <2>3, OneElement
  <2> QED
    BY <1>1, <1>3, <2>1, <2>4 DEF Local, key, Words
<1>4. CASE field # "members"
  <2>1. Local(c, field) = FieldKeys[field] /\ field \in DOMAIN FieldKeys
    BY <1>2, <1>4 DEF Local, Fields, FieldKeys, Typed
  <2>2. FieldKeys[field] \in Seq(STRING)
    BY <2>1, NameAssumption
  <2>3. CASE c.op = "user"
    BY <1>1, <1>2, <1>4, <2>1, <2>2, <2>3 DEF Fields, FieldKeys, Words, Typed
  <2>4. CASE c.op # "user"
    BY <1>1, <1>2, <1>4, <2>1, <2>2, <2>4 DEF Fields, FieldKeys, Words, Typed
  <2> QED
    BY <2>3, <2>4
<1> QED
  BY <1>3, <1>4

\* No two fields have the same keys.
LEMMA LocalsDiffer ==
    ASSUME NEW c, IsCall(c), ~Rejects(c), NEW f \in Typed(c), NEW g \in Typed(c), f # g
    PROVE  \E i \in {1, 2} : /\ i <= Len(Local(c, f)) /\ i <= Len(Local(c, g))
                             /\ Local(c, f)[i] # Local(c, g)[i]
<1>1. /\ c.op \in DOMAIN Fields /\ f \in Fields[c.op] \ {"values"}
      /\ g \in Fields[c.op] \ {"values"}
  BY DEF IsCall, Typed
<1>2. CASE c.op = "system_basics"
  BY <1>1, <1>2 DEF Fields, Local, FieldKeys
<1>3. CASE c.op = "interface"
  BY <1>1, <1>3 DEF Fields, Local, FieldKeys
<1>4. CASE c.op = "static_route"
  BY <1>1, <1>4 DEF Fields
<1>5. CASE c.op = "user"
  BY <1>1, <1>5 DEF Fields, Local, FieldKeys
<1>6. CASE c.op = "firewall_group"
  <2>1. c.group_type \in DOMAIN GroupTable
    BY <1>6 DEF Rejects, GroupRejects
  <2> DEFINE key == GroupTable[c.group_type][2]
  <2>2. key # "description"
    BY <2>1 DEF GroupTable
  <2>3. {f, g} = {"members", "description"}
    BY <1>1, <1>6 DEF Fields
  <2> HIDE DEF key
  <2>4. Local(c, "members") = <<key>> /\ Local(c, "description") = <<"description">>
    BY DEF Local, FieldKeys, key
  <2>5. /\ Len(Local(c, f)) = 1 /\ Len(Local(c, g)) = 1
        /\ Local(c, f)[1] # Local(c, g)[1]
    BY <2>2, <2>3, <2>4
  <2> QED
    BY <2>5
<1>7. CASE c.op = "firewall_ruleset"
  BY <1>1, <1>7 DEF Fields, Local, FieldKeys
<1> QED
  BY <1>1, <1>2, <1>3, <1>4, <1>5, <1>6, <1>7 DEF Fields

\* What a field owns has no place in `values`.
LEMMA LocalsOutside ==
    ASSUME NEW c, IsCall(c), ~Rejects(c), ~Raises(c), NEW f \in Typed(c),
           "values" \in DOMAIN c.args
    PROVE  Local(c, f)[1] \notin Keys(c.args["values"])
<1> DEFINE keys == Keys(c.args["values"])
<1>1. /\ c.op \in DOMAIN Fields /\ f \in Fields[c.op] \ {"values"}
      /\ "values" \in Fields[c.op]
  BY DEF IsCall, Typed
<1>2. \A others : ~Collides(c, others) => keys \cap others = {}
  BY DEF Collides, Given
<1> HIDE DEF keys
<1>3. CASE c.op = "interface"
  <2>1. keys \cap {"address", "description", "mtu", "disable"} = {}
    BY <1>2, <1>3 DEF Rejects, InterfaceRejects
  <2>2. Local(c, f)[1] \in {"address", "description", "mtu", "disable"}
    BY <1>1, <1>3 DEF Fields, Local, FieldKeys
  <2> QED
    BY <2>1, <2>2 DEF keys
<1>4. CASE c.op = "static_route"
  <2>1. f = "next_hops" /\ Given(c, "next_hops")
    BY <1>1, <1>4 DEF Fields, Given, Typed
  <2>2. keys \cap {"next-hop"} = {}
    BY <1>2, <1>4, <2>1 DEF Rejects, StaticRouteRejects
  <2>3. Local(c, f)[1] = "next-hop"
    BY <2>1 DEF Local, FieldKeys
  <2> QED
    BY <2>2, <2>3 DEF keys
<1>5. CASE c.op = "firewall_ruleset"
  <2>1. ~RulesetRejects(c) /\ ~RulesetRaises(c)
    BY <1>5 DEF Rejects, Raises
  <2>2. keys \cap {"default-action", "description", "rule"} = {}
    BY <1>2, <2>1 DEF RulesetRejects
  <2>3. Local(c, f)[1] \in {"default-action", "description", "rule"}
    BY <1>1, <1>5 DEF Fields, Local, FieldKeys
  <2> QED
    BY <2>2, <2>3 DEF keys
<1> QED
  BY <1>1, <1>3, <1>4, <1>5 DEF Fields

\* The object is a node of the grammar.
LEMMA Objects ==
    ASSUME NEW c, Fits(c)
    PROVE  LET object == ObjectPath(c)
           IN  /\ object \in Words \ {<<>>} /\ object \in Paths /\ Len(object) \in Nat
               /\ object \notin Leaves \cup Tags /\ Front(object) \notin Leaves
               /\ \A n \in NeedBody : ~IsStrictPrefix(n, object)
               /\ c.op # "static_route" => object \notin NeedBody
<1> DEFINE object == ObjectPath(c)
<1>1. /\ object \in Paths \ (Leaves \cup Tags) /\ Front(object) \notin Leaves
      /\ \A n \in NeedBody : ~IsStrictPrefix(n, object)
      /\ c.op # "static_route" => object \notin NeedBody
  BY DEF Fits
<1> HIDE DEF object
<1>2. object \in Words \ {<<>>}
  BY <1>1, Grammar
<1>3. Len(object) \in Nat
  BY <1>2, LenProperties DEF Words
<1> QED
  BY <1>1, <1>2, <1>3 DEF object

\* Each field has its place below the object.
LEMMA FieldPlaces ==
    ASSUME NEW c, Fits(c), IsCall(c), ~Rejects(c), NEW field \in Typed(c)
    PROVE  LET path   == FieldPath(c, field)
               object == ObjectPath(c)
               local  == Local(c, field)
           IN  /\ path \in Words \ {<<>>} /\ IsStrictPrefix(object, path)
               /\ Len(path) = Len(object) + Len(local)
               /\ 1 <= Len(local) /\ \A i \in 1..Len(local) : path[Len(object) + i] = local[i]
               /\ path[Len(object) + 1] = local[1]
               /\ Len(local) = 1 => path = Append(object, local[1]) /\ local[1] \in STRING
<1> DEFINE path   == FieldPath(c, field)
           object == ObjectPath(c)
           local  == Local(c, field)
<1>1. /\ path = object \o local /\ local \in Words /\ Len(local) \in {1, 2}
  BY Locals
<1>2. object \in Words /\ Len(object) \in Nat
  BY Objects
<1> HIDE DEF path, object, local
<1>3. /\ path \in Words /\ Len(path) = Len(object) + Len(local)
      /\ \A i \in 1..Len(local) : path[Len(object) + i] = local[i]
  BY <1>1, <1>2, Joint
<1>4. local # <<>> /\ path # <<>>
  <2> DEFINE m == Len(object)
             l == Len(local)
  <2>1. m \in Nat /\ l \in {1, 2} /\ Len(path) = m + l
    BY <1>1, <1>2, <1>3
  <2> HIDE DEF m, l
  <2>2. l # 0 /\ Len(path) # 0
    BY <2>1
  <2> QED
    BY <2>2 DEF l
<1>5. IsPrefix(object, path) /\ path # object
  BY <1>1, <1>2, <1>4, BehindPath
<1>6. IsStrictPrefix(object, path)
  BY <1>2, <1>3, <1>5, StrictOrder
<1>7. path[Len(object) + 1] = local[1]
  BY <1>1, <1>3
<1>8. ASSUME Len(local) = 1
      PROVE  path = Append(object, local[1]) /\ local[1] \in STRING
  <2> DEFINE T == STRING
             key == local[1]
  <2>1. local \in Seq(T)
    BY <1>1 DEF Words
  <2> HIDE DEF T
  <2>2. key \in T
    BY <1>8, <2>1, ElementOfSeq
  <2> HIDE DEF key
  <2>3. <<key>> \in Seq(T) /\ Len(<<key>>) = 1 /\ <<key>>[1] = key
    BY <2>2, OneElement
  <2>4. \A i \in 1..Len(local) : local[i] = <<key>>[i]
    BY <1>8, <2>3 DEF key
  <2>5. local = <<key>>
    BY <1>8, <2>1, <2>3, <2>4, SeqEqual
  <2>6. Append(object, key) = object \o <<key>>
    BY <1>2, <2>2, OneKey DEF T
  <2> QED
    BY <1>1, <2>2, <2>5, <2>6 DEF T, key
<1> QED
  BY <1>1, <1>3, <1>4, <1>6, <1>7, <1>8 DEF path, object, local

\* What a field owns lies at or below these.
Roots(c, field) ==
    IF field = "values" THEN { Append(ObjectPath(c), key) : key \in Keys(c.args[field]) }
    ELSE {FieldPath(c, field)}

\* The keys of a tree are strings.
LEMMA KeysAreStrings == ASSUME NEW tree \in TreeType PROVE Keys(tree) \subseteq STRING
<1> SUFFICES ASSUME NEW path \in Present(tree) \ {<<>>}
             PROVE  path[1] \in STRING
  BY DEF Keys
<1> DEFINE T == STRING
<1>1. path \in Seq(T) /\ path # <<>>
  BY DEF Present, TreeType
<1> HIDE DEF T
<1>2. path[1] \in T
  BY <1>1, ElementOfSeq, LenProperties, EmptySeq
<1> QED
  BY <1>2 DEF T

\* Each root is below the object, and the first key behind it tells which.
LEMMA RootFacts ==
    ASSUME NEW c, Fits(c), IsCall(c), ~Rejects(c), NEW field \in DOMAIN c.args,
           NEW root \in Roots(c, field)
    PROVE  /\ root \in Words \ {<<>>} /\ IsStrictPrefix(ObjectPath(c), root)
           /\ Len(ObjectPath(c)) + 1 <= Len(root)
           /\ IF field = "values"
              THEN root[Len(ObjectPath(c)) + 1] \in Keys(c.args[field])
              ELSE root[Len(ObjectPath(c)) + 1] = Local(c, field)[1]
<1> DEFINE object == ObjectPath(c)
<1>1. object \in Words /\ Len(object) \in Nat
  BY Objects
<1>2. CASE field = "values"
  <2>1. c.args[field] \in TreeType
    BY <1>2 DEF IsCall, Subtrees
  <2>2. PICK key \in Keys(c.args[field]) : root = Append(object, key)
    BY <1>2 DEF Roots
  <2>3. key \in STRING
    BY <2>1, <2>2, KeysAreStrings
  <2> HIDE DEF object
  <2>4. /\ Append(object, key) \in Words \ {<<>>} /\ IsStrictPrefix(object, Append(object, key))
        /\ Len(Append(object, key)) = Len(object) + 1
        /\ Append(object, key)[Len(object) + 1] = key
    BY <1>1, <2>3, OneKey
  <2>5. root = Append(object, key)
    BY <2>2 DEF object
  <2> QED
    BY <1>1, <1>2, <2>2, <2>4, <2>5 DEF object
<1>3. CASE field # "values"
  <2>1. root = FieldPath(c, field) /\ field \in Typed(c)
    BY <1>3 DEF Roots, Typed
  <2> QED
    BY <1>1, <1>3, <2>1, FieldPlaces, Locals
<1> QED
  BY <1>2, <1>3

\* Roots of different fields do not meet.
LEMMA RootsApart ==
    ASSUME NEW c, Fits(c), IsCall(c), ~Rejects(c), ~Raises(c),
           NEW f \in DOMAIN c.args, NEW g \in DOMAIN c.args, f # g,
           NEW p \in Roots(c, f), NEW q \in Roots(c, g)
    PROVE  ~IsPrefix(p, q) /\ ~IsPrefix(q, p)
<1> DEFINE n == Len(ObjectPath(c))
<1>1. n \in Nat
  BY Objects
<1>2. /\ p \in Words /\ q \in Words /\ n + 1 <= Len(p) /\ n + 1 <= Len(q)
  BY RootFacts
<1>3. CASE f # "values" /\ g # "values"
  <2>1. f \in Typed(c) /\ g \in Typed(c) /\ p = FieldPath(c, f) /\ q = FieldPath(c, g)
    BY <1>3 DEF Typed, Roots
  <2>2. PICK i \in {1, 2} : /\ i <= Len(Local(c, f)) /\ i <= Len(Local(c, g))
                            /\ Local(c, f)[i] # Local(c, g)[i]
    BY <2>1, LocalsDiffer
  <2>3. Len(Local(c, f)) \in Nat /\ Len(Local(c, g)) \in Nat
    BY <2>1, Locals, LenProperties DEF Words
  <2>4. /\ Len(p) = n + Len(Local(c, f)) /\ p[n + i] = Local(c, f)[i]
        /\ Len(q) = n + Len(Local(c, g)) /\ q[n + i] = Local(c, g)[i]
    BY <2>1, <2>2, <2>3, FieldPlaces
  <2> DEFINE k == n + i
  <2>5. k \in Nat /\ 1 <= k /\ k <= Len(p) /\ k <= Len(q)
    <3> DEFINE l == Len(Local(c, f))
               m == Len(Local(c, g))
    <3>1. /\ n \in Nat /\ l \in Nat /\ m \in Nat /\ i \in {1, 2} /\ i <= l /\ i <= m
          /\ Len(p) = n + l /\ Len(q) = n + m
      BY <1>1, <2>2, <2>3, <2>4
    <3> HIDE DEF n, l, m
    <3> QED
      BY <3>1
  <2>6. p[k] # q[k]
    BY <2>2, <2>4
  <2> HIDE DEF k
  <2> QED
    BY <1>2, <2>5, <2>6, Differ
<1>4. CASE f = "values" \/ g = "values"
  <2> DEFINE k == n + 1
  <2>1. k \in Nat /\ 1 <= k
    BY <1>1
  <2>2. p[k] # q[k]
    <3>1. CASE f = "values"
      <4>1. p[k] \in Keys(c.args["values"])
        BY <3>1, RootFacts
      <4>2. q[k] = Local(c, g)[1] /\ g \in Typed(c)
        BY <3>1, RootFacts DEF Typed
      <4> QED
        BY <3>1, <4>1, <4>2, LocalsOutside
    <3>2. CASE g = "values"
      <4>1. q[k] \in Keys(c.args["values"])
        BY <3>2, RootFacts
      <4>2. p[k] = Local(c, f)[1] /\ f \in Typed(c)
        BY <3>2, RootFacts DEF Typed
      <4> QED
        BY <3>2, <4>1, <4>2, LocalsOutside
    <3> QED
      BY <1>4, <3>1, <3>2
  <2>3. k <= Len(p) /\ k <= Len(q)
    BY <1>2
  <2> HIDE DEF k
  <2> QED
    BY <1>2, <2>1, <2>2, <2>3, Differ
<1> QED
  BY <1>3, <1>4

-----------------------------------------------------------------------------
(* Trees at their places.                                                   *)

Parts == {"nodes", "leaves", "values"}

\* Each part of a tree is behind the path it is at.
LEMMA AtIs ==
    ASSUME NEW path, NEW tree, DOMAIN tree = Parts
    PROVE  /\ At(path, tree).nodes = Behind(path, tree.nodes)
           /\ At(path, tree).leaves = Behind(path, tree.leaves)
           /\ At(path, tree).values = Behind(path, tree.values)
           /\ DOMAIN At(path, tree) = Parts
BY DEF At, Parts

\* Nothing, a bare node and a leaf without values.
LEMMA PlainTrees ==
    ASSUME NEW path \in Words
    PROVE  /\ At(path, EmptyTree).nodes = {path} /\ At(path, EmptyTree).leaves = {}
           /\ At(path, EmptyTree).values = {}
           /\ At(path, Leaf({})).nodes = {} /\ At(path, Leaf({})).leaves = {path}
           /\ At(path, Leaf({})).values = {}
<1>1. path \o <<>> = path
  BY ConcatEmptySeq DEF Words
<1> DEFINE bare == EmptyTree
           leaf == Leaf({})
<1>2. /\ DOMAIN bare = Parts /\ bare.nodes = {<<>>} /\ bare.leaves = {} /\ bare.values = {}
  BY DEF EmptyTree, Absent, Parts
<1>3. /\ DOMAIN leaf = Parts /\ leaf.nodes = {} /\ leaf.leaves = {<<>>} /\ leaf.values = {}
  BY DEF Leaf, Parts
<1>4. Behind(path, {<<>>}) = {path} /\ Behind(path, {}) = {}
  BY <1>1 DEF Behind
<1> HIDE DEF bare, leaf
<1>5. /\ At(path, bare).nodes = {path} /\ At(path, bare).leaves = {}
      /\ At(path, bare).values = {}
  <2>1. /\ At(path, bare).nodes = Behind(path, bare.nodes)
        /\ At(path, bare).leaves = Behind(path, bare.leaves)
        /\ At(path, bare).values = Behind(path, bare.values)
    BY <1>2, AtIs
  <2> QED
    BY <1>2, <1>4, <2>1
<1>6. /\ At(path, leaf).nodes = {} /\ At(path, leaf).leaves = {path}
      /\ At(path, leaf).values = {}
  <2>1. /\ At(path, leaf).nodes = Behind(path, leaf.nodes)
        /\ At(path, leaf).leaves = Behind(path, leaf.leaves)
        /\ At(path, leaf).values = Behind(path, leaf.values)
    BY <1>3, AtIs
  <2> QED
    BY <1>3, <1>4, <2>1
<1> QED
  BY <1>5, <1>6 DEF bare, leaf

\* The parts of a tree are sequences.
Wordy(tree) ==
    /\ DOMAIN tree = Parts
    /\ tree.nodes \subseteq Words /\ tree.leaves \subseteq Words /\ tree.values \subseteq Words

\* Nothing at a path.
LEMMA AbsentIsScope ==
    ASSUME NEW path \in Words \ {<<>>}
    PROVE  IsScope(Scope("absent", path, Absent))
<1> DEFINE s == Scope("absent", path, Absent)
<1>1. s.intent = "absent" /\ s.path = path /\ s.node = At(path, Absent)
  BY DEF Scope
<1>2. s.node.nodes = {} /\ s.node.leaves = {} /\ s.node.values = {}
  BY <1>1 DEF At, Behind, Absent
<1> HIDE DEF s
<1>3. IsScope(s)
  BY <1>1, <1>2 DEF IsScope, Intents, Words
<1> QED
  BY <1>3 DEF s

\* A path by itself is a tree.
LEMMA BareIsScope ==
    ASSUME NEW path \in Words \ {<<>>},
           NEW s, s.intent = "merge", s.path = path, s.node = At(path, EmptyTree)
    PROVE  IsScope(s)
<1>1. s.node.nodes = {path} /\ s.node.leaves = {} /\ s.node.values = {}
  BY PlainTrees
<1>2. \A p \in Prefixes(path) \ {path} : ~IsPrefix(path, p)
  BY PrefixesAre, PrefixOrder
<1>3. IsTreeAt(s.node, path)
  BY <1>1, <1>2, PrefixOrder DEF IsTreeAt, Present
<1> QED
  BY <1>1, <1>3 DEF IsScope, Intents, Words

\* A tree lies as its subtrees lie, each behind its key.
LEMMA TreeAt ==
    ASSUME NEW base \in Words, NEW kids, DOMAIN kids \subseteq STRING,
           \A key \in DOMAIN kids : Wordy(kids[key])
    PROVE  LET tree == At(base, Tree(kids))
               kid(key) == At(Append(base, key), kids[key])
           IN  /\ tree.nodes = {base} \cup UNION { kid(key).nodes : key \in DOMAIN kids }
               /\ tree.leaves = UNION { kid(key).leaves : key \in DOMAIN kids }
               /\ tree.values = UNION { kid(key).values : key \in DOMAIN kids }
<1> DEFINE kid(key) == At(Append(base, key), kids[key])
           below(part) == UNION { Behind(<<key>>, kids[key][part]) : key \in DOMAIN kids }
<1>1. ASSUME NEW key \in DOMAIN kids, NEW rest \in Words
      PROVE  base \o (<<key>> \o rest) = Append(base, key) \o rest
  <2> DEFINE one == <<key>>
             T == STRING
  <2>1. Append(base, key) = base \o one
    BY OneKey
  <2>2. base \in Seq(T) /\ rest \in Seq(T) /\ key \in T
    BY DEF Words
  <2> HIDE DEF T
  <2>3. one \in Seq(T)
    BY <2>2, OneElement
  <2> HIDE DEF one
  <2>4. base \o (one \o rest) = (base \o one) \o rest
    BY <2>2, <2>3, ConcatAssociative
  <2> QED
    BY <2>1, <2>4 DEF one
<1>2. ASSUME NEW part \in Parts
      PROVE  Behind(base, below(part)) = UNION { kid(key)[part] : key \in DOMAIN kids }
  <2>1. ASSUME NEW key \in DOMAIN kids
        PROVE  /\ kids[key][part] \subseteq Words
               /\ kid(key)[part] = Behind(Append(base, key), kids[key][part])
    BY AtIs DEF Wordy, Parts
  <2>2. ASSUME NEW q \in Behind(base, below(part))
        PROVE  q \in UNION { kid(key)[part] : key \in DOMAIN kids }
    <3>1. PICK r \in below(part) : q = base \o r
      BY <2>2 DEF Behind
    <3>2. PICK key \in DOMAIN kids : r \in Behind(<<key>>, kids[key][part])
      BY <3>1
    <3>3. PICK rest \in kids[key][part] : r = <<key>> \o rest
      BY <3>2 DEF Behind
    <3>4. q = Append(base, key) \o rest
      BY <1>1, <2>1, <3>1, <3>3
    <3>5. q \in kid(key)[part]
      BY <2>1, <3>4 DEF Behind
    <3> QED
      BY <3>5
  <2>3. ASSUME NEW key \in DOMAIN kids, NEW q \in kid(key)[part]
        PROVE  q \in Behind(base, below(part))
    <3>1. PICK rest \in kids[key][part] : q = Append(base, key) \o rest
      BY <2>1, <2>3 DEF Behind
    <3>2. q = base \o (<<key>> \o rest)
      BY <1>1, <2>1, <3>1
    <3>3. <<key>> \o rest \in below(part)
      BY <3>1 DEF Behind
    <3> HIDE DEF below
    <3> QED
      BY <3>2, <3>3 DEF Behind
  <2> HIDE DEF kid, below
  <2> QED
    BY <2>2, <2>3
<1>3. base \o <<>> = base
  BY ConcatEmptySeq DEF Words
<1> DEFINE tree == Tree(kids)
<1>4. /\ DOMAIN tree = Parts /\ tree.nodes = {<<>>} \cup below("nodes")
      /\ tree.leaves = below("leaves") /\ tree.values = below("values")
  BY DEF Tree, Parts
<1> HIDE DEF kid, below, tree
<1>5. Behind(base, {<<>>} \cup below("nodes")) = {base} \cup Behind(base, below("nodes"))
  BY <1>3 DEF Behind
<1>6. /\ At(base, tree).nodes = {base} \cup Behind(base, below("nodes"))
      /\ At(base, tree).leaves = Behind(base, below("leaves"))
      /\ At(base, tree).values = Behind(base, below("values"))
  <2>1. /\ At(base, tree).nodes = Behind(base, tree.nodes)
        /\ At(base, tree).leaves = Behind(base, tree.leaves)
        /\ At(base, tree).values = Behind(base, tree.values)
    BY <1>4, AtIs
  <2> QED
    BY <1>4, <1>5, <2>1
<1>7. /\ Behind(base, below("nodes")) = UNION { kid(key).nodes : key \in DOMAIN kids }
      /\ Behind(base, below("leaves")) = UNION { kid(key).leaves : key \in DOMAIN kids }
      /\ Behind(base, below("values")) = UNION { kid(key).values : key \in DOMAIN kids }
  BY <1>2 DEF Parts
<1> QED
  BY <1>6, <1>7 DEF kid, tree

\* Two trees in one lie where each of them lies.
LEMMA JoinedAt ==
    ASSUME NEW base, NEW left, NEW right, DOMAIN left = Parts, DOMAIN right = Parts
    PROVE  LET both == At(base, Joined(left, right))
           IN  /\ both.nodes = At(base, left).nodes \cup At(base, right).nodes
               /\ both.leaves = At(base, left).leaves \cup At(base, right).leaves
               /\ both.values = At(base, left).values \cup At(base, right).values
<1> DEFINE joined == Joined(left, right)
<1>1. /\ DOMAIN joined = Parts /\ joined.nodes = left.nodes \cup right.nodes
      /\ joined.leaves = left.leaves \cup right.leaves
      /\ joined.values = left.values \cup right.values
  BY DEF Joined, Parts
<1>2. \A S, T : Behind(base, S \cup T) = Behind(base, S) \cup Behind(base, T)
  BY DEF Behind
<1> HIDE DEF joined
<1>3. /\ At(base, joined).nodes = Behind(base, left.nodes) \cup Behind(base, right.nodes)
      /\ At(base, joined).leaves = Behind(base, left.leaves) \cup Behind(base, right.leaves)
      /\ At(base, joined).values = Behind(base, left.values) \cup Behind(base, right.values)
  BY <1>1, <1>2, AtIs
<1> QED
  BY <1>3, AtIs DEF joined

-----------------------------------------------------------------------------
(* Trees made of trees.                                                     *)

\* A tree that suits its place lies below its path.
LEMMA SuitingTree ==
    ASSUME NEW d, Suits(d), d.intent = "exact"
    PROVE  LET node == d.node
           IN  /\ d.path \in Words \ {<<>>} /\ d.path \in Present(node)
               /\ Front(d.path) \notin Leaves
               /\ Present(node) \cup node.values \subseteq Paths
               /\ \A q \in Allowed(node) : IsPrefix(d.path, q)
               /\ \A q \in Present(node) : Front(q) \notin Leaves
               /\ node.leaves \subseteq Leaves /\ node.nodes \cap Leaves = {}
               /\ \A v \in node.values :
                      /\ Front(v) \in node.leaves /\ v \notin Present(node)
                      /\ IsStrictPrefix(Front(v), v) /\ IsStrictPrefix(d.path, v)
<1> DEFINE m == [intent |-> "merge", path |-> d.path, node |-> d.node]
           node == d.node
<1>1. /\ m.intent = "merge" /\ m.path = d.path /\ m.node = d.node
  OBVIOUS
<1> HIDE DEF m
<1>2. IsScope(m) /\ IsScope(d)
  BY <1>1 DEF Suits, IsScope, Intents
<1>3. HasShape(m) /\ Holdable(m) /\ Single(m.node.values)
  BY <1>1 DEF Suits, HasShape, Holdable, Single
<1>4. Front(m.path) \notin Leaves
  <2>1. m.path \in Present(m.node)
    BY <1>1, <1>2 DEF IsScope, IsTreeAt
  <2> QED
    BY <1>3, <2>1 DEF HasShape
<1>5. Posed(m)
  BY <1>1, <1>2, <1>3, <1>4 DEF Posed
<1>6. /\ d.path \in Present(node) /\ Present(node) \cup node.values \subseteq Paths
      /\ d.path \in Words \ {<<>>}
      /\ \A q \in Present(node) : IsPrefix(d.path, q) /\ Front(q) \notin Leaves
      /\ node.leaves \subseteq Leaves /\ node.nodes \cap Leaves = {}
      /\ \A v \in node.values :
             /\ Front(v) \in node.leaves /\ v \notin Present(node)
             /\ IsStrictPrefix(d.path, v)
  BY <1>1, <1>5, DesiredTree
<1> HIDE DEF node
<1>7. \A v \in node.values : IsStrictPrefix(Front(v), v)
  BY <1>6, Grammar, Parents
<1>8. \A v \in node.values : IsPrefix(d.path, v)
  BY <1>6, Grammar, StrictOrder
<1>9. \A q \in Allowed(node) : IsPrefix(d.path, q)
  BY <1>6, <1>8 DEF Allowed
<1> QED
  BY <1>1, <1>4, <1>6, <1>7, <1>9 DEF node

\* A tree that is made of others, which do not meet but in its root.
Grown(base, node, D) ==
    /\ base \in Paths \ Leaves /\ Front(base) \notin Leaves
    /\ node.nodes = {base} \cup UNION { d.node.nodes : d \in D }
    /\ node.leaves = UNION { d.node.leaves : d \in D }
    /\ node.values = UNION { d.node.values : d \in D }
    /\ \A d \in D : /\ Suits(d) /\ d.intent = "exact" /\ IsPrefix(base, d.path)
                    /\ Required(d.node) \ {base} # {}
    /\ \A d, e \in D : d # e =>
           \A p \in Allowed(d.node) \ {base}, q \in Allowed(e.node) \ {base} : ~IsPrefix(p, q)
    /\ D = {} => base \notin Tags \cup NeedBody

\* Where its parts lie, and what it requires of each.
LEMMA GrownParts ==
    ASSUME NEW base, NEW node, NEW D, Grown(base, node, D)
    PROVE  /\ base \in Words \ {<<>>}
           /\ Allowed(node) = {base} \cup UNION { Allowed(d.node) : d \in D }
           /\ \A q \in Allowed(node) : q \in Paths /\ q \in Words /\ IsPrefix(base, q)
           /\ base \notin node.values /\ base \notin node.leaves
           /\ \A d \in D : base \notin d.node.values /\ base \notin d.node.leaves
           /\ Bare(node) = IF D = {} THEN {base}
                           ELSE UNION { Bare(d.node) \ {base} : d \in D }
           /\ Required(node) = IF D = {} THEN {base}
                               ELSE UNION { Required(d.node) \ {base} : d \in D }
<1>1. base \in Words \ {<<>>} /\ base \notin Leaves /\ Front(base) \notin Leaves /\ base \in Paths
  BY Grammar DEF Grown
<1>2. Allowed(node) = {base} \cup UNION { Allowed(d.node) : d \in D }
  BY DEF Grown, Allowed, Present
<1>3. ASSUME NEW d \in D
      PROVE  /\ \A q \in Allowed(d.node) : q \in Paths /\ q \in Words /\ IsPrefix(base, q)
             /\ base \notin d.node.values /\ base \notin d.node.leaves
             /\ \A v \in d.node.values : /\ Front(v) \in d.node.leaves
                                         /\ IsStrictPrefix(Front(v), v)
             /\ Present(d.node) \subseteq Allowed(d.node)
             /\ Present(d.node) \subseteq Present(node)
  <2>1. Suits(d) /\ d.intent = "exact" /\ IsPrefix(base, d.path)
    BY DEF Grown
  <2>2. /\ d.path \in Words
        /\ Present(d.node) \cup d.node.values \subseteq Paths
        /\ \A q \in Allowed(d.node) : IsPrefix(d.path, q)
        /\ d.node.leaves \subseteq Leaves
        /\ \A v \in d.node.values : Front(v) \in d.node.leaves /\ IsStrictPrefix(Front(v), v)
    BY <2>1, SuitingTree
  <2>3. Allowed(d.node) \subseteq Paths
    BY <2>2 DEF Allowed
  <2>4. Allowed(d.node) \subseteq Words
    BY <2>3, Grammar
  <2>5. \A q \in Allowed(d.node) : IsPrefix(base, q)
    BY <1>1, <2>1, <2>2, <2>4, PrefixOrder
  <2>6. base \notin d.node.values /\ base \notin d.node.leaves
    BY <1>1, <2>2
  <2>7. Present(d.node) \subseteq Allowed(d.node) /\ Present(d.node) \subseteq Present(node)
    BY DEF Allowed, Present, Grown
  <2> QED
    BY <2>2, <2>3, <2>4, <2>5, <2>6, <2>7
<1>4. \A q \in Allowed(node) : q \in Paths /\ q \in Words /\ IsPrefix(base, q)
  BY <1>1, <1>2, <1>3, PrefixOrder
<1>5. base \notin node.values /\ base \notin node.leaves
  BY <1>3 DEF Grown
<1>6. \A q \in Allowed(node) : ~IsStrictPrefix(q, base)
  <2> TAKE q \in Allowed(node)
  <2>1. q \in Words /\ IsPrefix(base, q)
    BY <1>4
  <2> QED
    BY <1>1, <2>1, PrefixOrder, StrictOrder
<1>7. Present(node) = {base} \cup UNION { Present(d.node) : d \in D }
  BY DEF Grown, Present
<1>8. ASSUME NEW d \in D, NEW n \in Bare(d.node), n # base
      PROVE  n \in Bare(node)
  <2>1. n \in d.node.nodes /\ n \in node.nodes /\ n \in Allowed(d.node)
    BY <1>8 DEF Bare, Grown, Allowed, Present
  <2>2. ASSUME NEW p \in Present(node), IsStrictPrefix(n, p)
        PROVE  FALSE
    <3>1. CASE p = base
      BY <1>2, <1>6, <2>1, <2>2, <3>1
    <3>2. ASSUME p # base, NEW e \in D, p \in Present(e.node)
          PROVE  FALSE
      <4>1. e # d
        BY <1>8, <2>2, <3>2 DEF Bare
      <4>2. p \in Allowed(e.node) \ {base} /\ n \in Allowed(d.node) \ {base}
        BY <1>3, <1>8, <2>1, <3>2
      <4>3. ~IsPrefix(n, p)
        BY <4>1, <4>2 DEF Grown
      <4>4. n \in Words /\ p \in Words
        BY <1>3, <4>2
      <4> QED
        BY <2>2, <4>3, <4>4, StrictOrder
    <3> QED
      BY <1>7, <3>1, <3>2
  <2> QED
    BY <2>1, <2>2 DEF Bare
<1>9. ASSUME NEW n \in Bare(node), n # base
      PROVE  \E d \in D : n \in Bare(d.node)
  <2>1. PICK d \in D : n \in d.node.nodes
    BY <1>9 DEF Bare, Grown
  <2>2. n \in Bare(d.node)
    BY <1>3, <1>9, <2>1 DEF Bare
  <2> QED
    BY <2>2
<1>10. ASSUME D # {}
       PROVE  base \notin Bare(node)
  <2>1. PICK d \in D : TRUE
    BY <1>10
  <2>2. PICK r \in Required(d.node) : r # base
    BY DEF Grown
  <2>3. CASE r \in Bare(d.node)
    <3>1. r \in Present(node) /\ r \in Words /\ IsPrefix(base, r)
      BY <1>3, <2>3 DEF Bare, Present
    <3>2. IsStrictPrefix(base, r)
      BY <1>1, <2>2, <3>1, StrictOrder
    <3> QED
      BY <3>1, <3>2 DEF Bare
  <2>4. CASE r \in d.node.values
    <3>1. /\ Front(r) \in Present(node) /\ Front(r) \in Words /\ IsPrefix(base, Front(r))
          /\ Front(r) # base
      BY <1>3, <2>4 DEF Present
    <3>2. IsStrictPrefix(base, Front(r))
      BY <1>1, <3>1, StrictOrder
    <3> QED
      BY <3>1, <3>2 DEF Bare
  <2> QED
    BY <2>2, <2>3, <2>4 DEF Required
<1>11. ASSUME D = {}
       PROVE  Bare(node) = {base} /\ node.values = {}
  <2>1. Present(node) = {base} /\ node.nodes = {base} /\ node.values = {}
    BY <1>7, <1>11 DEF Grown
  <2>2. ~IsStrictPrefix(base, base)
    BY <1>1, StrictOrder
  <2> QED
    BY <2>1, <2>2 DEF Bare
<1>12. Bare(node) = IF D = {} THEN {base} ELSE UNION { Bare(d.node) \ {base} : d \in D }
  BY <1>8, <1>9, <1>10, <1>11
<1>13. ASSUME D # {}
       PROVE  Required(node) = UNION { Required(d.node) \ {base} : d \in D }
  <2>1. node.values = UNION { d.node.values \ {base} : d \in D }
    BY <1>3 DEF Grown
  <2>2. Bare(node) = UNION { Bare(d.node) \ {base} : d \in D }
    BY <1>12, <1>13
  <2> QED
    BY <2>1, <2>2 DEF Required
<1> QED
  BY <1>1, <1>2, <1>3, <1>4, <1>5, <1>11, <1>12, <1>13 DEF Required

\* Such a tree suits its place.
LEMMA GrownSuits ==
    ASSUME NEW base, NEW node, NEW D, Grown(base, node, D),
           NEW scope, scope.intent = "exact", scope.path = base, scope.node = node
    PROVE  HasShape(scope) /\ Holdable(scope) /\ Single(node.values)
<1>1. /\ base \in Words \ {<<>>}
      /\ Allowed(node) = {base} \cup UNION { Allowed(d.node) : d \in D }
      /\ \A q \in Allowed(node) : q \in Paths /\ q \in Words /\ IsPrefix(base, q)
      /\ base \notin node.values /\ base \notin node.leaves
      /\ Bare(node) = IF D = {} THEN {base} ELSE UNION { Bare(d.node) \ {base} : d \in D }
      /\ Required(node) = IF D = {} THEN {base}
                          ELSE UNION { Required(d.node) \ {base} : d \in D }
  BY GrownParts
<1>2. ASSUME NEW d \in D
      PROVE  /\ Suits(d) /\ d.intent = "exact" /\ HasShape(d) /\ Holdable(d)
             /\ Required(d.node) \ {base} # {}
             /\ \A v \in d.node.values : /\ Front(v) \in d.node.leaves
                                         /\ IsStrictPrefix(Front(v), v)
  BY SuitingTree DEF Grown, Suits
<1>3. HasShape(scope)
  BY <1>2 DEF Grown, HasShape, Present
<1>4. Present(node) \cup node.values \subseteq Paths
  BY <1>1 DEF Allowed
<1>5. Bare(node) \cap (Leaves \cup Tags \cup NeedBody) = {}
  <2>1. CASE D = {}
    BY <1>1, <2>1 DEF Grown
  <2>2. CASE D # {}
    BY <1>1, <1>2, <2>2 DEF Holdable
  <2> QED
    BY <2>1, <2>2
<1>6. Required(node) # {}
  <2>1. CASE D = {}
    BY <1>1, <2>1
  <2>2. CASE D # {}
    <3>1. PICK d \in D : TRUE
      BY <2>2
    <3>2. PICK q \in Required(d.node) : q # base
      BY <1>2
    <3>3. Required(node) = UNION { Required(x.node) \ {base} : x \in D }
      BY <1>1, <2>2
    <3>4. q \in UNION { Required(x.node) \ {base} : x \in D }
      BY <3>2
    <3> QED
      BY <3>3, <3>4
  <2> QED
    BY <2>1, <2>2
<1>7. ASSUME NEW n \in node.nodes \cap NeedBody
      PROVE  \E q \in Required(node) : IsStrictPrefix(n, q)
  <2>1. CASE n = base
    <3>1. PICK d \in D : TRUE
      BY <2>1 DEF Grown
    <3>2. PICK q \in Required(d.node) : q # base
      BY <1>2
    <3>3. q \in Required(node)
      BY <1>1, <3>2
    <3>4. q \in Allowed(node)
      BY <3>3 DEF Required, Allowed, Bare, Present
    <3>5. IsStrictPrefix(base, q)
      BY <1>1, <3>2, <3>4, StrictOrder
    <3> QED
      BY <2>1, <3>3, <3>5
  <2>2. CASE n # base
    <3>1. PICK d \in D : n \in d.node.nodes
      BY <2>2 DEF Grown
    <3>2. PICK q \in Required(d.node) : IsStrictPrefix(n, q)
      BY <1>2, <3>1 DEF Holdable
    <3>3. n \in Allowed(node) /\ IsPrefix(base, n)
      BY <1>1 DEF Allowed, Present
    <3>4. q # base
      BY <1>1, <3>2, <3>3, PrefixOrder, StrictOrder
    <3>5. q \in Required(node)
      BY <1>1, <3>2, <3>4
    <3> QED
      BY <3>2, <3>5
  <2> QED
    BY <2>1, <2>2
<1>8. Holdable(scope)
  BY <1>4, <1>5, <1>6, <1>7 DEF Holdable
<1>9. ASSUME NEW v \in node.values, NEW w \in node.values,
             Front(v) = Front(w), Front(v) \in SingleLeaves
      PROVE  v = w
  <2>1. PICK d \in D : v \in d.node.values
    BY DEF Grown
  <2>2. PICK e \in D : w \in e.node.values
    BY DEF Grown
  <2>3. CASE d = e
    BY <1>2, <1>9, <2>1, <2>2, <2>3 DEF Suits
  <2>4. CASE d # e
    <3>1. Front(w) \in d.node.leaves /\ IsStrictPrefix(Front(w), w)
      BY <1>2, <1>9, <2>1, <2>2
    <3>2. Front(w) \in node.leaves /\ w \in node.values
      BY <2>1, <3>1 DEF Grown
    <3>3. Front(w) # base /\ w # base
      BY <1>1, <3>2
    <3>4. Front(w) \in Allowed(d.node) \ {base} /\ w \in Allowed(e.node) \ {base}
      BY <2>2, <3>1, <3>3 DEF Allowed, Present
    <3>5. ~IsPrefix(Front(w), w)
      BY <2>4, <3>4 DEF Grown
    <3>6. Front(w) \in Words /\ w \in Words
      BY <1>1, <3>2 DEF Allowed, Present
    <3> QED
      BY <3>1, <3>5, <3>6, StrictOrder
  <2> QED
    BY <2>3, <2>4
<1> QED
  BY <1>3, <1>8, <1>9 DEF Single

\* It is a tree, if each of the others is at its root or just below.
LEMMA GrownIsTree ==
    ASSUME NEW base, NEW node, NEW D, Grown(base, node, D),
           \A d \in D : d.path = base \/ Front(d.path) = base
    PROVE  /\ IsTreeAt(node, base)
           /\ UNION {node.nodes, node.leaves, node.values} \subseteq Seq(STRING) \ {<<>>}
<1>1. /\ base \in Words \ {<<>>} /\ Present(node) \cup node.values \subseteq Words
      /\ \A q \in Present(node) : IsPrefix(base, q)
      /\ base \notin node.leaves
  BY GrownParts DEF Allowed
<1>2. ASSUME NEW d \in D
      PROVE  /\ d.path \in Words \ {<<>>} /\ IsTreeAt(d.node, d.path)
             /\ UNION {d.node.nodes, d.node.leaves, d.node.values} \subseteq Words \ {<<>>}
             /\ d.path = base \/ Front(d.path) = base
  BY DEF Grown, Suits, IsScope, Words
<1>3. base \in Present(node)
  BY DEF Grown, Present
<1>4. ASSUME NEW q \in node.nodes, q \in node.leaves
      PROVE  FALSE
  <2>1. q # base /\ q \in Words
    BY <1>1, <1>4 DEF Present
  <2>2. PICK d \in D : q \in d.node.nodes
    BY <1>4, <2>1 DEF Grown
  <2>3. PICK e \in D : q \in e.node.leaves
    BY <1>4 DEF Grown
  <2>4. d # e
    BY <1>2, <2>2, <2>3 DEF IsTreeAt
  <2>5. q \in Allowed(d.node) \ {base} /\ q \in Allowed(e.node) \ {base}
    BY <2>1, <2>2, <2>3 DEF Allowed, Present
  <2> QED
    BY <2>1, <2>4, <2>5, PrefixOrder DEF Grown
<1>5. ASSUME NEW q \in Present(node), NEW p \in Words,
             IsPrefix(p, q), p # q, IsPrefix(base, p)
      PROVE  p \in node.nodes
  <2>1. base \in node.nodes /\ q \in Words
    BY <1>1 DEF Grown
  <2>2. CASE q = base
    BY <1>1, <1>5, <2>2, PrefixOrder
  <2>3. ASSUME NEW d \in D, q \in Present(d.node)
        PROVE  p \in node.nodes
    <3>1. d.path \in Words \ {<<>>} /\ IsPrefix(d.path, q)
      BY <1>2, <2>3 DEF IsTreeAt
    <3>2. CASE IsPrefix(d.path, p)
      <4>1. p \in Prefixes(q) \ {q}
        BY <1>5, <2>1, PrefixesAre
      <4>2. p \in d.node.nodes
        BY <1>2, <2>3, <3>2, <4>1 DEF IsTreeAt
      <4> QED
        BY <4>2 DEF Grown
    <3>3. CASE ~IsPrefix(d.path, p)
      <4>1. IsPrefix(p, d.path) /\ p # d.path
        BY <1>5, <2>1, <3>1, <3>3, PrefixOrder
      <4>2. IsPrefix(p, base)
        BY <1>2, <3>1, <4>1, Parents, StrictOrder
      <4> QED
        BY <1>1, <1>5, <2>1, <4>2, PrefixOrder
    <3> QED
      BY <3>2, <3>3
  <2> QED
    BY <2>2, <2>3 DEF Grown, Present
<1>6. ASSUME NEW v \in node.values
      PROVE  Len(v) > 1 /\ Front(v) \in node.leaves
  <2>1. PICK d \in D : v \in d.node.values
    BY DEF Grown
  <2> QED
    BY <1>2, <2>1 DEF Grown, IsTreeAt
<1>7. \A q \in Present(node) : \A p \in Prefixes(q) \ {q} : IsPrefix(base, p) => p \in node.nodes
  BY <1>1, <1>5, PrefixesAre
<1>8. UNION {node.nodes, node.leaves, node.values} \subseteq Words \ {<<>>}
  BY <1>1, <1>2 DEF Grown
<1> QED
  BY <1>1, <1>3, <1>4, <1>6, <1>7, <1>8 DEF IsTreeAt, Words

-----------------------------------------------------------------------------
(* What the fields ask for, at its place.                                   *)

\* A scope is what it is made of.
LEMMA ScopeIs ==
    \A intent, path, tree : /\ Scope(intent, path, tree).intent = intent
                            /\ Scope(intent, path, tree).path = path
                            /\ Scope(intent, path, tree).node = At(path, tree)
BY DEF Scope

\* Arguments that are neither refused nor raise, and fit the grammar.
Fine(c) == IsCall(c) /\ ~Rejects(c) /\ ~Raises(c) /\ Fits(c)

\* At or below a root of a field.
Under(c, field, q) == q \in Words /\ \E root \in Roots(c, field) : IsPrefix(root, q)

\* What is below the roots of two fields does not meet, nor does the object lie there.
LEMMA UnderApart ==
    ASSUME NEW c, Fine(c), NEW f \in DOMAIN c.args, NEW p, Under(c, f, p)
    PROVE  /\ \A g \in DOMAIN c.args : \A q : f # g /\ Under(c, g, q) =>
                  ~IsPrefix(p, q) /\ ~IsPrefix(q, p)
           /\ ~IsPrefix(p, ObjectPath(c)) /\ IsPrefix(ObjectPath(c), p) /\ p # ObjectPath(c)
           /\ p \in Words
<1>1. PICK root \in Roots(c, f) : IsPrefix(root, p)
  BY DEF Under
<1> DEFINE object == ObjectPath(c)
<1>2. /\ root \in Words /\ p \in Words /\ object \in Words /\ IsStrictPrefix(object, root)
  BY RootFacts, Objects DEF Fine, Under
<1>3. ASSUME NEW g \in DOMAIN c.args, NEW q, f # g, Under(c, g, q)
      PROVE  ~IsPrefix(p, q) /\ ~IsPrefix(q, p)
  <2>1. PICK other \in Roots(c, g) : IsPrefix(other, q)
    BY <1>3 DEF Under
  <2>2. other \in Words /\ q \in Words
    BY <1>3, RootFacts DEF Under, Fine
  <2>3. ~IsPrefix(root, other) /\ ~IsPrefix(other, root)
    BY <1>3, RootsApart DEF Fine
  <2> QED
    BY <1>1, <1>2, <2>1, <2>2, <2>3, PrefixOrder
<1> HIDE DEF object
<1>4. IsPrefix(object, root) /\ object # root
  BY <1>2, StrictOrder
<1>5. IsPrefix(object, p)
  BY <1>1, <1>2, <1>4, PrefixOrder
<1>6. ~IsPrefix(p, object)
  BY <1>1, <1>2, <1>4, PrefixOrder
<1>7. p # object
  BY <1>2, <1>6, PrefixOrder
<1> QED
  BY <1>2, <1>3, <1>5, <1>6, <1>7 DEF object

\* Every rule has its place below the node of the rules.
LEMMA RulePlaces ==
    ASSUME NEW c, Fine(c), "rules" \in DOMAIN c.args, NEW token \in RuleTokens(c)
    PROVE  LET path == RulePath(c, token)
               node == FieldPath(c, "rules")
           IN  /\ path \in Words \ {<<>>} /\ Front(path) = node /\ IsStrictPrefix(node, path)
               /\ path[Len(node) + 1] = token /\ Len(path) = Len(node) + 1
               /\ node \in Words \ {<<>>} /\ Len(node) \in Nat
               /\ Under(c, "rules", path)
<1>1. token \in STRING
  BY DEF Fine, IsCall
<1>2. FieldPath(c, "rules") \in Words \ {<<>>}
  BY FieldPlaces DEF Fine, Typed
<1> DEFINE node == FieldPath(c, "rules")
           path == Append(node, token)
<1>3. RulePath(c, token) = path
  BY DEF RulePath
<1>4. Roots(c, "rules") = {node}
  BY DEF Roots
<1> HIDE DEF node
<1>5. /\ path \in Words \ {<<>>} /\ Front(path) = node /\ IsStrictPrefix(node, path)
      /\ path[Len(node) + 1] = token /\ Len(path) = Len(node) + 1
  BY <1>1, <1>2, OneKey DEF node
<1>6. Len(node) \in Nat
  BY <1>2, LenProperties DEF node, Words
<1> HIDE DEF path
<1>7. Under(c, "rules", path)
  BY <1>2, <1>4, <1>5, StrictOrder DEF Under, node
<1> QED
  BY <1>2, <1>3, <1>5, <1>6, <1>7 DEF node

\* The paths of different rules do not meet.
LEMMA RulesApart ==
    ASSUME NEW c, Fine(c), "rules" \in DOMAIN c.args,
           NEW s \in RuleTokens(c), NEW t \in RuleTokens(c), s # t
    PROVE  ~IsPrefix(RulePath(c, s), RulePath(c, t))
<1> DEFINE n == Len(FieldPath(c, "rules"))
           k == n + 1
           p == RulePath(c, s)
           q == RulePath(c, t)
<1>1. /\ p \in Words /\ q \in Words /\ n \in Nat /\ Len(p) = k /\ Len(q) = k
      /\ p[k] = s /\ q[k] = t
  BY RulePlaces
<1> HIDE DEF p, q, n
<1>2. k \in Nat /\ 1 <= k
  BY <1>1
<1> HIDE DEF k
<1> QED
  BY <1>1, <1>2, Differ DEF p, q

\* A value below the object is below one of its keys.
LEMMA ValuesUnder ==
    ASSUME NEW c, Fine(c), "values" \in DOMAIN c.args,
           NEW q \in Behind(ObjectPath(c), Present(c.args["values"])), q # ObjectPath(c)
    PROVE  Under(c, "values", q)
<1> DEFINE object == ObjectPath(c)
           values == c.args["values"]
<1>1. object \in Words
  BY Objects DEF Fine
<1>2. PICK r \in Present(values) : q = object \o r
  BY DEF Behind
<1>3. values \in TreeType
  BY DEF Fine, IsCall, Subtrees
<1>4. r \in Words
  BY <1>3 DEF TreeType, Present, Words
<1>5. r # <<>>
  BY <1>1, <1>2, <1>4, BehindPath
<1> DEFINE key == r[1]
<1>6. key \in Keys(values)
  BY <1>2, <1>5 DEF Keys
<1>7. key \in STRING
  BY <1>3, <1>6, KeysAreStrings
<1> HIDE DEF values, object
<1>8. IsPrefix(<<key>>, r) /\ <<key>> \in Words
  <2>1. <<key>> \in Seq(STRING) /\ Len(<<key>>) = 1 /\ <<key>>[1] = key
    BY <1>7, OneElement
  <2>2. Len(r) \in Nat /\ Len(r) # 0
    BY <1>4, <1>5, LenProperties, EmptySeq DEF Words
  <2> DEFINE one == <<key>>
  <2>3. one \in Words /\ Len(one) = 1 /\ one[1] = r[1]
    BY <2>1 DEF Words
  <2> HIDE DEF one
  <2>4. Len(one) <= Len(r) /\ \A i \in 1..Len(one) : one[i] = r[i]
    BY <2>2, <2>3
  <2> QED
    BY <1>4, <2>3, <2>4, PrefixIs DEF one
<1>9. IsPrefix(object \o <<key>>, object \o r)
  BY <1>1, <1>4, <1>8, BehindPath
<1>10. Append(object, key) = object \o <<key>>
  BY <1>1, <1>7, OneKey
<1>11. q \in Words
  BY <1>1, <1>2, <1>4, Joint
<1>12. Append(object, key) \in Roots(c, "values")
  BY <1>6 DEF Roots, object, values
<1> QED
  BY <1>2, <1>9, <1>10, <1>11, <1>12 DEF Under

\* Where what a field asks for is to be: at its path, at the path of a rule, or at
\* the object.
LEMMA DesiredAt ==
    ASSUME NEW c, IsCall(c), NEW field \in DOMAIN c.args, NEW d \in Desired(c, field)
    PROVE  /\ d.intent = "exact"
           /\ field \notin {"values", "rules"} => d.path = FieldPath(c, field)
           /\ field = "values" =>
                  d = Scope("exact", ObjectPath(c), c.args[field]) /\ c.args[field] # EmptyTree
           /\ field = "rules" =>
                  \E key \in DOMAIN c.args[field] :
                      /\ c.args[field][key] # Absent /\ key[2] \in RuleTokens(c)
                      /\ d = Scope("exact", RulePath(c, key[2]), c.args[field][key])
<1>1. CASE field = "rules"
  <2>1. Desired(c, field) = { Scope("exact", RulePath(c, key[2]), c.args[field][key]) :
                                  key \in { k \in DOMAIN c.args[field] : c.args[field][k] # Absent } }
    BY <1>1 DEF Desired, Lists, Subtrees
  <2>2. PICK key \in DOMAIN c.args[field] :
            c.args[field][key] # Absent /\ d = Scope("exact", RulePath(c, key[2]), c.args[field][key])
    BY <2>1
  <2>3. key[2] \in RuleTokens(c)
    BY <1>1 DEF RuleTokens, Rules, Arg, Given
  <2> QED
    BY <1>1, <2>2, <2>3, ScopeIs
<1>2. CASE field = "values"
  BY <1>2, ScopeIs DEF Desired, Lists, Subtrees
<1>3. CASE field \notin {"values", "rules"}
  <2>1. \E tree : d = Scope("exact", FieldPath(c, field), tree)
    BY <1>3 DEF Desired, Subtrees
  <2> QED
    BY <1>3, <2>1, ScopeIs
<1> QED
  BY <1>1, <1>2, <1>3

\* A tree without anything below its root is the empty tree.
LEMMA OnlyRoot ==
    ASSUME NEW path \in Words, NEW tree \in TreeType,
           At(path, tree).nodes = {path}, At(path, tree).leaves = {},
           At(path, tree).values = {}
    PROVE  tree = EmptyTree
<1>1. /\ DOMAIN tree = Parts /\ tree.nodes \subseteq Words
      /\ tree = [nodes |-> tree.nodes, leaves |-> tree.leaves, values |-> tree.values]
  BY DEF TreeType, Parts, Words
<1>2. /\ Behind(path, tree.nodes) = {path} /\ Behind(path, tree.leaves) = {}
      /\ Behind(path, tree.values) = {}
  BY <1>1, AtIs
<1>3. tree.leaves = {} /\ tree.values = {}
  <2>1. \A set : Behind(path, set) = {} => set = {}
    BY DEF Behind
  <2> QED
    BY <1>2, <2>1
<1>4. ASSUME NEW r \in tree.nodes
      PROVE  r = <<>>
  <2>1. path \o r = path
    BY <1>2 DEF Behind
  <2> QED
    BY <1>1, <2>1, BehindPath
<1>5. tree.nodes = {<<>>}
  BY <1>2, <1>4 DEF Behind
<1> DEFINE Bares == [nodes : {{<<>>}}, leaves : {{}}, values : {{}}]
<1>6. tree \in Bares
  BY <1>1, <1>3, <1>5
<1>7. EmptyTree \in Bares
  BY DEF EmptyTree, Absent
<1>8. \A s \in Bares : s = [nodes |-> {<<>>}, leaves |-> {}, values |-> {}]
  OBVIOUS
<1> QED
  BY <1>6, <1>7, <1>8

\* It suits its place, lies under its field but for the object itself, and asks for
\* something below the object.
LEMMA DesiredFacts ==
    ASSUME NEW c, Fine(c), NEW field \in DOMAIN c.args, NEW d \in Desired(c, field)
    PROVE  /\ Suits(d) /\ d.intent = "exact"
           /\ IsPrefix(ObjectPath(c), d.path)
           /\ \A q \in Allowed(d.node) : q = ObjectPath(c) \/ Under(c, field, q)
           /\ Required(d.node) \ {ObjectPath(c)} # {}
           /\ field # "values" => Under(c, field, d.path) /\ ObjectPath(c) \notin Allowed(d.node)
<1> DEFINE object == ObjectPath(c)
           node == d.node
<1>1. IsCall(c) /\ Suits(d) /\ d.intent = "exact"
  BY DesiredAt DEF Fine, Fits
<1>2. /\ d.path \in Words \ {<<>>} /\ d.path \in Present(node)
      /\ Present(node) \cup node.values \subseteq Paths
      /\ \A q \in Allowed(node) : IsPrefix(d.path, q)
      /\ node.leaves \subseteq Leaves /\ node.nodes \cap Leaves = {}
      /\ \A v \in node.values : Front(v) \in node.leaves /\ IsStrictPrefix(Front(v), v)
  BY <1>1, SuitingTree
<1>3. /\ object \in Words /\ object \notin Leaves /\ Front(object) \notin Leaves
  BY Objects DEF Fine
<1>4. Allowed(node) \subseteq Words /\ Required(node) \subseteq Allowed(node) /\ Required(node) # {}
  BY <1>1, <1>2, Grammar DEF Allowed, Required, Bare, Present, Suits
<1>5. CASE field # "values"
  <2>1. Under(c, field, d.path)
    <3>1. CASE field = "rules"
      <4>1. PICK key \in DOMAIN c.args[field] :
                /\ key[2] \in RuleTokens(c)
                /\ d = Scope("exact", RulePath(c, key[2]), c.args[field][key])
        BY <1>1, <3>1, DesiredAt
      <4>2. d.path = RulePath(c, key[2])
        BY <4>1, ScopeIs
      <4> QED
        BY <3>1, <4>1, <4>2, RulePlaces
    <3>2. CASE field # "rules"
      <4>1. d.path = FieldPath(c, field)
        BY <1>1, <1>5, <3>2, DesiredAt
      <4>2. d.path \in Roots(c, field) /\ IsPrefix(d.path, d.path)
        BY <1>2, <1>5, <4>1, PrefixOrder DEF Roots
      <4> QED
        BY <1>2, <4>2 DEF Under
    <3> QED
      BY <3>1, <3>2
  <2>2. ASSUME NEW q \in Allowed(node)
        PROVE  Under(c, field, q)
    <3>1. PICK root \in Roots(c, field) : IsPrefix(root, d.path)
      BY <2>1 DEF Under
    <3>2. root \in Words
      BY RootFacts DEF Fine
    <3>3. IsPrefix(root, q) /\ q \in Words
      BY <1>2, <1>4, <3>1, <3>2, PrefixOrder
    <3> QED
      BY <3>3 DEF Under
  <2>3. object \notin Allowed(node)
    BY <2>2, UnderApart
  <2>4. IsPrefix(object, d.path)
    BY <2>1, UnderApart
  <2> QED
    BY <1>1, <1>4, <1>5, <2>1, <2>2, <2>3, <2>4
<1>6. CASE field = "values"
  <2> DEFINE values == c.args["values"]
  <2>1. d = Scope("exact", object, values) /\ values # EmptyTree /\ values \in TreeType
    BY <1>1, <1>6, DesiredAt DEF IsCall, Subtrees
  <2>2. d.path = object /\ node = At(object, values)
    BY <2>1, ScopeIs
  <2>3. /\ node.nodes = Behind(object, values.nodes)
        /\ node.leaves = Behind(object, values.leaves)
    <3>1. DOMAIN values = Parts
      BY <2>1 DEF TreeType, Parts
    <3> QED
      BY <2>2, <3>1, AtIs
  <2>4. Present(node) = Behind(object, Present(values))
    BY <2>3 DEF Present, Behind
  <2>5. ASSUME NEW q \in Present(node), q # object
        PROVE  Under(c, "values", q)
    BY <1>6, <2>4, <2>5, ValuesUnder
  <2>6. ASSUME NEW v \in node.values
        PROVE  Under(c, "values", v) /\ v # object
    <3>1. /\ Front(v) \in Present(node) /\ Front(v) # object /\ v \in Words /\ Front(v) \in Words
          /\ IsStrictPrefix(Front(v), v)
      BY <1>2, <1>3, <1>4, <2>6 DEF Present, Allowed
    <3>2. PICK root \in Roots(c, "values") : IsPrefix(root, Front(v))
      BY <2>5, <3>1 DEF Under
    <3>3. root \in Words
      BY <1>6, RootFacts DEF Fine
    <3>4. IsPrefix(root, v)
      BY <3>1, <3>2, <3>3, PrefixOrder, StrictOrder
    <3>5. Under(c, "values", v)
      BY <3>1, <3>4 DEF Under
    <3> QED
      BY <1>6, <3>5, UnderApart
  <2>7. \A q \in Allowed(node) : q = object \/ Under(c, "values", q)
    BY <2>5, <2>6 DEF Allowed
  <2>8. Required(node) \ {object} # {}
    <3> SUFFICES ASSUME Required(node) \subseteq {object} PROVE FALSE
      OBVIOUS
    <3>1. node.values = {} /\ Bare(node) = {object}
      BY <1>4, <2>6 DEF Required
    <3>2. object \in node.nodes /\ \A q \in Present(node) : ~IsStrictPrefix(object, q)
      BY <3>1 DEF Bare
    <3>3. \A q \in Present(node) : q \in Words /\ IsPrefix(object, q)
      BY <1>2, <1>4, <2>2 DEF Allowed
    <3>4. \A q \in Present(node) : q = object
      BY <1>3, <3>2, <3>3, StrictOrder
    <3>5. node.leaves = {} /\ node.nodes = {object}
      BY <1>2, <1>3, <3>2, <3>4 DEF Present
    <3> QED
      BY <1>3, <2>1, <2>2, <3>1, <3>5, OnlyRoot
  <2>9. IsPrefix(object, d.path)
    BY <1>3, <2>2, PrefixOrder
  <2> QED
    BY <1>1, <1>6, <2>7, <2>8, <2>9
<1> QED
  BY <1>5, <1>6

-----------------------------------------------------------------------------
(* The rules.                                                               *)

\* The rules of a call, its tokens, and what was refused.
LEMMA RulesAre ==
    ASSUME NEW c, Fine(c), "rules" \in DOMAIN c.args
    PROVE  /\ c.op = "firewall_ruleset" /\ c.present
           /\ Rules(c) = c.args["rules"] /\ RuleTokens(c) \subseteq STRING
           /\ RuleTokens(c) = { key[2] : key \in DOMAIN c.args["rules"] }
           /\ IsFiniteSet(DOMAIN c.args["rules"])
           /\ \A key \in DOMAIN c.args["rules"] : c.args["rules"][key] \in TreeType
           /\ c.replace_rules => \A key \in DOMAIN c.args["rules"] : c.args["rules"][key] # Absent
           /\ ~DuplicateRules(c)
<1>1. c.op = "firewall_ruleset"
  BY DEF Fine, IsCall, Fields
<1>2. ~RulesetRejectsFirst(c)
  BY <1>1 DEF Fine, Rejects, RulesetRejects
<1>3. Rules(c) = c.args["rules"]
  BY DEF Rules, Arg, Given
<1>4. c.present
  BY <1>2 DEF RulesetRejectsFirst, AbsentWithArgs, Fine, IsCall
<1>5. ~DuplicateRules(c) /\ (c.replace_rules => \A key \in DOMAIN Rules(c) : Rules(c)[key] # Absent)
  BY <1>2 DEF RulesetRejectsFirst
<1>6. /\ c.args["rules"] \in [DOMAIN c.args["rules"] -> TreeType]
      /\ IsFiniteSet(DOMAIN c.args["rules"]) /\ RuleTokens(c) \subseteq STRING
  BY DEF Fine, IsCall
<1> QED
  BY <1>1, <1>3, <1>4, <1>5, <1>6 DEF RuleTokens

\* No rule is given twice.
LEMMA TokensDiffer ==
    ASSUME NEW c, Fine(c), "rules" \in DOMAIN c.args,
           NEW j \in DOMAIN c.args["rules"], NEW k \in DOMAIN c.args["rules"], j[2] = k[2]
    PROVE  j = k
<1> DEFINE D == DOMAIN c.args["rules"]
           T == RuleTokens(c)
           f == [key \in D |-> key[2]]
<1>1. IsFiniteSet(D) /\ T = { key[2] : key \in D }
  BY RulesAre
<1>2. ~(Cardinality(T) < Cardinality(D))
  BY RulesAre DEF DuplicateRules
<1>3. j \in D /\ k \in D
  OBVIOUS
<1> HIDE DEF D, T
<1>4. f \in Surjection(D, T)
  <2>1. f \in [D -> T]
    BY <1>1
  <2>2. \A t \in T : \E key \in D : f[key] = t
    BY <1>1
  <2> HIDE DEF f
  <2> QED
    BY <2>1, <2>2 DEF Surjection
<1>5. IsFiniteSet(T) /\ Cardinality(T) <= Cardinality(D)
      /\ (Cardinality(T) = Cardinality(D) <=> f \in Injection(D, T))
  BY <1>1, <1>4, FS_Surjection
<1>6. Cardinality(T) \in Nat /\ Cardinality(D) \in Nat
  BY <1>1, <1>5, FS_CardinalityType
<1>7. Cardinality(T) = Cardinality(D)
  BY <1>2, <1>5, <1>6
<1>8. f \in Injection(D, T)
  BY <1>5, <1>7
<1>9. \A a, b \in DOMAIN f : f[a] = f[b] => a = b
  BY <1>8 DEF Injection, IsInjective
<1> QED
  BY <1>3, <1>9

\* A tree of the type of trees lies in sequences.
LEMMA TreesAreWordy == \A tree \in TreeType : Wordy(tree)
BY DEF TreeType, Wordy, Parts, Words

\* The node of the rules is made of the rules.
LEMMA RuleTreeGrown ==
    ASSUME NEW c, Fine(c), "rules" \in DOMAIN c.args, c.replace_rules,
           DOMAIN c.args["rules"] # {}
    PROVE  Grown(FieldPath(c, "rules"), At(FieldPath(c, "rules"), RuleTree(c)),
                 Desired(c, "rules"))
<1> DEFINE rules == c.args["rules"]
           base == FieldPath(c, "rules")
           chosen(token) == CHOOSE key \in DOMAIN rules : key[2] = token
           kids == [token \in RuleTokens(c) |-> rules[chosen(token)]]
           node == At(base, Tree(kids))
           D == Desired(c, "rules")
           kid(token) == At(Append(base, token), kids[token])
<1>1. /\ Rules(c) = rules /\ RuleTokens(c) \subseteq STRING
      /\ RuleTokens(c) = { key[2] : key \in DOMAIN rules }
      /\ \A key \in DOMAIN rules : rules[key] \in TreeType /\ rules[key] # Absent
  BY RulesAre
<1>2. RuleTree(c) = Tree(kids)
  BY <1>1 DEF RuleTree
<1>3. ASSUME NEW key \in DOMAIN rules
      PROVE  /\ key[2] \in RuleTokens(c) /\ kids[key[2]] = rules[key]
             /\ kid(key[2]) = Scope("exact", RulePath(c, key[2]), rules[key]).node
             /\ Scope("exact", RulePath(c, key[2]), rules[key]) \in D
  <2>1. chosen(key[2]) \in DOMAIN rules /\ chosen(key[2])[2] = key[2]
    OBVIOUS
  <2> HIDE DEF chosen
  <2>2. chosen(key[2]) = key
    BY <2>1, TokensDiffer
  <2>3. key[2] \in RuleTokens(c) /\ kids[key[2]] = rules[key]
    BY <1>1, <2>2
  <2>4. Append(base, key[2]) = RulePath(c, key[2])
    BY DEF RulePath
  <2>5. D = { Scope("exact", RulePath(c, k[2]), rules[k]) :
                  k \in { l \in DOMAIN rules : rules[l] # Absent } }
    BY DEF Desired, Lists, Subtrees
  <2>6. Scope("exact", RulePath(c, key[2]), rules[key]) \in D
    BY <1>1, <2>5
  <2> HIDE DEF kids, D
  <2>7. At(Append(base, key[2]), kids[key[2]]) = At(RulePath(c, key[2]), rules[key])
    BY <2>3, <2>4
  <2>8. Scope("exact", RulePath(c, key[2]), rules[key]).node = At(RulePath(c, key[2]), rules[key])
    BY ScopeIs
  <2> QED
    BY <2>3, <2>6, <2>7, <2>8
<1>4. ASSUME NEW d \in D
      PROVE  \E key \in DOMAIN rules : d = Scope("exact", RulePath(c, key[2]), rules[key])
  BY DesiredAt DEF Fine
<1>5. \A token \in RuleTokens(c) : \E key \in DOMAIN rules : key[2] = token
  BY <1>1
<1>6. DOMAIN kids = RuleTokens(c)
  OBVIOUS
<1> HIDE DEF kids, D
<1>7. base \in Words /\ base \in Paths \ Leaves /\ Front(base) \notin Leaves
  <2>1. base \in Tags /\ Front(base) \notin Leaves
    BY DEF Fine, Fits, Given
  <2> QED
    BY <2>1, Grammar
<1>8. \A token \in DOMAIN kids : Wordy(kids[token])
  BY <1>1, <1>3, <1>5, <1>6, TreesAreWordy
<1>9. /\ node.nodes = {base} \cup UNION { kid(token).nodes : token \in DOMAIN kids }
      /\ node.leaves = UNION { kid(token).leaves : token \in DOMAIN kids }
      /\ node.values = UNION { kid(token).values : token \in DOMAIN kids }
  BY <1>1, <1>6, <1>7, <1>8, TreeAt
<1> HIDE DEF kid, base, node, rules
<1>10. /\ \A d \in D : \E token \in DOMAIN kids : d.node = kid(token)
       /\ \A token \in DOMAIN kids : \E d \in D : d.node = kid(token)
  BY <1>3, <1>4, <1>5, <1>6
<1>11. /\ node.nodes = {base} \cup UNION { d.node.nodes : d \in D }
       /\ node.leaves = UNION { d.node.leaves : d \in D }
       /\ node.values = UNION { d.node.values : d \in D }
  <2>1. UNION { kid(token).nodes : token \in DOMAIN kids } = UNION { d.node.nodes : d \in D }
    BY <1>10
  <2>2. UNION { kid(token).leaves : token \in DOMAIN kids } = UNION { d.node.leaves : d \in D }
    BY <1>10
  <2>3. UNION { kid(token).values : token \in DOMAIN kids } = UNION { d.node.values : d \in D }
    BY <1>10
  <2> QED
    BY <1>9, <2>1, <2>2, <2>3
<1>12. ASSUME NEW d \in D
       PROVE  /\ Suits(d) /\ d.intent = "exact" /\ Required(d.node) # {}
              /\ \A q \in Allowed(d.node) : q \in Words /\ IsPrefix(d.path, q)
              /\ \E token \in RuleTokens(c) : d.path = RulePath(c, token)
              /\ IsStrictPrefix(base, d.path) /\ d.path \in Words
  <2>1. Suits(d) /\ d.intent = "exact"
    BY DesiredFacts DEF D
  <2>2. PICK key \in DOMAIN rules : d = Scope("exact", RulePath(c, key[2]), rules[key])
    BY <1>4
  <2>3. d.path = RulePath(c, key[2]) /\ key[2] \in RuleTokens(c)
    BY <1>1, <2>2, ScopeIs
  <2>4. IsStrictPrefix(base, d.path) /\ d.path \in Words
    BY <2>3, RulePlaces DEF base
  <2>5. \A q \in Allowed(d.node) : q \in Words /\ IsPrefix(d.path, q)
    BY <2>1, SuitingTree, Grammar DEF Allowed
  <2> QED
    BY <2>1, <2>3, <2>4, <2>5 DEF Suits
<1>13. ASSUME NEW d \in D
       PROVE  base \notin Allowed(d.node) /\ Required(d.node) \ {base} # {}
  <2>1. base \notin Allowed(d.node)
    BY <1>7, <1>12, PrefixOrder, StrictOrder
  <2>2. Required(d.node) \subseteq Allowed(d.node)
    BY DEF Required, Allowed, Bare, Present
  <2> QED
    BY <1>12, <2>1, <2>2
<1>14. ASSUME NEW d \in D, NEW e \in D, d # e,
              NEW p \in Allowed(d.node), NEW q \in Allowed(e.node)
       PROVE  ~IsPrefix(p, q)
  <2>1. PICK j \in DOMAIN rules : d = Scope("exact", RulePath(c, j[2]), rules[j])
    BY <1>4
  <2>2. PICK k \in DOMAIN rules : e = Scope("exact", RulePath(c, k[2]), rules[k])
    BY <1>4
  <2>3. j[2] # k[2]
    BY <1>14, <2>1, <2>2, TokensDiffer DEF rules
  <2>4. /\ ~IsPrefix(d.path, e.path) /\ ~IsPrefix(e.path, d.path)
    <3>1. d.path = RulePath(c, j[2]) /\ e.path = RulePath(c, k[2])
          /\ j[2] \in RuleTokens(c) /\ k[2] \in RuleTokens(c)
      BY <1>1, <2>1, <2>2, ScopeIs
    <3> QED
      BY <2>3, <3>1, RulesApart
  <2> QED
    BY <1>12, <2>4, PrefixOrder
<1>15. D # {}
  <2>1. PICK key \in DOMAIN rules : TRUE
    BY DEF rules
  <2> QED
    BY <1>3
<1>16. \A d \in D : IsPrefix(base, d.path)
  BY <1>7, <1>12, StrictOrder
<1>17. Grown(base, node, D)
  BY <1>7, <1>11, <1>12, <1>13, <1>14, <1>15, <1>16 DEF Grown
<1> QED
  BY <1>2, <1>17 DEF base, node, D

-----------------------------------------------------------------------------
(* Objects that are owned as a whole.                                       *)

\* What extends a path to a path is a string.
LEMMA TextIsWord ==
    ASSUME NEW path \in Words, NEW v, path \o <<v>> \in Words
    PROVE  v \in STRING
<1> DEFINE S == STRING
           T == S \cup {v}
           one == <<v>>
           n == Len(path)
<1>1. path \in Seq(S) /\ path \o one \in Seq(S)
  BY DEF Words
<1>2. path \in Seq(T)
  <2> HIDE DEF S, one, n
  <2>1. Len(path) \in Nat /\ path \in [1..Len(path) -> S]
    BY <1>1, LenProperties
  <2>2. path \in [1..Len(path) -> T]
    BY <2>1
  <2> HIDE DEF T
  <2> QED
    BY <2>1, <2>2, SeqDef
<1>3. v \in T
  OBVIOUS
<1> HIDE DEF S, T
<1>4. one \in Seq(T) /\ Len(one) = 1 /\ one[1] = v
  BY <1>3, OneElement
<1> HIDE DEF one
<1>5. n \in Nat
  BY <1>1, LenProperties
<1>6. /\ Len(path \o one) = n + Len(one)
      /\ \A i \in 1..(n + Len(one)) :
             (path \o one)[i] = IF i <= n THEN path[i] ELSE one[i - n]
  BY <1>2, <1>4, ConcatProperties
<1> HIDE DEF n
<1>7. n + 1 \in 1..Len(path \o one) /\ (path \o one)[n + 1] = v
  BY <1>4, <1>5, <1>6
<1>8. v \in S
  BY <1>1, <1>7, ElementOfSeq
<1> QED
  BY <1>8 DEF S

\* A leaf of texts lies in sequences, where it suits its place.
LEMMA LeafIsWordy ==
    ASSUME NEW path \in Words, NEW texts, NEW d, Suits(d), d.intent = "exact",
           d.node = At(path, Leaf(texts))
    PROVE  Wordy(Leaf(texts))
<1>1. /\ DOMAIN Leaf(texts) = Parts /\ Leaf(texts).nodes = {} /\ Leaf(texts).leaves = {<<>>}
      /\ Leaf(texts).values = { <<v>> : v \in texts }
  BY DEF Leaf, Parts
<1>2. d.node.values = Behind(path, Leaf(texts).values)
  BY <1>1, AtIs
<1>3. d.node.values \subseteq Words
  BY SuitingTree, Grammar
<1>4. ASSUME NEW v \in texts
      PROVE  <<v>> \in Words
  <2>1. path \o <<v>> \in Words
    BY <1>1, <1>2, <1>3 DEF Behind
  <2>2. v \in STRING
    BY <2>1, TextIsWord
  <2> QED
    BY <2>2, OneElement DEF Words
<1>5. <<>> \in Words
  BY EmptySeq DEF Words
<1> QED
  BY <1>1, <1>4, <1>5 DEF Wordy

\* All that a call desires.
AllDesired(c) == UNION { Desired(c, field) : field \in DOMAIN c.args }

\* Of the desired trees no two meet, where there is one to a field.
LEMMA AllDesiredApart ==
    ASSUME NEW c, Fine(c), "rules" \notin DOMAIN c.args
    PROVE  LET base == ObjectPath(c)
               D == AllDesired(c)
           IN  /\ \A d \in D : /\ Suits(d) /\ d.intent = "exact" /\ IsPrefix(base, d.path)
                               /\ Required(d.node) \ {base} # {}
               /\ \A d, e \in D : d # e =>
                      \A p \in Allowed(d.node) \ {base}, q \in Allowed(e.node) \ {base} :
                          ~IsPrefix(p, q)
<1> DEFINE base == ObjectPath(c)
           D == AllDesired(c)
<1>1. \A d \in D : /\ Suits(d) /\ d.intent = "exact" /\ IsPrefix(base, d.path)
                   /\ Required(d.node) \ {base} # {}
  BY DesiredFacts DEF AllDesired
<1>2. ASSUME NEW d \in D, NEW e \in D, d # e,
             NEW p \in Allowed(d.node) \ {base}, NEW q \in Allowed(e.node) \ {base}
      PROVE  ~IsPrefix(p, q)
  <2>1. PICK f \in DOMAIN c.args : d \in Desired(c, f)
    BY DEF AllDesired
  <2>2. PICK g \in DOMAIN c.args : e \in Desired(c, g)
    BY DEF AllDesired
  <2>3. Under(c, f, p) /\ Under(c, g, q)
    BY <2>1, <2>2, DesiredFacts
  <2>4. \A field \in DOMAIN c.args : \A x, y \in Desired(c, field) : x = y
    BY DEF Desired
  <2>5. f # g
    BY <1>2, <2>1, <2>2, <2>4
  <2> QED
    BY <2>3, <2>5, UnderApart
<1> QED
  BY <1>1, <1>2

\* A group is made of its members and its description.
LEMMA GroupGrown ==
    ASSUME NEW c, Fine(c), c.op = "firewall_group", c.present
    PROVE  Grown(ObjectPath(c), At(ObjectPath(c), GroupBody(c)), AllDesired(c))
<1> DEFINE base == ObjectPath(c)
           D == AllDesired(c)
           leaf == GroupTable[c.group_type][2]
           members == c.args["members"]
           text == {c.args["description"]}
           keys == (IF members = {} THEN {} ELSE {leaf})
                   \cup (IF Given(c, "description") THEN {"description"} ELSE {})
           kids == [key \in keys |-> IF key = leaf THEN Leaf(members) ELSE Leaf(text)]
           kid(key) == At(Append(base, key), kids[key])
           node == At(base, Tree(kids))
<1>1. /\ "members" \in DOMAIN c.args /\ DOMAIN c.args \subseteq {"members", "description"}
      /\ c.group_type \in DOMAIN GroupTable
  BY DEF Fine, IsCall, Fields, Rejects, GroupRejects, MembersMissing, Given
<1>2. GroupBody(c) = Tree(kids)
  <2>1. Given(c, "description") => c.args["description"] = c.args["description"]
    OBVIOUS
  <2> QED
    BY DEF GroupBody
<1>3. leaf # "description" /\ leaf \in STRING
  BY <1>1, NameAssumption DEF GroupTable
<1>4. base \in Words /\ base \in Paths \ Leaves /\ Front(base) \notin Leaves
      /\ base \notin Tags \cup NeedBody
  BY Objects DEF Fine
<1>5. FieldPath(c, "members") = Append(base, leaf)
  <2>1. Local(c, "members") = <<leaf>> /\ Len(Local(c, "members")) = 1
        /\ Local(c, "members")[1] = leaf
    BY DEF Local
  <2>2. "members" \in Typed(c)
    BY <1>1 DEF Typed
  <2> QED
    BY <2>1, <2>2, FieldPlaces DEF Fine
<1>6. ASSUME "description" \in DOMAIN c.args
      PROVE  /\ FieldPath(c, "description") = Append(base, "description")
             /\ "description" \in STRING
  <2>1. Local(c, "description") = <<"description">> /\ Len(Local(c, "description")) = 1
        /\ Local(c, "description")[1] = "description"
    BY DEF Local, FieldKeys
  <2>2. "description" \in Typed(c)
    BY <1>6 DEF Typed
  <2> QED
    BY <2>1, <2>2, FieldPlaces DEF Fine
<1>7. /\ Desired(c, "members") =
             IF members = {} THEN {} ELSE { Scope("exact", Append(base, leaf), Leaf(members)) }
      /\ "description" \in DOMAIN c.args =>
             Desired(c, "description") =
                 { Scope("exact", Append(base, "description"), Leaf(text)) }
  <2>1. Desired(c, "members") =
            IF c.args["members"] = {} THEN {}
            ELSE { Scope("exact", FieldPath(c, "members"), Leaf(c.args["members"])) }
    BY ONLY DEF Desired, Lists, Subtrees
  <2>2. Desired(c, "description") = { Scope("exact", FieldPath(c, "description"), Leaf(text)) }
    BY DEF Desired, Lists, Subtrees
  <2> QED
    BY <1>5, <1>6, <2>1, <2>2
<1>8. /\ \A key \in keys : Scope("exact", Append(base, key), kids[key]) \in D
      /\ \A d \in D : \E key \in keys : d = Scope("exact", Append(base, key), kids[key])
  <2>1. /\ leaf \in keys <=> members # {}
        /\ "description" \in keys <=> "description" \in DOMAIN c.args
        /\ \A key \in keys : key = leaf \/ key = "description"
        /\ leaf \in keys => kids[leaf] = Leaf(members)
        /\ "description" \in keys => kids["description"] = Leaf(text)
    BY <1>3 DEF Given
  <2>2. \A d : d \in D <=> \/ d \in Desired(c, "members")
                           \/ "description" \in DOMAIN c.args /\ d \in Desired(c, "description")
    BY <1>1 DEF AllDesired
  <2> HIDE DEF keys, kids, D, leaf, members, text, base
  <2> QED
    BY <1>7, <2>1, <2>2
<1>9. \A key \in keys : kids[key] = Leaf(members) \/ kids[key] = Leaf(text)
  OBVIOUS
<1>10. DOMAIN kids = keys /\ keys \subseteq STRING
  <2>1. \A key \in keys : key = leaf \/ (key = "description" /\ "description" \in DOMAIN c.args)
    BY DEF Given
  <2> HIDE DEF keys, leaf
  <2> QED
    BY <1>3, <1>6, <2>1
<1> HIDE DEF kids, keys, D, base, leaf, members, text
<1>11. ASSUME NEW key \in keys
       PROVE  Wordy(kids[key])
  <2>1. PICK d \in D : d = Scope("exact", Append(base, key), kids[key])
    BY <1>8
  <2>2. d.intent = "exact" /\ d.node = At(Append(base, key), kids[key])
    BY <2>1, ScopeIs
  <2>3. Suits(d)
    BY DesiredFacts DEF D, AllDesired
  <2>4. Append(base, key) \in Words
    BY <1>4, <1>10, OneKey
  <2> QED
    BY <1>9, <2>2, <2>3, <2>4, LeafIsWordy
<1>12. /\ node.nodes = {base} \cup UNION { kid(key).nodes : key \in DOMAIN kids }
       /\ node.leaves = UNION { kid(key).leaves : key \in DOMAIN kids }
       /\ node.values = UNION { kid(key).values : key \in DOMAIN kids }
  BY <1>4, <1>10, <1>11, TreeAt
<1>13. /\ \A key \in DOMAIN kids : \E d \in D : d.node = kid(key)
       /\ \A d \in D : \E key \in DOMAIN kids : d.node = kid(key)
  <2>1. \A key : Scope("exact", Append(base, key), kids[key]).node = kid(key)
    BY ScopeIs
  <2> HIDE DEF kid
  <2> QED
    BY <1>8, <1>10, <2>1
<1> HIDE DEF kid, node
<1>14. /\ node.nodes = {base} \cup UNION { d.node.nodes : d \in D }
       /\ node.leaves = UNION { d.node.leaves : d \in D }
       /\ node.values = UNION { d.node.values : d \in D }
  <2>1. UNION { kid(key).nodes : key \in DOMAIN kids } = UNION { d.node.nodes : d \in D }
    BY <1>13
  <2>2. UNION { kid(key).leaves : key \in DOMAIN kids } = UNION { d.node.leaves : d \in D }
    BY <1>13
  <2>3. UNION { kid(key).values : key \in DOMAIN kids } = UNION { d.node.values : d \in D }
    BY <1>13
  <2> QED
    BY <1>12, <2>1, <2>2, <2>3
<1>15. "rules" \notin DOMAIN c.args
  BY <1>1
<1>16. Grown(base, node, D)
  BY <1>4, <1>14, <1>15, AllDesiredApart DEF Grown, base, D
<1> QED
  BY <1>2, <1>16 DEF base, node, D

\* A route is made of its next hops and its open body, and has one of them.
LEMMA RouteGrown ==
    ASSUME NEW c, Fine(c), c.op = "static_route", c.present
    PROVE  Grown(ObjectPath(c), At(ObjectPath(c), RouteBody(c)), AllDesired(c))
<1> DEFINE base == ObjectPath(c)
           D == AllDesired(c)
           hops == c.args["next_hops"]
           values == Arg(c, "values", EmptyTree)
           HasHops == "next_hops" \in DOMAIN c.args /\ hops # EmptyTree
           HasValues == "values" \in DOMAIN c.args /\ values # EmptyTree
           there == Scope("exact", Append(base, "next-hop"), hops)
           open == Scope("exact", base, values)
           kids == [key \in {"next-hop"} |-> hops]
           node == At(base, RouteBody(c))
<1>1. /\ DOMAIN c.args \subseteq {"next_hops", "values"} /\ (HasHops \/ HasValues)
      /\ "next_hops" \in DOMAIN c.args => hops \in TreeType
      /\ values \in TreeType \cup {EmptyTree}
      /\ "values" \in DOMAIN c.args => values = c.args["values"]
  <2>1. DOMAIN c.args \subseteq {"next_hops", "values"}
    BY DEF Fine, IsCall, Fields
  <2>2. HasHops \/ HasValues
    BY DEF Fine, Rejects, StaticRouteRejects, NoNextHops, Arg, Given
  <2>3. \A field \in DOMAIN c.args : field \in Subtrees => c.args[field] \in TreeType
    BY DEF Fine, IsCall
  <2> QED
    BY <2>1, <2>2, <2>3 DEF Arg, Given, Subtrees
<1>2. NoNextHops(c) <=> ~HasHops
  BY DEF NoNextHops, Arg, Given
<1>3. base \in Words /\ base \in Paths \ Leaves /\ Front(base) \notin Leaves
  BY Objects DEF Fine
<1>4. ASSUME "next_hops" \in DOMAIN c.args
      PROVE  /\ FieldPath(c, "next_hops") = Append(base, "next-hop")
             /\ "next-hop" \in STRING
  <2>1. Local(c, "next_hops") = <<"next-hop">> /\ Len(Local(c, "next_hops")) = 1
        /\ Local(c, "next_hops")[1] = "next-hop"
    BY DEF Local, FieldKeys
  <2>2. "next_hops" \in Typed(c)
    BY <1>4 DEF Typed
  <2> QED
    BY <2>1, <2>2, FieldPlaces DEF Fine
<1>5. \A d : d \in D <=> (HasHops /\ d = there) \/ (HasValues /\ d = open)
  <2>1. Desired(c, "next_hops") =
            IF hops = EmptyTree THEN {} ELSE { Scope("exact", FieldPath(c, "next_hops"), hops) }
    BY ONLY DEF Desired, Lists, Subtrees
  <2>2. Desired(c, "values") =
            IF c.args["values"] = EmptyTree THEN {}
            ELSE { Scope("exact", base, c.args["values"]) }
    BY ONLY DEF Desired, Lists, Subtrees
  <2>3. \A d : d \in D <=>
            \/ "next_hops" \in DOMAIN c.args /\ d \in Desired(c, "next_hops")
            \/ "values" \in DOMAIN c.args /\ d \in Desired(c, "values")
    BY <1>1 DEF AllDesired
  <2> HIDE DEF D, base, hops, values
  <2> QED
    BY <1>1, <1>4, <2>1, <2>2, <2>3
<1>6. /\ there.node = At(Append(base, "next-hop"), hops)
      /\ open.node = At(base, values) /\ open.path = base /\ open.intent = "exact"
  BY ScopeIs
<1>7. DOMAIN values = Parts
  BY <1>1 DEF TreeType, EmptyTree, Absent, Parts
<1>8. /\ HasValues => base \in At(base, values).nodes
      /\ ~HasValues => /\ At(base, values).nodes = {base} /\ At(base, values).leaves = {}
                       /\ At(base, values).values = {}
  <2>1. ASSUME HasValues
        PROVE  base \in open.node.nodes
    <3>1. open \in D
      BY <1>5, <2>1
    <3>2. Suits(open)
      BY <3>1, DesiredFacts DEF AllDesired
    <3>3. open.path \in Present(open.node) /\ open.node.leaves \subseteq Leaves
      BY <1>6, <3>2, SuitingTree
    <3> QED
      BY <1>3, <1>6, <3>3 DEF Present
  <2>2. ASSUME ~HasValues
        PROVE  values = EmptyTree
    BY <2>2 DEF Arg, Given
  <2> HIDE DEF HasValues, values, open
  <2>3. ~HasValues => At(base, values) = At(base, EmptyTree)
    BY <2>2
  <2> QED
    BY <1>3, <1>6, <2>1, <2>3, PlainTrees
<1>9. ASSUME HasHops
      PROVE  /\ node.nodes = At(base, values).nodes \cup ({base} \cup there.node.nodes)
             /\ node.leaves = At(base, values).leaves \cup there.node.leaves
             /\ node.values = At(base, values).values \cup there.node.values
  <2> DEFINE tree == Tree(kids)
             kid(key) == At(Append(base, key), kids[key])
  <2>1. RouteBody(c) = Joined(values, tree)
    BY <1>2, <1>9 DEF RouteBody
  <2>2. DOMAIN kids = {"next-hop"} /\ kids["next-hop"] = hops /\ "next-hop" \in STRING
    BY <1>4, <1>9
  <2>3. Wordy(hops)
    BY <1>1, <1>9, TreesAreWordy
  <2>4. DOMAIN tree = Parts
    BY DEF Tree, Parts
  <2> HIDE DEF kids, tree, hops, values, base
  <2>5. At(base, RouteBody(c)) = At(base, Joined(values, tree))
    BY <2>1
  <2>6. /\ node.nodes = At(base, values).nodes \cup At(base, tree).nodes
        /\ node.leaves = At(base, values).leaves \cup At(base, tree).leaves
        /\ node.values = At(base, values).values \cup At(base, tree).values
    BY <1>7, <2>4, <2>5, JoinedAt
  <2>7. \A key \in DOMAIN kids : Wordy(kids[key])
    BY <2>2, <2>3
  <2>8. DOMAIN kids \subseteq STRING
    BY <2>2
  <2>9. /\ At(base, Tree(kids)).nodes = {base} \cup UNION { kid(key).nodes : key \in DOMAIN kids }
        /\ At(base, Tree(kids)).leaves = UNION { kid(key).leaves : key \in DOMAIN kids }
        /\ At(base, Tree(kids)).values = UNION { kid(key).values : key \in DOMAIN kids }
    BY <1>3, <2>7, <2>8, TreeAt
  <2>10. kid("next-hop") = there.node
    BY <1>6, <2>2
  <2> HIDE DEF kid, node, there
  <2>11. /\ UNION { kid(key).nodes : key \in DOMAIN kids } = there.node.nodes
         /\ UNION { kid(key).leaves : key \in DOMAIN kids } = there.node.leaves
         /\ UNION { kid(key).values : key \in DOMAIN kids } = there.node.values
    BY <2>2, <2>10
  <2> QED
    BY <2>6, <2>9, <2>11 DEF tree
<1>10. ASSUME ~HasHops
       PROVE  node = At(base, values)
  BY <1>2, <1>10 DEF RouteBody
<1>11. D # {}
  BY <1>1, <1>5
<1>12. "rules" \notin DOMAIN c.args
  BY <1>1
<1> HIDE DEF HasHops, HasValues, there, open, node, D, values, base
<1>13. /\ node.nodes = {base} \cup UNION { d.node.nodes : d \in D }
       /\ node.leaves = UNION { d.node.leaves : d \in D }
       /\ node.values = UNION { d.node.values : d \in D }
  <2>1. CASE HasHops /\ HasValues
    <3>1. \A d : d \in D <=> d = there \/ d = open
      BY <1>5, <2>1
    <3>2. /\ UNION { d.node.nodes : d \in D } = there.node.nodes \cup open.node.nodes
          /\ UNION { d.node.leaves : d \in D } = there.node.leaves \cup open.node.leaves
          /\ UNION { d.node.values : d \in D } = there.node.values \cup open.node.values
      BY <3>1
    <3> QED
      BY <1>6, <1>9, <2>1, <3>2
  <2>2. CASE HasHops /\ ~HasValues
    <3>1. \A d : d \in D <=> d = there
      BY <1>5, <2>2
    <3>2. /\ UNION { d.node.nodes : d \in D } = there.node.nodes
          /\ UNION { d.node.leaves : d \in D } = there.node.leaves
          /\ UNION { d.node.values : d \in D } = there.node.values
      BY <3>1
    <3> QED
      BY <1>8, <1>9, <2>2, <3>2
  <2>3. CASE ~HasHops
    <3>1. \A d : d \in D <=> d = open
      BY <1>1, <1>5, <2>3
    <3>2. /\ UNION { d.node.nodes : d \in D } = open.node.nodes
          /\ UNION { d.node.leaves : d \in D } = open.node.leaves
          /\ UNION { d.node.values : d \in D } = open.node.values
      BY <3>1
    <3> QED
      BY <1>1, <1>6, <1>8, <1>10, <2>3, <3>2
  <2> QED
    BY <2>1, <2>2, <2>3
<1>14. Grown(base, node, D)
  BY <1>3, <1>11, <1>12, <1>13, AllDesiredApart DEF Grown, base, D
<1> QED
  BY <1>14 DEF base, node, D

-----------------------------------------------------------------------------
(* Objects that are owned field by field.                                   *)

\* What becomes of a rule by itself.
RuleScope(c, key) ==
    IF c.args["rules"][key] = Absent THEN Scope("absent", RulePath(c, key[2]), Absent)
    ELSE Scope("exact", RulePath(c, key[2]), c.args["rules"][key])

\* What a field is rendered to.
FieldScopes(c, field) ==
    IF field = "values" THEN { Scope("merge", ObjectPath(c), c.args[field]) }
    ELSE IF field = "rules" /\ ~c.replace_rules
    THEN { RuleScope(c, key) : key \in DOMAIN c.args[field] }
    ELSE IF field = "rules" /\ DOMAIN c.args[field] # {}
    THEN { Scope("exact", FieldPath(c, field), RuleTree(c)) }
    ELSE IF Desired(c, field) = {} THEN { Scope("absent", FieldPath(c, field), Absent) }
    ELSE Desired(c, field)

\* A scope that owns a part of its field, or the open body, and asks for what the
\* device can hold.
Placed(c, field, s) ==
    /\ s.intent # "merge" => /\ Under(c, field, s.path) /\ Front(s.path) \notin Leaves
                             /\ \A n \in NeedBody : ~IsStrictPrefix(n, s.path)
    /\ s.intent = "merge" => field = "values" /\ s.path = ObjectPath(c)
    /\ s.intent # "absent" =>
           /\ HasShape(s) /\ Holdable(s) /\ Single(s.node.values)
           /\ \A q \in Required(s.node) : q = ObjectPath(c) \/ Under(c, field, q)
           /\ \A v \in s.node.values : Under(c, field, Front(v))

\* What is at a field or at a rule is there for its owner, and no node above it
\* has no other body.
LEMMA OwnPaths ==
    ASSUME NEW c, Fine(c), ~Whole(c), NEW field \in Typed(c), NEW path,
           \/ path = FieldPath(c, field)
           \/ field = "rules" /\ \E token \in RuleTokens(c) : path = RulePath(c, token)
    PROVE  /\ Under(c, field, path) /\ Front(path) \notin Leaves
           /\ \A n \in NeedBody : ~IsStrictPrefix(n, path)
<1> DEFINE whole == FieldPath(c, field)
<1>1. /\ whole \in Words \ {<<>>} /\ Front(whole) \notin Leaves
      /\ \A n \in NeedBody : ~IsPrefix(n, whole)
      /\ field = "rules" => whole \in Tags
      /\ field \in DOMAIN c.args /\ field # "values"
  <2>1. whole \in Words \ {<<>>}
    BY FieldPlaces DEF Fine
  <2> QED
    BY <2>1 DEF Fine, Fits, Given, Typed
<1>2. CASE path = whole
  <2>1. path \in Roots(c, field) /\ IsPrefix(path, path)
    BY <1>1, <1>2, PrefixOrder DEF Roots
  <2>2. \A n \in NeedBody : ~IsStrictPrefix(n, path)
    BY <1>1, <1>2 DEF IsStrictPrefix
  <2> QED
    BY <1>1, <1>2, <2>1, <2>2 DEF Under
<1>3. CASE field = "rules" /\ \E token \in RuleTokens(c) : path = RulePath(c, token)
  <2>1. PICK token \in RuleTokens(c) : path = RulePath(c, token)
    BY <1>3
  <2>2. /\ path \in Words \ {<<>>} /\ Front(path) = whole /\ Under(c, field, path)
    BY <1>1, <1>3, <2>1, RulePlaces
  <2>3. Front(path) \notin Leaves
    BY <1>1, <1>3, <2>2, Grammar
  <2>4. ASSUME NEW n \in NeedBody, IsStrictPrefix(n, path)
        PROVE  FALSE
    <3>1. n \in Words
      BY Grammar
    <3> QED
      BY <1>1, <2>2, <2>4, <3>1, Parents
  <2> QED
    BY <2>2, <2>3, <2>4
<1> QED
  BY <1>2, <1>3

\* Of what a field asks for each tree is in its place.
LEMMA DesiredPlaced ==
    ASSUME NEW c, Fine(c), ~Whole(c), NEW field \in Typed(c), NEW d \in Desired(c, field)
    PROVE  Placed(c, field, d) /\ \A v \in d.node.values : IsPrefix(d.path, Front(v))
<1>1. field \in DOMAIN c.args /\ field # "values" /\ IsCall(c)
  BY DEF Typed, Fine
<1>2. Suits(d) /\ d.intent = "exact"
      /\ \A q \in Allowed(d.node) : q = ObjectPath(c) \/ Under(c, field, q)
  BY <1>1, DesiredFacts
<1>3. \/ d.path = FieldPath(c, field)
      \/ field = "rules" /\ \E token \in RuleTokens(c) : d.path = RulePath(c, token)
  BY <1>1, DesiredAt, ScopeIs
<1>4. /\ Under(c, field, d.path) /\ Front(d.path) \notin Leaves
      /\ \A n \in NeedBody : ~IsStrictPrefix(n, d.path)
  BY <1>3, OwnPaths
<1>5. /\ d.path \in Words \ {<<>>} /\ d.node.values \subseteq Words \ {<<>>}
      /\ d.node.leaves \subseteq Leaves
      /\ \A v \in d.node.values : Front(v) \in d.node.leaves /\ IsStrictPrefix(d.path, v)
  BY <1>2, SuitingTree, Grammar
<1>6. \A v \in d.node.values : Front(v) \in Allowed(d.node) /\ Front(v) # ObjectPath(c)
  BY <1>5, Objects DEF Allowed, Present, Fine
<1>7. \A v \in d.node.values : IsPrefix(d.path, Front(v))
  BY <1>5, Parents
<1>8. Required(d.node) \subseteq Allowed(d.node)
  BY DEF Required, Allowed, Bare, Present
<1>9. HasShape(d) /\ Holdable(d) /\ Single(d.node.values)
  BY <1>2 DEF Suits, Single
<1> QED
  BY <1>2, <1>4, <1>6, <1>7, <1>8, <1>9 DEF Placed

\* An object whose body is open is held by the device, also with nothing in it.
LEMMA OpenPlaced ==
    ASSUME NEW c, Fine(c), ~Whole(c), "values" \in DOMAIN c.args,
           NEW s, s = Scope("merge", ObjectPath(c), c.args["values"])
    PROVE  Placed(c, "values", s)
<1> DEFINE object == ObjectPath(c)
           values == c.args["values"]
<1>1. s.intent = "merge" /\ s.path = object /\ s.node = At(object, values)
  BY ScopeIs
<1>2. /\ object \in Words /\ object \in Paths /\ object \notin Leaves \cup Tags \cup NeedBody
      /\ Front(object) \notin Leaves
  BY Objects DEF Fine, Whole
<1>3. CASE values = EmptyTree
  <2>1. /\ s.node.nodes = {object} /\ s.node.leaves = {} /\ s.node.values = {}
    BY <1>1, <1>2, <1>3, PlainTrees
  <2>2. Required(s.node) \subseteq {object} /\ Bare(s.node) \subseteq {object}
    BY <2>1 DEF Required, Bare
  <2>3. HasShape(s)
    BY <1>2, <2>1 DEF HasShape, Present
  <2>4. Holdable(s)
    BY <1>1, <1>2, <2>1, <2>2 DEF Holdable, Present
  <2>5. Single(s.node.values)
    BY <2>1 DEF Single
  <2> QED
    BY <1>1, <2>1, <2>2, <2>3, <2>4, <2>5 DEF Placed
<1>4. CASE values # EmptyTree
  <2> DEFINE d == Scope("exact", object, values)
  <2>1. d.intent = "exact" /\ d.path = s.path /\ d.node = s.node
    BY <1>1, ScopeIs
  <2>2. d \in Desired(c, "values")
    <3>1. Desired(c, "values") =
              IF c.args["values"] = EmptyTree THEN {}
              ELSE { Scope("exact", ObjectPath(c), c.args["values"]) }
      BY ONLY DEF Desired, Lists, Subtrees
    <3> QED
      BY <1>4, <3>1
  <2>3. Suits(d) /\ \A q \in Allowed(d.node) : q = object \/ Under(c, "values", q)
    BY <2>2, DesiredFacts
  <2> HIDE DEF d
  <2>4. /\ d.node.leaves \subseteq Leaves
        /\ \A v \in d.node.values : Front(v) \in d.node.leaves
    BY <2>1, <2>3, SuitingTree
  <2>5. \A v \in s.node.values : Under(c, "values", Front(v))
    BY <1>2, <2>1, <2>3, <2>4 DEF Allowed, Present
  <2>6. HasShape(s) /\ Holdable(s) /\ Single(s.node.values)
    BY <1>1, <2>1, <2>3 DEF Suits, HasShape, Holdable, Single
  <2>7. Required(s.node) \subseteq Allowed(d.node)
    BY <2>1 DEF Required, Allowed, Bare, Present
  <2> QED
    BY <1>1, <2>3, <2>5, <2>6, <2>7 DEF Placed
<1> QED
  BY <1>3, <1>4

\* Every scope of a field is in its place.
LEMMA ScopesPlaced ==
    ASSUME NEW c, Fine(c), ~Whole(c), NEW field \in DOMAIN c.args,
           NEW s \in FieldScopes(c, field)
    PROVE  Placed(c, field, s)
<1>1. CASE field = "values"
  BY <1>1, OpenPlaced DEF FieldScopes
<1>2. ASSUME field # "values", NEW path, s = Scope("absent", path, Absent),
             \/ path = FieldPath(c, field)
             \/ field = "rules" /\ \E token \in RuleTokens(c) : path = RulePath(c, token)
      PROVE  Placed(c, field, s)
  <2>1. s.intent = "absent" /\ s.path = path
    BY <1>2, ScopeIs
  <2>2. field \in Typed(c)
    BY <1>2 DEF Typed
  <2> QED
    BY <1>2, <2>1, <2>2, OwnPaths DEF Placed
<1>3. ASSUME field # "values", s \in Desired(c, field)
      PROVE  Placed(c, field, s)
  BY <1>3, DesiredPlaced DEF Typed
<1>4. CASE field = "rules" /\ ~c.replace_rules
  <2>1. PICK key \in DOMAIN c.args["rules"] : s = RuleScope(c, key)
    BY <1>4 DEF FieldScopes
  <2>2. key[2] \in RuleTokens(c)
    BY <1>4, <2>1, RulesAre
  <2>3. CASE c.args["rules"][key] = Absent
    <3>1. s = Scope("absent", RulePath(c, key[2]), Absent)
      BY <2>1, <2>3 DEF RuleScope
    <3> QED
      BY <1>2, <1>4, <2>2, <3>1
  <2>4. CASE c.args["rules"][key] # Absent
    <3>1. s = Scope("exact", RulePath(c, key[2]), c.args["rules"][key])
      BY <2>1, <2>4 DEF RuleScope
    <3>2. Desired(c, "rules") =
              { Scope("exact", RulePath(c, k[2]), c.args["rules"][k]) :
                    k \in { l \in DOMAIN c.args["rules"] : c.args["rules"][l] # Absent } }
      BY DEF Desired, Lists, Subtrees
    <3> QED
      BY <1>3, <1>4, <2>4, <3>1, <3>2
  <2> QED
    BY <2>3, <2>4
<1>5. CASE field = "rules" /\ c.replace_rules /\ DOMAIN c.args["rules"] # {}
  <2> DEFINE path == FieldPath(c, "rules")
             D == Desired(c, "rules")
  <2>1. s.intent = "exact" /\ s.path = path /\ s.node = At(path, RuleTree(c))
    BY <1>5, ScopeIs DEF FieldScopes
  <2>2. Grown(path, s.node, D)
    BY <1>5, <2>1, RuleTreeGrown
  <2>3. HasShape(s) /\ Holdable(s) /\ Single(s.node.values)
    BY <2>1, <2>2, GrownSuits
  <2>4. field \in Typed(c)
    BY <1>5 DEF Typed
  <2>5. /\ Under(c, field, s.path) /\ Front(s.path) \notin Leaves
        /\ \A n \in NeedBody : ~IsStrictPrefix(n, s.path)
    BY <1>5, <2>1, <2>4, OwnPaths
  <2>6. \A v \in s.node.values : Under(c, field, Front(v))
    <3>1. s.node.values = UNION { d.node.values : d \in D }
      BY <2>2 DEF Grown
    <3>2. \A d \in D : Placed(c, field, d) /\ d.intent = "exact"
      BY <1>5, <2>4, DesiredPlaced, DesiredFacts
    <3> HIDE DEF D
    <3> QED
      BY <3>1, <3>2 DEF Placed
  <2>7. \A q \in Required(s.node) : Under(c, field, q)
    <3>1. Required(s.node) \subseteq Allowed(s.node)
      BY DEF Required, Allowed, Bare, Present
    <3>2. \A q \in Allowed(s.node) : q \in Words /\ IsPrefix(path, q)
      BY <2>2, GrownParts
    <3>3. path \in Roots(c, field)
      BY <1>5 DEF Roots
    <3> QED
      BY <3>1, <3>2, <3>3 DEF Under
  <2> QED
    BY <2>1, <2>3, <2>5, <2>6, <2>7 DEF Placed
<1>6. CASE /\ field # "values"
           /\ ~(field = "rules" /\ (~c.replace_rules \/ DOMAIN c.args["rules"] # {}))
  BY <1>2, <1>3, <1>6 DEF FieldScopes
<1>7. c.replace_rules \in BOOLEAN \/ field # "rules"
  BY RulesAre DEF Fine, IsCall
<1> QED
  BY <1>1, <1>4, <1>5, <1>6, <1>7

\* Scopes of two fields do not meet.
LEMMA FieldsApart ==
    ASSUME NEW c, Fine(c), ~Whole(c),
           NEW f \in DOMAIN c.args, NEW g \in DOMAIN c.args, f # g,
           NEW s \in FieldScopes(c, f), NEW t \in FieldScopes(c, g)
    PROVE  Apart(s, t)
<1> DEFINE object == ObjectPath(c)
<1>1. Placed(c, f, s) /\ Placed(c, g, t)
  BY ScopesPlaced
<1>2. \A p, q : Under(c, f, p) /\ Under(c, g, q) => ~IsPrefix(p, q) /\ ~IsPrefix(q, p)
  BY UnderApart
<1>3. \A p : Under(c, f, p) \/ Under(c, g, p) => p \in Words /\ ~IsPrefix(p, object)
  BY UnderApart
<1>4. ASSUME s.intent # "merge"
      PROVE  /\ ~IsPrefix(s.path, t.path)
             /\ t.intent = "merge" =>
                    \A path \in Required(t.node) : ~IsPrefix(s.path, path)
  BY <1>1, <1>2, <1>3, <1>4 DEF Placed
<1>5. ASSUME t.intent # "merge"
      PROVE  /\ ~IsPrefix(t.path, s.path)
             /\ s.intent = "merge" =>
                    \A path \in Required(s.node) : ~IsPrefix(t.path, path)
  BY <1>1, <1>2, <1>3, <1>5 DEF Placed
<1>6. ASSUME s.intent # "absent", t.intent # "absent",
             NEW v \in s.node.values, NEW w \in t.node.values, Front(v) = Front(w)
      PROVE  FALSE
  <2>1. Under(c, f, Front(v)) /\ Under(c, g, Front(v))
    BY <1>1, <1>6 DEF Placed
  <2>2. IsPrefix(Front(v), Front(v))
    BY <1>3, <2>1, PrefixOrder
  <2> QED
    BY <1>2, <2>1, <2>2
<1> QED
  BY <1>4, <1>5, <1>6 DEF Apart

\* Nor do the scopes of one field: there are several only of rules.
LEMMA FieldApart ==
    ASSUME NEW c, Fine(c), ~Whole(c), NEW f \in DOMAIN c.args,
           NEW s \in FieldScopes(c, f), NEW t \in FieldScopes(c, f), s # t
    PROVE  Apart(s, t)
<1>1. f = "rules" /\ ~c.replace_rules
  <2>1. f # "rules" => \A x, y \in Desired(c, f) : x = y
    BY DEF Desired
  <2>2. Desired(c, "rules") =
            { Scope("exact", RulePath(c, key[2]), c.args["rules"][key]) :
                  key \in { k \in DOMAIN c.args["rules"] : c.args["rules"][k] # Absent } }
    BY DEF Desired, Lists, Subtrees
  <2>3. DOMAIN c.args["rules"] = {} => Desired(c, "rules") = {}
    BY <2>2
  <2>4. CASE f # "rules"
    BY <2>1, <2>4 DEF FieldScopes
  <2>5. CASE f = "rules" /\ c.replace_rules
    BY <2>3, <2>5 DEF FieldScopes
  <2> QED
    BY <2>4, <2>5
<1>2. PICK j \in DOMAIN c.args["rules"] : s = RuleScope(c, j)
  BY <1>1 DEF FieldScopes
<1>3. PICK k \in DOMAIN c.args["rules"] : t = RuleScope(c, k)
  BY <1>1 DEF FieldScopes
<1>4. j[2] # k[2]
  BY <1>1, <1>2, <1>3, TokensDiffer
<1>5. j[2] \in RuleTokens(c) /\ k[2] \in RuleTokens(c)
  BY <1>1, RulesAre
<1>6. ASSUME NEW key \in DOMAIN c.args["rules"]
      PROVE  LET x == RuleScope(c, key)
             IN  /\ x.path = RulePath(c, key[2]) /\ x.intent \in {"absent", "exact"}
                 /\ x.path \in Words
                 /\ x.intent = "exact" =>
                        \A v \in x.node.values : Front(v) \in Words /\ IsPrefix(x.path, Front(v))
  <2> DEFINE x == RuleScope(c, key)
  <2>1. x.path = RulePath(c, key[2]) /\ x.intent \in {"absent", "exact"}
    BY ScopeIs DEF RuleScope
  <2>2. key[2] \in RuleTokens(c) /\ f \in Typed(c)
    BY <1>1, RulesAre DEF Typed
  <2>3. x.path \in Words
    BY <1>1, <2>1, <2>2, RulePlaces
  <2>4. ASSUME x.intent = "exact"
        PROVE  x \in Desired(c, "rules")
    <3>1. c.args["rules"][key] # Absent
      BY <2>4, ScopeIs DEF RuleScope
    <3>2. Desired(c, "rules") =
              { Scope("exact", RulePath(c, l[2]), c.args["rules"][l]) :
                    l \in { m \in DOMAIN c.args["rules"] : c.args["rules"][m] # Absent } }
      BY DEF Desired, Lists, Subtrees
    <3> QED
      BY <3>1, <3>2 DEF RuleScope
  <2> HIDE DEF x
  <2>5. ASSUME x.intent = "exact", NEW v \in x.node.values
        PROVE  IsPrefix(x.path, Front(v)) /\ Front(v) \in Words
    <3>1. Placed(c, f, x) /\ IsPrefix(x.path, Front(v))
      BY <1>1, <2>2, <2>4, <2>5, DesiredPlaced
    <3>2. Under(c, f, Front(v))
      BY <2>5, <3>1 DEF Placed
    <3> QED
      BY <3>1, <3>2 DEF Under
  <2> QED
    BY <2>1, <2>3, <2>5 DEF x
<1>7. /\ s.path = RulePath(c, j[2]) /\ s.intent \in {"absent", "exact"} /\ s.path \in Words
      /\ t.path = RulePath(c, k[2]) /\ t.intent \in {"absent", "exact"} /\ t.path \in Words
      /\ s.intent = "exact" =>
             \A v \in s.node.values : Front(v) \in Words /\ IsPrefix(s.path, Front(v))
      /\ t.intent = "exact" =>
             \A v \in t.node.values : Front(v) \in Words /\ IsPrefix(t.path, Front(v))
  BY <1>2, <1>3, <1>6
<1>8. ~IsPrefix(s.path, t.path) /\ ~IsPrefix(t.path, s.path)
  BY <1>1, <1>4, <1>5, <1>7, RulesApart
<1>9. ASSUME s.intent # "absent", t.intent # "absent",
             NEW v \in s.node.values, NEW w \in t.node.values, Front(v) = Front(w)
      PROVE  FALSE
  BY <1>7, <1>8, <1>9, PrefixOrder
<1> QED
  BY <1>7, <1>8, <1>9 DEF Apart

\* What a call is rendered to.
Body(c) == IF c.op = "static_route" THEN RouteBody(c) ELSE GroupBody(c)

AllScopes(c) ==
    IF ~c.present THEN { Scope("absent", ObjectPath(c), Absent) }
    ELSE IF Whole(c) THEN { Scope("exact", ObjectPath(c), Body(c)) }
    ELSE IF DOMAIN c.args = {} THEN { Scope("merge", ObjectPath(c), EmptyTree) }
    ELSE UNION { FieldScopes(c, field) : field \in DOMAIN c.args }

\* An object that is owned as a whole is made of what is desired.
LEMMA WholeGrown ==
    ASSUME NEW c, Fine(c), Whole(c), c.present
    PROVE  Grown(ObjectPath(c), At(ObjectPath(c), Body(c)), AllDesired(c))
<1>1. CASE c.op = "static_route"
  BY <1>1, RouteGrown DEF Body
<1>2. CASE c.op = "firewall_group"
  BY <1>2, GroupGrown DEF Body
<1> QED
  BY <1>1, <1>2 DEF Whole

\* What a field asks for is at its object or at a place just below, but for the
\* fields of a user that are two keys deep; a rule is just below the node of the rules.
LEMMA DesiredBelow ==
    ASSUME NEW c, Fine(c), NEW field \in DOMAIN c.args, NEW d \in Desired(c, field)
    PROVE  /\ c.op # "user" /\ field # "rules" =>
                  d.path = ObjectPath(c) \/ Front(d.path) = ObjectPath(c)
           /\ field = "rules" => Front(d.path) = FieldPath(c, "rules")
<1>1. IsCall(c) /\ Fits(c) /\ ~Rejects(c) /\ ObjectPath(c) \in Words
  BY Objects DEF Fine
<1>2. CASE field = "values"
  BY <1>1, <1>2, DesiredAt, ScopeIs
<1>3. CASE field = "rules"
  <2>1. \E token \in RuleTokens(c) : d.path = RulePath(c, token)
    BY <1>1, <1>3, DesiredAt, ScopeIs
  <2> QED
    BY <1>3, <2>1, RulePlaces
<1>4. CASE field \notin {"values", "rules"} /\ c.op # "user"
  <2>1. d.path = FieldPath(c, field) /\ field \in Typed(c)
    BY <1>1, <1>4, DesiredAt DEF Typed
  <2> DEFINE key == Local(c, field)[1]
  <2>2. Len(Local(c, field)) = 1
    BY <1>1, <1>4, <2>1, Locals
  <2>3. FieldPath(c, field) = Append(ObjectPath(c), key) /\ key \in STRING
    BY <1>1, <2>1, <2>2, FieldPlaces
  <2> HIDE DEF key
  <2>4. Front(Append(ObjectPath(c), key)) = ObjectPath(c)
    BY <1>1, <2>3, OneKey
  <2> QED
    BY <1>4, <2>1, <2>3, <2>4
<1> QED
  BY <1>2, <1>3, <1>4

\* What a rule asks for is one of the desired trees.
LEMMA RuleDesired ==
    ASSUME NEW c, NEW key \in DOMAIN c.args["rules"], c.args["rules"][key] # Absent
    PROVE  Scope("exact", RulePath(c, key[2]), c.args["rules"][key]) \in Desired(c, "rules")
<1>1. Desired(c, "rules") =
          { Scope("exact", RulePath(c, k[2]), c.args["rules"][k]) :
                k \in { l \in DOMAIN c.args["rules"] : c.args["rules"][l] # Absent } }
  BY DEF Desired, Lists, Subtrees
<1> QED
  BY <1>1

\* What a field is rendered to are trees.
LEMMA FieldScopesAreTrees ==
    ASSUME NEW c, Fine(c), NEW field \in DOMAIN c.args, NEW s \in FieldScopes(c, field)
    PROVE  IsScope(s)
<1>1. ASSUME NEW path \in Words \ {<<>>}, s = Scope("absent", path, Absent)
      PROVE  IsScope(s)
  BY <1>1, AbsentIsScope
<1>2. ASSUME s \in Desired(c, field)
      PROVE  IsScope(s)
  BY <1>2, DesiredFacts DEF Suits
<1>3. CASE field = "values"
  <2>1. s = Scope("merge", ObjectPath(c), c.args[field])
    BY <1>3 DEF FieldScopes
  <2>2. s.intent = "merge" /\ s.path = ObjectPath(c) /\ s.node = At(ObjectPath(c), c.args[field])
    BY <2>1, ScopeIs
  <2>3. CASE c.args[field] = EmptyTree
    BY <2>2, <2>3, BareIsScope, Objects DEF Fine
  <2>4. CASE c.args[field] # EmptyTree
    <3> DEFINE d == Scope("exact", ObjectPath(c), c.args[field])
    <3>1. d \in Desired(c, field)
      BY <1>3, <2>4 DEF Desired, Lists, Subtrees
    <3>2. d.path = s.path /\ d.node = s.node /\ d.intent = "exact"
      BY <2>2, ScopeIs
    <3>3. IsScope(d)
      BY <3>1, DesiredFacts DEF Suits
    <3> HIDE DEF d
    <3> QED
      BY <2>2, <3>2, <3>3 DEF IsScope, Intents
  <2> QED
    BY <2>3, <2>4
<1>4. CASE field = "rules" /\ ~c.replace_rules
  <2>1. PICK key \in DOMAIN c.args["rules"] : s = RuleScope(c, key)
    BY <1>4 DEF FieldScopes
  <2>2. key[2] \in RuleTokens(c) /\ RulePath(c, key[2]) \in Words \ {<<>>}
    BY <1>4, <2>1, RulesAre, RulePlaces
  <2>3. CASE c.args["rules"][key] = Absent
    BY <1>1, <2>1, <2>2, <2>3 DEF RuleScope
  <2>4. CASE c.args["rules"][key] # Absent
    <3>1. s \in Desired(c, "rules")
      BY <2>1, <2>4, RuleDesired DEF RuleScope
    <3> QED
      BY <1>2, <1>4, <3>1
  <2> QED
    BY <2>3, <2>4
<1>5. CASE field = "rules" /\ c.replace_rules /\ DOMAIN c.args["rules"] # {}
  <2> DEFINE path == FieldPath(c, "rules")
             D == Desired(c, "rules")
  <2>1. s.intent = "exact" /\ s.path = path /\ s.node = At(path, RuleTree(c))
    BY <1>5, ScopeIs DEF FieldScopes
  <2>2. Grown(path, s.node, D)
    BY <1>5, <2>1, RuleTreeGrown
  <2>3. \A d \in D : d.path = path \/ Front(d.path) = path
    BY <1>5, DesiredBelow
  <2>4. /\ IsTreeAt(s.node, path)
        /\ UNION {s.node.nodes, s.node.leaves, s.node.values} \subseteq Seq(STRING) \ {<<>>}
    BY <2>2, <2>3, GrownIsTree
  <2>5. path \in Seq(STRING) \ {<<>>}
    BY <2>2, GrownParts DEF Words
  <2> QED
    BY <2>1, <2>4, <2>5 DEF IsScope, Intents
<1>6. CASE /\ field # "values"
           /\ ~(field = "rules" /\ (~c.replace_rules \/ DOMAIN c.args["rules"] # {}))
  <2>1. FieldPath(c, field) \in Words \ {<<>>}
    BY <1>6, FieldPlaces DEF Fine, Typed
  <2> QED
    BY <1>1, <1>2, <1>6, <2>1 DEF FieldScopes
<1>7. c.replace_rules \in BOOLEAN \/ field # "rules"
  BY RulesAre DEF Fine, IsCall
<1> QED
  BY <1>3, <1>4, <1>5, <1>6, <1>7

\* So is what a call is rendered to.
LEMMA ScopesAreTrees ==
    ASSUME NEW c, Fine(c), NEW s \in AllScopes(c)
    PROVE  IsScope(s)
<1> DEFINE object == ObjectPath(c)
<1>1. object \in Words \ {<<>>}
  BY Objects DEF Fine
<1>2. CASE ~c.present
  BY <1>1, <1>2, AbsentIsScope DEF AllScopes
<1>3. CASE c.present /\ Whole(c)
  <2> DEFINE D == AllDesired(c)
  <2>1. s.intent = "exact" /\ s.path = object /\ s.node = At(object, Body(c))
    BY <1>3, ScopeIs DEF AllScopes
  <2>2. Grown(object, s.node, D)
    BY <1>3, <2>1, WholeGrown
  <2>3. \A d \in D : d.path = object \/ Front(d.path) = object
    <3>1. c.op \in {"static_route", "firewall_group"}
      BY <1>3 DEF Whole
    <3>2. "rules" \notin DOMAIN c.args
      BY <3>1 DEF Fine, IsCall, Fields
    <3> QED
      BY <3>1, <3>2, DesiredBelow DEF AllDesired
  <2>4. /\ IsTreeAt(s.node, object)
        /\ UNION {s.node.nodes, s.node.leaves, s.node.values} \subseteq Seq(STRING) \ {<<>>}
    BY <2>2, <2>3, GrownIsTree
  <2> QED
    BY <1>1, <2>1, <2>4 DEF IsScope, Intents, Words
<1>4. CASE c.present /\ ~Whole(c) /\ DOMAIN c.args = {}
  <2>1. s.intent = "merge" /\ s.path = object /\ s.node = At(object, EmptyTree)
    BY <1>4, ScopeIs DEF AllScopes
  <2> QED
    BY <1>1, <2>1, BareIsScope
<1>5. CASE c.present /\ ~Whole(c) /\ DOMAIN c.args # {}
  BY <1>5, FieldScopesAreTrees DEF AllScopes
<1> QED
  BY <1>2, <1>3, <1>4, <1>5 DEF Fine, IsCall

\* The scopes of a call are posed, and apart from each other.
LEMMA AllScopesPosed ==
    ASSUME NEW c, Fine(c)
    PROVE  /\ \A s \in AllScopes(c) : Posed(s)
           /\ \A s, t \in AllScopes(c) : s # t => Apart(s, t)
<1> DEFINE object == ObjectPath(c)
<1>0. \A s \in AllScopes(c) : IsScope(s)
  BY ScopesAreTrees
<1>1. /\ object \in Words /\ object \in Paths /\ object \notin Leaves \cup Tags
      /\ Front(object) \notin Leaves /\ \A n \in NeedBody : ~IsStrictPrefix(n, object)
      /\ c.op # "static_route" => object \notin NeedBody
  BY Objects DEF Fine
<1>2. CASE ~c.present
  <2>1. AllScopes(c) = { Scope("absent", object, Absent) }
    BY <1>2 DEF AllScopes
  <2>2. /\ Scope("absent", object, Absent).intent = "absent"
        /\ Scope("absent", object, Absent).path = object
    BY ScopeIs
  <2> QED
    BY <1>0, <1>1, <2>1, <2>2 DEF Posed
<1>3. CASE c.present /\ Whole(c)
  <2> DEFINE s == Scope("exact", object, Body(c))
  <2>1. AllScopes(c) = {s}
    BY <1>3 DEF AllScopes
  <2>2. s.intent = "exact" /\ s.path = object /\ s.node = At(object, Body(c))
    BY ScopeIs
  <2>3. Grown(object, s.node, AllDesired(c))
    BY <1>3, <2>2, WholeGrown
  <2> HIDE DEF s, object
  <2>4. HasShape(s) /\ Holdable(s) /\ Single(s.node.values)
    BY <2>2, <2>3, GrownSuits
  <2> QED
    BY <1>0, <1>1, <2>1, <2>2, <2>4 DEF Posed
<1>4. CASE c.present /\ ~Whole(c) /\ DOMAIN c.args = {}
  <2> DEFINE s == Scope("merge", object, EmptyTree)
  <2>1. AllScopes(c) = {s}
    BY <1>4 DEF AllScopes
  <2>2. s.intent = "merge" /\ s.path = object /\ s.node = At(object, EmptyTree)
    BY ScopeIs
  <2>3. /\ s.node.nodes = {object} /\ s.node.leaves = {} /\ s.node.values = {}
    BY <1>1, <2>2, PlainTrees
  <2>4. c.op # "static_route"
    BY <1>4 DEF Whole
  <2> HIDE DEF s, object
  <2>5. HasShape(s)
    BY <1>1, <2>3 DEF HasShape, Present
  <2>6. Holdable(s)
    BY <1>1, <2>2, <2>3, <2>4 DEF Holdable, Present, Required, Bare
  <2>7. Single(s.node.values)
    BY <2>3 DEF Single
  <2> QED
    BY <1>0, <1>1, <2>1, <2>2, <2>5, <2>6, <2>7 DEF Posed
<1>5. CASE c.present /\ ~Whole(c) /\ DOMAIN c.args # {}
  <2>1. AllScopes(c) = UNION { FieldScopes(c, field) : field \in DOMAIN c.args }
    BY <1>5 DEF AllScopes
  <2>2. ASSUME NEW s \in AllScopes(c)
        PROVE  Posed(s)
    <3>1. PICK field \in DOMAIN c.args : s \in FieldScopes(c, field)
      BY <2>1
    <3>2. Placed(c, field, s)
      BY <1>5, <3>1, ScopesPlaced
    <3>3. Front(s.path) \notin Leaves
      BY <1>1, <3>2 DEF Placed
    <3> QED
      BY <1>0, <3>2, <3>3 DEF Placed, Posed
  <2>3. ASSUME NEW s \in AllScopes(c), NEW t \in AllScopes(c), s # t
        PROVE  Apart(s, t)
    <3>1. PICK f \in DOMAIN c.args : s \in FieldScopes(c, f)
      BY <2>1
    <3>2. PICK g \in DOMAIN c.args : t \in FieldScopes(c, g)
      BY <2>1
    <3> QED
      BY <1>5, <2>3, <3>1, <3>2, FieldsApart, FieldApart
  <2> QED
    BY <2>2, <2>3
<1>6. c.present \in BOOLEAN
  BY DEF Fine, IsCall
<1> QED
  BY <1>2, <1>3, <1>4, <1>5, <1>6

-----------------------------------------------------------------------------
(* What the renderers make of a call.                                       *)

\* The scopes of a field, if it is given.
FieldPart(c, field) == IF field \in DOMAIN c.args THEN FieldScopes(c, field) ELSE {}

\* No scope is of two fields.
LEMMA PartsDisjoint ==
    ASSUME NEW c, Fine(c), ~Whole(c), NEW f, NEW g, f # g
    PROVE  FieldPart(c, f) \cap FieldPart(c, g) = {}
<1> SUFFICES ASSUME NEW s \in FieldPart(c, f), s \in FieldPart(c, g)
             PROVE  FALSE
  OBVIOUS
<1>1. /\ f \in DOMAIN c.args /\ g \in DOMAIN c.args
      /\ s \in FieldScopes(c, f) /\ s \in FieldScopes(c, g)
  BY DEF FieldPart
<1>2. Apart(s, s) /\ Placed(c, f, s) /\ Placed(c, g, s)
  BY <1>1, FieldsApart, ScopesPlaced
<1>3. s.intent # "merge"
  BY <1>2 DEF Placed
<1>4. s.path \in Words
  BY <1>2, <1>3 DEF Placed, Under
<1> QED
  BY <1>2, <1>3, <1>4, PrefixOrder DEF Apart

Texts == {"hostname", "domain_name", "time_zone", "description", "mtu", "full_name",
          "encrypted_password", "default_action"}

\* A text is rendered to its leaf.
LEMMA TextRendered ==
    ASSUME NEW c, NEW field \in Texts, NEW path,
           field \in DOMAIN c.args => path = FieldPath(c, field)
    PROVE  Enumerates(ExactLeaf(c, field, path), FieldPart(c, field))
<1>1. CASE field \notin DOMAIN c.args
  BY <1>1, Enumerations DEF ExactLeaf, Given, FieldPart
<1>2. CASE field \in DOMAIN c.args
  <2> DEFINE s == Scope("exact", FieldPath(c, field), Leaf({c.args[field]}))
  <2>1. Desired(c, field) = {s}
    BY DEF Desired, Lists, Subtrees, Texts
  <2>2. FieldPart(c, field) = {s}
    BY <1>2, <2>1 DEF FieldPart, FieldScopes, Texts
  <2>3. ExactLeaf(c, field, path) = <<s>>
    BY <1>2 DEF ExactLeaf, Given
  <2> QED
    BY <2>2, <2>3, Enumerations
<1> QED
  BY <1>1, <1>2

\* A list is rendered to its leaf, or to the absence of it.
LEMMA ListRendered ==
    ASSUME NEW c, NEW field \in Lists, NEW path,
           field \in DOMAIN c.args => path = FieldPath(c, field)
    PROVE  Enumerates(ExactList(c, field, path), FieldPart(c, field))
<1>1. CASE field \notin DOMAIN c.args
  BY <1>1, Enumerations DEF ExactList, Given, FieldPart
<1>2. CASE field \in DOMAIN c.args
  <2> DEFINE s == IF c.args[field] = {} THEN Scope("absent", FieldPath(c, field), Absent)
                  ELSE Scope("exact", FieldPath(c, field), Leaf(c.args[field]))
  <2>1. Desired(c, field) =
            IF c.args[field] = {} THEN {}
            ELSE { Scope("exact", FieldPath(c, field), Leaf(c.args[field])) }
    BY DEF Desired, Lists, Subtrees
  <2>2. FieldPart(c, field) = {s}
    BY <1>2, <2>1 DEF FieldPart, FieldScopes, Lists
  <2>3. ExactList(c, field, path) = <<s>>
    BY <1>2 DEF ExactList, Given
  <2> QED
    BY <2>2, <2>3, Enumerations
<1> QED
  BY <1>1, <1>2

\* So is a node that is there or not, and the keys of a user.
LEMMA DisabledRendered ==
    ASSUME NEW c, IsCall(c), NEW path,
           "disabled" \in DOMAIN c.args => path = FieldPath(c, "disabled")
    PROVE  Enumerates(RenderDisabled(c, path), FieldPart(c, "disabled"))
<1>1. CASE "disabled" \notin DOMAIN c.args
  BY <1>1, Enumerations DEF RenderDisabled, Given, FieldPart
<1>2. CASE "disabled" \in DOMAIN c.args
  <2> DEFINE value == c.args["disabled"]
             s == IF value THEN Scope("exact", FieldPath(c, "disabled"), EmptyTree)
                  ELSE Scope("absent", FieldPath(c, "disabled"), Absent)
  <2>1. value \in BOOLEAN
    BY <1>2 DEF IsCall
  <2>2. Desired(c, "disabled") =
            IF value THEN { Scope("exact", FieldPath(c, "disabled"), EmptyTree) } ELSE {}
    BY DEF Desired, Lists, Subtrees
  <2> HIDE DEF value
  <2>3. FieldPart(c, "disabled") = {s}
    BY <1>2, <2>1, <2>2 DEF FieldPart, FieldScopes
  <2>4. RenderDisabled(c, path) = <<s>>
    BY <1>2 DEF RenderDisabled, Given, value
  <2> QED
    BY <2>3, <2>4, Enumerations
<1> QED
  BY <1>1, <1>2

LEMMA KeysRendered ==
    ASSUME NEW c, NEW path, "ssh_keys" \in DOMAIN c.args => path = FieldPath(c, "ssh_keys")
    PROVE  Enumerates(RenderKeys(c, path), FieldPart(c, "ssh_keys"))
<1>1. CASE "ssh_keys" \notin DOMAIN c.args
  BY <1>1, Enumerations DEF RenderKeys, Given, FieldPart
<1>2. CASE "ssh_keys" \in DOMAIN c.args
  <2> DEFINE value == c.args["ssh_keys"]
             s == IF value = EmptyTree THEN Scope("absent", FieldPath(c, "ssh_keys"), Absent)
                  ELSE Scope("exact", FieldPath(c, "ssh_keys"), value)
  <2>1. Desired(c, "ssh_keys") =
            IF value = EmptyTree THEN {} ELSE { Scope("exact", FieldPath(c, "ssh_keys"), value) }
    BY DEF Desired, Lists, Subtrees
  <2>2. FieldPart(c, "ssh_keys") = {s}
    BY <1>2, <2>1 DEF FieldPart, FieldScopes
  <2>3. RenderKeys(c, path) = <<s>>
    BY <1>2 DEF RenderKeys, Given
  <2> QED
    BY <2>2, <2>3, Enumerations
<1> QED
  BY <1>1, <1>2

\* An open body is merged.
LEMMA ValuesRendered ==
    ASSUME NEW c
    PROVE  Enumerates(MergeValues(c, ObjectPath(c)), FieldPart(c, "values"))
BY Enumerations DEF MergeValues, Given, FieldPart, FieldScopes

\* The scopes of two rules differ.
LEMMA RuleScopesDiffer ==
    ASSUME NEW c, Fine(c), "rules" \in DOMAIN c.args,
           NEW j \in DOMAIN c.args["rules"], NEW k \in DOMAIN c.args["rules"],
           RuleScope(c, j) = RuleScope(c, k)
    PROVE  j = k
<1>1. \A key : RuleScope(c, key).path = RulePath(c, key[2])
  BY ScopeIs DEF RuleScope
<1>2. RulePath(c, j[2]) = RulePath(c, k[2])
  BY <1>1
<1>3. j[2] \in RuleTokens(c) /\ k[2] \in RuleTokens(c)
  BY RulesAre
<1>4. RulePath(c, j[2]) \in Words
  BY <1>3, RulePlaces
<1>5. IsPrefix(RulePath(c, j[2]), RulePath(c, k[2]))
  BY <1>2, <1>4, PrefixOrder
<1>6. j[2] = k[2]
  BY <1>3, <1>5, RulesApart
<1> QED
  BY <1>6, TokensDiffer

\* Rules are rendered one by one, or as one node, or to the absence of it.
LEMMA RulesRendered ==
    ASSUME NEW c, Fine(c), NEW path, "rules" \in DOMAIN c.args => path = FieldPath(c, "rules")
    PROVE  Enumerates(RenderRules(c, path), FieldPart(c, "rules"))
<1> DEFINE rules == c.args["rules"]
<1>1. CASE "rules" \notin DOMAIN c.args
  BY <1>1, Enumerations DEF RenderRules, Given, FieldPart
<1>2. ASSUME "rules" \in DOMAIN c.args
      PROVE  /\ Rules(c) = rules /\ IsFiniteSet(DOMAIN rules) /\ path = FieldPath(c, "rules")
             /\ FieldPart(c, "rules") = FieldScopes(c, "rules")
             /\ rules = <<>> <=> DOMAIN rules = {}
  <2>1. Rules(c) = rules /\ IsFiniteSet(DOMAIN rules)
    BY <1>2, RulesAre
  <2>2. rules \in [DOMAIN rules -> TreeType]
    BY <1>2 DEF Fine, IsCall
  <2>3. rules = <<>> <=> DOMAIN rules = {}
    <3> HIDE DEF rules
    <3>1. ASSUME DOMAIN rules = {}
          PROVE  rules = <<>>
      <4>1. rules \in [1..0 -> TreeType]
        BY <2>2, <3>1
      <4>2. rules \in Seq(TreeType)
        BY <4>1, SeqDef
      <4>3. Len(rules) = 0
        BY <3>1, <4>2, LenProperties
      <4> QED
        BY <4>2, <4>3, EmptySeq
    <3> QED
      BY <3>1
  <2> QED
    BY <1>2, <2>1, <2>3 DEF FieldPart
<1>3. CASE "rules" \in DOMAIN c.args /\ c.replace_rules
  <2>1. Desired(c, "rules") =
            { Scope("exact", RulePath(c, key[2]), rules[key]) :
                  key \in { k \in DOMAIN rules : rules[k] # Absent } }
    BY DEF Desired, Lists, Subtrees
  <2>2. CASE DOMAIN rules = {}
    <3>1. Desired(c, "rules") = {}
      BY <2>1, <2>2
    <3>2. FieldScopes(c, "rules") = { Scope("absent", path, Absent) }
      BY <1>2, <1>3, <2>2, <3>1 DEF FieldScopes
    <3>3. RenderRules(c, path) = << Scope("absent", path, Absent) >>
      BY <1>2, <1>3, <2>2 DEF RenderRules, RenderRuleNode, Given
    <3> QED
      BY <1>2, <1>3, <3>2, <3>3, Enumerations
  <2>3. CASE DOMAIN rules # {}
    <3>1. FieldScopes(c, "rules") = { Scope("exact", path, RuleTree(c)) }
      BY <1>2, <1>3, <2>3 DEF FieldScopes
    <3>2. RenderRules(c, path) = << Scope("exact", path, RuleTree(c)) >>
      BY <1>2, <1>3, <2>3 DEF RenderRules, RenderRuleNode, Given
    <3> QED
      BY <1>2, <1>3, <3>1, <3>2, Enumerations
  <2> QED
    BY <2>2, <2>3
<1>4. CASE "rules" \in DOMAIN c.args /\ ~c.replace_rules
  <2> DEFINE keys == SetToSeq(DOMAIN rules)
             seq == RenderRules(c, path)
             S == FieldScopes(c, "rules")
  <2>1. Enumerates(keys, DOMAIN rules)
    BY <1>2, <1>4, SetsEnumerated
  <2>2. S = { RuleScope(c, key) : key \in DOMAIN rules }
    BY <1>4 DEF FieldScopes
  <2>3. seq = [i \in DOMAIN keys |-> RuleScope(c, keys[i])]
    <3>1. seq = RenderEachRule(c, path)
      BY <1>4 DEF RenderRules, Given
    <3>2. \A key : RuleScope(c, key) =
              IF Rules(c)[key] = Absent THEN Scope("absent", Append(path, key[2]), Absent)
              ELSE Scope("exact", Append(path, key[2]), Rules(c)[key])
      BY <1>2, <1>4 DEF RuleScope, RulePath
    <3>3. keys = SetToSeq(DOMAIN Rules(c))
      BY <1>2, <1>4
    <3> HIDE DEF keys, seq
    <3> QED
      BY <3>1, <3>2, <3>3 DEF RenderEachRule
  <2> HIDE DEF keys, seq, S
  <2>4. /\ keys \in Seq(DOMAIN rules)
        /\ \A x \in DOMAIN rules : \E i \in DOMAIN keys : keys[i] = x
        /\ \A i, j \in DOMAIN keys : keys[i] = keys[j] => i = j
    BY <2>1 DEF Enumerates
  <2>5. DOMAIN keys = 1..Len(keys) /\ Len(keys) \in Nat
        /\ \A i \in DOMAIN keys : keys[i] \in DOMAIN rules
    <3> HIDE DEF rules
    <3> QED
      BY <2>4, LenProperties, ElementOfSeq
  <2>6. DOMAIN seq = DOMAIN keys /\ \A i \in DOMAIN keys : seq[i] = RuleScope(c, keys[i])
    BY <2>3
  <2>7. seq \in Seq(S)
    <3>1. \A i \in DOMAIN keys : RuleScope(c, keys[i]) \in S
      BY <2>2, <2>5
    <3>2. seq \in [1..Len(keys) -> S]
      BY <2>3, <2>5, <3>1
    <3> QED
      BY <2>5, <3>2, SeqDef
  <2>8. ASSUME NEW x \in S
        PROVE  \E i \in DOMAIN seq : seq[i] = x
    BY <2>2, <2>4, <2>6
  <2>9. ASSUME NEW i \in DOMAIN seq, NEW j \in DOMAIN seq, seq[i] = seq[j]
        PROVE  i = j
    <3>1. RuleScope(c, keys[i]) = RuleScope(c, keys[j])
      BY <2>6, <2>9
    <3>2. keys[i] = keys[j]
      BY <1>4, <2>5, <2>6, <3>1, RuleScopesDiffer
    <3> QED
      BY <2>4, <2>6, <3>2
  <2>10. Enumerates(seq, S)
    BY <2>7, <2>8, <2>9 DEF Enumerates
  <2> QED
    BY <1>2, <1>4, <2>10 DEF seq, S
<1>5. "rules" \in DOMAIN c.args => c.replace_rules \in BOOLEAN
  BY RulesAre DEF Fine, IsCall
<1> QED
  BY <1>1, <1>3, <1>4, <1>5

\* The keys of the fields that have one.
LEMMA ShortKeys ==
    \A c : /\ Local(c, "addresses") = <<"address">>
           /\ Local(c, "description") = <<"description">>
           /\ Local(c, "mtu") = <<"mtu">>
           /\ Local(c, "disabled") = <<"disable">>
           /\ Local(c, "full_name") = <<"full-name">>
           /\ Local(c, "default_action") = <<"default-action">>
           /\ Local(c, "rules") = <<"rule">>
           /\ Local(c, "hostname") = <<"host-name">>
           /\ Local(c, "domain_name") = <<"domain-name">>
           /\ Local(c, "name_servers") = <<"name-server">>
           /\ Local(c, "search_domains") = <<"domain-search">>
           /\ Local(c, "time_zone") = <<"time-zone">>
BY DEF Local, FieldKeys

\* The path of a field with one key.
LEMMA ShortPlace ==
    ASSUME NEW c, Fine(c), NEW field \in Typed(c), NEW key, Local(c, field) = <<key>>
    PROVE  FieldPath(c, field) = Append(ObjectPath(c), key)
<1>1. Len(Local(c, field)) = 1 /\ Local(c, field)[1] = key
  OBVIOUS
<1> QED
  BY <1>1, FieldPlaces DEF Fine

\* An object whose fields are given is rendered to their scopes.
LEMMA InterfaceRendered ==
    ASSUME NEW c, Fine(c), c.op = "interface", c.present, DOMAIN c.args # {}
    PROVE  Enumerates(RenderInterface(c), AllScopes(c))
<1> DEFINE path == InterfacePath(c)
           Part(field) == FieldPart(c, field)
           s1 == ExactList(c, "addresses", Append(path, "address"))
           s2 == ExactLeaf(c, "description", Append(path, "description"))
           s3 == ExactLeaf(c, "mtu", Append(path, "mtu"))
           s4 == RenderDisabled(c, Append(path, "disable"))
           s5 == MergeValues(c, path)
<1>1. ~Whole(c) /\ path = ObjectPath(c)
      /\ DOMAIN c.args \subseteq {"addresses", "description", "mtu", "disabled", "values"}
  BY DEF Whole, ObjectPath, Fine, IsCall, Fields
<1>2. /\ "addresses" \in DOMAIN c.args => Append(path, "address") = FieldPath(c, "addresses")
      /\ "description" \in DOMAIN c.args =>
             Append(path, "description") = FieldPath(c, "description")
      /\ "mtu" \in DOMAIN c.args => Append(path, "mtu") = FieldPath(c, "mtu")
      /\ "disabled" \in DOMAIN c.args => Append(path, "disable") = FieldPath(c, "disabled")
  BY <1>1, ShortKeys, ShortPlace DEF Typed
<1>3. Enumerates(s1, Part("addresses"))
  BY <1>2, ListRendered DEF Lists
<1>4. Enumerates(s2, Part("description"))
  BY <1>2, TextRendered DEF Texts
<1>5. Enumerates(s3, Part("mtu"))
  BY <1>2, TextRendered DEF Texts
<1>6. Enumerates(s4, Part("disabled"))
  BY <1>2, DisabledRendered DEF Fine
<1>7. Enumerates(s5, Part("values"))
  BY <1>1, ValuesRendered
<1>8. RenderInterface(c) = s1 \o s2 \o s3 \o s4 \o s5
  BY DEF RenderInterface, OrBare
<1>9. AllScopes(c) = Part("addresses") \cup Part("description") \cup Part("mtu")
                     \cup Part("disabled") \cup Part("values")
  BY <1>1 DEF AllScopes, FieldPart
<1>10. \A f, g : f # g => Part(f) \cap Part(g) = {}
  BY <1>1, PartsDisjoint
<1> HIDE DEF s1, s2, s3, s4, s5, Part
<1>11. Enumerates(s1 \o s2, Part("addresses") \cup Part("description"))
  BY <1>3, <1>4, <1>10, Enumerations
<1>12. Enumerates(s1 \o s2 \o s3, Part("addresses") \cup Part("description") \cup Part("mtu"))
  <2>1. (Part("addresses") \cup Part("description")) \cap Part("mtu") = {}
    BY <1>10
  <2> QED
    BY <1>5, <1>11, <2>1, Enumerations
<1>13. Enumerates(s1 \o s2 \o s3 \o s4,
                  Part("addresses") \cup Part("description") \cup Part("mtu") \cup Part("disabled"))
  <2>1. (Part("addresses") \cup Part("description") \cup Part("mtu")) \cap Part("disabled") = {}
    BY <1>10
  <2> QED
    BY <1>6, <1>12, <2>1, Enumerations
<1>14. Enumerates(s1 \o s2 \o s3 \o s4 \o s5, AllScopes(c))
  <2>1. (Part("addresses") \cup Part("description") \cup Part("mtu") \cup Part("disabled"))
        \cap Part("values") = {}
    BY <1>10
  <2> QED
    BY <1>7, <1>9, <1>13, <2>1, Enumerations
<1> QED
  BY <1>8, <1>14

LEMMA UserRendered ==
    ASSUME NEW c, Fine(c), c.op = "user", c.present, DOMAIN c.args # {}
    PROVE  Enumerates(RenderUser(c), AllScopes(c))
<1> DEFINE path == UserPath(c)
           Part(field) == FieldPart(c, field)
           s1 == ExactLeaf(c, "full_name", Append(path, "full-name"))
           s2 == ExactLeaf(c, "encrypted_password",
                           path \o <<"authentication", "encrypted-password">>)
           s3 == RenderKeys(c, path \o <<"authentication", "public-keys">>)
<1>1. ~Whole(c) /\ path = ObjectPath(c)
      /\ DOMAIN c.args \subseteq {"full_name", "encrypted_password", "ssh_keys"}
  BY DEF Whole, ObjectPath, Fine, IsCall, Fields
<1>2. /\ "full_name" \in DOMAIN c.args => Append(path, "full-name") = FieldPath(c, "full_name")
      /\ path \o <<"authentication", "encrypted-password">> = FieldPath(c, "encrypted_password")
      /\ path \o <<"authentication", "public-keys">> = FieldPath(c, "ssh_keys")
  <2>1. "full_name" \in DOMAIN c.args => Append(path, "full-name") = FieldPath(c, "full_name")
    BY <1>1, ShortKeys, ShortPlace DEF Typed
  <2> QED
    BY <1>1, <2>1 DEF FieldPath, FieldKeys
<1>3. Enumerates(s1, Part("full_name"))
  BY <1>2, TextRendered DEF Texts
<1>4. Enumerates(s2, Part("encrypted_password"))
  BY <1>2, TextRendered DEF Texts
<1>5. Enumerates(s3, Part("ssh_keys"))
  BY <1>2, KeysRendered
<1>6. RenderUser(c) = s1 \o s2 \o s3
  BY DEF RenderUser, OrBare
<1>7. AllScopes(c) = Part("full_name") \cup Part("encrypted_password") \cup Part("ssh_keys")
  BY <1>1 DEF AllScopes, FieldPart
<1>8. \A f, g : f # g => Part(f) \cap Part(g) = {}
  BY <1>1, PartsDisjoint
<1> HIDE DEF s1, s2, s3, Part
<1>9. Enumerates(s1 \o s2, Part("full_name") \cup Part("encrypted_password"))
  BY <1>3, <1>4, <1>8, Enumerations
<1>10. Enumerates(s1 \o s2 \o s3, AllScopes(c))
  <2>1. (Part("full_name") \cup Part("encrypted_password")) \cap Part("ssh_keys") = {}
    BY <1>8
  <2> QED
    BY <1>5, <1>7, <1>9, <2>1, Enumerations
<1> QED
  BY <1>6, <1>10

LEMMA RulesetRendered ==
    ASSUME NEW c, Fine(c), c.op = "firewall_ruleset", c.present, DOMAIN c.args # {}
    PROVE  Enumerates(RenderFirewallRuleset(c), AllScopes(c))
<1> DEFINE path == ChainPath(c)
           Part(field) == FieldPart(c, field)
           s1 == ExactLeaf(c, "default_action", Append(path, "default-action"))
           s2 == ExactLeaf(c, "description", Append(path, "description"))
           s3 == RenderRules(c, Append(path, "rule"))
           s4 == MergeValues(c, path)
<1>1. ~Whole(c) /\ path = ObjectPath(c)
      /\ DOMAIN c.args \subseteq {"default_action", "description", "rules", "values"}
  BY DEF Whole, ObjectPath, Fine, IsCall, Fields
<1>2. /\ "default_action" \in DOMAIN c.args =>
             Append(path, "default-action") = FieldPath(c, "default_action")
      /\ "description" \in DOMAIN c.args =>
             Append(path, "description") = FieldPath(c, "description")
      /\ "rules" \in DOMAIN c.args => Append(path, "rule") = FieldPath(c, "rules")
  BY <1>1, ShortKeys, ShortPlace DEF Typed
<1>3. Enumerates(s1, Part("default_action"))
  BY <1>2, TextRendered DEF Texts
<1>4. Enumerates(s2, Part("description"))
  BY <1>2, TextRendered DEF Texts
<1>5. Enumerates(s3, Part("rules"))
  BY <1>2, RulesRendered
<1>6. Enumerates(s4, Part("values"))
  BY <1>1, ValuesRendered
<1>7. RenderFirewallRuleset(c) = s1 \o s2 \o s3 \o s4
  BY DEF RenderFirewallRuleset
<1>8. AllScopes(c) = Part("default_action") \cup Part("description") \cup Part("rules")
                     \cup Part("values")
  BY <1>1 DEF AllScopes, FieldPart
<1>9. \A f, g : f # g => Part(f) \cap Part(g) = {}
  BY <1>1, PartsDisjoint
<1> HIDE DEF s1, s2, s3, s4, Part
<1>10. Enumerates(s1 \o s2, Part("default_action") \cup Part("description"))
  BY <1>3, <1>4, <1>9, Enumerations
<1>11. Enumerates(s1 \o s2 \o s3, Part("default_action") \cup Part("description") \cup Part("rules"))
  <2>1. (Part("default_action") \cup Part("description")) \cap Part("rules") = {}
    BY <1>9
  <2> QED
    BY <1>5, <1>10, <2>1, Enumerations
<1>12. Enumerates(s1 \o s2 \o s3 \o s4, AllScopes(c))
  <2>1. (Part("default_action") \cup Part("description") \cup Part("rules"))
        \cap Part("values") = {}
    BY <1>9
  <2> QED
    BY <1>6, <1>8, <1>11, <2>1, Enumerations
<1> QED
  BY <1>7, <1>12

\* Two keys in a row.
LEMMA KeyAfterKey == ASSUME NEW a, NEW b PROVE Append(<<a>>, b) = <<a, b>>
<1> DEFINE T == {a, b}
           one == <<a>>
           two == <<a, b>>
<1>1. one \in Seq(T) /\ Len(one) = 1 /\ one[1] = a
  OBVIOUS
<1>2. two \in Seq(T) /\ Len(two) = 2 /\ two[1] = a /\ two[2] = b
  OBVIOUS
<1>3. one \in Seq(T) /\ b \in T
  BY <1>1
<1> DEFINE longer == Append(one, b)
<1> HIDE DEF T, one, two
<1>4. /\ longer \in Seq(T) /\ Len(longer) = Len(one) + 1
      /\ \A i \in 1..Len(one) : longer[i] = one[i]
      /\ longer[Len(one) + 1] = b
  BY <1>3, AppendProperties
<1> HIDE DEF longer
<1>5. Len(longer) = Len(two) /\ \A i \in 1..Len(two) : two[i] = longer[i]
  BY <1>1, <1>2, <1>4
<1>6. longer = two
  BY <1>2, <1>4, <1>5, SeqEqual
<1> QED
  BY <1>6 DEF longer, one, two

LEMMA BasicsRendered ==
    ASSUME NEW c, Fine(c), c.op = "system_basics"
    PROVE  Enumerates(RenderSystemBasics(c), AllScopes(c))
<1> DEFINE Part(field) == FieldPart(c, field)
           s1 == ExactLeaf(c, "hostname", <<"system", "host-name">>)
           s2 == ExactLeaf(c, "domain_name", <<"system", "domain-name">>)
           s3 == ExactList(c, "name_servers", <<"system", "name-server">>)
           s4 == ExactList(c, "search_domains", <<"system", "domain-search">>)
           s5 == ExactLeaf(c, "time_zone", <<"system", "time-zone">>)
<1>1. /\ ~Whole(c) /\ ObjectPath(c) = <<"system">> /\ c.present /\ DOMAIN c.args # {}
      /\ DOMAIN c.args \subseteq {"hostname", "domain_name", "name_servers", "search_domains",
                                   "time_zone"}
  BY DEF Whole, ObjectPath, Fine, IsCall, Fields, Rejects, SystemBasicsRejects
<1>2. /\ "hostname" \in DOMAIN c.args =>
             <<"system", "host-name">> = FieldPath(c, "hostname")
      /\ "domain_name" \in DOMAIN c.args =>
             <<"system", "domain-name">> = FieldPath(c, "domain_name")
      /\ "name_servers" \in DOMAIN c.args =>
             <<"system", "name-server">> = FieldPath(c, "name_servers")
      /\ "search_domains" \in DOMAIN c.args =>
             <<"system", "domain-search">> = FieldPath(c, "search_domains")
      /\ "time_zone" \in DOMAIN c.args =>
             <<"system", "time-zone">> = FieldPath(c, "time_zone")
  <2>1. \A key : Append(<<"system">>, key) = <<"system", key>>
    BY KeyAfterKey
  <2>2. \A field \in DOMAIN c.args : \A key :
            Local(c, field) = <<key>> => FieldPath(c, field) = <<"system", key>>
    BY <1>1, <2>1, ShortPlace DEF Typed
  <2> QED
    BY <2>2, ShortKeys
<1>3. Enumerates(s1, Part("hostname"))
  BY <1>2, TextRendered DEF Texts
<1>4. Enumerates(s2, Part("domain_name"))
  BY <1>2, TextRendered DEF Texts
<1>5. Enumerates(s3, Part("name_servers"))
  BY <1>2, ListRendered DEF Lists
<1>6. Enumerates(s4, Part("search_domains"))
  BY <1>2, ListRendered DEF Lists
<1>7. Enumerates(s5, Part("time_zone"))
  BY <1>2, TextRendered DEF Texts
<1>8. RenderSystemBasics(c) = s1 \o s2 \o s3 \o s4 \o s5
  BY DEF RenderSystemBasics
<1>9. AllScopes(c) = Part("hostname") \cup Part("domain_name") \cup Part("name_servers")
                     \cup Part("search_domains") \cup Part("time_zone")
  BY <1>1 DEF AllScopes, FieldPart
<1>10. \A f, g : f # g => Part(f) \cap Part(g) = {}
  BY <1>1, PartsDisjoint
<1> HIDE DEF s1, s2, s3, s4, s5, Part
<1>11. Enumerates(s1 \o s2, Part("hostname") \cup Part("domain_name"))
  BY <1>3, <1>4, <1>10, Enumerations
<1>12. Enumerates(s1 \o s2 \o s3,
                  Part("hostname") \cup Part("domain_name") \cup Part("name_servers"))
  <2>1. (Part("hostname") \cup Part("domain_name")) \cap Part("name_servers") = {}
    BY <1>10
  <2> QED
    BY <1>5, <1>11, <2>1, Enumerations
<1>13. Enumerates(s1 \o s2 \o s3 \o s4,
                  Part("hostname") \cup Part("domain_name") \cup Part("name_servers")
                  \cup Part("search_domains"))
  <2>1. (Part("hostname") \cup Part("domain_name") \cup Part("name_servers"))
        \cap Part("search_domains") = {}
    BY <1>10
  <2> QED
    BY <1>6, <1>12, <2>1, Enumerations
<1>14. Enumerates(s1 \o s2 \o s3 \o s4 \o s5, AllScopes(c))
  <2>1. (Part("hostname") \cup Part("domain_name") \cup Part("name_servers")
         \cup Part("search_domains")) \cap Part("time_zone") = {}
    BY <1>10
  <2> QED
    BY <1>7, <1>9, <1>13, <2>1, Enumerations
<1> QED
  BY <1>8, <1>14

\* A call is rendered to its scopes.
LEMMA CallRendered ==
    ASSUME NEW c, Fine(c)
    PROVE  Enumerates(Render(c), AllScopes(c))
<1>1. /\ c.op \in {"system_basics", "interface", "static_route", "user", "firewall_group",
                   "firewall_ruleset"}
      /\ c.present \in BOOLEAN /\ (c.op = "system_basics" => c.present)
  BY DEF Fine, IsCall, Fields
<1>2. CASE ~c.present
  <2>1. Render(c) = << Scope("absent", ObjectPath(c), Absent) >>
    BY <1>1, <1>2 DEF Render, RenderInterface, RenderStaticRoute, RenderUser, RenderFirewallGroup,
       RenderFirewallRuleset, OrBare, ObjectPath
  <2>2. AllScopes(c) = { Scope("absent", ObjectPath(c), Absent) }
    BY <1>2 DEF AllScopes
  <2> QED
    BY <2>1, <2>2, Enumerations
<1>3. CASE c.present /\ Whole(c)
  <2>1. Render(c) = << Scope("exact", ObjectPath(c), Body(c)) >>
    BY <1>3 DEF Render, RenderStaticRoute, RenderFirewallGroup, ObjectPath, Body, Whole
  <2>2. AllScopes(c) = { Scope("exact", ObjectPath(c), Body(c)) }
    BY <1>3 DEF AllScopes
  <2> QED
    BY <2>1, <2>2, Enumerations
<1>4. CASE c.present /\ ~Whole(c) /\ DOMAIN c.args = {}
  <2>1. c.op \in {"interface", "user"}
    <3>1. c.op # "system_basics"
      BY <1>4 DEF Fine, Rejects, SystemBasicsRejects
    <3>2. c.op # "firewall_ruleset"
      BY <1>4 DEF Fine, Rejects, RulesetRejects, RulesetRejectsFirst, Given, IsCall
    <3> QED
      BY <1>1, <1>4, <3>1, <3>2 DEF Whole
  <2>2. Render(c) = << Scope("merge", ObjectPath(c), EmptyTree) >>
    BY <1>4, <2>1 DEF Render, RenderInterface, RenderUser, OrBare, ObjectPath
  <2>3. AllScopes(c) = { Scope("merge", ObjectPath(c), EmptyTree) }
    BY <1>4 DEF AllScopes
  <2> QED
    BY <2>2, <2>3, Enumerations
<1>5. CASE c.present /\ ~Whole(c) /\ DOMAIN c.args # {}
  <2>1. c.op \in {"system_basics", "interface", "user", "firewall_ruleset"}
    BY <1>1, <1>5 DEF Whole
  <2> QED
    BY <1>5, <2>1, BasicsRendered, InterfaceRendered, UserRendered, RulesetRendered DEF Render
<1> QED
  BY <1>1, <1>2, <1>3, <1>4, <1>5

\* What a call is rendered to can be asked for, is in terms of the grammar, and
\* its scopes lie apart.
LEMMA CallPosed ==
    ASSUME NEW c, Fine(c)
    PROVE  IsOperation(Render(c)) /\ WellPosed(Render(c))
<1> DEFINE scopes == Render(c)
           S == AllScopes(c)
<1>1. Enumerates(scopes, S)
  BY CallRendered
<1>2. \A s \in S : IsScope(s)
  BY ScopesAreTrees
<1>3. /\ \A s \in S : Posed(s)
      /\ \A s, t \in S : s # t => Apart(s, t)
  BY AllScopesPosed
<1> HIDE DEF scopes, S
<1>4. IsOperation(scopes)
  BY <1>1, <1>2, TreesAreAsked DEF Enumerates
<1>5. WellPosed(scopes)
  BY <1>1, <1>3, <1>4, PosedTogether
<1> QED
  BY <1>4, <1>5 DEF scopes

-----------------------------------------------------------------------------
(* What it means for the arguments that the scopes are met.                 *)

\* What a field asks for is there, and nothing else where it is the owner.
FieldHolds(c, field, config) ==
    /\ \A d \in Desired(c, field) : Required(d.node) \ {ObjectPath(c)} \subseteq config
    /\ field \notin {"values", "rules"} =>
           \A q \in config : IsPrefix(FieldPath(c, field), q) =>
               \E d \in Desired(c, field) : q \in Allowed(d.node)
    /\ field = "rules" =>
           \A key \in DOMAIN c.args[field], q \in config :
               IsPrefix(RulePath(c, key[2]), q) =>
                   /\ c.args[field][key] # Absent
                   /\ q \in Allowed(At(RulePath(c, key[2]), c.args[field][key]))

\* Parents are there with what is below them.
LEMMA Parental ==
    ASSUME NEW config, Candidate(config), NEW p \in Words \ {<<>>}, NEW q \in config, IsPrefix(p, q)
    PROVE  p \in config /\ q \in Words
BY CandidateIs, Grammar

\* The scopes of a field that is owned by itself.
LEMMA ScopesHold ==
    ASSUME NEW c, Fine(c), ~Whole(c), NEW field \in DOMAIN c.args,
           NEW config, Candidate(config), \A s \in FieldScopes(c, field) : Met(s, config)
    PROVE  /\ FieldHolds(c, field, config)
           /\ field = "values" => Required(At(ObjectPath(c), c.args[field])) \subseteq config
<1> DEFINE object == ObjectPath(c)
           D == Desired(c, field)
<1>1. \A scope : Required(scope.node) \subseteq Wanted(scope)
  BY DEF Wanted
<1>2. CASE field = "values"
  <2> DEFINE s == Scope("merge", object, c.args[field])
  <2>1. s \in FieldScopes(c, field) /\ s.intent = "merge" /\ s.node = At(object, c.args[field])
    BY <1>2, ScopeIs DEF FieldScopes
  <2>2. Required(At(object, c.args[field])) \subseteq config
    BY <1>1, <2>1 DEF Met
  <2>3. \A d \in D : d.node = At(object, c.args[field])
    BY <1>2, DesiredAt, ScopeIs DEF Fine
  <2> HIDE DEF D
  <2>4. \A d \in D : Required(d.node) \subseteq config
    BY <2>2, <2>3
  <2> QED
    BY <1>2, <2>2, <2>4 DEF FieldHolds, D
<1>3. CASE field \notin {"values", "rules"}
  <2> DEFINE path == FieldPath(c, field)
  <2>1. path \in Words \ {<<>>}
    BY <1>3, FieldPlaces DEF Fine, Typed
  <2>2. CASE D = {}
    <3>1. Scope("absent", path, Absent) \in FieldScopes(c, field)
      BY <1>3, <2>2 DEF FieldScopes
    <3>2. path \notin config
      BY <3>1, ScopeIs DEF Met
    <3> QED
      BY <1>3, <2>1, <2>2, <3>2, Parental DEF FieldHolds
  <2>3. CASE D # {}
    <3>1. D = FieldScopes(c, field)
      BY <1>3, <2>3 DEF FieldScopes
    <3>2. \A d \in D : d.path = path /\ d.intent = "exact"
      BY <1>3, DesiredAt DEF Fine
    <3>3. \A d \in D : /\ Required(d.node) \subseteq config
                       /\ \A q \in config : IsPrefix(path, q) => q \in Allowed(d.node)
      BY <1>1, <3>1, <3>2 DEF Met
    <3> QED
      BY <1>3, <2>3, <3>3 DEF FieldHolds
  <2> QED
    BY <2>2, <2>3
<1>4. CASE field = "rules"
  <2> DEFINE rules == c.args["rules"]
             At2(key) == At(RulePath(c, key[2]), rules[key])
  <2>1. \A d \in D : /\ d.intent = "exact" /\ ObjectPath(c) \notin Allowed(d.node)
                     /\ \E key \in DOMAIN rules :
                            /\ rules[key] # Absent
                            /\ d = Scope("exact", RulePath(c, key[2]), rules[key])
    BY <1>4, DesiredAt, DesiredFacts DEF Fine
  <2>2. \A key \in DOMAIN rules : RulePath(c, key[2]) \in Words \ {<<>>}
    BY <1>4, RulesAre, RulePlaces
  <2>3. CASE ~c.replace_rules
    <3>1. \A key \in DOMAIN rules : RuleScope(c, key) \in FieldScopes(c, field)
      BY <1>4, <2>3 DEF FieldScopes
    <3>2. ASSUME NEW key \in DOMAIN rules, NEW q \in config, IsPrefix(RulePath(c, key[2]), q)
          PROVE  rules[key] # Absent /\ q \in Allowed(At2(key))
      <4>1. Met(RuleScope(c, key), config)
        BY <3>1
      <4>2. ASSUME rules[key] = Absent
            PROVE  FALSE
        <5>1. RuleScope(c, key).intent = "absent" /\ RuleScope(c, key).path = RulePath(c, key[2])
          BY <4>2, ScopeIs DEF RuleScope
        <5> QED
          BY <2>2, <3>2, <4>1, <5>1, Parental DEF Met
      <4>3. /\ RuleScope(c, key).intent = "exact" /\ RuleScope(c, key).path = RulePath(c, key[2])
            /\ RuleScope(c, key).node = At2(key)
        BY <4>2, ScopeIs DEF RuleScope
      <4> HIDE DEF At2
      <4> QED
        BY <3>2, <4>1, <4>2, <4>3 DEF Met
    <3>3. ASSUME NEW d \in D
          PROVE  Required(d.node) \subseteq config
      <4>1. PICK key \in DOMAIN rules :
                rules[key] # Absent /\ d = Scope("exact", RulePath(c, key[2]), rules[key])
        BY <2>1
      <4>2. d = RuleScope(c, key)
        BY <4>1 DEF RuleScope
      <4>3. Met(d, config) /\ d.intent = "exact"
        BY <2>1, <3>1, <4>2
      <4> QED
        BY <1>1, <4>3 DEF Met
    <3> QED
      BY <1>4, <3>2, <3>3 DEF FieldHolds
  <2>4. CASE c.replace_rules /\ DOMAIN rules = {}
    <3>1. D = {}
      BY <2>1, <2>4
    <3> QED
      BY <1>4, <2>4, <3>1 DEF FieldHolds
  <2>5. CASE c.replace_rules /\ DOMAIN rules # {}
    <3> DEFINE base == FieldPath(c, "rules")
               s == Scope("exact", base, RuleTree(c))
    <3>1. s.intent = "exact" /\ s.path = base /\ s.node = At(base, RuleTree(c))
      BY ScopeIs
    <3>2. Met(s, config)
      BY <1>4, <2>5 DEF FieldScopes
    <3>3. Grown(base, s.node, D)
      BY <1>4, <2>5, <3>1, RuleTreeGrown
    <3>4. \A key \in DOMAIN rules : rules[key] # Absent
      BY <1>4, <2>5, RulesAre
    <3>5. PICK key0 \in DOMAIN rules : TRUE
      BY <2>5
    <3>6. D # {}
      BY <1>4, <3>4, <3>5, RuleDesired
    <3>7. /\ base \in Words \ {<<>>} /\ \A q \in Allowed(s.node) : q \in Words
          /\ Allowed(s.node) = {base} \cup UNION { Allowed(d.node) : d \in D }
          /\ Required(s.node) = UNION { Required(d.node) \ {base} : d \in D }
      BY <3>3, <3>6, GrownParts
    <3> HIDE DEF s, D, base
    <3>8. ASSUME NEW key \in DOMAIN rules, NEW q \in config, IsPrefix(RulePath(c, key[2]), q)
          PROVE  q \in Allowed(At2(key))
      <4>1. key[2] \in RuleTokens(c)
        BY <1>4, RulesAre
      <4>2. RulePath(c, key[2]) \in Words /\ IsStrictPrefix(base, RulePath(c, key[2])) /\ q \in Words
        BY <1>4, <2>2, <3>8, <4>1, RulePlaces, Parental DEF base
      <4>3. IsPrefix(base, q) /\ q # base
        BY <3>7, <3>8, <4>2, StrictOrder, PrefixOrder
      <4>4. q \in Allowed(s.node)
        BY <3>1, <3>2, <4>3 DEF Met
      <4>5. PICK d \in D : q \in Allowed(d.node)
        BY <3>7, <4>3, <4>4
      <4>6. PICK k \in DOMAIN rules : d = Scope("exact", RulePath(c, k[2]), rules[k])
        BY <2>1
      <4>7. d.path = RulePath(c, k[2]) /\ d.node = At2(k) /\ k[2] \in RuleTokens(c)
        BY <1>4, <4>6, ScopeIs, RulesAre
      <4>8. Suits(d) /\ d.intent = "exact"
        BY DesiredFacts DEF D
      <4>9. IsPrefix(RulePath(c, k[2]), q)
        BY <4>5, <4>7, <4>8, SuitingTree
      <4>10. k = key
        <5>1. RulePath(c, k[2]) \in Words
          BY <2>2
        <5>2. \/ IsPrefix(RulePath(c, k[2]), RulePath(c, key[2]))
              \/ IsPrefix(RulePath(c, key[2]), RulePath(c, k[2]))
          BY <3>8, <4>2, <4>9, <5>1, PrefixOrder
        <5>3. k[2] = key[2]
          BY <1>4, <4>1, <4>7, <5>2, RulesApart
        <5> QED
          BY <1>4, <5>3, TokensDiffer
      <4> HIDE DEF At2
      <4> QED
        BY <4>5, <4>7, <4>10
    <3>9. ASSUME NEW d \in D, NEW q \in Required(d.node)
          PROVE  q \in config
      <4>1. Required(s.node) \subseteq config
        BY <1>1, <3>1, <3>2 DEF Met
      <4>2. PICK key \in DOMAIN rules : d = Scope("exact", RulePath(c, key[2]), rules[key])
        BY <2>1
      <4>3. d.path = RulePath(c, key[2]) /\ key[2] \in RuleTokens(c)
        BY <1>4, <4>2, ScopeIs, RulesAre
      <4>4. Suits(d) /\ d.intent = "exact"
        BY DesiredFacts DEF D
      <4>5. q \in Allowed(d.node)
        BY DEF Required, Allowed, Bare, Present
      <4>6. IsPrefix(d.path, q) /\ q \in Words
        BY <3>7, <4>4, <4>5, SuitingTree
      <4>7. q # base
        <5>1. IsStrictPrefix(base, d.path) /\ d.path \in Words
          BY <1>4, <4>3, RulePlaces DEF base
        <5> QED
          BY <3>7, <4>6, <5>1, StrictOrder, PrefixOrder
      <4> QED
        BY <3>7, <4>1, <4>7
    <3> QED
      BY <1>4, <3>4, <3>8, <3>9 DEF FieldHolds, D
  <2>6. c.replace_rules \in BOOLEAN
    BY <1>4, RulesAre DEF Fine, IsCall
  <2> QED
    BY <2>3, <2>4, <2>5, <2>6
<1> QED
  BY <1>2, <1>3, <1>4

\* The scope of an object that is owned as a whole: what is there below it was asked
\* for by one of its fields.
LEMMA WholeHolds ==
    ASSUME NEW c, Fine(c), Whole(c), c.present, NEW config, Candidate(config),
           Met(Scope("exact", ObjectPath(c), Body(c)), config)
    PROVE  /\ ObjectPath(c) \in config
           /\ \A field \in DOMAIN c.args : FieldHolds(c, field, config)
           /\ \A q \in config : IsStrictPrefix(ObjectPath(c), q) =>
                  \E field \in DOMAIN c.args : Under(c, field, q)
<1> DEFINE base == ObjectPath(c)
           s == Scope("exact", base, Body(c))
           D == AllDesired(c)
<1>1. s.intent = "exact" /\ s.path = base /\ s.node = At(base, Body(c))
  BY ScopeIs
<1>2. Grown(base, s.node, D)
  BY <1>1, WholeGrown
<1>3. /\ base \in Words \ {<<>>} /\ \A q \in Allowed(s.node) : q \in Words /\ IsPrefix(base, q)
      /\ Allowed(s.node) = {base} \cup UNION { Allowed(d.node) : d \in D }
      /\ Required(s.node) = IF D = {} THEN {base}
                            ELSE UNION { Required(d.node) \ {base} : d \in D }
  <2> DEFINE node == s.node
  <2>1. Grown(base, node, D)
    BY <1>2
  <2> HIDE DEF base, s, D, node
  <2>2. /\ base \in Words \ {<<>>} /\ \A q \in Allowed(node) : q \in Words /\ IsPrefix(base, q)
        /\ Allowed(node) = {base} \cup UNION { Allowed(d.node) : d \in D }
        /\ Required(node) = IF D = {} THEN {base}
                            ELSE UNION { Required(d.node) \ {base} : d \in D }
    BY <2>1, GrownParts
  <2> QED
    BY <2>2 DEF node
<1> HIDE DEF s
<1>4. /\ Wanted(s) \subseteq config /\ Required(s.node) \subseteq Wanted(s) /\ Wanted(s) # {}
      /\ \A q \in config : IsPrefix(base, q) => q \in Allowed(s.node)
  BY <1>1 DEF Met, s, Wanted
<1>5. config \subseteq Words
  BY CandidateIs, Grammar
<1>6. base \in config
  <2>1. \A q \in Wanted(s) : IsPrefix(base, q)
    <3>1. Required(s.node) \subseteq Allowed(s.node)
      BY DEF Required, Allowed, Bare, Present
    <3> QED
      BY <1>1, <1>3, <3>1, PrefixOrder DEF Wanted
  <2> QED
    BY <1>3, <1>4, <2>1, Parental
<1>7. ASSUME NEW q \in config, IsStrictPrefix(base, q)
      PROVE  \E field \in DOMAIN c.args :
                 Under(c, field, q) /\ \E d \in Desired(c, field) : q \in Allowed(d.node)
  <2>1. IsPrefix(base, q) /\ q # base
    BY <1>3, <1>5, <1>7, StrictOrder
  <2>2. PICK d \in D : q \in Allowed(d.node)
    BY <1>3, <1>4, <2>1
  <2>3. PICK field \in DOMAIN c.args : d \in Desired(c, field)
    BY DEF AllDesired
  <2>4. Under(c, field, q)
    BY <2>1, <2>2, <2>3, DesiredFacts
  <2> QED
    BY <2>2, <2>3, <2>4
<1>8. ASSUME NEW field \in DOMAIN c.args
      PROVE  FieldHolds(c, field, config)
  <2>1. field # "rules"
    BY DEF Fine, IsCall, Fields, Whole
  <2>2. \A d \in Desired(c, field) : Required(d.node) \ {base} \subseteq config
    <3>1. \A d \in Desired(c, field) : d \in D
      BY DEF AllDesired
    <3> HIDE DEF D
    <3> QED
      BY <1>3, <1>4, <3>1
  <2>3. ASSUME field # "values", NEW q \in config, IsPrefix(FieldPath(c, field), q)
        PROVE  \E d \in Desired(c, field) : q \in Allowed(d.node)
    <3>1. /\ FieldPath(c, field) \in Words \ {<<>>} /\ IsStrictPrefix(base, FieldPath(c, field))
      BY <2>3, FieldPlaces DEF Fine, Typed
    <3>2. IsStrictPrefix(base, q)
      BY <1>3, <1>5, <2>3, <3>1, StrictOrder
    <3>3. PICK other \in DOMAIN c.args :
              Under(c, other, q) /\ \E d \in Desired(c, other) : q \in Allowed(d.node)
      BY <1>7, <3>2
    <3>4. Under(c, field, q)
      BY <1>5, <2>3 DEF Under, Roots
    <3>5. IsPrefix(q, q)
      BY <1>5, PrefixOrder
    <3>6. other = field
      BY <3>3, <3>4, <3>5, UnderApart
    <3> QED
      BY <3>3, <3>6
  <2> QED
    BY <2>1, <2>2, <2>3 DEF FieldHolds
<1> QED
  BY <1>6, <1>7, <1>8

\* Where its parts hold, a field is met.
LEMMA HoldsIsMet ==
    ASSUME NEW c, Fine(c), NEW field \in DOMAIN c.args, NEW config, Candidate(config),
           FieldHolds(c, field, config),
           field = "values" => Required(At(ObjectPath(c), c.args[field])) \subseteq config
    PROVE  FieldIsMet(c, field, config)
<1> DEFINE value == c.args[field]
           path == FieldPath(c, field)
<1>1. config \subseteq Words
  BY CandidateIs, Grammar
<1>2. CASE field = "values"
  BY <1>2 DEF FieldIsMet, Lists, Subtrees
<1>3. \A d \in Desired(c, field) :
          field # "values" => Required(d.node) \subseteq config /\ Required(d.node) # {}
  BY DesiredFacts DEF FieldHolds, Required, Allowed, Bare, Present
<1>4. ASSUME field \notin {"values", "rules"}
      PROVE  /\ path \in Words \ {<<>>}
             /\ \A q \in config : IsPrefix(path, q) =>
                    \E d \in Desired(c, field) : q \in Allowed(d.node)
  BY <1>4, FieldPlaces DEF FieldHolds, Typed, Fine
<1>5. ASSUME field \notin {"values", "rules"}, NEW tree,
             Desired(c, field) = { Scope("exact", path, tree) }
      PROVE  Exactly(config, tree, path)
  <2>1. Scope("exact", path, tree).node = At(path, tree)
    BY ScopeIs
  <2> HIDE DEF path
  <2> QED
    BY <1>3, <1>4, <1>5, <2>1 DEF Exactly, path
<1>6. ASSUME field \notin {"values", "rules"}, NEW tree \in {Leaf({}), EmptyTree},
             Desired(c, field) = {}
      PROVE  Exactly(config, tree, path)
  <2>1. Required(At(path, tree)) \subseteq {path}
    BY <1>4, <1>6, PlainTrees DEF Required, Bare
  <2> QED
    BY <1>4, <1>6, <2>1 DEF Exactly
<1>7. CASE field \in Lists
  <2>1. Desired(c, field) = IF value = {} THEN {} ELSE { Scope("exact", path, Leaf(value)) }
    BY <1>7 DEF Desired, Lists, Subtrees
  <2>2. field \notin {"values", "rules"}
    BY <1>7 DEF Lists
  <2>3. Exactly(config, Leaf(value), path)
    BY <1>5, <1>6, <2>1, <2>2
  <2> QED
    BY <1>7, <2>3 DEF FieldIsMet, Lists, Subtrees
<1>8. CASE field \in Subtrees \ {"values"}
  <2>1. Desired(c, field) = IF value = EmptyTree THEN {} ELSE { Scope("exact", path, value) }
    BY <1>8 DEF Desired, Lists, Subtrees
  <2>2. field \notin {"values", "rules"}
    BY <1>8 DEF Subtrees
  <2>3. Exactly(config, value, path)
    BY <1>5, <1>6, <2>1, <2>2
  <2> QED
    BY <1>8, <2>3 DEF FieldIsMet, Lists, Subtrees
<1>9. CASE field = "disabled"
  <2>1. Desired(c, field) = IF value THEN { Scope("exact", path, EmptyTree) } ELSE {}
    BY <1>9 DEF Desired, Lists, Subtrees
  <2>2. value \in BOOLEAN
    BY <1>9 DEF Fine, IsCall
  <2>3. CASE value
    <3> DEFINE d == Scope("exact", path, EmptyTree)
    <3>1. d \in Desired(c, field) /\ d.node = At(path, EmptyTree)
      BY <2>1, <2>3, ScopeIs
    <3>2. d.node.nodes = {path} /\ d.node.leaves = {} /\ d.node.values = {}
      BY <1>4, <1>9, <3>1, PlainTrees
    <3>3. Required(d.node) \subseteq {path}
      BY <3>2 DEF Required, Bare
    <3>4. path \in config
      BY <1>3, <1>9, <3>1, <3>3
    <3> QED
      BY <1>9, <2>3, <3>4 DEF FieldIsMet, Lists, Subtrees
  <2>4. CASE ~value
    <3>1. path \notin config
      BY <1>1, <1>4, <1>9, <2>1, <2>4, PrefixOrder
    <3> QED
      BY <1>9, <2>4, <3>1 DEF FieldIsMet, Lists, Subtrees
  <2> QED
    BY <2>2, <2>3, <2>4
<1>10. CASE field = "rules"
  <2> SUFFICES ASSUME NEW key \in DOMAIN value
               PROVE  LET rule == RulePath(c, key[2])
                      IN  IF value[key] = Absent THEN rule \notin config
                          ELSE rule \in config /\ Exactly(config, value[key], rule)
    BY <1>10 DEF FieldIsMet, Lists, Subtrees
  <2> DEFINE rule == RulePath(c, key[2])
             node == At(rule, value[key])
  <2>1. rule \in Words \ {<<>>}
    BY <1>10, RulesAre, RulePlaces
  <2>2. \A q \in config : IsPrefix(rule, q) => value[key] # Absent /\ q \in Allowed(node)
    BY <1>10 DEF FieldHolds
  <2>3. CASE value[key] = Absent
    BY <1>1, <2>1, <2>2, <2>3, PrefixOrder
  <2>4. CASE value[key] # Absent
    <3> DEFINE d == Scope("exact", rule, value[key])
    <3>1. d.node = node /\ d.path = rule /\ d.intent = "exact"
      BY ScopeIs
    <3>2. d \in Desired(c, field)
      BY <1>10, <2>4, RuleDesired
    <3>3. Suits(d)
      BY <3>2, DesiredFacts
    <3> HIDE DEF d, node
    <3>4. Required(node) \subseteq config /\ Required(node) # {}
      BY <1>3, <1>10, <3>1, <3>2
    <3>5. \A q \in Required(node) : IsPrefix(rule, q)
      BY <3>1, <3>3, SuitingTree DEF Required, Allowed, Bare, Present
    <3>6. rule \in config
      BY <2>1, <3>4, <3>5, Parental
    <3> QED
      BY <2>2, <2>4, <3>4, <3>6 DEF Exactly, node
  <2> QED
    BY <2>3, <2>4
<1>11. CASE field \notin Lists \cup Subtrees \cup {"disabled", "rules"}
  <2>1. Desired(c, field) = { Scope("exact", path, Leaf({value})) }
    BY <1>11 DEF Desired, Lists, Subtrees
  <2>2. field \notin {"values", "rules"}
    BY <1>11 DEF Subtrees
  <2>3. Exactly(config, Leaf({value}), path)
    BY <1>5, <2>1, <2>2
  <2> QED
    BY <1>11, <2>3 DEF FieldIsMet, Lists, Subtrees
<1> QED
  BY <1>2, <1>7, <1>8, <1>9, <1>10, <1>11

\* What a path has in common with one above it.
LEMMA SameKey ==
    ASSUME NEW p \in Words, NEW q \in Words, IsPrefix(p, q), NEW n \in Nat, n + 1 <= Len(p)
    PROVE  q[n + 1] = p[n + 1]
<1>1. Len(p) \in Nat /\ Len(q) \in Nat
  BY LenProperties DEF Words
<1>2. n + 1 \in 1..Len(p)
  BY <1>1
<1> QED
  BY <1>2, PrefixIs

\* The keys below an object that is owned as a whole are those of its fields.
LEMMA WholeKeys ==
    ASSUME NEW c, Fine(c), NEW config, config \subseteq Words,
           \A q \in config : IsStrictPrefix(ObjectPath(c), q) =>
               \E field \in DOMAIN c.args : Under(c, field, q)
    PROVE  LET asked(field) == IF field = "values" THEN Keys(c.args[field])
                               ELSE { FieldPath(c, field)[Len(ObjectPath(c)) + 1] }
           IN  KeysAt(config, ObjectPath(c)) \subseteq UNION { asked(field) : field \in DOMAIN c.args }
<1> DEFINE object == ObjectPath(c)
           n == Len(object)
           asked(field) == IF field = "values" THEN Keys(c.args[field])
                           ELSE { FieldPath(c, field)[n + 1] }
<1> SUFFICES KeysAt(config, object) \subseteq UNION { asked(field) : field \in DOMAIN c.args }
  OBVIOUS
<1> HIDE DEF asked
<1> SUFFICES ASSUME NEW q \in config, IsStrictPrefix(object, q)
             PROVE  \E field \in DOMAIN c.args : q[n + 1] \in asked(field)
  BY DEF KeysAt
<1> USE DEF asked
<1>1. PICK field \in DOMAIN c.args : Under(c, field, q)
  OBVIOUS
<1>2. PICK root \in Roots(c, field) : IsPrefix(root, q)
  BY <1>1 DEF Under
<1>3. /\ root \in Words /\ n + 1 <= Len(root)
      /\ IF field = "values" THEN root[n + 1] \in Keys(c.args[field])
         ELSE root[n + 1] = Local(c, field)[1]
  BY RootFacts DEF Fine
<1>4. field # "values" => FieldPath(c, field)[n + 1] = Local(c, field)[1]
  BY FieldPlaces DEF Fine, Typed
<1>5. root[n + 1] \in asked(field)
  BY <1>3, <1>4
<1>6. n \in Nat /\ q \in Words
  BY Objects DEF Fine
<1> HIDE DEF asked, n
<1>7. q[n + 1] = root[n + 1]
  BY <1>2, <1>3, <1>6, SameKey
<1> QED
  BY <1>5, <1>7

\* Where all rules are replaced there are those that were given, and no others.
LEMMA RulesReplaced ==
    ASSUME NEW c, Fine(c), "rules" \in DOMAIN c.args, c.replace_rules,
           NEW config, Candidate(config),
           \A s \in FieldScopes(c, "rules") : Met(s, config), FieldIsMet(c, "rules", config)
    PROVE  KeysAt(config, FieldPath(c, "rules")) = RuleTokens(c)
<1> DEFINE node == FieldPath(c, "rules")
           rules == c.args["rules"]
           n == Len(node)
           D == Desired(c, "rules")
<1>1. /\ RuleTokens(c) = { key[2] : key \in DOMAIN rules }
      /\ \A key \in DOMAIN rules : rules[key] # Absent
  BY RulesAre
<1>2. config \subseteq Words /\ node \in Words \ {<<>>} /\ n \in Nat
  <2>1. node \in Words \ {<<>>}
    BY FieldPlaces DEF Fine, Typed
  <2> QED
    BY <2>1, CandidateIs, Grammar, LenProperties DEF Words
<1>3. \A token \in RuleTokens(c) :
          LET path == RulePath(c, token)
          IN  path \in Words /\ IsStrictPrefix(node, path) /\ path[n + 1] = token /\ Len(path) = n + 1
  BY RulePlaces
<1>4. ASSUME NEW token \in RuleTokens(c)
      PROVE  token \in KeysAt(config, node)
  <2>1. PICK key \in DOMAIN rules : token = key[2]
    BY <1>1
  <2>2. RulePath(c, key[2]) \in config
    BY <1>1 DEF FieldIsMet, Lists, Subtrees
  <2> QED
    BY <1>3, <2>1, <2>2 DEF KeysAt
<1>5. ASSUME NEW q \in config, IsStrictPrefix(node, q)
      PROVE  q[n + 1] \in RuleTokens(c)
  <2>1. IsPrefix(node, q) /\ q # node
    BY <1>2, <1>5, StrictOrder
  <2>2. DOMAIN rules # {}
    <3>1. SUFFICES ASSUME DOMAIN rules = {}
                   PROVE  FALSE
      OBVIOUS
    <3>2. D = {}
      <4>1. D = { Scope("exact", RulePath(c, key[2]), rules[key]) :
                      key \in { k \in DOMAIN rules : rules[k] # Absent } }
        BY DEF Desired, Lists, Subtrees
      <4> QED
        BY <3>1, <4>1
    <3>3. Met(Scope("absent", node, Absent), config)
      BY <3>1, <3>2 DEF FieldScopes
    <3>4. node \notin config
      BY <3>3, ScopeIs DEF Met
    <3> QED
      BY <1>2, <2>1, <3>4, Parental
  <2>3. Met(Scope("exact", node, RuleTree(c)), config)
    BY <2>2 DEF FieldScopes
  <2>4. q \in Allowed(At(node, RuleTree(c)))
    BY <2>1, <2>3, ScopeIs DEF Met
  <2>5. Grown(node, At(node, RuleTree(c)), D)
    BY <2>2, RuleTreeGrown
  <2>6. PICK d \in D : q \in Allowed(d.node)
    <3> DEFINE tree == At(node, RuleTree(c))
    <3> HIDE DEF tree, node, D
    <3>1. Allowed(tree) = {node} \cup UNION { Allowed(d.node) : d \in D }
      BY <2>5, GrownParts DEF tree
    <3> QED
      BY <2>1, <2>4, <3>1 DEF tree
  <2>7. PICK key \in DOMAIN rules : d = Scope("exact", RulePath(c, key[2]), rules[key])
    <3>1. D = { Scope("exact", RulePath(c, k[2]), rules[k]) :
                    k \in { l \in DOMAIN rules : rules[l] # Absent } }
      BY DEF Desired, Lists, Subtrees
    <3> QED
      BY <3>1
  <2>8. d.path = RulePath(c, key[2]) /\ d.intent = "exact" /\ Suits(d)
    BY <2>7, ScopeIs, DesiredFacts
  <2>9. IsPrefix(RulePath(c, key[2]), q)
    BY <2>6, <2>8, SuitingTree
  <2> DEFINE path == RulePath(c, key[2])
  <2>10. path \in Words /\ path[n + 1] = key[2] /\ Len(path) = n + 1 /\ key[2] \in RuleTokens(c)
    BY <1>1, <1>3
  <2> HIDE DEF path, n
  <2>11. q[n + 1] = path[n + 1]
    BY <1>2, <2>9, <2>10, SameKey DEF path
  <2> QED
    BY <2>10, <2>11
<1> QED
  BY <1>4, <1>5 DEF KeysAt

\* A configuration is as the arguments of a call say.
ArgumentsMet(c, config) ==
    IF c.present
    THEN /\ \A field \in DOMAIN c.args : FieldIsMet(c, field, config)
         /\ DOMAIN c.args = {} \/ Whole(c) => ObjectPath(c) \in config
         /\ NothingElse(c, config)
    ELSE ObjectPath(c) \notin config

\* An object that is owned as a whole is as its arguments say.
LEMMA WholeIsMet ==
    ASSUME NEW c, Fine(c), Whole(c), c.present, NEW config, Candidate(config),
           Met(Scope("exact", ObjectPath(c), Body(c)), config)
    PROVE  ArgumentsMet(c, config)
<1> DEFINE object == ObjectPath(c)
<1>1. /\ object \in config
      /\ \A field \in DOMAIN c.args : FieldHolds(c, field, config)
      /\ \A q \in config : IsStrictPrefix(object, q) =>
             \E field \in DOMAIN c.args : Under(c, field, q)
  BY WholeHolds
<1>2. ASSUME "values" \in DOMAIN c.args
      PROVE  Required(At(object, c.args["values"])) \subseteq config
  <2> DEFINE value == c.args["values"]
             d == Scope("exact", object, value)
  <2>1. CASE value = EmptyTree
    <3>1. object \in Words
      BY Objects DEF Fine
    <3> HIDE DEF object
    <3>2. Required(At(object, EmptyTree)) \subseteq {object}
      BY <3>1, PlainTrees DEF Required, Bare
    <3> QED
      BY <1>1, <2>1, <3>2
  <2>2. CASE value # EmptyTree
    <3>1. d \in Desired(c, "values") /\ d.node = At(object, value)
      BY <2>2, ScopeIs DEF Desired, Lists, Subtrees
    <3>2. Required(d.node) \ {object} \subseteq config
      BY <1>1, <1>2, <3>1 DEF FieldHolds
    <3> QED
      BY <1>1, <3>1, <3>2
  <2> QED
    BY <2>1, <2>2
<1>3. \A field \in DOMAIN c.args : FieldIsMet(c, field, config)
  BY <1>1, <1>2, HoldsIsMet
<1>4. config \subseteq Words
  BY CandidateIs, Grammar
<1>5. NothingElse(c, config)
  <2>1. c.op # "firewall_ruleset"
    BY DEF Whole
  <2> QED
    BY <1>1, <1>4, <2>1, WholeKeys DEF NothingElse
<1> QED
  BY <1>1, <1>3, <1>5 DEF ArgumentsMet

\* A configuration that meets the scopes of a call is as its arguments say.
LEMMA ScopesMeetArguments ==
    ASSUME NEW c, Fine(c), NEW config, Candidate(config),
           \A s \in AllScopes(c) : Met(s, config)
    PROVE  ArgumentsMet(c, config)
<1> DEFINE object == ObjectPath(c)
<1>1. c.present \in BOOLEAN
  BY DEF Fine, IsCall
<1>2. CASE ~c.present
  <2>1. Met(Scope("absent", object, Absent), config)
    BY <1>2 DEF AllScopes
  <2>2. object \notin config
    BY <2>1, ScopeIs DEF Met
  <2> QED
    BY <1>2, <2>2 DEF ArgumentsMet
<1>3. CASE c.present /\ Whole(c)
  <2>1. Met(Scope("exact", object, Body(c)), config)
    BY <1>3 DEF AllScopes
  <2> QED
    BY <1>3, <2>1, WholeIsMet
<1>4. CASE c.present /\ ~Whole(c) /\ DOMAIN c.args = {}
  <2> DEFINE s == Scope("merge", object, EmptyTree)
  <2>1. Met(s, config)
    BY <1>4 DEF AllScopes
  <2>2. s.intent = "merge" /\ s.path = object /\ s.node = At(object, EmptyTree)
    BY ScopeIs
  <2>3. object \in Words
    BY Objects DEF Fine
  <2>4. Required(s.node) \subseteq {object}
    <3> HIDE DEF object
    <3> QED
      BY <2>2, <2>3, PlainTrees DEF Required, Bare
  <2> HIDE DEF s
  <2>5. Wanted(s) = {object}
    BY <2>2, <2>4 DEF Wanted
  <2>6. object \in config
    BY <2>1, <2>2, <2>5 DEF Met
  <2>7. NothingElse(c, config)
    <3>1. c.op # "firewall_ruleset"
      BY <1>4 DEF Fine, Rejects, RulesetRejects, RulesetRejectsFirst, Given, IsCall
    <3> QED
      BY <1>4, <3>1 DEF NothingElse
  <2> QED
    BY <1>4, <2>6, <2>7 DEF ArgumentsMet
<1>5. CASE c.present /\ ~Whole(c) /\ DOMAIN c.args # {}
  <2>1. \A field \in DOMAIN c.args : \A s \in FieldScopes(c, field) : Met(s, config)
    BY <1>5 DEF AllScopes
  <2>2. \A field \in DOMAIN c.args : FieldIsMet(c, field, config)
    BY <1>5, <2>1, ScopesHold, HoldsIsMet
  <2>3. ASSUME c.op = "firewall_ruleset", c.replace_rules
        PROVE  KeysAt(config, FieldPath(c, "rules")) = RuleTokens(c)
    <3>1. "rules" \in DOMAIN c.args
      BY <1>5, <2>3 DEF Fine, Rejects, RulesetRejects, RulesetRejectsFirst, Given
    <3> QED
      BY <2>1, <2>2, <2>3, <3>1, RulesReplaced
  <2>4. NothingElse(c, config)
    BY <1>5, <2>3 DEF NothingElse
  <2> QED
    BY <1>5, <2>2, <2>4 DEF ArgumentsMet
<1> QED
  BY <1>1, <1>2, <1>3, <1>4, <1>5

\* The same of the sequence that a call is rendered to.
LEMMA CallMet ==
    ASSUME NEW c, Fine(c), NEW config, Candidate(config),
           \A i \in DOMAIN Render(c) : Met(Render(c)[i], config)
    PROVE  ArgumentsMet(c, config)
<1>1. Enumerates(Render(c), AllScopes(c))
  BY CallRendered
<1>2. \A s \in AllScopes(c) : Met(s, config)
  BY <1>1 DEF Enumerates
<1> QED
  BY <1>2, ScopesMeetArguments

-----------------------------------------------------------------------------
(* What the commands of a call touch.                                       *)

\* A path that a call is about: at, above or below what it owns, or above its object.
About(c, q) ==
    \E path \in Owned(c) \cup {ObjectPath(c)} :
        IsPrefix(q, path) \/ (path \in Owned(c) /\ IsPrefix(path, q))

\* A scope that is the owner of its path has that of its field, or of a rule.
LEMMA OwnerPath ==
    ASSUME NEW c, Fine(c), NEW field \in Typed(c), NEW s \in FieldScopes(c, field)
    PROVE  s.path \in Area(c, field) /\ s.intent # "merge"
<1>1. field # "values" /\ field \in DOMAIN c.args
  BY DEF Typed
<1>2. CASE field = "rules" /\ ~c.replace_rules
  <2>1. PICK key \in DOMAIN c.args["rules"] : s = RuleScope(c, key)
    BY <1>2 DEF FieldScopes
  <2>2. s.path = RulePath(c, key[2]) /\ s.intent # "merge"
    BY <2>1, ScopeIs DEF RuleScope
  <2>3. key[2] \in RuleTokens(c)
    BY <1>1, <1>2, RulesAre
  <2> QED
    BY <1>2, <2>2, <2>3 DEF Area
<1>3. ASSUME field # "rules" \/ c.replace_rules
      PROVE  s.path = FieldPath(c, field) /\ s.intent # "merge"
  <2>1. CASE field = "rules"
    <3>1. Desired(c, "rules") =
              { Scope("exact", RulePath(c, k[2]), c.args["rules"][k]) :
                    k \in { l \in DOMAIN c.args["rules"] : c.args["rules"][l] # Absent } }
      BY DEF Desired, Lists, Subtrees
    <3>2. DOMAIN c.args["rules"] = {} => Desired(c, "rules") = {}
      BY <3>1
    <3>3. \/ s = Scope("exact", FieldPath(c, field), RuleTree(c))
          \/ s = Scope("absent", FieldPath(c, field), Absent)
      BY <1>3, <2>1, <3>2 DEF FieldScopes
    <3> QED
      BY <3>3, ScopeIs
  <2>2. CASE field # "rules"
    <3>1. \/ s = Scope("absent", FieldPath(c, field), Absent)
          \/ s \in Desired(c, field)
      BY <1>1, <2>2 DEF FieldScopes
    <3>2. \A d \in Desired(c, field) : \E tree : d = Scope("exact", FieldPath(c, field), tree)
      BY <1>1, <2>2 DEF Desired, Lists, Subtrees
    <3> QED
      BY <3>1, <3>2, ScopeIs
  <2> QED
    BY <2>1, <2>2
<1>4. ASSUME field # "rules" \/ c.replace_rules
      PROVE  s.path \in Area(c, field) /\ s.intent # "merge"
  BY <1>1, <1>3, <1>4 DEF Area
<1> QED
  BY <1>2, <1>4

\* The scope of an open body touches what the body asks for.
LEMMA OpenOwns ==
    ASSUME NEW c, Fine(c), ~Whole(c), "values" \in DOMAIN c.args,
           NEW s \in FieldScopes(c, "values"), NEW q \in Words \ {<<>>}
    PROVE  /\ Adds(s, q) \/ Removes(s, q) => About(c, q)
           /\ Removes(s, q) => Front(q) \in SingleLeaves
<1> DEFINE object == ObjectPath(c)
<1>1. s.intent = "merge" /\ s.path = object
  BY ScopeIs DEF FieldScopes
<1>2. Placed(c, "values", s)
  BY ScopesPlaced
<1>3. \A w \in Wanted(s) : w = object \/ Under(c, "values", w)
  BY <1>1, <1>2 DEF Wanted, Placed
<1>4. object \in Words \ {<<>>} /\ object \notin Leaves /\ Front(object) \notin Leaves
  BY Objects, Grammar DEF Fine, Fits
<1>5. Roots(c, "values") = Area(c, "values") /\ Area(c, "values") \subseteq Owned(c)
  BY DEF Roots, Area, Owned
<1>6. \A root \in Roots(c, "values") :
          root \in Words \ {<<>>} /\ Front(root) = object
  <2> SUFFICES ASSUME NEW key \in Keys(c.args["values"])
               PROVE  /\ Append(object, key) \in Words \ {<<>>}
                      /\ Front(Append(object, key)) = object
    BY DEF Roots
  <2>1. key \in STRING
    BY KeysAreStrings DEF Fine, IsCall, Subtrees
  <2> HIDE DEF object
  <2> QED
    BY <1>4, <2>1, OneKey
<1>7. SingleLeaves \subseteq Leaves
  BY DEF Leaves
<1> HIDE DEF object
<1>8. ASSUME NEW w \in Wanted(s), IsPrefix(q, w)
      PROVE  About(c, q)
  <2>1. CASE w = object
    BY <1>8, <2>1 DEF About, object
  <2>2. CASE Under(c, "values", w)
    <3>1. PICK root \in Roots(c, "values") : IsPrefix(root, w) /\ w \in Words
      BY <2>2 DEF Under
    <3>2. IsPrefix(root, q) \/ IsPrefix(q, root)
      BY <1>6, <1>8, <3>1, PrefixOrder
    <3> QED
      BY <1>5, <3>1, <3>2 DEF About
  <2> QED
    BY <1>3, <2>1, <2>2
<1>9. ASSUME NEW w \in Wanted(s), Front(w) = Front(q), Front(q) \in SingleLeaves
      PROVE  About(c, q)
  <2>1. Under(c, "values", w)
    BY <1>3, <1>4, <1>7, <1>9
  <2>2. PICK root \in Roots(c, "values") : IsPrefix(root, w) /\ w \in Words
    BY <2>1 DEF Under
  <2>3. root # w
    BY <1>4, <1>6, <1>7, <1>9
  <2>4. w # <<>>
    BY <1>6, <2>2, <2>3, PrefixOrder
  <2>5. IsPrefix(root, Front(w))
    BY <1>6, <2>2, <2>3, <2>4, Parents, StrictOrder
  <2>6. IsPrefix(root, q)
    BY <1>6, <1>9, <2>5, Parents, StrictOrder
  <2> QED
    BY <1>5, <2>6 DEF About
<1> QED
  BY <1>1, <1>8, <1>9 DEF Adds, Removes

\* Scopes touch nothing that a call is not about; of an open body nothing is
\* removed but the former value of a leaf with one value.
LEMMA ScopesOwn ==
    ASSUME NEW c, Fine(c), NEW s \in AllScopes(c), Posed(s), NEW q \in Words \ {<<>>}
    PROVE  /\ Adds(s, q) \/ Removes(s, q) => About(c, q)
           /\ "values" \in DOMAIN c.args /\ ~Whole(c) /\ Removes(s, q) =>
                  \A path \in Area(c, "values") : IsPrefix(path, q) => Front(q) \in SingleLeaves
<1> DEFINE object == ObjectPath(c)
<1>1. Adds(s, q) \/ Removes(s, q) => IsPrefix(s.path, q) \/ IsPrefix(q, s.path)
  BY ScopeOfChanges
<1>2. CASE Whole(c)
  <2>1. s.path = object
    BY <1>2, ScopeIs DEF AllScopes
  <2>2. Owned(c) = {object}
    BY <1>2 DEF Owned
  <2> QED
    BY <1>1, <1>2, <2>1, <2>2 DEF About
<1>3. CASE ~Whole(c) /\ DOMAIN c.args = {}
  <2>1. c.present
    BY <1>3 DEF Whole
  <2>2. s = Scope("merge", object, EmptyTree)
    BY <1>3, <2>1 DEF AllScopes
  <2>3. s.intent = "merge" /\ s.node = At(object, EmptyTree) /\ s.path = object
    BY <2>2, ScopeIs
  <2>4. object \in Words /\ Front(object) \notin Leaves
    BY Objects DEF Fine
  <2> HIDE DEF object
  <2>5. Required(s.node) \subseteq {object}
    BY <2>3, <2>4, PlainTrees DEF Required, Bare
  <2>6. Wanted(s) = {object}
    BY <2>3, <2>5 DEF Wanted
  <2>7. Removes(s, q) => FALSE
    BY <2>3, <2>4, <2>6 DEF Removes, Leaves
  <2>8. Adds(s, q) => About(c, q)
    BY <2>6 DEF Adds, About, object
  <2> QED
    BY <1>3, <2>7, <2>8
<1>4. CASE ~Whole(c) /\ DOMAIN c.args # {}
  <2>1. c.present
    BY <1>4 DEF Whole
  <2>2. PICK field \in DOMAIN c.args : s \in FieldScopes(c, field)
    BY <1>4, <2>1 DEF AllScopes
  <2>3. CASE field = "values"
    BY <1>4, <2>2, <2>3, OpenOwns
  <2>4. CASE field # "values"
    <3>1. field \in Typed(c) /\ s.path \in Area(c, field) /\ s.intent # "merge"
      BY <2>2, <2>4, OwnerPath DEF Typed
    <3>2. s.path \in Owned(c)
      BY <1>4, <3>1 DEF Owned
    <3>3. Under(c, field, s.path)
      BY <1>4, <2>2, <3>1, ScopesPlaced DEF Placed
    <3>4. ASSUME "values" \in DOMAIN c.args, Removes(s, q),
                 NEW path \in Area(c, "values"), IsPrefix(path, q)
          PROVE  Front(q) \in SingleLeaves
      <4>1. Under(c, "values", q)
        BY <3>4 DEF Under, Roots, Area
      <4>2. ~IsPrefix(s.path, q) /\ ~IsPrefix(q, s.path) /\ s.path \in Words
        BY <2>4, <3>3, <3>4, <4>1, UnderApart
      <4> QED
        BY <3>4, <4>2, StrictOrder DEF Removes
    <3> QED
      BY <1>1, <3>2, <3>4 DEF About
  <2> QED
    BY <2>3, <2>4
<1> QED
  BY <1>2, <1>3, <1>4

\* The same of the sequence that a call is rendered to.
LEMMA CallOwns ==
    ASSUME NEW c, Fine(c), NEW i \in DOMAIN Render(c), NEW q \in Words \ {<<>>}
    PROVE  LET s == Render(c)[i]
           IN  /\ Adds(s, q) \/ Removes(s, q) => About(c, q)
               /\ "values" \in DOMAIN c.args /\ ~Whole(c) /\ Removes(s, q) =>
                      \A path \in Area(c, "values") : IsPrefix(path, q) => Front(q) \in SingleLeaves
<1> DEFINE scopes == Render(c)
           s == Render(c)[i]
<1>1. Enumerates(scopes, AllScopes(c))
  BY CallRendered
<1>3. s \in AllScopes(c)
  <2> DEFINE S == AllScopes(c)
  <2>1. scopes \in Seq(S)
    BY <1>1 DEF Enumerates
  <2> HIDE DEF S, scopes
  <2>2. \A j \in DOMAIN scopes : scopes[j] \in S
    BY <2>1, ElementOfSeq, LenProperties
  <2> QED
    BY <2>2 DEF S, scopes
<1>4. Posed(s)
  BY <1>3, AllScopesPosed
<1> HIDE DEF s
<1>5. /\ Adds(s, q) \/ Removes(s, q) => About(c, q)
      /\ "values" \in DOMAIN c.args /\ ~Whole(c) /\ Removes(s, q) =>
             \A path \in Area(c, "values") : IsPrefix(path, q) => Front(q) \in SingleLeaves
  BY <1>3, <1>4, ScopesOwn
<1> QED
  BY <1>5 DEF s

=============================================================================
