--------------------------- MODULE ConfigPlanProofs ---------------------------
(***************************************************************************)
(* Lemmas about the operators the operations are built from: the order of   *)
(* paths by their prefixes, the grammar of the device, what the commands of *)
(* a scope do to a candidate, and what the planner makes of a configuration. *)
(***************************************************************************)
EXTENDS ConfigDevice, SequenceTheorems, WellFoundedInduction, TLAPS

Words == Seq(STRING)

-----------------------------------------------------------------------------
(* Paths are ordered by their prefixes.                                     *)

\* A prefix is what a sequence begins with, element by element.
LEMMA PrefixIs ==
    ASSUME NEW p \in Words, NEW q \in Words
    PROVE  IsPrefix(p, q) <=> Len(p) <= Len(q) /\ \A i \in 1..Len(p) : p[i] = q[i]
<1>1. Len(p) \in Nat /\ Len(q) \in Nat
      /\ (\A i \in 1..Len(p) : p[i] \in STRING) /\ (\A i \in 1..Len(q) : q[i] \in STRING)
  BY LenProperties, ElementOfSeq DEF Words
<1>2. SubSeq(p, 1, Len(p)) = p
  BY SubSeqFull DEF Words
<1> DEFINE cut == SubSeq(q, 1, Len(p))
<1>3. ASSUME Len(p) <= Len(q)
      PROVE  /\ cut \in Words /\ Len(cut) = Len(p)
             /\ \A i \in 1..Len(p) : cut[i] = q[i]
  <2>1. \A i \in 1..Len(p) : q[i] \in STRING
    BY <1>1, <1>3
  <2>2. /\ cut \in Seq(STRING)
        /\ Len(cut) = IF 1 <= Len(p) THEN Len(p) - 1 + 1 ELSE 0
        /\ \A i \in 1..(Len(p) - 1 + 1) : cut[i] = q[1 + i - 1]
    BY <2>1, <1>1, SubSeqProperties
  <2> HIDE DEF cut
  <2>3. Len(cut) = Len(p)
    BY <2>2, <1>1
  <2>4. \A i \in 1..Len(p) : cut[i] = q[i]
    BY <2>2, <1>1
  <2> QED
    BY <2>2, <2>3, <2>4 DEF Words
<1> HIDE DEF cut
<1>4. ASSUME Len(p) <= Len(q), \A i \in 1..Len(p) : p[i] = q[i]
      PROVE  p = cut
  BY <1>3, <1>4, SeqEqual DEF Words
<1>5. IsPrefix(p, q) <=> Len(p) <= Len(q) /\ p = cut
  BY <1>2 DEF IsPrefix, cut
<1> QED
  BY <1>3, <1>4, <1>5

\* Prefixes order the sequences, and any two prefixes of one are comparable.
LEMMA PrefixOrder ==
    /\ \A p \in Words : IsPrefix(p, p) /\ IsPrefix(<<>>, p)
    /\ \A p, q, r \in Words : IsPrefix(p, q) /\ IsPrefix(q, r) => IsPrefix(p, r)
    /\ \A p, q \in Words : IsPrefix(p, q) /\ IsPrefix(q, p) => p = q
    /\ \A p, q, r \in Words :
           IsPrefix(p, r) /\ IsPrefix(q, r) => IsPrefix(p, q) \/ IsPrefix(q, p)
<1>1. \A p \in Words : Len(p) \in Nat
  BY LenProperties DEF Words
<1>2. ASSUME NEW p \in Words
      PROVE  IsPrefix(p, p) /\ IsPrefix(<<>>, p)
  <2>1. IsPrefix(p, p)
    BY <1>1, PrefixIs
  <2>2. <<>> \in Words /\ Len(<<>>) = 0
    BY EmptySeq DEF Words
  <2>3. Len(<<>>) <= Len(p) /\ \A i \in 1..Len(<<>>) : <<>>[i] = p[i]
    BY <1>1, <2>2
  <2>4. IsPrefix(<<>>, p)
    BY <2>2, <2>3, PrefixIs
  <2> QED
    BY <2>1, <2>4
<1>3. ASSUME NEW p \in Words, NEW q \in Words, NEW r \in Words, IsPrefix(p, q), IsPrefix(q, r)
      PROVE  IsPrefix(p, r)
  BY <1>1, <1>3, PrefixIs
<1>4. ASSUME NEW p \in Words, NEW q \in Words, IsPrefix(p, q), IsPrefix(q, p)
      PROVE  p = q
  <2>1. Len(p) = Len(q) /\ \A i \in 1..Len(p) : p[i] = q[i]
    BY <1>1, <1>4, PrefixIs
  <2> QED
    BY <2>1, SeqEqual DEF Words
<1>5. ASSUME NEW p \in Words, NEW q \in Words, NEW r \in Words, IsPrefix(p, r), IsPrefix(q, r)
      PROVE  IsPrefix(p, q) \/ IsPrefix(q, p)
  <2>1. /\ \A i \in 1..Len(p) : p[i] = r[i]
        /\ \A i \in 1..Len(q) : q[i] = r[i]
    BY <1>5, PrefixIs
  <2>2. CASE Len(p) <= Len(q)
    BY <1>1, <2>1, <2>2, PrefixIs
  <2>3. CASE Len(q) <= Len(p)
    BY <1>1, <2>1, <2>3, PrefixIs
  <2> QED
    BY <1>1, <2>2, <2>3
<1> QED
  BY <1>2, <1>3, <1>4, <1>5

\* The first n elements of a sequence.
LEMMA Cut ==
    ASSUME NEW q \in Words, NEW n \in 0..Len(q)
    PROVE  /\ SubSeq(q, 1, n) \in Words /\ Len(SubSeq(q, 1, n)) = n
           /\ IsPrefix(SubSeq(q, 1, n), q)
           /\ \A p \in Words : IsPrefix(p, SubSeq(q, 1, n)) <=> IsPrefix(p, q) /\ Len(p) <= n
<1>1. Len(q) \in Nat /\ \A i \in 1..Len(q) : q[i] \in STRING
  BY LenProperties, ElementOfSeq DEF Words
<1> DEFINE cut == SubSeq(q, 1, n)
<1>2. /\ cut \in Seq(STRING)
      /\ Len(cut) = IF 1 <= n THEN n - 1 + 1 ELSE 0
      /\ \A i \in 1..(n - 1 + 1) : cut[i] = q[1 + i - 1]
  <2>1. \A i \in 1..n : q[i] \in STRING
    BY <1>1
  <2> QED
    BY <2>1, <1>1, SubSeqProperties
<1> HIDE DEF cut
<1>3. cut \in Words /\ Len(cut) = n /\ \A i \in 1..n : cut[i] = q[i]
  BY <1>1, <1>2 DEF Words
<1>4. IsPrefix(cut, q)
  BY <1>1, <1>3, PrefixIs
<1>5. ASSUME NEW p \in Words
      PROVE  IsPrefix(p, cut) <=> IsPrefix(p, q) /\ Len(p) <= n
  <2>1. Len(p) \in Nat
    BY LenProperties DEF Words
  <2>2. IsPrefix(p, cut) <=> Len(p) <= n /\ \A i \in 1..Len(p) : p[i] = cut[i]
    BY <1>3, PrefixIs
  <2>3. IsPrefix(p, q) <=> Len(p) <= Len(q) /\ \A i \in 1..Len(p) : p[i] = q[i]
    BY PrefixIs
  <2> QED
    BY <1>1, <1>3, <2>1, <2>2, <2>3
<1> QED
  BY <1>3, <1>4, <1>5 DEF cut

\* The prefixes of a sequence are what Prefixes lists.
LEMMA PrefixesAre ==
    ASSUME NEW q \in Words
    PROVE  Prefixes(q) = { p \in Words : IsPrefix(p, q) }
<1>1. Len(q) \in Nat
  BY LenProperties DEF Words
<1>2. ASSUME NEW p \in Prefixes(q)
      PROVE  p \in Words /\ IsPrefix(p, q)
  <2>1. PICK n \in 0..Len(q) : p = SubSeq(q, 1, n)
    BY <1>2 DEF Prefixes
  <2> QED
    BY <2>1, Cut
<1>3. ASSUME NEW p \in Words, IsPrefix(p, q)
      PROVE  p \in Prefixes(q)
  <2>1. Len(p) \in Nat /\ Len(p) <= Len(q)
    BY <1>3, PrefixIs, LenProperties DEF Words
  <2>2. SubSeq(p, 1, Len(p)) = SubSeq(q, 1, Len(p)) /\ SubSeq(p, 1, Len(p)) = p
    BY <1>3, SubSeqFull DEF IsPrefix, Words
  <2>3. Len(p) \in 0..Len(q) /\ p = SubSeq(q, 1, Len(p))
    BY <1>1, <2>1, <2>2
  <2> QED
    BY <2>3 DEF Prefixes
<1> QED
  BY <1>2, <1>3

\* The parent of a path is its longest prefix, and the child of a node towards a
\* path below it is a prefix of that path.
LEMMA Parents ==
    ASSUME NEW q \in Words \ {<<>>}
    PROVE  /\ Front(q) \in Words /\ IsStrictPrefix(Front(q), q)
           /\ \A p \in Words : IsStrictPrefix(p, q) <=> IsPrefix(p, Front(q))
           /\ \A p \in Words : IsStrictPrefix(p, q) =>
                  \E child \in Words \ {<<>>} : IsPrefix(child, q) /\ Front(child) = p
<1>1. Len(q) \in Nat /\ Len(q) > 0
  BY EmptySeq, LenProperties DEF Words
<1>2. Front(q) = SubSeq(q, 1, Len(q) - 1) /\ Len(q) - 1 \in 0..Len(q)
  BY <1>1 DEF Front
<1>3. /\ Front(q) \in Words /\ Len(Front(q)) = Len(q) - 1 /\ IsPrefix(Front(q), q)
      /\ \A p \in Words : IsPrefix(p, Front(q)) <=> IsPrefix(p, q) /\ Len(p) <= Len(q) - 1
  <2> DEFINE n == Len(q) - 1
  <2>1. n \in 0..Len(q) /\ Front(q) = SubSeq(q, 1, n)
    BY <1>2
  <2> HIDE DEF n
  <2>2. /\ Front(q) \in Words /\ Len(Front(q)) = n /\ IsPrefix(Front(q), q)
        /\ \A p \in Words : IsPrefix(p, Front(q)) <=> IsPrefix(p, q) /\ Len(p) <= n
    BY <2>1, Cut
  <2> QED
    BY <2>2 DEF n
<1>4. IsStrictPrefix(Front(q), q)
  BY <1>1, <1>3 DEF IsStrictPrefix
<1>5. ASSUME NEW p \in Words, IsStrictPrefix(p, q)
      PROVE  Len(p) \in Nat /\ Len(p) < Len(q)
  <2>1. IsPrefix(p, q) /\ p # q /\ Len(p) \in Nat
    BY <1>5, LenProperties DEF IsStrictPrefix, Words
  <2>2. Len(p) <= Len(q) /\ \A i \in 1..Len(p) : p[i] = q[i]
    BY <2>1, PrefixIs
  <2>3. Len(p) # Len(q)
    BY <2>1, <2>2, SeqEqual DEF Words
  <2> QED
    BY <1>1, <2>1, <2>2, <2>3
<1>6. ASSUME NEW p \in Words
      PROVE  IsStrictPrefix(p, q) <=> IsPrefix(p, Front(q))
  <2>1. IsStrictPrefix(p, q) => IsPrefix(p, Front(q))
    BY <1>1, <1>3, <1>5 DEF IsStrictPrefix
  <2>2. Len(p) <= Len(q) - 1 => p # q
    BY <1>1
  <2> QED
    BY <1>3, <2>1, <2>2 DEF IsStrictPrefix
<1>7. ASSUME NEW p \in Words, IsStrictPrefix(p, q)
      PROVE  \E child \in Words \ {<<>>} : IsPrefix(child, q) /\ Front(child) = p
  <2> DEFINE child == SubSeq(q, 1, Len(p) + 1)
  <2>1. Len(p) \in Nat /\ Len(p) + 1 \in 0..Len(q)
    BY <1>1, <1>5, <1>7
  <2>2. /\ child \in Words /\ Len(child) = Len(p) + 1 /\ IsPrefix(child, q)
        /\ \A r \in Words : IsPrefix(r, child) <=> IsPrefix(r, q) /\ Len(r) <= Len(p) + 1
    BY <2>1, Cut
  <2> HIDE DEF child
  <2>3. IsPrefix(p, child)
    BY <1>7, <2>1, <2>2 DEF IsStrictPrefix
  <2>4. Front(child) = SubSeq(child, 1, Len(p))
    BY <2>1, <2>2 DEF Front
  <2>5. SubSeq(p, 1, Len(p)) = SubSeq(child, 1, Len(p)) /\ SubSeq(p, 1, Len(p)) = p
    BY <2>3, SubSeqFull DEF IsPrefix, Words
  <2>6. child # <<>>
    BY <2>1, <2>2, EmptySeq
  <2> QED
    BY <2>2, <2>4, <2>5, <2>6
<1> QED
  BY <1>3, <1>4, <1>6, <1>7

\* Of some sequences there is one that none of the others begins.
LEMMA Shortest ==
    ASSUME NEW S, S \subseteq Words, S # {}
    PROVE  \E m \in S : \A p \in S : ~IsStrictPrefix(p, m)
<1> DEFINE T == { Len(p) : p \in S }
<1>1. T \subseteq Nat /\ T # {}
  BY LenProperties DEF Words
<1>2. PICK n \in T : \A k \in T : <<k, n>> \notin OpToRel(<, Nat)
  <2> HIDE DEF T
  <2> QED
    BY <1>1, WFMin, NatLessThanWellFounded
<1>3. PICK m \in S : Len(m) = n
  OBVIOUS
<1>4. ASSUME NEW p \in S, IsStrictPrefix(p, m)
      PROVE  FALSE
  <2>1. Len(p) \in Nat /\ Len(m) \in Nat /\ Len(p) \in T
    BY LenProperties DEF Words
  <2>2. Len(p) <= Len(m) /\ (\A i \in 1..Len(p) : p[i] = m[i]) /\ p # m
    BY <1>4, PrefixIs DEF IsStrictPrefix
  <2>3. Len(p) # Len(m)
    BY <2>2, SeqEqual DEF Words
  <2>4. Len(p) < n
    BY <1>3, <2>1, <2>2, <2>3
  <2> HIDE DEF T
  <2>5. <<Len(p), n>> \in OpToRel(<, Nat)
    BY <1>3, <2>1, <2>4 DEF OpToRel
  <2> QED
    BY <1>2, <2>1, <2>5
<1> QED
  BY <1>4

-----------------------------------------------------------------------------
(* The grammar of the device, and what commands do to a candidate.          *)

\* Strict prefixes in terms of prefixes.
LEMMA StrictOrder ==
    /\ \A p, q \in Words : IsStrictPrefix(p, q) <=> IsPrefix(p, q) /\ p # q
    /\ \A p, q, r \in Words : IsPrefix(p, q) /\ IsStrictPrefix(q, r) => IsStrictPrefix(p, r)
    /\ \A p, q, r \in Words : IsStrictPrefix(p, q) /\ IsPrefix(q, r) => IsStrictPrefix(p, r)
    /\ \A p \in Words : ~IsStrictPrefix(p, p) /\ ~IsStrictPrefix(p, <<>>)
<1>1. \A p, q \in Words : IsStrictPrefix(p, q) <=> IsPrefix(p, q) /\ p # q
  BY DEF IsStrictPrefix
<1>2. <<>> \in Words
  BY EmptySeq DEF Words
<1> QED
  BY <1>1, <1>2, PrefixOrder

\* Paths are sequences, their parents are paths, and what is below a leaf is a
\* value: nothing is below it, and it is no leaf, no tag and needs no body.
LEMMA Grammar ==
    /\ Paths \subseteq Words \ {<<>>}
    /\ Leaves \cup Tags \cup NeedBody \subseteq Paths
    /\ SingleLeaves \subseteq Leaves
    /\ \A q \in Paths, p \in Words \ {<<>>} : IsPrefix(p, q) => p \in Paths
    /\ \A q \in Paths, leaf \in Leaves : IsStrictPrefix(leaf, q) => Front(q) = leaf
    /\ \A q \in Paths : Front(q) \in Leaves => q \notin Leaves \cup Tags \cup NeedBody
    /\ \A q \in Paths : Front(q) \in Leaves => Front(Front(q)) \notin Leaves
    /\ \A q \in Leaves \cup Tags : q \notin NeedBody /\ Front(q) \notin Tags
    /\ Leaves \cap Tags = {}
<1> USE DeviceAssumption DEF DeviceAssumption
<1>1. Paths \subseteq Words \ {<<>>}
  BY DEF Words
<1>2. ASSUME NEW q \in Paths, NEW p \in Words \ {<<>>}, IsPrefix(p, q)
      PROVE  p \in Paths
  <2>1. p \in Prefixes(q)
    BY <1>1, <1>2, PrefixesAre
  <2>2. Prefixes(q) \ {<<>>} \subseteq Paths
    OBVIOUS
  <2> QED
    BY <2>1, <2>2
<1>3. ASSUME NEW q \in Paths, Front(q) \in Leaves
      PROVE  q \notin Leaves \cup Tags \cup NeedBody /\ Front(Front(q)) \notin Leaves
  <2>1. IsStrictPrefix(Front(q), q)
    BY <1>1, Parents
  <2>2. q \notin Leaves \cup Tags \cup NeedBody
    BY <1>3, <2>1
  <2>3. ASSUME Front(Front(q)) \in Leaves
        PROVE  FALSE
    <3>1. Front(q) \in Paths /\ Front(q) \in Words \ {<<>>}
      BY <1>1, <1>3
    <3>2. IsStrictPrefix(Front(Front(q)), Front(q)) /\ Front(Front(q)) \in Words
      BY <3>1, Parents
    <3>3. Front(q) \notin Leaves
      BY <2>3, <3>1, <3>2
    <3> QED
      BY <1>3, <3>3
  <2> QED
    BY <2>2, <2>3
<1>4. SingleLeaves \subseteq Leaves
  BY DEF Leaves
<1> QED
  BY <1>1, <1>2, <1>3, <1>4

\* Some paths with their parents are all the prefixes of these paths.
LEMMA ClosedAre ==
    ASSUME NEW S, S \subseteq Words
    PROVE  Closed(S) = { q \in Words \ {<<>>} : \E p \in S : IsPrefix(q, p) }
<1>1. \A p \in S : Prefixes(p) \ {<<>>} = { q \in Words \ {<<>>} : IsPrefix(q, p) }
  BY PrefixesAre
<1> QED
  BY <1>1 DEF Closed

\* What it is to be a candidate, in terms of prefixes.
LEMMA CandidateIs ==
    ASSUME NEW c
    PROVE  Candidate(c) <=>
               /\ c \subseteq Paths
               /\ \A q \in c, p \in Words \ {<<>>} : IsPrefix(p, q) => p \in c
               /\ \A q \in c \cap (Leaves \cup Tags) : \E p \in c : IsStrictPrefix(q, p)
               /\ \A leaf \in SingleLeaves : \A v, w \in c :
                      IsStrictPrefix(leaf, v) /\ IsStrictPrefix(leaf, w) => v = w
<1>1. ASSUME c \subseteq Paths
      PROVE  (\A path \in c : Prefixes(path) \ {<<>>} \subseteq c)
                 <=> \A q \in c, p \in Words \ {<<>>} : IsPrefix(p, q) => p \in c
  <2>1. \A q \in c : Prefixes(q) = { p \in Words : IsPrefix(p, q) }
    BY <1>1, Grammar, PrefixesAre
  <2>2. ASSUME \A path \in c : Prefixes(path) \ {<<>>} \subseteq c,
               NEW q \in c, NEW p \in Words \ {<<>>}, IsPrefix(p, q)
        PROVE  p \in c
    BY <2>1, <2>2
  <2>3. ASSUME \A q \in c, p \in Words \ {<<>>} : IsPrefix(p, q) => p \in c, NEW path \in c
        PROVE  Prefixes(path) \ {<<>>} \subseteq c
    BY <2>1, <2>3
  <2> QED
    BY <2>2, <2>3
<1> QED
  BY <1>1 DEF Candidate, BelowIn

\* Deleting leaves a candidate with a part of what it had.  What is gone was
\* below a deleted path, or lost all there was below it.
LEMMA DeleteFacts ==
    ASSUME NEW c, Candidate(c), NEW dels, dels \subseteq Words
    PROVE  /\ Candidate(DeleteAll(c, dels))
           /\ DeleteAll(c, dels) \subseteq c
           /\ \A q \in c \ DeleteAll(c, dels) : \E d \in dels :
                  IsPrefix(d, q) \/ (q \in Leaves \cup Tags /\ IsStrictPrefix(q, d))
           /\ \A q \in DeleteAll(c, dels), d \in dels : ~IsPrefix(d, q)
<1> DEFINE left == { q \in c : \A path \in dels : ~IsPrefix(path, q) }
           result == { q \in left : q \in Leaves \cup Tags => BelowIn(left, q) # {} }
<1>1. DeleteAll(c, dels) = result
  BY DEF DeleteAll
<1>2. /\ c \subseteq Paths
      /\ \A q \in c, p \in Words \ {<<>>} : IsPrefix(p, q) => p \in c
      /\ \A q \in c \cap (Leaves \cup Tags) : \E p \in c : IsStrictPrefix(q, p)
      /\ \A leaf \in SingleLeaves : \A v, w \in c :
             IsStrictPrefix(leaf, v) /\ IsStrictPrefix(leaf, w) => v = w
  BY CandidateIs
<1>3. c \subseteq Words \ {<<>>} /\ result \subseteq left /\ left \subseteq c
  BY <1>2, Grammar
<1>4. \A q \in left, p \in Words \ {<<>>} : IsPrefix(p, q) => p \in left
  BY <1>2, <1>3, PrefixOrder
<1>5. \A q \in left : q \in result <=>
          (q \in Leaves \cup Tags => \E p \in left : IsStrictPrefix(q, p))
  BY DEF BelowIn
<1>6. \A q \in left, d \in dels : ~IsPrefix(d, q)
  OBVIOUS
<1>7. \A q \in c \ left : \E d \in dels : IsPrefix(d, q)
  OBVIOUS
<1> HIDE DEF left, result
<1>8. ASSUME NEW q \in result, NEW p \in Words \ {<<>>}, IsPrefix(p, q)
      PROVE  p \in result
  BY <1>3, <1>4, <1>5, <1>8, StrictOrder
<1>9. ASSUME NEW q \in result, q \in Leaves \cup Tags
      PROVE  \E p \in result : IsStrictPrefix(q, p)
  <2>1. PICK p \in left : IsStrictPrefix(q, p)
    BY <1>3, <1>5, <1>9
  <2>2. p \in Words \ {<<>>} /\ p \in Paths /\ q \in Words
    BY <1>2, <1>3
  <2>3. PICK child \in Words \ {<<>>} : IsPrefix(child, p) /\ Front(child) = q
    BY <2>1, <2>2, Parents
  <2>4. child \in left /\ child \in Paths
    BY <1>2, <1>3, <1>4, <2>3
  <2>5. IsStrictPrefix(q, child)
    BY <2>3, Parents
  <2>6. child \notin Leaves \cup Tags
    BY <1>9, <2>3, <2>4, Grammar
  <2> QED
    BY <1>5, <2>4, <2>5, <2>6
<1>10. Candidate(result)
  BY <1>2, <1>3, <1>8, <1>9, CandidateIs
<1>11. ASSUME NEW q \in c \ result
       PROVE  \E d \in dels :
                  IsPrefix(d, q) \/ (q \in Leaves \cup Tags /\ IsStrictPrefix(q, d))
  <2>1. CASE q \notin left
    BY <1>7, <2>1
  <2>2. CASE q \in left
    <3>1. q \in Leaves \cup Tags /\ \A p \in left : ~IsStrictPrefix(q, p)
      BY <1>5, <2>2
    <3>2. PICK p \in c : IsStrictPrefix(q, p)
      BY <1>2, <3>1
    <3>3. PICK d \in dels : IsPrefix(d, p)
      BY <1>7, <3>1, <3>2
    <3>4. d \in Words /\ p \in Words /\ q \in Words
      BY <1>3
    <3>5. ~IsPrefix(d, q)
      BY <1>6, <2>2
    <3>6. IsStrictPrefix(q, d)
      BY <3>2, <3>3, <3>4, <3>5, PrefixOrder, StrictOrder
    <3> QED
      BY <3>1, <3>6
  <2> QED
    BY <2>1, <2>2
<1> QED
  BY <1>1, <1>3, <1>6, <1>10, <1>11

\* No two of some paths are values of one single-value leaf.
Single(paths) ==
    \A v, w \in paths : Front(v) = Front(w) /\ Front(v) \in SingleLeaves => v = w

\* Setting adds the paths with their parents and takes from a candidate only
\* the former values of leaves with one value.
LEMMA SetFacts ==
    ASSUME NEW c, Candidate(c), NEW sets, Settable(sets), Single(sets)
    PROVE  /\ Candidate(SetAll(c, sets))
           /\ sets \subseteq SetAll(c, sets)
           /\ \A q \in SetAll(c, sets) \ c : \E r \in sets : IsPrefix(q, r)
           /\ \A q \in c \ SetAll(c, sets) : \E r \in sets :
                  Front(r) = Front(q) /\ Front(q) \in SingleLeaves
<1> DEFINE kept == { q \in c : \A path \in sets : Front(path) \in SingleLeaves =>
                                                      ~IsStrictPrefix(Front(path), q) }
           result == kept \cup Closed(sets)
<1>1. SetAll(c, sets) = result
  BY DEF SetAll
<1>2. /\ c \subseteq Paths
      /\ \A q \in c, p \in Words \ {<<>>} : IsPrefix(p, q) => p \in c
      /\ \A q \in c \cap (Leaves \cup Tags) : \E p \in c : IsStrictPrefix(q, p)
      /\ \A leaf \in SingleLeaves : \A v, w \in c :
             IsStrictPrefix(leaf, v) /\ IsStrictPrefix(leaf, w) => v = w
  BY CandidateIs
<1>3. /\ sets \subseteq Paths /\ \A r \in sets : r \notin Leaves \cup Tags
      /\ Paths \subseteq Words \ {<<>>} /\ SingleLeaves \subseteq Leaves
  BY Grammar DEF Settable
<1>4. Closed(sets) = { q \in Words \ {<<>>} : \E r \in sets : IsPrefix(q, r) }
  BY <1>3, ClosedAre
<1>5. \A q \in c : q \in kept <=>
          \A r \in sets : Front(r) \in SingleLeaves => ~IsStrictPrefix(Front(r), q)
  OBVIOUS
<1>6. kept \subseteq c
  OBVIOUS
<1>7. \A q : q \in result <=>
          q \in kept \/ (q \in Words \ {<<>>} /\ \E r \in sets : IsPrefix(q, r))
  BY <1>4
<1> HIDE DEF kept, result
<1>8. sets \subseteq result
  BY <1>3, <1>7, PrefixOrder
<1>9. result \subseteq Paths
  BY <1>2, <1>3, <1>6, <1>7, Grammar
<1>10. ASSUME NEW q \in result, NEW p \in Words \ {<<>>}, IsPrefix(p, q)
       PROVE  p \in result
  <2>1. CASE q \in kept
    <3>1. p \in c
      BY <1>2, <1>6, <1>10, <2>1
    <3>2. ASSUME NEW r \in sets, Front(r) \in SingleLeaves, IsStrictPrefix(Front(r), p)
          PROVE  FALSE
      <4>1. Front(r) \in Words /\ q \in Words
        BY <1>2, <1>3, <1>6, <2>1, Parents
      <4>2. IsStrictPrefix(Front(r), q)
        BY <1>10, <3>2, <4>1, StrictOrder
      <4> QED
        BY <1>5, <1>6, <2>1, <3>2, <4>2
    <3> QED
      BY <1>5, <1>7, <3>1, <3>2
  <2>2. CASE q \notin kept
    BY <1>3, <1>7, <1>10, <2>2, PrefixOrder
  <2> QED
    BY <2>1, <2>2
<1>11. ASSUME NEW q \in c \ result
       PROVE  \E r \in sets : Front(r) = Front(q) /\ Front(q) \in SingleLeaves
  <2>1. PICK r \in sets : Front(r) \in SingleLeaves /\ IsStrictPrefix(Front(r), q)
    BY <1>5, <1>7, <1>11
  <2>2. Front(q) = Front(r)
    BY <1>2, <1>3, <2>1, Grammar
  <2> QED
    BY <2>1, <2>2
<1>12. ASSUME NEW q \in result, q \in Leaves \cup Tags
       PROVE  \E p \in result : IsStrictPrefix(q, p)
  <2>1. q \in Words \ {<<>>}
    BY <1>3, <1>9
  <2>2. ASSUME NEW r \in sets, IsPrefix(q, r)
        PROVE  \E p \in result : IsStrictPrefix(q, p)
    BY <1>3, <1>8, <1>12, <2>1, <2>2, StrictOrder
  <2>3. CASE q \in c
    <3>1. PICK p \in c : IsStrictPrefix(q, p)
      BY <1>2, <1>12, <2>3
    <3>2. CASE p \in result
      BY <3>1, <3>2
    <3>3. CASE p \notin result
      <4>1. PICK r \in sets : Front(r) = Front(p)
        BY <1>11, <3>3
      <4>2. IsPrefix(q, Front(r))
        BY <1>2, <1>3, <2>1, <3>1, <4>1, Parents
      <4>3. IsPrefix(q, r)
        BY <1>3, <2>1, <4>2, Parents, StrictOrder
      <4> QED
        BY <2>2, <4>3
    <3> QED
      BY <3>2, <3>3
  <2>4. CASE q \notin c
    BY <1>6, <1>7, <2>2, <2>4
  <2> QED
    BY <2>3, <2>4
<1>13. ASSUME NEW leaf \in SingleLeaves, NEW v \in result, NEW w \in result,
              IsStrictPrefix(leaf, v), IsStrictPrefix(leaf, w)
       PROVE  v = w
  <2>1. leaf \in Leaves /\ leaf \in Words /\ v \in Paths /\ w \in Paths
    BY <1>3, <1>9, Grammar
  <2>2. Front(v) = leaf /\ Front(w) = leaf
    BY <1>13, <2>1, Grammar
  <2>3. ASSUME NEW q \in Paths, IsStrictPrefix(leaf, q), NEW r \in sets, IsPrefix(q, r)
        PROVE  q = r /\ Front(r) = leaf
    <3>1. q \in Words /\ r \in Words \ {<<>>} /\ r \in Paths
      BY <1>3
    <3>2. Front(r) = leaf
      BY <2>1, <2>3, <3>1, StrictOrder, Grammar
    <3>3. ~IsStrictPrefix(q, r)
      BY <2>1, <2>3, <3>1, <3>2, Parents, PrefixOrder, StrictOrder
    <3> QED
      BY <2>3, <3>1, <3>2, <3>3, StrictOrder
  <2>4. \A q \in result : q \in Paths /\ IsStrictPrefix(leaf, q) =>
            q \in kept \/ (q \in sets /\ Front(q) = leaf)
    BY <1>7, <2>3
  <2>5. \A q \in kept, r \in sets : Front(r) = leaf => ~IsStrictPrefix(leaf, q)
    BY <1>5, <1>6
  <2>6. CASE v \in kept /\ w \in kept
    BY <1>2, <1>6, <1>13, <2>6
  <2>7. CASE v \notin kept /\ w \notin kept
    BY <1>13, <2>1, <2>2, <2>4, <2>7 DEF Single
  <2> QED
    BY <1>13, <2>1, <2>4, <2>5, <2>6, <2>7
<1>14. Candidate(result)
  BY <1>9, <1>10, <1>12, <1>13, CandidateIs
<1>15. \A q \in result \ c : \E r \in sets : IsPrefix(q, r)
  BY <1>6, <1>7
<1> QED
  BY <1>1, <1>8, <1>11, <1>14, <1>15

-----------------------------------------------------------------------------
(* What the planner makes of a configuration.                               *)

\* What has to be there for a scope to be: its path, if nothing else is asked for.
Wanted(scope) ==
    IF Required(scope.node) = {} THEN {scope.path} ELSE Required(scope.node)

\* What is there and not desired, as far up as it goes.
Surplus(scope, c) ==
    { q \in c : /\ IsStrictPrefix(scope.path, q)
                /\ Front(q) \in Present(scope.node) /\ q \notin Allowed(scope.node) }

\* What WellPosed asks of each scope.
Posed(scope) ==
    /\ IsScope(scope)
    /\ Front(scope.path) \notin Leaves
    /\ scope.intent # "merge" => \A n \in NeedBody : ~IsStrictPrefix(n, scope.path)
    /\ scope.intent # "absent" =>
           HasShape(scope) /\ Holdable(scope) /\ Single(scope.node.values)

\* The desired tree of a scope: its nodes and leaves are below its path with all
\* that is between, its values are below its leaves.
LEMMA DesiredTree ==
    ASSUME NEW scope, Posed(scope), scope.intent # "absent"
    PROVE  LET node == scope.node
               path == scope.path
           IN  /\ path \in Present(node) /\ Present(node) \cup node.values \subseteq Paths
               /\ path \in Words \ {<<>>}
               /\ \A q \in Present(node) : IsPrefix(path, q) /\ Front(q) \notin Leaves
               /\ \A q \in Present(node), p \in Words :
                      IsStrictPrefix(p, q) /\ IsPrefix(path, p) => p \in node.nodes
               /\ node.leaves \subseteq Leaves /\ node.nodes \cap Leaves = {}
               /\ \A v \in node.values :
                      /\ Front(v) \in node.leaves /\ v \notin Present(node)
                      /\ IsStrictPrefix(path, v)
<1> DEFINE node == scope.node
           path == scope.path
<1>1. /\ path \in Words \ {<<>>}
      /\ UNION {node.nodes, node.leaves, node.values} \subseteq Words \ {<<>>}
      /\ IsTreeAt(node, path) /\ HasShape(scope) /\ Holdable(scope)
  BY DEF Posed, IsScope, Words
<1>2. /\ path \in Present(node)
      /\ \A q \in Present(node) :
             /\ IsPrefix(path, q)
             /\ \A p \in Prefixes(q) \ {q} : IsPrefix(path, p) => p \in node.nodes
      /\ \A value \in node.values : Front(value) \in node.leaves
  BY <1>1 DEF IsTreeAt
<1>3. /\ node.leaves \subseteq Leaves /\ node.nodes \cap Leaves = {}
      /\ \A q \in Present(node) : Front(q) \notin Leaves
      /\ Present(node) \cup node.values \subseteq Paths
  BY <1>1 DEF HasShape, Holdable
<1> HIDE DEF node, path
<1>4. ASSUME NEW q \in Present(node), NEW p \in Words, IsStrictPrefix(p, q), IsPrefix(path, p)
      PROVE  p \in node.nodes
  <2>1. q \in Words
    BY <1>3, Grammar
  <2>2. p \in Prefixes(q) \ {q}
    BY <1>4, <2>1, PrefixesAre, StrictOrder
  <2> QED
    BY <1>2, <1>4, <2>2
<1>5. ASSUME NEW v \in node.values
      PROVE  v \notin Present(node) /\ IsStrictPrefix(path, v)
  <2>1. Front(v) \in node.leaves /\ Front(v) \in Leaves /\ v \in Words \ {<<>>}
    BY <1>2, <1>3, Grammar
  <2>2. v \notin Present(node)
    BY <1>3, <2>1
  <2>3. Front(v) \in Present(node)
    BY <2>1 DEF Present
  <2>4. IsPrefix(path, Front(v))
    BY <1>2, <2>3
  <2> QED
    BY <1>1, <2>1, <2>2, <2>4, Parents DEF path
<1>6. path \in Words \ {<<>>}
  BY <1>1 DEF path
<1> QED
  BY <1>2, <1>3, <1>4, <1>5, <1>6 DEF node, path

\* What a scope wants can be set: its paths are in the grammar, neither hollow
\* nor in each other's way, and all there is between them and the path of the
\* scope is allowed.
LEMMA WantedFacts ==
    ASSUME NEW scope, Posed(scope), scope.intent # "absent"
    PROVE  /\ Wanted(scope) \subseteq Paths \ (Leaves \cup Tags \cup NeedBody)
           /\ Single(Wanted(scope))
           /\ Required(scope.node) \subseteq Wanted(scope)
           /\ \A w \in Wanted(scope) :
                  /\ IsPrefix(scope.path, w)
                  /\ Front(w) \in Leaves => w \in scope.node.values
                  /\ \A q \in Words : IsPrefix(scope.path, q) /\ IsPrefix(q, w) =>
                         q \in Allowed(scope.node)
<1> DEFINE node == scope.node
           path == scope.path
<1>1. /\ path \in Present(node) /\ Present(node) \cup node.values \subseteq Paths
      /\ path \in Words \ {<<>>}
      /\ \A q \in Present(node) : IsPrefix(path, q) /\ Front(q) \notin Leaves
      /\ \A q \in Present(node), p \in Words :
             IsStrictPrefix(p, q) /\ IsPrefix(path, p) => p \in node.nodes
      /\ node.leaves \subseteq Leaves /\ node.nodes \cap Leaves = {}
      /\ \A v \in node.values :
             /\ Front(v) \in node.leaves /\ v \notin Present(node)
             /\ IsStrictPrefix(path, v)
  BY DesiredTree
<1>2. /\ Bare(node) \subseteq node.nodes
      /\ Bare(node) \cap (Leaves \cup Tags \cup NeedBody) = {}
      /\ Required(node) = {} => path \notin Leaves \cup Tags \cup NeedBody
  BY DEF Posed, Holdable, Bare
<1>3. \A w \in Wanted(scope) :
          \/ w \in node.values
          \/ w \in Present(node) /\ w \notin Leaves \cup Tags \cup NeedBody
  BY <1>1, <1>2 DEF Wanted, Required, Present
<1>4. Present(node) \subseteq Allowed(node) /\ node.values \subseteq Allowed(node)
      /\ node.nodes \subseteq Present(node) /\ node.leaves \subseteq Present(node)
  BY DEF Allowed, Present
<1>5. Single(node.values)
  BY DEF Posed
<1>6. Required(node) \subseteq Wanted(scope)
  BY DEF Wanted
<1>7. \A w \in Wanted(scope) : Front(w) \in Leaves => w \in node.values
  BY <1>1, <1>3
<1> HIDE DEF node, path
<1>8. \A w \in Wanted(scope) : w \in Paths \ (Leaves \cup Tags \cup NeedBody)
  BY <1>1, <1>3, Grammar
<1>9. Single(Wanted(scope))
  BY <1>5, <1>7, Grammar DEF Single
<1>10. ASSUME NEW w \in Wanted(scope)
       PROVE  /\ IsPrefix(path, w)
              /\ \A q \in Words : IsPrefix(path, q) /\ IsPrefix(q, w) => q \in Allowed(node)
  <2>1. w \in Words \ {<<>>}
    BY <1>8, Grammar
  <2>2. CASE w \in Present(node)
    BY <1>1, <1>4, <2>1, <2>2, StrictOrder
  <2>3. CASE w \in node.values
    <3>1. Front(w) \in Present(node) /\ Front(w) \in Words
      BY <1>1, <1>4, <2>1, <2>3, Parents
    <3>2. ASSUME NEW q \in Words, IsPrefix(path, q), IsStrictPrefix(q, w)
          PROVE  q \in Present(node)
      <4>1. IsPrefix(q, Front(w))
        BY <2>1, <3>2, Parents
      <4> QED
        BY <1>1, <1>4, <3>1, <3>2, <4>1, StrictOrder
    <3>3. IsPrefix(path, w)
      BY <1>1, <2>1, <2>3, StrictOrder
    <3> QED
      BY <1>4, <2>1, <2>3, <3>2, <3>3, StrictOrder
  <2> QED
    BY <1>3, <2>2, <2>3
<1> QED
  BY <1>6, <1>7, <1>8, <1>9, <1>10 DEF node, path

\* The tree of a configuration below a path that is no value.
LEMMA ActiveTree ==
    ASSUME NEW c, Candidate(c), NEW path \in Words \ {<<>>}, Front(path) \notin Leaves
    PROVE  LET active == SelectSubtree(TreeOf(c), path)
           IN  /\ active.nodes = { q \in c : /\ IsPrefix(path, q)
                                             /\ q \notin Leaves /\ Front(q) \notin Leaves }
               /\ active.leaves = { q \in c : IsPrefix(path, q) /\ q \in Leaves }
               /\ active.values = { q \in c : IsPrefix(path, q) /\ Front(q) \in Leaves }
               /\ active = Absent <=> path \notin c
<1> DEFINE tree == TreeOf(c)
           active == SelectSubtree(tree, path)
<1>1. /\ tree.nodes = {<<>>} \cup { q \in c : q \notin Leaves /\ Front(q) \notin Leaves }
      /\ tree.leaves = c \cap Leaves
      /\ tree.values = { q \in c : Front(q) \in Leaves }
      /\ DOMAIN tree = {"nodes", "leaves", "values"}
  BY DEF TreeOf
<1>2. path \in Present(tree) <=> path \in c
  BY <1>1 DEF Present
<1>3. ~IsPrefix(path, <<>>)
  BY PrefixOrder, EmptySeq DEF Words
<1>4. \A q \in c : IsPrefix(path, q) => path \in c
  BY CandidateIs
<1>5. IsPrefix(path, path)
  BY PrefixOrder
<1> HIDE DEF tree
<1>6. CASE path \in c
  <2>1. active = [part \in DOMAIN tree |-> { q \in tree[part] : IsPrefix(path, q) }]
    BY <1>2, <1>6 DEF SelectSubtree
  <2>2. /\ active.nodes = { q \in tree.nodes : IsPrefix(path, q) }
        /\ active.leaves = { q \in tree.leaves : IsPrefix(path, q) }
        /\ active.values = { q \in tree.values : IsPrefix(path, q) }
    BY <1>1, <2>1
  <2>3. path \in active.nodes \cup active.leaves
    BY <1>1, <1>5, <1>6, <2>2
  <2>4. active # Absent
    BY <2>3 DEF Absent
  <2> HIDE DEF active
  <2> QED
    BY <1>1, <1>3, <1>6, <2>2, <2>4 DEF active, tree
<1>7. CASE path \notin c
  <2>1. active = Absent
    BY <1>2, <1>7 DEF SelectSubtree
  <2>2. active.nodes = {} /\ active.leaves = {} /\ active.values = {}
    BY <2>1 DEF Absent
  <2> HIDE DEF active
  <2> QED
    BY <1>4, <1>7, <2>1, <2>2 DEF active, tree
<1> QED
  BY <1>6, <1>7

\* The plan of a scope deletes what has no place and sets what is missing.
LEMMA PlanOfScope ==
    ASSUME NEW c, Candidate(c), NEW scope, Posed(scope)
    PROVE  LET delta == PlanScope(TreeOf(c), scope)
           IN  /\ scope.intent = "absent" =>
                      delta = [deletes |-> IF scope.path \in c THEN {scope.path} ELSE {},
                               sets    |-> {}]
               /\ scope.intent # "absent" =>
                      delta = [deletes |-> IF scope.intent = "exact" THEN Surplus(scope, c)
                                           ELSE {},
                               sets    |-> Wanted(scope) \ c]
<1> DEFINE node == scope.node
           path == scope.path
           active == SelectSubtree(TreeOf(c), path)
           delta == PlanScope(TreeOf(c), scope)
<1>1. path \in Words \ {<<>>} /\ Front(path) \notin Leaves
  BY DEF Posed, IsScope, Words
<1>2. /\ active.nodes = { q \in c : /\ IsPrefix(path, q)
                                    /\ q \notin Leaves /\ Front(q) \notin Leaves }
      /\ active.leaves = { q \in c : IsPrefix(path, q) /\ q \in Leaves }
      /\ active.values = { q \in c : IsPrefix(path, q) /\ Front(q) \in Leaves }
      /\ active = Absent <=> path \notin c
  BY <1>1, ActiveTree
<1>3. CASE scope.intent = "absent"
  BY <1>2, <1>3 DEF PlanScope, NoDelta
<1>4. CASE scope.intent # "absent"
  <2> USE <1>4
  <2> DEFINE replace == scope.intent = "exact"
             sets == Sets(active, node)
             dels == Deletes(active, node, replace)
  <2>1. /\ path \in Present(node) /\ Present(node) \cup node.values \subseteq Paths
        /\ \A q \in Present(node) : IsPrefix(path, q) /\ Front(q) \notin Leaves
        /\ \A q \in Present(node), p \in Words :
               IsStrictPrefix(p, q) /\ IsPrefix(path, p) => p \in node.nodes
        /\ node.leaves \subseteq Leaves /\ node.nodes \cap Leaves = {}
        /\ \A v \in node.values :
               /\ Front(v) \in node.leaves /\ v \notin Present(node)
               /\ IsStrictPrefix(path, v)
    BY DesiredTree
  <2>2. /\ c \subseteq Paths /\ c \subseteq Words \ {<<>>}
        /\ \A q \in c, p \in Words \ {<<>>} : IsPrefix(p, q) => p \in c
    BY CandidateIs, Grammar
  <2>3. delta = DiffTree(active, node, path, replace)
    BY DEF PlanScope
  <2>4. delta = IF [deletes |-> dels, sets |-> sets] = NoDelta /\ active = Absent
                THEN [NoDelta EXCEPT !.sets = {path}]
                ELSE [deletes |-> dels, sets |-> sets]
    BY <2>3, Zenon DEF DiffTree
  <2> HIDE DEF node, path, active, delta, replace
  <2>5. sets = Required(node) \ c
    <3>1. MissingValues(active, node) = node.values \ c
      BY <1>1, <1>2, <2>1, <2>2, StrictOrder DEF MissingValues
    <3>2. /\ Bare(node) \subseteq node.nodes
          /\ \A q \in Bare(node) : q \in Present(node) /\ q \notin Leaves
      BY <2>1 DEF Bare, Present
    <3>3. MissingNodes(active, node) = Bare(node) \ c
      BY <1>2, <2>1, <3>2 DEF MissingNodes, Present
    <3> QED
      BY <3>1, <3>3 DEF Sets, Required
  <2>6. StaleValues(active, node) \cup ExtraKeys(active, node) = Surplus(scope, c)
    <3>1. \A q \in c : Front(q) \in Words /\ IsStrictPrefix(Front(q), q)
      BY <2>2, Parents
    <3>2. Present(active) = { q \in c : IsPrefix(path, q) /\ Front(q) \notin Leaves }
      BY <1>2, <2>2, Grammar DEF Present
    <3>3. node.nodes \subseteq Present(node) /\ node.leaves \subseteq Present(node)
          /\ Present(node) = node.nodes \cup node.leaves
          /\ Allowed(node) = Present(node) \cup node.values
      BY DEF Present, Allowed
    <3>4. Present(node) \subseteq Words \ {<<>>}
      BY <2>1, Grammar
    <3>5. ASSUME NEW q \in StaleValues(active, node)
          PROVE  q \in Surplus(scope, c)
      <4>1. q \in c /\ Front(q) \in Leaves /\ q \notin node.values /\ Front(q) \in node.leaves
        BY <1>2, <3>5 DEF StaleValues
      <4>2. IsPrefix(path, Front(q))
        BY <2>1, <3>3, <4>1
      <4>3. IsStrictPrefix(path, q)
        BY <1>1, <2>2, <3>1, <4>1, <4>2, StrictOrder
      <4>4. q \notin Present(node)
        BY <2>1, <4>1
      <4> QED
        BY <3>3, <4>1, <4>3, <4>4 DEF Surplus, node, path
    <3>6. ASSUME NEW q \in ExtraKeys(active, node)
          PROVE  q \in Surplus(scope, c)
      <4>1. /\ q \in c /\ Front(q) \notin Leaves /\ q \notin Present(node)
            /\ Front(q) \in node.nodes
        BY <3>2, <3>6 DEF ExtraKeys
      <4>2. IsPrefix(path, Front(q))
        BY <2>1, <3>3, <4>1
      <4>3. IsStrictPrefix(path, q)
        BY <1>1, <2>2, <3>1, <4>1, <4>2, StrictOrder
      <4>4. q \notin node.values
        BY <2>1, <4>1
      <4> QED
        BY <3>3, <4>1, <4>3, <4>4 DEF Surplus, node, path
    <3>7. ASSUME NEW q \in Surplus(scope, c)
          PROVE  q \in StaleValues(active, node) \cup ExtraKeys(active, node)
      <4>1. /\ q \in c /\ IsStrictPrefix(path, q)
            /\ Front(q) \in Present(node) /\ q \notin Present(node) /\ q \notin node.values
        BY <3>3, <3>7 DEF Surplus, node, path
      <4>2. IsPrefix(path, q) /\ IsPrefix(path, Front(q))
        BY <1>1, <2>1, <2>2, <4>1, StrictOrder
      <4>3. CASE Front(q) \in node.leaves
        BY <1>2, <2>1, <4>1, <4>2, <4>3 DEF StaleValues
      <4>4. CASE Front(q) \in node.nodes
        <5>1. Front(q) \notin Leaves /\ Front(q) \in Words \ {<<>>}
          BY <2>1, <3>3, <3>4, <4>4
        <5>2. Front(q) \in c
          BY <2>2, <3>1, <4>1, <5>1, StrictOrder
        <5>3. Front(Front(q)) \notin Leaves
          BY <2>1, <3>3, <4>4
        <5>4. Front(q) \in active.nodes
          BY <1>2, <4>2, <5>1, <5>2, <5>3
        <5>5. q \in Present(active)
          BY <3>2, <4>1, <4>2, <5>1
        <5> QED
          BY <4>1, <4>4, <5>4, <5>5 DEF ExtraKeys
      <4> QED
        BY <3>3, <4>1, <4>3, <4>4
    <3> QED
      BY <3>5, <3>6, <3>7
  <2>7. InTheWay(active, node) = {}
    <3>1. node.leaves \cap active.nodes = {}
      BY <1>2, <2>1
    <3>2. node.nodes \cap active.leaves = {}
      BY <1>2, <2>1
    <3> QED
      BY <3>1, <3>2 DEF InTheWay
  <2>8. dels = IF replace THEN Surplus(scope, c) ELSE {}
    BY <2>6, <2>7 DEF Deletes
  <2> HIDE DEF dels, sets
  <2>9. CASE Required(node) # {}
    <3>1. path \notin c => sets # {}
      <4>1. \A w \in Required(node) : IsPrefix(path, w)
        BY WantedFacts DEF node, path
      <4> QED
        BY <1>1, <2>2, <2>5, <2>9, <4>1
    <3>2. path \notin c => [deletes |-> dels, sets |-> sets] # NoDelta
      BY <3>1 DEF NoDelta
    <3>3. delta = [deletes |-> dels, sets |-> sets]
      BY <1>2, <2>4, <3>2
    <3>4. sets = Wanted(scope) \ c
      BY <2>5, <2>9 DEF Wanted, node
    <3> QED
      BY <1>4, <2>8, <3>3, <3>4 DEF delta, replace
  <2>10. CASE Required(node) = {}
    <3>1. sets = {} /\ Wanted(scope) = {path}
      BY <2>5, <2>10 DEF Wanted, node, path
    <3>2. CASE path \in c
      <4>1. delta = [deletes |-> dels, sets |-> sets] /\ sets = Wanted(scope) \ c
        BY <1>2, <2>4, <3>1, <3>2
      <4> QED
        BY <1>4, <2>8, <4>1 DEF delta, replace
    <3>3. CASE path \notin c
      <4>1. Surplus(scope, c) = {}
        BY <1>1, <2>2, <3>3, StrictOrder DEF Surplus, path
      <4>2. dels = {}
        BY <2>8, <4>1
      <4>3. delta = [NoDelta EXCEPT !.sets = {path}]
        BY <1>2, <2>4, <3>1, <3>3, <4>2 DEF NoDelta
      <4>4. delta = [deletes |-> {}, sets |-> {path}] /\ {path} = Wanted(scope) \ c
        BY <3>1, <3>3, <4>3 DEF NoDelta
      <4> QED
        BY <1>4, <4>1, <4>4 DEF delta
    <3> QED
      BY <3>2, <3>3
  <2> QED
    BY <2>9, <2>10
<1> QED
  BY <1>3, <1>4

-----------------------------------------------------------------------------
(* One scope of a plan, run on a candidate.                                 *)

\* Two scopes of one operation do not meet.
Apart(scope, other) ==
    /\ scope.intent # "merge" =>
           /\ ~IsPrefix(scope.path, other.path)
           /\ other.intent = "merge" =>
                  \A path \in Required(other.node) : ~IsPrefix(scope.path, path)
    /\ other.intent # "merge" =>
           /\ ~IsPrefix(other.path, scope.path)
           /\ scope.intent = "merge" =>
                  \A path \in Required(scope.node) : ~IsPrefix(other.path, path)
    /\ scope.intent # "absent" /\ other.intent # "absent" =>
           \A v \in scope.node.values, w \in other.node.values :
               Front(v) = Front(w) /\ Front(v) \in SingleLeaves => v = w

\* A configuration is what a scope asks for.
Met(scope, c) ==
    /\ scope.intent = "absent" => scope.path \notin c
    /\ scope.intent # "absent" => Wanted(scope) \subseteq c
    /\ scope.intent = "exact" =>
           \A q \in c : IsPrefix(scope.path, q) => q \in Allowed(scope.node)

\* What a scope was planned for is there as it was in another configuration.
Pending(scope, c, base) ==
    /\ scope.intent # "merge" =>
           \A q \in Words : IsPrefix(scope.path, q) => (q \in c <=> q \in base)
    /\ scope.intent = "merge" => Wanted(scope) \cap base \subseteq c

Delta(scope, c) == PlanScope(TreeOf(c), scope)

\* Something undesired lies at or below a surplus path.
LEMMA SurplusAbove ==
    ASSUME NEW c, Candidate(c), NEW scope, Posed(scope), scope.intent # "absent",
           NEW q \in c, IsPrefix(scope.path, q), q \notin Allowed(scope.node)
    PROVE  \E m \in Surplus(scope, c) : IsPrefix(m, q)
<1> DEFINE node == scope.node
           path == scope.path
           S == { p \in Words : IsPrefix(path, p) /\ IsPrefix(p, q) /\ p \notin Allowed(node) }
<1>1. /\ path \in Present(node) /\ path \in Words \ {<<>>}
      /\ node.leaves \subseteq Leaves
      /\ \A v \in node.values : Front(v) \in node.leaves
  BY DesiredTree
<1>2. /\ c \subseteq Paths /\ c \subseteq Words \ {<<>>} /\ q \in Words
      /\ \A r \in c, p \in Words \ {<<>>} : IsPrefix(p, r) => p \in c
  BY CandidateIs, Grammar
<1>3. S \subseteq Words /\ q \in S
  BY <1>2, PrefixOrder
<1>4. PICK m \in S : \A p \in S : ~IsStrictPrefix(p, m)
  <2> HIDE DEF S
  <2> QED
    BY <1>3, Shortest
<1>5. m \in Words /\ IsPrefix(path, m) /\ IsPrefix(m, q) /\ m \notin Allowed(node)
  OBVIOUS
<1>6. m # <<>> /\ IsStrictPrefix(path, m)
  BY <1>1, <1>5, PrefixOrder, StrictOrder DEF Allowed
<1>7. m \in c
  BY <1>2, <1>5, <1>6
<1>8. Front(m) \in Words /\ IsStrictPrefix(Front(m), m) /\ IsPrefix(path, Front(m))
  BY <1>1, <1>5, <1>6, Parents
<1>9. Front(m) \notin S
  BY <1>4, <1>8
<1>10. Front(m) \in Allowed(node)
  BY <1>2, <1>5, <1>8, <1>9, PrefixOrder, StrictOrder
<1>11. Front(m) \notin node.values
  <2>1. ASSUME Front(m) \in node.values
        PROVE  FALSE
    <3>1. Front(Front(m)) \in Leaves
      BY <1>1, <2>1
    <3>2. Front(m) \in Paths /\ Front(m) # <<>>
      BY <1>1, <1>2, <1>7, <1>8, PrefixOrder, StrictOrder, Grammar
    <3>3. IsStrictPrefix(Front(Front(m)), Front(m)) /\ Front(Front(m)) \in Words
      BY <1>8, <3>2, Parents
    <3>4. IsStrictPrefix(Front(Front(m)), m)
      BY <1>5, <1>8, <3>3, StrictOrder
    <3>5. Front(m) = Front(Front(m))
      BY <1>2, <1>7, <3>1, <3>4, Grammar
    <3> QED
      BY <3>3, <3>5, StrictOrder
  <2> QED
    BY <2>1
<1>12. Front(m) \in Present(node)
  BY <1>10, <1>11 DEF Allowed
<1> QED
  BY <1>5, <1>6, <1>7, <1>12 DEF Surplus

\* No surplus path lies below another, nor above what is wanted.
LEMMA SurplusApart ==
    ASSUME NEW c, Candidate(c), NEW scope, Posed(scope), scope.intent # "absent"
    PROVE  /\ Surplus(scope, c) \subseteq c
           /\ \A p, q \in Surplus(scope, c) : ~IsStrictPrefix(p, q)
           /\ \A p \in Surplus(scope, c) :
                  IsPrefix(scope.path, p) /\ \A w \in Wanted(scope) : ~IsPrefix(p, w)
<1> DEFINE node == scope.node
           path == scope.path
<1>1. /\ path \in Words \ {<<>>} /\ Present(node) \subseteq Paths
      /\ \A q \in Present(node), p \in Words :
             IsStrictPrefix(p, q) /\ IsPrefix(path, p) => p \in node.nodes
  BY DesiredTree
<1>2. c \subseteq Words \ {<<>>} /\ Paths \subseteq Words
  BY CandidateIs, Grammar
<1>3. \A p \in Surplus(scope, c) :
          p \in c /\ IsStrictPrefix(path, p) /\ Front(p) \in Present(node) /\ p \notin Allowed(node)
  BY DEF Surplus
<1>4. Present(node) \subseteq Allowed(node) /\ node.nodes \subseteq Present(node)
  BY DEF Allowed, Present
<1>5. \A p \in Surplus(scope, c) : IsPrefix(path, p)
  BY <1>1, <1>2, <1>3, StrictOrder
<1>6. ASSUME NEW p \in Surplus(scope, c), NEW q \in Surplus(scope, c), IsStrictPrefix(p, q)
      PROVE  FALSE
  <2>1. IsPrefix(p, Front(q)) /\ p \in Words /\ Front(q) \in Present(node)
    BY <1>2, <1>3, <1>6, Parents
  <2>2. p \in Present(node)
    BY <1>1, <1>2, <1>4, <1>5, <2>1, StrictOrder
  <2> QED
    BY <1>3, <1>4, <2>2
<1>7. ASSUME NEW p \in Surplus(scope, c), NEW w \in Wanted(scope), IsPrefix(p, w)
      PROVE  FALSE
  <2>1. p \in Allowed(node)
    BY <1>2, <1>3, <1>5, <1>7, WantedFacts
  <2> QED
    BY <1>3, <2>1
<1> QED
  BY <1>3, <1>5, <1>6, <1>7

\* A scope is met exactly where nothing is planned for it.
LEMMA MetIsNothingToDo ==
    ASSUME NEW c, Candidate(c), NEW scope, Posed(scope)
    PROVE  Met(scope, c) <=> Delta(scope, c) = NoDelta
<1>1. CASE scope.intent = "absent"
  BY <1>1, PlanOfScope DEF Met, Delta, NoDelta
<1>2. CASE scope.intent # "absent"
  <2>1. Delta(scope, c) = NoDelta <=>
            (IF scope.intent = "exact" THEN Surplus(scope, c) ELSE {}) = {}
            /\ Wanted(scope) \ c = {}
    BY <1>2, PlanOfScope DEF Delta, NoDelta
  <2>2. ASSUME scope.intent = "exact"
        PROVE  Surplus(scope, c) = {} <=>
                   \A q \in c : IsPrefix(scope.path, q) => q \in Allowed(scope.node)
    <3>1. \A p \in Surplus(scope, c) :
              p \in c /\ IsPrefix(scope.path, p) /\ p \notin Allowed(scope.node)
      BY <1>2, SurplusApart DEF Surplus
    <3> QED
      BY <1>2, <3>1, SurplusAbove
  <2> QED
    BY <1>2, <2>1, <2>2 DEF Met
<1> QED
  BY <1>1, <1>2

\* Whatever plan of a scope runs on whatever candidate: if no command of it is
\* rejected it leaves a candidate, sets what it was to set, and changes nothing
\* but what lies at, above or below the path of the scope.
LEMMA RunFacts ==
    ASSUME NEW c, Candidate(c), NEW base, Candidate(base), NEW scope, Posed(scope),
           RunDelta(c, Delta(scope, base)).ok
    PROVE  LET delta == Delta(scope, base)
               result == RunDelta(c, delta).config
           IN  /\ Candidate(result)
               /\ delta.sets \subseteq result
               /\ \A q \in result \ c : \E r \in delta.sets : IsPrefix(q, r)
               /\ \A q \in result, d \in delta.deletes :
                      IsPrefix(d, q) => \E r \in delta.sets : IsPrefix(q, r)
               /\ \A q \in c \ result :
                      \/ \E d \in delta.deletes :
                             IsPrefix(d, q) \/ (q \in Leaves \cup Tags /\ IsStrictPrefix(q, d))
                      \/ \E r \in delta.sets : Front(r) = Front(q) /\ Front(q) \in SingleLeaves
<1> DEFINE delta == Delta(scope, base)
           left == DeleteAll(c, delta.deletes)
<1>1. /\ delta.deletes \subseteq c /\ Settable(delta.sets)
      /\ RunDelta(c, delta).config = SetAll(left, delta.sets)
  BY DEF RunDelta, Deletable
<1>2. Single(delta.sets)
  <2>1. CASE scope.intent = "absent"
    BY <2>1, PlanOfScope DEF Delta, Single
  <2>2. CASE scope.intent # "absent"
    BY <2>2, PlanOfScope, WantedFacts DEF Delta, Single
  <2> QED
    BY <2>1, <2>2
<1> DEFINE result == SetAll(left, delta.sets)
           dels == delta.deletes
           sets == delta.sets
<1>3. dels \subseteq Words /\ c \subseteq Words
  BY <1>1, CandidateIs, Grammar
<1> HIDE DEF delta
<1>4. /\ Candidate(left) /\ left \subseteq c
      /\ \A q \in c \ left : \E d \in dels :
             IsPrefix(d, q) \/ (q \in Leaves \cup Tags /\ IsStrictPrefix(q, d))
      /\ \A q \in left, d \in dels : ~IsPrefix(d, q)
  BY <1>3, DeleteFacts
<1> HIDE DEF left
<1>5. /\ Candidate(result) /\ sets \subseteq result
      /\ \A q \in result \ left : \E r \in sets : IsPrefix(q, r)
      /\ \A q \in left \ result : \E r \in sets :
             Front(r) = Front(q) /\ Front(q) \in SingleLeaves
  BY <1>1, <1>2, <1>4, SetFacts
<1> HIDE DEF result, dels, sets
<1>6. /\ \A q \in result \ c : \E r \in sets : IsPrefix(q, r)
      /\ \A q \in result, d \in dels : IsPrefix(d, q) => \E r \in sets : IsPrefix(q, r)
      /\ \A q \in c \ result :
             \/ \E d \in dels :
                    IsPrefix(d, q) \/ (q \in Leaves \cup Tags /\ IsStrictPrefix(q, d))
             \/ \E r \in sets : Front(r) = Front(q) /\ Front(q) \in SingleLeaves
  BY <1>4, <1>5
<1>7. RunDelta(c, delta).config = result
  BY <1>1 DEF result, sets
<1> QED
  BY <1>5, <1>6, <1>7 DEF delta, dels, sets

\* Where the commands of a scope lie.
LEMMA DeltaFacts ==
    ASSUME NEW base, Candidate(base), NEW scope, Posed(scope)
    PROVE  /\ scope.path \in Words \ {<<>>} /\ Front(scope.path) \notin Leaves
           /\ Delta(scope, base).deletes \subseteq base
           /\ \A d \in Delta(scope, base).deletes : IsPrefix(scope.path, d)
           /\ scope.intent = "merge" => Delta(scope, base).deletes = {}
           /\ Delta(scope, base).sets =
                  IF scope.intent = "absent" THEN {} ELSE Wanted(scope) \ base
           /\ \A r \in Delta(scope, base).sets :
                  r \in Wanted(scope) /\ IsPrefix(scope.path, r)
                  /\ r \in Paths /\ r \in Words \ {<<>>}
           /\ \A r \in Delta(scope, base).sets :
                  Front(r) \in Leaves =>
                      r \in scope.node.values /\ IsPrefix(scope.path, Front(r))
<1>1. scope.path \in Words \ {<<>>} /\ Front(scope.path) \notin Leaves
  BY DEF Posed, IsScope, Words
<1>2. CASE scope.intent = "absent"
  BY <1>1, <1>2, PlanOfScope, PrefixOrder DEF Delta
<1>3. CASE scope.intent # "absent"
  <2>1. /\ Delta(scope, base).deletes \subseteq Surplus(scope, base)
        /\ scope.intent = "merge" => Delta(scope, base).deletes = {}
        /\ Delta(scope, base).sets = Wanted(scope) \ base
    BY <1>3, PlanOfScope DEF Delta
  <2>2. ASSUME NEW r \in Wanted(scope)
        PROVE  /\ IsPrefix(scope.path, r) /\ r \in Paths /\ r \in Words \ {<<>>}
               /\ Front(r) \in Leaves =>
                      r \in scope.node.values /\ IsPrefix(scope.path, Front(r))
    <3>1. IsPrefix(scope.path, r) /\ r \in Paths /\ r \in Words \ {<<>>}
      BY <1>3, WantedFacts, Grammar
    <3>2. Front(r) \in Leaves => r \in scope.node.values /\ scope.path # r
      BY <1>1, <1>3, WantedFacts
    <3> QED
      BY <1>1, <3>1, <3>2, Parents, StrictOrder
  <2>3. /\ Surplus(scope, base) \subseteq base
        /\ \A d \in Surplus(scope, base) : IsPrefix(scope.path, d)
    BY <1>3, SurplusApart
  <2> QED
    BY <1>1, <1>3, <2>1, <2>2, <2>3
<1> QED
  BY <1>2, <1>3

\* A scope that is run where all it was planned for is still there is accepted,
\* and met.
LEMMA RunMeets ==
    ASSUME NEW c, Candidate(c), NEW base, Candidate(base), NEW scope, Posed(scope),
           Pending(scope, c, base)
    PROVE  /\ RunDelta(c, Delta(scope, base)).ok
           /\ Met(scope, RunDelta(c, Delta(scope, base)).config)
<1> DEFINE delta == Delta(scope, base)
           dels == delta.deletes
           sets == delta.sets
           result == RunDelta(c, delta).config
           path == scope.path
<1>1. /\ path \in Words \ {<<>>} /\ Front(path) \notin Leaves
      /\ dels \subseteq base
      /\ \A d \in dels : IsPrefix(path, d)
      /\ scope.intent = "merge" => dels = {}
      /\ sets = IF scope.intent = "absent" THEN {} ELSE Wanted(scope) \ base
  BY DeltaFacts
<1>2. c \subseteq Words \ {<<>>} /\ base \subseteq Words \ {<<>>} /\ Paths \subseteq Words
  BY CandidateIs, Grammar
<1>3. Deletable(c, dels)
  <2>1. dels \subseteq c
    BY <1>1, <1>2 DEF Pending
  <2>2. \A p, q \in dels : ~IsStrictPrefix(p, q)
    <3>1. CASE scope.intent = "absent"
      <4>1. \A p, q \in dels : p = q
        BY <3>1, PlanOfScope DEF Delta
      <4> QED
        BY <1>1, <1>2, <4>1, StrictOrder
    <3>2. CASE scope.intent # "absent"
      <4>1. dels \subseteq Surplus(scope, base)
        BY <3>2, PlanOfScope DEF Delta
      <4> QED
        BY <3>2, <4>1, SurplusApart
    <3> QED
      BY <3>1, <3>2
  <2> QED
    BY <2>1, <2>2 DEF Deletable
<1>4. Settable(sets)
  <2>1. scope.intent # "absent" => sets \subseteq Paths \ (Leaves \cup Tags)
    BY <1>1, WantedFacts
  <2>2. scope.intent = "absent" => sets = {}
    BY <1>1
  <2> QED
    BY <2>1, <2>2 DEF Settable
<1>5. RunDelta(c, delta).ok
  BY <1>3, <1>4 DEF RunDelta
<1>6. /\ Candidate(result)
      /\ sets \subseteq result
      /\ \A q \in result \ c : \E r \in sets : IsPrefix(q, r)
      /\ \A q \in result, d \in dels : IsPrefix(d, q) => \E r \in sets : IsPrefix(q, r)
      /\ \A q \in c \ result :
             \/ \E d \in dels :
                    IsPrefix(d, q) \/ (q \in Leaves \cup Tags /\ IsStrictPrefix(q, d))
             \/ \E r \in sets : Front(r) = Front(q) /\ Front(q) \in SingleLeaves
  BY <1>5, RunFacts
<1>7. CASE scope.intent = "absent"
  <2>1. path \in c => path \in base
    BY <1>1, <1>7, PrefixOrder DEF Pending
  <2>2. path \in base => path \in dels
    BY <1>7, PlanOfScope DEF Delta
  <2> HIDE DEF result, dels, sets
  <2>3. path \notin result
    BY <1>1, <1>6, <1>7, <2>1, <2>2, PrefixOrder
  <2>4. Met(scope, result)
    BY <1>7, <2>3 DEF Met
  <2> QED
    BY <1>5, <2>4 DEF result
<1>8. CASE scope.intent # "absent"
  <2>1. /\ Wanted(scope) \subseteq Paths \ (Leaves \cup Tags \cup NeedBody)
        /\ Single(Wanted(scope))
        /\ \A w \in Wanted(scope) :
               /\ IsPrefix(path, w)
               /\ \A q \in Words : IsPrefix(path, q) /\ IsPrefix(q, w) =>
                      q \in Allowed(scope.node)
    BY <1>8, WantedFacts
  <2>2. sets = Wanted(scope) \ base
    BY <1>1, <1>8
  <2>3. dels \subseteq Surplus(scope, base)
    BY <1>8, PlanOfScope DEF Delta
  <2>4. \A d \in dels, w \in Wanted(scope) : ~IsPrefix(d, w)
    BY <1>8, <2>3, SurplusApart
  <2>5. Wanted(scope) \cap base \subseteq c
    BY <1>2, <2>1 DEF Pending
  <2> HIDE DEF result, dels, sets
  <2>6. ASSUME NEW w \in Wanted(scope), w \notin result
        PROVE  FALSE
    <3>1. w \in base /\ w \in c /\ w \notin Leaves \cup Tags
      BY <1>6, <2>1, <2>2, <2>5, <2>6
    <3>2. PICK r \in sets : Front(r) = Front(w) /\ Front(w) \in SingleLeaves
      BY <1>6, <2>4, <2>6, <3>1
    <3>3. r = w
      BY <2>1, <2>2, <3>2 DEF Single
    <3> QED
      BY <2>2, <3>1, <3>3
  <2>7. ASSUME scope.intent = "exact", NEW q \in result, IsPrefix(path, q)
        PROVE  q \in Allowed(scope.node)
    <3>1. q \in Words
      BY <1>6, CandidateIs, Grammar
    <3>2. ASSUME NEW r \in sets, IsPrefix(q, r)
          PROVE  q \in Allowed(scope.node)
      BY <2>1, <2>2, <2>7, <3>1, <3>2
    <3>3. CASE q \notin c
      BY <1>6, <3>2, <3>3
    <3>4. CASE q \in c
      <4>1. q \in base
        BY <2>7, <3>1, <3>4 DEF Pending
      <4>2. ASSUME q \notin Allowed(scope.node)
            PROVE  FALSE
        <5>1. PICK m \in Surplus(scope, base) : IsPrefix(m, q)
          BY <1>8, <2>7, <4>1, <4>2, SurplusAbove
        <5>2. m \in dels
          BY <2>7, <5>1, PlanOfScope DEF dels, Delta
        <5> QED
          BY <1>6, <3>2, <4>2, <5>1, <5>2
      <4> QED
        BY <4>2
    <3> QED
      BY <3>3, <3>4
  <2>8. Met(scope, result)
    BY <1>8, <2>6, <2>7 DEF Met
  <2> QED
    BY <1>5, <2>8 DEF result
<1> QED
  BY <1>5, <1>7, <1>8

\* Running a scope leaves alone all that another one owns.
LEMMA RunLeavesAlone ==
    ASSUME NEW c, Candidate(c), NEW base, Candidate(base),
           NEW scope, Posed(scope), NEW other, Posed(other), Apart(scope, other),
           scope.intent # "merge",
           RunDelta(c, Delta(other, base)).ok,
           NEW q \in Words, IsPrefix(scope.path, q)
    PROVE  q \in c <=> q \in RunDelta(c, Delta(other, base)).config
<1> DEFINE delta == Delta(other, base)
           dels == delta.deletes
           sets == delta.sets
           result == RunDelta(c, delta).config
           path == scope.path
<1>1. /\ path \in Words \ {<<>>} /\ Front(path) \notin Leaves
      /\ other.path \in Words \ {<<>>}
  BY DeltaFacts
<1>2. /\ dels \subseteq base
      /\ \A d \in dels : IsPrefix(other.path, d)
      /\ other.intent = "merge" => dels = {}
      /\ \A r \in sets : /\ r \in Wanted(other) /\ IsPrefix(other.path, r)
                         /\ r \in Words \ {<<>>}
  BY DeltaFacts
<1>3. c \subseteq Words \ {<<>>} /\ base \subseteq Words \ {<<>>}
  BY CandidateIs, Grammar
<1>4. /\ ~IsPrefix(path, other.path)
      /\ other.intent # "merge" => ~IsPrefix(other.path, path)
      /\ other.intent = "merge" => \A r \in Required(other.node) : ~IsPrefix(path, r)
  BY DEF Apart
<1>5. /\ \A p \in result \ c : \E r \in sets : IsPrefix(p, r)
      /\ \A p \in c \ result :
             \/ \E d \in dels :
                    IsPrefix(d, p) \/ (p \in Leaves \cup Tags /\ IsStrictPrefix(p, d))
             \/ \E r \in sets : Front(r) = Front(p) /\ Front(p) \in SingleLeaves
  BY RunFacts
<1>6. ASSUME other.intent # "merge", NEW p \in Words,
             IsPrefix(path, p), IsPrefix(other.path, p)
      PROVE  FALSE
  BY <1>1, <1>4, <1>6, PrefixOrder
<1> HIDE DEF delta, dels, sets, result
<1>7. \A r \in sets : ~IsPrefix(path, r)
  <2>1. CASE other.intent = "merge"
    BY <1>2, <1>4, <2>1 DEF Wanted
  <2>2. CASE other.intent # "merge"
    BY <1>2, <1>6, <2>2
  <2> QED
    BY <2>1, <2>2
<1>8. ASSUME NEW d \in dels
      PROVE  ~IsPrefix(d, q) /\ ~IsPrefix(q, d)
  <2>1. other.intent # "merge" /\ d \in Words /\ IsPrefix(other.path, d)
    BY <1>2, <1>3
  <2>2. ~IsPrefix(path, d)
    BY <1>6, <2>1
  <2>3. ~IsPrefix(other.path, q)
    BY <1>6, <2>1
  <2> QED
    BY <1>1, <2>1, <2>2, <2>3, PrefixOrder
<1>9. ASSUME q \in c, q \notin result
      PROVE  FALSE
  <2>1. PICK r \in sets : Front(r) = Front(q) /\ Front(q) \in SingleLeaves
    <3>1. \A d \in dels : ~IsPrefix(d, q) /\ ~IsStrictPrefix(q, d)
      BY <1>8 DEF IsStrictPrefix
    <3> QED
      BY <1>5, <1>9, <3>1
  <2>2. q # path
    BY <1>1, <2>1, Grammar
  <2>3. IsPrefix(path, Front(q)) /\ Front(q) \in Words
    BY <1>1, <1>3, <1>9, <2>2, Parents, StrictOrder
  <2>4. IsPrefix(path, r)
    BY <1>1, <1>2, <2>1, <2>3, Parents, StrictOrder
  <2> QED
    BY <1>7, <2>4
<1>10. ASSUME q \notin c, q \in result
       PROVE  FALSE
  <2>1. PICK r \in sets : IsPrefix(q, r)
    BY <1>5, <1>10
  <2>2. IsPrefix(path, r)
    BY <1>1, <1>2, <2>1, PrefixOrder
  <2> QED
    BY <1>7, <2>2
<1> QED
  BY <1>9, <1>10 DEF result, delta

\* Running a scope keeps what another one merges.
LEMMA RunKeepsWanted ==
    ASSUME NEW c, Candidate(c), NEW base, Candidate(base),
           NEW scope, Posed(scope), NEW other, Posed(other), Apart(scope, other),
           scope.intent = "merge",
           RunDelta(c, Delta(other, base)).ok,
           NEW w \in Wanted(scope), w \in c
    PROVE  w \in RunDelta(c, Delta(other, base)).config
<1> DEFINE delta == Delta(other, base)
           dels == delta.deletes
           sets == delta.sets
           result == RunDelta(c, delta).config
<1>1. other.path \in Words \ {<<>>} /\ w \in Words /\ w \notin Leaves \cup Tags
  BY DeltaFacts, WantedFacts, Grammar
<1>2. /\ dels \subseteq base /\ base \subseteq Words
      /\ \A d \in dels : IsPrefix(other.path, d)
      /\ other.intent = "merge" => dels = {}
  BY DeltaFacts, CandidateIs, Grammar
<1>3. /\ other.intent = "absent" => sets = {}
      /\ \A r \in sets : Front(r) \in Leaves => r \in other.node.values
  BY DeltaFacts
<1>4. other.intent # "merge" => ~IsPrefix(other.path, w)
  BY DEF Apart, Wanted
<1>5. /\ sets \subseteq result
      /\ \A p \in c \ result :
             \/ \E d \in dels :
                    IsPrefix(d, p) \/ (p \in Leaves \cup Tags /\ IsStrictPrefix(p, d))
             \/ \E r \in sets : Front(r) = Front(p) /\ Front(p) \in SingleLeaves
  BY RunFacts
<1> HIDE DEF delta, dels, sets, result
<1>6. ASSUME w \notin result
      PROVE  FALSE
  <2>1. \A d \in dels : ~IsPrefix(d, w)
    BY <1>1, <1>2, <1>4, PrefixOrder
  <2>2. PICK r \in sets : Front(r) = Front(w) /\ Front(w) \in SingleLeaves
    BY <1>1, <1>5, <1>6, <2>1
  <2>3. r \in other.node.values /\ other.intent # "absent"
    BY <1>3, <2>2, Grammar
  <2>4. w \in scope.node.values
    BY <2>2, WantedFacts, Grammar
  <2>5. w = r
    BY <2>2, <2>3, <2>4 DEF Apart
  <2> QED
    BY <1>5, <1>6, <2>5
<1> QED
  BY <1>6 DEF result, delta

\* So a scope that is met stays met when another one runs, and one that is still
\* to run can still be.
LEMMA RunKeeps ==
    ASSUME NEW c, Candidate(c), NEW base, Candidate(base),
           NEW scope, Posed(scope), NEW other, Posed(other), Apart(scope, other),
           RunDelta(c, Delta(other, base)).ok
    PROVE  LET result == RunDelta(c, Delta(other, base)).config
           IN  /\ Met(scope, c) => Met(scope, result)
               /\ Pending(scope, c, base) => Pending(scope, result, base)
<1> DEFINE result == RunDelta(c, Delta(other, base)).config
<1>1. Candidate(result)
  BY RunFacts
<1>2. scope.path \in Words /\ IsPrefix(scope.path, scope.path)
  BY DeltaFacts, PrefixOrder
<1>3. result \subseteq Words
  BY <1>1, CandidateIs, Grammar
<1>4. CASE scope.intent = "merge"
  <2>1. \A w \in Wanted(scope) : w \in c => w \in result
    BY <1>4, RunKeepsWanted
  <2> HIDE DEF result
  <2> QED
    BY <1>4, <2>1 DEF Met, Pending, result
<1>5. CASE scope.intent # "merge"
  <2>1. \A q \in Words : IsPrefix(scope.path, q) => (q \in c <=> q \in result)
    BY <1>5, RunLeavesAlone
  <2>2. scope.intent # "absent" =>
            \A w \in Wanted(scope) : w \in Words /\ IsPrefix(scope.path, w)
    BY WantedFacts, Grammar
  <2> HIDE DEF result
  <2>3. Pending(scope, c, base) => Pending(scope, result, base)
    BY <1>5, <2>1 DEF Pending
  <2>4. ASSUME Met(scope, c)
        PROVE  Met(scope, result)
    <3>1. scope.intent = "absent" => scope.path \notin result
      BY <1>2, <2>1, <2>4 DEF Met
    <3>2. scope.intent # "absent" => Wanted(scope) \subseteq result
      BY <2>1, <2>2, <2>4 DEF Met
    <3>3. scope.intent = "exact" =>
              \A q \in result : IsPrefix(scope.path, q) => q \in Allowed(scope.node)
      BY <1>3, <2>1, <2>4 DEF Met
    <3> QED
      BY <3>1, <3>2, <3>3 DEF Met
  <2> QED
    BY <2>3, <2>4 DEF result
<1> QED
  BY <1>4, <1>5

\* A scope adds what it wants, with the parents.
Adds(scope, q) == scope.intent # "absent" /\ \E w \in Wanted(scope) : IsPrefix(q, w)

\* A scope that does not merge removes what is at and below its path, and leaves
\* and tags above it that this empties; setting a leaf with one value removes the
\* value it had.
Removes(scope, q) ==
    \/ scope.intent # "merge" /\ IsPrefix(scope.path, q)
    \/ scope.intent # "merge" /\ q \in Leaves \cup Tags /\ IsStrictPrefix(q, scope.path)
    \/ scope.intent # "absent" /\ Front(q) \in SingleLeaves
       /\ \E w \in Wanted(scope) : Front(w) = Front(q)

\* Running a scope adds and removes nothing else.
LEMMA RunStaysInScope ==
    ASSUME NEW c, Candidate(c), NEW base, Candidate(base), NEW scope, Posed(scope),
           RunDelta(c, Delta(scope, base)).ok
    PROVE  LET result == RunDelta(c, Delta(scope, base)).config
           IN  /\ \A q \in result \ c : Adds(scope, q)
               /\ \A q \in c \ result : Removes(scope, q)
<1> DEFINE delta == Delta(scope, base)
           dels == delta.deletes
           sets == delta.sets
           result == RunDelta(c, delta).config
           path == scope.path
<1>1. /\ path \in Words \ {<<>>}
      /\ dels \subseteq base /\ base \subseteq Words
      /\ \A d \in dels : IsPrefix(path, d)
      /\ scope.intent = "merge" => dels = {}
      /\ scope.intent = "absent" => sets = {}
      /\ \A r \in sets : r \in Wanted(scope)
  BY DeltaFacts, CandidateIs, Grammar
<1>2. /\ \A p \in result \ c : \E r \in sets : IsPrefix(p, r)
      /\ \A p \in c \ result :
             \/ \E d \in dels :
                    IsPrefix(d, p) \/ (p \in Leaves \cup Tags /\ IsStrictPrefix(p, d))
             \/ \E r \in sets : Front(r) = Front(p) /\ Front(p) \in SingleLeaves
  BY RunFacts
<1>3. c \subseteq Words \ {<<>>}
  BY CandidateIs, Grammar
<1> HIDE DEF delta, dels, sets, result
<1>4. ASSUME NEW q \in c \ result
      PROVE  Removes(scope, q)
  <2>1. CASE \E r \in sets : Front(r) = Front(q) /\ Front(q) \in SingleLeaves
    BY <1>1, <2>1 DEF Removes
  <2>2. ASSUME NEW d \in dels,
               IsPrefix(d, q) \/ (q \in Leaves \cup Tags /\ IsStrictPrefix(q, d))
        PROVE  Removes(scope, q)
    <3>1. scope.intent # "merge" /\ IsPrefix(path, d) /\ d \in Words /\ q \in Words
      BY <1>1, <1>3
    <3>2. CASE IsPrefix(d, q)
      BY <1>1, <3>1, <3>2, PrefixOrder DEF Removes
    <3>3. CASE q \in Leaves \cup Tags /\ IsStrictPrefix(q, d)
      <4>1. IsPrefix(path, q) \/ IsStrictPrefix(q, path)
        BY <1>1, <3>1, <3>3, PrefixOrder, StrictOrder
      <4> QED
        BY <3>1, <3>3, <4>1 DEF Removes
    <3> QED
      BY <2>2, <3>2, <3>3
  <2> QED
    BY <1>2, <2>1, <2>2
<1>5. \A q \in result \ c : Adds(scope, q)
  BY <1>1, <1>2 DEF Adds
<1> QED
  BY <1>4, <1>5 DEF result, delta

\* All of it is at, above or below the path of the scope.
LEMMA ScopeOfChanges ==
    ASSUME NEW scope, Posed(scope), NEW q \in Words \ {<<>>}
    PROVE  /\ Adds(scope, q) => IsPrefix(scope.path, q) \/ IsPrefix(q, scope.path)
           /\ Removes(scope, q) => IsPrefix(scope.path, q) \/ IsPrefix(q, scope.path)
           /\ Removes(scope, q) /\ scope.intent = "merge" => Front(q) \in SingleLeaves
<1>1. scope.path \in Words \ {<<>>} /\ Front(scope.path) \notin Leaves
  BY DEF Posed, IsScope, Words
<1>2. scope.intent # "absent" => \A w \in Wanted(scope) :
          IsPrefix(scope.path, w) /\ w \in Words \ {<<>>}
  BY WantedFacts, Grammar
<1>3. ASSUME Adds(scope, q)
      PROVE  IsPrefix(scope.path, q) \/ IsPrefix(q, scope.path)
  BY <1>1, <1>2, <1>3, PrefixOrder DEF Adds
<1>4. ASSUME scope.intent # "absent", Front(q) \in SingleLeaves,
             NEW w \in Wanted(scope), Front(w) = Front(q)
      PROVE  IsPrefix(scope.path, q)
  <2>1. IsStrictPrefix(scope.path, w)
    BY <1>1, <1>2, <1>4, Grammar, StrictOrder
  <2>2. IsPrefix(scope.path, Front(w))
    BY <1>1, <1>2, <1>4, <2>1, Parents
  <2> QED
    BY <1>1, <1>4, <2>2, Parents, StrictOrder
<1>5. ASSUME Removes(scope, q)
      PROVE  IsPrefix(scope.path, q) \/ IsPrefix(q, scope.path)
  BY <1>1, <1>4, <1>5, StrictOrder DEF Removes
<1>6. Removes(scope, q) /\ scope.intent = "merge" => Front(q) \in SingleLeaves
  BY DEF Removes
<1> QED
  BY <1>3, <1>5, <1>6

\* A scope that is met does not leave a node without the body it needs.
LEMMA RunStaysComplete ==
    ASSUME NEW c, Candidate(c), NEW base, Candidate(base), NEW scope, Posed(scope),
           Complete(c), RunDelta(c, Delta(scope, base)).ok,
           Met(scope, RunDelta(c, Delta(scope, base)).config)
    PROVE  Complete(RunDelta(c, Delta(scope, base)).config)
<1> DEFINE delta == Delta(scope, base)
           dels == delta.deletes
           sets == delta.sets
           result == RunDelta(c, delta).config
           path == scope.path
<1>1. /\ path \in Words \ {<<>>}
      /\ dels \subseteq base /\ base \subseteq Words
      /\ \A d \in dels : IsPrefix(path, d)
      /\ scope.intent = "merge" => dels = {}
      /\ sets = IF scope.intent = "absent" THEN {} ELSE Wanted(scope) \ base
      /\ \A r \in sets : r \in Wanted(scope) /\ r \in Words \ {<<>>}
  BY DeltaFacts, CandidateIs, Grammar
<1>2. /\ Candidate(result) /\ sets \subseteq result
      /\ \A p \in result \ c : \E r \in sets : IsPrefix(p, r)
      /\ \A p \in c \ result :
             \/ \E d \in dels :
                    IsPrefix(d, p) \/ (p \in Leaves \cup Tags /\ IsStrictPrefix(p, d))
             \/ \E r \in sets : Front(r) = Front(p) /\ Front(p) \in SingleLeaves
  BY RunFacts
<1>3. c \subseteq Words \ {<<>>} /\ result \subseteq Words \ {<<>>} /\ result \subseteq Paths
      /\ NeedBody \subseteq Words \ {<<>>}
  BY <1>2, CandidateIs, Grammar
<1>4. /\ \A n \in c \cap NeedBody : \E q \in c : IsStrictPrefix(n, q)
  BY DEF Complete, BelowIn
<1>5. scope.intent # "absent" => Wanted(scope) \cap NeedBody = {}
  BY WantedFacts
<1>6. \A r \in sets : r \notin NeedBody
  BY <1>1, <1>5
<1>7. Met(scope, result)
  OBVIOUS
<1>8. \A p \in result, r \in Words \ {<<>>} : IsPrefix(r, p) => r \in result
  BY <1>2, CandidateIs
<1> HIDE DEF delta, dels, sets, result
<1>9. ASSUME NEW n \in result \cap NeedBody
      PROVE  \E q \in result : IsStrictPrefix(n, q)
  <2>1. CASE n \notin c
    BY <1>1, <1>2, <1>3, <1>6, <2>1, StrictOrder
  <2>2. CASE n \in c
    <3>1. PICK q \in c : IsStrictPrefix(n, q)
      BY <1>4, <2>2
    <3>2. CASE q \in result
      BY <3>1, <3>2
    <3>3. CASE \E r \in sets : Front(r) = Front(q) /\ Front(q) \in SingleLeaves
      <4>1. PICK r \in sets : Front(r) = Front(q)
        BY <3>3
      <4>2. IsStrictPrefix(n, r)
        BY <1>1, <1>3, <3>1, <4>1, Parents
      <4> QED
        BY <1>2, <4>2
    <3>4. CASE \E d \in dels : IsPrefix(d, q) \/ IsStrictPrefix(q, d)
      <4>1. PICK d \in dels : IsPrefix(d, q) \/ IsStrictPrefix(q, d)
        BY <3>4
      <4>2. scope.intent # "merge" /\ IsPrefix(path, d) /\ d \in Words
        BY <1>1
      <4>3. IsPrefix(path, n)
        <5>1. IsPrefix(path, n) \/ IsPrefix(n, path)
          BY <1>1, <1>3, <3>1, <4>1, <4>2, PrefixOrder, StrictOrder
        <5>2. ~IsStrictPrefix(n, path)
          BY <4>2 DEF Posed
        <5> QED
          BY <1>1, <1>3, <5>1, <5>2, PrefixOrder, StrictOrder
      <4>4. path \in result
        BY <1>1, <1>3, <1>8, <4>3
      <4>5. scope.intent = "exact"
        BY <1>7, <4>2, <4>4 DEF Met, Posed, IsScope, Intents
      <4>6. n \in Allowed(scope.node) /\ Wanted(scope) \subseteq result
        BY <1>7, <4>3, <4>5 DEF Met
      <4>7. n \in scope.node.nodes
        <5>1. \A v \in scope.node.values : v \in Paths /\ Front(v) \in Leaves
          BY <4>5, DesiredTree
        <5>2. n \notin scope.node.values
          BY <5>1, Grammar
        <5>3. n \notin scope.node.leaves
          BY <4>5, DesiredTree, Grammar
        <5> QED
          BY <4>6, <5>2, <5>3 DEF Allowed, Present
      <4>8. PICK w \in Required(scope.node) : IsStrictPrefix(n, w)
        BY <4>5, <4>7 DEF Posed, Holdable
      <4>9. w \in result
        BY <4>5, <4>6, <4>8, WantedFacts
      <4> QED
        BY <4>8, <4>9
    <3> QED
      BY <1>2, <3>2, <3>3, <3>4
  <2> QED
    BY <2>1, <2>2
<1>10. Complete(result)
  BY <1>9 DEF Complete, BelowIn
<1> QED
  BY <1>10 DEF result, delta

-----------------------------------------------------------------------------
(* The scopes of one operation, and its plan.                               *)

\* The scopes of a well-posed operation are posed, and apart from each other.
LEMMA WellPosedScopes ==
    ASSUME NEW scopes, IsOperation(scopes), WellPosed(scopes)
    PROVE  /\ Len(scopes) \in Nat /\ DOMAIN scopes = 1..Len(scopes)
           /\ \A i \in DOMAIN scopes : Posed(scopes[i])
           /\ \A i, j \in DOMAIN scopes : i # j => Apart(scopes[i], scopes[j])
<1>1. scopes \in Seq({ scopes[i] : i \in DOMAIN scopes })
      /\ \A i \in DOMAIN scopes : IsScope(scopes[i])
  BY DEF IsOperation
<1>2. Len(scopes) \in Nat /\ DOMAIN scopes = 1..Len(scopes)
  BY <1>1, LenProperties
<1>3. Compatible(scopes)
  BY DEF WellPosed
<1>4. ASSUME NEW i \in DOMAIN scopes
      PROVE  Posed(scopes[i])
  <2>1. scopes[i].intent # "absent" => Single(scopes[i].node.values)
    BY <1>3 DEF Compatible, Single
  <2> QED
    BY <1>1, <2>1 DEF WellPosed, Posed
<1>5. ASSUME NEW i \in DOMAIN scopes, NEW j \in DOMAIN scopes, i # j
      PROVE  Apart(scopes[i], scopes[j])
  <2>1. scopes[i].intent # "absent" /\ scopes[j].intent # "absent" =>
            \A v \in scopes[i].node.values, w \in scopes[j].node.values :
                Front(v) = Front(w) /\ Front(v) \in SingleLeaves => v = w
    BY <1>3 DEF Compatible
  <2>2. ASSUME NEW k \in DOMAIN scopes, NEW m \in DOMAIN scopes, k # m,
               scopes[k].intent # "merge"
        PROVE  /\ ~IsPrefix(scopes[k].path, scopes[m].path)
               /\ scopes[m].intent = "merge" =>
                      \A path \in Required(scopes[m].node) : ~IsPrefix(scopes[k].path, path)
    <3>1. \A path \in {scopes[m].path} \cup
                      IF scopes[m].intent = "merge" THEN Required(scopes[m].node) ELSE {} :
              ~IsPrefix(scopes[k].path, path)
      BY <1>3, <2>2 DEF Compatible
    <3> QED
      BY <3>1
  <2> QED
    BY <1>5, <2>1, <2>2 DEF Apart
<1> QED
  BY <1>2, <1>4, <1>5

\* A plan that holds a command has the delta of each scope, all made for the
\* same configuration.
LEMMA PlanIs ==
    ASSUME NEW scopes, IsOperation(scopes), NEW c, PlanScopes(TreeOf(c), scopes) # <<>>
    PROVE  LET p == PlanScopes(TreeOf(c), scopes)
           IN  /\ DOMAIN p = DOMAIN scopes /\ Len(p) = Len(scopes)
               /\ \A i \in DOMAIN scopes : p[i] = Delta(scopes[i], c)
               /\ \E i \in DOMAIN scopes : p[i] # NoDelta
<1> DEFINE p == PlanScopes(TreeOf(c), scopes)
           deltas == [i \in DOMAIN scopes |-> PlanScope(TreeOf(c), scopes[i])]
<1>1. p = deltas /\ \E i \in DOMAIN scopes : deltas[i] # NoDelta
  BY DEF PlanScopes
<1>2. scopes \in Seq({ scopes[i] : i \in DOMAIN scopes })
  BY DEF IsOperation
<1>3. Len(scopes) \in Nat /\ DOMAIN scopes = 1..Len(scopes)
  BY <1>2, LenProperties
<1>4. Len(deltas) = Len(scopes)
  BY <1>3
<1>5. DOMAIN deltas = DOMAIN scopes
      /\ \A i \in DOMAIN scopes : deltas[i] = Delta(scopes[i], c)
  BY DEF Delta
<1> HIDE DEF p, deltas
<1> QED
  BY <1>1, <1>4, <1>5 DEF p

\* There is a plan unless every scope is met already.
LEMMA NoPlanIsMet ==
    ASSUME NEW scopes, IsOperation(scopes), WellPosed(scopes), NEW c, Candidate(c)
    PROVE  PlanScopes(TreeOf(c), scopes) = <<>>
               <=> \A i \in DOMAIN scopes : Met(scopes[i], c)
<1>1. \A i \in DOMAIN scopes : Met(scopes[i], c) <=> Delta(scopes[i], c) = NoDelta
  BY WellPosedScopes, MetIsNothingToDo
<1>2. ASSUME PlanScopes(TreeOf(c), scopes) # <<>>
      PROVE  \E i \in DOMAIN scopes : Delta(scopes[i], c) # NoDelta
  BY <1>2, PlanIs
<1>3. ASSUME PlanScopes(TreeOf(c), scopes) = <<>>
      PROVE  \A i \in DOMAIN scopes : Delta(scopes[i], c) = NoDelta
  <2> DEFINE deltas == [i \in DOMAIN scopes |-> PlanScope(TreeOf(c), scopes[i])]
  <2>1. PlanScopes(TreeOf(c), scopes) =
            IF \A i \in DOMAIN scopes : deltas[i] = NoDelta THEN <<>> ELSE deltas
    BY DEF PlanScopes
  <2>2. \A i \in DOMAIN scopes : deltas[i] = Delta(scopes[i], c)
    BY DEF Delta
  <2>3. DOMAIN deltas = DOMAIN scopes
    OBVIOUS
  <2> HIDE DEF deltas
  <2>4. CASE \A i \in DOMAIN scopes : deltas[i] = NoDelta
    BY <2>2, <2>4
  <2>5. CASE ~\A i \in DOMAIN scopes : deltas[i] = NoDelta
    <3>1. deltas = <<>>
      BY <1>3, <2>1, <2>5
    <3>2. DOMAIN scopes = {}
      BY <2>3, <3>1
    <3> QED
      BY <2>5, <3>2
  <2> QED
    BY <2>4, <2>5
<1> QED
  BY <1>1, <1>2, <1>3

\* The default of the Configuration fact is the tree of a device without any
\* configuration.
LEMMA DefaultIsBlank ==
    EmptyTree = TreeOf({}) /\ Candidate({})
<1>1. EmptyTree = TreeOf({})
  <2> DEFINE root == {<<>>}
  <2> HIDE DEF root
  <2>1. [Absent EXCEPT !.nodes = root] = [nodes |-> root, leaves |-> {}, values |-> {}]
    BY DEF Absent
  <2>2. /\ {<<>>} \cup { q \in {} : q \notin Leaves /\ Front(q) \notin Leaves } = {<<>>}
        /\ {} \cap Leaves = {} /\ { q \in {} : Front(q) \in Leaves } = {}
    OBVIOUS
  <2> QED
    BY <2>1, <2>2 DEF TreeOf, EmptyTree, root
<1>2. Candidate({})
  BY CandidateIs
<1> QED
  BY <1>1, <1>2

=============================================================================
