---------------------------- MODULE OrdersProofs ----------------------------
(***************************************************************************)
(* Sets listed in an order: in a finite set with a strict total order, each *)
(* rank has one element, so that InOrder lists every element once, and      *)
(* earlier ones first.                                                      *)
(***************************************************************************)
EXTENDS Orders, Sequences, FiniteSetTheorems, SequenceTheorems, WellFoundedInduction, TLAPS

StrictOrder(S, before) ==
    /\ \A a \in S : <<a, a>> \notin before
    /\ \A a, b, c \in S : <<a, b>> \in before /\ <<b, c>> \in before => <<a, c>> \in before
    /\ \A a, b \in S : a # b => <<a, b>> \in before \/ <<b, a>> \in before

\* s lists every element of S once
Lists(s, S) ==
    /\ s \in Seq(S) /\ Len(s) = Cardinality(S) /\ Cardinality(S) \in Nat
    /\ \A a \in S : \E i \in DOMAIN s : s[i] = a
    /\ \A i, j \in DOMAIN s : s[i] = s[j] => i = j

Follows(s, before) == \A i, j \in DOMAIN s : i < j => <<s[i], s[j]>> \in before

\* In a finite set with a strict total order, each rank has one element.
LEMMA InOrderLists ==
    ASSUME NEW S, IsFiniteSet(S), NEW before, StrictOrder(S, before)
    PROVE  Lists(InOrder(S, before), S) /\ Follows(InOrder(S, before), before)
<1> DEFINE Below(a) == {b \in S : <<b, a>> \in before}
           n == Cardinality(S)
           rank == [a \in S |-> Cardinality(Below(a))]
           inOrder == InOrder(S, before)
<1>1. n \in Nat
  BY FS_CardinalityType
<1>2. \A a \in S : IsFiniteSet(Below(a)) /\ rank[a] \in 0..(n - 1)
  <2>1. SUFFICES ASSUME NEW a \in S PROVE IsFiniteSet(Below(a)) /\ Cardinality(Below(a)) \in 0..(n - 1)
    OBVIOUS
  <2>2. IsFiniteSet(S \ {a}) /\ Cardinality(S \ {a}) = n - 1
    BY FS_RemoveElement
  <2>3. Below(a) \in SUBSET (S \ {a})
    BY DEF StrictOrder
  <2> HIDE DEF Below
  <2>4. IsFiniteSet(Below(a)) /\ Cardinality(Below(a)) <= Cardinality(S \ {a})
    BY <2>2, <2>3, FS_Subset
  <2> QED
    BY <2>2, <2>4, <1>1, FS_CardinalityType
<1>3. \A a, b \in S : <<a, b>> \in before => rank[a] < rank[b]
  <2>1. SUFFICES ASSUME NEW a \in S, NEW b \in S, <<a, b>> \in before
                 PROVE  Cardinality(Below(a)) < Cardinality(Below(b))
    OBVIOUS
  <2>2. a \notin Below(a) /\ Below(a) \cup {a} \in SUBSET Below(b)
    BY <2>1 DEF StrictOrder
  <2>5. IsFiniteSet(Below(a)) /\ Cardinality(Below(a)) \in Nat /\ IsFiniteSet(Below(b)) /\ Cardinality(Below(b)) \in Nat
    BY <1>2, FS_CardinalityType
  <2> HIDE DEF Below
  <2>3. Cardinality(Below(a) \cup {a}) = Cardinality(Below(a)) + 1
    BY <2>2, <2>5, FS_AddElement
  <2>4. Cardinality(Below(a) \cup {a}) <= Cardinality(Below(b))
    BY <2>2, <2>5, FS_Subset
  <2> QED
    BY <2>3, <2>4, <2>5
<1>4. rank \in Injection(S, 0..(n - 1))
  <2>1. rank \in [S -> 0..(n - 1)]
    BY <1>2
  <2> HIDE DEF rank
  <2>2. ASSUME NEW a \in S, NEW b \in S, rank[a] = rank[b] PROVE a = b
    <3>1. rank[a] \in Int /\ rank[b] \in Int
      BY <2>1, <1>1
    <3>2. ~(<<a, b>> \in before) /\ ~(<<b, a>> \in before)
      BY <3>1, <2>2, <1>3
    <3> QED
      BY <3>2 DEF StrictOrder
  <2> QED
    BY <2>1, <2>2 DEF Injection, IsInjective
<1>5. \A i \in 1..n : \E a \in S : rank[a] = i - 1
  <2>1. IsFiniteSet(0..(n - 1)) /\ Cardinality(0..(n - 1)) = n
    BY <1>1, FS_Interval
  <2> HIDE DEF rank
  <2>2. rank \in Surjection(S, 0..(n - 1))
    BY <2>1, <1>4, FS_Injection
  <2> QED
    BY <2>2, <1>1 DEF Surjection
<1>6. \A i \in 1..n : inOrder[i] \in S /\ rank[inOrder[i]] = i - 1
  <2> SUFFICES ASSUME NEW i \in 1..n PROVE inOrder[i] \in S /\ rank[inOrder[i]] = i - 1
    OBVIOUS
  <2>1. inOrder[i] = CHOOSE a \in S : Cardinality(Below(a)) = i - 1
    BY DEF InOrder
  <2>2. \E a \in S : Cardinality(Below(a)) = i - 1
    BY <1>5
  <2> HIDE DEF inOrder, Below
  <2>3. inOrder[i] \in S /\ Cardinality(Below(inOrder[i])) = i - 1
    BY <2>1, <2>2, Zenon
  <2> QED
    BY <2>3
<1>7. inOrder \in [1..n -> S] /\ DOMAIN inOrder = 1..n
  BY <1>6 DEF InOrder
<1>11. rank \in [S -> 0..(n - 1)] /\ \A a, b \in S : rank[a] = rank[b] => a = b
  BY <1>4 DEF Injection, IsInjective
<1> HIDE DEF inOrder, rank
<1>8. inOrder \in Seq(S) /\ Len(inOrder) = n
  BY <1>7, <1>1, SeqDef
<1>9. \A a \in S : \E i \in 1..n : inOrder[i] = a
  <2> SUFFICES ASSUME NEW a \in S PROVE \E i \in 1..n : inOrder[i] = a
    OBVIOUS
  <2>1. rank[a] + 1 \in 1..n
    BY <1>1, <1>11
  <2>2. rank[inOrder[rank[a] + 1]] = rank[a] /\ inOrder[rank[a] + 1] \in S
    BY <2>1, <1>6, <1>1, <1>11
  <2>3. inOrder[rank[a] + 1] = a
    BY <2>2, <1>11
  <2> QED
    BY <2>1, <2>3
<1>10. \A i, j \in 1..n : inOrder[i] = inOrder[j] => i = j
  BY <1>6, <1>1
<1>12. Lists(inOrder, S)
  BY <1>1, <1>7, <1>8, <1>9, <1>10 DEF Lists
<1>13. Follows(inOrder, before)
  <2> SUFFICES ASSUME NEW i \in 1..n, NEW j \in 1..n, i < j PROVE <<inOrder[i], inOrder[j]>> \in before
    BY <1>7 DEF Follows
  <2>1. inOrder[i] \in S /\ inOrder[j] \in S /\ rank[inOrder[i]] = i - 1 /\ rank[inOrder[j]] = j - 1
    BY <1>6
  <2>2. ~(rank[inOrder[j]] < rank[inOrder[i]]) /\ inOrder[i] # inOrder[j]
    BY <2>1, <1>1
  <2> QED
    BY <2>1, <2>2, <1>3 DEF StrictOrder
<1> QED
  BY <1>12, <1>13 DEF inOrder

\* A set of natural numbers has a least one.
LEMMA LeastOf ==
    ASSUME NEW S, S \subseteq Nat, S # {}
    PROVE  \E a \in S : \A b \in S : a <= b
<1> DEFINE R == OpToRel(<, Nat)
<1>1. PICK a \in S : \A b \in S : <<b, a>> \notin R
  BY NatLessThanWellFounded, WFMin
<1>2. \A b, c \in Nat : b < c => <<b, c>> \in R
  BY Zenon DEF OpToRel
<1> HIDE DEF R
<1>3. \A b \in S : ~(b < a)
  BY <1>1, <1>2, Zenon
<1> QED
  BY <1>3

\* The elements of a sequence without repetition, in its order.
LEMMA SequenceOrder ==
    ASSUME NEW T, NEW s \in Seq(T), \A i, j \in DOMAIN s : s[i] = s[j] => i = j, NEW S, S \subseteq Range(s)
    PROVE  StrictOrder(S, InSequence(s))
<1>1. DOMAIN s \subseteq Int
  OBVIOUS
<1>2. \A i, j \in DOMAIN s : <<s[i], s[j]>> \in InSequence(s) <=> i < j
  BY <1>1 DEF InSequence
<1>3. \A a \in S : \E i \in DOMAIN s : s[i] = a
  BY DEF Range
<1>4. ASSUME NEW a \in S, NEW b \in S, NEW c \in S, <<a, b>> \in InSequence(s), <<b, c>> \in InSequence(s)
      PROVE  <<a, c>> \in InSequence(s)
  <2>1. PICK i \in DOMAIN s, j \in DOMAIN s, k \in DOMAIN s : s[i] = a /\ s[j] = b /\ s[k] = c
    BY <1>3
  <2>2. (i < j <=> <<a, b>> \in InSequence(s)) /\ (j < k <=> <<b, c>> \in InSequence(s)) /\ (i < k <=> <<a, c>> \in InSequence(s))
    BY <2>1, <1>2, Zenon
  <2> QED
    BY <2>2, <1>1, <1>4
<1>5. \A a, b \in S : a # b => <<a, b>> \in InSequence(s) \/ <<b, a>> \in InSequence(s)
  <2> SUFFICES ASSUME NEW a \in S, NEW b \in S, a # b PROVE <<a, b>> \in InSequence(s) \/ <<b, a>> \in InSequence(s)
    OBVIOUS
  <2>1. PICK i \in DOMAIN s, j \in DOMAIN s : s[i] = a /\ s[j] = b
    BY <1>3
  <2>2. (i < j <=> <<a, b>> \in InSequence(s)) /\ (j < i <=> <<b, a>> \in InSequence(s)) /\ i # j
    BY <2>1, <1>2, Zenon
  <2> QED
    BY <2>2, <1>1
<1>6. \A a \in S : <<a, a>> \notin InSequence(s)
  <2> SUFFICES ASSUME NEW a \in S PROVE <<a, a>> \notin InSequence(s)
    OBVIOUS
  <2>1. PICK i \in DOMAIN s : s[i] = a
    BY <1>3
  <2>2. i < i <=> <<a, a>> \in InSequence(s)
    BY <2>1, <1>2, Zenon
  <2> QED
    BY <2>2, <1>1
<1> QED
  BY <1>4, <1>5, <1>6 DEF StrictOrder

=============================================================================
