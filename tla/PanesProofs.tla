----------------------------- MODULE PanesProofs -----------------------------
(***************************************************************************)
(* `nazg tui`: the shells of panes nobody holds, and where keys go, for any *)
(* number of windows and panes.                                            *)
(*                                                                         *)
(* Shells.  Every step that takes a reference away is a Become, which ends  *)
(* the shells of the panes that lose their last one; the others only move   *)
(* references from one holder to the next (update_loop's copies, the        *)
(* reaper's queue), so that nothing drops out between two of them.          *)
(*                                                                         *)
(* Keys.  The active pane must stay a leaf of the layout through every      *)
(* change of the tree.  The invariant is about trees as sets of paths: no   *)
(* node below a leaf, and no two leaves with one pane.  A split puts two    *)
(* leaves below one; Promoted moves a subtree up a step, where each node    *)
(* still has one it comes from; a restore numbers the leaves from left to   *)
(* right, a strict total order, so that each number has its leaf.           *)
(***************************************************************************)
EXTENDS Panes, OrdersProofs

----------------------------------------------------------------------------
(* Paths and leaves                                                         *)

Paths == Seq({1, 2})

Shape(t) ==
    /\ IsFiniteSet(DOMAIN t) /\ DOMAIN t \subseteq Paths
    /\ \A m \in Leaves(t), n \in DOMAIN t : IsPrefix(m, n) => m = n

LEMMA PrefixIs ==
    ASSUME NEW m \in Paths, NEW n \in Paths
    PROVE  IsPrefix(m, n) <=> Len(m) <= Len(n) /\ \A i \in 1..Len(m) : m[i] = n[i]
BY DEF IsPrefix, Paths

LEMMA LeftOrder ==
    ASSUME NEW t, Shape(t)
    PROVE  StrictOrder(Leaves(t), {pair \in Leaves(t) \X Leaves(t) : LeftOf(pair[1], pair[2])})
<1> DEFINE before == {pair \in Leaves(t) \X Leaves(t) : LeftOf(pair[1], pair[2])}
<1>1. \A a, b \in Leaves(t) : <<a, b>> \in before <=> LeftOf(a, b)
  OBVIOUS
<1>2. Leaves(t) \subseteq Paths
  BY DEF Leaves, Shape
<1>3. \A a \in Leaves(t) : ~LeftOf(a, a)
  BY <1>2 DEF LeftOf, Paths
<1>4. \A a, b, c \in Leaves(t) : LeftOf(a, b) /\ LeftOf(b, c) => LeftOf(a, c)
  <2> SUFFICES ASSUME NEW a \in Paths, NEW b \in Paths, NEW c \in Paths, LeftOf(a, b), LeftOf(b, c)
               PROVE  LeftOf(a, c)
    BY <1>2
  <2>1. PICK i \in DOMAIN a \cap DOMAIN b : a[i] < b[i] /\ \A j \in 1..(i - 1) : a[j] = b[j]
    BY DEF LeftOf
  <2>2. PICK k \in DOMAIN b \cap DOMAIN c : b[k] < c[k] /\ \A j \in 1..(k - 1) : b[j] = c[j]
    BY DEF LeftOf
  <2>3. DOMAIN a = 1..Len(a) /\ DOMAIN b = 1..Len(b) /\ DOMAIN c = 1..Len(c)
    BY DEF Paths
  <2>4. i \in Nat /\ k \in Nat /\ a[i] \in Int /\ b[i] \in Int /\ b[k] \in Int /\ c[k] \in Int
    BY <2>3 DEF Paths
  <2>5. CASE i < k
    <3>1. i \in DOMAIN a \cap DOMAIN c /\ a[i] < c[i] /\ \A j \in 1..(i - 1) : a[j] = c[j]
      BY <2>1, <2>2, <2>3, <2>4, <2>5 DEF Paths
    <3> QED
      BY <3>1 DEF LeftOf
  <2>6. CASE i = k
    <3>1. i \in DOMAIN a \cap DOMAIN c /\ a[i] < c[i] /\ \A j \in 1..(i - 1) : a[j] = c[j]
      BY <2>1, <2>2, <2>3, <2>4, <2>6 DEF Paths
    <3> QED
      BY <3>1 DEF LeftOf
  <2>7. CASE k < i
    <3>1. k \in DOMAIN a \cap DOMAIN c /\ a[k] < c[k] /\ \A j \in 1..(k - 1) : a[j] = c[j]
      BY <2>1, <2>2, <2>3, <2>4, <2>7 DEF Paths
    <3> QED
      BY <3>1 DEF LeftOf
  <2> QED
    BY <2>4, <2>5, <2>6, <2>7
<1>5. \A a, b \in Leaves(t) : a # b => LeftOf(a, b) \/ LeftOf(b, a)
  <2> SUFFICES ASSUME NEW a \in Leaves(t), NEW b \in Leaves(t), a # b PROVE LeftOf(a, b) \/ LeftOf(b, a)
    OBVIOUS
  <2>1. a \in Paths /\ b \in Paths /\ ~IsPrefix(a, b) /\ ~IsPrefix(b, a)
    BY <1>2 DEF Shape, Leaves
  <2>2. DOMAIN a = 1..Len(a) /\ DOMAIN b = 1..Len(b) /\ Len(a) \in Nat /\ Len(b) \in Nat
    BY <2>1 DEF Paths
  <2> DEFINE Differ == {i \in DOMAIN a \cap DOMAIN b : a[i] # b[i]}
  <2>3. Differ # {} /\ Differ \subseteq Nat
    <3>1. CASE Len(a) <= Len(b)
      <4>1. PICK i \in 1..Len(a) : a[i] # b[i]
        BY <3>1, <2>1, PrefixIs
      <4> QED
        BY <4>1, <3>1, <2>2
    <3>2. CASE Len(b) <= Len(a)
      <4>1. PICK i \in 1..Len(b) : b[i] # a[i]
        BY <3>2, <2>1, PrefixIs
      <4> QED
        BY <4>1, <3>2, <2>2
    <3> QED
      BY <3>1, <3>2, <2>2
  <2>4. PICK i \in Differ : \A j \in Differ : i <= j
    BY <2>3, LeastOf
  <2>5. a[i] \in {1, 2} /\ b[i] \in {1, 2} /\ a[i] # b[i] /\ i \in DOMAIN a \cap DOMAIN b
    BY <2>1, <2>4 DEF Paths
  <2>6. \A j \in 1..(i - 1) : a[j] = b[j]
    BY <2>2, <2>4, <2>5
  <2> QED
    BY <2>5, <2>6 DEF LeftOf
<1> HIDE DEF before
<1>6. StrictOrder(Leaves(t), before)
  BY <1>1, <1>3, <1>4, <1>5 DEF StrictOrder
<1> QED
  BY <1>6 DEF before

\* The leaves of a tree, from left to right, are all its leaves.
LEMMA LeavesAreListed ==
    ASSUME NEW t, Shape(t)
    PROVE  Lists(LeavesInOrder(t), Leaves(t)) /\ IsFiniteSet(Leaves(t))
<1>1. IsFiniteSet(Leaves(t))
  BY FS_Subset DEF Shape, Leaves
<1> QED
  BY <1>1, LeftOrder, InOrderLists DEF LeavesInOrder

----------------------------------------------------------------------------
(* Trees                                                                    *)

LeafPanes(t) == {t[n].pane : n \in Leaves(t)}
OnePlaceEach(t) == \A m, n \in Leaves(t) : t[m].pane = t[n].pane => m = n

Sound(t) == Shape(t) /\ OnePlaceEach(t)

LEMMA PrefixesMeet ==
    ASSUME NEW m \in Paths, NEW n \in Paths, NEW k \in Paths, IsPrefix(m, k), IsPrefix(n, k)
    PROVE  IsPrefix(m, n) \/ (IsPrefix(n, m) /\ Len(n) < Len(m))
<1>1. Len(m) \in Nat /\ Len(n) \in Nat /\ Len(k) \in Nat
  BY DEF Paths
<1>2. /\ Len(m) <= Len(k) /\ \A i \in 1..Len(m) : m[i] = k[i]
      /\ Len(n) <= Len(k) /\ \A i \in 1..Len(n) : n[i] = k[i]
  BY PrefixIs
<1>3. CASE Len(m) <= Len(n)
  <2>1. \A i \in 1..Len(m) : m[i] = n[i]
    BY <1>1, <1>2, <1>3
  <2> QED
    BY <2>1, <1>3, PrefixIs
<1>4. CASE Len(n) < Len(m)
  <2>1. \A i \in 1..Len(n) : n[i] = m[i]
    BY <1>1, <1>2, <1>4
  <2> QED
    BY <2>1, <1>1, <1>4, PrefixIs
<1> QED
  BY <1>1, <1>3, <1>4

LEMMA PrefixesChain ==
    ASSUME NEW m \in Paths, NEW n \in Paths, NEW k \in Paths, IsPrefix(m, n), IsPrefix(n, k)
    PROVE  IsPrefix(m, k)
<1>1. Len(m) \in Nat /\ Len(n) \in Nat /\ Len(k) \in Nat
  BY DEF Paths
<1>2. /\ Len(m) <= Len(n) /\ \A i \in 1..Len(m) : m[i] = n[i]
      /\ Len(n) <= Len(k) /\ \A i \in 1..Len(n) : n[i] = k[i]
  BY PrefixIs
<1>3. Len(m) <= Len(k) /\ \A i \in 1..Len(m) : m[i] = k[i]
  BY <1>1, <1>2
<1> QED
  BY <1>3, PrefixIs

\* One step down from n: what has it as a prefix, and what is a prefix of it.
LEMMA ChildOf ==
    ASSUME NEW n \in Paths, NEW s \in {1, 2}
    PROVE  /\ n \o <<s>> \in Paths /\ Len(n \o <<s>>) = Len(n) + 1 /\ (n \o <<s>>)[Len(n) + 1] = s
           /\ \A i \in 1..Len(n) : (n \o <<s>>)[i] = n[i]
           /\ IsPrefix(n, n \o <<s>>) /\ n # n \o <<s>>
           /\ \A m \in Paths : IsPrefix(m, n \o <<s>>) => m = n \o <<s>> \/ IsPrefix(m, n)
<1> DEFINE c == n \o <<s>>
<1>1. <<s>> \in Paths /\ Len(<<s>>) = 1 /\ <<s>>[1] = s /\ Len(n) \in Nat
  BY DEF Paths
<1>2. c \in Paths /\ Len(c) = Len(n) + 1 /\ c[Len(n) + 1] = s /\ \A i \in 1..Len(n) : c[i] = n[i]
  BY <1>1, ConcatProperties DEF Paths
<1> HIDE DEF c
<1>3. IsPrefix(n, c) /\ n # c
  BY <1>1, <1>2, PrefixIs
<1>4. ASSUME NEW m \in Paths, IsPrefix(m, c), m # c PROVE IsPrefix(m, n)
  <2>1. Len(m) <= Len(c) /\ (\A i \in 1..Len(m) : m[i] = c[i]) /\ Len(m) \in Nat
    BY <1>2, <1>4, PrefixIs DEF Paths
  <2>2. Len(m) # Len(c)
    BY <2>1, <1>2, <1>4, SeqEqual DEF Paths
  <2>3. Len(m) <= Len(n) /\ \A i \in 1..Len(m) : m[i] = n[i]
    BY <2>1, <2>2, <1>1, <1>2
  <2> QED
    BY <2>3, PrefixIs
<1> QED
  BY <1>2, <1>3, <1>4 DEF c

Grows(u, t, new) == Sound(u) /\ LeafPanes(u) = LeafPanes(t) \cup {new} /\ (Whole(t) => Whole(u))

\* A split puts the pane and a new one below the place the pane had.
LEMMA SplitGrows ==
    ASSUME NEW t, Sound(t), NEW p \in LeafPanes(t), NEW new, new # NoPane, new \notin LeafPanes(t), NEW dir
    PROVE  Grows(split_pane(t, p, new, dir), t, new)
<1> DEFINE n == find_node(t, p)
           left == n \o <<1>>
           right == n \o <<2>>
           u == split_pane(t, p, new, dir)
<1>1. n \in Leaves(t) /\ t[n].pane = p /\ p # NoPane
  BY DEF LeafPanes, find_node, Leaves
<1>2. n \in Paths /\ n \in DOMAIN t /\ DOMAIN t \subseteq Paths /\ Leaves(t) \subseteq DOMAIN t /\ IsFiniteSet(DOMAIN t)
  BY <1>1 DEF Sound, Shape, Leaves
<1>3. /\ left \in Paths /\ right \in Paths /\ IsPrefix(n, left) /\ IsPrefix(n, right) /\ left # n /\ right # n
      /\ left # right /\ Len(left) = Len(right)
      /\ \A m \in Paths : IsPrefix(m, left) => m = left \/ IsPrefix(m, n)
      /\ \A m \in Paths : IsPrefix(m, right) => m = right \/ IsPrefix(m, n)
  <2> USE <1>2, ChildOf
  <2>1. /\ left \in Paths /\ IsPrefix(n, left) /\ left # n /\ Len(left) = Len(n) + 1 /\ left[Len(n) + 1] = 1
        /\ \A m \in Paths : IsPrefix(m, left) => m = left \/ IsPrefix(m, n)
    OBVIOUS
  <2>2. /\ right \in Paths /\ IsPrefix(n, right) /\ right # n /\ Len(right) = Len(n) + 1 /\ right[Len(n) + 1] = 2
        /\ \A m \in Paths : IsPrefix(m, right) => m = right \/ IsPrefix(m, n)
    OBVIOUS
  <2> QED
    BY <2>1, <2>2
<1>4. /\ DOMAIN u = DOMAIN t \cup {left, right}
      /\ u[n].pane = NoPane /\ u[left].pane = p /\ u[right].pane = new
      /\ \A m \in DOMAIN t \ {n, left, right} : u[m] = t[m]
  BY <1>2, <1>3 DEF split_pane, Leaf
<1> HIDE DEF n, left, right, u
<1>5. left \notin DOMAIN t /\ right \notin DOMAIN t
  BY <1>1, <1>3 DEF Sound, Shape
<1>6. Leaves(u) = (Leaves(t) \ {n}) \cup {left, right}
  BY <1>1, <1>2, <1>3, <1>4, <1>5 DEF Leaves
<1>7. \A m \in Leaves(t) \ {n} : u[m] = t[m]
  BY <1>2, <1>4, <1>5
<1>8. IsFiniteSet(DOMAIN u) /\ DOMAIN u \subseteq Paths
  <2>1. IsFiniteSet(DOMAIN t \cup {left})
    BY <1>2, FS_AddElement
  <2>2. IsFiniteSet((DOMAIN t \cup {left}) \cup {right})
    BY <2>1, FS_AddElement
  <2> QED
    BY <2>2, <1>2, <1>3, <1>4
<1>9. ASSUME NEW m \in Leaves(u), NEW k \in DOMAIN u, IsPrefix(m, k) PROVE m = k
  <2>1. CASE m \in Leaves(t) \ {n}
    <3>1. \A j \in DOMAIN t : IsPrefix(m, j) => m = j
      BY <2>1 DEF Sound, Shape
    <3>2. m \in Paths /\ m \in DOMAIN t
      BY <2>1, <1>2
    <3>3. k \in DOMAIN t
      BY <3>1, <3>2, <1>2, <1>3, <1>4, <1>5, <1>9, <2>1
    <3> QED
      BY <3>1, <3>3, <1>9
  <2>2. ASSUME NEW c \in {left, right}, m = c PROVE m = k
    <3>1. k \notin DOMAIN t
      <4>1. ASSUME k \in DOMAIN t PROVE FALSE
        <5>1. IsPrefix(n, k)
          BY <4>1, <2>2, <1>2, <1>3, <1>9, PrefixesChain
        <5>2. n = k
          BY <5>1, <4>1, <1>1 DEF Sound, Shape
        <5>3. Len(c) <= Len(n) /\ Len(n) <= Len(c) /\ \A i \in 1..Len(n) : n[i] = c[i]
          BY <5>2, <2>2, <1>2, <1>3, <1>9, PrefixIs
        <5>4. c = n
          BY <5>3, <1>2, <1>3, SeqEqual DEF Paths
        <5> QED
          BY <5>4, <1>3
      <4> QED
        BY <4>1
    <3>2. k \in {left, right}
      BY <3>1, <1>4
    <3>3. Len(c) = Len(k) /\ \A i \in 1..Len(c) : c[i] = k[i]
      BY <3>2, <2>2, <1>3, <1>9, PrefixIs
    <3> QED
      BY <3>2, <3>3, <2>2, <1>3, SeqEqual DEF Paths
  <2> QED
    BY <2>1, <2>2, <1>6
<1>10. Shape(u)
  BY <1>8, <1>9 DEF Shape
<1>11. OnePlaceEach(u)
  BY <1>1, <1>3, <1>4, <1>6, <1>7 DEF Sound, OnePlaceEach, LeafPanes
<1>12. LeafPanes(u) = LeafPanes(t) \cup {new}
  BY <1>1, <1>3, <1>4, <1>6, <1>7 DEF Sound, OnePlaceEach, LeafPanes
<1>13. left = n \o <<1>> /\ right = n \o <<2>>
  BY DEF left, right
<1>14. Whole(t) => Whole(u)
  <2> SUFFICES ASSUME Whole(t), NEW m \in DOMAIN u \ Leaves(u) PROVE {m \o <<1>>, m \o <<2>>} \subseteq DOMAIN u
    BY DEF Whole
  <2>1. m = n \/ m \in DOMAIN t \ Leaves(t)
    BY <1>4, <1>6
  <2>2. CASE m = n
    BY <2>2, <1>4, <1>13
  <2>3. CASE m \in DOMAIN t \ Leaves(t)
    BY <2>3, <1>4 DEF Whole
  <2> QED
    BY <2>1, <2>2, <2>3
<1> QED
  BY <1>10, <1>11, <1>12, <1>14 DEF Grows, Sound, u

\* Below every node there is one without children.
LEMMA EndBelow ==
    ASSUME NEW t, Shape(t), NEW n \in DOMAIN t
    PROVE  \E m \in DOMAIN t : IsPrefix(n, m) /\ \A s \in {1, 2} : m \o <<s>> \notin DOMAIN t
<1> DEFINE Under(m) == {k \in DOMAIN t : IsPrefix(m, k)}
           below == Under(n)
           sizes == {Cardinality(Under(m)) : m \in below}
<1>1. IsFiniteSet(DOMAIN t) /\ DOMAIN t \subseteq Paths
  BY DEF Shape
<1>2. \A m : IsFiniteSet(Under(m)) /\ Cardinality(Under(m)) \in Nat
  BY <1>1, FS_Subset, FS_CardinalityType
<1>3. \A m \in Paths : IsPrefix(m, m)
  BY PrefixIs DEF Paths
<1>4. n \in below
  BY <1>1, <1>3
<1>5. sizes # {} /\ sizes \subseteq Nat
  BY <1>2, <1>4
<1>6. PICK least \in sizes : \A other \in sizes : least <= other
  BY <1>5, LeastOf
<1>7. PICK m \in below : least = Cardinality(Under(m))
  BY <1>6
<1>8. m \in DOMAIN t /\ IsPrefix(n, m) /\ m \in Paths /\ n \in Paths
  BY <1>1
<1>9. ASSUME NEW s \in {1, 2}, m \o <<s>> \in DOMAIN t PROVE FALSE
  <2> DEFINE c == m \o <<s>>
  <2>1. c \in Paths /\ c \in DOMAIN t /\ IsPrefix(m, c) /\ c # m /\ Len(c) = Len(m) + 1 /\ Len(m) \in Nat
    <3>1. c \in Paths /\ IsPrefix(m, c) /\ c # m /\ Len(c) = Len(m) + 1
      BY <1>8, ChildOf
    <3> QED
      BY <3>1, <1>8, <1>9 DEF Paths
  <2> HIDE DEF c
  <2>2. c \in below
    BY <2>1, <1>8, PrefixesChain
  <2>3. Under(c) \subseteq Under(m)
    BY <2>1, <1>1, <1>8, PrefixesChain
  <2>4. m \in Under(m) /\ m \notin Under(c)
    <3>1. ~IsPrefix(c, m)
      BY <2>1, <1>8, PrefixIs
    <3> QED
      BY <3>1, <1>3, <1>8
  <2>5. Cardinality(Under(c)) < Cardinality(Under(m))
    <3> HIDE DEF Under
    <3>1. Under(c) # Under(m)
      BY <2>4
    <3>2. Cardinality(Under(c)) <= Cardinality(Under(m)) /\ (Cardinality(Under(c)) = Cardinality(Under(m)) => Under(c) = Under(m))
      BY <2>3, <1>2, FS_Subset
    <3> QED
      BY <3>1, <3>2, <1>2
  <2>6. least <= Cardinality(Under(c))
    BY <2>2, <1>6
  <2> HIDE DEF Under
  <2> QED
    BY <2>5, <2>6, <1>2, <1>7
<1> QED
  BY <1>8, <1>9

Up(parent, k) == parent \o SubSeq(k, Len(parent) + 2, Len(k))
Down(parent, side, m) == parent \o <<side>> \o SubSeq(m, Len(parent) + 1, Len(m))

\* A node below the sibling, moved up one step, is below the parent, and is found again from there.
LEMMA UpAndDown ==
    ASSUME NEW parent \in Paths, NEW side \in {1, 2}, NEW k \in Paths, IsPrefix(parent \o <<side>>, k)
    PROVE  /\ Up(parent, k) \in Paths /\ IsPrefix(parent, Up(parent, k))
           /\ Down(parent, side, Up(parent, k)) = k
           /\ Len(Up(parent, k)) = Len(k) - 1 /\ Len(k) > Len(parent) /\ k[Len(parent) + 1] = side
           /\ \A i \in 1..(Len(k) - 1) : Up(parent, k)[i] = IF i <= Len(parent) THEN k[i] ELSE k[i + 1]
<1> DEFINE pl == Len(parent)
           sibling == parent \o <<side>>
           rest == SubSeq(k, pl + 2, Len(k))
           m == Up(parent, k)
           rest2 == SubSeq(m, pl + 1, Len(m))
           d == sibling \o rest2
<1>1. pl \in Nat /\ Len(k) \in Nat /\ \A i \in 1..Len(k) : k[i] \in {1, 2}
  BY DEF Paths
<1>2. sibling \in Paths /\ Len(sibling) = pl + 1 /\ sibling[pl + 1] = side /\ \A i \in 1..pl : sibling[i] = parent[i]
  BY ChildOf
<1> HIDE DEF sibling
<1>3. pl + 1 <= Len(k) /\ \A i \in 1..(pl + 1) : sibling[i] = k[i]
  <2>1. Len(sibling) <= Len(k) /\ \A i \in 1..Len(sibling) : sibling[i] = k[i]
    BY <1>2, PrefixIs DEF sibling
  <2> QED
    BY <2>1, <1>2
<1>4. rest \in Paths /\ Len(rest) = Len(k) - pl - 1 /\ \A i \in 1..(Len(k) - pl - 1) : rest[i] = k[pl + 1 + i]
  BY <1>1, <1>3, SubSeqProperties DEF Paths
<1> HIDE DEF rest
<1>5. m = parent \o rest
  BY DEF Up, rest
<1>6. /\ m \in Paths /\ Len(m) = Len(k) - 1 /\ \A i \in 1..pl : m[i] = parent[i]
      /\ \A i \in (pl + 1)..(Len(k) - 1) : m[i] = rest[i - pl]
  BY <1>1, <1>3, <1>4, <1>5, ConcatProperties DEF Paths
<1> HIDE DEF m
<1>7. \A i \in 1..(Len(k) - 1) : m[i] = IF i <= pl THEN k[i] ELSE k[i + 1]
  <2> SUFFICES ASSUME NEW i \in 1..(Len(k) - 1) PROVE m[i] = IF i <= pl THEN k[i] ELSE k[i + 1]
    OBVIOUS
  <2>1. CASE i <= pl
    BY <2>1, <1>1, <1>2, <1>3, <1>6
  <2>2. CASE i > pl
    <3>1. m[i] = rest[i - pl] /\ i - pl \in 1..(Len(k) - pl - 1)
      BY <2>2, <1>1, <1>6
    <3>2. rest[i - pl] = k[pl + 1 + (i - pl)] /\ pl + 1 + (i - pl) = i + 1
      BY <3>1, <1>1, <1>4
    <3> QED
      BY <3>1, <3>2, <2>2, <1>1
  <2> QED
    BY <2>1, <2>2, <1>1
<1>8. IsPrefix(parent, m)
  BY <1>1, <1>3, <1>6, PrefixIs
<1>9. rest2 \in Paths /\ Len(rest2) = Len(k) - 1 - pl /\ \A i \in 1..(Len(k) - 1 - pl) : rest2[i] = m[pl + i]
  <2>1. \A i \in (pl + 1)..Len(m) : m[i] \in {1, 2}
    BY <1>6 DEF Paths
  <2> QED
    BY <2>1, <1>1, <1>3, <1>6, SubSeqProperties DEF Paths
<1> HIDE DEF rest2
<1>10. /\ d \in Paths /\ Len(d) = Len(k) /\ \A i \in 1..(pl + 1) : d[i] = sibling[i]
       /\ \A i \in (pl + 2)..Len(k) : d[i] = rest2[i - pl - 1]
  BY <1>1, <1>2, <1>3, <1>9, ConcatProperties DEF Paths
<1> HIDE DEF d
<1>11. ASSUME NEW i \in 1..Len(k) PROVE d[i] = k[i]
  <2>1. CASE i <= pl + 1
    BY <2>1, <1>1, <1>3, <1>10
  <2>2. CASE i > pl + 1
    <3>1. d[i] = rest2[i - pl - 1] /\ i - pl - 1 \in 1..(Len(k) - 1 - pl)
      BY <2>2, <1>1, <1>10
    <3>2. rest2[i - pl - 1] = m[pl + (i - pl - 1)] /\ pl + (i - pl - 1) = i - 1
      BY <3>1, <1>1, <1>9
    <3>3. m[i - 1] = k[(i - 1) + 1] /\ (i - 1) + 1 = i
      BY <2>2, <1>1, <1>7
    <3> QED
      BY <3>1, <3>2, <3>3
  <2> QED
    BY <2>1, <2>2, <1>1
<1>12. d = k
  BY <1>10, <1>11, SeqEqual DEF Paths
<1>13. Down(parent, side, Up(parent, k)) = d
  BY DEF Down, d, sibling, rest2, m
<1>14. k[pl + 1] = side /\ Len(k) > pl
  BY <1>1, <1>2, <1>3
<1> QED
  BY <1>6, <1>7, <1>8, <1>12, <1>13, <1>14 DEF m

\* u shows panes of t only, and no longer `gone`; with all the others it has every child t had
Shrinks(u, t, gone) ==
    /\ Sound(u) /\ LeafPanes(u) \subseteq LeafPanes(t) \ {gone}
    /\ Whole(t) /\ LeafPanes(t) \ {gone} \subseteq LeafPanes(u) => Whole(u)

\* Moving the sibling of a leaf up removes the leaf's pane, and adds none.
LEMMA PromotedShrinks ==
    ASSUME NEW t, Sound(t), NEW parent \in Paths, NEW side \in {1, 2}, NEW lost, lost \subseteq {1, 2}, lost # {},
           parent \o <<3 - side>> \in Leaves(t), parent \o <<side>> \in DOMAIN t
    PROVE  Shrinks(Promoted(t, parent, side, lost), t, t[parent \o <<3 - side>>].pane)
<1> DEFINE n == parent \o <<3 - side>>
           sibling == parent \o <<side>>
           u == Promoted(t, parent, side, lost)
           kept == {m \in DOMAIN t : ~IsPrefix(parent, m)}
           below == {k \in DOMAIN t : IsPrefix(sibling, k) /\ \A s \in lost : ~IsPrefix(sibling \o <<s>>, k)}
           moved == {Up(parent, k) : k \in below}
           Source(m) == IF m \in kept THEN m ELSE Down(parent, side, m)
<1>1. DOMAIN t \subseteq Paths /\ Leaves(t) \subseteq DOMAIN t /\ IsFiniteSet(DOMAIN t) /\ below \subseteq DOMAIN t
  BY DEF Sound, Shape, Leaves
<1>2. sibling \in Paths /\ Len(sibling) = Len(parent) + 1 /\ Len(parent) \in Nat
  BY ChildOf DEF Paths
<1>3. /\ IsPrefix(parent, n) /\ n \in Paths /\ n \in Leaves(t) /\ ~IsPrefix(sibling, n)
  <2>1. 3 - side \in {1, 2} /\ 3 - side # side
    OBVIOUS
  <2>2. n \in Paths /\ IsPrefix(parent, n) /\ Len(n) = Len(parent) + 1 /\ n[Len(parent) + 1] = 3 - side
    BY <2>1, ChildOf
  <2>3. sibling[Len(parent) + 1] = side
    BY ChildOf
  <2>4. ~IsPrefix(sibling, n)
    <3> HIDE DEF n, sibling
    <3>1. Len(parent) + 1 \in 1..Len(sibling)
      BY <1>2
    <3> QED
      BY <3>1, <2>1, <2>2, <2>3, <1>2, PrefixIs
  <2> QED
    BY <2>2, <2>4
<1>4. DOMAIN u = kept \cup moved /\ \A m \in kept \cup moved : u[m] = t[Source(m)]
  <2>1. {parent \o SubSeq(m, Len(sibling) + 1, Len(m)) : m \in below} = moved
    BY <1>2 DEF Up
  <2> HIDE DEF below, kept
  <2> QED
    BY <2>1 DEF Promoted, Down, below, kept
<1> HIDE DEF u, n, sibling
<1>5. \A m \in moved : /\ Source(m) \in below /\ m = Up(parent, Source(m)) /\ m \notin kept
                       /\ m \in Paths /\ IsPrefix(parent, m)
  <2> SUFFICES ASSUME NEW k \in below
               PROVE  /\ Up(parent, k) \notin kept /\ Down(parent, side, Up(parent, k)) = k
                      /\ Up(parent, k) \in Paths /\ IsPrefix(parent, Up(parent, k))
    OBVIOUS
  <2> QED
    BY <1>1, UpAndDown DEF sibling
<1>6. \A m \in kept : Source(m) = m /\ m \in DOMAIN t /\ m \in Paths /\ ~IsPrefix(parent, m)
  BY <1>1
<1>7. \A k \in below : k \in DOMAIN t /\ k \in Paths /\ IsPrefix(sibling, k)
  BY <1>1
<1> HIDE DEF kept, moved, below, Source
<1>8. \A m \in DOMAIN u : Source(m) \in DOMAIN t /\ Source(m) # n /\ m \in Paths /\ Source(m) \in Paths
  BY <1>1, <1>3, <1>4, <1>5, <1>6, <1>7
<1>9. \A m \in below : ~(m \in kept) /\ IsPrefix(parent, m)
  <2> SUFFICES ASSUME NEW m \in below PROVE IsPrefix(parent, m)
    BY <1>6
  <2>1. IsPrefix(parent, sibling)
    BY ChildOf DEF sibling
  <2> QED
    BY <2>1, <1>2, <1>7, PrefixesChain
<1>10. \A m, k \in DOMAIN u : Source(m) = Source(k) => m = k
  BY <1>4, <1>5, <1>6, <1>9
<1>11. \A m \in Leaves(u) : m \in DOMAIN u /\ Source(m) \in Leaves(t) /\ u[m] = t[Source(m)]
  BY <1>4, <1>8 DEF Leaves
<1>12. IsFiniteSet(DOMAIN u) /\ DOMAIN u \subseteq Paths
  <2> DEFINE f == [m \in DOMAIN u |-> Source(m)]
  <2>1. f \in [DOMAIN u -> DOMAIN t]
    BY <1>8
  <2>2. f \in Injection(DOMAIN u, DOMAIN t)
    BY <2>1, <1>10 DEF Injection, IsInjective
  <2> QED
    BY <2>2, <1>1, <1>8, FS_Injection
<1>13. ASSUME NEW m \in Leaves(u), NEW k \in DOMAIN u, IsPrefix(m, k) PROVE m = k
  <2>1. m \in Paths /\ k \in Paths /\ m \in DOMAIN u /\ Source(m) \in Leaves(t) /\ Source(k) \in DOMAIN t
        /\ Source(k) \in Paths
    BY <1>8, <1>11
  <2>2. IsPrefix(Source(m), Source(k)) => m = k
    BY <2>1, <1>10 DEF Sound, Shape
  <2>3. CASE m \in kept /\ k \in kept
    BY <2>2, <2>3, <1>6, <1>13
  <2>4. CASE m \in moved /\ k \in moved
    <3> DEFINE a == Source(m)
               b == Source(k)
    <3>1. a \in below /\ b \in below /\ m = Up(parent, a) /\ k = Up(parent, b) /\ a \in Paths /\ b \in Paths
          /\ IsPrefix(sibling, a) /\ IsPrefix(sibling, b)
      BY <2>4, <1>5, <1>7
    <3> HIDE DEF a, b
    <3>2. /\ Len(m) = Len(a) - 1 /\ Len(a) > Len(parent) /\ a[Len(parent) + 1] = side
          /\ \A i \in 1..(Len(a) - 1) : m[i] = IF i <= Len(parent) THEN a[i] ELSE a[i + 1]
      <4>1. IsPrefix(parent \o <<side>>, a)
        BY <3>1 DEF sibling
      <4> QED
        BY <4>1, <3>1, UpAndDown
    <3>3. /\ Len(k) = Len(b) - 1 /\ Len(b) > Len(parent) /\ b[Len(parent) + 1] = side
          /\ \A i \in 1..(Len(b) - 1) : k[i] = IF i <= Len(parent) THEN b[i] ELSE b[i + 1]
      <4>1. IsPrefix(parent \o <<side>>, b)
        BY <3>1 DEF sibling
      <4> QED
        BY <4>1, <3>1, UpAndDown
    <3>4. Len(m) <= Len(k) /\ \A i \in 1..Len(m) : m[i] = k[i]
      BY <2>1, <1>13, PrefixIs
    <3>5. Len(a) \in Nat /\ Len(b) \in Nat
      BY <3>1 DEF Paths
    <3>6. ASSUME NEW i \in 1..Len(a) PROVE a[i] = b[i]
      <4>1. CASE i <= Len(parent)
        <5>1. i \in 1..Len(m) /\ i \in 1..(Len(a) - 1) /\ i \in 1..(Len(b) - 1)
          BY <4>1, <3>2, <3>3, <3>4, <3>5, <1>2
        <5>2. m[i] = a[i] /\ k[i] = b[i]
          BY <5>1, <4>1, <3>2, <3>3
        <5> QED
          BY <5>1, <5>2, <3>4
      <4>2. CASE i = Len(parent) + 1
        BY <4>2, <3>2, <3>3
      <4>3. CASE i > Len(parent) + 1
        <5>1. i - 1 \in 1..Len(m) /\ i - 1 \in 1..(Len(a) - 1) /\ i - 1 \in 1..(Len(b) - 1) /\ ~(i - 1 <= Len(parent))
              /\ (i - 1) + 1 = i
          BY <4>3, <3>2, <3>3, <3>4, <3>5, <1>2
        <5>2. m[i - 1] = a[i] /\ k[i - 1] = b[i]
          BY <5>1, <3>2, <3>3
        <5> QED
          BY <5>1, <5>2, <3>4
      <4> QED
        BY <4>1, <4>2, <4>3, <3>5, <1>2
    <3>7. Len(a) <= Len(b)
      BY <3>2, <3>3, <3>4, <3>5
    <3>8. IsPrefix(a, b)
      BY <3>1, <3>6, <3>7, PrefixIs
    <3> QED
      BY <3>8, <2>2 DEF a, b
  <2>5. CASE m \in kept /\ k \in moved
    <3>1. IsPrefix(parent, k) /\ ~IsPrefix(parent, m) /\ Source(m) = m
      BY <2>5, <1>5, <1>6
    <3>2. IsPrefix(m, parent)
      BY <3>1, <2>1, <1>13, PrefixesMeet
    <3>3. Source(k) \in below /\ Source(k) \in Paths
      BY <2>5, <1>5, <1>7
    <3>4. IsPrefix(m, Source(k))
      BY <3>2, <3>3, <2>1, <1>9, PrefixesChain
    <3> QED
      BY <3>1, <3>4, <2>2
  <2>6. CASE m \in moved /\ k \in kept
    <3>1. IsPrefix(parent, m) /\ ~IsPrefix(parent, k)
      BY <2>6, <1>5, <1>6
    <3> QED
      BY <3>1, <2>1, <1>13, PrefixesChain
  <2> QED
    BY <2>1, <2>3, <2>4, <2>5, <2>6, <1>4
<1>14. Shape(u)
  BY <1>12, <1>13 DEF Shape
<1>15. OnePlaceEach(u)
  BY <1>10, <1>11 DEF Sound, OnePlaceEach
<1>16. LeafPanes(u) \subseteq LeafPanes(t) \ {t[n].pane}
  <2> SUFFICES ASSUME NEW m \in Leaves(u) PROVE u[m].pane \in LeafPanes(t) /\ u[m].pane # t[n].pane
    BY DEF LeafPanes
  <2>1. u[m].pane = t[Source(m)].pane /\ Source(m) \in Leaves(t) /\ Source(m) # n
    BY <1>8, <1>11
  <2> QED
    BY <2>1, <1>3 DEF Sound, OnePlaceEach, LeafPanes
<1>17. ASSUME Whole(t), LeafPanes(t) \ {t[n].pane} \subseteq LeafPanes(u) PROVE sibling \in Leaves(t)
  <2>1. PICK s \in {1, 2} : s \in lost
    OBVIOUS
  <2> DEFINE c == sibling \o <<s>>
  <2> SUFFICES ASSUME sibling \notin Leaves(t) PROVE FALSE
    OBVIOUS
  <2>2. c \in DOMAIN t /\ c \in Paths /\ IsPrefix(sibling, c)
    <3>1. {sibling \o <<1>>, sibling \o <<2>>} \subseteq DOMAIN t
      BY <1>17 DEF Whole, sibling
    <3> QED
      BY <3>1, <1>1, <1>2, ChildOf
  <2> HIDE DEF c
  <2>3. PICK m \in DOMAIN t : IsPrefix(c, m) /\ \A side2 \in {1, 2} : m \o <<side2>> \notin DOMAIN t
    BY <2>2, EndBelow DEF Sound
  <2>4. m \in Leaves(t) /\ m \in Paths
    BY <2>3, <1>1, <1>17 DEF Whole
  <2>5. IsPrefix(sibling, m) /\ IsPrefix(parent, m) /\ m # n
    <3>1. IsPrefix(sibling, m)
      BY <2>2, <2>3, <2>4, <1>2, PrefixesChain
    <3>2. IsPrefix(parent, sibling)
      BY ChildOf DEF sibling
    <3> QED
      BY <3>1, <3>2, <2>4, <1>2, <1>3, PrefixesChain
  <2>6. t[m].pane \in LeafPanes(u)
    BY <2>4, <2>5, <1>3, <1>17 DEF Sound, OnePlaceEach, LeafPanes
  <2>7. PICK k \in Leaves(u) : u[k].pane = t[m].pane
    BY <2>6 DEF LeafPanes
  <2>8. Source(k) = m /\ k \in DOMAIN u
    BY <2>4, <2>7, <1>11 DEF Sound, OnePlaceEach
  <2>9. k \in moved /\ m \in below
    BY <2>5, <2>8, <1>4, <1>5, <1>6
  <2>10. ~IsPrefix(c, m)
    BY <2>1, <2>9 DEF below, c, sibling
  <2> QED
    BY <2>3, <2>10
<1>18. ASSUME Whole(t), sibling \in Leaves(t) PROVE Whole(u)
  <2>1. \A k \in below : k = sibling
    BY <1>7, <1>18 DEF Sound, Shape
  <2>2. Up(parent, sibling) = parent
    <3>1. /\ Up(parent, sibling) \in Paths /\ Len(Up(parent, sibling)) = Len(parent)
          /\ IsPrefix(parent, Up(parent, sibling))
      <4>1. IsPrefix(sibling, sibling)
        BY <1>2, PrefixIs
      <4>2. IsPrefix(parent \o <<side>>, sibling)
        BY <4>1 DEF sibling
      <4>3. /\ Up(parent, sibling) \in Paths /\ Len(Up(parent, sibling)) = Len(sibling) - 1
            /\ IsPrefix(parent, Up(parent, sibling))
        BY <4>2, <1>2, UpAndDown
      <4> QED
        BY <4>3, <1>2
    <3> DEFINE m == Up(parent, sibling)
    <3> HIDE DEF m
    <3>2. m \in Paths /\ Len(m) = Len(parent) /\ \A i \in 1..Len(parent) : parent[i] = m[i]
      BY <3>1, PrefixIs DEF m
    <3>3. m = parent
      BY <3>2, SeqEqual DEF Paths
    <3> QED
      BY <3>3 DEF m
  <2>3. \A m \in moved : m = parent
    BY <2>1, <2>2, <1>5
  <2>4. sibling \in below
    <3>1. IsPrefix(sibling, sibling)
      BY <1>2, PrefixIs
    <3>2. \A s \in lost : ~IsPrefix(sibling \o <<s>>, sibling)
      <4> SUFFICES ASSUME NEW s \in {1, 2}, IsPrefix(sibling \o <<s>>, sibling) PROVE FALSE
        OBVIOUS
      <4> DEFINE c == sibling \o <<s>>
      <4>1. c \in Paths /\ Len(c) = Len(sibling) + 1
        BY <1>2, ChildOf
      <4> HIDE DEF c
      <4>2. ~IsPrefix(c, sibling)
        BY <4>1, <1>2, PrefixIs
      <4> QED
        BY <4>2 DEF c
    <3> QED
      BY <3>1, <3>2, <1>1, <1>18 DEF below, sibling, Leaves
  <2>5. parent \in DOMAIN u
    BY <2>2, <2>4, <1>4 DEF moved
  <2>6. parent \in Leaves(u)
    <3>1. parent \in moved
      BY <2>2, <2>4 DEF moved
    <3>2. u[parent] = t[Source(parent)] /\ Source(parent) = sibling
      BY <3>1, <2>1, <1>4, <1>5
    <3> QED
      BY <3>2, <2>5, <1>18 DEF Leaves
  <2> SUFFICES ASSUME NEW m \in DOMAIN u \ Leaves(u) PROVE {m \o <<1>>, m \o <<2>>} \subseteq DOMAIN u
    BY DEF Whole
  <2>7. m \in kept /\ m \in DOMAIN t /\ m \in Paths /\ ~IsPrefix(parent, m) /\ u[m] = t[m]
    BY <2>3, <2>6, <1>4, <1>6
  <2>8. m \notin Leaves(t)
    BY <2>7 DEF Leaves
  <2>9. ASSUME NEW s \in {1, 2} PROVE m \o <<s>> \in DOMAIN u
    <3>1. m \o <<s>> \in DOMAIN t
      BY <2>7, <2>8, <1>18 DEF Whole
    <3>2. CASE IsPrefix(parent, m \o <<s>>)
      <4>1. parent = m \o <<s>>
        BY <3>2, <2>7, ChildOf
      <4> QED
        BY <4>1, <2>5
    <3>3. CASE ~IsPrefix(parent, m \o <<s>>)
      BY <3>1, <3>3, <1>4 DEF kept
    <3> QED
      BY <3>2, <3>3
  <2> QED
    BY <2>9
<1> QED
  BY <1>14, <1>15, <1>16, <1>17, <1>18 DEF Shrinks, Sound, u, n

LEMMA FrontAndLast ==
    ASSUME NEW n \in Paths, n # << >>
    PROVE  Front(n) \in Paths /\ Last(n) \in {1, 2} /\ Front(n) \o <<Last(n)>> = n
<1>1. Len(n) \in Nat \ {0} /\ Len(n) \in 1..Len(n)
  BY EmptySeq DEF Paths
<1>2. SubSeq(n, 1, Len(n)) = SubSeq(n, 1, Len(n) - 1) \o <<n[Len(n)]>>
  BY <1>1, SubSeqRecursiveSecond DEF Paths
<1>3. SubSeq(n, 1, Len(n)) = n
  BY SubSeqFull DEF Paths
<1>4. SubSeq(n, 1, Len(n) - 1) \in Paths
  BY <1>1 DEF Paths
<1>5. n[Len(n)] \in {1, 2}
  BY <1>1 DEF Paths
<1> QED
  BY <1>2, <1>3, <1>4, <1>5 DEF Front, Last

\* A tree that remove_pane leaves has lost the pane and gained none.
LEMMA RemoveShrinks ==
    ASSUME NEW t, Sound(t), NEW p \in LeafPanes(t), NEW u \in remove_pane(t, p), u # Wreck
    PROVE  Shrinks(u, t, p)
<1> DEFINE n == find_node(t, p)
           parent == Front(n)
           side == 3 - Last(n)
<1>1. n \in Leaves(t) /\ t[n].pane = p
  BY DEF LeafPanes, find_node
<1>2. n \in Paths
  BY <1>1 DEF Sound, Shape, Leaves
<1>3. /\ n # << >> /\ parent \o <<side>> \in DOMAIN t
      /\ u = Promoted(t, parent, side, {side}) \/ u = Promoted(t, parent, side, {1, 2})
  <2> HIDE DEF n
  <2> QED
    BY DEF remove_pane, n
<1> HIDE DEF n
<1>4. parent \in Paths /\ Last(n) \in {1, 2} /\ parent \o <<Last(n)>> = n
  BY <1>2, <1>3, FrontAndLast
<1>5. side \in {1, 2} /\ 3 - side = Last(n)
  BY <1>4
<1> HIDE DEF parent, side
<1>6. parent \o <<3 - side>> \in Leaves(t) /\ t[parent \o <<3 - side>>].pane = p
  BY <1>1, <1>4, <1>5
<1>7. ASSUME NEW lost, lost \subseteq {1, 2}, lost # {} PROVE Shrinks(Promoted(t, parent, side, lost), t, p)
  BY <1>3, <1>4, <1>5, <1>6, <1>7, PromotedShrinks
<1>8. {side} \subseteq {1, 2} /\ {side} # {} /\ {1, 2} # {}
  BY <1>5
<1> QED
  BY <1>3, <1>7, <1>8

\* Numbering: a function that gives each place in the order a value of its own.
Numbers(new, n) ==
    /\ DOMAIN new = 1..n /\ \A i \in 1..n : new[i] # NoPane
    /\ \A i, j \in 1..n : new[i] = new[j] => i = j

Fills(u, t, new) ==
    /\ Sound(u) /\ Leaves(u) = Leaves(t) /\ DOMAIN u = DOMAIN t
    /\ LeafPanes(u) = {new[i] : i \in 1..Cardinality(Leaves(t))}

\* A snapshot's shape, with its leaves filled anew, shows what it was filled with.
LEMMA RestoreFills ==
    ASSUME NEW t, Shape(t), NEW new, Numbers(new, Cardinality(Leaves(t)))
    PROVE  Fills(restore_from_snapshot(t, new), t, new)
<1> DEFINE inOrder == LeavesInOrder(t)
           c == Cardinality(Leaves(t))
           Nth(n) == CHOOSE i \in DOMAIN inOrder : inOrder[i] = n
           u == restore_from_snapshot(t, new)
<1>1. Lists(inOrder, Leaves(t))
  BY LeavesAreListed
<1>2. u = [n \in DOMAIN t |-> IF n \in Leaves(t) THEN Leaf(new[Nth(n)]) ELSE t[n]]
  BY DEF restore_from_snapshot
<1> HIDE DEF inOrder, u
<1>3. c \in Nat /\ inOrder \in [1..c -> Leaves(t)] /\ DOMAIN inOrder = 1..c
  BY <1>1 DEF Lists
<1>4. \A n \in Leaves(t) : Nth(n) \in 1..c /\ inOrder[Nth(n)] = n
  BY <1>1, <1>3 DEF Lists
<1>5. \A i \in 1..c : inOrder[i] \in Leaves(t) /\ Nth(inOrder[i]) = i
  <2> SUFFICES ASSUME NEW i \in 1..c PROVE inOrder[i] \in Leaves(t) /\ Nth(inOrder[i]) = i
    OBVIOUS
  <2>1. inOrder[i] \in Leaves(t)
    BY <1>3
  <2>2. Nth(inOrder[i]) \in 1..c /\ inOrder[Nth(inOrder[i])] = inOrder[i]
    BY <2>1, <1>4
  <2> HIDE DEF Nth
  <2>3. Nth(inOrder[i]) = i
    BY <2>2, <1>1, <1>3 DEF Lists
  <2> QED
    BY <2>1, <2>3
<1> HIDE DEF Nth
<1>6. /\ DOMAIN u = DOMAIN t /\ Leaves(t) \subseteq DOMAIN t
      /\ \A n \in Leaves(t) : u[n].pane = new[Nth(n)]
      /\ \A n \in DOMAIN t \ Leaves(t) : u[n] = t[n] /\ t[n].pane = NoPane
  BY <1>2 DEF Leaves, Leaf
<1> HIDE DEF c
<1>7. /\ \A i \in 1..c : new[i] # NoPane
      /\ \A i, j \in 1..c : new[i] = new[j] => i = j
  BY DEF Numbers, c
<1>8. Leaves(u) = Leaves(t)
  <2>1. \A n \in Leaves(t) : u[n].pane # NoPane
    BY <1>4, <1>6, <1>7
  <2>2. \A n : n \in Leaves(u) <=> n \in DOMAIN t /\ u[n].pane # NoPane
    BY <1>6 DEF Leaves
  <2> QED
    BY <2>1, <2>2, <1>6
<1>9. Shape(u)
  BY <1>6, <1>8 DEF Shape
<1>10. OnePlaceEach(u)
  <2> SUFFICES ASSUME NEW m \in Leaves(t), NEW n \in Leaves(t), u[m].pane = u[n].pane PROVE m = n
    BY <1>8 DEF OnePlaceEach
  <2>1. Nth(m) = Nth(n)
    BY <1>4, <1>6, <1>7
  <2> QED
    BY <2>1, <1>4
<1>11. LeafPanes(u) = {new[i] : i \in 1..c}
  <2>1. ASSUME NEW n \in Leaves(t) PROVE \E i \in 1..c : u[n].pane = new[i]
    BY <1>4, <1>6
  <2>2. ASSUME NEW i \in 1..c PROVE \E n \in Leaves(t) : u[n].pane = new[i]
    BY <1>5, <1>6
  <2> QED
    BY <2>1, <2>2, <1>8 DEF LeafPanes
<1> QED
  BY <1>6, <1>8, <1>9, <1>10, <1>11 DEF Fills, Sound, u, c

\* get_all_panes lists the leaves' panes
LEMMA AllPanes ==
    ASSUME NEW t, Shape(t)
    PROVE  LET leaves == get_all_panes(t)
               c == Cardinality(Leaves(t))
           IN  /\ leaves \in [1..c -> LeafPanes(t)] /\ leaves \in Seq(LeafPanes(t)) /\ Len(leaves) = c
               /\ c \in Nat /\ (Leaves(t) # {} => c > 0) /\ ToSet(leaves) = LeafPanes(t)
<1> DEFINE inOrder == LeavesInOrder(t)
           c == Cardinality(Leaves(t))
           leaves == get_all_panes(t)
<1>1. Lists(inOrder, Leaves(t)) /\ IsFiniteSet(Leaves(t))
  BY LeavesAreListed
<1>2. leaves = [i \in DOMAIN inOrder |-> t[inOrder[i]].pane]
  BY DEF get_all_panes
<1> HIDE DEF inOrder, leaves
<1>3. c \in Nat /\ inOrder \in [1..c -> Leaves(t)] /\ DOMAIN inOrder = 1..c
  BY <1>1 DEF Lists
<1>4. Leaves(t) # {} => c > 0
  BY <1>1, <1>3, FS_EmptySet
<1> HIDE DEF c
<1>5. leaves \in [1..c -> LeafPanes(t)]
  BY <1>2, <1>3 DEF LeafPanes
<1>6. leaves \in Seq(LeafPanes(t)) /\ Len(leaves) = c
  BY <1>3, <1>5, SeqDef
<1>7. ASSUME NEW n \in Leaves(t) PROVE \E i \in 1..c : leaves[i] = t[n].pane
  BY <1>1, <1>2, <1>3 DEF Lists
<1>8. ToSet(leaves) = LeafPanes(t)
  BY <1>5, <1>7 DEF ToSet, LeafPanes
<1> QED
  BY <1>3, <1>4, <1>5, <1>6, <1>8 DEF leaves, c

LEMMA ActiveIndexIsOne ==
    ASSUME NEW S, NEW leaves \in Seq(S), leaves # << >>, NEW p
    PROVE  ActiveIndex(leaves, p) \in DOMAIN leaves
<1>1. DOMAIN leaves = 1..Len(leaves) /\ 1 \in DOMAIN leaves
  BY EmptySeq
<1>2. \E i \in DOMAIN leaves : leaves[i] = p \/ (i = 1 /\ p \notin ToSet(leaves))
  BY <1>1 DEF ToSet
<1> QED
  BY <1>2 DEF ActiveIndex

LEMMA DirectionStaysInside ==
    ASSUME NEW t, NEW p, NEW way
    PROVE  get_pane_in_direction(t, p, way) \subseteq LeafPanes(t)
BY DEF get_pane_in_direction, LeafPanes

----------------------------------------------------------------------------
(* The invariant                                                            *)

Ids == 1..MaxPanes

IsWindow(w) ==
    w \in [id : {w.id}, panes : {w.panes}, active : {w.active}, tree : {w.tree},
           zoomed : BOOLEAN, target : {w.target}, saved : {w.saved}]

\* what restore_layout may be given
SavedOk(s) == s = NoLayout \/ (Shape(s.snapshot) /\ s.active \in 1..Cardinality(Leaves(s.snapshot)))

\* a window's layout shows each of its leaves' panes once, and only panes it owns; no child is
\* missing from it while it has them all
Framed(w, made) ==
    /\ IsWindow(w) /\ w.panes \subseteq made
    /\ Sound(w.tree) /\ LeafPanes(w.tree) \subseteq w.panes
    /\ w.panes \subseteq LeafPanes(w.tree) => Whole(w.tree)
    /\ SavedOk(w.saved)

Fine(w, made) ==
    /\ Framed(w, made)
    /\ IF w.active = NoPane THEN Leaves(w.tree) = {} ELSE w.active \in LeafPanes(w.tree)
    /\ w.zoomed => w.target = w.active

AllFine(ws, made) == ws \in Seq(ToSet(ws)) /\ \A w \in ToSet(ws) : Fine(w, made)

PanesTyped ==
    /\ shell \in [Ids -> {"none", "running", "reaped"}] /\ \E c \in 0..MaxPanes : Created = 1..c
    /\ reaper \in [queue : Seq(Ids), holds : Ids \cup {NoPane}]
    /\ updater \in [held : {updater.held}, panes : {updater.panes}]

IndicesOk ==
    /\ {activeWindow, lastWindow} \subseteq Nat
    /\ windows = << >> /\ phase = "running" => activeWindow = 0
    /\ windows # << >> => {activeWindow, lastWindow} \subseteq 0..(Len(windows) - 1)

\* the shell of a pane nobody holds has been waited for
Ended == \A p \in Created \ Held(windows, reaper, updater) : shell[p] = "reaped"

PanesInv == PanesTyped /\ IndicesOk /\ Ended /\ AllFine(windows, Created)

LEMMA PanesStart == PanesInit => PanesInv
<1> SUFFICES ASSUME PanesInit PROVE PanesInv
  OBVIOUS
<1> USE DEF PanesInit
<1>1. Created = {} /\ {} = 1..0
  BY DEF Created
<1>2. MaxPanes \in Nat
  BY PanesAssumption
<1>3. << >> \in Seq(Ids) /\ << >> \in Seq(ToSet(<< >>)) /\ ToSet(<< >>) = {}
  BY EmptySeq DEF ToSet
<1>4. PanesTyped
  BY <1>1, <1>2, <1>3 DEF PanesTyped, Ids, NoPane
<1>5. IndicesOk
  BY DEF IndicesOk
<1>6. AllFine(windows, Created)
  BY <1>3 DEF AllFine
<1> QED
  BY <1>1, <1>4, <1>5, <1>6 DEF PanesInv, Ended

----------------------------------------------------------------------------
(* References, and the shells of panes without one                          *)

\* panes that may be created next
NewPanes(new) == new \subseteq Ids \ Created /\ \E c \in 0..MaxPanes : Created \cup new = 1..c

LEMMA NoneNext == PanesTyped => NewPanes({})
BY DEF PanesTyped, NewPanes

LEMMA FreshNext ==
    ASSUME PanesTyped, NEW k \in Nat, Room(k)
    PROVE  NewPanes(ToSet(Fresh(k))) /\ Numbers(Fresh(k), k) /\ (k = 1 => ToSet(Fresh(k)) = {Fresh(k)[1]})
           /\ ToSet(Fresh(k)) = {Fresh(k)[i] : i \in 1..k}
<1>1. PICK c \in 0..MaxPanes : Created = 1..c
  BY DEF PanesTyped
<1>2. c \in Nat /\ MaxPanes \in Nat
  BY PanesAssumption
<1>3. Cardinality(Created) = c
  BY <1>1, <1>2, FS_Interval
<1>4. Fresh(k) = [i \in 1..k |-> c + i] /\ c + k <= MaxPanes
  BY <1>3 DEF Fresh, Room
<1>5. ToSet(Fresh(k)) = (c + 1)..(c + k)
  <2>1. ASSUME NEW a \in (c + 1)..(c + k) PROVE \E i \in 1..k : a = c + i
    <3>1. a - c \in 1..k /\ a = c + (a - c)
      BY <1>2
    <3> QED
      BY <3>1
  <2>2. \A i \in 1..k : c + i \in (c + 1)..(c + k)
    BY <1>2
  <2>3. ToSet(Fresh(k)) = {c + i : i \in 1..k}
    BY <1>4 DEF ToSet
  <2> QED
    BY <2>1, <2>2, <2>3
<1>6. NewPanes(ToSet(Fresh(k)))
  <2>1. Created \cup ToSet(Fresh(k)) = 1..(c + k) /\ c + k \in 0..MaxPanes
    BY <1>1, <1>2, <1>4, <1>5
  <2>2. ToSet(Fresh(k)) \subseteq Ids \ Created
    BY <1>1, <1>2, <1>4, <1>5 DEF Ids
  <2> QED
    BY <2>1, <2>2 DEF NewPanes
<1>7. Numbers(Fresh(k), k)
  BY <1>2, <1>4 DEF Numbers, NoPane
<1>8. k = 1 => ToSet(Fresh(k)) = {Fresh(k)[1]}
  BY <1>2, <1>4, <1>5
<1>9. ToSet(Fresh(k)) = {Fresh(k)[i] : i \in 1..k}
  BY <1>4 DEF ToSet
<1> QED
  BY <1>6, <1>7, <1>8, <1>9

Moved(ws, r, u, new) ==
    /\ windows' = ws /\ reaper' = r /\ updater' = u
    /\ shell' \in [Ids -> {"none", "running", "reaped"}] /\ Created' = Created \cup new
    /\ \E c \in 0..MaxPanes : Created' = 1..c
    /\ Ended'

\* Whatever becomes of the references, the shells of the panes that lose the last one end.
LEMMA BecomeEnds ==
    ASSUME PanesTyped, NEW ws, NEW r, NEW u, NEW new, NewPanes(new), new \subseteq Held(ws, r, u), Become(ws, r, u, new)
    PROVE  Moved(ws, r, u, new)
<1> DEFINE dropped == {p \in Created : shell[p] = "running"} \ Held(ws, r, u)
<1>1. /\ windows' = ws /\ reaper' = r /\ updater' = u
  BY DEF Become
<1>2. PICK left \in [dropped -> {"running", "reaped"}] :
         /\ \A p \in dropped : left[p] \in cleanup(shell[p])
         /\ shell' = spawn_process(new, [p \in 1..MaxPanes |-> IF p \in dropped THEN left[p] ELSE shell[p]])
  BY DEF Become
<1>3. \A p \in dropped : left[p] = "reaped"
  BY <1>2 DEF cleanup, Polled
<1>4. shell' = [p \in Ids |-> IF p \in new THEN "running" ELSE IF p \in dropped THEN "reaped" ELSE shell[p]]
  BY <1>2, <1>3 DEF spawn_process, Ids
<1>5. shell \in [Ids -> {"none", "running", "reaped"}]
  BY DEF PanesTyped
<1>6. shell' \in [Ids -> {"none", "running", "reaped"}]
  BY <1>4, <1>5
<1>7. Created = {p \in Ids : shell[p] # "none"} /\ Created' = {p \in Ids : shell'[p] # "none"}
  BY DEF Created, Ids
<1>8. new \subseteq Ids
  BY DEF NewPanes
<1>9. Created' = Created \cup new
  BY <1>4, <1>7, <1>8
<1>10. \E c \in 0..MaxPanes : Created' = 1..c
  BY <1>9 DEF NewPanes
<1>11. ASSUME NEW p \in Created', p \notin Held(ws, r, u) PROVE shell'[p] = "reaped"
  <2>1. p \in Created /\ p \notin new /\ p \in Ids
    BY <1>7, <1>9, <1>11
  <2>2. CASE p \in dropped
    BY <2>1, <2>2, <1>4
  <2>3. CASE p \notin dropped
    <3>1. shell[p] # "running" /\ shell[p] # "none"
      BY <2>1, <2>3, <1>7, <1>11
    <3> QED
      BY <3>1, <2>1, <2>3, <1>4, <1>5
  <2> QED
    BY <2>2, <2>3
<1>12. Held(windows, reaper, updater)' = Held(ws, r, u)
  BY <1>1 DEF Held, Shown, Queued
<1>13. Ended'
  BY <1>11, <1>12 DEF Ended
<1> QED
  BY <1>1, <1>6, <1>9, <1>10, <1>13 DEF Moved

LEMMA FineLater ==
    ASSUME NEW ws, NEW made, NEW more, AllFine(ws, made), made \subseteq more
    PROVE  AllFine(ws, more)
BY DEF AllFine, Fine, Framed

LEMMA OwnElements == ASSUME NEW S, NEW s \in Seq(S) PROVE s \in Seq(ToSet(s)) /\ ToSet(s) \subseteq S
<1>1. s \in Seq(Range(s)) /\ Range(s) \in SUBSET S
  BY SeqOfRange, RangeOfSeq
<1>2. Range(s) = ToSet(s)
  BY DEF Range, ToSet
<1> QED
  BY <1>1, <1>2

----------------------------------------------------------------------------
(* Commands on the active window                                            *)

LEMMA ActiveIsFine ==
    ASSUME PanesInv, HasWindow
    PROVE  Fine(active_window, Created) /\ activeWindow + 1 \in 1..Len(windows) /\ Len(windows) \in Nat
<1>1. activeWindow + 1 \in 1..Len(windows) /\ Len(windows) \in Nat
  BY DEF PanesInv, IndicesOk, HasWindow, AllFine
<1>2. windows[activeWindow + 1] \in ToSet(windows)
  BY <1>1, ElementOfSeq DEF PanesInv, AllFine
<1> QED
  BY <1>1, <1>2 DEF PanesInv, AllFine, active_window

LEMMA SequenceSet ==
    ASSUME NEW S, NEW s \in Seq(S), NEW i \in 1..Len(s), NEW e
    PROVE  /\ [s EXCEPT ![i] = e] \in Seq(ToSet(s) \cup {e}) /\ Len([s EXCEPT ![i] = e]) = Len(s)
           /\ [s EXCEPT ![i] = e][i] = e
<1>1. s \in Seq(ToSet(s)) /\ ToSet(s) \subseteq ToSet(s) \cup {e}
  BY OwnElements
<1>2. s \in Seq(ToSet(s) \cup {e})
  BY <1>1, SeqMonotonic
<1> HIDE DEF ToSet
<1> QED
  BY <1>2, ExceptSeq

\* The active window is replaced by one that is fine, with the new panes in it.
LEMMA WindowSteps ==
    ASSUME PanesInv, HasWindow, NEW w, NEW closed \in Seq(Ids), NEW new, NewPanes(new), new \subseteq w.panes,
           Fine(w, Created \cup new), Window(w, closed, new)
    PROVE  PanesInv'
<1> DEFINE ws == [windows EXCEPT ![activeWindow + 1] = w]
           r == [reaper EXCEPT !.queue = @ \o closed]
<1>1. activeWindow + 1 \in 1..Len(windows) /\ Len(windows) \in Nat
  BY ActiveIsFine
<1>2. windows \in Seq(ToSet(windows)) /\ AllFine(windows, Created) /\ PanesTyped
  BY DEF PanesInv, AllFine
<1>3. ws \in Seq(ToSet(windows) \cup {w}) /\ Len(ws) = Len(windows) /\ ws[activeWindow + 1] = w
  BY <1>1, <1>2, SequenceSet
<1>4. Become(ws, r, updater, new) /\ UNCHANGED <<activeWindow, lastWindow>>
  BY DEF Window
<1> HIDE DEF ws, r
<1>5. new \subseteq Held(ws, r, updater)
  <2>1. w.panes \subseteq Shown(ws)
    BY <1>1, <1>3 DEF Shown
  <2> QED
    BY <2>1 DEF Held
<1>6. Moved(ws, r, updater, new)
  BY <1>2, <1>4, <1>5, BecomeEnds
<1>7. ws \in Seq(ToSet(ws)) /\ ToSet(ws) \subseteq ToSet(windows) \cup {w}
  BY <1>3, OwnElements
<1>8. AllFine(windows, Created \cup new)
  BY <1>2, FineLater
<1>9. AllFine(ws, Created \cup new)
  BY <1>7, <1>8 DEF AllFine
<1>10. AllFine(windows, Created)'
  BY <1>6, <1>9 DEF Moved
<1>11. PanesTyped'
  <2>1. r \in [queue : Seq(Ids), holds : Ids \cup {NoPane}]
    BY <1>2, ConcatProperties DEF r, PanesTyped
  <2> QED
    BY <2>1, <1>2, <1>6 DEF Moved, PanesTyped
<1>12. IndicesOk'
  <2>1. windows # << >> /\ ws # << >>
    BY <1>1, <1>3
  <2> QED
    BY <2>1, <1>3, <1>4, <1>6 DEF Moved, IndicesOk, PanesInv
<1> QED
  BY <1>6, <1>10, <1>11, <1>12 DEF PanesInv, Moved

\* The active window changes, and no pane comes or goes.
LEMMA WindowChanges ==
    ASSUME PanesInv, HasWindow, NEW w, Fine(w, Created), Window(w, << >>, {})
    PROVE  PanesInv'
<1>1. << >> \in Seq(Ids) /\ {} \subseteq w.panes /\ Created \cup {} = Created
  BY EmptySeq
<1>2. NewPanes({})
  BY NoneNext DEF PanesInv
<1> QED
  BY <1>1, <1>2, WindowSteps

\* What set_active_locked and the end of a zoom leave of a window.
LEMMA SetActiveIs ==
    ASSUME NEW w, IsWindow(w), NEW p
    PROVE  LET v == set_active_locked(w, p)
           IN  /\ IsWindow(v) /\ v.active = p /\ v.zoomed = w.zoomed /\ v.panes = w.panes /\ v.tree = w.tree /\ v.saved = w.saved
               /\ v.target = IF p # NoPane /\ w.zoomed THEN p ELSE w.target
BY DEF IsWindow, set_active_locked

LEMMA UnzoomedIs ==
    ASSUME NEW w, IsWindow(w)
    PROVE  LET v == Unzoomed(w)
           IN  /\ IsWindow(v) /\ v.active = w.active /\ v.zoomed = FALSE /\ v.panes = w.panes /\ v.tree = w.tree
               /\ v.saved = w.saved
BY DEF IsWindow, Unzoomed

\* A pane of the layout is made active, or none when there is none.
LEMMA SetActiveFine ==
    ASSUME NEW w, NEW made, Framed(w, made), NEW p,
           IF p = NoPane THEN Leaves(w.tree) = {} /\ ~w.zoomed ELSE p \in LeafPanes(w.tree)
    PROVE  Fine(set_active_locked(w, p), made)
<1> DEFINE v == set_active_locked(w, p)
<1>1. /\ IsWindow(v) /\ v.active = p /\ v.zoomed = w.zoomed /\ v.panes = w.panes /\ v.tree = w.tree /\ v.saved = w.saved
      /\ v.target = IF p # NoPane /\ w.zoomed THEN p ELSE w.target
  BY SetActiveIs DEF Framed
<1> HIDE DEF v
<1>2. Framed(v, made)
  BY <1>1 DEF Framed
<1>3. Fine(v, made)
  BY <1>1, <1>2 DEF Fine
<1> QED
  BY <1>3 DEF v

LEMMA UnzoomedFine ==
    ASSUME NEW w, NEW made, Fine(w, made)
    PROVE  Fine(Unzoomed(w), made)
<1> DEFINE v == Unzoomed(w)
<1>1. /\ IsWindow(v) /\ v.active = w.active /\ v.zoomed = FALSE /\ v.panes = w.panes /\ v.tree = w.tree /\ v.saved = w.saved
  BY UnzoomedIs DEF Fine, Framed
<1> HIDE DEF v
<1>2. Fine(v, made)
  BY <1>1 DEF Fine, Framed
<1> QED
  BY <1>2 DEF v

LEMMA StepSplit ==
    ASSUME PanesInv, HasWindow, NEW dir, split_active(dir)
    PROVE  PanesInv'
<1> DEFINE w == Unzoomed(active_window)
           new == Fresh(1)[1]
           framed == [w EXCEPT !.panes = @ \cup {new}, !.tree = split_pane(@, w.active, new, dir)]
           v == set_active_locked(framed, new)
<1>1. Fine(w, Created)
  BY ActiveIsFine, UnzoomedFine
<1>2. CASE Window(w, << >>, {})
  BY <1>1, <1>2, WindowChanges
<1>3. CASE Room(1) /\ w.active # NoPane /\ Window(v, << >>, {new})
  <2>1. NewPanes({new}) /\ new # NoPane /\ new \notin Created
    <3>1. NewPanes(ToSet(Fresh(1))) /\ Numbers(Fresh(1), 1) /\ ToSet(Fresh(1)) = {new}
      BY <1>3, FreshNext DEF PanesInv
    <3> QED
      BY <3>1 DEF NewPanes, Numbers
  <2> HIDE DEF w, new
  <2>2. Sound(w.tree) /\ w.active \in LeafPanes(w.tree) /\ LeafPanes(w.tree) \subseteq w.panes /\ w.panes \subseteq Created
        /\ IsWindow(w) /\ SavedOk(w.saved) /\ (w.panes \subseteq LeafPanes(w.tree) => Whole(w.tree))
    BY <1>1, <1>3 DEF Fine, Framed
  <2>3. new \notin LeafPanes(w.tree)
    BY <2>1, <2>2
  <2>4. Grows(split_pane(w.tree, w.active, new, dir), w.tree, new)
    BY <2>1, <2>2, <2>3, SplitGrows
  <2>5. /\ IsWindow(framed) /\ framed.panes = w.panes \cup {new} /\ framed.tree = split_pane(w.tree, w.active, new, dir)
        /\ framed.saved = w.saved
    BY <2>2 DEF IsWindow
  <2> HIDE DEF framed
  <2>6. Framed(framed, Created \cup {new}) /\ new \in LeafPanes(framed.tree)
    BY <2>1, <2>2, <2>4, <2>5 DEF Framed, Grows
  <2>7. Fine(v, Created \cup {new})
    BY <2>1, <2>6, SetActiveFine
  <2>8. {new} \subseteq v.panes
    BY <2>5, SetActiveIs
  <2>9. << >> \in Seq(Ids)
    BY EmptySeq
  <2> HIDE DEF v
  <2> QED
    BY <1>3, <2>1, <2>7, <2>8, <2>9, WindowSteps
<1> QED
  BY <1>2, <1>3 DEF split_active

LEMMA StepZoom ==
    ASSUME PanesInv, HasWindow, toggle_zoom
    PROVE  PanesInv'
<1> DEFINE w == active_window
           v == [w EXCEPT !.zoomed = TRUE, !.target = w.active]
<1>1. Fine(w, Created)
  BY ActiveIsFine
<1>2. Window(IF w.zoomed THEN Unzoomed(w) ELSE v, << >>, {})
  BY DEF toggle_zoom
<1> HIDE DEF w
<1>3. IsWindow(w)
  BY <1>1 DEF Fine, Framed
<1>4. /\ IsWindow(v) /\ v.active = w.active /\ v.target = w.active /\ v.panes = w.panes /\ v.tree = w.tree /\ v.saved = w.saved
  BY <1>3 DEF IsWindow
<1> HIDE DEF v
<1>5. Fine(v, Created)
  BY <1>1, <1>4 DEF Fine, Framed
<1>6. Fine(Unzoomed(w), Created)
  BY <1>1, UnzoomedFine
<1> QED
  BY <1>2, <1>5, <1>6, WindowChanges

LEMMA StepNavigate ==
    ASSUME PanesInv, HasWindow, NEW way, navigate(way)
    PROVE  PanesInv'
<1> DEFINE w == active_window
<1>1. Fine(w, Created)
  BY ActiveIsFine
<1>2. PICK next \in get_pane_in_direction(w.tree, w.active, way) : Window(set_active_locked(w, next), << >>, {})
  BY DEF navigate
<1> HIDE DEF w
<1>3. next \in LeafPanes(w.tree)
  BY DirectionStaysInside
<1>4. next # NoPane
  BY <1>3 DEF LeafPanes, Leaves
<1>5. Framed(w, Created)
  BY <1>1 DEF Fine
<1>6. Fine(set_active_locked(w, next), Created)
  BY <1>3, <1>4, <1>5, SetActiveFine
<1> QED
  BY <1>2, <1>6, WindowChanges

LEMMA StepSave ==
    ASSUME PanesInv, HasWindow, save_layout
    PROVE  PanesInv'
<1> DEFINE w == active_window
           leaves == get_all_panes(w.tree)
           numbers == [i \in DOMAIN leaves |-> i]
           s == [snapshot |-> restore_from_snapshot(w.tree, numbers), active |-> ActiveIndex(leaves, w.active)]
           v == [w EXCEPT !.saved = s]
           c == Cardinality(Leaves(w.tree))
<1>1. Fine(w, Created)
  BY ActiveIsFine
<1>2. leaves # << >> /\ Window(v, << >>, {})
  BY DEF save_layout
<1> HIDE DEF w
<1>3. IsWindow(w) /\ Sound(w.tree) /\ Shape(w.tree)
  BY <1>1 DEF Fine, Framed, Sound
<1>4. leaves \in [1..c -> LeafPanes(w.tree)] /\ leaves \in Seq(LeafPanes(w.tree)) /\ DOMAIN leaves = 1..c
  BY <1>3, AllPanes
<1> HIDE DEF leaves
<1>5. ActiveIndex(leaves, w.active) \in 1..c
  BY <1>2, <1>4, ActiveIndexIsOne
<1>6. Numbers(numbers, c)
  BY <1>4 DEF Numbers, NoPane
<1> HIDE DEF numbers
<1>7. Fills(restore_from_snapshot(w.tree, numbers), w.tree, numbers)
  BY <1>3, <1>6, RestoreFills
<1>8. SavedOk(s)
  <2>1. s.snapshot = restore_from_snapshot(w.tree, numbers) /\ s.active = ActiveIndex(leaves, w.active)
    OBVIOUS
  <2> HIDE DEF s
  <2> QED
    BY <2>1, <1>5, <1>7 DEF SavedOk, Fills, Sound
<1> HIDE DEF s
<1>9. /\ IsWindow(v) /\ v.active = w.active /\ v.zoomed = w.zoomed /\ v.target = w.target /\ v.panes = w.panes
      /\ v.tree = w.tree /\ v.saved = s
  BY <1>3 DEF IsWindow
<1> HIDE DEF v
<1>10. Fine(v, Created)
  BY <1>1, <1>8, <1>9 DEF Fine, Framed
<1> QED
  BY <1>2, <1>10, WindowChanges

\* Closing keeps what is left of the layout, and of the panes all but one.
LEMMA StepClose ==
    ASSUME PanesInv, HasWindow, close_active
    PROVE  PanesInv'
<1> DEFINE w == IF active_window.active = active_window.target THEN Unzoomed(active_window) ELSE active_window
           gone == w.active
           First(t) == IF Leaves(t) = {} THEN NoPane ELSE Head(get_all_panes(t))
           Left(t) == [w EXCEPT !.panes = @ \ {gone}, !.tree = t]
<1>1. Fine(active_window, Created)
  BY ActiveIsFine
<1>2. Fine(w, Created) /\ (gone # NoPane => ~w.zoomed)
  <2> DEFINE a == active_window
  <2>1. Fine(Unzoomed(a), Created) /\ Unzoomed(a).zoomed = FALSE
    BY <1>1, UnzoomedFine, UnzoomedIs DEF Fine, Framed
  <2> HIDE DEF a
  <2>2. CASE a.active = a.target
    BY <2>1, <2>2 DEF a
  <2>3. CASE a.active # a.target
    BY <1>1, <2>3 DEF Fine, Framed, IsWindow, a
  <2> QED
    BY <2>2, <2>3
<1>3. /\ gone # NoPane
      /\ \/ Window(w, << >>, {})
         \/ \E t \in remove_pane(w.tree, gone) \ {Wreck} :
              Window(set_active_locked(Left(t), First(t)), <<gone>>, {})
  BY DEF close_active
<1> HIDE DEF w
<1>4. CASE Window(w, << >>, {})
  BY <1>2, <1>4, WindowChanges
<1>5. ASSUME NEW t \in remove_pane(w.tree, gone) \ {Wreck}, Window(set_active_locked(Left(t), First(t)), <<gone>>, {})
      PROVE  PanesInv'
  <2>1. /\ IsWindow(w) /\ w.panes \subseteq Created /\ Sound(w.tree) /\ LeafPanes(w.tree) \subseteq w.panes
        /\ SavedOk(w.saved) /\ gone \in LeafPanes(w.tree) /\ ~w.zoomed
        /\ w.panes \subseteq LeafPanes(w.tree) => Whole(w.tree)
    BY <1>2, <1>3 DEF Fine, Framed
  <2>2. Shrinks(t, w.tree, gone)
    BY <2>1, <1>5, RemoveShrinks
  <2>3. /\ IsWindow(Left(t)) /\ Left(t).panes = w.panes \ {gone} /\ Left(t).tree = t /\ Left(t).saved = w.saved
        /\ Left(t).zoomed = w.zoomed
    BY <2>1 DEF IsWindow
  <2> DEFINE v == Left(t)
             f == First(t)
  <2>4. IF f = NoPane THEN Leaves(t) = {} ELSE f \in LeafPanes(t)
    <3>1. CASE Leaves(t) = {}
      BY <3>1
    <3>2. CASE Leaves(t) # {}
      <4>1. Shape(t)
        BY <2>2 DEF Shrinks, Sound
      <4>2. get_all_panes(t) \in Seq(LeafPanes(t)) /\ Len(get_all_panes(t)) > 0
        BY <4>1, <3>2, AllPanes
      <4> DEFINE all == get_all_panes(t)
      <4> HIDE DEF all
      <4>3. all \in Seq(LeafPanes(t)) /\ all # << >>
        BY <4>2, EmptySeq DEF all
      <4>4. Head(all) \in LeafPanes(t)
        BY <4>3, HeadTailProperties
      <4>5. Head(all) # NoPane
        BY <4>4 DEF LeafPanes, Leaves
      <4> QED
        BY <3>2, <4>4, <4>5 DEF all
    <3> QED
      BY <3>1, <3>2
  <2> HIDE DEF f, Left
  <2>5. Framed(v, Created)
    BY <2>1, <2>2, <2>3 DEF Framed, Shrinks
  <2>6. Fine(set_active_locked(v, f), Created)
    BY <2>1, <2>3, <2>4, <2>5, SetActiveFine
  <2>7. <<gone>> \in Seq(Ids)
    <3>1. gone \in Ids
      BY <2>1 DEF Created, Ids
    <3> QED
      BY <3>1
  <2>8. NewPanes({}) /\ Created \cup {} = Created
    BY NoneNext DEF PanesInv
  <2>9. Window(set_active_locked(v, f), <<gone>>, {})
    BY <1>5 DEF f, Left
  <2> HIDE DEF v, gone
  <2> QED
    BY <2>6, <2>7, <2>8, <2>9, WindowSteps
<1> QED
  BY <1>3, <1>4, <1>5

\* Restoring makes new panes for the snapshot's leaves, and queues all of the window's.
LEMMA StepRestore ==
    ASSUME PanesInv, HasWindow, restore_layout
    PROVE  PanesInv'
<1> DEFINE w == active_window
           k == Cardinality(Leaves(w.saved.snapshot))
           new == Fresh(k)
           tree == restore_from_snapshot(w.saved.snapshot, new)
           framed == [Unzoomed(w) EXCEPT !.panes = ToSet(new), !.tree = tree]
           closed == InOrder(w.panes, {pair \in w.panes \X w.panes : pair[1] < pair[2]})
           p == new[w.saved.active]
           v == set_active_locked(framed, p)
           made == Created \cup ToSet(new)
<1>1. Fine(w, Created)
  BY ActiveIsFine
<1>2. w.saved # NoLayout /\ Room(k) /\ Window(v, closed, ToSet(new)) /\ Whole(w.saved.snapshot)
  BY DEF restore_layout
<1> HIDE DEF w
<1>3. IsWindow(w) /\ w.panes \subseteq Created /\ Shape(w.saved.snapshot) /\ w.saved.active \in 1..k /\ SavedOk(w.saved)
  BY <1>1, <1>2 DEF Fine, Framed, SavedOk
<1>4. k \in Nat
  BY <1>3, LeavesAreListed DEF Lists
<1> HIDE DEF k
<1>5. NewPanes(ToSet(new)) /\ Numbers(new, k) /\ ToSet(new) = {new[i] : i \in 1..k}
  BY <1>2, <1>4, FreshNext DEF PanesInv
<1> HIDE DEF new
<1>6. Sound(tree) /\ LeafPanes(tree) = ToSet(new) /\ Whole(tree)
  <2>1. Fills(tree, w.saved.snapshot, new)
    BY <1>3, <1>5, RestoreFills DEF k
  <2> HIDE DEF tree
  <2> QED
    BY <2>1, <1>2, <1>5 DEF Fills, Whole, k
<1> HIDE DEF tree
<1>7. p \in LeafPanes(tree) /\ p # NoPane
  BY <1>3, <1>5, <1>6 DEF Numbers
<1>8. /\ IsWindow(Unzoomed(w)) /\ Unzoomed(w).saved = w.saved
  BY <1>3, UnzoomedIs
<1>9. IsWindow(framed) /\ framed.panes = ToSet(new) /\ framed.tree = tree /\ framed.saved = w.saved
  <2> DEFINE z == Unzoomed(w)
  <2> HIDE DEF z
  <2>1. IsWindow(z) /\ z.saved = w.saved
    BY <1>8 DEF z
  <2>2. framed = [z EXCEPT !.panes = ToSet(new), !.tree = tree]
    BY DEF z
  <2> HIDE DEF framed
  <2> QED
    BY <2>1, <2>2 DEF IsWindow
<1> HIDE DEF framed, p
<1>10. Framed(framed, made)
  BY <1>3, <1>6, <1>9 DEF Framed
<1>11. Fine(v, made)
  BY <1>7, <1>9, <1>10, SetActiveFine
<1>12. ToSet(new) \subseteq v.panes
  BY <1>9, SetActiveIs
<1>13. closed \in Seq(Ids)
  <2>1. PICK c \in 0..MaxPanes : Created = 1..c
    BY DEF PanesInv, PanesTyped
  <2>2. c \in Nat /\ IsFiniteSet(1..c)
    BY <2>1, PanesAssumption, FS_Interval
  <2>3. IsFiniteSet(w.panes) /\ w.panes \subseteq Nat
    BY <2>1, <2>2, <1>3, FS_Subset
  <2>4. StrictOrder(w.panes, {pair \in w.panes \X w.panes : pair[1] < pair[2]})
    BY <2>3 DEF StrictOrder
  <2>5. Lists(closed, w.panes)
    BY <2>3, <2>4, InOrderLists
  <2>6. w.panes \subseteq Ids
    BY <1>3 DEF Created, Ids
  <2> HIDE DEF closed
  <2> QED
    BY <2>5, <2>6, SeqMonotonic DEF Lists
<1> HIDE DEF v, closed
<1> QED
  BY <1>2, <1>5, <1>11, <1>12, <1>13, WindowSteps

----------------------------------------------------------------------------
(* Commands on windows                                                      *)

\* The list of windows changes to one whose windows are fine; the queue and the copies stay.
LEMMA WindowsStep ==
    ASSUME PanesInv, NEW ws, NEW new, NewPanes(new), new \subseteq Shown(ws), AllFine(ws, Created \cup new),
           Become(ws, reaper, updater, new), IndicesOk'
    PROVE  PanesInv'
<1>1. new \subseteq Held(ws, reaper, updater)
  BY DEF Held
<1>2. Moved(ws, reaper, updater, new)
  BY <1>1, BecomeEnds DEF PanesInv
<1>3. PanesTyped'
  BY <1>2 DEF Moved, PanesTyped, PanesInv
<1>4. AllFine(windows, Created)'
  BY <1>2 DEF Moved
<1> QED
  BY <1>2, <1>3, <1>4 DEF PanesInv, Moved

LEMMA StepCreate ==
    ASSUME PanesInv, create_window, phase = "running"
    PROVE  PanesInv'
<1> DEFINE new == Fresh(1)[1]
           w == NewWindow(windowsMade + 1, new)
           ws == Append(windows, w)
<1>1. NewPanes({new}) /\ new # NoPane
  <2>1. NewPanes(ToSet(Fresh(1))) /\ Numbers(Fresh(1), 1) /\ ToSet(Fresh(1)) = {new}
    BY FreshNext DEF PanesInv, create_window
  <2> QED
    BY <2>1 DEF Numbers
<1>2. Become(ws, reaper, updater, {new}) /\ lastWindow' = activeWindow /\ activeWindow' = Len(windows) /\ windows' = ws
      /\ phase' = phase
  BY DEF create_window, Become
<1> HIDE DEF new
<1>3. Fine(w, Created \cup {new}) /\ new \in w.panes
  <2> DEFINE t == set_root_pane(new)
  <2>1. DOMAIN t = {<< >>} /\ t[<< >>].pane = new
    BY DEF set_root_pane, Leaf
  <2> HIDE DEF t
  <2>2. Leaves(t) = {<< >>}
    BY <2>1, <1>1 DEF Leaves
  <2>3. IsFiniteSet({<< >>})
    BY FS_Singleton
  <2>4. << >> \in Paths
    BY EmptySeq DEF Paths
  <2>5. Sound(t) /\ LeafPanes(t) = {new} /\ Whole(t)
    BY <2>1, <2>2, <2>3, <2>4 DEF Sound, Shape, OnePlaceEach, LeafPanes, Whole
  <2>6. /\ IsWindow(w) /\ w.panes = {new} /\ w.active = new /\ w.tree = t /\ w.zoomed = FALSE /\ w.saved = NoLayout
    BY DEF IsWindow, NewWindow, t
  <2> HIDE DEF w
  <2> QED
    BY <1>1, <2>2, <2>5, <2>6 DEF Fine, Framed, SavedOk
<1> HIDE DEF w
<1>4. windows \in Seq(ToSet(windows) \cup {w}) /\ Len(windows) \in Nat
  BY SeqMonotonic DEF PanesInv, AllFine
<1>5. /\ ws \in Seq(ToSet(windows) \cup {w}) /\ Len(ws) = Len(windows) + 1 /\ ws[Len(windows) + 1] = w
  <2> HIDE DEF ToSet
  <2> QED
    BY <1>4, AppendProperties
<1> HIDE DEF ws
<1>6. ws \in Seq(ToSet(ws)) /\ ToSet(ws) \subseteq ToSet(windows) \cup {w}
  BY <1>5, OwnElements
<1>7. AllFine(windows, Created \cup {new})
  BY FineLater DEF PanesInv
<1>8. AllFine(ws, Created \cup {new})
  BY <1>3, <1>6, <1>7 DEF AllFine
<1>9. {new} \subseteq Shown(ws)
  BY <1>3, <1>4, <1>5 DEF Shown
<1>10. IndicesOk'
  <2>1. ws # << >> /\ Len(ws) \in Nat
    BY <1>4, <1>5
  <2>2. activeWindow \in 0..Len(windows)
    <3>1. CASE windows = << >>
      BY <3>1, <1>4 DEF IndicesOk, PanesInv
    <3>2. CASE windows # << >>
      BY <3>2, <1>4 DEF IndicesOk, PanesInv
    <3> QED
      BY <3>1, <3>2
  <2> QED
    BY <2>1, <2>2, <1>2, <1>4, <1>5 DEF IndicesOk
<1> QED
  BY <1>1, <1>2, <1>8, <1>9, <1>10, WindowsStep

LEMMA MinOfTwo == ASSUME NEW a \in Int, NEW b \in Int PROVE Min({a, b}) \in {a, b} /\ Min({a, b}) <= a /\ Min({a, b}) <= b
<1>1. \E m \in {a, b} : \A n \in {a, b} : m <= n
  OBVIOUS
<1> QED
  BY <1>1 DEF Min

LEMMA StepCloseWindow ==
    ASSUME PanesInv, close_window
    PROVE  PanesInv'
<1> DEFINE ws == RemoveAt(windows, activeWindow + 1)
           n == Len(windows)
           S == ToSet(windows)
<1>1. /\ n > 1 /\ Become(ws, reaper, updater, {}) /\ windows' = ws
      /\ activeWindow' = Min({activeWindow, n - 2}) /\ lastWindow' = Min({lastWindow, n - 2})
  BY DEF close_window, Become
<1>2. windows \in Seq(S) /\ n \in Nat /\ windows # << >>
  BY <1>1 DEF PanesInv, AllFine
<1>3. activeWindow \in 0..(n - 1) /\ lastWindow \in 0..(n - 1)
  BY <1>2 DEF PanesInv, IndicesOk
<1>4. ws \in Seq(S) /\ Len(ws) = n - 1
  <2> HIDE DEF S
  <2> DEFINE before == SubSeq(windows, 1, activeWindow)
             after == SubSeq(windows, activeWindow + 2, n)
  <2>1. before \in Seq(S) /\ Len(before) = activeWindow /\ after \in Seq(S) /\ Len(after) = n - activeWindow - 1
    BY <1>2, <1>3, SubSeqProperties
  <2>2. ws = before \o after
    <3>1. (activeWindow + 1) - 1 = activeWindow /\ (activeWindow + 1) + 1 = activeWindow + 2
      BY <1>3
    <3>2. ws = SubSeq(windows, 1, (activeWindow + 1) - 1) \o SubSeq(windows, (activeWindow + 1) + 1, n)
      BY Zenon DEF RemoveAt
    <3> HIDE DEF ws, n
    <3> QED
      BY <3>1, <3>2
  <2> HIDE DEF ws, before, after
  <2>3. before \o after \in Seq(S) /\ Len(before \o after) = Len(before) + Len(after)
    BY <2>1, ConcatProperties
  <2> QED
    BY <2>1, <2>2, <2>3, <1>2, <1>3
<1> HIDE DEF ws
<1>5. ws \in Seq(ToSet(ws)) /\ ToSet(ws) \subseteq S
  BY <1>4, OwnElements
<1>6. AllFine(ws, Created \cup {})
  BY <1>5 DEF AllFine, PanesInv
<1>7. IndicesOk'
  <2> HIDE DEF n
  <2>3. ASSUME NEW a \in 0..(n - 1) PROVE Min({a, n - 2}) \in 0..(n - 2)
    <3>1. a \in Int /\ n - 2 \in Int
      BY <1>2
    <3>2. Min({a, n - 2}) \in {a, n - 2} /\ Min({a, n - 2}) <= n - 2
      BY <3>1, MinOfTwo
    <3> HIDE DEF Min
    <3> QED
      BY <3>2, <1>1, <1>2
  <2>1. Min({activeWindow, n - 2}) \in 0..(n - 2) /\ Min({lastWindow, n - 2}) \in 0..(n - 2)
    BY <2>3, <1>3
  <2>2. ws # << >>
    BY <1>1, <1>2, <1>4
  <2> QED
    BY <2>1, <2>2, <1>1, <1>2, <1>4 DEF IndicesOk
<1>8. NewPanes({})
  BY NoneNext DEF PanesInv
<1> QED
  BY <1>1, <1>6, <1>7, <1>8, WindowsStep

\* A step that leaves the shells and the references alone, or adds to them.
LEMMA NothingDropped ==
    ASSUME PanesInv, UNCHANGED <<windows, shell>>, PanesTyped', IndicesOk',
           Held(windows, reaper, updater) \subseteq Held(windows, reaper, updater)'
    PROVE  PanesInv'
<1>1. Created' = Created
  BY DEF Created
<1>2. Ended'
  BY <1>1 DEF PanesInv, Ended
<1>3. AllFine(windows, Created)'
  BY <1>1 DEF PanesInv
<1> QED
  BY <1>2, <1>3 DEF PanesInv

LEMMA TypedStays ==
    ASSUME PanesTyped, UNCHANGED shell, reaper' \in [queue : Seq(Ids), holds : Ids \cup {NoPane}],
           updater' \in [held : {updater'.held}, panes : {updater'.panes}]
    PROVE  PanesTyped'
BY DEF PanesTyped, Created

LEMMA StepFocus ==
    ASSUME PanesInv, focus_next_window \/ focus_previous_window \/ focus_last_window
    PROVE  PanesInv'
<1> DEFINE n == Len(windows)
<1>1. PICK to : FocusMoves(to) /\ (to = (activeWindow + 1) % n \/ to = (activeWindow + n - 1) % n \/ to = lastWindow)
  BY DEF focus_next_window, focus_previous_window, focus_last_window
<1>2. n > 1 /\ n \in Nat /\ windows # << >>
  BY <1>1 DEF PanesInv, AllFine, FocusMoves
<1>3. activeWindow \in 0..(n - 1) /\ lastWindow \in 0..(n - 1)
  BY <1>2 DEF PanesInv, IndicesOk
<1> HIDE DEF n
<1>4. to \in 0..(n - 1)
  BY <1>1, <1>2, <1>3
<1>5. IndicesOk'
  BY <1>1, <1>2, <1>3, <1>4 DEF FocusMoves, IndicesOk, n
<1>6. PanesTyped'
  BY <1>1 DEF PanesInv, PanesTyped, Created, FocusMoves
<1> QED
  BY <1>1, <1>5, <1>6, NothingDropped DEF FocusMoves, Held, Shown, Queued

----------------------------------------------------------------------------
(* The update thread, the reaper and the end                                *)

LEMMA StepUpdate ==
    ASSUME PanesInv, UpdateBegins \/ update
    PROVE  PanesInv'
<1>1. UNCHANGED <<windows, activeWindow, lastWindow, shell, reaper>> /\ (phase' = "running" => phase = "running")
  BY DEF UpdateBegins, update
<1>2. updater' \in [held : {updater'.held}, panes : {updater'.panes}] /\ updater.panes = {}
  <2>1. CASE UpdateBegins
    BY <2>1 DEF UpdateBegins
  <2>2. CASE update
    BY <2>2 DEF update
  <2> QED
    BY <2>1, <2>2
<1>3. PanesTyped'
  BY <1>1, <1>2, TypedStays DEF PanesInv, PanesTyped
<1>4. IndicesOk'
  BY <1>1 DEF PanesInv, IndicesOk
<1>5. Held(windows, reaper, updater) \subseteq Held(windows, reaper, updater)'
  BY <1>1, <1>2 DEF Held, Shown, Queued
<1> QED
  BY <1>1, <1>3, <1>4, <1>5, NothingDropped

LEMMA StepUpdateDrops ==
    ASSUME PanesInv, UpdateDrops
    PROVE  PanesInv'
<1> DEFINE u == [updater EXCEPT !.panes = {}]
<1>1. Become(windows, reaper, u, {}) /\ UNCHANGED <<activeWindow, lastWindow, phase>>
  BY DEF UpdateDrops
<1>2. Moved(windows, reaper, u, {})
  BY <1>1, NoneNext, BecomeEnds DEF PanesInv
<1>3. u \in [held : {u.held}, panes : {u.panes}]
  BY DEF PanesInv, PanesTyped
<1> HIDE DEF u
<1>4. PanesTyped'
  BY <1>2, <1>3 DEF Moved, PanesTyped, PanesInv
<1>5. IndicesOk'
  BY <1>1, <1>2 DEF Moved, IndicesOk, PanesInv
<1>6. AllFine(windows, Created)'
  BY <1>2 DEF Moved, PanesInv
<1> QED
  BY <1>2, <1>4, <1>5, <1>6 DEF PanesInv, Moved

LEMMA StepReaperTakes ==
    ASSUME PanesInv, ReaperTakes
    PROVE  PanesInv'
<1> DEFINE q == reaper.queue
<1>1. /\ q # << >> /\ reaper.holds = NoPane /\ reaper' = [queue |-> Tail(q), holds |-> Head(q)]
      /\ UNCHANGED <<windows, activeWindow, lastWindow, shell, updater, phase>>
  BY DEF ReaperTakes
<1>2. q \in Seq(Ids)
  BY DEF PanesInv, PanesTyped
<1> HIDE DEF q
<1>3. Head(q) \in Ids /\ Tail(q) \in Seq(Ids) /\ Head(q) = q[1] /\ Len(Tail(q)) = Len(q) - 1 /\ Len(q) \in Nat
      /\ \A i \in 1..Len(Tail(q)) : Tail(q)[i] = q[i + 1]
  BY <1>1, <1>2, HeadTailProperties
<1>4. PanesTyped'
  BY <1>1, <1>3, TypedStays DEF PanesInv, PanesTyped
<1>5. IndicesOk'
  BY <1>1 DEF PanesInv, IndicesOk
<1>6. ToSet(q) \subseteq ToSet(Tail(q)) \cup {Head(q)}
  <2> SUFFICES ASSUME NEW i \in 1..Len(q), q[i] # Head(q) PROVE \E j \in 1..Len(Tail(q)) : Tail(q)[j] = q[i]
    <3>1. DOMAIN q = 1..Len(q) /\ DOMAIN Tail(q) = 1..Len(Tail(q))
      BY <1>2, <1>3
    <3> QED
      BY <3>1 DEF ToSet
  <2>1. i - 1 \in 1..Len(Tail(q)) /\ Tail(q)[i - 1] = q[(i - 1) + 1] /\ (i - 1) + 1 = i
    BY <1>3
  <2> QED
    BY <2>1
<1>7. Queued(reaper) \subseteq Queued(reaper)'
  BY <1>1, <1>6 DEF Queued, q
<1>8. Held(windows, reaper, updater) \subseteq Held(windows, reaper, updater)'
  BY <1>1, <1>7 DEF Held, Shown
<1> QED
  BY <1>1, <1>4, <1>5, <1>8, NothingDropped

LEMMA StepReaperDrops ==
    ASSUME PanesInv, ReaperDrops
    PROVE  PanesInv'
<1> DEFINE r == [reaper EXCEPT !.holds = NoPane]
<1>1. Become(windows, r, updater, {}) /\ UNCHANGED <<activeWindow, lastWindow>> /\ (phase' = "running" => phase = "running")
  BY DEF ReaperDrops
<1>2. Moved(windows, r, updater, {})
  BY <1>1, NoneNext, BecomeEnds DEF PanesInv
<1>3. r \in [queue : Seq(Ids), holds : Ids \cup {NoPane}]
  BY DEF PanesInv, PanesTyped
<1> HIDE DEF r
<1>4. PanesTyped'
  BY <1>2, <1>3 DEF Moved, PanesTyped, PanesInv
<1>5. IndicesOk'
  BY <1>1, <1>2 DEF Moved, IndicesOk, PanesInv
<1>6. AllFine(windows, Created)'
  BY <1>2 DEF Moved, PanesInv
<1> QED
  BY <1>2, <1>4, <1>5, <1>6 DEF PanesInv, Moved

LEMMA StepDestroyed ==
    ASSUME PanesInv, AppDestroyed
    PROVE  PanesInv'
<1>1. Become(<< >>, reaper, updater, {}) /\ UNCHANGED <<activeWindow, lastWindow>> /\ phase' = "closing" /\ windows' = << >>
  BY DEF AppDestroyed, Become
<1>2. AllFine(<< >>, Created \cup {})
  BY EmptySeq DEF AllFine, ToSet
<1>3. IndicesOk'
  BY <1>1 DEF IndicesOk, PanesInv
<1>4. NewPanes({})
  BY NoneNext DEF PanesInv
<1> QED
  BY <1>1, <1>2, <1>3, <1>4, WindowsStep

LEMMA StepEnds ==
    ASSUME PanesInv, quit \/ shutdown
    PROVE  PanesInv'
<1>1. UNCHANGED <<windows, activeWindow, lastWindow, shell, reaper, updater>> /\ phase' # "running"
  BY DEF quit, shutdown
<1>2. PanesTyped' /\ IndicesOk'
  BY <1>1 DEF PanesInv, PanesTyped, IndicesOk, Created
<1> QED
  BY <1>1, <1>2, NothingDropped DEF Held, Shown, Queued

----------------------------------------------------------------------------
(* Every step                                                               *)

LEMMA PanesStep == PanesInv /\ [PanesNext]_paneVars => PanesInv'
<1> SUFFICES ASSUME PanesInv, [PanesNext]_paneVars PROVE PanesInv'
  OBVIOUS
<1>1. CASE UNCHANGED paneVars
  <2>1. UNCHANGED <<windows, activeWindow, lastWindow, shell, reaper, updater, phase>>
    BY <1>1 DEF paneVars
  <2>2. PanesTyped' /\ IndicesOk'
    BY <2>1 DEF PanesInv, PanesTyped, IndicesOk, Created
  <2> QED
    BY <2>1, <2>2, NothingDropped DEF Held, Shown, Queued
<1>2. CASE phase = "running" /\ WindowCommands
  BY <1>2, StepCreate, StepCloseWindow, StepFocus DEF WindowCommands
<1>3. CASE HasWindow /\ PaneCommands
  BY <1>3, StepSplit, StepClose, StepSave, StepRestore, StepZoom DEF PaneCommands
<1>4. CASE HasWindow /\ NavigateCommands
  BY <1>4, StepNavigate DEF NavigateCommands
<1>5. CASE UpdateBegins \/ update \/ UpdateDrops
  BY <1>5, StepUpdate, StepUpdateDrops
<1>6. CASE worker_loop
  BY <1>6, StepReaperTakes, StepReaperDrops DEF worker_loop
<1>7. CASE quit \/ AppDestroyed \/ shutdown
  BY <1>7, StepDestroyed, StepEnds
<1> QED
  BY <1>1, <1>2, <1>3, <1>4, <1>5, <1>6, <1>7 DEF PanesNext

LEMMA PanesAlways == PanesSpec => []PanesInv
BY PanesStart, PanesStep, PTL DEF PanesSpec

(* However splits, closes, restores, the update thread and the reaper        *)
(* interleave, the shell of a pane that no window, queue or copy refers to   *)
(* any more was ended and waited for (Terminal::cleanup).                    *)
THEOREM PanesLeaveNoShell == PanesSpec => []NoShellLeftBehind
<1>1. PanesInv => NoShellLeftBehind
  BY DEF PanesInv, Ended, NoShellLeftBehind
<1> QED
  BY <1>1, PanesAlways, PTL

LEMMA ActiveIsDrawn ==
    ASSUME NEW w, NEW made, Fine(w, made), w.active # NoPane, w.panes \subseteq LeafPanes(w.tree)
    PROVE  w.active \in Drawn(w)
<1>1. Shape(w.tree) /\ Whole(w.tree) /\ w.active \in LeafPanes(w.tree)
  BY DEF Fine, Framed, Sound
<1>2. CASE w.zoomed
  BY <1>2 DEF Drawn, Fine
<1>3. CASE ~w.zoomed
  <2>1. PICK n \in Leaves(w.tree) : w.tree[n].pane = w.active
    BY <1>1 DEF LeafPanes
  <2>2. n \in DOMAIN w.tree
    BY DEF Leaves
  <2>3. ASSUME NEW m \in DOMAIN w.tree, IsStrictPrefix(m, n) PROVE m \notin Leaves(w.tree)
    BY <2>2, <2>3, <1>1 DEF Shape, IsStrictPrefix
  <2>4. \A m \in DOMAIN w.tree : IsStrictPrefix(m, n) => {m \o <<1>>, m \o <<2>>} \subseteq DOMAIN w.tree
    BY <2>3, <1>1 DEF Whole
  <2> QED
    BY <2>1, <2>4, <1>3 DEF Drawn
<1> QED
  BY <1>2, <1>3

(* In every window the pane that is sent what the user types is one the      *)
(* window owns and a leaf of its layout, however its trees were split,       *)
(* promoted, saved and restored; it is drawn (Window::render_node) as long   *)
(* as the layout has every pane of the window, and alone when zoomed         *)
(* (Window::send_input, Window::set_active_locked, Layout::remove_pane).     *)
THEOREM TypedKeysGoWhereShown == PanesSpec => []KeysGoWhereShown
<1>1. PanesInv => KeysGoWhereShown
  <2> SUFFICES ASSUME PanesInv, NEW i \in 1..Len(windows)
               PROVE  LET w == windows[i]
                          leaves == {w.tree[n].pane : n \in Leaves(w.tree)}
                      IN  /\ w.active # NoPane => /\ w.active \in w.panes \cap leaves
                                                 /\ (w.panes \subseteq leaves => w.active \in Drawn(w))
                          /\ w.active = NoPane => leaves = {}
                          /\ w.zoomed => w.target = w.active
    BY DEF KeysGoWhereShown
  <2> DEFINE w == windows[i]
  <2>1. w \in ToSet(windows)
    BY ElementOfSeq DEF PanesInv, AllFine
  <2>2. Fine(w, Created)
    BY <2>1 DEF PanesInv, AllFine
  <2> HIDE DEF w
  <2>3. w.active # NoPane /\ w.panes \subseteq LeafPanes(w.tree) => w.active \in Drawn(w)
    BY <2>2, ActiveIsDrawn
  <2>4. /\ w.active # NoPane => /\ w.active \in w.panes \cap LeafPanes(w.tree)
                               /\ (w.panes \subseteq LeafPanes(w.tree) => w.active \in Drawn(w))
        /\ w.active = NoPane => LeafPanes(w.tree) = {}
        /\ w.zoomed => w.target = w.active
    BY <2>2, <2>3 DEF Fine, Framed, LeafPanes
  <2> QED
    BY <2>4 DEF LeafPanes, w
<1> QED
  BY <1>1, PanesAlways, PTL

=============================================================================
