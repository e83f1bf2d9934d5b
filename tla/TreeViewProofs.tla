--------------------------- MODULE TreeViewProofs ---------------------------
(***************************************************************************)
(* Theorems about TreeView, for every tree, folding, search, filter, order *)
(* and screen.                                                             *)
(*                                                                         *)
(* First what the operators return: rows are numbered in their order, so   *)
(* that opening or closing a row leaves it and the rows above it in place; *)
(* the sort leaves a list that it would not change again; the depths of    *)
(* the rows that show are enough to find parent, sibling and first child.  *)
(* The invariants follow from IInv, the action properties from it and      *)
(* these lemmas.                                                           *)
(***************************************************************************)
EXTENDS TreeView, SequenceTheorems, FiniteSetTheorems, WellFoundedInduction, TLAPS

(***************************************************************************)
(* Numbers.                                                                *)
(***************************************************************************)

LEMMA LeastOf ==
  ASSUME NEW S \in SUBSET Nat, S # {}
  PROVE  \E m \in S : \A n \in S : m <= n
PROOF
<1> DEFINE less == {ss \in Nat \X Nat : ss[1] < ss[2]}
<1>1. IsWellFoundedOn(less, Nat)
  BY NatLessThanWellFounded DEF OpToRel
<1>2. PICK m \in S : \A n \in S : ~ (<<n, m>> \in less)
  BY <1>1, WFMin
<1>3. ASSUME NEW n \in S PROVE m <= n
  <2>1. m \in Nat /\ n \in Nat
    OBVIOUS
  <2>2. n < m => <<n, m>> \in less
    BY <2>1
  <2>3. ~ (n < m)
    BY <1>2, <2>2
  <2> QED
    BY <2>1, <2>3
<1> QED
  BY <1>3

LEMMA GreatestOf ==
  ASSUME NEW n \in Nat, NEW S \in SUBSET (0..n), S # {}
  PROVE  \E m \in S : \A l \in S : l <= m
PROOF
<1> DEFINE T == {n - s : s \in S}
<1>1. T \in SUBSET Nat /\ T # {}
  <2>1. \A s \in S : n - s \in Nat
    OBVIOUS
  <2> QED
    BY <2>1
<1>2. PICK t \in T : \A u \in T : t <= u
  BY <1>1, LeastOf
<1>3. PICK m \in S : t = n - m
  OBVIOUS
<1>4. ASSUME NEW l \in S PROVE l <= m
  <2>1. n - l \in T
    OBVIOUS
  <2>2. n - m <= n - l
    BY <1>2, <1>3, <2>1
  <2>3. l \in Int /\ m \in Int
    OBVIOUS
  <2> QED
    BY <2>2, <2>3
<1> QED
  BY <1>4

(***************************************************************************)
(* Places: the k-th number of a set.                                       *)
(***************************************************************************)

LEMMA PlacesAreNumbers ==
  ASSUME NEW n \in Nat, NEW S \in SUBSET (1..n), NEW i
  PROVE  /\ IsFiniteSet(S) /\ Cardinality(S) \in Nat
         /\ IsFiniteSet({j \in S : j <= i})
         /\ PlaceIn(S, i) \in Nat /\ PlaceIn(S, i) <= Cardinality(S)
PROOF
<1>1. IsFiniteSet(1..n)
  <2>1. 1 \in Int /\ n \in Int
    OBVIOUS
  <2> QED
    BY <2>1, FS_Interval
<1>2. IsFiniteSet(S)
  BY <1>1, FS_Subset
<1>3. {j \in S : j <= i} \in SUBSET S
  OBVIOUS
<1>4. /\ IsFiniteSet({j \in S : j <= i})
      /\ Cardinality({j \in S : j <= i}) <= Cardinality(S)
  BY <1>2, <1>3, FS_Subset
<1>5. Cardinality(S) \in Nat /\ Cardinality({j \in S : j <= i}) \in Nat
  BY <1>2, <1>4, FS_CardinalityType
<1> QED
  BY <1>2, <1>4, <1>5 DEF PlaceIn

\* A greater member of the set has a greater place.
LEMMA PlacesGrow ==
  ASSUME NEW n \in Nat, NEW S \in SUBSET (1..n), NEW i \in 1..n, NEW j \in S, i < j
  PROVE  PlaceIn(S, i) < PlaceIn(S, j)
PROOF
<1> DEFINE I == {l \in S : l <= i}
           J == {l \in S : l <= j}
<1>1. IsFiniteSet(J)
  BY PlacesAreNumbers
<1>2. I \in SUBSET J /\ j \in J /\ j \notin I
  <2>1. i \in Int /\ j \in Int /\ \A l \in S : l \in Int
    OBVIOUS
  <2>2. /\ \A l \in S : l <= i => l <= j
        /\ j <= j /\ ~ (j <= i)
    BY <2>1
  <2> QED
    BY <2>2
<1>3. Cardinality(I) <= Cardinality(J) /\ Cardinality(I) # Cardinality(J)
  BY <1>1, <1>2, FS_Subset
<1>4. PlaceIn(S, i) <= PlaceIn(S, j) /\ PlaceIn(S, i) # PlaceIn(S, j)
  BY <1>3 DEF PlaceIn
<1>5. PlaceIn(S, i) \in Nat /\ PlaceIn(S, j) \in Nat
  BY PlacesAreNumbers
<1> QED
  BY <1>4, <1>5

\* Members of the set have the places from 1 to their number.
LEMMA MembersHavePlaces ==
  ASSUME NEW n \in Nat, NEW S \in SUBSET (1..n), NEW i \in S
  PROVE  PlaceIn(S, i) \in 1..Cardinality(S)
PROOF
<1>1. /\ PlaceIn(S, i) \in Nat /\ PlaceIn(S, i) <= Cardinality(S)
      /\ IsFiniteSet({j \in S : j <= i}) /\ Cardinality(S) \in Nat
  BY PlacesAreNumbers
<1>2. i \in {j \in S : j <= i}
  <2>1. i \in Int
    OBVIOUS
  <2> QED
    BY <2>1
<1>3. PlaceIn(S, i) # 0
  BY <1>1, <1>2, FS_EmptySet DEF PlaceIn
<1> QED
  BY <1>1, <1>3

\* Every place is taken, by one member.
LEMMA NthIsThere ==
  ASSUME NEW n \in Nat, NEW S \in SUBSET (1..n), NEW k \in 1..Cardinality(S)
  PROVE  NthOf(S, k) \in S /\ PlaceIn(S, NthOf(S, k)) = k
PROOF
<1> DEFINE place == [i \in S |-> PlaceIn(S, i)]
           places == 1..Cardinality(S)
<1>1. IsFiniteSet(S) /\ Cardinality(S) \in Nat
  BY PlacesAreNumbers
<1>2. \A i \in S : place[i] \in places
  BY MembersHavePlaces
<1>3. ASSUME NEW i \in S, NEW j \in S, place[i] = place[j] PROVE i = j
  <2>1. PlaceIn(S, i) \in Nat /\ PlaceIn(S, i) = PlaceIn(S, j)
    BY <1>3, PlacesAreNumbers
  <2>2. ~ (i < j) /\ ~ (j < i)
    BY <2>1, PlacesGrow
  <2>3. i \in Int /\ j \in Int
    OBVIOUS
  <2> QED
    BY <2>2, <2>3
<1>4. place \in Injection(S, places)
  BY <1>2, <1>3 DEF Injection, IsInjective
<1>5. IsFiniteSet(places) /\ Cardinality(places) = Cardinality(S)
  BY <1>1, FS_Interval
<1>6. place \in Surjection(S, places)
  <2> HIDE DEF place, places
  <2> QED
    BY <1>4, <1>5, FS_Injection
<1>7. \E i \in S : place[i] = k
  BY <1>6 DEF Surjection
<1> QED
  BY <1>7 DEF NthOf

\* A member stands at its own place.
LEMMA NthOfPlace ==
  ASSUME NEW n \in Nat, NEW S \in SUBSET (1..n), NEW i \in S
  PROVE  NthOf(S, PlaceIn(S, i)) = i
PROOF
<1> DEFINE k == PlaceIn(S, i)
           m == NthOf(S, k)
<1>1. k \in 1..Cardinality(S)
  BY MembersHavePlaces
<1>2. m \in S /\ PlaceIn(S, m) = PlaceIn(S, i)
  BY <1>1, NthIsThere
<1>3. PlaceIn(S, i) \in Nat
  BY PlacesAreNumbers
<1> HIDE DEF m
<1>4. ~ (i < m) /\ ~ (m < i)
  BY <1>2, <1>3, PlacesGrow
<1>5. m = i
  <2>1. m \in Int /\ i \in Int
    BY <1>2
  <2> QED
    BY <1>4, <2>1
<1> QED
  BY <1>5 DEF m

\* Members stand in their order.
LEMMA NthGrows ==
  ASSUME NEW n \in Nat, NEW S \in SUBSET (1..n),
         NEW k \in 1..Cardinality(S), NEW l \in 1..Cardinality(S), k < l
  PROVE  NthOf(S, k) < NthOf(S, l)
PROOF
<1> DEFINE i == NthOf(S, k)
           j == NthOf(S, l)
<1>1. i \in S /\ j \in S /\ PlaceIn(S, i) = k /\ PlaceIn(S, j) = l
  BY NthIsThere
<1>2. Cardinality(S) \in Nat
  BY PlacesAreNumbers
<1> HIDE DEF i, j
<1>3. i # j /\ ~ (j < i)
  BY <1>1, <1>2, PlacesGrow
<1>4. i < j
  <2>1. i \in Int /\ j \in Int
    BY <1>1
  <2> QED
    BY <1>3, <2>1
<1> QED
  BY <1>4 DEF i, j

(***************************************************************************)
(* The tree.                                                               *)
(***************************************************************************)

Size(c) == Len(Shape[c])
NodeAt(c, i) == Shape[c][i].node
DepthAt(c, i) == Shape[c][i].depth

\* Row j is a group around row i.
Encloses(c, j, i) ==
  j \in 1..(i - 1) /\ \A l \in (j + 1)..i : DepthAt(c, l) > DepthAt(c, j)

\* What flatten_node gives for a tree.
LEMMA TreeFacts ==
  ASSUME NEW c \in BOOLEAN
  PROVE  /\ Size(c) \in Nat /\ Size(c) >= 1 /\ DepthAt(c, 1) = 0
         /\ \A i \in 1..Size(c) : NodeAt(c, i) \in DOMAIN Kind /\ DepthAt(c, i) \in Nat
         /\ \A i \in 1..Size(c), j \in 1..Size(c) : NodeAt(c, i) = NodeAt(c, j) => i = j
         /\ \A i \in 1..(Size(c) - 1) :
              /\ DepthAt(c, i + 1) <= DepthAt(c, i) + 1
              /\ ~ IsGroup(NodeAt(c, i)) => DepthAt(c, i + 1) <= DepthAt(c, i)
PROOF
<1> DEFINE row == [node : DOMAIN Kind, depth : Nat]
<1>1. TreeRows(Shape[c])
  BY TreeViewAssumptions
<1>2. Shape[c] \in Seq(row) /\ Shape[c] # <<>>
  BY <1>1 DEF TreeRows
<1>3. Len(Shape[c]) \in Nat /\ Len(Shape[c]) >= 1
  BY <1>2, EmptySeq, LenProperties
<1>4. \A i \in 1..Len(Shape[c]) : Shape[c][i] \in row
  BY <1>2, ElementOfSeq
<1>5. \A i \in 1..Len(Shape[c]) : Shape[c][i].node \in DOMAIN Kind /\ Shape[c][i].depth \in Nat
  BY <1>4
<1>6. \A i \in 1..(Len(Shape[c]) - 1) :
        Shape[c][i + 1].depth
          <= Shape[c][i].depth + (IF IsGroup(Shape[c][i].node) THEN 1 ELSE 0)
  BY <1>1 DEF TreeRows
<1>7. \A i \in 1..(Len(Shape[c]) - 1) :
        /\ Shape[c][i + 1].depth <= Shape[c][i].depth + 1
        /\ ~ IsGroup(Shape[c][i].node) => Shape[c][i + 1].depth <= Shape[c][i].depth
  <2> TAKE i \in 1..(Len(Shape[c]) - 1)
  <2>1. i \in 1..Len(Shape[c]) /\ i + 1 \in 1..Len(Shape[c])
    BY <1>3
  <2>2. Shape[c][i].depth \in Nat /\ Shape[c][i + 1].depth \in Nat
    BY <1>5, <2>1
  <2>3. CASE IsGroup(Shape[c][i].node)
    BY <1>6, <2>2, <2>3
  <2>4. CASE ~ IsGroup(Shape[c][i].node)
    BY <1>6, <2>2, <2>4
  <2> QED
    BY <2>3, <2>4
<1> QED
  BY <1>1, <1>3, <1>5, <1>7 DEF TreeRows, Size, NodeAt, DepthAt

LEMMA AroundIs ==
  ASSUME NEW c \in BOOLEAN, NEW i \in 1..Size(c)
  PROVE  /\ \A j \in 1..Size(c) : NodeAt(c, j) \in Around[c][i] <=> Encloses(c, j, i)
         /\ \A n \in Around[c][i] : \E j \in 1..Size(c) :
              n = NodeAt(c, j) /\ Encloses(c, j, i)
PROOF
<1> DEFINE js == {k \in 1..(i - 1) : \A l \in (k + 1)..i : Shape[c][l].depth > Shape[c][k].depth}
<1>1. Around[c][i] = {Shape[c][j].node : j \in js}
  BY DEF Around, Size
<1>2. Size(c) \in Nat
  BY TreeFacts
<1>3. js \subseteq 1..Size(c) /\ \A j \in 1..Size(c) : j \in js <=> Encloses(c, j, i)
  <2>1. \A j \in 1..(i - 1) : j \in 1..Size(c)
    BY <1>2
  <2> QED
    BY <2>1 DEF Encloses, DepthAt
<1>4. \A j \in 1..Size(c), k \in 1..Size(c) : NodeAt(c, j) = NodeAt(c, k) => j = k
  BY TreeFacts
<1> HIDE DEF js
<1>5. \A n : n \in Around[c][i] <=> \E j \in js : n = NodeAt(c, j)
  BY <1>1 DEF NodeAt
<1> QED
  BY <1>3, <1>4, <1>5

\* Only groups have rows inside.
LEMMA AroundAreGroups ==
  ASSUME NEW c \in BOOLEAN, NEW i \in 1..Size(c)
  PROVE  Around[c][i] \subseteq Groups(c)
PROOF
<1> SUFFICES ASSUME NEW n \in Around[c][i] PROVE n \in Groups(c)
  OBVIOUS
<1>1. PICK j \in 1..Size(c) : n = NodeAt(c, j) /\ Encloses(c, j, i)
  BY AroundIs
<1>2. Size(c) \in Nat
  BY TreeFacts
<1>3. j \in 1..(Size(c) - 1) /\ j + 1 \in (j + 1)..i /\ j + 1 \in 1..Size(c)
  BY <1>1, <1>2 DEF Encloses
<1>4. DepthAt(c, j + 1) > DepthAt(c, j)
  BY <1>1, <1>3 DEF Encloses
<1>5. IsGroup(NodeAt(c, j))
  <2>1. DepthAt(c, j) \in Nat /\ DepthAt(c, j + 1) \in Nat
    BY <1>3, TreeFacts
  <2>2. ~ (DepthAt(c, j + 1) <= DepthAt(c, j))
    BY <1>4, <2>1
  <2> QED
    BY <1>3, <2>2, TreeFacts
<1> QED
  BY <1>1, <1>5 DEF Groups, Nodes, NodeAt, Size

\* What is around a group is around what is in it.
LEMMA EnclosesTwice ==
  ASSUME NEW c \in BOOLEAN, NEW i \in 1..Size(c), NEW j \in 1..Size(c), NEW l \in 1..Size(c),
         Encloses(c, l, i)
  PROVE  /\ Encloses(c, j, l) => Encloses(c, j, i)
         /\ Encloses(c, j, i) /\ j < l => Encloses(c, j, l)
PROOF
<1>1. Size(c) \in Nat /\ \A k \in 1..Size(c) : DepthAt(c, k) \in Nat
  BY TreeFacts
<1>2. l \in 1..(i - 1) /\ \A k \in (l + 1)..i : DepthAt(c, k) > DepthAt(c, l)
  BY DEF Encloses
<1>3. ASSUME Encloses(c, j, l) PROVE Encloses(c, j, i)
  <2>1. j \in 1..(l - 1) /\ \A k \in (j + 1)..l : DepthAt(c, k) > DepthAt(c, j)
    BY <1>3 DEF Encloses
  <2>2. DepthAt(c, l) > DepthAt(c, j)
    BY <2>1
  <2>3. ASSUME NEW k \in (j + 1)..i PROVE DepthAt(c, k) > DepthAt(c, j)
    <3>1. k \in 1..Size(c)
      BY <1>1, <2>1
    <3>2. DepthAt(c, k) \in Nat /\ DepthAt(c, j) \in Nat /\ DepthAt(c, l) \in Nat
      BY <1>1, <3>1
    <3>3. CASE k <= l
      BY <2>1, <3>3
    <3>4. CASE l < k
      BY <1>2, <2>2, <3>2, <3>4
    <3> QED
      BY <3>3, <3>4
  <2>4. j \in 1..(i - 1)
    BY <1>2, <2>1
  <2> QED
    BY <2>3, <2>4 DEF Encloses
<1>4. ASSUME Encloses(c, j, i), j < l PROVE Encloses(c, j, l)
  <2>1. \A k \in (j + 1)..l : k \in (j + 1)..i
    BY <1>2
  <2> QED
    BY <1>4, <2>1 DEF Encloses
<1> QED
  BY <1>3, <1>4

(***************************************************************************)
(* The rows that show.                                                     *)
(***************************************************************************)

\* The first row always shows, and what is around a row that shows is open.
LEMMA ShownFacts ==
  ASSUME NEW c \in BOOLEAN, NEW o
  PROVE  /\ Shown(c, o) \in SUBSET (1..Size(c)) /\ 1 \in Shown(c, o)
         /\ \A i \in 1..Size(c) : i \in Shown(c, o) <=> Around[c][i] \subseteq o
         /\ \A i \in Shown(c, o), j \in 1..Size(c) :
              Encloses(c, j, i) => j \in Shown(c, o) /\ NodeAt(c, j) \in o
PROOF
<1>1. Size(c) \in Nat /\ 1 \in 1..Size(c)
  BY TreeFacts
<1>2. Shown(c, o) \in SUBSET (1..Size(c))
  BY DEF Shown, Size
<1>3. \A i \in 1..Size(c) : i \in Shown(c, o) <=> Around[c][i] \subseteq o
  BY DEF Shown, Size
<1>4. 1 \in Shown(c, o)
  <2>1. \A j \in 1..Size(c) : ~ Encloses(c, j, 1)
    BY DEF Encloses
  <2>2. Around[c][1] = {}
    BY <1>1, <2>1, AroundIs
  <2> QED
    BY <1>1, <1>3, <2>2
<1>5. ASSUME NEW i \in Shown(c, o), NEW j \in 1..Size(c), Encloses(c, j, i)
      PROVE  j \in Shown(c, o) /\ NodeAt(c, j) \in o
  <2>1. i \in 1..Size(c) /\ Around[c][i] \subseteq o
    BY <1>2, <1>3
  <2>2. NodeAt(c, j) \in o
    BY <1>5, <2>1, AroundIs
  <2>3. ASSUME NEW n \in Around[c][j] PROVE n \in o
    <3>1. PICK l \in 1..Size(c) : n = NodeAt(c, l) /\ Encloses(c, l, j)
      BY AroundIs
    <3>2. Encloses(c, l, i)
      BY <1>5, <2>1, <3>1, EnclosesTwice
    <3> QED
      BY <2>1, <3>1, <3>2, AroundIs
  <2> QED
    BY <1>3, <2>2, <2>3
<1> QED
  BY <1>2, <1>3, <1>4, <1>5

\* flatten_tree: the k-th row is the k-th that shows, and there is always one.
LEMMA FlatFacts ==
  ASSUME NEW c \in BOOLEAN, NEW o
  PROVE  /\ FlattenTree(c, o) \in Seq(Rows)
         /\ Len(FlattenTree(c, o)) = Cardinality(Shown(c, o))
         /\ Len(FlattenTree(c, o)) \in Nat /\ Len(FlattenTree(c, o)) >= 1
         /\ \A k \in 1..Len(FlattenTree(c, o)) :
              /\ NthOf(Shown(c, o), k) \in Shown(c, o)
              /\ FlattenTree(c, o)[k] = RowOf(c, o, NthOf(Shown(c, o), k))
              /\ FlattenTree(c, o)[k].node \in Nodes(c)
         /\ \A i \in Shown(c, o) :
              /\ PlaceIn(Shown(c, o), i) \in 1..Len(FlattenTree(c, o))
              /\ NthOf(Shown(c, o), PlaceIn(Shown(c, o), i)) = i
              /\ FlattenTree(c, o)[PlaceIn(Shown(c, o), i)] = RowOf(c, o, i)
PROOF
<1> DEFINE shown == Shown(c, o)
           count == Cardinality(shown)
           flat == [k \in 1..count |-> RowOf(c, o, NthOf(shown, k))]
<1>1. Size(c) \in Nat /\ shown \in SUBSET (1..Size(c)) /\ 1 \in shown
  BY TreeFacts, ShownFacts
<1>2. count \in Nat /\ \A k \in 1..count : NthOf(shown, k) \in shown
  BY <1>1, PlacesAreNumbers, NthIsThere
<1>3. FlattenTree(c, o) = flat
  BY DEF FlattenTree
<1>4. \A i \in shown : RowOf(c, o, i) \in Rows /\ RowOf(c, o, i).node \in Nodes(c)
  <2> TAKE i \in shown
  <2>1. i \in 1..Size(c) /\ NodeAt(c, i) \in DOMAIN Kind /\ DepthAt(c, i) \in Nat
    BY <1>1, TreeFacts
  <2>2. RowOf(c, o, i).node = NodeAt(c, i) /\ RowOf(c, o, i) \in Rows
    BY <2>1 DEF RowOf, Rows, NodeAt, DepthAt
  <2> QED
    BY <2>1, <2>2 DEF Nodes, NodeAt, Size
<1>5. \A i \in shown : PlaceIn(shown, i) \in 1..count /\ NthOf(shown, PlaceIn(shown, i)) = i
  BY <1>1, MembersHavePlaces, NthOfPlace
<1>6. count >= 1
  <2>1. PlaceIn(shown, 1) \in 1..count
    BY <1>1, <1>5
  <2> QED
    BY <1>2, <2>1
<1> HIDE DEF shown, count
<1>7. flat \in Seq(Rows)
  <2>1. \A k \in 1..count : RowOf(c, o, NthOf(shown, k)) \in Rows
    BY <1>2, <1>4
  <2> QED
    BY <1>2, <2>1, IsASeq
<1>8. Len(flat) = count
  <2>1. DOMAIN flat = 1..Len(flat) /\ Len(flat) \in Nat
    BY <1>7, LenProperties
  <2>2. 1..Len(flat) = 1..count
    BY <2>1
  <2> QED
    BY <1>2, <2>1, <2>2
<1>9. \A k \in 1..count : flat[k] = RowOf(c, o, NthOf(shown, k))
  OBVIOUS
<1> HIDE DEF flat
<1>10. \A i \in shown : flat[PlaceIn(shown, i)] = RowOf(c, o, i)
  BY <1>5, <1>9
<1> QED
  BY <1>2, <1>3, <1>4, <1>5, <1>6, <1>7, <1>8, <1>9, <1>10 DEF shown, count

\* Opening or closing a group that shows leaves its row and the rows above it
\* where they are.
LEMMA ToggledRowStays ==
  ASSUME NEW c \in BOOLEAN, NEW o, NEW u, NEW i \in Shown(c, o),
         \A n \in Nodes(c) : n # NodeAt(c, i) => (n \in o <=> n \in u)
  PROVE  /\ i \in Shown(c, u) /\ PlaceIn(Shown(c, u), i) = PlaceIn(Shown(c, o), i)
         /\ PlaceIn(Shown(c, o), i) <= Len(FlattenTree(c, u))
PROOF
<1>1. Size(c) \in Nat /\ Shown(c, o) \in SUBSET (1..Size(c)) /\ Shown(c, u) \in SUBSET (1..Size(c))
  BY TreeFacts, ShownFacts
<1>2. ASSUME NEW j \in 1..i PROVE j \in Shown(c, o) <=> j \in Shown(c, u)
  <2>1. i \in 1..Size(c) /\ j \in 1..Size(c)
    BY <1>1
  <2>2. ~ Encloses(c, i, j)
    BY <2>1 DEF Encloses
  <2>3. NodeAt(c, i) \notin Around[c][j]
    BY <2>1, <2>2, AroundIs
  <2>4. Around[c][j] \subseteq Nodes(c)
    BY <2>1, AroundAreGroups DEF Groups
  <2>5. Around[c][j] \subseteq o <=> Around[c][j] \subseteq u
    BY <2>3, <2>4
  <2> QED
    BY <2>1, <2>5, ShownFacts
<1>3. PlaceIn(Shown(c, u), i) = PlaceIn(Shown(c, o), i)
  <2>1. \A l \in 1..Size(c) : l <= i => l \in 1..i
    BY <1>1
  <2>2. {l \in Shown(c, o) : l <= i} = {l \in Shown(c, u) : l <= i}
    BY <1>1, <1>2, <2>1
  <2> QED
    BY <2>2 DEF PlaceIn
<1>4. i \in Shown(c, u)
  <2>1. i \in 1..i
    BY <1>1
  <2> QED
    BY <1>2, <2>1
<1>5. PlaceIn(Shown(c, u), i) \in 1..Len(FlattenTree(c, u)) /\ Len(FlattenTree(c, u)) \in Nat
  BY <1>4, FlatFacts
<1> QED
  BY <1>3, <1>4, <1>5

(***************************************************************************)
(* The sort.                                                               *)
(***************************************************************************)

IsKey(key) == key # "None" /\ \E k \in 1..Len(SortKeys) : SortKeys[k] = key

\* No row stands right after one that it comes before.
InOrder(key, asc, rows) ==
  \A i \in 1..(Len(rows) - 1) : ~ Before(key, asc, rows[i + 1], rows[i])

\* A row that does not come before the last one.
GoesLast(key, asc, rows, row) ==
  Len(rows) = 0 \/ ~ Before(key, asc, row, rows[Len(rows)])

\* Two rows never come before each other.
LEMMA BeforeIsOneWay ==
  ASSUME NEW key, IsKey(key), NEW asc \in BOOLEAN, NEW a \in Rows, NEW b \in Rows,
         Before(key, asc, a, b)
  PROVE  ~ Before(key, asc, b, a)
PROOF
<1>1. /\ IsTensor(a.node) /\ IsTensor(b.node)
      /\ a.node \in DOMAIN Kind /\ b.node \in DOMAIN Kind
  BY DEF Before, Rows
<1>2. Facet[key][a.node] \in Nat /\ Facet[key][b.node] \in Nat
  BY <1>1, TreeViewAssumptions DEF IsKey
<1>3. CASE asc
  BY <1>2, <1>3 DEF Before
<1>4. CASE ~ asc
  BY <1>2, <1>4 DEF Before
<1> QED
  BY <1>3, <1>4

\* Where a row goes: right after the last one it does not come before.
LEMMA InsertShape ==
  ASSUME NEW key, NEW asc, NEW rows \in Seq(Rows), NEW row \in Rows
  PROVE  \E at \in 0..Len(rows) :
           /\ InsertRow(key, asc, rows, row)
                = SubSeq(rows, 1, at) \o <<row>> \o SubSeq(rows, at + 1, Len(rows))
           /\ at # 0 => ~ Before(key, asc, row, rows[at])
           /\ \A k \in (at + 1)..Len(rows) : Before(key, asc, row, rows[k])
PROOF
<1> DEFINE stop == {k \in 1..Len(rows) : ~ Before(key, asc, row, rows[k])}
           at == IF stop = {} THEN 0 ELSE CHOOSE k \in stop : \A l \in stop : l <= k
<1>1. Len(rows) \in Nat
  BY LenProperties
<1>2. stop # {} => at \in stop /\ \A l \in stop : l <= at
  <2>1. stop \in SUBSET (0..Len(rows))
    BY <1>1
  <2>2. stop # {} => \E k \in stop : \A l \in stop : l <= k
    BY <1>1, <2>1, GreatestOf
  <2> QED
    BY <2>2
<1>3. InsertRow(key, asc, rows, row)
        = SubSeq(rows, 1, at) \o <<row>> \o SubSeq(rows, at + 1, Len(rows))
  BY DEF InsertRow
<1>4. at \in 0..Len(rows)
  BY <1>1, <1>2
<1>5. at # 0 => ~ Before(key, asc, row, rows[at])
  BY <1>2
<1>6. \A k \in 1..Len(rows) : k > at => Before(key, asc, row, rows[k])
  <2> HIDE DEF at
  <2>1. \A k \in 1..Len(rows) : k > at => k \notin stop
    BY <1>1, <1>2, <1>4
  <2> QED
    BY <2>1
<1> HIDE DEF at
<1>7. \A k \in (at + 1)..Len(rows) : k \in 1..Len(rows) /\ k > at
  BY <1>1, <1>4
<1> QED
  BY <1>3, <1>4, <1>5, <1>6, <1>7

\* A row stands in a list where it was put in: right after the last one that it
\* does not come before; what stood behind has moved on.
StandsAt(key, asc, rows, row, new, at) ==
  /\ at # 0 => ~ Before(key, asc, row, rows[at])
  /\ \A k \in (at + 1)..Len(rows) : Before(key, asc, row, rows[k])
  /\ \A i \in 1..(Len(rows) + 1) :
       new[i] = IF i <= at THEN rows[i] ELSE IF i = at + 1 THEN row ELSE rows[i - 1]

LEMMA InsertedAt ==
  ASSUME NEW key, NEW asc, NEW rows \in Seq(Rows), NEW row \in Rows
  PROVE  /\ InsertRow(key, asc, rows, row) \in Seq(Rows)
         /\ Len(InsertRow(key, asc, rows, row)) = Len(rows) + 1
         /\ \E at \in 0..Len(rows) :
              StandsAt(key, asc, rows, row, InsertRow(key, asc, rows, row), at)
PROOF
<1>1. Len(rows) \in Nat /\ \A i \in 1..Len(rows) : rows[i] \in Rows
  BY LenProperties, ElementOfSeq
<1>2. PICK at \in 0..Len(rows) :
           /\ InsertRow(key, asc, rows, row)
                = SubSeq(rows, 1, at) \o <<row>> \o SubSeq(rows, at + 1, Len(rows))
           /\ at # 0 => ~ Before(key, asc, row, rows[at])
           /\ \A k \in (at + 1)..Len(rows) : Before(key, asc, row, rows[k])
  BY InsertShape
<1> DEFINE left == SubSeq(rows, 1, at)
           right == SubSeq(rows, at + 1, Len(rows))
           new == InsertRow(key, asc, rows, row)
<1>3. /\ left \in Seq(Rows) /\ Len(left) = at
      /\ \A i \in 1..at : left[i] = rows[i]
  <2>1. \A i \in 1..at : rows[i] \in Rows
    BY <1>1
  <2>2. 1 \in Int /\ at \in Int
    BY <1>1
  <2>3. /\ left \in Seq(Rows) /\ Len(left) = IF 1 <= at THEN at - 1 + 1 ELSE 0
        /\ \A i \in 1..(at - 1 + 1) : left[i] = rows[1 + i - 1]
    BY <2>1, <2>2, SubSeqProperties
  <2> HIDE DEF left
  <2> QED
    BY <1>1, <2>3
<1>4. /\ right \in Seq(Rows) /\ Len(right) = Len(rows) - at
      /\ \A i \in 1..(Len(rows) - at) : right[i] = rows[at + i]
  <2>1. \A i \in (at + 1)..Len(rows) : rows[i] \in Rows
    BY <1>1
  <2>2. at + 1 \in Int /\ Len(rows) \in Int
    BY <1>1
  <2>3. /\ right \in Seq(Rows)
        /\ Len(right) = IF at + 1 <= Len(rows) THEN Len(rows) - (at + 1) + 1 ELSE 0
        /\ \A i \in 1..(Len(rows) - (at + 1) + 1) : right[i] = rows[at + 1 + i - 1]
    BY <2>1, <2>2, SubSeqProperties
  <2> HIDE DEF right
  <2>4. \A i \in 1..(Len(rows) - at) : i \in 1..(Len(rows) - (at + 1) + 1) /\ at + 1 + i - 1 = at + i
    BY <1>1
  <2> QED
    BY <1>1, <2>3, <2>4
<1> HIDE DEF left, right
<1>5. /\ left \o <<row>> \in Seq(Rows) /\ Len(left \o <<row>>) = at + 1
      /\ \A i \in 1..(at + 1) : (left \o <<row>>)[i] = IF i <= at THEN rows[i] ELSE row
  <2>1. <<row>> \in Seq(Rows) /\ Len(<<row>>) = 1 /\ <<row>>[1] = row
    OBVIOUS
  <2>2. /\ left \o <<row>> \in Seq(Rows) /\ Len(left \o <<row>>) = at + 1
        /\ \A i \in 1..(at + 1) : (left \o <<row>>)[i] =
             IF i <= at THEN left[i] ELSE <<row>>[i - at]
    BY <1>3, <2>1, ConcatProperties
  <2>3. \A i \in 1..(at + 1) : IF i <= at THEN i \in 1..at ELSE i - at = 1
    BY <1>1
  <2> QED
    BY <1>3, <2>1, <2>2, <2>3
<1>6. /\ new \in Seq(Rows) /\ Len(new) = Len(rows) + 1
      /\ \A i \in 1..(Len(rows) + 1) :
           new[i] = IF i <= at THEN rows[i] ELSE IF i = at + 1 THEN row ELSE rows[i - 1]
  <2> DEFINE head == left \o <<row>>
  <2>1. new = head \o right
    BY <1>2 DEF left, right
  <2> HIDE DEF head, new
  <2>2. head \in Seq(Rows) /\ Len(head) = at + 1
    BY <1>5 DEF head
  <2>3. /\ new \in Seq(Rows) /\ Len(new) = Len(head) + Len(right)
        /\ \A i \in 1..(Len(head) + Len(right)) : new[i] =
             IF i <= Len(head) THEN head[i] ELSE right[i - Len(head)]
    BY <1>4, <2>1, <2>2, ConcatProperties
  <2>4. Len(head) + Len(right) = Len(rows) + 1
    BY <1>1, <1>4, <2>2
  <2>5. ASSUME NEW i \in 1..(Len(rows) + 1)
        PROVE  new[i] = IF i <= at THEN rows[i] ELSE IF i = at + 1 THEN row ELSE rows[i - 1]
    <3>1. CASE i <= at
      <4>1. new[i] = head[i] /\ i \in 1..(at + 1)
        BY <1>1, <2>2, <2>3, <2>4, <3>1
      <4> QED
        BY <1>5, <3>1, <4>1 DEF head
    <3>2. CASE i = at + 1
      <4>1. new[i] = head[i] /\ i \in 1..(at + 1) /\ ~ (i <= at)
        BY <1>1, <2>2, <2>3, <2>4, <3>2
      <4> QED
        BY <1>5, <3>2, <4>1 DEF head
    <3>3. CASE i > at + 1
      <4>1. /\ new[i] = right[i - (at + 1)] /\ i - (at + 1) \in 1..(Len(rows) - at)
            /\ at + (i - (at + 1)) = i - 1 /\ ~ (i <= at) /\ i # at + 1
        BY <1>1, <2>2, <2>3, <2>4, <3>3
      <4> QED
        BY <1>4, <4>1
    <3> QED
      BY <1>1, <3>1, <3>2, <3>3
  <2> QED
    BY <2>3, <2>4, <2>5
<1>7. StandsAt(key, asc, rows, row, new, at)
  BY <1>2, <1>6 DEF StandsAt
<1> QED
  BY <1>6, <1>7 DEF new

\* The row goes in, the others keep their order, and what was in order is.
LEMMA InsertFacts ==
  ASSUME NEW key, IsKey(key), NEW asc \in BOOLEAN, NEW rows \in Seq(Rows), NEW row \in Rows
  PROVE  /\ InsertRow(key, asc, rows, row) \in Seq(Rows)
         /\ Len(InsertRow(key, asc, rows, row)) = Len(rows) + 1
         /\ InOrder(key, asc, rows) => InOrder(key, asc, InsertRow(key, asc, rows, row))
         /\ GoesLast(key, asc, rows, row)
              => InsertRow(key, asc, rows, row) = Append(rows, row)
PROOF
<1> DEFINE new == InsertRow(key, asc, rows, row)
<1>1. Len(rows) \in Nat /\ \A i \in 1..Len(rows) : rows[i] \in Rows
  BY LenProperties, ElementOfSeq
<1>2. new \in Seq(Rows) /\ Len(new) = Len(rows) + 1
  BY InsertedAt
<1>3. PICK at \in 0..Len(rows) : StandsAt(key, asc, rows, row, new, at)
  BY InsertedAt
<1> HIDE DEF new
<1> USE DEF StandsAt
<1>4. ASSUME InOrder(key, asc, rows) PROVE InOrder(key, asc, new)
  <2> SUFFICES ASSUME NEW i \in 1..(Len(new) - 1)
               PROVE  ~ Before(key, asc, new[i + 1], new[i])
    BY DEF InOrder
  <2>1. i \in 1..(Len(rows) + 1) /\ i + 1 \in 1..(Len(rows) + 1)
    BY <1>1, <1>2
  <2>2. CASE i < at
    <3>1. new[i] = rows[i] /\ new[i + 1] = rows[i + 1] /\ i \in 1..(Len(rows) - 1)
      BY <1>1, <1>2, <1>3, <2>1, <2>2
    <3> QED
      BY <1>4, <3>1 DEF InOrder
  <2>3. CASE i = at
    <3>1. new[i] = rows[i] /\ new[i + 1] = row /\ at # 0
      BY <1>1, <1>2, <1>3, <2>1, <2>3
    <3> QED
      BY <1>3, <2>3, <3>1
  <2>4. CASE i = at + 1
    <3>1. new[i] = row /\ new[i + 1] = rows[i] /\ i \in (at + 1)..Len(rows) /\ i \in 1..Len(rows)
      BY <1>1, <1>2, <1>3, <2>1, <2>4
    <3>2. Before(key, asc, row, rows[i]) /\ rows[i] \in Rows
      BY <1>1, <1>3, <3>1
    <3> QED
      BY <3>1, <3>2, BeforeIsOneWay
  <2>5. CASE i > at + 1
    <3>1. /\ new[i] = rows[i - 1] /\ new[i + 1] = rows[(i - 1) + 1]
          /\ i - 1 \in 1..(Len(rows) - 1)
      BY <1>1, <1>2, <1>3, <2>1, <2>5
    <3> QED
      BY <1>4, <3>1 DEF InOrder
  <2> QED
    BY <1>1, <2>1, <2>2, <2>3, <2>4, <2>5
<1>5. ASSUME GoesLast(key, asc, rows, row) PROVE new = Append(rows, row)
  <2>1. at = Len(rows)
    <3>1. Len(rows) # 0 => ~ (Len(rows) \in (at + 1)..Len(rows))
      BY <1>3, <1>5 DEF GoesLast
    <3> QED
      BY <1>1, <3>1
  <2> DEFINE added == Append(rows, row)
  <2>2. /\ added \in Seq(Rows) /\ Len(added) = Len(rows) + 1
        /\ \A i \in 1..Len(rows) : added[i] = rows[i]
        /\ added[Len(rows) + 1] = row
    BY AppendProperties
  <2> HIDE DEF added
  <2>3. \A i \in 1..Len(new) : new[i] = added[i]
    BY <1>1, <1>2, <1>3, <2>1, <2>2
  <2>4. Len(new) = Len(added)
    BY <1>2, <2>2
  <2>5. new = added
    BY <1>2, <2>2, <2>3, <2>4, SeqEqual
  <2> QED
    BY <2>5 DEF added
<1> QED
  BY <1>2, <1>4, <1>5 DEF new

\* What has gone in after each row.
Insertions(key, asc, rows, done, m) ==
  done = [n \in 0..m |-> IF n = 0 THEN <<>>
                         ELSE InsertRow(key, asc, done[n - 1], rows[n])]

LEMMA InsertionsExist ==
  ASSUME NEW key, NEW asc, NEW rows, NEW m \in Nat
  PROVE  \E done : Insertions(key, asc, rows, done, m)
PROOF
<1> DEFINE bad == {n \in Nat : ~ \E done : Insertions(key, asc, rows, done, n)}
<1>1. SUFFICES ASSUME bad # {} PROVE FALSE
  OBVIOUS
<1>2. PICK n \in bad : \A l \in bad : n <= l
  <2>1. bad \in SUBSET Nat
    OBVIOUS
  <2> HIDE DEF bad
  <2> QED
    BY <1>1, <2>1, LeastOf
<1>3. n \in Nat /\ ~ \E done : Insertions(key, asc, rows, done, n)
  OBVIOUS
<1>4. CASE n = 0
  <2> DEFINE none == [l \in 0..n |-> <<>>]
  <2>1. Insertions(key, asc, rows, none, n)
    BY <1>4 DEF Insertions
  <2> QED
    BY <1>3, <2>1
<1>5. CASE n # 0
  <2>1. n - 1 \in Nat /\ n - 1 \notin bad
    BY <1>2, <1>3, <1>5
  <2>2. PICK done : Insertions(key, asc, rows, done, n - 1)
    BY <2>1
  <2>3. \A l \in 0..(n - 1) : done[l] = IF l = 0 THEN <<>>
                                        ELSE InsertRow(key, asc, done[l - 1], rows[l])
    BY <2>2 DEF Insertions
  <2> DEFINE last == InsertRow(key, asc, done[n - 1], rows[n])
             more == [l \in 0..n |-> IF l = n THEN last ELSE done[l]]
             value(l) == IF l = 0 THEN <<>> ELSE InsertRow(key, asc, more[l - 1], rows[l])
  <2>4. ASSUME NEW l \in 0..n PROVE more[l] = value(l)
    <3>1. CASE l = 0
      <4>1. l \in 0..(n - 1) /\ l # n
        BY <1>3, <1>5, <3>1
      <4> QED
        BY <2>3, <3>1, <4>1
    <3>2. CASE l = n
      <4>1. n - 1 \in 0..n /\ n - 1 # n
        BY <1>3, <1>5
      <4>2. more[n - 1] = done[n - 1]
        BY <4>1
      <4> HIDE DEF more
      <4>3. value(l) = InsertRow(key, asc, done[n - 1], rows[n])
        BY <1>5, <3>2, <4>2
      <4> QED
        BY <3>2, <4>3 DEF more
    <3>3. CASE l # 0 /\ l # n
      <4>1. l \in 0..(n - 1) /\ l - 1 \in 0..n /\ l - 1 # n
        BY <1>3, <3>3
      <4>2. more[l] = done[l] /\ more[l - 1] = done[l - 1]
        BY <3>3, <4>1
      <4> HIDE DEF more
      <4>3. value(l) = InsertRow(key, asc, done[l - 1], rows[l])
        BY <3>3, <4>2
      <4> QED
        BY <2>3, <3>3, <4>1, <4>2, <4>3
    <3> QED
      BY <3>1, <3>2, <3>3
  <2>5. more = [l \in 0..n |-> value(l)]
    BY <2>4
  <2>6. Insertions(key, asc, rows, more, n)
    BY <2>5 DEF Insertions
  <2> QED
    BY <1>3, <2>6
<1> QED
  BY <1>4, <1>5

\* sort_rows keeps the number of rows, puts them in order, and does not
\* change what is in order.
LEMMA InsertionsFacts ==
  ASSUME NEW key, IsKey(key), NEW asc \in BOOLEAN, NEW rows \in Seq(Rows),
         NEW done, Insertions(key, asc, rows, done, Len(rows))
  PROVE  /\ done[Len(rows)] \in Seq(Rows) /\ Len(done[Len(rows)]) = Len(rows)
         /\ InOrder(key, asc, done[Len(rows)])
         /\ InOrder(key, asc, rows) => done[Len(rows)] = rows
PROOF
<1> DEFINE Fine(n) ==
             /\ done[n] \in Seq(Rows) /\ Len(done[n]) = n /\ InOrder(key, asc, done[n])
             /\ InOrder(key, asc, rows) => \A i \in 1..n : done[n][i] = rows[i]
           bad == {n \in 0..Len(rows) : ~ Fine(n)}
<1>1. Len(rows) \in Nat /\ \A i \in 1..Len(rows) : rows[i] \in Rows
  BY LenProperties, ElementOfSeq
<1>2. \A n \in 0..Len(rows) : done[n] = IF n = 0 THEN <<>>
                                        ELSE InsertRow(key, asc, done[n - 1], rows[n])
  BY DEF Insertions
<1>3. bad = {}
  <2>1. SUFFICES ASSUME bad # {} PROVE FALSE
    OBVIOUS
  <2>2. PICK n \in bad : \A l \in bad : n <= l
    <3>1. bad \in SUBSET Nat
      BY <1>1
    <3> HIDE DEF bad
    <3> QED
      BY <2>1, <3>1, LeastOf
  <2>3. n \in 0..Len(rows) /\ ~ Fine(n)
    OBVIOUS
  <2>4. CASE n = 0
    <3>1. done[n] = <<>>
      BY <1>2, <2>3, <2>4
    <3>2. /\ <<>> \in Seq(Rows) /\ Len(<<>>) = 0
          /\ InOrder(key, asc, <<>>)
      BY EmptySeq DEF InOrder
    <3>3. done[n] \in Seq(Rows) /\ Len(done[n]) = n /\ InOrder(key, asc, done[n])
      BY <2>4, <3>1, <3>2
    <3>4. \A i \in 1..n : FALSE
      BY <2>4
    <3>5. Fine(n)
      BY <3>3, <3>4
    <3> QED
      BY <2>3, <3>5
  <2>5. CASE n # 0
    <3>1. /\ n \in 1..Len(rows) /\ n - 1 \in 0..Len(rows) /\ n - 1 \notin bad
          /\ n - 1 + 1 = n
      BY <1>1, <2>2, <2>3, <2>5
    <3> DEFINE old == done[n - 1]
               new == done[n]
    <3>2. Fine(n - 1)
      BY <3>1
    <3>3. new = InsertRow(key, asc, old, rows[n])
      BY <1>2, <2>5, <3>1
    <3>4. /\ old \in Seq(Rows) /\ Len(old) = n - 1 /\ InOrder(key, asc, old)
          /\ InOrder(key, asc, rows) => \A i \in 1..(n - 1) : old[i] = rows[i]
      BY <3>2
    <3> HIDE DEF old, new, Fine, bad
    <3>5. rows[n] \in Rows
      BY <1>1, <3>1
    <3>6. /\ new \in Seq(Rows) /\ Len(new) = Len(old) + 1 /\ InOrder(key, asc, new)
          /\ GoesLast(key, asc, old, rows[n]) => new = Append(old, rows[n])
      BY <3>3, <3>4, <3>5, InsertFacts
    <3>7. ASSUME InOrder(key, asc, rows) PROVE \A i \in 1..n : new[i] = rows[i]
      <4>1. \A i \in 1..(n - 1) : old[i] = rows[i]
        BY <3>4, <3>7
      <4>2. GoesLast(key, asc, old, rows[n])
        <5>1. CASE n = 1
          BY <3>4, <5>1 DEF GoesLast
        <5>2. CASE n # 1
          <6>1. n - 1 \in 1..(Len(rows) - 1) /\ n - 1 \in 1..(n - 1)
            BY <1>1, <3>1, <5>2
          <6>2. ~ Before(key, asc, rows[n - 1 + 1], rows[n - 1])
            BY <3>7, <6>1 DEF InOrder
          <6>3. old[Len(old)] = rows[n - 1]
            BY <3>4, <4>1, <6>1
          <6> QED
            BY <3>1, <6>2, <6>3 DEF GoesLast
        <5> QED
          BY <5>1, <5>2
      <4>3. /\ \A i \in 1..Len(old) : new[i] = old[i]
            /\ new[Len(old) + 1] = rows[n]
        BY <3>4, <3>5, <3>6, <4>2, AppendProperties
      <4>4. ASSUME NEW i \in 1..n PROVE new[i] = rows[i]
        <5>1. CASE i = n
          BY <3>1, <3>4, <4>3, <5>1
        <5>2. CASE i # n
          <6>1. i \in 1..(n - 1) /\ i \in 1..Len(old)
            BY <3>1, <3>4, <5>2
          <6> QED
            BY <4>1, <4>3, <6>1
        <5> QED
          BY <5>1, <5>2
      <4> QED
        BY <4>4
    <3>8. Len(new) = n
      BY <3>1, <3>4, <3>6
    <3>9. Fine(n)
      BY <3>6, <3>7, <3>8 DEF Fine, new
    <3> QED
      BY <2>3, <3>9
  <2> QED
    BY <2>4, <2>5
<1>4. Fine(Len(rows))
  BY <1>1, <1>3
<1>5. ASSUME InOrder(key, asc, rows) PROVE done[Len(rows)] = rows
  <2>1. \A i \in 1..Len(rows) : done[Len(rows)][i] = rows[i]
    BY <1>4, <1>5
  <2>2. done[Len(rows)] \in Seq(Rows) /\ Len(done[Len(rows)]) = Len(rows)
    BY <1>4
  <2> QED
    BY <2>1, <2>2, SeqEqual
<1> QED
  BY <1>4, <1>5

\* Of the first n rows, sorted into s: one without a tensor is where it was.
RowsStay(rows, s, n) ==
  \A i \in 1..n : /\ IsTensor(s[i].node) <=> IsTensor(rows[i].node)
                  /\ ~ IsTensor(rows[i].node) => s[i] = rows[i]

\* Tensors with nothing else between them are in the order of their facets.
RunsSorted(key, asc, rows, s, n) ==
  \A i \in 1..n, j \in 1..n :
    (i < j /\ \A k \in i..j : IsTensor(rows[k].node)) => ~ Before(key, asc, s[j], s[i])

\* Each row is there once, and two change places only if one comes before the
\* other.
Stably(key, asc, rows, s, n, perm) ==
  /\ perm \in [1..n -> 1..n]
  /\ \A i \in 1..n : s[i] = rows[perm[i]]
  /\ \A i \in 1..n, j \in 1..n : i # j => perm[i] # perm[j]
  /\ \A i \in 1..n, j \in 1..n :
       i < j /\ ~ Before(key, asc, s[i], s[j]) => perm[i] < perm[j]

LEMMA RowsStayStep ==
  ASSUME NEW key, NEW asc, NEW rows, NEW n \in Nat \ {0}, NEW old, Len(old) = n - 1, NEW new,
         NEW at \in 0..Len(old), StandsAt(key, asc, old, rows[n], new, at),
         RowsStay(rows, old, n - 1)
  PROVE  RowsStay(rows, new, n)
PROOF
<1>1. /\ \A k \in (at + 1)..(n - 1) : Before(key, asc, rows[n], old[k])
      /\ \A i \in 1..n : new[i] = IF i <= at THEN old[i]
                                  ELSE IF i = at + 1 THEN rows[n] ELSE old[i - 1]
  BY DEF StandsAt
<1>2. at \in 0..(n - 1)
  OBVIOUS
<1>3. \A k \in 1..(n - 1) : /\ IsTensor(old[k].node) <=> IsTensor(rows[k].node)
                            /\ ~ IsTensor(rows[k].node) => old[k] = rows[k]
  BY DEF RowsStay
<1>4. \A k \in (at + 1)..(n - 1) : IsTensor(rows[n].node) /\ IsTensor(old[k].node)
  BY <1>1 DEF Before
<1> SUFFICES ASSUME NEW i \in 1..n
             PROVE  /\ IsTensor(new[i].node) <=> IsTensor(rows[i].node)
                    /\ ~ IsTensor(rows[i].node) => new[i] = rows[i]
  BY DEF RowsStay
<1>5. CASE i <= at
  <2>1. new[i] = old[i] /\ i \in 1..(n - 1)
    BY <1>1, <1>2, <1>5
  <2> QED
    BY <1>3, <2>1
<1>6. CASE at < i /\ at = n - 1
  <2>1. i = n /\ new[n] = rows[n]
    BY <1>1, <1>2, <1>6
  <2> QED
    BY <2>1
<1>7. CASE at < i /\ at # n - 1
  <2>1. at + 1 \in (at + 1)..(n - 1)
    BY <1>2, <1>7
  <2>2. IsTensor(rows[n].node)
    BY <1>4, <2>1
  <2>3. IsTensor(rows[i].node)
    <3>1. CASE i = n
      BY <2>2, <3>1
    <3>2. CASE i # n
      <4>1. i \in (at + 1)..(n - 1) /\ i \in 1..(n - 1)
        BY <1>2, <1>7, <3>2
      <4> QED
        BY <1>3, <1>4, <4>1
    <3> QED
      BY <3>1, <3>2
  <2>4. IsTensor(new[i].node)
    <3>1. CASE i = at + 1
      BY <1>1, <1>2, <2>2, <3>1
    <3>2. CASE i # at + 1
      <4>1. new[i] = old[i - 1] /\ i - 1 \in (at + 1)..(n - 1)
        BY <1>1, <1>2, <1>7, <3>2
      <4> QED
        BY <1>4, <4>1
    <3> QED
      BY <3>1, <3>2
  <2> QED
    BY <2>3, <2>4
<1> QED
  BY <1>2, <1>5, <1>6, <1>7

\* Tensors are compared by a number.
LEMMA BeforeIsTransitive ==
  ASSUME NEW key, IsKey(key), NEW asc \in BOOLEAN,
         NEW a \in Rows, NEW b \in Rows, NEW c \in Rows,
         IsTensor(a.node), IsTensor(b.node), IsTensor(c.node),
         ~ Before(key, asc, a, b), ~ Before(key, asc, b, c)
  PROVE  ~ Before(key, asc, a, c)
PROOF
<1>1. a.node \in DOMAIN Kind /\ b.node \in DOMAIN Kind /\ c.node \in DOMAIN Kind
  BY DEF Rows
<1>2. /\ Facet[key][a.node] \in Nat /\ Facet[key][b.node] \in Nat
      /\ Facet[key][c.node] \in Nat
  BY <1>1, TreeViewAssumptions DEF IsKey
<1>3. CASE asc
  BY <1>2, <1>3 DEF Before
<1>4. CASE ~ asc
  BY <1>2, <1>4 DEF Before
<1> QED
  BY <1>3, <1>4

LEMMA RunsSortedStep ==
  ASSUME NEW key, IsKey(key), NEW asc \in BOOLEAN, NEW rows, NEW n \in Nat \ {0},
         rows[n] \in Rows, NEW old \in Seq(Rows), Len(old) = n - 1, NEW new,
         NEW at \in 0..Len(old), StandsAt(key, asc, old, rows[n], new, at),
         RowsStay(rows, old, n - 1), RunsSorted(key, asc, rows, old, n - 1)
  PROVE  RunsSorted(key, asc, rows, new, n)
PROOF
<1>1. /\ at # 0 => ~ Before(key, asc, rows[n], old[at])
      /\ \A k \in (at + 1)..(n - 1) : Before(key, asc, rows[n], old[k])
      /\ \A i \in 1..n : new[i] = IF i <= at THEN old[i]
                                  ELSE IF i = at + 1 THEN rows[n] ELSE old[i - 1]
  BY DEF StandsAt
<1>2. at \in 0..(n - 1)
  OBVIOUS
<1>3. \A k \in 1..(n - 1) : /\ old[k] \in Rows
                            /\ IsTensor(old[k].node) <=> IsTensor(rows[k].node)
  <2>1. \A k \in 1..(n - 1) : old[k] \in Rows
    BY ElementOfSeq
  <2> QED
    BY <2>1 DEF RowsStay
<1>4. \A k \in (at + 1)..(n - 1) : IsTensor(rows[n].node) /\ IsTensor(old[k].node)
  BY <1>1 DEF Before
<1>5. \A i \in 1..(n - 1), j \in 1..(n - 1) :
        (i < j /\ \A k \in i..j : IsTensor(rows[k].node)) => ~ Before(key, asc, old[j], old[i])
  BY DEF RunsSorted
<1> SUFFICES ASSUME NEW i \in 1..n, NEW j \in 1..n, i < j,
                    \A k \in i..j : IsTensor(rows[k].node)
             PROVE  ~ Before(key, asc, new[j], new[i])
  BY DEF RunsSorted
<1>6. CASE j <= at
  <2>1. new[i] = old[i] /\ new[j] = old[j] /\ i \in 1..(n - 1) /\ j \in 1..(n - 1)
    BY <1>1, <1>2, <1>6
  <2> QED
    BY <1>5, <2>1
<1>7. CASE j = at + 1
  <2>1. /\ new[i] = old[i] /\ new[j] = rows[n] /\ at # 0
        /\ i \in 1..(n - 1) /\ at \in 1..(n - 1) /\ i <= at
    BY <1>1, <1>2, <1>7
  <2>2. ~ Before(key, asc, rows[n], old[at])
    BY <1>1, <2>1
  <2>3. CASE i = at
    BY <2>1, <2>2, <2>3
  <2>4. CASE i # at
    <3>1. i < at /\ \A k \in i..at : k \in i..j
      BY <1>7, <2>1, <2>4
    <3>2. ~ Before(key, asc, old[at], old[i])
      BY <1>5, <2>1, <3>1
    <3>3. CASE IsTensor(rows[n].node)
      <4>1. IsTensor(rows[i].node) /\ IsTensor(rows[at].node)
        <5>1. i \in i..j /\ at \in i..j
          BY <1>7, <2>1
        <5> QED
          BY <5>1
      <4>2. IsTensor(old[i].node) /\ IsTensor(old[at].node)
        BY <1>3, <2>1, <4>1
      <4> QED
        BY <1>3, <2>1, <2>2, <3>2, <3>3, <4>2, BeforeIsTransitive
    <3>4. CASE ~ IsTensor(rows[n].node)
      BY <2>1, <3>4 DEF Before
    <3> QED
      BY <3>3, <3>4
  <2> QED
    BY <2>3, <2>4
<1>8. CASE at + 1 < j /\ i = at + 1
  <2>1. new[i] = rows[n] /\ new[j] = old[j - 1] /\ j - 1 \in (at + 1)..(n - 1) /\ j - 1 \in 1..(n - 1)
    BY <1>1, <1>2, <1>8
  <2>2. Before(key, asc, rows[n], old[j - 1]) /\ old[j - 1] \in Rows
    BY <1>1, <1>3, <2>1
  <2> QED
    BY <2>1, <2>2, BeforeIsOneWay
<1>9. CASE at + 1 < j /\ i <= at
  <2>1. /\ new[i] = old[i] /\ new[j] = old[j - 1] /\ i \in 1..(n - 1) /\ j - 1 \in 1..(n - 1)
        /\ i < j - 1 /\ \A k \in i..(j - 1) : k \in i..j
    BY <1>1, <1>2, <1>9
  <2> QED
    BY <1>5, <2>1
<1>10. CASE at + 1 < j /\ at + 1 < i
  <2>1. /\ new[i] = old[i - 1] /\ new[j] = old[j - 1]
        /\ i - 1 \in 1..(n - 1) /\ j - 1 \in 1..(n - 1) /\ i - 1 < j - 1
    BY <1>1, <1>2, <1>10
  <2>2. ASSUME NEW k \in (i - 1)..(j - 1) PROVE IsTensor(rows[k].node)
    <3>1. k \in (at + 1)..(n - 1) /\ k \in 1..(n - 1)
      BY <1>2, <1>10
    <3> QED
      BY <1>3, <1>4, <3>1
  <2> QED
    BY <1>5, <2>1, <2>2
<1> QED
  BY <1>2, <1>6, <1>7, <1>8, <1>9, <1>10

LEMMA StableStep ==
  ASSUME NEW key, NEW asc, NEW rows, NEW n \in Nat \ {0}, NEW old, Len(old) = n - 1, NEW new,
         NEW at \in 0..Len(old), StandsAt(key, asc, old, rows[n], new, at),
         NEW perm, Stably(key, asc, rows, old, n - 1, perm)
  PROVE  \E more : Stably(key, asc, rows, new, n, more)
PROOF
<1> DEFINE more == [i \in 1..n |-> IF i <= at THEN perm[i]
                                   ELSE IF i = at + 1 THEN n ELSE perm[i - 1]]
<1>1. /\ \A k \in (at + 1)..(n - 1) : Before(key, asc, rows[n], old[k])
      /\ \A i \in 1..n : new[i] = IF i <= at THEN old[i]
                                  ELSE IF i = at + 1 THEN rows[n] ELSE old[i - 1]
  BY DEF StandsAt
<1>2. at \in 0..(n - 1)
  OBVIOUS
<1>3. /\ \A i \in 1..(n - 1) : perm[i] \in 1..(n - 1) /\ old[i] = rows[perm[i]]
      /\ \A i \in 1..(n - 1), j \in 1..(n - 1) : i # j => perm[i] # perm[j]
      /\ \A i \in 1..(n - 1), j \in 1..(n - 1) :
           i < j /\ ~ Before(key, asc, old[i], old[j]) => perm[i] < perm[j]
  BY DEF Stably
<1> DEFINE from(i) == IF i <= at THEN i ELSE i - 1
<1>4. \A i \in 1..n : i # at + 1 => /\ from(i) \in 1..(n - 1) /\ new[i] = old[from(i)]
                                    /\ more[i] = perm[from(i)]
  BY <1>1, <1>2
<1>5. \A i \in 1..n : i = at + 1 => new[i] = rows[n] /\ more[i] = n
  BY <1>1, <1>2
<1>6. \A i \in 1..n, j \in 1..n :
        i < j /\ i # at + 1 /\ j # at + 1 => from(i) < from(j)
  BY <1>2
<1>7. \A i \in 1..n : more[i] \in 1..n /\ new[i] = rows[more[i]]
  <2> HIDE DEF more, from
  <2> TAKE i \in 1..n
  <2>1. CASE i = at + 1
    BY <1>5, <2>1
  <2>2. CASE i # at + 1
    <3>1. from(i) \in 1..(n - 1) /\ new[i] = old[from(i)] /\ more[i] = perm[from(i)]
      BY <1>4, <2>2
    <3>2. more[i] \in 1..(n - 1) /\ new[i] = rows[more[i]]
      BY <1>3, <3>1
    <3> QED
      BY <3>2
  <2> QED
    BY <2>1, <2>2
<1>8. more \in [1..n -> 1..n]
  BY <1>7
<1> HIDE DEF more, from
<1>9. \A i \in 1..n : i # at + 1 => more[i] \in 1..(n - 1)
  BY <1>3, <1>4
<1>10. ASSUME NEW i \in 1..n, NEW j \in 1..n, i < j
       PROVE  /\ more[i] # more[j]
              /\ ~ Before(key, asc, new[i], new[j]) => more[i] < more[j]
  <2>1. CASE i = at + 1
    <3>1. j # at + 1 /\ more[i] = n /\ more[j] \in 1..(n - 1)
      BY <1>5, <1>9, <1>10, <2>1
    <3>2. new[i] = rows[n] /\ new[j] = old[j - 1] /\ j - 1 \in (at + 1)..(n - 1)
      BY <1>1, <1>2, <1>10, <2>1
    <3>3. Before(key, asc, new[i], new[j])
      BY <1>1, <3>2
    <3>4. more[i] # more[j]
      BY <3>1
    <3> QED
      BY <3>3, <3>4
  <2>2. CASE j = at + 1
    <3>1. i # at + 1 /\ more[j] = n /\ more[i] \in 1..(n - 1)
      BY <1>5, <1>9, <1>10, <2>2
    <3> QED
      BY <3>1
  <2>3. CASE i # at + 1 /\ j # at + 1
    <3>1. /\ from(i) \in 1..(n - 1) /\ new[i] = old[from(i)] /\ more[i] = perm[from(i)]
          /\ from(j) \in 1..(n - 1) /\ new[j] = old[from(j)] /\ more[j] = perm[from(j)]
      BY <1>4, <2>3
    <3>2. from(i) < from(j) /\ from(i) # from(j)
      <4>1. from(i) < from(j)
        BY <1>6, <1>10, <2>3
      <4> QED
        BY <3>1, <4>1
    <3> QED
      BY <1>3, <3>1, <3>2
  <2> QED
    BY <2>1, <2>2, <2>3
<1>11. \A i \in 1..n, j \in 1..n : i # j => more[i] # more[j]
  <2>1. \A i \in 1..n, j \in 1..n : i # j => i < j \/ j < i
    OBVIOUS
  <2> QED
    BY <1>10, <2>1
<1>12. \A i \in 1..n, j \in 1..n :
         i < j /\ ~ Before(key, asc, new[i], new[j]) => more[i] < more[j]
  BY <1>10
<1> QED
  BY <1>7, <1>8, <1>11, <1>12 DEF Stably

\* By induction on the rows that have gone in.
LEMMA InsertionsSort ==
  ASSUME NEW key, IsKey(key), NEW asc \in BOOLEAN, NEW rows \in Seq(Rows),
         NEW done, Insertions(key, asc, rows, done, Len(rows))
  PROVE  /\ RowsStay(rows, done[Len(rows)], Len(rows))
         /\ RunsSorted(key, asc, rows, done[Len(rows)], Len(rows))
         /\ \E perm : Stably(key, asc, rows, done[Len(rows)], Len(rows), perm)
PROOF
<1> DEFINE Fine(n) ==
             /\ done[n] \in Seq(Rows) /\ Len(done[n]) = n
             /\ RowsStay(rows, done[n], n)
             /\ RunsSorted(key, asc, rows, done[n], n)
             /\ \E perm : Stably(key, asc, rows, done[n], n, perm)
           bad == {n \in 0..Len(rows) : ~ Fine(n)}
<1>1. Len(rows) \in Nat /\ \A i \in 1..Len(rows) : rows[i] \in Rows
  BY LenProperties, ElementOfSeq
<1>2. \A n \in 0..Len(rows) : done[n] = IF n = 0 THEN <<>>
                                        ELSE InsertRow(key, asc, done[n - 1], rows[n])
  BY DEF Insertions
<1>3. bad = {}
  <2>1. SUFFICES ASSUME bad # {} PROVE FALSE
    OBVIOUS
  <2>2. PICK n \in bad : \A l \in bad : n <= l
    <3>1. bad \in SUBSET Nat
      BY <1>1
    <3> HIDE DEF bad
    <3> QED
      BY <2>1, <3>1, LeastOf
  <2>3. n \in 0..Len(rows) /\ ~ Fine(n)
    OBVIOUS
  <2>4. CASE n = 0
    <3>1. done[n] = <<>>
      BY <1>2, <2>3, <2>4
    <3>2. done[n] \in Seq(Rows) /\ Len(done[n]) = n
      BY <2>4, <3>1, EmptySeq
    <3>3. \A i \in 1..n : FALSE
      BY <2>4
    <3>4. /\ RowsStay(rows, done[n], n)
          /\ RunsSorted(key, asc, rows, done[n], n)
      BY <3>3 DEF RowsStay, RunsSorted
    <3>5. Stably(key, asc, rows, done[n], n, [i \in 1..n |-> i])
      BY <3>3 DEF Stably
    <3>6. Fine(n)
      BY <3>2, <3>4, <3>5
    <3> QED
      BY <2>3, <3>6
  <2>5. CASE n # 0
    <3>1. /\ n \in Nat \ {0} /\ n \in 1..Len(rows) /\ n - 1 \in 0..Len(rows)
          /\ n - 1 \notin bad
      BY <1>1, <2>2, <2>3, <2>5
    <3> DEFINE old == done[n - 1]
               new == done[n]
    <3>2. Fine(n - 1)
      BY <3>1
    <3>3. new = InsertRow(key, asc, old, rows[n])
      BY <1>2, <2>5, <3>1
    <3>4. /\ old \in Seq(Rows) /\ Len(old) = n - 1
          /\ RowsStay(rows, old, n - 1) /\ RunsSorted(key, asc, rows, old, n - 1)
          /\ \E perm : Stably(key, asc, rows, old, n - 1, perm)
      BY <3>2
    <3> HIDE DEF old, new, Fine, bad
    <3>5. rows[n] \in Rows
      BY <1>1, <3>1
    <3>6. new \in Seq(Rows) /\ Len(new) = n
      <4>1. new \in Seq(Rows) /\ Len(new) = Len(old) + 1
        BY <3>3, <3>4, <3>5, InsertedAt
      <4> QED
        BY <3>1, <3>4, <4>1
    <3>7. PICK at \in 0..Len(old) : StandsAt(key, asc, old, rows[n], new, at)
      BY <3>3, <3>4, <3>5, InsertedAt
    <3>8. RowsStay(rows, new, n)
      BY <3>1, <3>4, <3>7, RowsStayStep
    <3>9. RunsSorted(key, asc, rows, new, n)
      BY <3>1, <3>4, <3>5, <3>7, RunsSortedStep
    <3>10. \E perm : Stably(key, asc, rows, new, n, perm)
      BY <3>1, <3>4, <3>7, StableStep
    <3>11. Fine(n)
      BY <3>6, <3>8, <3>9, <3>10 DEF Fine, new
    <3> QED
      BY <2>3, <3>11
  <2> QED
    BY <2>4, <2>5
<1>4. Fine(Len(rows))
  BY <1>1, <1>3
<1> QED
  BY <1>4

LEMMA SortUnfolds ==
  ASSUME NEW rows \in Seq(Rows), NEW srt, srt.key # "None"
  PROVE  \E done : /\ Insertions(srt.key, srt.asc, rows, done, Len(rows))
                   /\ SortRows(rows, srt) = done[Len(rows)]
PROOF
<1> DEFINE done == CHOOSE f : f = [n \in 0..Len(rows) |->
                     IF n = 0 THEN <<>>
                     ELSE InsertRow(srt.key, srt.asc, f[n - 1], rows[n])]
<1>1. Len(rows) \in Nat
  BY LenProperties
<1>2. \E f : Insertions(srt.key, srt.asc, rows, f, Len(rows))
  BY <1>1, InsertionsExist
<1>3. Insertions(srt.key, srt.asc, rows, done, Len(rows))
  BY <1>2 DEF Insertions
<1>4. SortRows(rows, srt) = done[Len(rows)]
  BY DEF SortRows
<1> QED
  BY <1>3, <1>4

IsSort(srt) ==
  /\ srt \in [key : STRING, asc : BOOLEAN]
  /\ \E k \in 1..Len(SortKeys) : SortKeys[k] = srt.key

\* Sorting gives rows again, as many, and sorting once more changes nothing:
\* what is kept sorted may be sorted again.
THEOREM SortFacts ==
  ASSUME NEW rows \in Seq(Rows), NEW srt, IsSort(srt)
  PROVE  /\ SortRows(rows, srt) \in Seq(Rows)
         /\ Len(SortRows(rows, srt)) = Len(rows)
         /\ SortRows(SortRows(rows, srt), srt) = SortRows(rows, srt)
PROOF
<1>1. CASE srt.key = "None"
  BY <1>1 DEF SortRows
<1>2. CASE srt.key # "None"
  <2>1. IsKey(srt.key) /\ srt.asc \in BOOLEAN
    BY <1>2 DEF IsSort, IsKey
  <2> DEFINE once == SortRows(rows, srt)
             twice == SortRows(once, srt)
  <2>2. /\ once \in Seq(Rows) /\ Len(once) = Len(rows) /\ InOrder(srt.key, srt.asc, once)
    <3>1. PICK done : /\ Insertions(srt.key, srt.asc, rows, done, Len(rows))
                      /\ once = done[Len(rows)]
      BY <1>2, SortUnfolds
    <3> HIDE DEF once
    <3> QED
      BY <2>1, <3>1, InsertionsFacts
  <2> HIDE DEF once
  <2>3. twice = once
    <3>1. PICK done : /\ Insertions(srt.key, srt.asc, once, done, Len(once))
                      /\ twice = done[Len(once)]
      BY <1>2, <2>2, SortUnfolds
    <3> HIDE DEF twice
    <3> QED
      BY <2>1, <2>2, <3>1, InsertionsFacts
  <2> QED
    BY <2>2, <2>3 DEF once
<1> QED
  BY <1>1, <1>2

\* What the order is worth when the rows without a tensor compare equal to
\* everything (the comparator of sort_rows): such a row stays at its index;
\* the tensors between two of them are in the order of the key, so a list of
\* tensors is sorted; every row is kept, and rows change places only when one
\* comes before the other.
THEOREM SortOrders ==
  ASSUME NEW rows \in Seq(Rows), NEW srt, IsSort(srt), srt.key # "None"
  PROVE  /\ RowsStay(rows, SortRows(rows, srt), Len(rows))
         /\ RunsSorted(srt.key, srt.asc, rows, SortRows(rows, srt), Len(rows))
         /\ \E perm : Stably(srt.key, srt.asc, rows, SortRows(rows, srt), Len(rows), perm)
PROOF
<1>1. IsKey(srt.key) /\ srt.asc \in BOOLEAN
  BY DEF IsSort, IsKey
<1>2. PICK done : /\ Insertions(srt.key, srt.asc, rows, done, Len(rows))
                  /\ SortRows(rows, srt) = done[Len(rows)]
  BY SortUnfolds
<1> QED
  BY <1>1, <1>2, InsertionsSort

(***************************************************************************)
(* Queries and the rows they find.                                         *)
(***************************************************************************)

LEMMA QueriesAreShort ==
  ASSUME NEW query
  PROVE  query \in Queries <=> query \in Seq(Letters) /\ Len(query) <= MaxQuery
PROOF
<1>1. ASSUME query \in Queries PROVE query \in Seq(Letters) /\ Len(query) <= MaxQuery
  <2>1. PICK n \in 0..MaxQuery : query \in [1..n -> Letters]
    BY <1>1 DEF Queries
  <2>2. n \in Nat /\ n <= MaxQuery
    BY <2>1, TreeViewAssumptions
  <2>3. query \in Seq(Letters) /\ Len(query) = n
    BY <2>1, <2>2
  <2> QED
    BY <2>2, <2>3
<1>2. ASSUME query \in Seq(Letters), Len(query) <= MaxQuery PROVE query \in Queries
  <2>1. Len(query) \in 0..MaxQuery /\ query \in [1..Len(query) -> Letters]
    BY <1>2, LenProperties, TreeViewAssumptions
  <2> QED
    BY <2>1 DEF Queries
<1> QED
  BY <1>1, <1>2

\* Typing a letter at the caret.
LEMMA TypedLetter ==
  ASSUME NEW query \in Queries, NEW cursor \in 0..Len(query), Len(query) < MaxQuery,
         NEW letter \in Letters
  PROVE  /\ InsertAt(query, cursor + 1, letter) \in Queries
         /\ cursor + 1 \in 0..Len(InsertAt(query, cursor + 1, letter))
PROOF
<1>1. query \in Seq(Letters) /\ Len(query) \in Nat /\ cursor \in Nat
  BY QueriesAreShort, LenProperties
<1>2. \A i \in 1..Len(query) : query[i] \in Letters
  BY <1>1, ElementOfSeq
<1> DEFINE left == SubSeq(query, 1, (cursor + 1) - 1)
           right == SubSeq(query, cursor + 1, Len(query))
           new == InsertAt(query, cursor + 1, letter)
<1>3. left \in Seq(Letters) /\ Len(left) = cursor
  <2>1. \A i \in 1..((cursor + 1) - 1) : query[i] \in Letters
    BY <1>1, <1>2
  <2>2. 1 \in Int /\ (cursor + 1) - 1 \in Int
    BY <1>1
  <2>3. left \in Seq(Letters) /\ Len(left) = IF 1 <= (cursor + 1) - 1 THEN (cursor + 1) - 1 - 1 + 1 ELSE 0
    BY <2>1, <2>2, SubSeqProperties
  <2> QED
    BY <1>1, <2>3
<1>4. right \in Seq(Letters) /\ Len(right) = Len(query) - cursor
  <2>1. \A i \in (cursor + 1)..Len(query) : query[i] \in Letters
    BY <1>1, <1>2
  <2>2. Len(query) \in Int /\ cursor + 1 \in Int
    BY <1>1
  <2>3. /\ right \in Seq(Letters)
        /\ Len(right) = IF cursor + 1 <= Len(query) THEN Len(query) - (cursor + 1) + 1 ELSE 0
    BY <2>1, <2>2, SubSeqProperties
  <2> QED
    BY <1>1, <2>3
<1>5. <<letter>> \in Seq(Letters) /\ Len(<<letter>>) = 1
  OBVIOUS
<1>6. new = left \o <<letter>> \o right
  BY DEF InsertAt
<1> HIDE DEF left, right, new
<1>7. left \o <<letter>> \in Seq(Letters) /\ Len(left \o <<letter>>) = cursor + 1
  BY <1>3, <1>5, ConcatProperties
<1>8. new \in Seq(Letters) /\ Len(new) = cursor + 1 + (Len(query) - cursor)
  <2>1. new \in Seq(Letters) /\ Len(new) = Len(left \o <<letter>>) + Len(right)
    BY <1>4, <1>6, <1>7, ConcatProperties
  <2> QED
    BY <1>4, <1>7, <2>1
<1>9. Len(new) = Len(query) + 1 /\ Len(new) <= MaxQuery
  BY <1>1, <1>8, TreeViewAssumptions
<1>10. new \in Queries /\ cursor + 1 \in 0..Len(new)
  BY <1>1, <1>8, <1>9, QueriesAreShort
<1> QED
  BY <1>10 DEF new

\* Deleting the letter before the caret.
LEMMA DeletedLetter ==
  ASSUME NEW query \in Queries, NEW cursor \in 1..Len(query)
  PROVE  /\ RemoveAt(query, cursor) \in Queries
         /\ cursor - 1 \in 0..Len(RemoveAt(query, cursor))
PROOF
<1>1. query \in Seq(Letters) /\ Len(query) \in Nat /\ Len(query) <= MaxQuery /\ cursor \in Nat
  BY QueriesAreShort, LenProperties
<1>2. \A i \in 1..Len(query) : query[i] \in Letters
  BY <1>1, ElementOfSeq
<1> DEFINE left == SubSeq(query, 1, cursor - 1)
           right == SubSeq(query, cursor + 1, Len(query))
           new == RemoveAt(query, cursor)
<1>3. left \in Seq(Letters) /\ Len(left) = cursor - 1
  <2>1. \A i \in 1..(cursor - 1) : query[i] \in Letters
    BY <1>1, <1>2
  <2>2. 1 \in Int /\ cursor - 1 \in Int
    BY <1>1
  <2>3. left \in Seq(Letters) /\ Len(left) = IF 1 <= cursor - 1 THEN cursor - 1 - 1 + 1 ELSE 0
    BY <2>1, <2>2, SubSeqProperties
  <2> QED
    BY <1>1, <2>3
<1>4. right \in Seq(Letters) /\ Len(right) = Len(query) - cursor
  <2>1. \A i \in (cursor + 1)..Len(query) : query[i] \in Letters
    BY <1>1, <1>2
  <2>2. Len(query) \in Int /\ cursor + 1 \in Int
    BY <1>1
  <2>3. /\ right \in Seq(Letters)
        /\ Len(right) = IF cursor + 1 <= Len(query) THEN Len(query) - (cursor + 1) + 1 ELSE 0
    BY <2>1, <2>2, SubSeqProperties
  <2> QED
    BY <1>1, <2>3
<1>5. new = left \o right
  BY DEF RemoveAt
<1> HIDE DEF left, right, new
<1>6. new \in Seq(Letters) /\ Len(new) = cursor - 1 + (Len(query) - cursor)
  <2>1. new \in Seq(Letters) /\ Len(new) = Len(left) + Len(right)
    BY <1>3, <1>4, <1>5, ConcatProperties
  <2> QED
    BY <1>3, <1>4, <2>1
<1>7. Len(new) = Len(query) - 1
  BY <1>1, <1>6
<1>8. Len(new) <= MaxQuery
  BY <1>1, <1>7, TreeViewAssumptions
<1>9. new \in Queries /\ cursor - 1 \in 0..Len(new)
  BY <1>1, <1>6, <1>7, <1>8, QueriesAreShort
<1> QED
  BY <1>9 DEF new

LEMMA FlatRowsAreRows ==
  ASSUME NEW nodes \in Seq(DOMAIN Kind)
  PROVE  FlatRows(nodes) \in Seq(Rows)
PROOF
<1>1. Len(nodes) \in Nat /\ \A i \in 1..Len(nodes) : nodes[i] \in DOMAIN Kind
  BY LenProperties, ElementOfSeq
<1>2. \A i \in 1..Len(nodes) : FlatRow(nodes[i]) \in Rows
  BY <1>1 DEF FlatRow, Rows
<1>3. [i \in 1..Len(nodes) |-> FlatRow(nodes[i])] \in Seq(Rows)
  BY <1>1, <1>2, IsASeq
<1> QED
  BY <1>3 DEF FlatRows

LEMMA MatchesAreRows ==
  ASSUME NEW query \in Queries, NEW flat \in Seq(Rows)
  PROVE  Matches(query, flat) \in Seq(Rows)
PROOF
<1>1. CASE query = <<>>
  BY <1>1 DEF Matches
<1>2. CASE query # <<>>
  <2>1. Ranked[query] \in Seq(DOMAIN Kind)
    BY <1>2, TreeViewAssumptions
  <2> QED
    BY <1>2, <2>1, FlatRowsAreRows DEF Matches
<1> QED
  BY <1>1, <1>2

LEMMA PassingAreRows ==
  ASSUME NEW query \in DOMAIN Passing
  PROVE  FlatRows(Passing[query]) \in Seq(Rows)
PROOF
<1>1. Passing[query] \in Seq(DOMAIN Kind)
  BY TreeViewAssumptions
<1> QED
  BY <1>1, FlatRowsAreRows

(***************************************************************************)
(* The tree and the lists beside it.                                       *)
(***************************************************************************)

TreeCurrent ==
  /\ compact \in BOOLEAN
  /\ open \subseteq Groups(compact)
  /\ flattened = FlattenTree(compact, open)

SearchCurrent ==
  search # None =>
    /\ search \in SearchRecord /\ search.cursor <= Len(search.query)
    /\ search.filtered = SortRows(Matches(search.query, flattened), sort)

FilterCurrent ==
  filter # None =>
    /\ filter \in FilterRecord
    /\ filter.filtered = SortRows(FlatRows(Passing[filter.query]), sort)

ListsCurrent == IsSort(sort) /\ SearchCurrent /\ FilterCurrent

LEMMA TreeRowsTyped ==
  ASSUME TreeCurrent
  PROVE  /\ flattened \in Seq(Rows) /\ Len(flattened) \in Nat /\ Len(flattened) >= 1
         /\ \A i \in 1..Len(flattened) : flattened[i].node \in Nodes(compact)
PROOF
<1>1. compact \in BOOLEAN /\ flattened = FlattenTree(compact, open)
  BY DEF TreeCurrent
<1> QED
  BY <1>1, FlatFacts

\* Folding a row of the tree.
LEMMA ToggleKeepsTree ==
  ASSUME TreeCurrent, NEW i \in Nat, ToggleAt(i)
  PROVE  TreeCurrent' /\ compact' = compact
PROOF
<1>1. compact \in BOOLEAN /\ open \subseteq Groups(compact) /\ compact' = compact
  BY DEF TreeCurrent, ToggleAt
<1>2. open' \subseteq Groups(compact)
  <2> DEFINE rows == FlattenTree(compact, open)
  <2>1. CASE HasRow(rows, i) /\ IsGroup(Row(rows, i).node)
    <3>1. Len(rows) \in Nat /\ \A k \in 1..Len(rows) : rows[k].node \in Nodes(compact)
      BY <1>1, FlatFacts
    <3>2. i + 1 \in 1..Len(rows)
      BY <2>1, <3>1 DEF HasRow
    <3>3. Row(rows, i).node \in Groups(compact)
      BY <2>1, <3>1, <3>2 DEF Row, Groups
    <3>4. open' = ToggleNode(open, Row(rows, i).node)
      BY <2>1 DEF ToggleAt, ToggleNodeByIndex
    <3> QED
      BY <1>1, <3>3, <3>4 DEF ToggleNode
  <2>2. CASE ~ (HasRow(rows, i) /\ IsGroup(Row(rows, i).node))
    <3>1. open' = open
      BY <2>2 DEF ToggleAt, ToggleNodeByIndex
    <3> QED
      BY <1>1, <3>1
  <2> QED
    BY <2>1, <2>2
<1>3. flattened' = FlattenTree(compact', open')
  BY <1>1 DEF ToggleAt
<1> QED
  BY <1>1, <1>2, <1>3 DEF TreeCurrent

\* Showing a tensor.
LEMMA RevealKeepsTree ==
  ASSUME TreeCurrent, NEW name, NEW s, NEW from, Reveal(name, s, from)
  PROVE  TreeCurrent' /\ compact' = compact /\ (s # None => UNCHANGED tree)
PROOF
<1>1. compact \in BOOLEAN /\ open \subseteq Groups(compact)
  BY DEF TreeCurrent
<1>2. CASE UNCHANGED tree
  BY <1>2 DEF tree, TreeCurrent
<1>3. CASE ~ UNCHANGED tree
  <2>1. /\ s = None /\ open' = open \union GroupsAbove(compact, name)
        /\ flattened' = FlattenTree(compact, open') /\ compact' = compact
    BY <1>3 DEF Reveal
  <2>2. GroupsAbove(compact, name) \subseteq Groups(compact)
    <3>1. \A i \in 1..Len(Shape[compact]) : Around[compact][i] \subseteq Groups(compact)
      BY <1>1, AroundAreGroups DEF Size
    <3> QED
      BY <3>1 DEF GroupsAbove
  <2> QED
    BY <1>1, <2>1, <2>2 DEF TreeCurrent
<1> QED
  BY <1>2, <1>3

LEMMA BuiltOpenAreGroups ==
  ASSUME NEW c \in BOOLEAN
  PROVE  BuiltOpen(c) \subseteq Groups(c)
PROOF BY DEF BuiltOpen, Groups, Nodes, IsGroup

\* The tree is flattened whenever its folding changes, and changes only while
\* nothing is searched for, or as the search is left.
LEMMA TreeStep ==
  ASSUME TreeCurrent, selected \in Nat, scroll \in Nat, [Next]_vars
  PROVE  TreeCurrent' /\ (search' = None \/ flattened' = flattened)
PROOF
<1> USE DEF tree, lists, view
<1>0. \A i \in Nat : ToggleAt(i) => TreeCurrent'
  BY ToggleKeepsTree
<1>1. ASSUME UNCHANGED tree PROVE TreeCurrent' /\ flattened' = flattened
  BY <1>1 DEF TreeCurrent
<1>2. CASE MoveToFirstChild
  <2>1. search' = None
    BY <1>2 DEF MoveToFirstChild, Searching
  <2>2. UNCHANGED tree \/ ToggleAt(selected)
    BY <1>2 DEF MoveToFirstChild
  <2> QED
    BY <1>0, <1>1, <2>1, <2>2
<1>3. CASE ActivateSelection
  BY <1>0, <1>3 DEF ActivateSelection, Searching
<1>4. CASE ExpandOrCollapse
  <2>1. PICK expanded \in BOOLEAN : SetAllExpanded(expanded)
    BY <1>4 DEF ExpandOrCollapse
  <2>2. TreeCurrent'
    BY <2>1 DEF SetAllExpanded, TreeCurrent
  <2> QED
    BY <1>4, <2>2 DEF ExpandOrCollapse, Searching
<1>5. CASE CompactToggle
  <2>1. compact' \in BOOLEAN
    BY <1>5 DEF CompactToggle, TreeCurrent
  <2>2. TreeCurrent'
    BY <1>5, <2>1, BuiltOpenAreGroups DEF CompactToggle, TreeCurrent
  <2> QED
    BY <1>5, <2>2 DEF CompactToggle, Searching
<1>6. CASE RevealSearchResult
  <2>1. search' = None /\ Reveal(Row(Visible, selected).node, None, 0)
    BY <1>6 DEF RevealSearchResult
  <2> QED
    BY <2>1, RevealKeepsTree
<1>7. CASE Click
  <2>1. PICK r \in 0..(VisibleRowCount - 1) :
          UNCHANGED tree \/ (~ Searching /\ ToggleAt(scroll + r))
    BY <1>7 DEF Click
  <2>2. CASE UNCHANGED tree
    BY <1>1, <2>2
  <2>3. CASE ~ Searching /\ ToggleAt(scroll + r)
    <3>1. scroll + r \in Nat
      OBVIOUS
    <3>2. search' = None
      BY <1>7, <2>3 DEF Click, Searching
    <3> QED
      BY <1>0, <2>3, <3>1, <3>2
  <2> QED
    BY <2>1, <2>2, <2>3
<1>8. CASE Return
  <2>1. CASE UNCHANGED tree
    BY <1>1, <2>1
  <2>2. CASE ~ UNCHANGED tree
    <3>1. PICK name : Reveal(name, search, selected) /\ search' = search
      BY <1>8, <2>2 DEF Return
    <3> QED
      BY <2>2, <3>1, RevealKeepsTree
  <2> QED
    BY <2>1, <2>2
<1>9. CASE UNCHANGED vars
  BY <1>1, <1>9 DEF vars
<1>10. CASE \/ MoveSelection \/ HomeEnd \/ MoveToParent \/ MoveToSibling \/ EnterSearch
            \/ SearchInsert \/ SearchBackspace \/ MoveCaret \/ ExitSearch \/ Filter
            \/ SortCommand \/ Scroll \/ Draw \/ Resize
  <2>1. UNCHANGED tree
    BY <1>10 DEF MoveSelection, HomeEnd, MoveToParent, MoveToSibling, EnterSearch,
         SearchInsert, SearchBackspace, MoveCaret, ExitSearch, Filter, SortCommand, Scroll,
         Draw, Resize
  <2> QED
    BY <1>1, <2>1
<1> QED
  BY <1>2, <1>3, <1>4, <1>5, <1>6, <1>7, <1>8, <1>9, <1>10 DEF Next

\* A search looks through the tree, and leaves the filter's rows as they are:
\* sorting them once more changes nothing.
LEMMA SearchKeepsLists ==
  ASSUME TreeCurrent, ListsCurrent, NEW query \in Queries, NEW cursor \in 0..Len(query),
         SearchFor(query, cursor), UNCHANGED tree
  PROVE  ListsCurrent'
PROOF
<1>1. IsSort(sort) /\ sort' = sort /\ flattened' = flattened /\ flattened \in Seq(Rows)
  BY TreeRowsTyped DEF ListsCurrent, SearchFor, tree
<1>2. SearchCurrent'
  <2> DEFINE rows == SortRows(Matches(query, flattened), sort)
  <2>1. rows \in Seq(Rows)
    BY <1>1, MatchesAreRows, SortFacts
  <2>2. search' = [query |-> query, cursor |-> cursor, filtered |-> rows]
    BY DEF SearchFor, Found
  <2>3. cursor \in Nat /\ cursor <= Len(query)
    BY QueriesAreShort, LenProperties
  <2>4. search'.filtered = SortRows(Matches(query, flattened'), sort')
    BY <1>1, <2>2
  <2> HIDE DEF rows
  <2>5. search' \in SearchRecord /\ search'.query = query /\ search'.cursor = cursor
    BY <2>1, <2>2, <2>3 DEF SearchRecord
  <2> QED
    BY <2>3, <2>4, <2>5 DEF SearchCurrent
<1>3. filter' = filter
  <2>1. CASE filter = None
    BY <2>1 DEF SearchFor, Resorted
  <2>2. CASE filter # None
    <3> DEFINE rows == FlatRows(Passing[filter.query])
    <3>1. filter \in FilterRecord /\ filter.filtered = SortRows(rows, sort)
      BY <2>2 DEF ListsCurrent, FilterCurrent
    <3>2. rows \in Seq(Rows)
      BY <3>1, PassingAreRows DEF FilterRecord
    <3> HIDE DEF rows
    <3>3. SortRows(filter.filtered, sort) = filter.filtered
      BY <1>1, <3>1, <3>2, SortFacts
    <3>4. filter' = [filter EXCEPT !.filtered = SortRows(filter.filtered, sort)]
      BY <2>2 DEF SearchFor, Resorted
    <3> QED
      BY <3>1, <3>3, <3>4 DEF FilterRecord
  <2> QED
    BY <2>1, <2>2
<1> QED
  BY <1>1, <1>2, <1>3 DEF ListsCurrent, FilterCurrent, IsSort

\* The rows of a filter are found and sorted for the order that is set.
LEMMA RefreshKeepsFilter ==
  ASSUME NEW query \in DOMAIN Passing \union {None}, IsSort(sort'),
         filter' = RefreshedFilter(query, sort')
  PROVE  FilterCurrent'
PROOF
<1>1. CASE query = None
  BY <1>1 DEF RefreshedFilter, FilterCurrent
<1>2. CASE query # None
  <2> DEFINE rows == SortRows(FlatRows(Passing[query]), sort')
  <2>1. query \in DOMAIN Passing
    BY <1>2
  <2>2. rows \in Seq(Rows)
    BY <2>1, PassingAreRows, SortFacts
  <2>3. filter' = [query |-> query, filtered |-> rows]
    BY <1>2 DEF RefreshedFilter
  <2>4. filter'.filtered = SortRows(FlatRows(Passing[query]), sort') /\ filter'.query = query
    BY <2>3
  <2> HIDE DEF rows
  <2>5. filter' \in FilterRecord
    BY <2>1, <2>2, <2>3 DEF FilterRecord
  <2> QED
    BY <2>4, <2>5 DEF FilterCurrent
<1> QED
  BY <1>1, <1>2

LEMMA NextKeyIsAKey ==
  ASSUME IsSort(sort)
  PROVE  IsSort([sort EXCEPT !.key = NextKey(sort.key)])
PROOF
<1>1. /\ SortKeys \in Seq(STRING) /\ Len(SortKeys) \in Nat /\ Len(SortKeys) > 0
      /\ \A k \in 1..Len(SortKeys) : SortKeys[k] \in STRING
  BY TreeViewAssumptions, LenProperties, EmptySeq, ElementOfSeq
<1> DEFINE i == CHOOSE k \in 1..Len(SortKeys) : SortKeys[k] = sort.key
<1>2. i \in 1..Len(SortKeys)
  BY DEF IsSort
<1>3. NextKey(sort.key) = SortKeys[(i % Len(SortKeys)) + 1]
  BY DEF NextKey
<1> HIDE DEF i
<1>4. (i % Len(SortKeys)) + 1 \in 1..Len(SortKeys)
  BY <1>1, <1>2
<1>5. NextKey(sort.key) \in STRING /\ \E k \in 1..Len(SortKeys) : SortKeys[k] = NextKey(sort.key)
  BY <1>1, <1>3, <1>4
<1> DEFINE new == [sort EXCEPT !.key = NextKey(sort.key)]
<1>6. new \in [key : STRING, asc : BOOLEAN] /\ new.key = NextKey(sort.key)
  BY <1>5 DEF IsSort
<1> QED
  BY <1>5, <1>6 DEF IsSort

\* Every command that changes what a list depends on builds the list again.
LEMMA ListsStep ==
  ASSUME TreeCurrent, ListsCurrent, selected \in Nat, scroll \in Nat, [Next]_vars
  PROVE  ListsCurrent'
PROOF
<1> USE DEF lists
<1>0. TreeCurrent' /\ (search' = None \/ flattened' = flattened)
  BY TreeStep
<1>1. ASSUME search' = None \/ search' = search, UNCHANGED <<filter, sort>>
      PROVE  ListsCurrent'
  <2>1. IsSort(sort') /\ FilterCurrent'
    BY <1>1 DEF ListsCurrent, FilterCurrent
  <2>2. SearchCurrent'
    BY <1>0, <1>1 DEF ListsCurrent, SearchCurrent
  <2> QED
    BY <2>1, <2>2 DEF ListsCurrent
<1>2. CASE EnterSearch
  <2>1. <<>> \in Queries /\ 0 \in 0..Len(<<>>)
    <3>1. MaxQuery \in Nat
      BY TreeViewAssumptions
    <3>2. \A none : none = <<>> => none \in Seq(Letters) /\ Len(none) = 0
      OBVIOUS
    <3>3. \A none : none = <<>> => none \in Queries /\ 0 \in 0..Len(none)
      BY <3>1, <3>2, QueriesAreShort
    <3> QED
      BY <3>3
  <2>2. SearchFor(<<>>, 0) /\ UNCHANGED tree
    BY <1>2 DEF EnterSearch
  <2> QED
    BY <2>1, <2>2, SearchKeepsLists
<1>3. ASSUME search # None
      PROVE  search.query \in Queries /\ search.cursor \in 0..Len(search.query)
  <2>1. search.query \in Queries /\ search.cursor \in Nat /\ search.cursor <= Len(search.query)
    BY <1>3 DEF ListsCurrent, SearchCurrent, SearchRecord
  <2>2. Len(search.query) \in Nat
    BY <2>1, QueriesAreShort, LenProperties
  <2> QED
    BY <2>1, <2>2
<1>4. CASE SearchInsert
  <2>1. PICK letter \in Letters :
          SearchFor(InsertAt(search.query, search.cursor + 1, letter), search.cursor + 1)
    BY <1>4 DEF SearchInsert
  <2>2. search # None /\ Len(search.query) < MaxQuery /\ UNCHANGED tree
    BY <1>4 DEF SearchInsert, Searching
  <2>3. /\ InsertAt(search.query, search.cursor + 1, letter) \in Queries
        /\ search.cursor + 1 \in 0..Len(InsertAt(search.query, search.cursor + 1, letter))
    BY <1>3, <2>2, TypedLetter
  <2> QED
    BY <2>1, <2>2, <2>3, SearchKeepsLists
<1>5. CASE SearchBackspace
  <2>1. /\ search # None /\ search.cursor > 0 /\ UNCHANGED tree
        /\ SearchFor(RemoveAt(search.query, search.cursor), search.cursor - 1)
    BY <1>5 DEF SearchBackspace, Searching
  <2>2. search.cursor \in 1..Len(search.query)
    <3>1. search.query \in Seq(Letters)
      BY <1>3, <2>1, QueriesAreShort
    <3>2. Len(search.query) \in Nat
      BY <3>1, LenProperties
    <3>3. search.cursor \in 0..Len(search.query)
      BY <1>3, <2>1
    <3> QED
      BY <2>1, <3>2, <3>3
  <2>3. /\ RemoveAt(search.query, search.cursor) \in Queries
        /\ search.cursor - 1 \in 0..Len(RemoveAt(search.query, search.cursor))
    BY <1>3, <2>1, <2>2, DeletedLetter
  <2> QED
    BY <2>1, <2>3, SearchKeepsLists
<1>6. CASE MoveCaret
  <2>1. search # None /\ UNCHANGED tree /\ UNCHANGED <<filter, sort>>
    BY <1>6 DEF MoveCaret, Searching
  <2>2. search \in SearchRecord
        /\ search.filtered = SortRows(Matches(search.query, flattened), sort)
    BY <2>1 DEF ListsCurrent, SearchCurrent
  <2>3. PICK at \in {0, AtLeast0(search.cursor - 1), Len(search.query),
                     Least(search.cursor + 1, Len(search.query))} :
          search' = [search EXCEPT !.cursor = at]
    BY <1>6 DEF MoveCaret
  <2>4. at \in Nat /\ at <= Len(search.query)
    <3>1. Len(search.query) \in Nat /\ search.cursor \in 0..Len(search.query)
      BY <1>3, <2>1, QueriesAreShort, LenProperties
    <3> QED
      BY <2>3, <3>1 DEF AtLeast0, Least
  <2>5. /\ search' \in SearchRecord /\ search'.cursor = at
        /\ search'.query = search.query /\ search'.filtered = search.filtered
    BY <2>2, <2>3, <2>4 DEF SearchRecord
  <2>6. SearchCurrent'
    BY <2>1, <2>2, <2>4, <2>5 DEF SearchCurrent, tree
  <2>7. IsSort(sort') /\ FilterCurrent'
    BY <2>1 DEF ListsCurrent, FilterCurrent
  <2> QED
    BY <2>6, <2>7 DEF ListsCurrent
<1>7. CASE Filter
  <2>1. PICK query \in DOMAIN Passing \union {None} : filter' = RefreshedFilter(query, sort)
    BY <1>7 DEF Filter
  <2>2. sort' = sort /\ search = None /\ search' = search /\ IsSort(sort)
    BY <1>7 DEF Filter, Searching, ListsCurrent
  <2>3. FilterCurrent'
    BY <2>1, <2>2, RefreshKeepsFilter
  <2> QED
    BY <2>2, <2>3 DEF ListsCurrent, SearchCurrent
<1>8. ASSUME NEW srt, Resort(srt), IsSort(srt), search = None PROVE ListsCurrent'
  <2> DEFINE query == IF filter = None THEN None ELSE filter.query
  <2>1. sort' = srt /\ search' = None /\ filter' = RefreshedFilter(query, sort')
    BY <1>8 DEF Resort
  <2>2. query \in DOMAIN Passing \union {None}
    BY DEF ListsCurrent, FilterCurrent, FilterRecord
  <2>3. FilterCurrent'
    BY <1>8, <2>1, <2>2, RefreshKeepsFilter
  <2> QED
    BY <1>8, <2>1, <2>3 DEF ListsCurrent, SearchCurrent
<1>9. CASE SortCommand
  <2>1. IsSort(sort) /\ search = None
    BY <1>9 DEF SortCommand, Searching, ListsCurrent
  <2>2. \/ Resort([sort EXCEPT !.key = NextKey(sort.key)])
        \/ Resort([sort EXCEPT !.asc = ~ sort.asc])
    BY <1>9 DEF SortCommand
  <2>3. IsSort([sort EXCEPT !.key = NextKey(sort.key)])
    BY <2>1, NextKeyIsAKey
  <2>4. IsSort([sort EXCEPT !.asc = ~ sort.asc])
    BY <2>1 DEF IsSort
  <2> QED
    BY <1>8, <2>1, <2>2, <2>3, <2>4
<1>10. CASE Return
  <2>1. CASE UNCHANGED lists
    BY <1>1, <2>1
  <2>2. CASE ~ UNCHANGED lists
    <3>1. PICK query \in DOMAIN Passing : filter' = RefreshedFilter(query, sort)
      BY <1>10, <2>2 DEF Return
    <3>2. UNCHANGED <<search, sort>> /\ UNCHANGED tree
      BY <1>10, <2>2 DEF Return
    <3>3. FilterCurrent'
      BY <3>1, <3>2, RefreshKeepsFilter DEF ListsCurrent
    <3>4. SearchCurrent'
      BY <3>2 DEF ListsCurrent, SearchCurrent, tree
    <3> QED
      BY <3>2, <3>3, <3>4 DEF ListsCurrent
  <2> QED
    BY <2>1, <2>2
<1>11. CASE \/ MoveSelection \/ HomeEnd \/ MoveToParent \/ MoveToSibling \/ MoveToFirstChild
            \/ ActivateSelection \/ ExpandOrCollapse \/ CompactToggle \/ ExitSearch
            \/ RevealSearchResult \/ Click \/ Scroll \/ Draw \/ Resize \/ UNCHANGED vars
  <2>1. (search' = None \/ search' = search) /\ UNCHANGED <<filter, sort>>
    BY <1>11 DEF MoveSelection, HomeEnd, MoveToParent, MoveToSibling, MoveToFirstChild,
         ActivateSelection, ExpandOrCollapse, CompactToggle, ExitSearch, RevealSearchResult,
         Click, Scroll, Draw, Resize, vars
  <2> QED
    BY <1>1, <2>1
<1> QED
  BY <1>2, <1>4, <1>5, <1>6, <1>7, <1>9, <1>10, <1>11 DEF Next

(***************************************************************************)
(* The selection.                                                          *)
(***************************************************************************)

ViewTyped ==
  /\ selected \in Nat /\ scroll \in Nat /\ lastSel \in Nat \union {-1}
  /\ burst \in 0..MaxBurst /\ scrolled \in BOOLEAN /\ size \in Sizes

LEMMA VisibleInRows ==
  ASSUME NEW s, NEW f, NEW flat \in Seq(Rows),
         s # None => s.filtered \in Seq(Rows), f # None => f.filtered \in Seq(Rows)
  PROVE  /\ VisibleIn(s, f, flat) \in Seq(Rows) /\ Len(VisibleIn(s, f, flat)) \in Nat
         /\ VisibleIn(s, f, flat) # <<>> => Len(VisibleIn(s, f, flat)) > 0
PROOF
<1>1. VisibleIn(s, f, flat) \in Seq(Rows)
  BY DEF VisibleIn
<1> QED
  BY <1>1, EmptySeq, LenProperties

LEMMA VisibleRows ==
  ASSUME TreeCurrent, ListsCurrent
  PROVE  /\ Visible \in Seq(Rows) /\ Len(Visible) \in Nat
         /\ Visible # <<>> => Len(Visible) > 0
PROOF
<1>1. flattened \in Seq(Rows)
  BY TreeRowsTyped
<1>2. search # None => search.filtered \in Seq(Rows)
  BY DEF ListsCurrent, SearchCurrent, SearchRecord
<1>3. filter # None => filter.filtered \in Seq(Rows)
  BY DEF ListsCurrent, FilterCurrent, FilterRecord
<1> QED
  BY <1>1, <1>2, <1>3, VisibleInRows DEF Visible

LEMMA VisibleRowsNext ==
  ASSUME TreeCurrent', ListsCurrent'
  PROVE  /\ Visible' \in Seq(Rows) /\ Len(Visible') \in Nat
         /\ Visible' # <<>> => Len(Visible') > 0
PROOF
<1>1. flattened' \in Seq(Rows)
  BY FlatFacts DEF TreeCurrent
<1>2. search' # None => search'.filtered \in Seq(Rows)
  BY DEF ListsCurrent, SearchCurrent, SearchRecord
<1>3. filter' # None => filter'.filtered \in Seq(Rows)
  BY DEF ListsCurrent, FilterCurrent, FilterRecord
<1> QED
  BY <1>1, <1>2, <1>3, VisibleInRows DEF Visible

\* A row that is folded or unfolded keeps its place.
LEMMA ToggleKeepsRow ==
  ASSUME TreeCurrent, NEW i \in Nat, HasRow(flattened, i), ToggleAt(i)
  PROVE  HasRow(flattened', i)
PROOF
<1> DEFINE x == NthOf(Shown(compact, open), i + 1)
<1>1. /\ compact \in BOOLEAN /\ flattened = FlattenTree(compact, open)
      /\ flattened' = FlattenTree(compact, open')
  BY DEF TreeCurrent, ToggleAt
<1>2. i + 1 \in 1..Len(flattened)
  BY TreeRowsTyped DEF HasRow
<1>3. /\ x \in Shown(compact, open)
      /\ flattened[i + 1] = RowOf(compact, open, x)
      /\ i + 1 \in 1..Cardinality(Shown(compact, open))
  BY <1>1, <1>2, FlatFacts
<1>4. PlaceIn(Shown(compact, open), x) = i + 1
  <2>1. Size(compact) \in Nat /\ Shown(compact, open) \in SUBSET (1..Size(compact))
    BY <1>1, TreeFacts, ShownFacts
  <2> QED
    BY <1>3, <2>1, NthIsThere
<1> HIDE DEF x
<1>5. Row(flattened, i).node = NodeAt(compact, x)
  BY <1>3 DEF Row, RowOf, NodeAt
<1>6. \A n \in Nodes(compact) : n # NodeAt(compact, x) => (n \in open <=> n \in open')
  BY <1>1, <1>5 DEF ToggleAt, ToggleNodeByIndex, ToggleNode
<1>7. i + 1 <= Len(FlattenTree(compact, open'))
  BY <1>1, <1>3, <1>4, <1>6, ToggledRowStays
<1>8. Len(flattened') \in Nat
  BY <1>1, FlatFacts
<1> QED
  BY <1>1, <1>7, <1>8 DEF HasRow

\* The row of the group that is left for: the nearest shallower one.
LEMMA ParentRowFacts ==
  ASSUME NEW rows \in Seq(Rows), NEW i \in Nat, HasRow(rows, i)
  PROVE  \/ /\ ParentRow(rows, i) = i
            /\ \A k \in 0..(i - 1) : ~ (Row(rows, k).depth < Row(rows, i).depth)
         \/ /\ ParentRow(rows, i) \in 0..(i - 1)
            /\ Row(rows, ParentRow(rows, i)).depth < Row(rows, i).depth
            /\ \A k \in 0..(i - 1) :
                 Row(rows, k).depth < Row(rows, i).depth => k <= ParentRow(rows, i)
PROOF
<1> DEFINE shallower == {k \in 0..(i - 1) : HasRow(rows, k)
                           /\ Row(rows, k).depth < Row(rows, i).depth}
<1>1. \A k \in 0..(i - 1) : HasRow(rows, k)
  BY LenProperties DEF HasRow
<1>2. CASE shallower = {}
  BY <1>1, <1>2 DEF ParentRow
<1>3. CASE shallower # {}
  <2>1. shallower \in SUBSET (0..i)
    OBVIOUS
  <2>2. \E k \in shallower : \A l \in shallower : l <= k
    BY <1>3, <2>1, GreatestOf
  <2>3. ParentRow(rows, i) = CHOOSE k \in shallower : \A l \in shallower : l <= k
    BY <1>3 DEF ParentRow
  <2>4. ParentRow(rows, i) \in shallower /\ \A l \in shallower : l <= ParentRow(rows, i)
    BY <2>2, <2>3
  <2> QED
    BY <1>1, <2>4
<1> QED
  BY <1>2, <1>3

\* The row of the sibling: the same depth, and nothing as shallow between.
LEMMA SiblingRowFacts ==
  ASSUME NEW rows \in Seq(Rows), NEW i \in Nat, HasRow(rows, i), NEW forward \in BOOLEAN
  PROVE  LET k == SiblingRow(rows, i, forward)
         IN  /\ k \in 0..(Len(rows) - 1)
             /\ Row(rows, k).depth = Row(rows, i).depth
             /\ \A l \in 0..(Len(rows) - 1) :
                  (i < l /\ l < k) \/ (k < l /\ l < i) => Row(rows, l).depth > Row(rows, i).depth
PROOF
<1> DEFINE d == Row(rows, i).depth
           side == IF forward THEN (i + 1)..(Len(rows) - 1) ELSE 0..(i - 1)
           between(k) == IF forward THEN (i + 1)..(k - 1) ELSE (k + 1)..(i - 1)
           next == {k \in side : /\ Row(rows, k).depth = d
                                 /\ \A l \in between(k) : Row(rows, l).depth > d}
           it == SiblingRow(rows, i, forward)
<1>1. Len(rows) \in Nat /\ i \in 0..(Len(rows) - 1)
  BY LenProperties DEF HasRow
<1>2. CASE next = {}
  <2>1. it = i
    BY <1>2 DEF SiblingRow
  <2> QED
    BY <1>1, <2>1
<1>3. CASE next # {}
  <2>1. it = CHOOSE k \in next : TRUE
    BY <1>3 DEF SiblingRow
  <2>2. it \in next
    BY <1>3, <2>1
  <2>3. /\ it \in side /\ Row(rows, it).depth = d
        /\ \A l \in between(it) : Row(rows, l).depth > d
    BY <2>2
  <2> HIDE DEF it, d, next
  <2>4. it \in 0..(Len(rows) - 1)
    BY <1>1, <2>3
  <2>5. ASSUME NEW l \in 0..(Len(rows) - 1), (i < l /\ l < it) \/ (it < l /\ l < i)
        PROVE  l \in between(it)
    BY <1>1, <2>3, <2>4, <2>5
  <2> QED
    BY <2>3, <2>4, <2>5 DEF it, d
<1> QED
  BY <1>2, <1>3

\* The rows of a tensor, and the first of them.
RowsFor(rows, name) == {k \in 0..(Len(rows) - 1) : Row(rows, k).node = name}
FirstFor(rows, name) == CHOOSE k \in RowsFor(rows, name) :
                          \A l \in RowsFor(rows, name) : k <= l

LEMMA FirstForIsThere ==
  ASSUME NEW rows \in Seq(Rows), NEW name, RowsFor(rows, name) # {}
  PROVE  FirstFor(rows, name) \in RowsFor(rows, name)
PROOF
<1>1. RowsFor(rows, name) \in SUBSET Nat
  BY LenProperties DEF RowsFor
<1> QED
  BY <1>1, LeastOf DEF FirstFor

\* A node of the tree shows once the groups above it are open.
LEMMA OpenedShows ==
  ASSUME NEW c \in BOOLEAN, NEW o, NEW name \in Nodes(c), GroupsAbove(c, name) \subseteq o
  PROVE  RowsFor(FlattenTree(c, o), name) # {}
PROOF
<1>1. PICK i \in 1..Size(c) : name = NodeAt(c, i)
  BY DEF Nodes, Size, NodeAt
<1>2. Around[c][i] \subseteq o
  BY <1>1 DEF GroupsAbove, Size, NodeAt
<1>3. i \in Shown(c, o)
  BY <1>2, ShownFacts
<1> DEFINE k == PlaceIn(Shown(c, o), i)
           rows == FlattenTree(c, o)
<1>4. k \in 1..Len(rows) /\ Len(rows) \in Nat /\ rows[k] = RowOf(c, o, i)
  BY <1>3, FlatFacts
<1>5. rows[k].node = name
  BY <1>1, <1>4 DEF RowOf, NodeAt
<1> HIDE DEF k, rows
<1>6. k - 1 \in 0..(Len(rows) - 1) /\ (k - 1) + 1 = k
  BY <1>4
<1>7. k - 1 \in RowsFor(rows, name)
  BY <1>5, <1>6 DEF RowsFor, Row
<1> QED
  BY <1>7 DEF rows

LEMMA RevealUnfolds ==
  ASSUME NEW name, NEW s, NEW from, Reveal(name, s, from)
  PROVE  LET rows == VisibleIn(s, filter, flattened)
         IN  \/ /\ RowsFor(rows, name) # {} /\ selected' = FirstFor(rows, name)
                /\ UNCHANGED tree
             \/ /\ RowsFor(rows, name) = {} /\ s # None /\ selected' = from
                /\ UNCHANGED tree
             \/ /\ RowsFor(rows, name) = {} /\ s = None
                /\ open' = open \union GroupsAbove(compact, name)
                /\ flattened' = FlattenTree(compact, open') /\ compact' = compact
                /\ selected' = IF RowsFor(flattened', name) # {}
                                 THEN FirstFor(flattened', name) ELSE from
PROOF BY Zenon DEF Reveal, RowsFor, FirstFor

\* reveal leaves the selection on a row of the list, or where it was asked to
\* when there is nothing to show.
LEMMA RevealSelects ==
  ASSUME TreeCurrent, NEW name, NEW s, NEW from \in Nat, Reveal(name, s, from),
         VisibleIn(s, filter, flattened) \in Seq(Rows)
  PROVE  /\ selected' \in Nat
         /\ (s # None \/ filter = None) =>
              \/ HasRow(VisibleIn(s, filter, flattened'), selected')
              \/ selected' = from /\ flattened' = flattened
PROOF
<1> DEFINE rows == VisibleIn(s, filter, flattened)
<1>1. Len(rows) \in Nat
  BY LenProperties
<1> HIDE DEF rows
<1>2. CASE RowsFor(rows, name) # {} /\ selected' = FirstFor(rows, name) /\ UNCHANGED tree
  <2>1. selected' \in 0..(Len(rows) - 1)
    BY <1>2, FirstForIsThere DEF RowsFor, rows
  <2>2. selected' \in Nat /\ HasRow(rows, selected')
    BY <1>1, <2>1 DEF HasRow
  <2> QED
    BY <1>2, <2>2 DEF tree, rows
<1>3. CASE s # None /\ selected' = from /\ UNCHANGED tree
  BY <1>3 DEF tree
<1>4. CASE /\ s = None
           /\ open' = open \union GroupsAbove(compact, name)
           /\ flattened' = FlattenTree(compact, open') /\ compact' = compact
           /\ selected' = IF RowsFor(flattened', name) # {}
                            THEN FirstFor(flattened', name) ELSE from
  <2>1. compact \in BOOLEAN /\ flattened = FlattenTree(compact, open)
    BY DEF TreeCurrent
  <2>2. flattened' \in Seq(Rows) /\ Len(flattened') \in Nat
    BY <1>4, <2>1, FlatFacts
  <2>3. CASE RowsFor(flattened', name) # {}
    <3>1. selected' \in 0..(Len(flattened') - 1)
      BY <1>4, <2>2, <2>3, FirstForIsThere DEF RowsFor
    <3>2. selected' \in Nat /\ HasRow(flattened', selected')
      BY <2>2, <3>1 DEF HasRow
    <3> QED
      BY <1>4, <3>2 DEF VisibleIn
  <2>4. CASE RowsFor(flattened', name) = {}
    <3>1. name \notin Nodes(compact)
      BY <1>4, <2>1, <2>4, OpenedShows
    <3>2. GroupsAbove(compact, name) = {}
      BY <3>1 DEF GroupsAbove, Nodes
    <3>3. open' = open
      BY <1>4, <3>2
    <3> QED
      BY <1>4, <2>1, <2>4, <3>3
  <2> QED
    BY <2>3, <2>4
<1> QED
  BY <1>2, <1>3, <1>4, RevealUnfolds DEF rows

LEMMA TopIsARow ==
  ASSUME TreeCurrent', ListsCurrent', selected' = 0
  PROVE  selected' \in Nat /\ SelectionIsARow'
PROOF
<1>1. Visible' # <<>> => Len(Visible') > 0
  BY VisibleRowsNext
<1> QED
  BY <1>1 DEF SelectionIsARow

LEMMA SameRowsSelect ==
  ASSUME UNCHANGED <<flattened, search, filter>>,
         ~ FilterShown => selected' < Len(Visible) \/ (Visible = <<>> /\ selected' = 0)
  PROVE  SelectionIsARow'
PROOF
<1>1. Visible' = Visible /\ FilterShown' = FilterShown
  BY DEF Visible, FilterShown, Searching
<1> QED
  BY <1>1 DEF SelectionIsARow

\* Folding or unfolding row i while no search is on, and selecting it.
LEMMA FoldedIsARow ==
  ASSUME TreeCurrent, NEW i \in Nat, search = None, UNCHANGED <<search, filter>>,
         filter = None => HasRow(flattened, i), ToggleAt(i), selected' = i
  PROVE  SelectionIsARow'
PROOF
<1>1. CASE filter # None
  BY <1>1 DEF SelectionIsARow, FilterShown, Searching
<1>2. CASE filter = None
  <2>1. HasRow(flattened', i)
    BY <1>2, ToggleKeepsRow
  <2>2. Visible' = flattened'
    BY <1>2 DEF Visible, VisibleIn
  <2> QED
    BY <2>1, <2>2 DEF SelectionIsARow, HasRow
<1> QED
  BY <1>1, <1>2

\* The row of a click is counted in the list that shows, unless a filter's is.
LEMMA CountedRows ==
  ASSUME TreeCurrent, ~ FilterShown
  PROVE  CurrentTreeLen = Len(Visible)
PROOF BY DEF CurrentTreeLen, FilterShown, Visible, VisibleIn, Searching

\* Moving the caret leaves the search and its rows.
LEMMA CaretKeepsSearch ==
  ASSUME ListsCurrent, MoveCaret
  PROVE  search # None /\ search' # None /\ search'.filtered = search.filtered
PROOF
<1>1. search # None /\ search \in SearchRecord
  BY DEF MoveCaret, Searching, ListsCurrent, SearchCurrent
<1>2. PICK at \in {0, AtLeast0(search.cursor - 1), Len(search.query),
                  Least(search.cursor + 1, Len(search.query))} :
        search' = [search EXCEPT !.cursor = at]
  BY DEF MoveCaret
<1>3. at \in Nat
  <2>1. search.cursor \in Nat /\ search.query \in Queries
    BY <1>1 DEF SearchRecord
  <2>2. Len(search.query) \in Nat
    BY <2>1, QueriesAreShort, LenProperties
  <2> QED
    BY <2>1, <2>2 DEF AtLeast0, Least
<1>4. search' \in SearchRecord /\ search'.filtered = search.filtered
  BY <1>1, <1>2, <1>3 DEF SearchRecord
<1> QED
  BY <1>1, <1>4, TreeViewAssumptions

\* Whatever is pressed, clicked or revealed, a row of the list is selected.
LEMMA SelectionStep ==
  ASSUME TreeCurrent, ListsCurrent, ViewTyped, SelectionIsARow,
         TreeCurrent', ListsCurrent', [Next]_vars
  PROVE  selected' \in Nat /\ SelectionIsARow'
PROOF
<1> USE DEF tree, lists, view, SelectRow
<1>0. /\ selected \in Nat /\ scroll \in Nat
      /\ Visible \in Seq(Rows) /\ Len(Visible) \in Nat
      /\ flattened \in Seq(Rows) /\ Len(flattened) \in Nat /\ Len(flattened) >= 1
  BY VisibleRows, TreeRowsTyped DEF ViewTyped
<1>1. CASE MoveSelection
  <2>1. PICK n \in Jumps : \/ selected' = AtLeast0(selected - n)
                           \/ selected' = Least(selected + n, Len(Visible) - 1)
    BY <1>1 DEF MoveSelection
  <2>2. n \in Nat
    BY TreeViewAssumptions
  <2>3. Len(Visible) > 0 /\ UNCHANGED <<flattened, search, filter>>
    BY <1>1 DEF MoveSelection
  <2>4. ~ FilterShown => selected < Len(Visible)
    BY <1>0, <2>3, EmptySeq DEF SelectionIsARow
  <2>5. selected' \in Nat /\ (~ FilterShown => selected' < Len(Visible))
    BY <1>0, <2>1, <2>2, <2>3, <2>4 DEF AtLeast0, Least
  <2> QED
    BY <2>3, <2>5, SameRowsSelect
<1>2. CASE HomeEnd
  <2>1. selected' = 0 \/ selected' = AtLeast0(Len(Visible) - 1)
    BY <1>2 DEF HomeEnd
  <2>2. UNCHANGED <<flattened, search, filter>>
    BY <1>2 DEF HomeEnd
  <2>3. /\ selected' \in Nat
        /\ Len(Visible) > 0 => selected' < Len(Visible)
        /\ Len(Visible) = 0 => selected' = 0
    BY <1>0, <2>1 DEF AtLeast0
  <2>4. Visible = <<>> \/ Len(Visible) > 0
    BY VisibleRows
  <2>5. Visible = <<>> => selected' = 0
    <3>1. Visible = <<>> => Len(Visible) = 0
      BY <1>0, EmptySeq
    <3> QED
      BY <2>3, <3>1
  <2> QED
    BY <2>2, <2>3, <2>4, <2>5, SameRowsSelect
<1>3. CASE MoveToParent
  <2>1. /\ HasRow(Visible, selected) /\ selected' = ParentRow(Visible, selected)
        /\ UNCHANGED <<flattened, search, filter>>
    BY <1>3 DEF MoveToParent
  <2>2. selected' = selected \/ selected' \in 0..(selected - 1)
    BY <1>0, <2>1, ParentRowFacts
  <2>3. selected' \in Nat /\ selected' < Len(Visible)
    BY <1>0, <2>1, <2>2 DEF HasRow
  <2> QED
    BY <2>1, <2>3, SameRowsSelect
<1>4. CASE MoveToSibling
  <2>1. PICK forward \in BOOLEAN : selected' = SiblingRow(Visible, selected, forward)
    BY <1>4 DEF MoveToSibling
  <2>2. HasRow(Visible, selected) /\ UNCHANGED <<flattened, search, filter>>
    BY <1>4 DEF MoveToSibling
  <2>3. selected' \in 0..(Len(Visible) - 1)
    BY <1>0, <2>1, <2>2, SiblingRowFacts
  <2>4. selected' \in Nat /\ selected' < Len(Visible)
    BY <1>0, <2>3
  <2> QED
    BY <2>2, <2>4, SameRowsSelect
<1>5. CASE MoveToFirstChild
  <2>1. search = None /\ HasRow(flattened, selected) /\ UNCHANGED <<search, filter>>
    BY <1>5 DEF MoveToFirstChild, Searching
  <2>2. UNCHANGED tree \/ ToggleAt(selected)
    BY <1>5 DEF MoveToFirstChild
  <2>3. \/ HasRow(flattened', selected + 1) /\ selected' = selected + 1
        \/ selected' = selected
    BY <1>5 DEF MoveToFirstChild
  <2>4. HasRow(flattened', selected)
    BY <1>0, <2>1, <2>2, ToggleKeepsRow
  <2>5. selected' \in Nat /\ HasRow(flattened', selected')
    BY <1>0, <2>3, <2>4
  <2>6. filter = None => Visible' = flattened'
    BY <2>1 DEF Visible, VisibleIn
  <2> QED
    BY <2>1, <2>5, <2>6 DEF SelectionIsARow, FilterShown, Searching, HasRow
<1>6. CASE ActivateSelection
  <2>1. /\ search = None /\ ToggleAt(selected) /\ selected' = selected
        /\ HasRow(Visible, selected) /\ UNCHANGED <<search, filter>>
    BY <1>6 DEF ActivateSelection, Searching
  <2>2. filter = None => HasRow(flattened, selected)
    BY <2>1 DEF Visible, VisibleIn
  <2> QED
    BY <1>0, <2>1, <2>2, FoldedIsARow
<1>7. CASE \/ ExpandOrCollapse \/ CompactToggle \/ EnterSearch \/ SearchInsert
           \/ SearchBackspace \/ ExitSearch \/ Filter \/ SortCommand
  <2>1. selected' = 0
    BY <1>7 DEF ExpandOrCollapse, SetAllExpanded, CompactToggle, EnterSearch, SearchInsert,
         SearchBackspace, ExitSearch, Filter, SortCommand, ToTop
  <2> QED
    BY <2>1, TopIsARow
<1>8. CASE MoveCaret
  <2>1. /\ search # None /\ UNCHANGED <<flattened, filter, selected>>
        /\ \E at : search' = [search EXCEPT !.cursor = at]
    BY <1>8 DEF MoveCaret, Searching
  <2>2. search' # None /\ search'.filtered = search.filtered
    BY <1>8, CaretKeepsSearch
  <2>3. Visible' = Visible
    BY <2>1, <2>2 DEF Visible, VisibleIn
  <2> QED
    BY <1>0, <2>1, <2>2, <2>3 DEF SelectionIsARow, FilterShown, Searching
<1>9. CASE RevealSearchResult
  <2>1. /\ Reveal(Row(Visible, selected).node, None, 0) /\ search' = None
        /\ filter' = filter
    BY <1>9 DEF RevealSearchResult
  <2>2. VisibleIn(None, filter, flattened) \in Seq(Rows)
    BY <1>0 DEF VisibleIn, ListsCurrent, FilterCurrent, FilterRecord
  <2>3. /\ selected' \in Nat
        /\ filter = None => \/ HasRow(VisibleIn(None, filter, flattened'), selected')
                            \/ selected' = 0
    BY <2>1, <2>2, RevealSelects
  <2>4. Visible' = VisibleIn(None, filter, flattened')
    BY <2>1 DEF Visible
  <2>5. CASE filter # None
    BY <2>1, <2>3, <2>5 DEF SelectionIsARow, FilterShown, Searching
  <2>6. CASE filter = None
    BY <2>3, <2>4, <2>6, TopIsARow DEF SelectionIsARow, HasRow
  <2> QED
    BY <2>5, <2>6
<1>10. CASE Click
  <2>1. PICK r \in 0..(VisibleRowCount - 1) :
          /\ scroll + r < CurrentTreeLen /\ selected' = scroll + r
          /\ \/ UNCHANGED tree
             \/ ~ Searching /\ HasRow(Visible, scroll + r) /\ ToggleAt(scroll + r)
    BY <1>10 DEF Click
  <2>2. UNCHANGED <<search, filter>> /\ scroll + r \in Nat
    BY <1>0, <1>10 DEF Click
  <2>3. CASE UNCHANGED tree
    <3>1. ~ FilterShown => selected' < Len(Visible)
      BY <2>1, CountedRows
    <3> QED
      BY <2>1, <2>2, <2>3, <3>1, SameRowsSelect
  <2>4. CASE ~ Searching /\ HasRow(Visible, scroll + r) /\ ToggleAt(scroll + r)
    <3>1. search = None /\ (filter = None => HasRow(flattened, scroll + r))
      BY <2>4 DEF Searching, Visible, VisibleIn
    <3> QED
      BY <2>1, <2>2, <2>4, <3>1, FoldedIsARow
  <2> QED
    BY <2>1, <2>3, <2>4
<1>11. CASE Scroll \/ Draw \/ Resize \/ UNCHANGED vars
  <2>1. UNCHANGED <<flattened, search, filter, selected>>
    BY <1>11 DEF Scroll, Draw, Resize, vars
  <2>2. ~ FilterShown => selected' < Len(Visible) \/ (Visible = <<>> /\ selected' = 0)
    BY <2>1 DEF SelectionIsARow
  <2> QED
    BY <1>0, <2>1, <2>2, SameRowsSelect
<1>12. CASE Return
  <2>1. CASE selected' = 0
    BY <2>1, TopIsARow
  <2>2. CASE selected' # 0
    <3>1. PICK name : Reveal(name, search, selected) /\ UNCHANGED <<search, filter>>
      BY <1>12, <2>2 DEF Return, ToTop
    <3>2. VisibleIn(search, filter, flattened) \in Seq(Rows)
      BY <1>0 DEF Visible
    <3>3. /\ selected' \in Nat
          /\ (search # None \/ filter = None) =>
               \/ HasRow(VisibleIn(search, filter, flattened'), selected')
               \/ selected' = selected /\ flattened' = flattened
      BY <1>0, <3>1, <3>2, RevealSelects
    <3>4. Visible' = VisibleIn(search, filter, flattened') /\ FilterShown' = FilterShown
      BY <3>1 DEF Visible, FilterShown, Searching
    <3>5. CASE FilterShown
      BY <3>3, <3>4, <3>5 DEF SelectionIsARow
    <3>6. CASE ~ FilterShown
      <4>1. search # None \/ filter = None
        BY <3>6 DEF FilterShown, Searching
      <4>2. CASE HasRow(VisibleIn(search, filter, flattened'), selected')
        BY <3>3, <3>4, <4>2 DEF SelectionIsARow, HasRow
      <4>3. CASE selected' = selected /\ flattened' = flattened
        BY <1>0, <3>1, <3>6, <4>3, SameRowsSelect DEF SelectionIsARow
      <4> QED
        BY <3>3, <4>1, <4>2, <4>3
    <3> QED
      BY <3>5, <3>6
  <2> QED
    BY <2>1, <2>2
<1> QED
  BY <1>1, <1>2, <1>3, <1>4, <1>5, <1>6, <1>7, <1>8, <1>9, <1>10, <1>11, <1>12 DEF Next

(***************************************************************************)
(* The screen.                                                             *)
(***************************************************************************)

\* The row of the last draw is on the screen until the view is scrolled away
\* from it, and right after a draw it is the selected one.
DrawnOnScreen ==
  /\ (lastSel # -1 /\ ~ scrolled /\ ~ FilterShown /\ Visible # <<>>)
       => lastSel \in scroll..(scroll + VisibleRowCount - 1)
  /\ (burst = 0 /\ lastSel # -1) => selected = lastSel

LEMMA RowCount ==
  ASSUME ViewTyped
  PROVE  VisibleRowCount \in Nat \ {0}
PROOF BY TreeViewAssumptions DEF ViewTyped, VisibleRowCount, Searching

\* Only a draw starts a new burst, and only a resize changes the size.
LEMMA ViewStep ==
  ASSUME ViewTyped, ListsCurrent, TreeCurrent, selected' \in Nat, [Next]_vars
  PROVE  /\ ViewTyped' /\ (burst' = 0 => Draw \/ UNCHANGED vars)
         /\ Resize \/ UNCHANGED size
PROOF
<1> USE DEF view, SelectRow, ToTop
<1>0. /\ MaxBurst \in Nat \ {0} /\ WheelStep \in Nat
      /\ scroll \in Nat /\ burst \in 0..MaxBurst /\ scrolled \in BOOLEAN
      /\ lastSel \in Nat \union {-1} /\ selected \in Nat /\ size \in Sizes
  BY TreeViewAssumptions DEF ViewTyped
<1>1. CASE Draw
  <2> DEFINE body == VisibleRowCount
             from == IF selected # lastSel THEN Snapped(selected, scroll, body) ELSE scroll
  <2>1. body \in Nat /\ CurrentTreeLen \in Int
    <3>1. body \in Nat
      BY RowCount
    <3>2. Len(Visible) \in Nat /\ Len(flattened) \in Nat
      BY VisibleRows, TreeRowsTyped
    <3> QED
      BY <3>1, <3>2 DEF CurrentTreeLen
  <2>2. scroll' = Least(from, AtLeast0(CurrentTreeLen - body))
    BY <1>1 DEF Draw
  <2>3. lastSel' = selected /\ burst' = 0 /\ scrolled' \in BOOLEAN /\ size' = size
    BY <1>1 DEF Draw
  <2>4. scroll' \in Nat
    <3> HIDE DEF body
    <3>1. from \in Nat
      BY <1>0, <2>1 DEF Snapped, AtLeast0
    <3> HIDE DEF from
    <3>2. AtLeast0(CurrentTreeLen - body) \in Nat
      BY <2>1 DEF AtLeast0
    <3> QED
      BY <2>2, <3>1, <3>2 DEF Least
  <2> QED
    BY <1>0, <1>1, <2>3, <2>4 DEF ViewTyped
<1>2. CASE UNCHANGED vars
  BY <1>0, <1>2 DEF vars, ViewTyped
<1>3. CASE Resize
  <2>1. burst' \in 0..MaxBurst /\ burst' # 0 /\ size' \in Sizes
    BY <1>0, <1>3 DEF Resize
  <2>2. scroll' = scroll /\ lastSel' = lastSel /\ scrolled' \in BOOLEAN
    BY <1>0, <1>3 DEF Resize
  <2> QED
    BY <1>0, <1>3, <2>1, <2>2 DEF ViewTyped
<1>4. CASE Handled
  <2>1. burst' \in 0..MaxBurst /\ burst' # 0 /\ size' = size
    BY <1>0, <1>4 DEF Handled
  <2>2. scroll' \in Nat /\ scrolled' \in BOOLEAN /\ lastSel' \in Nat \union {-1}
    <3>1. CASE Scroll
      <4>1. scroll' \in {AtLeast0(scroll - WheelStep), scroll + WheelStep}
            \/ scroll' \in 0..AtLeast0(CurrentTreeLen - VisibleRowCount)
        BY <3>1 DEF Scroll
      <4>2. AtLeast0(scroll - WheelStep) \in Nat /\ scroll + WheelStep \in Nat
        BY <1>0 DEF AtLeast0
      <4>3. scroll' \in Nat
        BY <4>1, <4>2
      <4> QED
        BY <1>0, <3>1, <4>3 DEF Scroll
    <3>2. CASE ~ Scroll /\ ~ Draw /\ ~ Resize /\ Next
      <4>1. CASE MoveSelection \/ HomeEnd \/ MoveToParent \/ MoveToSibling \/ MoveToFirstChild
                 \/ ActivateSelection \/ MoveCaret \/ Click
        BY <1>0, <4>1 DEF MoveSelection, HomeEnd, MoveToParent, MoveToSibling,
             MoveToFirstChild, ActivateSelection, MoveCaret, Click
      <4>2. CASE ExpandOrCollapse \/ CompactToggle \/ EnterSearch \/ SearchInsert
                 \/ SearchBackspace \/ ExitSearch \/ RevealSearchResult \/ Filter \/ SortCommand
        <5>1. scroll' = 0 /\ scrolled' = TRUE /\ lastSel' = lastSel
          BY <4>2 DEF ExpandOrCollapse, SetAllExpanded, CompactToggle, EnterSearch,
               SearchInsert, SearchBackspace, ExitSearch, RevealSearchResult, Filter, SortCommand
        <5> QED
          BY <1>0, <5>1
      <4>3. CASE Return
        BY <1>0, <4>3 DEF Return
      <4> QED
        BY <3>2, <4>1, <4>2, <4>3 DEF Next
    <3>3. CASE Draw \/ UNCHANGED vars
      BY <1>1, <1>2, <3>3 DEF ViewTyped
    <3>4. CASE Resize
      BY <1>3, <3>4 DEF ViewTyped
    <3> QED
      BY <3>1, <3>2, <3>3, <3>4
  <2> QED
    BY <1>0, <2>1, <2>2 DEF ViewTyped
<1>5. Handled \/ Draw \/ Resize \/ UNCHANGED vars
  BY DEF Next, MoveSelection, HomeEnd, MoveToParent, MoveToSibling, MoveToFirstChild,
    ActivateSelection, ExpandOrCollapse, CompactToggle, EnterSearch, SearchInsert,
    SearchBackspace, MoveCaret, ExitSearch, RevealSearchResult, Filter, SortCommand, Click,
    Scroll, Return
<1> QED
  BY <1>1, <1>2, <1>3, <1>4, <1>5

\* The clamp at the end of a draw never moves a row of the list off the
\* screen that was on it.
LEMMA ClampKeepsRow ==
  ASSUME NEW n \in Nat, NEW body \in Nat \ {0}, NEW from \in Nat, NEW sel \in Nat,
         sel < n, sel \in from..(from + body - 1)
  PROVE  LET to == Least(from, AtLeast0(n - body))
         IN  sel \in to..(to + body - 1)
PROOF
<1>1. from <= sel /\ sel <= (from + body) - 1
  OBVIOUS
<1>2. CASE from <= n - body
  BY <1>1, <1>2 DEF Least, AtLeast0
<1>3. CASE n - body < from
  BY <1>1, <1>3 DEF Least, AtLeast0
<1> QED
  BY <1>2, <1>3

\* The view follows the selection far enough.
LEMMA SnappedShows ==
  ASSUME NEW body \in Nat \ {0}, NEW from \in Nat, NEW sel \in Nat
  PROVE  /\ Snapped(sel, from, body) \in Nat
         /\ sel \in Snapped(sel, from, body)..(Snapped(sel, from, body) + body - 1)
PROOF BY DEF Snapped, AtLeast0

\* A step that leaves view and lists as they are.
LEMMA SameScreen ==
  ASSUME DrawnOnScreen, UNCHANGED <<scroll, scrolled, lastSel, size>>, burst' # 0,
         Searching' = Searching, FilterShown' = FilterShown,
         ~ FilterShown /\ Visible' # <<>> => Visible # <<>>
  PROVE  DrawnOnScreen'
PROOF BY DEF DrawnOnScreen, VisibleRowCount

\* Folding while the tree shows: it had rows and has some.
LEMMA FoldedScreen ==
  ASSUME TreeCurrent, DrawnOnScreen,
         UNCHANGED <<scroll, scrolled, lastSel, size, search, filter>>,
         burst' # 0, search = None \/ UNCHANGED flattened
  PROVE  DrawnOnScreen'
PROOF
<1>1. Searching' = Searching /\ FilterShown' = FilterShown
  BY DEF Searching, FilterShown
<1>2. ~ FilterShown /\ Visible' # <<>> => Visible # <<>>
  <2>1. CASE UNCHANGED flattened
    BY <2>1 DEF Visible
  <2>2. CASE search = None
    <3>1. flattened # <<>>
      <4>1. \A none : none = <<>> => Len(none) = 0
        OBVIOUS
      <4> QED
        BY <4>1, TreeRowsTyped
    <3> QED
      BY <2>2, <3>1 DEF FilterShown, Searching, Visible, VisibleIn
  <2> QED
    BY <2>1, <2>2
<1> QED
  BY <1>1, <1>2, SameScreen

LEMMA DrawShows ==
  ASSUME TreeCurrent, ListsCurrent, ViewTyped, SelectionIsARow, DrawnOnScreen, Draw
  PROVE  DrawnOnScreen'
PROOF
<1> USE DEF tree, lists
<1> DEFINE body == VisibleRowCount
           from == IF selected # lastSel THEN Snapped(selected, scroll, body) ELSE scroll
<1>1. /\ scroll' = Least(from, AtLeast0(CurrentTreeLen - body))
      /\ lastSel' = selected /\ selected' = selected
      /\ scrolled' = (scrolled /\ selected = lastSel)
  BY DEF Draw
<1>2. Visible' = Visible /\ FilterShown' = FilterShown /\ VisibleRowCount' = VisibleRowCount
  BY DEF Draw, Visible, FilterShown, VisibleRowCount, Searching
<1>3. ASSUME ~ scrolled', ~ FilterShown, Visible # <<>>
      PROVE  selected \in scroll'..(scroll' + body - 1)
  <2>1. selected \in Nat /\ scroll \in Nat /\ Len(Visible) \in Nat
    BY VisibleRows DEF ViewTyped
  <2>2. body \in Nat \ {0}
    BY RowCount
  <2>3. selected < Len(Visible) /\ CurrentTreeLen = Len(Visible)
    BY <1>3, CountedRows DEF SelectionIsARow
  <2> HIDE DEF body
  <2>4. from \in Nat /\ selected \in from..(from + body - 1)
    <3>1. CASE selected # lastSel
      BY <2>1, <2>2, <3>1, SnappedShows
    <3>2. CASE selected = lastSel
      <4>1. ~ scrolled
        BY <1>1, <1>3, <3>2
      <4>2. lastSel # -1
        BY <2>1, <3>2
      <4>3. lastSel \in scroll..(scroll + body - 1)
        BY <1>3, <4>1, <4>2 DEF DrawnOnScreen, body
      <4> QED
        BY <2>1, <3>2, <4>3
    <3> QED
      BY <3>1, <3>2
  <2> HIDE DEF from
  <2>5. selected \in Least(from, AtLeast0(Len(Visible) - body))
                     ..(Least(from, AtLeast0(Len(Visible) - body)) + body - 1)
    BY <2>1, <2>2, <2>3, <2>4, ClampKeepsRow
  <2> QED
    BY <1>1, <2>3, <2>5
<1> QED
  BY <1>1, <1>2, <1>3 DEF DrawnOnScreen

\* A terminal that comes to show more rows shows those it showed.
LEMMA ResizedScreen ==
  ASSUME ViewTyped, ViewTyped', DrawnOnScreen, Resize, burst' # 0
  PROVE  DrawnOnScreen'
PROOF
<1> USE DEF tree, lists
<1>1. /\ UNCHANGED <<scroll, lastSel, flattened, search, filter>>
      /\ size' \in Sizes /\ scrolled' = (scrolled \/ ShrinksTo(size'))
  BY DEF Resize
<1>2. Visible' = Visible /\ FilterShown' = FilterShown /\ Searching' = Searching
  BY <1>1 DEF Visible, FilterShown, Searching
<1>3. ShrinksTo(size') = (VisibleRowCount' < VisibleRowCount)
  BY <1>2 DEF ShrinksTo, VisibleRowCount
<1>4. VisibleRowCount \in Nat /\ VisibleRowCount' \in Nat
  <2>1. size \in Sizes /\ size' \in Sizes /\ Searching \in BOOLEAN
    BY DEF ViewTyped, Searching
  <2> QED
    BY <1>2, <2>1, TreeViewAssumptions DEF VisibleRowCount
<1>5. scroll \in Nat /\ lastSel \in Nat \union {-1} /\ scrolled \in BOOLEAN
  BY DEF ViewTyped
<1>6. ASSUME lastSel # -1, ~ scrolled', ~ FilterShown, Visible # <<>>
      PROVE  lastSel \in scroll..(scroll + VisibleRowCount' - 1)
  <2>1. ~ scrolled /\ ~ ShrinksTo(size')
    BY <1>1, <1>6, Zenon
  <2>2. ~ (VisibleRowCount' < VisibleRowCount)
    BY <1>3, <2>1, Zenon
  <2>3. lastSel \in scroll..(scroll + VisibleRowCount - 1)
    BY <1>6, <2>1, Zenon DEF DrawnOnScreen
  <2> DEFINE before == VisibleRowCount
             after == VisibleRowCount'
  <2>4. before \in Nat /\ after \in Nat /\ ~ (after < before)
    BY <1>4, <2>2
  <2>5. lastSel \in scroll..(scroll + before - 1) /\ lastSel \in Int
    BY <1>5, <2>3
  <2> HIDE DEF before, after
  <2>6. lastSel \in scroll..(scroll + after - 1)
    BY <1>5, <2>4, <2>5
  <2> QED
    BY <2>6 DEF after
<1> QED
  BY <1>1, <1>2, <1>6 DEF DrawnOnScreen

\* Between two draws the view is either left alone with its list, or counted
\* as scrolled.
LEMMA ScreenStep ==
  ASSUME TreeCurrent, ListsCurrent, ViewTyped, SelectionIsARow, DrawnOnScreen,
         selected' \in Nat, [Next]_vars
  PROVE  DrawnOnScreen'
PROOF
<1> USE DEF tree, lists, view, SelectRow, ToTop
<1>1. CASE UNCHANGED vars
  BY <1>1 DEF vars, DrawnOnScreen, FilterShown, VisibleRowCount, Searching, Visible
<1>2. CASE Draw
  BY <1>2, DrawShows
<1>3. CASE Resize /\ ~ Draw /\ ~ UNCHANGED vars
  BY <1>3, ViewStep, ResizedScreen
<1>4. CASE ~ Draw /\ ~ Resize /\ ~ UNCHANGED vars
  <2>0. Next /\ burst' # 0 /\ size' = size
    BY <1>4, ViewStep
  <2>1. CASE scrolled' = TRUE \/ lastSel' = -1
    BY <2>0, <2>1 DEF DrawnOnScreen
  <2>2. CASE MoveToFirstChild \/ ActivateSelection
    <3>1. UNCHANGED <<scroll, scrolled, lastSel, search, filter>> /\ search = None
      BY <2>2 DEF MoveToFirstChild, ActivateSelection, Searching
    <3> QED
      BY <2>0, <3>1, FoldedScreen
  <2>3. CASE Click
    <3>1. /\ UNCHANGED <<scroll, scrolled, lastSel, search, filter>>
          /\ search = None \/ UNCHANGED flattened
      BY <2>3 DEF Click, Searching
    <3> QED
      BY <2>0, <3>1, FoldedScreen
  <2>4. CASE MoveSelection \/ HomeEnd \/ MoveToParent \/ MoveToSibling
    <3>1. UNCHANGED <<scroll, scrolled, lastSel, search, filter, flattened>>
      BY <2>4 DEF MoveSelection, HomeEnd, MoveToParent, MoveToSibling
    <3> QED
      BY <2>0, <3>1, FoldedScreen
  <2>5. CASE MoveCaret
    <3>1. /\ UNCHANGED <<scroll, scrolled, lastSel, filter>> /\ search # None
          /\ \E at : search' = [search EXCEPT !.cursor = at]
      BY <2>5 DEF MoveCaret, Searching
    <3>2. search' # None /\ search'.filtered = search.filtered
      BY <2>5, <3>1, CaretKeepsSearch
    <3>3. Searching' = Searching /\ FilterShown' = FilterShown /\ Visible' = Visible
      BY <3>1, <3>2 DEF Searching, FilterShown, Visible, VisibleIn
    <3> QED
      BY <2>0, <3>1, <3>3, SameScreen
  <2>6. CASE \/ ExpandOrCollapse \/ CompactToggle \/ EnterSearch \/ SearchInsert
             \/ SearchBackspace \/ ExitSearch \/ RevealSearchResult \/ Filter \/ SortCommand
             \/ Scroll
    <3>1. scrolled' = TRUE
      BY <2>6 DEF ExpandOrCollapse, SetAllExpanded, CompactToggle, EnterSearch, SearchInsert,
           SearchBackspace, ExitSearch, RevealSearchResult, Filter, SortCommand, Scroll
    <3> QED
      BY <2>1, <3>1
  <2>7. CASE Return
    BY <2>1, <2>7 DEF Return
  <2> QED
    BY <1>4, <2>0, <2>2, <2>3, <2>4, <2>5, <2>6, <2>7 DEF Next
<1> QED
  BY <1>1, <1>2, <1>3, <1>4

(***************************************************************************)
(* The invariants.                                                         *)
(***************************************************************************)

IInv == TreeCurrent /\ ListsCurrent /\ ViewTyped /\ SelectionIsARow /\ DrawnOnScreen

LEMMA InitIInv ==
  ASSUME Init
  PROVE  IInv
PROOF
<1>1. TreeCurrent
  BY BuiltOpenAreGroups DEF Init, TreeCurrent
<1>2. ListsCurrent
  <2>1. IsSort(sort)
    <3>1. Len(SortKeys) \in Nat /\ Len(SortKeys) >= 1 /\ SortKeys[1] = "None"
      BY TreeViewAssumptions, EmptySeq, LenProperties
    <3>2. sort \in [key : STRING, asc : BOOLEAN] /\ sort.key = "None"
      <4>1. sort = [key |-> "None", asc |-> TRUE]
        BY DEF Init
      <4>2. "None" \in STRING
        BY <3>1, TreeViewAssumptions, ElementOfSeq
      <4>3. \A key \in STRING, asc \in BOOLEAN :
              [key |-> key, asc |-> asc] \in [key : STRING, asc : BOOLEAN]
        BY Zenon
      <4>4. [key |-> "None", asc |-> TRUE] \in [key : STRING, asc : BOOLEAN]
        BY <4>2, <4>3
      <4> QED
        BY <4>1, <4>4
    <3>3. 1 \in 1..Len(SortKeys)
      BY <3>1
    <3> QED
      BY <3>1, <3>2, <3>3 DEF IsSort
  <2> QED
    BY <2>1 DEF Init, ListsCurrent, SearchCurrent, FilterCurrent
<1>3. ViewTyped
  <2>1. /\ selected = 0 /\ scroll = 0 /\ lastSel = -1 /\ burst = 0 /\ scrolled = FALSE
        /\ size \in Sizes
    BY DEF Init
  <2>2. MaxBurst \in Nat
    BY TreeViewAssumptions
  <2>3. lastSel \in Nat \union {-1} /\ burst \in 0..MaxBurst
    BY <2>1, <2>2
  <2> QED
    BY <2>1, <2>3 DEF ViewTyped
<1>4. SelectionIsARow
  <2>1. Len(flattened) >= 1 /\ Len(flattened) \in Nat
    BY <1>1, TreeRowsTyped
  <2>2. selected = 0 /\ Visible = flattened
    BY DEF Init, Visible, VisibleIn
  <2> QED
    BY <2>1, <2>2 DEF SelectionIsARow
<1>5. DrawnOnScreen
  BY DEF Init, DrawnOnScreen
<1> QED
  BY <1>1, <1>2, <1>3, <1>4, <1>5 DEF IInv

LEMMA NextIInv ==
  ASSUME IInv, [Next]_vars
  PROVE  IInv'
PROOF
<1>1. TreeCurrent /\ ListsCurrent /\ ViewTyped /\ SelectionIsARow /\ DrawnOnScreen
  BY DEF IInv
<1>2. selected \in Nat /\ scroll \in Nat
  BY <1>1 DEF ViewTyped
<1>3. TreeCurrent'
  BY <1>1, <1>2, TreeStep
<1>4. ListsCurrent'
  BY <1>1, <1>2, ListsStep
<1>5. selected' \in Nat /\ SelectionIsARow'
  BY <1>1, <1>3, <1>4, SelectionStep
<1>6. ViewTyped'
  BY <1>1, <1>5, ViewStep
<1>7. DrawnOnScreen'
  BY <1>1, <1>5, ScreenStep
<1> QED
  BY <1>3, <1>4, <1>5, <1>6, <1>7 DEF IInv

LEMMA Invariance == Spec => []IInv
PROOF
<1>1. Init => IInv
  BY InitIInv
<1>2. IInv /\ [Next]_vars => IInv'
  BY NextIInv
<1> QED
  BY <1>1, <1>2, PTL DEF Spec

LEMMA IInvTyped ==
  ASSUME IInv
  PROVE  TypeOK
PROOF
<1>1. compact \in BOOLEAN /\ open \subseteq Groups(compact) /\ flattened \in Seq(Rows)
      /\ \A i \in 1..Len(flattened) : flattened[i].node \in Nodes(compact)
  BY TreeRowsTyped DEF IInv, TreeCurrent
<1>2. /\ search # None => search \in SearchRecord /\ search.cursor <= Len(search.query)
      /\ filter # None => filter \in FilterRecord
      /\ IsSort(sort)
  BY DEF IInv, ListsCurrent, SearchCurrent, FilterCurrent
<1>3. ViewTyped
  BY DEF IInv
<1> QED
  BY <1>1, <1>2, <1>3 DEF TypeOK, ViewTyped, IsSort

\* Every field of the tree's state has its type, in particular a row that the
\* tree keeps is a row of the tree and the caret is in the query.
THEOREM TypeCorrect == Spec => []TypeOK
PROOF
<1>1. IInv => TypeOK
  BY IInvTyped
<1> QED
  BY <1>1, Invariance, PTL

\* Whatever is folded, searched, sorted, clicked or revealed, the index that
\* kernel.rs keeps is that of a row of the list that shows.
THEOREM SelectionStays == Spec => []SelectionIsARow
PROOF
<1>1. IInv => SelectionIsARow
  BY DEF IInv
<1> QED
  BY <1>1, Invariance, PTL

\* The rows that are kept are the ones that folding, query, filter and order
\* call for.  An update that sorts what is already sorted changes nothing:
\* see SortFacts.
THEOREM RowsStayCurrent == Spec => []RowsAreCurrent
PROOF
<1>1. IInv => RowsAreCurrent
  BY DEF IInv, TreeCurrent, ListsCurrent, SearchCurrent, FilterCurrent, RowsAreCurrent, Searching
<1> QED
  BY <1>1, Invariance, PTL

\* After a draw the selected row is on the screen, unless the view was
\* scrolled away from it or the terminal shrank since a selection last moved.
THEOREM SelectionStaysOnScreen == Spec => []SelectionIsOnScreen
PROOF
<1>1. IInv => SelectionIsOnScreen
  BY DEF IInv, DrawnOnScreen, SelectionIsOnScreen
<1> QED
  BY <1>1, Invariance, PTL

(***************************************************************************)
(* The rows that show and the tree behind them.                            *)
(***************************************************************************)

\* The row of the tree that shows in row k, and where a row of it shows.
ShownAt(c, o, k) == NthOf(Shown(c, o), k + 1)
PlaceOf(c, o, i) == PlaceIn(Shown(c, o), i) - 1

LEMMA RowOfTree ==
  ASSUME NEW c \in BOOLEAN, NEW o, NEW k \in Nat, HasRow(FlattenTree(c, o), k)
  PROVE  /\ ShownAt(c, o, k) \in Shown(c, o) /\ ShownAt(c, o, k) \in 1..Size(c)
         /\ PlaceOf(c, o, ShownAt(c, o, k)) = k
         /\ Row(FlattenTree(c, o), k).node = NodeAt(c, ShownAt(c, o, k))
         /\ Row(FlattenTree(c, o), k).depth = DepthAt(c, ShownAt(c, o, k))
         /\ Row(FlattenTree(c, o), k).open = (NodeAt(c, ShownAt(c, o, k)) \in o)
PROOF
<1> DEFINE rows == FlattenTree(c, o)
           i == NthOf(Shown(c, o), k + 1)
<1>1. Size(c) \in Nat /\ Shown(c, o) \in SUBSET (1..Size(c))
  BY TreeFacts, ShownFacts
<1>2. Len(rows) \in Nat /\ Len(rows) = Cardinality(Shown(c, o))
  BY FlatFacts
<1>3. k + 1 \in 1..Len(rows)
  BY <1>2 DEF HasRow
<1>4. i \in Shown(c, o) /\ rows[k + 1] = RowOf(c, o, i)
  BY <1>3, FlatFacts
<1>5. PlaceIn(Shown(c, o), i) = k + 1
  BY <1>1, <1>2, <1>3, NthIsThere
<1> HIDE DEF i, rows
<1>6. PlaceOf(c, o, i) = k
  BY <1>5 DEF PlaceOf
<1>7. Row(rows, k) = RowOf(c, o, i)
  BY <1>4 DEF Row
<1>8. RowOf(c, o, i).node = NodeAt(c, i) /\ RowOf(c, o, i).depth = DepthAt(c, i)
  BY DEF RowOf, NodeAt, DepthAt
<1>9. RowOf(c, o, i).open = (NodeAt(c, i) \in o)
  BY DEF RowOf, NodeAt
<1> QED
  BY <1>1, <1>4, <1>6, <1>7, <1>8, <1>9 DEF ShownAt, i, rows

LEMMA TreeRowShows ==
  ASSUME NEW c \in BOOLEAN, NEW o, NEW i \in Shown(c, o)
  PROVE  /\ PlaceOf(c, o, i) \in Nat /\ HasRow(FlattenTree(c, o), PlaceOf(c, o, i))
         /\ ShownAt(c, o, PlaceOf(c, o, i)) = i
PROOF
<1> DEFINE p == PlaceIn(Shown(c, o), i)
<1>1. /\ p \in 1..Len(FlattenTree(c, o)) /\ Len(FlattenTree(c, o)) \in Nat
      /\ NthOf(Shown(c, o), p) = i
  BY FlatFacts
<1> HIDE DEF p
<1>2. p - 1 \in Nat /\ (p - 1) + 1 = p
  BY <1>1
<1>3. HasRow(FlattenTree(c, o), p - 1)
  BY <1>1 DEF HasRow
<1> QED
  BY <1>1, <1>2, <1>3 DEF ShownAt, PlaceOf, p

\* The rows that show are in the order of the tree.
LEMMA ShownInOrder ==
  ASSUME NEW c \in BOOLEAN, NEW o, NEW i \in Shown(c, o), NEW j \in Shown(c, o)
  PROVE  i < j <=> PlaceOf(c, o, i) < PlaceOf(c, o, j)
PROOF
<1>1. /\ Size(c) \in Nat /\ Shown(c, o) \in SUBSET (1..Size(c))
      /\ i \in 1..Size(c) /\ j \in 1..Size(c)
  BY TreeFacts, ShownFacts
<1>2. PlaceIn(Shown(c, o), i) \in Nat /\ PlaceIn(Shown(c, o), j) \in Nat
  BY <1>1, PlacesAreNumbers
<1>3. i < j => PlaceIn(Shown(c, o), i) < PlaceIn(Shown(c, o), j)
  BY <1>1, PlacesGrow
<1>4. j < i => PlaceIn(Shown(c, o), j) < PlaceIn(Shown(c, o), i)
  BY <1>1, PlacesGrow
<1>5. i < j \/ i = j \/ j < i
  BY <1>1
<1>6. i < j <=> PlaceIn(Shown(c, o), i) < PlaceIn(Shown(c, o), j)
  BY <1>2, <1>3, <1>4, <1>5
<1> QED
  BY <1>2, <1>6 DEF PlaceOf

\* Row i is directly in the group of row j.
DirectIn(c, j, i) ==
  /\ Encloses(c, j, i)
  /\ \A l \in 1..Size(c) : Encloses(c, l, i) => l = j \/ Encloses(c, l, j)

LEMMA ChildrenAre ==
  ASSUME NEW c \in BOOLEAN, NEW j \in 1..Size(c), NEW i \in 1..Size(c)
  PROVE  NodeAt(c, i) \in Children(c, NodeAt(c, j)) <=> DirectIn(c, j, i)
PROOF
<1> DEFINE node == NodeAt(c, j)
           in(k) == /\ node \in Around[c][k]
                    /\ \A other \in Around[c][k] : other \in GroupsAbove(c, node) \union {node}
<1>1. \A a \in 1..Size(c), b \in 1..Size(c) : NodeAt(c, a) = NodeAt(c, b) => a = b
  BY TreeFacts
<1>2. node \in Nodes(c)
  BY DEF Nodes, NodeAt, Size
<1>3. Children(c, node) = {NodeAt(c, k) : k \in {l \in 1..Size(c) : in(l)}}
  BY <1>2 DEF Children, ChildrenOf, NodeAt, Size
<1>4. NodeAt(c, i) \in Children(c, node) <=> in(i)
  <2> HIDE DEF node, in
  <2>1. NodeAt(c, i) \in Children(c, node) <=> \E k \in 1..Size(c) : in(k) /\ NodeAt(c, i) = NodeAt(c, k)
    BY <1>3, Zenon
  <2> QED
    BY <1>1, <2>1
<1>5. GroupsAbove(c, node) = Around[c][j]
  <2>1. {k \in 1..Len(Shape[c]) : Shape[c][k].node = node} = {j}
    BY <1>1 DEF NodeAt, Size
  <2> QED
    BY <2>1 DEF GroupsAbove
<1>6. in(i) <=> DirectIn(c, j, i)
  <2>1. \A l \in 1..Size(c) : NodeAt(c, l) \in Around[c][i] <=> Encloses(c, l, i)
    BY AroundIs
  <2>2. \A l \in 1..Size(c) : NodeAt(c, l) \in Around[c][j] <=> Encloses(c, l, j)
    BY AroundIs
  <2>3. \A n \in Around[c][i] : \E l \in 1..Size(c) : n = NodeAt(c, l)
    BY AroundIs
  <2> QED
    BY <1>1, <1>5, <2>1, <2>2, <2>3 DEF DirectIn
<1> QED
  BY <1>4, <1>6

\* A row that is not at the top is directly in a group: that of the nearest
\* shallower row above it.
LEMMA NearestEncloses ==
  ASSUME NEW c \in BOOLEAN, NEW i \in 1..Size(c), DepthAt(c, i) > 0
  PROVE  \E j \in 1..Size(c) :
           /\ DirectIn(c, j, i)
           /\ \A k \in 1..(i - 1) : DepthAt(c, k) < DepthAt(c, i) => k <= j
PROOF
<1> DEFINE above == {k \in 1..(i - 1) : DepthAt(c, k) < DepthAt(c, i)}
<1>1. Size(c) \in Nat /\ DepthAt(c, 1) = 0 /\ \A k \in 1..Size(c) : DepthAt(c, k) \in Nat
  BY TreeFacts
<1>2. above \in SUBSET (0..i) /\ 1 \in above
  <2>1. i # 1
    BY <1>1
  <2> QED
    BY <1>1, <2>1
<1>3. PICK j \in above : \A k \in above : k <= j
  <2> HIDE DEF above
  <2>1. i \in Nat /\ above # {}
    BY <1>1, <1>2
  <2> QED
    BY <1>2, <2>1, GreatestOf
<1>4. j \in 1..Size(c) /\ j \in 1..(i - 1) /\ DepthAt(c, j) < DepthAt(c, i)
  BY <1>1, <1>3
<1>5. \A k \in 1..(i - 1) : DepthAt(c, k) < DepthAt(c, i) => k <= j
  BY <1>3
<1>6. Encloses(c, j, i)
  <2>1. ASSUME NEW l \in (j + 1)..i PROVE DepthAt(c, l) > DepthAt(c, j)
    <3>1. l \in 1..Size(c) /\ DepthAt(c, l) \in Nat /\ DepthAt(c, j) \in Nat /\ DepthAt(c, i) \in Nat
      BY <1>1, <1>4
    <3>2. CASE l = i
      BY <1>4, <3>1, <3>2
    <3>3. CASE l # i
      <4>1. l \in 1..(i - 1) /\ ~ (l <= j)
        BY <1>1, <1>4, <3>3
      <4>2. ~ (DepthAt(c, l) < DepthAt(c, i))
        BY <1>5, <4>1
      <4> QED
        BY <1>4, <3>1, <4>2
    <3> QED
      BY <3>2, <3>3
  <2> QED
    BY <1>4, <2>1 DEF Encloses
<1>7. ASSUME NEW l \in 1..Size(c), Encloses(c, l, i) PROVE l = j \/ Encloses(c, l, j)
  <2>1. l \in 1..(i - 1) /\ i \in (l + 1)..i
    BY <1>1, <1>7 DEF Encloses
  <2>2. DepthAt(c, l) < DepthAt(c, i)
    <3>1. DepthAt(c, i) > DepthAt(c, l)
      BY <1>7, <2>1 DEF Encloses
    <3> QED
      BY <1>1, <3>1
  <2>3. l <= j
    BY <1>5, <2>1, <2>2
  <2>4. CASE l = j
    BY <2>4
  <2>5. CASE l < j
    BY <1>4, <1>6, <1>7, <2>5, EnclosesTwice
  <2> QED
    BY <1>4, <2>3, <2>4, <2>5
<1> QED
  BY <1>4, <1>5, <1>6, <1>7 DEF DirectIn

\* Left: the nearest shallower row that shows is the group around the row.
LEMMA ParentIsAround ==
  ASSUME NEW c \in BOOLEAN, NEW o, NEW k \in Nat, HasRow(FlattenTree(c, o), k),
         Row(FlattenTree(c, o), k).depth > 0
  PROVE  LET p == ParentRow(FlattenTree(c, o), k)
         IN  /\ p \in Nat /\ HasRow(FlattenTree(c, o), p)
             /\ DirectIn(c, ShownAt(c, o, p), ShownAt(c, o, k))
PROOF
<1> DEFINE rows == FlattenTree(c, o)
           i == ShownAt(c, o, k)
           p == ParentRow(rows, k)
           x == ShownAt(c, o, p)
<1> HIDE DEF rows, i, p, x
<1>1. /\ i \in Shown(c, o) /\ i \in 1..Size(c) /\ PlaceOf(c, o, i) = k
      /\ Row(rows, k).depth = DepthAt(c, i)
  BY RowOfTree DEF rows, i
<1>2. rows \in Seq(Rows) /\ Len(rows) \in Nat
  BY FlatFacts DEF rows
<1>3. PICK j \in 1..Size(c) :
        /\ DirectIn(c, j, i)
        /\ \A l \in 1..(i - 1) : DepthAt(c, l) < DepthAt(c, i) => l <= j
  BY <1>1, NearestEncloses DEF rows
<1>4. j \in Shown(c, o) /\ j < i /\ DepthAt(c, j) < DepthAt(c, i)
  <2>1. Encloses(c, j, i)
    BY <1>3 DEF DirectIn
  <2>2. j \in 1..(i - 1) /\ DepthAt(c, i) > DepthAt(c, j)
    <3>1. j \in 1..(i - 1)
      BY <2>1 DEF Encloses
    <3>2. i \in (j + 1)..i
      BY <1>1, <3>1
    <3> QED
      BY <2>1, <3>1, <3>2 DEF Encloses
  <2>3. j \in Shown(c, o)
    BY <1>1, <2>1, ShownFacts
  <2> QED
    BY <1>1, <2>2, <2>3
<1>5. PlaceOf(c, o, j) \in 0..(k - 1) /\ Row(rows, PlaceOf(c, o, j)).depth < Row(rows, k).depth
  <2>1. PlaceOf(c, o, j) < k /\ PlaceOf(c, o, j) \in Nat
    BY <1>1, <1>4, ShownInOrder, TreeRowShows
  <2>2. Row(rows, PlaceOf(c, o, j)).depth = DepthAt(c, j)
    BY <1>4, TreeRowShows, RowOfTree DEF rows
  <2> QED
    BY <1>1, <1>4, <2>1, <2>2
<1>6. /\ p \in 0..(k - 1) /\ Row(rows, p).depth < Row(rows, k).depth
      /\ PlaceOf(c, o, j) <= p
  <2>1. HasRow(rows, k)
    BY DEF rows
  <2> QED
    BY <1>2, <1>5, <2>1, ParentRowFacts DEF p
<1>7. p \in Nat /\ HasRow(rows, p)
  <2>1. k < Len(rows)
    BY DEF HasRow, rows
  <2> QED
    BY <1>2, <1>6, <2>1 DEF HasRow
<1>8. /\ x \in Shown(c, o) /\ x \in 1..Size(c) /\ PlaceOf(c, o, x) = p
      /\ Row(rows, p).depth = DepthAt(c, x)
  BY <1>7, RowOfTree DEF rows, x
<1>9. x = j
  <2>1. x < i
    <3>1. PlaceOf(c, o, x) < PlaceOf(c, o, i)
      BY <1>1, <1>6, <1>8
    <3> QED
      BY <1>1, <1>8, <3>1, ShownInOrder
  <2>2. x <= j
    <3>1. x \in 1..(i - 1)
      BY <1>1, <1>8, <2>1
    <3>2. DepthAt(c, x) < DepthAt(c, i)
      BY <1>1, <1>6, <1>8
    <3> QED
      BY <1>3, <3>1, <3>2
  <2>3. ~ (x < j)
    <3>1. ~ (PlaceOf(c, o, x) < PlaceOf(c, o, j))
      <4>1. PlaceOf(c, o, j) \in Int
        BY <1>5
      <4> QED
        BY <1>6, <1>8, <4>1
    <3> QED
      BY <1>4, <1>8, <3>1, ShownInOrder
  <2> QED
    BY <1>8, <2>2, <2>3
<1> QED
  BY <1>3, <1>7, <1>9 DEF rows, i, p, x

\* Two rows of one depth with nothing as shallow between them among the rows
\* that show have nothing as shallow between them in the tree: what would be
\* there would show.  So the same groups are around both.
LEMMA SiblingsShareGroups ==
  ASSUME NEW c \in BOOLEAN, NEW o, NEW a \in Shown(c, o), NEW b \in Shown(c, o), a < b,
         DepthAt(c, a) = DepthAt(c, b),
         \A i \in Shown(c, o) : a < i /\ i < b => DepthAt(c, i) > DepthAt(c, a)
  PROVE  \A m \in 1..Size(c) : Encloses(c, m, a) <=> Encloses(c, m, b)
PROOF
<1>1. /\ Size(c) \in Nat /\ a \in 1..Size(c) /\ b \in 1..Size(c)
      /\ \A k \in 1..Size(c) : DepthAt(c, k) \in Nat
  BY TreeFacts, ShownFacts
<1> DEFINE high == {l \in (a + 1)..(b - 1) : ~ (DepthAt(c, l) > DepthAt(c, a))}
<1>2. high = {}
  <2> SUFFICES ASSUME high # {} PROVE FALSE
    OBVIOUS
  <2>1. high \in SUBSET Nat
    BY <1>1
  <2>2. PICK l \in high : \A k \in high : l <= k
    <3> HIDE DEF high
    <3> QED
      BY <2>1, LeastOf
  <2>3. l \in (a + 1)..(b - 1) /\ l \in 1..Size(c) /\ DepthAt(c, l) <= DepthAt(c, a)
    BY <1>1, <2>2
  <2>4. \A k \in (a + 1)..(l - 1) : DepthAt(c, k) > DepthAt(c, a)
    <3> TAKE k \in (a + 1)..(l - 1)
    <3>1. k \in (a + 1)..(b - 1) /\ ~ (l <= k)
      BY <1>1, <2>3
    <3> QED
      BY <2>2, <3>1
  <2>5. ASSUME NEW m \in 1..Size(c), Encloses(c, m, l) PROVE Encloses(c, m, a)
    <3>1. m \in 1..(l - 1) /\ \A k \in (m + 1)..l : DepthAt(c, k) > DepthAt(c, m)
      BY <2>5 DEF Encloses
    <3>2. DepthAt(c, l) > DepthAt(c, m)
      BY <2>3, <3>1
    <3>3. m < a
      <4>1. DepthAt(c, m) < DepthAt(c, a)
        BY <1>1, <2>3, <3>2
      <4>2. m \notin (a + 1)..(l - 1)
        BY <1>1, <2>4, <4>1
      <4>3. m # a
        BY <1>1, <4>1
      <4> QED
        BY <1>1, <3>1, <4>2, <4>3
    <3>4. m \in 1..(a - 1) /\ \A k \in (m + 1)..a : k \in (m + 1)..l
      BY <1>1, <2>3, <3>3
    <3> QED
      BY <3>1, <3>4 DEF Encloses
  <2>6. Around[c][l] \subseteq o
    <3> SUFFICES ASSUME NEW n \in Around[c][l] PROVE n \in o
      OBVIOUS
    <3>1. PICK m \in 1..Size(c) : n = NodeAt(c, m) /\ Encloses(c, m, l)
      BY <2>3, AroundIs
    <3>2. Encloses(c, m, a)
      BY <2>5, <3>1
    <3> QED
      BY <3>1, <3>2, ShownFacts
  <2>7. l \in Shown(c, o) /\ a < l /\ l < b
    BY <1>1, <2>3, <2>6, ShownFacts
  <2> QED
    BY <2>2, <2>7
<1>3. \A k \in (a + 1)..(b - 1) : DepthAt(c, k) > DepthAt(c, a)
  BY <1>2
<1> HIDE DEF high
<1>4. ASSUME NEW m \in 1..Size(c), Encloses(c, m, a) PROVE Encloses(c, m, b)
  <2>1. m \in 1..(a - 1) /\ \A k \in (m + 1)..a : DepthAt(c, k) > DepthAt(c, m)
    BY <1>4 DEF Encloses
  <2>2. DepthAt(c, a) > DepthAt(c, m)
    BY <1>1, <2>1
  <2>3. ASSUME NEW k \in (m + 1)..b PROVE DepthAt(c, k) > DepthAt(c, m)
    <3>1. k \in 1..Size(c)
      BY <1>1, <2>1
    <3>2. DepthAt(c, k) \in Nat /\ DepthAt(c, a) \in Nat /\ DepthAt(c, m) \in Nat
      BY <1>1, <3>1
    <3>3. CASE k <= a
      <4>1. k \in (m + 1)..a
        BY <1>1, <2>1, <3>3
      <4> QED
        BY <2>1, <4>1
    <3>4. CASE a < k /\ k < b
      <4>1. k \in (a + 1)..(b - 1)
        BY <1>1, <3>1, <3>4
      <4>2. DepthAt(c, k) > DepthAt(c, a)
        BY <1>3, <4>1
      <4> QED
        BY <2>2, <3>2, <4>2
    <3>5. CASE k = b
      BY <2>2, <3>5
    <3> QED
      BY <1>1, <3>1, <3>3, <3>4, <3>5
  <2>4. m \in 1..(b - 1)
    BY <1>1, <2>1
  <2> QED
    BY <2>3, <2>4 DEF Encloses
<1>5. ASSUME NEW m \in 1..Size(c), Encloses(c, m, b) PROVE Encloses(c, m, a)
  <2>1. m \in 1..(b - 1) /\ \A k \in (m + 1)..b : DepthAt(c, k) > DepthAt(c, m)
    BY <1>5 DEF Encloses
  <2>2. DepthAt(c, b) > DepthAt(c, m)
    BY <1>1, <2>1
  <2>3. m < a
    <3>1. DepthAt(c, m) < DepthAt(c, a)
      BY <1>1, <2>2
    <3>2. m \notin (a + 1)..(b - 1) /\ m # a
      BY <1>1, <1>3, <3>1
    <3> QED
      BY <1>1, <2>1, <3>2
  <2>4. m \in 1..(a - 1) /\ \A k \in (m + 1)..a : k \in (m + 1)..b
    BY <1>1, <2>3
  <2> QED
    BY <2>1, <2>4 DEF Encloses
<1> QED
  BY <1>4, <1>5

\* What is right below a group and deeper is its first child, and shows right
\* below it once the group is open.
LEMMA FirstChildFollows ==
  ASSUME NEW c \in BOOLEAN, NEW o, NEW i \in Shown(c, o), NEW x \in 1..Size(c),
         Encloses(c, i, x), NodeAt(c, i) \in o
  PROVE  /\ i + 1 \in Shown(c, o) /\ DirectIn(c, i, i + 1)
         /\ PlaceOf(c, o, i + 1) = PlaceOf(c, o, i) + 1
         /\ DepthAt(c, i + 1) = DepthAt(c, i) + 1
PROOF
<1>1. /\ Size(c) \in Nat /\ i \in 1..Size(c) /\ Shown(c, o) \in SUBSET (1..Size(c))
      /\ \A k \in 1..Size(c) : DepthAt(c, k) \in Nat
  BY TreeFacts, ShownFacts
<1>2. /\ i \in 1..(x - 1) /\ i + 1 \in 1..Size(c) /\ i \in 1..(Size(c) - 1)
      /\ DepthAt(c, i + 1) > DepthAt(c, i)
  <2>1. i \in 1..(x - 1)
    BY DEF Encloses
  <2>2. i + 1 \in (i + 1)..x
    BY <1>1, <2>1
  <2>3. DepthAt(c, i + 1) > DepthAt(c, i)
    BY <2>2 DEF Encloses
  <2> QED
    BY <1>1, <2>1, <2>3
<1>3. DepthAt(c, i + 1) = DepthAt(c, i) + 1
  <2>1. DepthAt(c, i + 1) <= DepthAt(c, i) + 1
    BY <1>2, TreeFacts
  <2> QED
    BY <1>1, <1>2, <2>1
<1>4. Encloses(c, i, i + 1)
  <2>1. \A l \in (i + 1)..(i + 1) : l = i + 1
    BY <1>1
  <2>2. i \in 1..((i + 1) - 1)
    BY <1>1
  <2> QED
    BY <1>2, <2>1, <2>2 DEF Encloses
<1>5. ASSUME NEW m \in 1..Size(c), Encloses(c, m, i + 1), m # i PROVE Encloses(c, m, i)
  <2>1. m \in 1..((i + 1) - 1)
    BY <1>5 DEF Encloses
  <2>2. m < i
    BY <1>1, <1>5, <2>1
  <2> QED
    BY <1>2, <1>4, <1>5, <1>1, <2>2, EnclosesTwice
<1>6. DirectIn(c, i, i + 1)
  BY <1>4, <1>5 DEF DirectIn
<1>7. i + 1 \in Shown(c, o)
  <2> SUFFICES ASSUME NEW n \in Around[c][i + 1] PROVE n \in o
    BY <1>2, ShownFacts
  <2>1. PICK m \in 1..Size(c) : n = NodeAt(c, m) /\ Encloses(c, m, i + 1)
    BY <1>2, AroundIs
  <2>2. CASE m = i
    BY <2>1, <2>2
  <2>3. CASE m # i
    BY <1>5, <2>1, <2>3, ShownFacts
  <2> QED
    BY <2>2, <2>3
<1>8. PlaceIn(Shown(c, o), i + 1) = PlaceIn(Shown(c, o), i) + 1
  <2> DEFINE S == Shown(c, o)
             I == {j \in S : j <= i}
  <2>1. IsFiniteSet(I)
    BY <1>1, PlacesAreNumbers
  <2>2. \A j \in S : j <= i + 1 <=> j <= i \/ j = i + 1
    BY <1>1
  <2>3. {j \in S : j <= i + 1} = I \union {i + 1}
    BY <1>7, <2>2
  <2>4. i + 1 \notin I
    BY <1>1
  <2> HIDE DEF I
  <2>5. Cardinality(I \union {i + 1}) = Cardinality(I) + 1
    BY <2>1, <2>4, FS_AddElement
  <2> QED
    BY <2>3, <2>5 DEF PlaceIn, I
<1>9. PlaceOf(c, o, i + 1) = PlaceOf(c, o, i) + 1
  <2>1. PlaceIn(Shown(c, o), i) \in Nat
    BY <1>1, PlacesAreNumbers
  <2> QED
    BY <1>8, <2>1 DEF PlaceOf
<1> QED
  BY <1>3, <1>6, <1>7, <1>9

LEMMA LeftGoesToTheGroup ==
  ASSUME TreeCurrent, selected \in Nat, search = None, filter = None, MoveToParent
  PROVE  Row(flattened', selected').node \in ParentOf(compact, Row(flattened, selected).node)
PROOF
<1> DEFINE i == ShownAt(compact, open, selected)
           j == ShownAt(compact, open, selected')
<1>1. compact \in BOOLEAN /\ flattened = FlattenTree(compact, open) /\ Visible = flattened
  BY DEF TreeCurrent, Visible, VisibleIn
<1>2. /\ HasRow(flattened, selected) /\ Row(flattened, selected).depth > 0
      /\ selected' = ParentRow(flattened, selected) /\ flattened' = flattened
  BY <1>1 DEF MoveToParent, SelectRow, tree
<1>3. /\ selected' \in Nat /\ HasRow(FlattenTree(compact, open), selected')
      /\ DirectIn(compact, j, i)
  BY <1>1, <1>2, ParentIsAround
<1>4. i \in 1..Size(compact) /\ Row(flattened, selected).node = NodeAt(compact, i)
  BY <1>1, <1>2, RowOfTree
<1>5. j \in 1..Size(compact) /\ Row(flattened', selected').node = NodeAt(compact, j)
  BY <1>1, <1>2, <1>3, RowOfTree
<1> HIDE DEF i, j
<1>6. NodeAt(compact, i) \in Children(compact, NodeAt(compact, j))
  BY <1>1, <1>3, <1>4, <1>5, ChildrenAre
<1>7. NodeAt(compact, j) \in Nodes(compact)
  BY <1>5 DEF Nodes, NodeAt, Size
<1> QED
  BY <1>4, <1>5, <1>6, <1>7 DEF ParentOf

\* Rows with the same groups around them have the same parent.
LEMMA SameGroupsSameParent ==
  ASSUME NEW c \in BOOLEAN, NEW a \in 1..Size(c), NEW b \in 1..Size(c),
         \A m \in 1..Size(c) : Encloses(c, m, a) <=> Encloses(c, m, b)
  PROVE  ParentOf(c, NodeAt(c, a)) = ParentOf(c, NodeAt(c, b))
PROOF
<1>1. ASSUME NEW n \in Nodes(c)
      PROVE  NodeAt(c, a) \in Children(c, n) <=> NodeAt(c, b) \in Children(c, n)
  <2>1. PICK j \in 1..Size(c) : n = NodeAt(c, j)
    BY DEF Nodes, NodeAt, Size
  <2>2. NodeAt(c, a) \in Children(c, n) <=> DirectIn(c, j, a)
    BY <2>1, ChildrenAre
  <2>3. NodeAt(c, b) \in Children(c, n) <=> DirectIn(c, j, b)
    BY <2>1, ChildrenAre
  <2>4. DirectIn(c, j, a) <=> DirectIn(c, j, b)
    BY DEF DirectIn
  <2> QED
    BY <2>2, <2>3, <2>4
<1> QED
  BY <1>1 DEF ParentOf

LEMMA SiblingsStayInTheGroup ==
  ASSUME TreeCurrent, selected \in Nat, search = None, filter = None, MoveToSibling
  PROVE  ParentOf(compact, Row(flattened', selected').node)
           = ParentOf(compact, Row(flattened, selected).node)
PROOF
<1> DEFINE i == ShownAt(compact, open, selected)
           j == ShownAt(compact, open, selected')
<1>1. compact \in BOOLEAN /\ flattened = FlattenTree(compact, open) /\ Visible = flattened
  BY DEF TreeCurrent, Visible, VisibleIn
<1>2. flattened \in Seq(Rows) /\ Len(flattened) \in Nat
  BY TreeRowsTyped
<1>3. PICK forward \in BOOLEAN : selected' = SiblingRow(flattened, selected, forward)
  BY <1>1 DEF MoveToSibling, SelectRow
<1>4. HasRow(flattened, selected) /\ flattened' = flattened
  BY <1>1 DEF MoveToSibling, tree
<1>5. /\ selected' \in 0..(Len(flattened) - 1)
      /\ Row(flattened, selected').depth = Row(flattened, selected).depth
      /\ \A l \in 0..(Len(flattened) - 1) :
           (selected < l /\ l < selected') \/ (selected' < l /\ l < selected)
             => Row(flattened, l).depth > Row(flattened, selected).depth
  BY <1>2, <1>3, <1>4, SiblingRowFacts
<1>6. selected' \in Nat /\ HasRow(flattened, selected')
  BY <1>2, <1>5 DEF HasRow
<1>7. /\ i \in Shown(compact, open) /\ i \in 1..Size(compact)
      /\ PlaceOf(compact, open, i) = selected
      /\ Row(flattened, selected).node = NodeAt(compact, i)
      /\ Row(flattened, selected).depth = DepthAt(compact, i)
  BY <1>1, <1>4, RowOfTree
<1>8. /\ j \in Shown(compact, open) /\ j \in 1..Size(compact)
      /\ PlaceOf(compact, open, j) = selected'
      /\ Row(flattened', selected').node = NodeAt(compact, j)
      /\ Row(flattened, selected').depth = DepthAt(compact, j)
  BY <1>1, <1>4, <1>6, RowOfTree
<1> HIDE DEF i, j
<1>9. ASSUME NEW k \in Shown(compact, open), (i < k /\ k < j) \/ (j < k /\ k < i)
      PROVE  DepthAt(compact, k) > DepthAt(compact, i)
  <2> DEFINE l == PlaceOf(compact, open, k)
  <2>1. l \in Nat /\ HasRow(flattened, l) /\ ShownAt(compact, open, l) = k
    BY <1>1, TreeRowShows
  <2>2. Row(flattened, l).depth = DepthAt(compact, k)
    BY <1>1, <2>1, RowOfTree
  <2>3. /\ i < k => selected < l
        /\ k < j => l < selected'
        /\ j < k => selected' < l
        /\ k < i => l < selected
    BY <1>1, <1>7, <1>8, ShownInOrder
  <2> HIDE DEF l
  <2>4. l \in 0..(Len(flattened) - 1)
    BY <1>2, <2>1 DEF HasRow
  <2> QED
    BY <1>5, <1>7, <1>9, <2>2, <2>3, <2>4
<1>10. DepthAt(compact, i) = DepthAt(compact, j)
  BY <1>5, <1>7, <1>8
<1>11. \A m \in 1..Size(compact) : Encloses(compact, m, i) <=> Encloses(compact, m, j)
  <2>1. CASE i < j
    BY <1>1, <1>7, <1>8, <1>9, <1>10, <2>1, SiblingsShareGroups
  <2>2. CASE j < i
    BY <1>1, <1>7, <1>8, <1>9, <1>10, <2>2, SiblingsShareGroups
  <2>3. CASE i = j
    BY <2>3
  <2>4. Size(compact) \in Nat
    BY <1>1, TreeFacts
  <2> QED
    BY <1>7, <1>8, <2>1, <2>2, <2>3, <2>4
<1>12. ParentOf(compact, NodeAt(compact, i)) = ParentOf(compact, NodeAt(compact, j))
  BY <1>1, <1>7, <1>8, <1>11, SameGroupsSameParent
<1> QED
  BY <1>7, <1>8, <1>12

LEMMA EnteringGoesInside ==
  ASSUME TreeCurrent, TreeCurrent', selected \in Nat, MoveToFirstChild
  PROVE  Row(flattened', selected').node \in Children(compact, Row(flattened, selected).node)
PROOF
<1> DEFINE i == ShownAt(compact, open, selected)
<1>1. /\ compact \in BOOLEAN /\ flattened = FlattenTree(compact, open)
      /\ compact' = compact /\ flattened' = FlattenTree(compact, open')
  <2>1. compact' = compact
    BY DEF MoveToFirstChild, ToggleAt, tree
  <2> QED
    BY <2>1 DEF TreeCurrent
<1>2. /\ HasRow(flattened, selected) /\ IsGroup(Row(flattened, selected).node)
      /\ Children(compact, Row(flattened, selected).node) # {}
      /\ IF Row(flattened, selected).open THEN UNCHANGED tree ELSE ToggleAt(selected)
  BY DEF MoveToFirstChild
<1>3. (HasRow(flattened', selected + 1)
        /\ Row(flattened', selected + 1).depth = Row(flattened, selected).depth + 1)
      => selected' = selected + 1
  BY DEF MoveToFirstChild, SelectRow
<1>4. /\ i \in Shown(compact, open) /\ i \in 1..Size(compact)
      /\ PlaceOf(compact, open, i) = selected
      /\ Row(flattened, selected).node = NodeAt(compact, i)
      /\ Row(flattened, selected).depth = DepthAt(compact, i)
      /\ Row(flattened, selected).open = (NodeAt(compact, i) \in open)
  BY <1>1, <1>2, RowOfTree
<1> HIDE DEF i
<1>5. NodeAt(compact, i) \in open' /\ open' = open \union {NodeAt(compact, i)}
  <2>1. CASE Row(flattened, selected).open
    BY <1>2, <1>4, <2>1 DEF tree
  <2>2. CASE ~ Row(flattened, selected).open
    <3>1. open' = ToggleNode(open, NodeAt(compact, i))
      BY <1>1, <1>2, <1>4, <2>2 DEF ToggleAt, ToggleNodeByIndex
    <3> QED
      BY <1>4, <2>2, <3>1 DEF ToggleNode
  <2> QED
    BY <2>1, <2>2
<1>6. i \in Shown(compact, open') /\ PlaceOf(compact, open', i) = selected
  <2>1. \A n \in Nodes(compact) : n # NodeAt(compact, i) => (n \in open <=> n \in open')
    BY <1>5
  <2> QED
    BY <1>1, <1>4, <2>1, ToggledRowStays DEF PlaceOf
<1>7. PICK x \in 1..Size(compact) : Encloses(compact, i, x)
  <2>1. PICK n : n \in Children(compact, NodeAt(compact, i))
    BY <1>2, <1>4
  <2>2. NodeAt(compact, i) \in Nodes(compact)
    BY <1>4 DEF Nodes, NodeAt, Size
  <2>3. PICK x \in 1..Size(compact) : n = NodeAt(compact, x)
    BY <1>1, <2>1, <2>2, Zenon DEF Children, ChildrenOf, NodeAt, Size
  <2>4. DirectIn(compact, i, x)
    BY <1>1, <1>4, <2>1, <2>3, ChildrenAre
  <2> QED
    BY <2>4 DEF DirectIn
<1>8. /\ i + 1 \in Shown(compact, open') /\ DirectIn(compact, i, i + 1)
      /\ PlaceOf(compact, open', i + 1) = selected + 1
      /\ DepthAt(compact, i + 1) = DepthAt(compact, i) + 1
  BY <1>1, <1>5, <1>6, <1>7, FirstChildFollows
<1>9. HasRow(flattened', selected + 1) /\ ShownAt(compact, open', selected + 1) = i + 1
  BY <1>1, <1>8, TreeRowShows
<1>10. /\ i + 1 \in 1..Size(compact)
       /\ Row(flattened', selected + 1).node = NodeAt(compact, i + 1)
       /\ Row(flattened', selected + 1).depth = DepthAt(compact, i + 1)
  <2>1. selected + 1 \in Nat
    OBVIOUS
  <2> QED
    BY <1>1, <1>9, <2>1, RowOfTree
<1>11. selected' = selected + 1
  BY <1>3, <1>4, <1>8, <1>9, <1>10
<1>12. NodeAt(compact, i + 1) \in Children(compact, NodeAt(compact, i))
  BY <1>1, <1>4, <1>8, <1>10, ChildrenAre
<1> QED
  BY <1>4, <1>10, <1>11, <1>12

\* The arrows only compare depths of rows that show, and still move along the
\* tree: to the group around a row, between the rows of one group, into the
\* group that is entered.
THEOREM ArrowsMoveAlongTheTree == Spec => ArrowsFollowTheTree
PROOF
<1>1. IInv /\ [Next]_vars =>
        [LET at == Row(flattened, selected).node
             to == Row(flattened', selected').node
         IN  (~Searching /\ filter = None) =>
               /\ MoveToParent => to \in ParentOf(compact, at)
               /\ MoveToSibling => ParentOf(compact, to) = ParentOf(compact, at)
               /\ MoveToFirstChild => to \in Children(compact, at)]_vars
  <2> SUFFICES ASSUME IInv, [Next]_vars, ~Searching, filter = None
               PROVE  /\ MoveToParent => Row(flattened', selected').node
                                           \in ParentOf(compact, Row(flattened, selected).node)
                      /\ MoveToSibling => ParentOf(compact, Row(flattened', selected').node)
                                            = ParentOf(compact, Row(flattened, selected).node)
                      /\ MoveToFirstChild => Row(flattened', selected').node
                                               \in Children(compact, Row(flattened, selected).node)
    OBVIOUS
  <2>1. TreeCurrent /\ selected \in Nat /\ search = None
    BY DEF IInv, ViewTyped, Searching
  <2>2. TreeCurrent'
    BY NextIInv DEF IInv
  <2> QED
    BY <2>1, <2>2, LeftGoesToTheGroup, SiblingsStayInTheGroup, EnteringGoesInside
<1> QED
  BY <1>1, Invariance, PTL DEF Spec, ArrowsFollowTheTree

LEMMA RevealFindsTheNode ==
  ASSUME TreeCurrent, filter = None, NEW name \in Nodes(compact), NEW from,
         Reveal(name, None, from)
  PROVE  Row(flattened', selected').node = name /\ open \subseteq open'
PROOF
<1>1. compact \in BOOLEAN /\ flattened \in Seq(Rows)
  BY TreeRowsTyped DEF TreeCurrent
<1>2. VisibleIn(None, filter, flattened) = flattened
  BY DEF VisibleIn
<1>3. CASE /\ RowsFor(flattened, name) # {} /\ selected' = FirstFor(flattened, name)
           /\ UNCHANGED tree
  <2>1. selected' \in RowsFor(flattened, name)
    BY <1>1, <1>3, FirstForIsThere
  <2> QED
    BY <1>3, <2>1 DEF RowsFor, tree
<1>4. CASE /\ open' = open \union GroupsAbove(compact, name)
           /\ flattened' = FlattenTree(compact, open')
           /\ selected' = IF RowsFor(flattened', name) # {}
                            THEN FirstFor(flattened', name) ELSE from
  <2>1. flattened' \in Seq(Rows)
    BY <1>1, <1>4, FlatFacts
  <2>2. GroupsAbove(compact, name) \subseteq open'
    BY <1>4
  <2>3. RowsFor(flattened', name) # {}
    BY <1>1, <1>4, <2>2, OpenedShows
  <2>4. selected' \in RowsFor(flattened', name)
    BY <1>4, <2>1, <2>3, FirstForIsThere
  <2> QED
    BY <1>4, <2>4 DEF RowsFor
<1> QED
  BY <1>2, <1>3, <1>4, RevealUnfolds

\* Showing a tensor that the tree has ends with its row selected, whatever was
\* folded, and closes no group for it.
THEOREM RevealingLands == Spec => RevealLands
PROOF
<1>1. IInv /\ [Next]_vars =>
        [(lastSel' = -1 /\ ~Searching /\ filter = None /\ filter' = None) =>
           \A name \in Nodes(compact) :
             (IsTensor(name) /\ Reveal(name, None, selected))
             => Row(flattened', selected').node = name /\ open \subseteq open']_vars
  <2> SUFFICES ASSUME IInv, filter = None, NEW name \in Nodes(compact),
                      Reveal(name, None, selected)
               PROVE  Row(flattened', selected').node = name /\ open \subseteq open'
    OBVIOUS
  <2>1. TreeCurrent
    BY DEF IInv
  <2> QED
    BY <2>1, RevealFindsTheNode
<1> QED
  BY <1>1, Invariance, PTL DEF Spec, RevealLands
=============================================================================
