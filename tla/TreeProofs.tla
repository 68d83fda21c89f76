----------------------------- MODULE TreeProofs -----------------------------
(***************************************************************************)
(* LevelsHoldNodes, for any number of nodes and any names, and WalksVisitAll*)
(* and FoundByKey, for any number of items, any keys and any settings.     *)
(*                                                                         *)
(* GenericTree: the links are those of sibling lists, and an interval can  *)
(* be given to every branch, inside its parent's and behind its earlier    *)
(* siblings' (ForestInv): so Level and Branch, which follow the links, end *)
(* and visit nothing twice.  A branch is freed with the children first, so *)
(* no node is freed that another is still linked under (ChildrenFirst).    *)
(*                                                                         *)
(* BinaryTree: the items of a tree are given positions, and the branch of  *)
(* each is a block of them (Shape), with the left branch before it and the *)
(* right one behind.  End, Step, Visited and InOrder follow the links from *)
(* block to block, so they are read off the positions.  An insertion makes *)
(* room for one position; a deletion hangs a branch at the end of another, *)
(* which exchanges two blocks if it is not the root's, and then takes one  *)
(* position out.                                                           *)
(***************************************************************************)
EXTENDS GenericTree, BinaryTree, SequenceTheorems, Foundations

Places == 0..NodeAmount
Ends == 0..NodeAmount + 1

LinkFields == [above : [Places -> Ends], childs : [Places -> Ends],
               next : [Places -> Ends], prev : [Places -> Ends]]

(* The links of the nodes live are those of a tree of sibling lists in the  *)
(* order of their labels; other nodes lead nowhere.                        *)
Linked(links, live, labels) ==
  /\ links \in LinkFields
  /\ \A l \in live \cup {Top} : links.childs[l] # None =>
       /\ links.childs[l] \in live
       /\ links.above[links.childs[l]] = l
       /\ links.prev[links.childs[l]] = None
  /\ \A n \in live : links.next[n] # None =>
       /\ links.next[n] \in live
       /\ links.above[links.next[n]] = links.above[n]
       /\ links.prev[links.next[n]] = n
       /\ labels[n] <= labels[links.next[n]]
  /\ \A n \in live :
       /\ links.above[n] \in live \cup {Top}
       /\ links.prev[n] = None => links.childs[links.above[n]] = n
       /\ links.prev[n] # None => links.prev[n] \in live /\ links.next[links.prev[n]] = n
  /\ links.next[Top] = None
  /\ \A i \in Places \ (live \cup {Top}) : links.next[i] = None /\ links.childs[i] = None

(* Every branch is given an interval, inside that of its parent and behind  *)
(* those of the siblings before it: so there are no cycles, and branches    *)
(* have no nodes in common.                                                *)
Nested(links, live, lo, hi, max) ==
  /\ max \in Nat /\ lo \in [Places -> 0..max] /\ hi \in [Places -> 0..max]
  /\ \A i \in live \cup {Top} : lo[i] < hi[i]
  /\ \A n \in live :
       /\ lo[links.above[n]] < lo[n] /\ hi[n] < hi[links.above[n]]
       /\ links.next[n] # None => hi[n] < lo[links.next[n]]

LinksNow == [above |-> above, childs |-> childs, next |-> next, prev |-> prev]

ForestLinked ==
  /\ nodes \subseteq Nodes
  /\ label \in [Nodes -> Nat]
  /\ Linked(LinksNow, nodes, label)

Intervals(lo, hi, max) == ForestLinked /\ Nested(LinksNow, nodes, lo, hi, max)

ForestInv ==
  /\ ForestLinked
  /\ \E lo, hi, max : Nested(LinksNow, nodes, lo, hi, max)
  /\ Cardinality(nodes) = itemAmount
  /\ nodes \subseteq clients

LEMMA AmountIsNatural == NodeAmount \in Nat
  BY GenericTreeAssumption

(* What holds for the nodes of a forest, said of the variables.             *)
LEMMA ForestFacts ==
  ASSUME NEW lo, NEW hi, NEW max, Intervals(lo, hi, max)
  PROVE  /\ above \in [Places -> Ends] /\ childs \in [Places -> Ends]
         /\ next \in [Places -> Ends] /\ prev \in [Places -> Ends]
         /\ max \in Nat /\ lo \in [Places -> 0..max] /\ hi \in [Places -> 0..max]
         /\ nodes \subseteq Nodes /\ label \in [Nodes -> Nat]
         /\ \A l \in nodes \cup {Top} : childs[l] # None =>
              childs[l] \in nodes /\ above[childs[l]] = l /\ prev[childs[l]] = None
         /\ \A n \in nodes : next[n] # None =>
              /\ next[n] \in nodes /\ above[next[n]] = above[n] /\ prev[next[n]] = n
              /\ label[n] <= label[next[n]] /\ hi[n] < lo[next[n]]
         /\ \A n \in nodes :
              /\ above[n] \in nodes \cup {Top}
              /\ prev[n] = None => childs[above[n]] = n
              /\ prev[n] # None => prev[n] \in nodes /\ next[prev[n]] = n
              /\ lo[above[n]] < lo[n] /\ hi[n] < hi[above[n]]
         /\ next[Top] = None
         /\ \A i \in Places \ (nodes \cup {Top}) : next[i] = None /\ childs[i] = None
         /\ \A i \in nodes \cup {Top} : lo[i] < hi[i]
  BY DEF Intervals, ForestLinked, Linked, Nested, LinksNow, LinkFields

LEMMA IntervalTypes ==
  ASSUME NEW lo, NEW hi, NEW max, Intervals(lo, hi, max)
  PROVE  /\ max \in Nat
         /\ \A n \in nodes \cup {Top} :
              n \in Places /\ n # None /\ lo[n] \in 0..max /\ hi[n] \in 0..max
<1>1. \A n \in nodes \cup {Top} : n \in Places /\ n # None
  <2>1. nodes \subseteq Nodes
    BY ForestFacts
  <2>2. QED
    BY <2>1, AmountIsNatural DEF Places, Nodes, Top, None
<1>2. lo \in [Places -> 0..max] /\ hi \in [Places -> 0..max] /\ max \in Nat
  BY ForestFacts
<1>3. QED
  BY <1>1, <1>2

(* Nodes further on in the intervals first.                                 *)
LEMMA LaterFirst ==
  ASSUME NEW lo, NEW hi, NEW max, Intervals(lo, hi, max), NEW T,
         \A i \in nodes : (\A j \in nodes : lo[j] > lo[i] => j \in T) => i \in T
  PROVE  \A i \in nodes : i \in T
<1> DEFINE Rest == {k \in Nat : \E i \in nodes : i \notin T /\ k = max - lo[i]}
<1>1. SUFFICES ASSUME NEW i \in nodes, i \notin T
               PROVE  FALSE
  OBVIOUS
<1>2. \A n \in nodes : max - lo[n] \in Nat
  BY IntervalTypes
<1>3. Rest # {}
  BY <1>1, <1>2
<1>4. PICK k \in Rest : \A m \in Rest : k <= m
  BY <1>3, LeastNumber
<1>5. PICK n \in nodes : n \notin T /\ k = max - lo[n]
  BY <1>4
<1>6. ASSUME NEW j \in nodes, lo[j] > lo[n], j \notin T
      PROVE  FALSE
  <2>1. max - lo[j] \in Rest
    BY <1>2, <1>6
  <2>2. k <= max - lo[j]
    BY <1>4, <2>1
  <2>3. lo[j] \in Nat /\ lo[n] \in Nat /\ max \in Nat
    BY <1>5, <1>6, IntervalTypes
  <2>4. QED
    BY <1>5, <1>6, <2>2, <2>3
<1>7. QED
  BY <1>5, <1>6

LEMMA EarlierFirst ==
  ASSUME NEW lo, NEW hi, NEW max, Intervals(lo, hi, max), NEW T,
         \A i \in nodes : (\A j \in nodes : lo[j] < lo[i] => j \in T) => i \in T
  PROVE  \A i \in nodes : i \in T
<1> DEFINE Rest == {k \in Nat : \E i \in nodes : i \notin T /\ k = lo[i]}
<1>1. SUFFICES ASSUME NEW i \in nodes, i \notin T
               PROVE  FALSE
  OBVIOUS
<1>2. \A n \in nodes : lo[n] \in Nat
  BY ForestFacts, AmountIsNatural DEF Places, Nodes
<1>3. Rest # {}
  BY <1>1, <1>2
<1>4. PICK k \in Rest : \A m \in Rest : k <= m
  BY <1>3, LeastNumber
<1>5. PICK n \in nodes : n \notin T /\ k = lo[n]
  BY <1>4
<1>6. ASSUME NEW j \in nodes, lo[j] < lo[n], j \notin T
      PROVE  FALSE
  <2>1. lo[j] \in Rest
    BY <1>2, <1>6
  <2>2. k <= lo[j]
    BY <1>4, <2>1
  <2>3. QED
    BY <1>2, <1>5, <1>6, <2>2
<1>7. QED
  BY <1>5, <1>6

(* A set that has the first child of a level and with each sibling the next *)
(* has the whole level.                                                    *)
LEMMA WholeLevel ==
  ASSUME NEW lo, NEW hi, NEW max, Intervals(lo, hi, max), NEW l \in nodes \cup {Top}, NEW X,
         childs[l] # None => childs[l] \in X,
         \A x \in nodes : x \in X /\ above[x] = l /\ next[x] # None => next[x] \in X
  PROVE  \A n \in nodes : above[n] = l => n \in X
<1> DEFINE T == {n \in nodes : above[n] = l => n \in X}
<1>1. ASSUME NEW i \in nodes, \A j \in nodes : lo[j] < lo[i] => j \in T, above[i] = l
      PROVE  i \in X
  <2>1. CASE prev[i] = None
    <3>1. childs[l] = i
      BY <1>1, <2>1, ForestFacts
    <3>2. i # None
      BY ForestFacts, AmountIsNatural DEF Nodes, None
    <3>3. QED
      BY <3>1, <3>2
  <2>2. CASE prev[i] # None
    <3>1. prev[i] \in nodes /\ next[prev[i]] = i /\ i # None
      BY <2>2, ForestFacts, AmountIsNatural DEF Nodes, None
    <3>2. above[prev[i]] = l /\ hi[prev[i]] < lo[i] /\ lo[prev[i]] < hi[prev[i]]
      BY <1>1, <3>1, ForestFacts
    <3>3. lo[prev[i]] < lo[i]
      <4>1. lo[prev[i]] \in Nat /\ hi[prev[i]] \in Nat /\ lo[i] \in Nat
        BY <3>1, IntervalTypes
      <4>2. QED
        BY <3>2, <4>1
    <3>4. prev[i] \in X
      BY <1>1, <3>1, <3>2, <3>3
    <3>5. QED
      BY <3>1, <3>2, <3>4
  <2>3. QED
    BY <2>1, <2>2
<1>2. \A i \in nodes : (\A j \in nodes : lo[j] < lo[i] => j \in T) => i \in T
  BY <1>1
<1>3. \A i \in nodes : i \in T
  <2> HIDE DEF T
  <2>1. QED
    BY <1>2, EarlierFirst
<1>4. QED
  BY <1>3
-----------------------------------------------------------------------------
(* Level and Branch: the functions they are read off.                       *)
Siblings == CHOOSE h : h = [i \in 0..None |-> IF i = None THEN <<>> ELSE <<i>> \o h[next[i]]]

Branches ==
  CHOOSE h : h = [i \in 0..None |-> IF i = None THEN <<>> ELSE h[childs[i]] \o <<i>> \o h[next[i]]]

LEMMA ReadOff ==
  /\ \A l : Level(l) = Siblings[childs[l]]
  /\ \A i : BranchesFrom(i) = Branches[i]
  BY DEF Level, BranchesFrom, Siblings, Branches

Ahead(lo, max) == [i \in Ends |-> IF i = None THEN 0 ELSE (max + 1) - lo[i]]

LEMMA LinksLeadAhead ==
  ASSUME NEW lo, NEW hi, NEW max, Intervals(lo, hi, max)
  PROVE  /\ Ahead(lo, max) \in [Ends -> Nat]
         /\ \A i \in Ends : i # None =>
              /\ i \in Places /\ next[i] \in Ends /\ childs[i] \in Ends
              /\ Ahead(lo, max)[next[i]] < Ahead(lo, max)[i]
              /\ Ahead(lo, max)[childs[i]] < Ahead(lo, max)[i]
<1>1. \A i \in Ends : i # None => i \in Places
  BY AmountIsNatural DEF Ends, Places, None
<1>2. \A i \in Places : i \in Ends /\ i # None /\ lo[i] \in 0..max /\ next[i] \in Ends /\ childs[i] \in Ends
  <2>1. \A i \in Places : i \in Ends /\ i # None
    BY AmountIsNatural DEF Ends, Places, None
  <2>2. lo \in [Places -> 0..max] /\ next \in [Places -> Ends] /\ childs \in [Places -> Ends]
    BY ForestFacts
  <2>3. QED
    BY <2>1, <2>2
<1>3. max \in Nat /\ None \in Ends
  BY IntervalTypes, AmountIsNatural DEF Ends, None
<1>4. Ahead(lo, max) \in [Ends -> Nat]
  BY <1>1, <1>2, <1>3 DEF Ahead
<1>5. \A i \in Places : Ahead(lo, max)[i] = (max + 1) - lo[i]
  BY <1>2 DEF Ahead
<1>6. Ahead(lo, max)[None] = 0
  BY <1>3 DEF Ahead
<1>7. \A i \in Places : 0 < (max + 1) - lo[i]
  BY <1>2, <1>3
<1>8. ASSUME NEW i \in Places, NEW j \in Places, lo[i] < lo[j]
      PROVE  (max + 1) - lo[j] < (max + 1) - lo[i]
  BY <1>2, <1>3, <1>8
<1>9. ASSUME NEW i \in Places, next[i] # None
      PROVE  next[i] \in Places /\ lo[i] < lo[next[i]]
  <2>1. i \in nodes
    BY <1>9, ForestFacts
  <2>2. next[i] \in nodes /\ lo[i] < hi[i] /\ hi[i] < lo[next[i]]
    BY <1>9, <2>1, ForestFacts
  <2>3. lo[i] \in Nat /\ hi[i] \in Nat /\ lo[next[i]] \in Nat /\ next[i] \in Places
    BY <2>1, <2>2, IntervalTypes
  <2>4. QED
    BY <2>2, <2>3
<1>10. ASSUME NEW i \in Places, childs[i] # None
       PROVE  childs[i] \in Places /\ lo[i] < lo[childs[i]]
  <2>1. i \in nodes \cup {Top}
    BY <1>10, ForestFacts
  <2>2. childs[i] \in nodes /\ above[childs[i]] = i
    BY <1>10, <2>1, ForestFacts
  <2>3. QED
    BY <2>2, ForestFacts, IntervalTypes
<1>11. ASSUME NEW i \in Places
       PROVE  /\ Ahead(lo, max)[next[i]] < Ahead(lo, max)[i]
              /\ Ahead(lo, max)[childs[i]] < Ahead(lo, max)[i]
  BY <1>5, <1>6, <1>7, <1>8, <1>9, <1>10
<1>12. QED
  BY <1>1, <1>2, <1>4, <1>11

LEMMA SiblingsIs ==
  ASSUME NEW lo, NEW hi, NEW max, Intervals(lo, hi, max)
  PROVE  /\ Siblings[None] = <<>>
         /\ \A i \in Places : Siblings[i] = <<i>> \o Siblings[next[i]]
<1> DEFINE R == Seq(Places)
           Body(h) == [i \in 0..None |-> IF i = None THEN <<>> ELSE <<i>> \o h[next[i]]]
           F == [v \in [Ends -> R] |-> [i \in Ends |-> IF i = None THEN <<>> ELSE <<i>> \o v[next[i]]]]
<1>1. 0..None = Ends
  BY AmountIsNatural DEF Ends, None
<1>2. ASSUME NEW v \in [Ends -> R], NEW i \in Ends
      PROVE  (IF i = None THEN <<>> ELSE <<i>> \o v[next[i]]) \in R
  <2>1. CASE i = None
    BY <2>1
  <2>2. CASE i # None
    <3>1. i \in Places /\ v[next[i]] \in R
      BY <2>2, LinksLeadAhead
    <3>2. <<i>> \in R
      BY <3>1
    <3>3. <<i>> \o v[next[i]] \in R
      BY <3>1, <3>2, ConcatProperties
    <3>4. QED
      BY <2>2, <3>3
  <2>3. QED
    BY <2>1, <2>2
<1>3. F \in [[Ends -> R] -> [Ends -> R]]
  BY <1>2
<1>4. [i \in Ends |-> <<>>] \in [Ends -> R]
  OBVIOUS
<1>5. ASSUME NEW v \in [Ends -> R], NEW w \in [Ends -> R], NEW i \in Ends,
             \A j \in Ends : Ahead(lo, max)[j] < Ahead(lo, max)[i] => v[j] = w[j]
      PROVE  F[v][i] = F[w][i]
  <2>1. F[v][i] = IF i = None THEN <<>> ELSE <<i>> \o v[next[i]]
    OBVIOUS
  <2>2. F[w][i] = IF i = None THEN <<>> ELSE <<i>> \o w[next[i]]
    OBVIOUS
  <2>3. i # None => v[next[i]] = w[next[i]]
    BY <1>5, LinksLeadAhead
  <2> HIDE DEF F
  <2>4. QED
    BY <2>1, <2>2, <2>3
<1>6. ASSUME NEW h, Fixed(h, F, Ends, R)
      PROVE  h = Body(h)
  <2>1. h \in [Ends -> R] /\ \A i \in Ends : h[i] = F[h][i]
    BY <1>6 DEF Fixed
  <2>2. \A i \in Ends : h[i] = IF i = None THEN <<>> ELSE <<i>> \o h[next[i]]
    BY <2>1
  <2>3. QED
    BY <1>1, <2>1, <2>2
<1>7. \E h : Fixed(h, F, Ends, R)
  <2>1. Descends(F, Ends, R, Ahead(lo, max))
    <3> HIDE DEF F, R
    <3>1. QED
      BY <1>5 DEF Descends
  <2>2. Ahead(lo, max) \in [Ends -> Nat]
    BY LinksLeadAhead
  <2> HIDE DEF F, R
  <2>3. QED
    BY <1>3, <1>4, <2>1, <2>2, Recursion
<1>8. Siblings = CHOOSE h : h = Body(h)
  BY DEF Siblings
<1>9. Siblings = Body(Siblings)
  <2> HIDE DEF Body, F, R
  <2>1. QED
    BY <1>6, <1>7, <1>8
<1>10. \A i \in Ends : Siblings[i] = IF i = None THEN <<>> ELSE <<i>> \o Siblings[next[i]]
  BY <1>1, <1>9
<1>11. None \in Ends /\ \A i \in Places : i \in Ends /\ i # None
  BY AmountIsNatural DEF Ends, Places, None
<1>12. QED
  BY <1>10, <1>11

LEMMA BranchesAre ==
  ASSUME NEW lo, NEW hi, NEW max, Intervals(lo, hi, max)
  PROVE  /\ Branches[None] = <<>>
         /\ \A i \in Places : Branches[i] = (Branches[childs[i]] \o <<i>>) \o Branches[next[i]]
<1> DEFINE R == Seq(Places)
           Body(h) == [i \in 0..None |-> IF i = None THEN <<>> ELSE (h[childs[i]] \o <<i>>) \o h[next[i]]]
           F == [v \in [Ends -> R] |->
                   [i \in Ends |-> IF i = None THEN <<>> ELSE (v[childs[i]] \o <<i>>) \o v[next[i]]]]
<1>1. 0..None = Ends
  BY AmountIsNatural DEF Ends, None
<1>2. ASSUME NEW v \in [Ends -> R], NEW i \in Ends
      PROVE  (IF i = None THEN <<>> ELSE (v[childs[i]] \o <<i>>) \o v[next[i]]) \in R
  <2>1. CASE i = None
    BY <2>1
  <2>2. CASE i # None
    <3>1. i \in Places /\ v[next[i]] \in R /\ v[childs[i]] \in R
      BY <2>2, LinksLeadAhead
    <3>2. <<i>> \in R
      BY <3>1
    <3>3. (v[childs[i]] \o <<i>>) \o v[next[i]] \in R
      <4>1. v[childs[i]] \o <<i>> \in R
        BY <3>1, <3>2, ConcatProperties
      <4>2. QED
        BY <3>1, <4>1, ConcatProperties
    <3>4. QED
      BY <2>2, <3>3
  <2>3. QED
    BY <2>1, <2>2
<1>3. F \in [[Ends -> R] -> [Ends -> R]]
  BY <1>2
<1>4. [i \in Ends |-> <<>>] \in [Ends -> R]
  OBVIOUS
<1>5. ASSUME NEW v \in [Ends -> R], NEW w \in [Ends -> R], NEW i \in Ends,
             \A j \in Ends : Ahead(lo, max)[j] < Ahead(lo, max)[i] => v[j] = w[j]
      PROVE  F[v][i] = F[w][i]
  <2>1. F[v][i] = IF i = None THEN <<>> ELSE (v[childs[i]] \o <<i>>) \o v[next[i]]
    OBVIOUS
  <2>2. F[w][i] = IF i = None THEN <<>> ELSE (w[childs[i]] \o <<i>>) \o w[next[i]]
    OBVIOUS
  <2>3. i # None => v[next[i]] = w[next[i]] /\ v[childs[i]] = w[childs[i]]
    BY <1>5, LinksLeadAhead
  <2> HIDE DEF F
  <2>4. QED
    BY <2>1, <2>2, <2>3
<1>6. ASSUME NEW h, Fixed(h, F, Ends, R)
      PROVE  h = Body(h)
  <2>1. h \in [Ends -> R] /\ \A i \in Ends : h[i] = F[h][i]
    BY <1>6 DEF Fixed
  <2>2. \A i \in Ends : h[i] = IF i = None THEN <<>> ELSE (h[childs[i]] \o <<i>>) \o h[next[i]]
    BY <2>1
  <2>3. QED
    BY <1>1, <2>1, <2>2
<1>7. \E h : Fixed(h, F, Ends, R)
  <2>1. Descends(F, Ends, R, Ahead(lo, max))
    <3> HIDE DEF F, R
    <3>1. QED
      BY <1>5 DEF Descends
  <2>2. Ahead(lo, max) \in [Ends -> Nat]
    BY LinksLeadAhead
  <2> HIDE DEF F, R
  <2>3. QED
    BY <1>3, <1>4, <2>1, <2>2, Recursion
<1>8. Branches = CHOOSE h : h = Body(h)
  BY DEF Branches
<1>9. Branches = Body(Branches)
  <2> HIDE DEF Body, F, R
  <2>1. QED
    BY <1>6, <1>7, <1>8
<1>10. \A i \in Ends :
         Branches[i] = IF i = None THEN <<>> ELSE (Branches[childs[i]] \o <<i>>) \o Branches[next[i]]
  BY <1>1, <1>9
<1>11. None \in Ends /\ \A i \in Places : i \in Ends /\ i # None
  BY AmountIsNatural DEF Ends, Places, None
<1>12. QED
  BY <1>10, <1>11

(* The siblings from a node on.                                             *)
Row(s, i, lo) ==
  /\ s \in Seq(nodes) /\ Len(s) > 0 /\ s[1] = i
  /\ \A k \in 1..Len(s) :
       /\ above[s[k]] = above[i] /\ lo[i] <= lo[s[k]] /\ label[i] <= label[s[k]]
       /\ next[s[k]] = IF k = Len(s) THEN None ELSE s[k + 1]
  /\ \A k, m \in 1..Len(s) : k < m => lo[s[k]] < lo[s[m]] /\ label[s[k]] <= label[s[m]]

LEMMA OneAhead ==
  ASSUME NEW S, NEW a \in S, NEW t \in Seq(S), NEW s, s = <<a>> \o t
  PROVE  /\ s \in Seq(S) /\ Len(s) = Len(t) + 1 /\ s[1] = a
         /\ \A k \in 2..Len(s) : k - 1 \in 1..Len(t) /\ s[k] = t[k - 1]
<1>1. <<a>> \in Seq(S) /\ Len(<<a>>) = 1 /\ <<a>>[1] = a /\ Len(t) \in Nat
  OBVIOUS
<1>2. /\ s \in Seq(S) /\ Len(s) = 1 + Len(t)
      /\ \A k \in 1..1 + Len(t) : s[k] = IF k <= 1 THEN <<a>>[k] ELSE t[k - 1]
  BY <1>1, ConcatProperties
<1>3. QED
  BY <1>1, <1>2

LEMMA SiblingsRow ==
  ASSUME NEW lo, NEW hi, NEW max, Intervals(lo, hi, max)
  PROVE  \A i \in nodes : Row(Siblings[i], i, lo)
<1> DEFINE T == {i \in nodes : Row(Siblings[i], i, lo)}
<1>0. ASSUME NEW n \in nodes
      PROVE  n \in Places /\ n # None /\ lo[n] \in Nat /\ hi[n] \in Nat /\ label[n] \in Nat
  BY IntervalTypes, ForestFacts
<1>1. ASSUME NEW i \in nodes, \A j \in nodes : lo[j] > lo[i] => j \in T
      PROVE  Row(Siblings[i], i, lo)
  <2>1. Siblings[i] = <<i>> \o Siblings[next[i]]
    BY <1>0, SiblingsIs
  <2>2. CASE next[i] = None
    <3>1. <<>> \in Seq(nodes) /\ Len(<<>>) = 0
      OBVIOUS
    <3>2. Siblings[i] = <<i>> \o <<>>
      BY <2>1, <2>2, SiblingsIs
    <3>3. Siblings[i] \in Seq(nodes) /\ Len(Siblings[i]) = 1 /\ Siblings[i][1] = i
      BY <3>1, <3>2, OneAhead
    <3>4. QED
      BY <1>0, <2>2, <3>3 DEF Row
  <2>3. ASSUME next[i] # None, NEW j, j = next[i], NEW t, t = Siblings[j]
        PROVE  Row(Siblings[i], i, lo)
    <3>1. j \in nodes /\ above[j] = above[i] /\ label[i] <= label[j] /\ lo[i] < lo[j]
      <4>1. /\ j \in nodes /\ above[j] = above[i] /\ label[i] <= label[j]
            /\ lo[i] < hi[i] /\ hi[i] < lo[j]
        BY <2>3, ForestFacts
      <4>2. QED
        BY <1>0, <4>1
    <3>2. Row(t, j, lo)
      BY <1>0, <1>1, <2>3, <3>1
    <3>3. t \in Seq(nodes) /\ Len(t) \in Nat /\ Len(t) > 0 /\ t[1] = j
      BY <3>2 DEF Row
    <3> DEFINE s == Siblings[i]
    <3>4. /\ s \in Seq(nodes) /\ Len(s) = Len(t) + 1 /\ s[1] = i
          /\ \A k \in 2..Len(s) : k - 1 \in 1..Len(t) /\ s[k] = t[k - 1]
      BY <2>1, <2>3, <3>3, OneAhead
    <3> HIDE DEF s
    <3>5. \A k \in 1..Len(t) : t[k] \in nodes
      BY <3>3, ElementOfSeq
    <3>6. ASSUME NEW k \in 2..Len(s)
          PROVE  /\ above[s[k]] = above[i] /\ lo[i] < lo[s[k]] /\ label[i] <= label[s[k]]
                 /\ next[s[k]] = IF k = Len(s) THEN None ELSE s[k + 1]
      <4>1. ASSUME NEW m, m = k - 1
            PROVE  /\ m \in 1..Len(t) /\ s[k] = t[m] /\ t[m] \in nodes
                   /\ above[t[m]] = above[j] /\ lo[j] <= lo[t[m]] /\ label[j] <= label[t[m]]
                   /\ next[t[m]] = IF m = Len(t) THEN None ELSE t[m + 1]
        BY <3>2, <3>4, <3>5, <4>1 DEF Row
      <4>2. k # Len(s) => k + 1 \in 2..Len(s) /\ (k + 1) - 1 = (k - 1) + 1
        BY <3>3, <3>4
      <4>3. k # Len(s) => s[k + 1] = t[(k - 1) + 1]
        BY <3>4, <4>2
      <4>4. (k - 1 = Len(t)) <=> (k = Len(s))
        BY <3>3, <3>4
      <4>5. ASSUME NEW m, m = k - 1
            PROVE  lo[i] < lo[t[m]] /\ label[i] <= label[t[m]]
        BY <1>0, <3>1, <4>1, <4>5
      <4>6. QED
        BY <3>1, <4>1, <4>3, <4>4, <4>5
    <3>7. next[s[1]] = IF 1 = Len(s) THEN None ELSE s[2]
      BY <2>3, <3>3, <3>4
    <3>8. ASSUME NEW k \in 1..Len(s), NEW m \in 1..Len(s), k < m
          PROVE  lo[s[k]] < lo[s[m]] /\ label[s[k]] <= label[s[m]]
      <4>1. CASE k = 1
        BY <3>4, <3>6, <3>8, <4>1
      <4>2. CASE k # 1
        <5>1. ASSUME NEW p, p = k - 1, NEW q, q = m - 1
              PROVE  p \in 1..Len(t) /\ q \in 1..Len(t) /\ p < q /\ s[k] = t[p] /\ s[m] = t[q]
          BY <3>4, <3>8, <4>2, <5>1
        <5>2. \A p, q \in 1..Len(t) : p < q => lo[t[p]] < lo[t[q]] /\ label[t[p]] <= label[t[q]]
          BY <3>2 DEF Row
        <5>3. QED
          BY <5>1, <5>2
      <4>3. QED
        BY <4>1, <4>2
    <3>9. ASSUME NEW k \in 1..Len(s)
          PROVE  /\ above[s[k]] = above[i] /\ lo[i] <= lo[s[k]] /\ label[i] <= label[s[k]]
                 /\ next[s[k]] = IF k = Len(s) THEN None ELSE s[k + 1]
      <4>1. CASE k = 1
        BY <1>0, <3>4, <3>7, <4>1
      <4>2. CASE k # 1
        <5>1. k \in 2..Len(s)
          BY <4>2
        <5>2. s[k] \in nodes
          BY <3>4, ElementOfSeq
        <5>3. QED
          BY <1>0, <3>6, <5>1, <5>2
      <4>3. QED
        BY <4>1, <4>2
    <3>10. Len(s) > 0
      BY <3>3, <3>4
    <3>11. Row(s, i, lo)
      BY <3>4, <3>8, <3>9, <3>10 DEF Row
    <3>12. QED
      BY <3>11 DEF s
  <2>4. QED
    BY <2>2, <2>3
<1>2. \A i \in nodes : (\A j \in nodes : lo[j] > lo[i] => j \in T) => i \in T
  BY <1>1
<1>3. \A i \in nodes : i \in T
  <2> HIDE DEF T
  <2>1. QED
    BY <1>2, LaterFirst
<1>4. QED
  BY <1>3

-----------------------------------------------------------------------------
(* A level: the children of l, each once, in the order of the intervals.    *)
Ranked(s, l, lo) ==
  /\ s \in Seq(nodes)
  /\ s = <<>> <=> childs[l] = None
  /\ s # <<>> => s[1] = childs[l]
  /\ \A k \in 1..Len(s) :
       /\ above[s[k]] = l
       /\ next[s[k]] = IF k = Len(s) THEN None ELSE s[k + 1]
       /\ prev[s[k]] = IF k = 1 THEN None ELSE s[k - 1]
  /\ \A k, m \in 1..Len(s) : k < m => lo[s[k]] < lo[s[m]] /\ label[s[k]] <= label[s[m]]
  /\ \A n \in nodes : above[n] = l => \E k \in 1..Len(s) : n = s[k]

LEMMA LevelIs ==
  ASSUME NEW lo, NEW hi, NEW max, Intervals(lo, hi, max), NEW l \in nodes \cup {Top}, NEW s, s = Level(l)
  PROVE  Ranked(s, l, lo)
<1>1. s = Siblings[childs[l]]
  BY ReadOff
<1>2. CASE childs[l] = None
  <2>1. s = <<>> /\ s \in Seq(nodes) /\ Len(s) = 0
    <3>1. Siblings[None] = <<>>
      BY SiblingsIs
    <3>2. <<>> \in Seq(nodes) /\ Len(<<>>) = 0
      OBVIOUS
    <3>3. QED
      BY <1>1, <1>2, <3>1, <3>2
  <2>2. \A n \in nodes : above[n] # l
    <3> DEFINE X == {}
    <3>1. childs[l] # None => childs[l] \in X
      BY <1>2
    <3>2. \A x \in nodes : x \in X /\ above[x] = l /\ next[x] # None => next[x] \in X
      OBVIOUS
    <3>3. \A n \in nodes : above[n] = l => n \in X
      <4> HIDE DEF X
      <4>1. QED
        BY <3>1, <3>2, WholeLevel
    <3>4. QED
      BY <3>3
  <2>3. QED
    BY <1>2, <2>1, <2>2 DEF Ranked
<1>3. CASE childs[l] # None
  <2> DEFINE i == childs[l]
  <2>1. i \in nodes /\ above[i] = l /\ prev[i] = None /\ i # None
    BY <1>3, ForestFacts
  <2>2. Row(s, i, lo)
    BY <1>1, <2>1, SiblingsRow
  <2> HIDE DEF i
  <2>3. s \in Seq(nodes) /\ Len(s) \in Nat /\ Len(s) > 0 /\ s[1] = i
    BY <2>2 DEF Row
  <2>4. s # <<>>
    BY <2>3
  <2>5. \A k \in 1..Len(s) : s[k] \in nodes
    BY <2>3, ElementOfSeq
  <2>6. \A k \in 1..Len(s) :
          /\ above[s[k]] = l
          /\ next[s[k]] = IF k = Len(s) THEN None ELSE s[k + 1]
    BY <2>1, <2>2 DEF Row
  <2>7. ASSUME NEW k \in 1..Len(s)
        PROVE  prev[s[k]] = IF k = 1 THEN None ELSE s[k - 1]
    <3>1. CASE k = 1
      BY <2>1, <2>3, <3>1
    <3>2. ASSUME k # 1, NEW m, m = k - 1
          PROVE  prev[s[k]] = s[m]
      <4>1. m \in 1..Len(s) /\ m # Len(s) /\ m + 1 = k
        BY <2>3, <3>2
      <4>2. next[s[m]] = s[k] /\ s[m] \in nodes
        BY <2>5, <2>6, <4>1
      <4>3. s[k] # None
        BY <2>5, IntervalTypes
      <4>4. QED
        BY <4>2, <4>3, ForestFacts
    <3>3. QED
      BY <3>1, <3>2
  <2>8. \A k, m \in 1..Len(s) : k < m => lo[s[k]] < lo[s[m]] /\ label[s[k]] <= label[s[m]]
    BY <2>2 DEF Row
  <2>9. \A n \in nodes : above[n] = l => \E k \in 1..Len(s) : n = s[k]
    <3> DEFINE X == {s[k] : k \in 1..Len(s)}
    <3>1. i \in X
      BY <2>3
    <3>2. ASSUME NEW x \in nodes, x \in X, above[x] = l, next[x] # None
          PROVE  next[x] \in X
      <4>1. PICK k \in 1..Len(s) : x = s[k]
        BY <3>2
      <4>2. k # Len(s) /\ next[x] = s[k + 1]
        BY <2>6, <3>2, <4>1
      <4>3. k + 1 \in 1..Len(s)
        BY <2>3, <4>2
      <4>4. QED
        BY <4>2, <4>3
    <3>3. \A n \in nodes : above[n] = l => n \in X
      <4> HIDE DEF X
      <4>1. QED
        BY <3>1, <3>2, WholeLevel DEF i
    <3>4. QED
      BY <3>3
  <2>10. s # <<>> => s[1] = childs[l]
    BY <2>3 DEF i
  <2>11. QED
    BY <1>3, <2>3, <2>4, <2>6, <2>7, <2>8, <2>9, <2>10 DEF Ranked
<1>4. QED
  BY <1>2, <1>3

LEMMA LevelsFollow == ForestInv => LevelsHoldNodes
<1> SUFFICES ASSUME ForestInv
             PROVE  LevelsHoldNodes
  OBVIOUS
<1>1. PICK lo, hi, max : Nested(LinksNow, nodes, lo, hi, max)
  BY DEF ForestInv
<1>2. Intervals(lo, hi, max)
  BY <1>1 DEF Intervals, ForestInv
<1>3. ASSUME NEW l \in nodes \cup {Top}, NEW s, s = Level(l)
      PROVE  /\ IsInjective(s)
             /\ \A k \in DOMAIN s :
                  /\ above[s[k]] = l
                  /\ prev[s[k]] = IF k = 1 THEN None ELSE s[k - 1]
                  /\ k > 1 => label[s[k - 1]] <= label[s[k]]
             /\ ToSet(s) = {n \in nodes : above[n] = l}
  <2>1. Ranked(s, l, lo)
    BY <1>2, <1>3, LevelIs
  <2>2. s \in Seq(nodes) /\ DOMAIN s = 1..Len(s) /\ Len(s) \in Nat
    BY <2>1 DEF Ranked
  <2>3. \A k \in 1..Len(s) : s[k] \in nodes
    BY <2>2, ElementOfSeq
  <2>4. \A k, m \in 1..Len(s) : k < m => lo[s[k]] < lo[s[m]] /\ label[s[k]] <= label[s[m]]
    BY <2>1 DEF Ranked
  <2>5. ASSUME NEW k \in 1..Len(s), NEW m \in 1..Len(s), s[k] = s[m]
        PROVE  k = m
    <3>1. lo[s[k]] \in Nat
      BY <1>2, <2>3, IntervalTypes
    <3>2. ~ (k < m) /\ ~ (m < k)
      BY <2>4, <2>5, <3>1
    <3>3. QED
      BY <3>2
  <2>6. IsInjective(s)
    BY <2>2, <2>5 DEF IsInjective
  <2>7. ASSUME NEW k \in 1..Len(s), k > 1
        PROVE  label[s[k - 1]] <= label[s[k]]
    <3>1. k - 1 \in 1..Len(s) /\ k - 1 < k
      BY <2>2, <2>7
    <3>2. QED
      BY <2>4, <3>1
  <2>8. \A k \in 1..Len(s) : above[s[k]] = l /\ prev[s[k]] = IF k = 1 THEN None ELSE s[k - 1]
    BY <2>1 DEF Ranked
  <2>9. ToSet(s) = {n \in nodes : above[n] = l}
    <3>1. \A n \in nodes : above[n] = l => \E k \in 1..Len(s) : n = s[k]
      BY <2>1 DEF Ranked
    <3>2. ToSet(s) = {s[k] : k \in 1..Len(s)}
      BY <2>2 DEF ToSet
    <3>3. QED
      BY <2>3, <2>8, <3>1, <3>2
  <2>10. QED
    BY <2>2, <2>6, <2>7, <2>8, <2>9
<1>4. UNION {ToSet(Level(l)) : l \in nodes \cup {Top}} = nodes
  <2>1. \A l \in nodes \cup {Top} : ToSet(Level(l)) = {n \in nodes : above[n] = l}
    BY <1>3
  <2>2. \A n \in nodes : above[n] \in nodes \cup {Top}
    BY <1>2, ForestFacts
  <2>3. QED
    BY <2>1, <2>2
<1>5. Cardinality(nodes) = itemAmount /\ nodes \subseteq clients
  BY DEF ForestInv
<1>6. QED
  BY <1>3, <1>4, <1>5 DEF LevelsHoldNodes

-----------------------------------------------------------------------------
(* Freeing a node without children.                                         *)
WithoutFields(W, L, node) ==
  LET b == L.prev[node]
      a == L.next[node]
      p == L.above[node]
  IN  /\ W \in LinkFields
      /\ \A i \in Places :
           /\ W.above[i] = IF i = node THEN None ELSE L.above[i]
           /\ W.childs[i] = IF i = p /\ L.childs[p] = node THEN a ELSE L.childs[i]
           /\ W.next[i] = IF i = node THEN None ELSE IF i = b THEN a ELSE L.next[i]
           /\ W.prev[i] = IF i = node THEN None ELSE IF i = a THEN b ELSE L.prev[i]

LEMMA WithoutIs ==
  ASSUME NEW L \in LinkFields, NEW node \in Places, NEW W, W = Without(L, node)
  PROVE  /\ W \in LinkFields
         /\ L.above[node] \in Places => WithoutFields(W, L, node)
<1> DEFINE b == L.prev[node]
           a == L.next[node]
           p == L.above[node]
<1>1. /\ L.above \in [Places -> Ends] /\ L.childs \in [Places -> Ends]
      /\ L.next \in [Places -> Ends] /\ L.prev \in [Places -> Ends]
  BY DEF LinkFields
<1>2. a \in Ends /\ b \in Ends /\ None \in Ends /\ Places = 0..NodeAmount
  BY <1>1, AmountIsNatural DEF Ends, None, Places
<1>3. /\ W.above = [L.above EXCEPT ![node] = None]
      /\ W.childs = IF L.childs[p] = node THEN [L.childs EXCEPT ![p] = a] ELSE L.childs
      /\ W.next = [i \in Places |-> IF i = node THEN None ELSE IF i = b THEN a ELSE L.next[i]]
      /\ W.prev = [i \in Places |-> IF i = node THEN None ELSE IF i = a THEN b ELSE L.prev[i]]
      /\ W = [above |-> W.above, childs |-> W.childs, next |-> W.next, prev |-> W.prev]
  BY <1>2 DEF Without
<1> HIDE DEF a, b, p
<1>4. /\ W.above \in [Places -> Ends] /\ W.childs \in [Places -> Ends]
      /\ W.next \in [Places -> Ends] /\ W.prev \in [Places -> Ends]
  <2>0. ASSUME NEW f \in [Places -> Ends], NEW x, NEW v \in Ends
        PROVE  [f EXCEPT ![x] = v] \in [Places -> Ends]
    OBVIOUS
  <2>1. W.above \in [Places -> Ends]
    BY <1>1, <1>2, <1>3, <2>0
  <2>2. W.childs \in [Places -> Ends]
    <3>1. CASE L.childs[p] = node
      <4>1. W.childs = [L.childs EXCEPT ![p] = a]
        BY <1>3, <3>1
      <4>2. L.childs \in [Places -> Ends] /\ a \in Ends
        BY <1>1, <1>2
      <4>3. QED
        BY <4>1, <4>2
    <3>2. CASE L.childs[p] # node
      BY <1>1, <1>3, <3>2
    <3>3. QED
      BY <3>1, <3>2
  <2>3. \A i \in Places : L.next[i] \in Ends /\ L.prev[i] \in Ends
    BY <1>1
  <2>4. W.next \in [Places -> Ends] /\ W.prev \in [Places -> Ends]
    <3> DEFINE N(i) == IF i = node THEN None ELSE IF i = b THEN a ELSE L.next[i]
               P(i) == IF i = node THEN None ELSE IF i = a THEN b ELSE L.prev[i]
    <3>1. \A i \in Places : N(i) \in Ends /\ P(i) \in Ends
      BY <1>2, <2>3
    <3>2. W.next = [i \in Places |-> N(i)] /\ W.prev = [i \in Places |-> P(i)]
      BY <1>3
    <3> HIDE DEF N, P
    <3>3. QED
      BY <3>1, <3>2
  <2>5. QED
    BY <2>1, <2>2, <2>4
<1>5. W \in LinkFields
  BY <1>3, <1>4 DEF LinkFields
<1>6. ASSUME p \in Places, NEW i \in Places
      PROVE  /\ W.above[i] = IF i = node THEN None ELSE L.above[i]
             /\ W.childs[i] = IF i = p /\ L.childs[p] = node THEN a ELSE L.childs[i]
             /\ W.next[i] = IF i = node THEN None ELSE IF i = b THEN a ELSE L.next[i]
             /\ W.prev[i] = IF i = node THEN None ELSE IF i = a THEN b ELSE L.prev[i]
  BY <1>1, <1>3, <1>6
<1>7. QED
  BY <1>5, <1>6 DEF WithoutFields, a, b, p

Childless(L, live, labels, node) ==
  /\ live \subseteq Nodes /\ labels \in [Nodes -> Nat]
  /\ node \in live /\ \A n \in live : L.above[n] # node

LEMMA WithoutKeeps ==
  ASSUME NEW L, NEW live, NEW labels, NEW lo, NEW hi, NEW max, NEW node,
         Linked(L, live, labels), Nested(L, live, lo, hi, max), Childless(L, live, labels, node),
         NEW W, W = Without(L, node), NEW rest, rest = live \ {node}
  PROVE  /\ Linked(W, rest, labels) /\ Nested(W, rest, lo, hi, max)
         /\ \A n \in rest : W.above[n] = L.above[n]
<1> DEFINE b == L.prev[node]
           a == L.next[node]
           p == L.above[node]
<1>0. /\ live \subseteq Nodes /\ labels \in [Nodes -> Nat]
      /\ node \in live /\ \A n \in live : L.above[n] # node
  BY DEF Childless
<1> USE <1>0
<1>1. \A n \in live \cup {Top} : n \in Places /\ n # None
  BY AmountIsNatural DEF Nodes, Places, Top, None
<1>2. Top \notin live
  BY AmountIsNatural DEF Nodes, Top
<1>3. \A n \in live \cup {Top} : lo[n] \in Nat /\ hi[n] \in Nat /\ lo[n] < hi[n]
  <2>1. lo \in [Places -> 0..max] /\ hi \in [Places -> 0..max] /\ max \in Nat
    BY DEF Nested
  <2>2. QED
    BY <1>1, <2>1 DEF Nested
<1>4. WithoutFields(W, L, node)
  <2>1. L \in LinkFields /\ L.above[node] \in Places /\ node \in Places
    BY <1>1 DEF Linked
  <2>2. QED
    BY <2>1, WithoutIs
<1>5. p \in rest \cup {Top} /\ p # node
  BY DEF Linked
<1>6. L.childs[node] = None
  BY DEF Linked
<1>7. b = None => L.childs[p] = node
  BY DEF Linked
<1>8. b # None => b \in rest /\ L.next[b] = node /\ L.childs[p] # node /\ L.above[b] = p
                  /\ hi[b] < lo[node] /\ labels[b] <= labels[node]
  <2>1. ASSUME b # None
        PROVE  b \in live /\ L.next[b] = node /\ L.childs[p] # node
    BY <1>1, <1>5, <2>1 DEF Linked
  <2>2. ASSUME b # None
        PROVE  L.above[b] = p /\ labels[b] <= labels[node] /\ hi[b] < lo[node]
    BY <1>1, <2>1, <2>2 DEF Linked, Nested
  <2>3. ASSUME b # None
        PROVE  b # node
    BY <1>3, <2>2, <2>3
  <2>4. QED
    BY <2>1, <2>2, <2>3
<1>9. a # None => a \in rest /\ L.above[a] = p /\ L.prev[a] = node
                  /\ hi[node] < lo[a] /\ labels[node] <= labels[a]
  <2>1. ASSUME a # None
        PROVE  a \in live /\ L.above[a] = p /\ L.prev[a] = node
               /\ hi[node] < lo[a] /\ labels[node] <= labels[a]
    BY <2>1 DEF Linked, Nested
  <2>2. ASSUME a # None
        PROVE  a # node
    BY <1>3, <2>1, <2>2
  <2>3. QED
    BY <2>1, <2>2
<1>10. \A l \in live \cup {Top} : L.childs[l] = node => l = p
  BY <1>1 DEF Linked
<1>11. \A n \in live : (L.next[n] = node => n = b) /\ (L.prev[n] = node => n = a)
  BY <1>1 DEF Linked
<1>12. a # b \/ a = None
  <2>1. ASSUME a # None, a = b
        PROVE  FALSE
    BY <1>3, <1>8, <1>9, <2>1
  <2>2. QED
    BY <2>1
<1>13. \A n \in live : labels[n] \in Nat
  BY DEF Nodes
<1>14. \A i \in Places :
         /\ W.above[i] = IF i = node THEN None ELSE L.above[i]
         /\ W.childs[i] = IF i = p /\ L.childs[p] = node THEN a ELSE L.childs[i]
         /\ W.next[i] = IF i = node THEN None ELSE IF i = b THEN a ELSE L.next[i]
         /\ W.prev[i] = IF i = node THEN None ELSE IF i = a THEN b ELSE L.prev[i]
  BY <1>4 DEF WithoutFields
<1> HIDE DEF a, b, p
<1>15. \A l \in rest \cup {Top} : W.childs[l] # None =>
         /\ W.childs[l] \in rest /\ W.above[W.childs[l]] = l /\ W.prev[W.childs[l]] = None
  <2>1. ASSUME NEW l \in rest \cup {Top}, W.childs[l] # None
        PROVE  /\ W.childs[l] \in rest /\ W.above[W.childs[l]] = l /\ W.prev[W.childs[l]] = None
    <3>1. CASE l = p /\ L.childs[p] = node
      <4>1. W.childs[l] = a /\ a \in rest /\ L.above[a] = p /\ b = None
        BY <1>1, <1>8, <1>9, <1>14, <2>1, <3>1
      <4>2. W.above[a] = p /\ W.prev[a] = b
        BY <1>1, <1>14, <4>1
      <4>3. QED
        BY <3>1, <4>1, <4>2
    <3>2. CASE ~ (l = p /\ L.childs[p] = node)
      <4>1. W.childs[l] = L.childs[l] /\ L.childs[l] # node
        BY <1>1, <1>10, <1>14, <3>2
      <4>2. L.childs[l] \in live /\ L.above[L.childs[l]] = l /\ L.prev[L.childs[l]] = None
        BY <2>1, <4>1 DEF Linked
      <4>3. L.childs[l] # a
        BY <1>1, <1>9, <4>2
      <4>4. QED
        BY <1>1, <1>14, <4>1, <4>2, <4>3
    <3>3. QED
      BY <3>1, <3>2
  <2>2. QED
    BY <2>1
<1>16. \A n \in rest : W.next[n] # None =>
         /\ W.next[n] \in rest /\ W.above[W.next[n]] = W.above[n] /\ W.prev[W.next[n]] = n
         /\ labels[n] <= labels[W.next[n]] /\ hi[n] < lo[W.next[n]]
  <2>1. ASSUME NEW n \in rest, W.next[n] # None
        PROVE  /\ W.next[n] \in rest /\ W.above[W.next[n]] = W.above[n] /\ W.prev[W.next[n]] = n
               /\ labels[n] <= labels[W.next[n]] /\ hi[n] < lo[W.next[n]]
    <3>0. W.above[n] = L.above[n] /\ W.next[n] = IF n = b THEN a ELSE L.next[n]
      BY <1>1, <1>14
    <3>1. CASE n = b
      <4>1. W.next[n] = a /\ a \in rest /\ b # None
        BY <1>1, <1>9, <2>1, <3>0, <3>1
      <4>2. W.above[a] = p /\ W.prev[a] = b /\ W.above[n] = p
        BY <1>1, <1>8, <1>9, <1>14, <3>0, <3>1, <4>1
      <4>3. labels[b] <= labels[a]
        <5>1. labels[b] \in Nat /\ labels[node] \in Nat /\ labels[a] \in Nat
          BY <1>8, <1>13, <4>1
        <5>2. labels[b] <= labels[node] /\ labels[node] <= labels[a]
          BY <1>1, <1>8, <1>9, <4>1
        <5>3. QED
          BY <5>1, <5>2
      <4>4. hi[b] < lo[a]
        <5>1. hi[b] \in Nat /\ lo[a] \in Nat /\ lo[node] \in Nat /\ hi[node] \in Nat
          BY <1>3, <1>8, <4>1
        <5>2. hi[b] < lo[node] /\ lo[node] < hi[node] /\ hi[node] < lo[a]
          BY <1>1, <1>3, <1>8, <1>9, <4>1
        <5>3. QED
          BY <5>1, <5>2
      <4>5. QED
        BY <3>1, <4>1, <4>2, <4>3, <4>4
    <3>2. CASE n # b
      <4>1. W.next[n] = L.next[n] /\ L.next[n] # node
        BY <1>11, <3>0, <3>2
      <4>2. /\ L.next[n] \in live /\ L.above[L.next[n]] = L.above[n] /\ L.prev[L.next[n]] = n
            /\ labels[n] <= labels[L.next[n]] /\ hi[n] < lo[L.next[n]]
        BY <2>1, <4>1 DEF Linked, Nested
      <4>3. L.next[n] # a
        BY <1>1, <1>9, <4>2
      <4>4. QED
        BY <1>1, <1>14, <3>0, <4>1, <4>2, <4>3
    <3>3. QED
      BY <3>1, <3>2
  <2>2. QED
    BY <2>1
<1>17. \A n \in rest : W.above[n] = L.above[n] /\ L.above[n] \in rest \cup {Top}
  BY <1>1, <1>14 DEF Linked
<1>18. \A n \in rest :
         /\ W.prev[n] = None => W.childs[W.above[n]] = n
         /\ W.prev[n] # None => W.prev[n] \in rest /\ W.next[W.prev[n]] = n
  <2>1. ASSUME NEW n \in rest
        PROVE  /\ W.prev[n] = None => W.childs[W.above[n]] = n
               /\ W.prev[n] # None => W.prev[n] \in rest /\ W.next[W.prev[n]] = n
    <3>0. W.prev[n] = (IF n = a THEN b ELSE L.prev[n]) /\ W.above[n] = L.above[n]
      BY <1>1, <1>14
    <3>1. CASE n = a
      <4>1. a # None /\ L.above[a] = p
        BY <1>1, <1>9, <3>1
      <4>2. CASE b = None
        BY <1>1, <1>5, <1>7, <1>14, <3>0, <3>1, <4>1, <4>2
      <4>3. CASE b # None
        BY <1>1, <1>8, <1>14, <3>0, <3>1, <4>1, <4>3
      <4>4. QED
        BY <4>2, <4>3
    <3>2. CASE n # a
      <4>1. W.prev[n] = L.prev[n] /\ L.prev[n] # node
        BY <1>11, <3>0, <3>2
      <4>2. CASE L.prev[n] = None
        <5>1. L.childs[L.above[n]] = n /\ L.above[n] \in rest \cup {Top}
          BY <1>17, <4>2 DEF Linked
        <5>2. W.childs[L.above[n]] = n
          BY <1>1, <1>14, <5>1
        <5>3. QED
          BY <1>17, <4>1, <4>2, <5>2
      <4>3. CASE L.prev[n] # None
        <5>1. L.prev[n] \in rest /\ L.next[L.prev[n]] = n
          BY <4>1, <4>3 DEF Linked
        <5>2. L.prev[n] # b
          BY <1>1, <1>8, <5>1
        <5>3. W.next[L.prev[n]] = n
          BY <1>1, <1>14, <5>1, <5>2
        <5>4. QED
          BY <4>1, <4>3, <5>1, <5>3
      <4>4. QED
        BY <4>2, <4>3
    <3>3. QED
      BY <3>1, <3>2
  <2>2. QED
    BY <2>1
<1>19. W.next[Top] = None
  <2>1. Top # b /\ Top # node /\ Top \in Places
    BY <1>1, <1>2, <1>8, AmountIsNatural DEF None, Top, Places
  <2>2. QED
    BY <1>14, <2>1 DEF Linked
<1>20. \A i \in Places \ (rest \cup {Top}) : W.next[i] = None /\ W.childs[i] = None
  <2>1. ASSUME NEW i \in Places \ (rest \cup {Top})
        PROVE  W.next[i] = None /\ W.childs[i] = None
    <3>1. i # p
      BY <1>5
    <3>2. CASE i = node
      BY <1>6, <1>14, <3>1, <3>2
    <3>3. CASE i # node
      <4>1. i \notin live \cup {Top} /\ i # None
        BY <3>3, AmountIsNatural DEF Places, None
      <4>2. L.next[i] = None /\ L.childs[i] = None /\ i # b
        BY <1>8, <4>1 DEF Linked
      <4>3. QED
        BY <1>14, <3>1, <3>3, <4>2
    <3>4. QED
      BY <3>2, <3>3
  <2>2. QED
    BY <2>1
<1>21. W \in LinkFields
  BY <1>4 DEF WithoutFields
<1>22. Linked(W, rest, labels)
  BY <1>15, <1>16, <1>17, <1>18, <1>19, <1>20, <1>21 DEF Linked
<1>23. Nested(W, rest, lo, hi, max)
  <2>1. \A n \in rest : lo[W.above[n]] < lo[n] /\ hi[n] < hi[W.above[n]]
    BY <1>17 DEF Nested
  <2>2. QED
    BY <1>16, <2>1 DEF Nested
<1>24. QED
  BY <1>17, <1>22, <1>23

-----------------------------------------------------------------------------
(* AfterFree: the function it is read off.                                  *)
Frees(order) ==
  CHOOSE h : h = [k \in 0..Len(order) |-> IF k = 0 THEN LinksNow ELSE Without(h[k - 1], order[k])]

LEMMA FreesAre ==
  ASSUME LinksNow \in LinkFields, NEW order \in Seq(Places)
  PROVE  /\ AfterFree(order) = Frees(order)[Len(order)]
         /\ Frees(order)[0] = LinksNow
         /\ \A k \in 1..Len(order) : Frees(order)[k] = Without(Frees(order)[k - 1], order[k])
<1> DEFINE D == 0..Len(order)
           Freeing(l, k) == Without(l, order[k])
           Body(h) == [k \in D |-> IF k = 0 THEN LinksNow ELSE Freeing(h[k - 1], k)]
           F == [v \in [D -> LinkFields] |-> Body(v)]
           size == [k \in D |-> k]
<1>1. AfterFree(order) = Frees(order)[Len(order)]
  BY DEF AfterFree, Frees, LinksNow
<1>2. Len(order) \in Nat /\ \A k \in 1..Len(order) : order[k] \in Places
  BY ElementOfSeq
<1>3. ASSUME NEW L \in LinkFields, NEW k \in 1..Len(order)
      PROVE  Freeing(L, k) \in LinkFields
  BY <1>2, WithoutIs
<1> HIDE DEF Freeing
<1>4. ASSUME NEW v \in [D -> LinkFields], NEW k \in D
      PROVE  (IF k = 0 THEN LinksNow ELSE Freeing(v[k - 1], k)) \in LinkFields
  <2>1. CASE k = 0
    BY <2>1
  <2>2. CASE k # 0
    <3>1. k \in 1..Len(order) /\ k - 1 \in D
      BY <1>2, <2>2
    <3>2. v[k - 1] \in LinkFields
      BY <3>1
    <3>3. QED
      BY <1>3, <2>2, <3>1, <3>2
  <2>3. QED
    BY <2>1, <2>2
<1>5. F \in [[D -> LinkFields] -> [D -> LinkFields]]
  BY <1>4
<1>6. ASSUME NEW v \in [D -> LinkFields], NEW w \in [D -> LinkFields], NEW k \in D,
             \A j \in D : size[j] < size[k] => v[j] = w[j]
      PROVE  F[v][k] = F[w][k]
  <2>1. F[v][k] = IF k = 0 THEN LinksNow ELSE Freeing(v[k - 1], k)
    OBVIOUS
  <2>2. F[w][k] = IF k = 0 THEN LinksNow ELSE Freeing(w[k - 1], k)
    OBVIOUS
  <2>3. k # 0 => v[k - 1] = w[k - 1]
    <3>1. k # 0 => k - 1 \in D /\ k - 1 < k
      BY <1>2
    <3>2. QED
      BY <1>6, <3>1
  <2> HIDE DEF F
  <2>4. QED
    BY <2>1, <2>2, <2>3
<1>7. ASSUME NEW h, Fixed(h, F, D, LinkFields)
      PROVE  h = Body(h)
  <2>1. h \in [D -> LinkFields] /\ \A k \in D : h[k] = F[h][k]
    BY <1>7 DEF Fixed
  <2>2. \A k \in D : h[k] = IF k = 0 THEN LinksNow ELSE Freeing(h[k - 1], k)
    BY <2>1
  <2>3. QED
    BY <2>1, <2>2
<1>8. \E h : Fixed(h, F, D, LinkFields)
  <2>1. Descends(F, D, LinkFields, size)
    <3> HIDE DEF F, D, size
    <3>1. QED
      BY <1>6 DEF Descends
  <2>2. size \in [D -> Nat] /\ [k \in D |-> LinksNow] \in [D -> LinkFields]
    BY <1>2
  <2> HIDE DEF F, D, size
  <2>3. QED
    BY <1>5, <2>1, <2>2, Recursion
<1>9. Frees(order) = CHOOSE h : h = Body(h)
  BY DEF Frees, Freeing
<1>10. Frees(order) = Body(Frees(order))
  <2> HIDE DEF Body, F, D
  <2>1. QED
    BY <1>7, <1>8, <1>9
<1>11. \A k \in D : Frees(order)[k] = IF k = 0 THEN LinksNow ELSE Freeing(Frees(order)[k - 1], k)
  <2> DEFINE G == Frees(order)
  <2>1. G = Body(G)
    BY <1>10
  <2> HIDE DEF G
  <2>2. \A k \in D : G[k] = IF k = 0 THEN LinksNow ELSE Freeing(G[k - 1], k)
    BY <2>1
  <2>3. QED
    BY <2>2 DEF G
<1>12. 0 \in D /\ \A k \in 1..Len(order) : k \in D /\ k # 0
  BY <1>2
<1>13. QED
  BY <1>1, <1>11, <1>12 DEF Freeing

(* An order has every node's children before it, and nothing twice.         *)
ChildrenFirst(order) ==
  /\ order \in Seq(nodes)
  /\ \A k, m \in 1..Len(order) : order[k] = order[m] => k = m
  /\ \A k \in 1..Len(order), n \in nodes : above[n] = order[k] =>
       \E m \in 1..Len(order) : m < k /\ n = order[m]

Left(order, k) == {n \in nodes : \A m \in 1..k : n # order[m]}

LEMMA FreesKeep ==
  ASSUME NEW lo, NEW hi, NEW max, Intervals(lo, hi, max), NEW order, ChildrenFirst(order)
  PROVE  \A k \in 0..Len(order) :
           /\ Linked(Frees(order)[k], Left(order, k), label)
           /\ Nested(Frees(order)[k], Left(order, k), lo, hi, max)
           /\ IsFiniteSet(Left(order, k))
           /\ Cardinality(Left(order, k)) = Cardinality(nodes) - k
<1> DEFINE Spared(L, live, k) ==
             /\ Linked(L, live, label) /\ Nested(L, live, lo, hi, max)
             /\ \A n \in live : L.above[n] = above[n]
             /\ IsFiniteSet(live) /\ Cardinality(live) = Cardinality(nodes) - k
           T == {k \in Nat : k <= Len(order) => Spared(Frees(order)[k], Left(order, k), k)}
<1>1. nodes \subseteq Nodes /\ nodes \subseteq Places /\ label \in [Nodes -> Nat]
  BY ForestFacts, IntervalTypes
<1>2. IsFiniteSet(nodes) /\ Cardinality(nodes) \in Nat
  <2>1. IsFiniteSet(Nodes)
    BY AmountIsNatural, FS_Interval DEF Nodes
  <2>2. QED
    BY <1>1, <2>1, FS_Subset, FS_CardinalityType
<1>3. order \in Seq(nodes) /\ Len(order) \in Nat /\ \A k \in 1..Len(order) : order[k] \in nodes
  BY ElementOfSeq DEF ChildrenFirst
<1>4. order \in Seq(Places)
  BY <1>1, <1>3
<1>5. LinksNow \in LinkFields
  BY DEF Intervals, ForestLinked, Linked
<1>6. /\ Frees(order)[0] = LinksNow
      /\ \A k \in 1..Len(order) : Frees(order)[k] = Without(Frees(order)[k - 1], order[k])
  BY <1>4, <1>5, FreesAre
<1>7. 0 \in T
  <2>1. Left(order, 0) = nodes
    BY DEF Left
  <2>2. Spared(LinksNow, nodes, 0)
    BY <1>2 DEF Intervals, ForestLinked, LinksNow
  <2> HIDE DEF Spared
  <2>3. QED
    BY <1>6, <2>1, <2>2
<1>8. ASSUME NEW k \in Nat, k \in T, k + 1 <= Len(order),
             NEW L, L = Frees(order)[k], NEW live, live = Left(order, k),
             NEW node, node = order[k + 1], NEW W, W = Frees(order)[k + 1]
      PROVE  Spared(W, Left(order, k + 1), k + 1)
  <2>1. k <= Len(order) /\ k + 1 \in 1..Len(order) /\ (k + 1) - 1 = k
    BY <1>3, <1>8
  <2>2. Spared(L, live, k)
    <3> HIDE DEF Spared
    <3>1. QED
      BY <1>8, <2>1
  <2>3. W = Without(L, node)
    BY <1>6, <1>8, <2>1
  <2>4. node \in live
    <3>1. node \in nodes
      BY <1>3, <1>8, <2>1
    <3>2. \A m \in 1..k : m \in 1..Len(order) /\ m # k + 1
      BY <2>1, <1>3
    <3>3. \A m \in 1..k : node # order[m]
      BY <1>8, <2>1, <3>2 DEF ChildrenFirst
    <3>4. QED
      BY <1>8, <3>1, <3>3 DEF Left
  <2>5. \A n \in live : L.above[n] # node
    <3>1. ASSUME NEW n \in live, L.above[n] = node
          PROVE  FALSE
      <4>1. n \in nodes /\ above[n] = order[k + 1]
        BY <1>8, <2>2, <3>1 DEF Left
      <4>2. PICK m \in 1..Len(order) : m < k + 1 /\ n = order[m]
        BY <2>1, <4>1 DEF ChildrenFirst
      <4>3. m \in 1..k
        BY <1>3, <4>2
      <4>4. QED
        BY <1>8, <3>1, <4>2, <4>3 DEF Left
    <3>2. QED
      BY <3>1
  <2>6. Left(order, k + 1) = live \ {node}
    <3>1. 1..k + 1 = 1..k \cup {k + 1}
      OBVIOUS
    <3>2. \A n : (\A m \in 1..k + 1 : n # order[m]) <=> (\A m \in 1..k : n # order[m]) /\ n # node
      BY <1>8, <3>1
    <3>3. QED
      BY <1>8, <3>2 DEF Left
  <2>7. live \in SUBSET Nodes
    BY <1>1, <1>8 DEF Left
  <2> DEFINE rest == live \ {node}
  <2>8. /\ Linked(W, rest, label) /\ Nested(W, rest, lo, hi, max)
        /\ \A n \in rest : W.above[n] = L.above[n]
    <3>1. Linked(L, live, label) /\ Nested(L, live, lo, hi, max)
      BY <2>2
    <3>2. rest = live \ {node}
      OBVIOUS
    <3>3. Childless(L, live, label, node)
      BY <1>1, <2>4, <2>5, <2>7 DEF Childless
    <3> HIDE DEF rest
    <3>4. QED
      BY <2>3, <3>1, <3>2, <3>3, WithoutKeeps
  <2>9. IsFiniteSet(rest) /\ Cardinality(rest) = Cardinality(nodes) - (k + 1)
    <3>1. IsFiniteSet(live) /\ Cardinality(live) = Cardinality(nodes) - k
      BY <2>2
    <3>2. IsFiniteSet(rest) /\ Cardinality(rest) = Cardinality(live) - 1
      BY <2>4, <3>1, FS_RemoveElement
    <3>3. QED
      BY <1>2, <1>8, <3>1, <3>2
  <2>10. \A n \in rest : W.above[n] = above[n]
    BY <2>2, <2>8
  <2>11. Spared(W, rest, k + 1)
    BY <2>8, <2>9, <2>10
  <2> HIDE DEF Spared
  <2>12. QED
    BY <2>6, <2>11
<1>9. \A k \in Nat : k \in T => k + 1 \in T
  <2> HIDE DEF Spared
  <2>1. QED
    BY <1>8
<1>10. \A k \in Nat : k \in T
  <2> HIDE DEF T
  <2>1. QED
    BY <1>7, <1>9, AllNumbers
<1>11. QED
  BY <1>3, <1>10

LEMMA FreedKeeps ==
  ASSUME ForestInv, NEW order, ChildrenFirst(order), NEW C, C \subseteq ToSet(order), Freed(order, C)
  PROVE  ForestInv'
<1>1. PICK lo, hi, max : Nested(LinksNow, nodes, lo, hi, max)
  BY DEF ForestInv
<1>2. Intervals(lo, hi, max)
  BY <1>1 DEF Intervals, ForestInv
<1>3. nodes \subseteq Nodes /\ nodes \subseteq Places /\ label \in [Nodes -> Nat]
  BY <1>2, ForestFacts, IntervalTypes
<1>4. order \in Seq(nodes) /\ Len(order) \in Nat /\ DOMAIN order = 1..Len(order)
  BY DEF ChildrenFirst
<1> DEFINE n == Len(order)
           links == Frees(order)[n]
           rest == Left(order, n)
<1>5. rest = nodes \ ToSet(order)
  <2>1. ToSet(order) = {order[m] : m \in 1..n}
    BY <1>4 DEF ToSet
  <2>2. QED
    BY <2>1 DEF Left
<1>6. /\ Linked(links, rest, label) /\ Nested(links, rest, lo, hi, max)
      /\ Cardinality(rest) = Cardinality(nodes) - n
  <2>1. n \in 0..Len(order)
    BY <1>4
  <2>2. QED
    BY <1>2, <2>1, FreesKeep
<1>7. AfterFree(order) = links
  <2>1. LinksNow \in LinkFields
    BY <1>2 DEF Intervals, ForestLinked, Linked
  <2>2. order \in Seq(Places)
    BY <1>3, <1>4
  <2>3. QED
    BY <2>1, <2>2, FreesAre
<1> HIDE DEF links, rest
<1>8. links \in LinkFields
  BY <1>6 DEF Linked
<1>9. /\ nodes' = rest /\ clients' = clients \ C /\ itemAmount' = itemAmount - n
      /\ label' = [i \in Nodes |-> IF i \in ToSet(order) THEN 0 ELSE label[i]]
      /\ LinksNow' = links
  <2>1. /\ above' = links.above /\ childs' = links.childs /\ next' = links.next /\ prev' = links.prev
    BY <1>7 DEF Freed
  <2>2. LinksNow' = links
    BY <1>8, <2>1 DEF LinksNow, LinkFields
  <2>3. QED
    BY <1>5, <2>2 DEF Freed
<1>10. label' \in [Nodes -> Nat] /\ rest \subseteq Nodes /\ \A i \in rest : label'[i] = label[i]
  BY <1>3, <1>5, <1>9
<1>11. Linked(links, rest, label')
  BY <1>6, <1>10 DEF Linked
<1>12. ForestLinked'
  BY <1>9, <1>10, <1>11 DEF ForestLinked
<1>13. Nested(LinksNow', nodes', lo, hi, max)
  BY <1>6, <1>9
<1>14. Cardinality(nodes') = itemAmount'
  BY <1>6, <1>9 DEF ForestInv
<1>15. nodes' \subseteq clients'
  BY <1>5, <1>9 DEF ForestInv
<1>16. QED
  BY <1>12, <1>13, <1>14, <1>15 DEF ForestInv

-----------------------------------------------------------------------------
(* The branches of a node and its later siblings hold nothing twice, have   *)
(* the children first and lie between two numbers of the intervals.         *)
Members(s) == {s[k] : k \in 1..Len(s)}

Grove(s, first, low, high, lo, hi) ==
  /\ ChildrenFirst(s)
  /\ first # None => first \in Members(s)
  /\ \A x \in Members(s) :
       low <= lo[x] /\ hi[x] < high /\ (next[x] # None => next[x] \in Members(s))

LEMMA EmptyGrove ==
  ASSUME NEW low, NEW high, NEW lo, NEW hi
  PROVE  Grove(<<>>, None, low, high, lo, hi)
<1>1. <<>> \in Seq(nodes) /\ Len(<<>>) = 0 /\ 1..0 = {}
  OBVIOUS
<1>2. ChildrenFirst(<<>>)
  BY <1>1 DEF ChildrenFirst
<1>3. Members(<<>>) = {}
  BY <1>1 DEF Members
<1>4. QED
  BY <1>2, <1>3 DEF Grove

LEMMA BranchParts ==
  ASSUME NEW S, NEW a \in S, NEW c \in Seq(S), NEW r \in Seq(S), NEW s, s = (c \o <<a>>) \o r
  PROVE  /\ s \in Seq(S) /\ Len(s) = (Len(c) + 1) + Len(r)
         /\ \A k \in 1..Len(c) : s[k] = c[k]
         /\ s[Len(c) + 1] = a
         /\ \A k \in 1..Len(r) : s[(Len(c) + 1) + k] = r[k]
<1>1. <<a>> \in Seq(S) /\ Len(<<a>>) = 1 /\ <<a>>[1] = a /\ Len(r) \in Nat /\ Len(c) \in Nat
  OBVIOUS
<1>2. ASSUME NEW t, t = c \o <<a>>
      PROVE  /\ t \in Seq(S) /\ Len(t) = Len(c) + 1
             /\ \A k \in 1..Len(c) + 1 : t[k] = IF k <= Len(c) THEN c[k] ELSE <<a>>[k - Len(c)]
  BY <1>1, <1>2, ConcatProperties
<1>3. ASSUME NEW t, t = c \o <<a>>
      PROVE  /\ t \in Seq(S) /\ Len(t) = Len(c) + 1
             /\ \A k \in 1..Len(c) : t[k] = c[k]
             /\ t[Len(c) + 1] = a
  <2>1. (Len(c) + 1) - Len(c) = 1
    BY <1>1
  <2>2. \A k \in 1..Len(c) : k \in 1..Len(c) + 1 /\ k <= Len(c)
    BY <1>1
  <2>3. Len(c) + 1 \in 1..Len(c) + 1 /\ ~ (Len(c) + 1 <= Len(c))
    BY <1>1
  <2>4. QED
    BY <1>1, <1>2, <1>3, <2>1, <2>2, <2>3
<1>4. PICK t : t = c \o <<a>>
  OBVIOUS
<1>5. t \in Seq(S) /\ s = t \o r
  BY <1>3, <1>4
<1>6. /\ s \in Seq(S) /\ Len(s) = Len(t) + Len(r)
      /\ \A k \in 1..Len(t) + Len(r) : s[k] = IF k <= Len(t) THEN t[k] ELSE r[k - Len(t)]
  BY <1>5, ConcatProperties, ZenonT(40)
<1>7. Len(t) = Len(c) + 1
  BY <1>3, <1>4
<1>8. \A k \in 1..Len(t) : s[k] = t[k]
  <2>1. \A k \in 1..Len(t) : k \in 1..Len(t) + Len(r) /\ k <= Len(t)
    BY <1>1, <1>7
  <2>2. QED
    BY <1>6, <2>1
<1>9. \A k \in 1..Len(r) : s[Len(t) + k] = r[k]
  <2>1. \A k \in 1..Len(r) :
          Len(t) + k \in 1..Len(t) + Len(r) /\ ~ (Len(t) + k <= Len(t)) /\ (Len(t) + k) - Len(t) = k
    BY <1>1, <1>7
  <2>2. QED
    BY <1>6, <2>1
<1>10. \A k \in 1..Len(c) : k \in 1..Len(t) /\ t[k] = c[k]
  BY <1>1, <1>3, <1>4, <1>7
<1>11. Len(c) + 1 \in 1..Len(t) /\ t[Len(c) + 1] = a
  BY <1>1, <1>3, <1>4, <1>7
<1>12. QED
  BY <1>6, <1>7, <1>8, <1>9, <1>10, <1>11

(* Where a place of the parts' concatenation is.                            *)
LEMMA BranchPlaces ==
  ASSUME NEW p \in Nat, NEW q \in Nat, NEW k \in 1..(p + 1) + q
  PROVE  k \in 1..p \/ k = p + 1 \/ \E j \in 1..q : k = (p + 1) + j
<1>1. CASE k <= p + 1
  BY <1>1
<1>2. CASE ~ (k <= p + 1)
  <2>1. k - (p + 1) \in 1..q /\ k = (p + 1) + (k - (p + 1))
    BY <1>2
  <2>2. QED
    BY <2>1
<1>3. QED
  BY <1>1, <1>2

LEMMA ChildrenBelow ==
  ASSUME NEW lo, NEW hi, NEW max, Intervals(lo, hi, max), NEW i \in nodes \cup {Top},
         NEW low, NEW high, NEW c, Grove(c, childs[i], low, high, lo, hi)
  PROVE  \A n \in nodes : above[n] = i => n \in Members(c)
<1> DEFINE X == Members(c)
<1>1. childs[i] # None => childs[i] \in X
  BY DEF Grove
<1>2. \A x \in nodes : x \in X /\ above[x] = i /\ next[x] # None => next[x] \in X
  BY DEF Grove
<1> HIDE DEF X
<1>3. \A n \in nodes : above[n] = i => n \in X
  BY <1>1, <1>2, WholeLevel
<1>4. QED
  BY <1>3 DEF X

LEMMA JoinBranch ==
  ASSUME NEW lo, NEW hi, NEW max, Intervals(lo, hi, max), NEW i \in nodes,
         NEW c, Grove(c, childs[i], lo[i] + 1, hi[i], lo, hi),
         NEW r, Grove(r, next[i], hi[i] + 1, hi[above[i]], lo, hi),
         NEW s, s = (c \o <<i>>) \o r
  PROVE  Grove(s, i, lo[i], hi[above[i]], lo, hi)
<1>1. /\ lo[i] \in Nat /\ hi[i] \in Nat /\ hi[above[i]] \in Nat
      /\ lo[i] < hi[i] /\ hi[i] < hi[above[i]]
  <2>1. above[i] \in nodes \cup {Top}
    BY ForestFacts
  <2>2. QED
    BY <2>1, ForestFacts, IntervalTypes
<1>2. /\ ChildrenFirst(c) /\ ChildrenFirst(r)
      /\ c \in Seq(nodes) /\ r \in Seq(nodes) /\ Len(c) \in Nat /\ Len(r) \in Nat
  <2>1. ChildrenFirst(c) /\ ChildrenFirst(r)
    BY DEF Grove
  <2>2. c \in Seq(nodes) /\ r \in Seq(nodes)
    BY <2>1 DEF ChildrenFirst
  <2>3. QED
    BY <2>1, <2>2
<1>3. /\ s \in Seq(nodes) /\ Len(s) = (Len(c) + 1) + Len(r)
      /\ \A k \in 1..Len(c) : s[k] = c[k]
      /\ s[Len(c) + 1] = i
      /\ \A k \in 1..Len(r) : s[(Len(c) + 1) + k] = r[k]
  BY <1>2, BranchParts
<1>4. \A k \in 1..Len(s) :
        k \in 1..Len(c) \/ k = Len(c) + 1 \/ \E j \in 1..Len(r) : k = (Len(c) + 1) + j
  <2>1. ASSUME NEW p, p = Len(c), NEW q, q = Len(r), NEW k \in 1..Len(s)
        PROVE  k \in 1..p \/ k = p + 1 \/ \E j \in 1..q : k = (p + 1) + j
    <3>1. p \in Nat /\ q \in Nat /\ k \in 1..(p + 1) + q
      BY <1>2, <1>3, <2>1
    <3>2. QED
      BY <3>1, BranchPlaces
  <2>2. QED
    BY <2>1
<1>5. ASSUME NEW x \in Members(c)
      PROVE  /\ x \in nodes /\ lo[i] < lo[x] /\ lo[x] < hi[x] /\ hi[x] < hi[i]
             /\ lo[x] \in Nat /\ hi[x] \in Nat
             /\ next[x] # None => next[x] \in Members(c)
  <2>1. x \in nodes
    BY <1>2, ElementOfSeq DEF Members
  <2>2. lo[x] \in Nat /\ hi[x] \in Nat /\ lo[x] < hi[x]
    BY <2>1, ForestFacts, IntervalTypes
  <2>3. lo[i] + 1 <= lo[x] /\ hi[x] < hi[i] /\ (next[x] # None => next[x] \in Members(c))
    BY DEF Grove
  <2>4. QED
    BY <1>1, <2>1, <2>2, <2>3
<1>6. ASSUME NEW x \in Members(r)
      PROVE  /\ x \in nodes /\ hi[i] < lo[x] /\ lo[x] < hi[x] /\ hi[x] < hi[above[i]]
             /\ lo[x] \in Nat /\ hi[x] \in Nat
             /\ next[x] # None => next[x] \in Members(r)
  <2>1. x \in nodes
    BY <1>2, ElementOfSeq DEF Members
  <2>2. lo[x] \in Nat /\ hi[x] \in Nat /\ lo[x] < hi[x]
    BY <2>1, ForestFacts, IntervalTypes
  <2>3. hi[i] + 1 <= lo[x] /\ hi[x] < hi[above[i]] /\ (next[x] # None => next[x] \in Members(r))
    BY DEF Grove
  <2>4. QED
    BY <1>1, <2>1, <2>2, <2>3
<1>7. Members(s) = (Members(c) \cup {i}) \cup Members(r)
  <2>1. \A k \in 1..Len(c) : k \in 1..Len(s)
    BY <1>2, <1>3
  <2>2. Len(c) + 1 \in 1..Len(s)
    BY <1>2, <1>3
  <2>3. \A k \in 1..Len(r) : (Len(c) + 1) + k \in 1..Len(s)
    BY <1>2, <1>3
  <2>4. Members(c) \subseteq Members(s)
    BY <1>3, <2>1 DEF Members
  <2>5. i \in Members(s)
    BY <1>3, <2>2 DEF Members
  <2>6. Members(r) \subseteq Members(s)
    <3>1. ASSUME NEW k \in 1..Len(r), NEW m, m = (Len(c) + 1) + k
          PROVE  r[k] \in Members(s)
      <4>1. m \in 1..Len(s) /\ s[m] = r[k]
        BY <1>3, <2>3, <3>1, SMTT(30)
      <4>2. QED
        BY <4>1 DEF Members
    <3>2. QED
      BY <3>1 DEF Members
  <2>7. ASSUME NEW k \in 1..Len(s)
        PROVE  s[k] \in (Members(c) \cup {i}) \cup Members(r)
    <3>1. CASE k \in 1..Len(c)
      BY <1>3, <3>1 DEF Members
    <3>2. CASE k = Len(c) + 1
      BY <1>3, <3>2
    <3>3. ASSUME NEW j \in 1..Len(r), k = (Len(c) + 1) + j
          PROVE  s[k] \in Members(r)
      BY <1>3, <3>3 DEF Members
    <3>4. QED
      BY <1>4, <3>1, <3>2, <3>3
  <2>8. Members(s) \subseteq (Members(c) \cup {i}) \cup Members(r)
    BY <2>7 DEF Members
  <2>9. QED
    BY <2>4, <2>5, <2>6, <2>8
<1>8. i \notin Members(c) /\ i \notin Members(r) /\ \A x \in Members(c) : x \notin Members(r)
  <2>1. i \notin Members(c)
    BY <1>1, <1>5
  <2>2. i \notin Members(r)
    BY <1>1, <1>6
  <2>3. ASSUME NEW x \in Members(c), x \in Members(r)
        PROVE  FALSE
    <3>1. hi[x] < hi[i] /\ lo[x] < hi[x] /\ lo[x] \in Nat /\ hi[x] \in Nat
      BY <1>5
    <3>2. hi[i] < lo[x]
      BY <1>6, <2>3
    <3>3. QED
      BY <1>1, <3>1, <3>2
  <2>4. QED
    BY <2>1, <2>2, <2>3
<1>9. /\ \A k \in 1..Len(c) : s[k] \in Members(c)
      /\ \A k \in 1..Len(r) : s[(Len(c) + 1) + k] \in Members(r)
  BY <1>3 DEF Members
<1>10. ASSUME NEW k \in 1..Len(s), NEW m \in 1..Len(s), s[k] = s[m]
       PROVE  k = m
  <2>1. CASE k \in 1..Len(c)
    <3>1. s[k] \in Members(c) /\ m # Len(c) + 1 /\ \A j \in 1..Len(r) : m # (Len(c) + 1) + j
      BY <1>3, <1>8, <1>9, <1>10, <2>1
    <3>2. m \in 1..Len(c)
      BY <1>4, <3>1
    <3>3. c[k] = c[m]
      BY <1>3, <1>10, <2>1, <3>2
    <3>4. QED
      BY <1>2, <2>1, <3>2, <3>3 DEF ChildrenFirst
  <2>2. CASE k = Len(c) + 1
    <3>1. s[k] = i /\ m \notin 1..Len(c) /\ \A j \in 1..Len(r) : m # (Len(c) + 1) + j
      BY <1>3, <1>8, <1>9, <1>10, <2>2
    <3>2. QED
      BY <1>4, <2>2, <3>1
  <2>3. ASSUME NEW j \in 1..Len(r), k = (Len(c) + 1) + j
        PROVE  k = m
    <3>1. s[k] \in Members(r) /\ m \notin 1..Len(c) /\ m # Len(c) + 1
      BY <1>3, <1>8, <1>9, <1>10, <2>3
    <3>2. PICK h \in 1..Len(r) : m = (Len(c) + 1) + h
      BY <1>4, <3>1
    <3>3. r[j] = r[h]
      BY <1>3, <1>10, <2>3, <3>2
    <3>4. j = h
      BY <1>2, <3>3 DEF ChildrenFirst
    <3>5. QED
      BY <2>3, <3>2, <3>4
  <2>4. QED
    BY <1>4, <2>1, <2>2, <2>3
<1>11. ASSUME NEW k \in 1..Len(s), NEW n \in nodes, above[n] = s[k]
       PROVE  \E m \in 1..Len(s) : m < k /\ n = s[m]
  <2>1. CASE k \in 1..Len(c)
    <3>1. above[n] = c[k]
      BY <1>3, <1>11, <2>1
    <3>2. PICK m \in 1..Len(c) : m < k /\ n = c[m]
      BY <1>2, <2>1, <3>1 DEF ChildrenFirst
    <3>3. m \in 1..Len(s) /\ s[m] = c[m]
      BY <1>2, <1>3
    <3>4. QED
      BY <3>2, <3>3
  <2>2. CASE k = Len(c) + 1
    <3>1. above[n] = i /\ i \in nodes \cup {Top}
      BY <1>3, <1>11, <2>2
    <3>2. n \in Members(c)
      BY <3>1, ChildrenBelow
    <3>3. PICK m \in 1..Len(c) : n = c[m]
      BY <3>2 DEF Members
    <3>4. m \in 1..Len(s) /\ s[m] = c[m] /\ m < k
      BY <1>2, <1>3, <2>2
    <3>5. QED
      BY <3>3, <3>4
  <2>3. ASSUME NEW j \in 1..Len(r), k = (Len(c) + 1) + j
        PROVE  \E m \in 1..Len(s) : m < k /\ n = s[m]
    <3>1. above[n] = r[j]
      BY <1>3, <1>11, <2>3
    <3>2. PICK h \in 1..Len(r) : h < j /\ n = r[h]
      BY <1>2, <3>1 DEF ChildrenFirst
    <3> DEFINE m == (Len(c) + 1) + h
    <3>3. m \in 1..Len(s) /\ s[m] = r[h] /\ m < k
      BY <1>2, <1>3, <2>3, <3>2
    <3> HIDE DEF m
    <3>4. QED
      BY <3>2, <3>3
  <2>4. QED
    BY <1>4, <2>1, <2>2, <2>3
<1>12. ChildrenFirst(s)
  BY <1>3, <1>10, <1>11 DEF ChildrenFirst
<1>13. ASSUME NEW x \in Members(s)
       PROVE  lo[i] <= lo[x] /\ hi[x] < hi[above[i]] /\ (next[x] # None => next[x] \in Members(s))
  <2>1. CASE x \in Members(c)
    BY <1>1, <1>5, <1>7, <2>1
  <2>2. CASE x = i
    BY <1>1, <1>7, <2>2 DEF Grove
  <2>3. CASE x \in Members(r)
    BY <1>1, <1>6, <1>7, <2>3
  <2>4. QED
    BY <1>7, <2>1, <2>2, <2>3
<1>14. i \in Members(s)
  BY <1>7
<1>15. QED
  BY <1>12, <1>13, <1>14 DEF Grove

LEMMA BranchesAreGroves ==
  ASSUME NEW lo, NEW hi, NEW max, Intervals(lo, hi, max)
  PROVE  /\ \A i \in nodes : Grove(Branches[i], i, lo[i], hi[above[i]], lo, hi)
         /\ \A i \in nodes \cup {Top} : Grove(Branches[childs[i]], childs[i], lo[i] + 1, hi[i], lo, hi)
<1> DEFINE T == {i \in nodes : Grove(Branches[i], i, lo[i], hi[above[i]], lo, hi)}
<1>1. ASSUME NEW i \in nodes \cup {Top}, childs[i] # None => childs[i] \in T
      PROVE  Grove(Branches[childs[i]], childs[i], lo[i] + 1, hi[i], lo, hi)
  <2>1. CASE childs[i] = None
    <3>1. Branches[childs[i]] = <<>>
      BY <2>1, BranchesAre
    <3>2. QED
      BY <2>1, <3>1, EmptyGrove
  <2>2. ASSUME childs[i] # None, NEW x, x = childs[i], NEW c, c = Branches[x]
        PROVE  Grove(c, x, lo[i] + 1, hi[i], lo, hi)
    <3>1. x \in nodes /\ above[x] = i /\ lo[i] < lo[x]
      BY <2>2, ForestFacts
    <3>2. Grove(c, x, lo[x], hi[i], lo, hi)
      BY <1>1, <2>2, <3>1
    <3>3. lo[i] \in Nat /\ lo[x] \in Nat
      BY <3>1, IntervalTypes
    <3>4. \A y \in Members(c) : lo[i] + 1 <= lo[y]
      <4>1. ASSUME NEW y \in Members(c)
            PROVE  lo[i] + 1 <= lo[y]
        <5>1. c \in Seq(nodes)
          BY <3>2 DEF Grove, ChildrenFirst
        <5>2. y \in nodes
          BY <5>1, ElementOfSeq DEF Members
        <5>3. lo[y] \in Nat
          BY <5>2, IntervalTypes
        <5>4. lo[x] <= lo[y]
          BY <3>2 DEF Grove
        <5>5. QED
          BY <3>1, <3>3, <5>3, <5>4
      <4>2. QED
        BY <4>1
    <3>5. QED
      BY <3>2, <3>4 DEF Grove
  <2>3. QED
    BY <2>1, <2>2
<1>2. ASSUME NEW i \in nodes, next[i] # None => next[i] \in T
      PROVE  Grove(Branches[next[i]], next[i], hi[i] + 1, hi[above[i]], lo, hi)
  <2>1. CASE next[i] = None
    <3>1. Branches[next[i]] = <<>>
      BY <2>1, BranchesAre
    <3>2. QED
      BY <2>1, <3>1, EmptyGrove
  <2>2. ASSUME next[i] # None, NEW x, x = next[i], NEW c, c = Branches[x]
        PROVE  Grove(c, x, hi[i] + 1, hi[above[i]], lo, hi)
    <3>1. x \in nodes /\ above[x] = above[i] /\ hi[i] < lo[x]
      BY <2>2, ForestFacts
    <3>2. Grove(c, x, lo[x], hi[above[i]], lo, hi)
      BY <1>2, <2>2, <3>1
    <3>3. hi[i] \in Nat /\ lo[x] \in Nat
      BY <3>1, IntervalTypes
    <3>4. \A y \in Members(c) : hi[i] + 1 <= lo[y]
      <4>1. ASSUME NEW y \in Members(c)
            PROVE  hi[i] + 1 <= lo[y]
        <5>1. c \in Seq(nodes)
          BY <3>2 DEF Grove, ChildrenFirst
        <5>2. y \in nodes
          BY <5>1, ElementOfSeq DEF Members
        <5>3. lo[y] \in Nat
          BY <5>2, IntervalTypes
        <5>4. lo[x] <= lo[y]
          BY <3>2 DEF Grove
        <5>5. QED
          BY <3>1, <3>3, <5>3, <5>4
      <4>2. QED
        BY <4>1
    <3>5. QED
      BY <3>2, <3>4 DEF Grove
  <2>3. QED
    BY <2>1, <2>2
<1>3. ASSUME NEW i \in nodes, \A j \in nodes : lo[j] > lo[i] => j \in T
      PROVE  i \in T
  <2>1. childs[i] # None => childs[i] \in T
    <3>1. ASSUME childs[i] # None
          PROVE  childs[i] \in nodes /\ lo[i] < lo[childs[i]]
      BY <3>1, ForestFacts
    <3>2. ASSUME childs[i] # None
          PROVE  lo[childs[i]] > lo[i]
      <4>1. lo[i] \in Nat /\ lo[childs[i]] \in Nat
        BY <3>1, <3>2, IntervalTypes
      <4>2. QED
        BY <3>1, <3>2, <4>1
    <3>3. QED
      BY <1>3, <3>1, <3>2
  <2>2. next[i] # None => next[i] \in T
    <3>1. ASSUME next[i] # None
          PROVE  next[i] \in nodes /\ hi[i] < lo[next[i]] /\ lo[i] < hi[i]
      BY <3>1, ForestFacts
    <3>2. ASSUME next[i] # None
          PROVE  lo[next[i]] > lo[i]
      <4>1. lo[i] \in Nat /\ hi[i] \in Nat /\ lo[next[i]] \in Nat
        BY <3>1, <3>2, IntervalTypes
      <4>2. QED
        BY <3>1, <3>2, <4>1
    <3>3. QED
      BY <1>3, <3>1, <3>2
  <2>3. Branches[i] = (Branches[childs[i]] \o <<i>>) \o Branches[next[i]]
    BY BranchesAre, IntervalTypes
  <2>4. Grove(Branches[childs[i]], childs[i], lo[i] + 1, hi[i], lo, hi)
    BY <1>1, <2>1
  <2>5. Grove(Branches[next[i]], next[i], hi[i] + 1, hi[above[i]], lo, hi)
    BY <1>2, <2>2
  <2>6. Grove(Branches[i], i, lo[i], hi[above[i]], lo, hi)
    BY <2>3, <2>4, <2>5, JoinBranch
  <2>7. QED
    BY <2>6
<1>4. \A i \in nodes : i \in T
  <2> HIDE DEF T
  <2>1. QED
    BY <1>3, LaterFirst
<1>5. \A i \in nodes \cup {Top} : childs[i] # None => childs[i] \in T
  BY <1>4, ForestFacts
<1>6. QED
  BY <1>1, <1>4, <1>5

(* What is freed with a node, and what the destructor frees.                *)
LEMMA FreedOrders ==
  ASSUME ForestInv
  PROVE  /\ \A node \in nodes : ChildrenFirst(Branch(node))
         /\ ChildrenFirst(BranchesFrom(childs[Top]))
<1>1. PICK lo, hi, max : Nested(LinksNow, nodes, lo, hi, max)
  BY DEF ForestInv
<1>2. Intervals(lo, hi, max)
  BY <1>1 DEF Intervals, ForestInv
<1>3. \A i \in nodes \cup {Top} : Grove(Branches[childs[i]], childs[i], lo[i] + 1, hi[i], lo, hi)
  BY <1>2, BranchesAreGroves
<1>4. ChildrenFirst(BranchesFrom(childs[Top]))
  <2>1. Grove(Branches[childs[Top]], childs[Top], lo[Top] + 1, hi[Top], lo, hi)
    BY <1>3
  <2>2. QED
    BY <2>1, ReadOff DEF Grove
<1>5. ASSUME NEW node \in nodes, NEW c, c = Branches[childs[node]], NEW s, s = Branch(node)
      PROVE  ChildrenFirst(s)
  <2>1. Grove(c, childs[node], lo[node] + 1, hi[node], lo, hi)
    BY <1>3, <1>5
  <2>2. ChildrenFirst(c) /\ c \in Seq(nodes) /\ Len(c) \in Nat
    BY <2>1 DEF Grove, ChildrenFirst
  <2>3. s = c \o <<node>>
    BY <1>5, ReadOff DEF Branch
  <2>4. /\ s \in Seq(nodes) /\ Len(s) = Len(c) + 1
        /\ \A k \in 1..Len(c) : s[k] = c[k]
        /\ s[Len(c) + 1] = node
    <3>1. c \o <<node>> \in Seq(nodes)
      BY <2>2
    <3>2. s = (c \o <<node>>) \o <<>>
      BY <2>3, <3>1, ConcatEmptySeq
    <3>3. <<>> \in Seq(nodes) /\ Len(<<>>) = 0
      OBVIOUS
    <3>4. PICK r : r = <<>>
      OBVIOUS
    <3>5. r \in Seq(nodes) /\ Len(r) = 0 /\ s = (c \o <<node>>) \o r
      BY <3>2, <3>3, <3>4
    <3>6. /\ s \in Seq(nodes) /\ Len(s) = (Len(c) + 1) + Len(r)
          /\ \A k \in 1..Len(c) : s[k] = c[k]
          /\ s[Len(c) + 1] = node
      BY <2>2, <3>5, BranchParts
    <3>7. QED
      BY <2>2, <3>5, <3>6
  <2>5. \A k \in 1..Len(s) : k \in 1..Len(c) \/ k = Len(c) + 1
    BY <2>2, <2>4
  <2>6. node \notin Members(c)
    <3>1. lo[node] \in Nat
      BY <1>2, IntervalTypes
    <3>2. node \in Members(c) => lo[node] + 1 <= lo[node]
      BY <2>1 DEF Grove
    <3>3. QED
      BY <3>1, <3>2
  <2>7. \A k \in 1..Len(c) : s[k] # node
    BY <2>4, <2>6 DEF Members
  <2>8. ASSUME NEW k \in 1..Len(s), NEW m \in 1..Len(s), s[k] = s[m]
        PROVE  k = m
    <3>1. CASE k \in 1..Len(c)
      <4>1. m # Len(c) + 1
        BY <2>4, <2>7, <2>8, <3>1
      <4>2. m \in 1..Len(c)
        BY <2>5, <4>1
      <4>3. c[k] = c[m]
        BY <2>4, <2>8, <3>1, <4>2
      <4>4. QED
        BY <2>2, <3>1, <4>2, <4>3 DEF ChildrenFirst
    <3>2. CASE k = Len(c) + 1
      BY <2>4, <2>5, <2>7, <2>8, <3>2
    <3>3. QED
      BY <2>5, <3>1, <3>2
  <2>9. ASSUME NEW k \in 1..Len(s), NEW n \in nodes, above[n] = s[k]
        PROVE  \E m \in 1..Len(s) : m < k /\ n = s[m]
    <3>1. CASE k \in 1..Len(c)
      <4>1. above[n] = c[k]
        BY <2>4, <2>9, <3>1
      <4>2. PICK m \in 1..Len(c) : m < k /\ n = c[m]
        BY <2>2, <3>1, <4>1 DEF ChildrenFirst
      <4>3. m \in 1..Len(s) /\ s[m] = c[m]
        BY <2>2, <2>4
      <4>4. QED
        BY <4>2, <4>3
    <3>2. CASE k = Len(c) + 1
      <4>1. above[n] = node /\ node \in nodes \cup {Top}
        BY <2>4, <2>9, <3>2
      <4>2. n \in Members(c)
        BY <1>2, <2>1, <4>1, ChildrenBelow
      <4>3. PICK m \in 1..Len(c) : n = c[m]
        BY <4>2 DEF Members
      <4>4. m \in 1..Len(s) /\ s[m] = c[m] /\ m < k
        BY <2>2, <2>4, <3>2
      <4>5. QED
        BY <4>3, <4>4
    <3>3. QED
      BY <2>5, <3>1, <3>2
  <2>10. QED
    BY <2>4, <2>8, <2>9 DEF ChildrenFirst
<1>6. QED
  BY <1>4, <1>5

LEMMA FreesOfTrees ==
  ASSUME ForestInv,
         CallerFrees \/ genericTree_Destructor
           \/ \E node \in Nodes : genericTree_Remove(node) \/ genericTree_Delete(node)
  PROVE  ForestInv'
<1>1. CASE CallerFrees
  <2>1. LinksNow' = LinksNow /\ UNCHANGED <<nodes, label, itemAmount>> /\ clients' = nodes
    BY <1>1 DEF CallerFrees, LinksNow
  <2>2. ForestLinked'
    BY <2>1 DEF ForestInv, ForestLinked
  <2>3. \E lo, hi, max : Nested(LinksNow', nodes', lo, hi, max)
    BY <2>1 DEF ForestInv
  <2>4. QED
    BY <2>1, <2>2, <2>3 DEF ForestInv
<1>2. CASE genericTree_Destructor
  <2>1. ChildrenFirst(BranchesFrom(childs[Top]))
    BY FreedOrders
  <2>2. Freed(BranchesFrom(childs[Top]), ToSet(BranchesFrom(childs[Top])))
    BY <1>2 DEF genericTree_Destructor
  <2>3. QED
    BY <2>1, <2>2, FreedKeeps
<1>3. ASSUME NEW node \in Nodes, genericTree_Remove(node)
      PROVE  ForestInv'
  <2>1. ChildrenFirst(Branch(node))
    BY <1>3, FreedOrders DEF genericTree_Remove
  <2>2. Freed(Branch(node), ToSet(Branch(node)) \ {node})
    BY <1>3 DEF genericTree_Remove
  <2>3. ToSet(Branch(node)) \ {node} \subseteq ToSet(Branch(node))
    OBVIOUS
  <2>4. QED
    BY <2>1, <2>2, <2>3, FreedKeeps
<1>4. ASSUME NEW node \in Nodes, genericTree_Delete(node)
      PROVE  ForestInv'
  <2>1. ChildrenFirst(Branch(node))
    BY <1>4, FreedOrders DEF genericTree_Delete
  <2>2. Freed(Branch(node), ToSet(Branch(node)))
    BY <1>4 DEF genericTree_Delete
  <2>3. QED
    BY <2>1, <2>2, FreedKeeps
<1>5. QED
  BY <1>1, <1>2, <1>3, <1>4

-----------------------------------------------------------------------------
(* Where a node goes on a level.                                            *)
Between(L, live, labels, level, n, before, after) ==
  /\ before = None => after = L.childs[level]
  /\ before # None => /\ before \in live /\ L.above[before] = level
                      /\ L.next[before] = after /\ labels[before] <= n
  /\ after # None => /\ after \in live /\ L.above[after] = level
                     /\ L.prev[after] = before /\ n <= labels[after]

WithNode(W, L, node, level, before, after) ==
  /\ W \in LinkFields
  /\ \A i \in Places :
       /\ W.above[i] = IF i = node THEN level ELSE L.above[i]
       /\ W.childs[i] = IF i = level /\ before = None THEN node ELSE L.childs[i]
       /\ W.next[i] = IF i = node THEN after ELSE IF i = before THEN node ELSE L.next[i]
       /\ W.prev[i] = IF i = node THEN before ELSE IF i = after THEN node ELSE L.prev[i]

Insertable(L, live, labels, lo, hi, max, node, level, n, before, after) ==
  /\ live \subseteq Nodes /\ labels \in [Nodes -> Nat] /\ n \in Nat
  /\ Linked(L, live, labels) /\ Nested(L, live, lo, hi, max)
  /\ node \in Nodes /\ node \notin live /\ level \in live \cup {Top}
  /\ Between(L, live, labels, level, n, before, after)

LEMMA InsertLinks ==
  ASSUME NEW L, NEW live, NEW labels, NEW lo, NEW hi, NEW max, NEW node, NEW level, NEW n,
         NEW before, NEW after,
         Insertable(L, live, labels, lo, hi, max, node, level, n, before, after),
         NEW W, WithNode(W, L, node, level, before, after),
         NEW more, more = live \cup {node},
         NEW marks, marks[node] = n, \A i \in live : marks[i] = labels[i]
  PROVE  Linked(W, more, marks)
<1>0. /\ live \subseteq Nodes /\ labels \in [Nodes -> Nat] /\ n \in Nat
      /\ node \in Nodes /\ node \notin live /\ level \in live \cup {Top}
  BY DEF Insertable
<1> USE <1>0
<1>1. \A i \in more \cup {Top} : i \in Places /\ i # None
  BY AmountIsNatural DEF Nodes, Places, Top, None
<1>2. Top \notin live /\ node # Top /\ node # level
  BY AmountIsNatural DEF Nodes, Top
<1>3. Linked(L, live, labels)
  BY DEF Insertable
<1>4. /\ before = None => after = L.childs[level]
      /\ before # None => /\ before \in live /\ L.above[before] = level
                          /\ L.next[before] = after /\ labels[before] <= n
      /\ after # None => /\ after \in live /\ L.above[after] = level
                         /\ L.prev[after] = before /\ n <= labels[after]
  BY DEF Insertable, Between
<1>5. \A i \in Places :
        /\ W.above[i] = IF i = node THEN level ELSE L.above[i]
        /\ W.childs[i] = IF i = level /\ before = None THEN node ELSE L.childs[i]
        /\ W.next[i] = IF i = node THEN after ELSE IF i = before THEN node ELSE L.next[i]
        /\ W.prev[i] = IF i = node THEN before ELSE IF i = after THEN node ELSE L.prev[i]
  BY DEF WithNode
<1>6. L.next[node] = None /\ L.childs[node] = None
  BY <1>1, <1>2, <1>3 DEF Linked
<1>7. ASSUME NEW l \in more \cup {Top}, W.childs[l] # None
      PROVE  /\ W.childs[l] \in more /\ W.above[W.childs[l]] = l /\ W.prev[W.childs[l]] = None
  <2>1. CASE l = level /\ before = None
    BY <1>1, <1>5, <2>1
  <2>2. CASE ~ (l = level /\ before = None)
    <3>1. W.childs[l] = L.childs[l] /\ l \in live \cup {Top}
      BY <1>1, <1>5, <1>6, <1>7, <2>2
    <3>2. L.childs[l] \in live /\ L.above[L.childs[l]] = l /\ L.prev[L.childs[l]] = None
      BY <1>3, <1>7, <3>1 DEF Linked
    <3>3. L.childs[l] # after
      BY <1>1, <1>4, <2>2, <3>2
    <3>4. QED
      BY <1>1, <1>5, <3>1, <3>2, <3>3
  <2>3. QED
    BY <2>1, <2>2
<1>8. ASSUME NEW i \in more, W.next[i] # None
      PROVE  /\ W.next[i] \in more /\ W.above[W.next[i]] = W.above[i] /\ W.prev[W.next[i]] = i
             /\ marks[i] <= marks[W.next[i]]
  <2>1. CASE i = node
    <3>1. W.next[i] = after /\ after \in live /\ after # node /\ W.above[i] = level
      BY <1>1, <1>4, <1>5, <1>8, <2>1
    <3>2. W.above[after] = level /\ W.prev[after] = node
      BY <1>1, <1>4, <1>5, <3>1
    <3>3. QED
      BY <1>1, <1>4, <2>1, <3>1, <3>2
  <2>2. CASE i # node /\ i = before
    <3>1. W.next[i] = node /\ i \in live /\ i # None
      BY <1>1, <1>5, <2>2
    <3>2. W.above[node] = level /\ W.above[i] = level /\ W.prev[node] = i
      BY <1>1, <1>4, <1>5, <2>2, <3>1
    <3>3. marks[i] <= marks[node]
      BY <1>4, <2>2, <3>1
    <3>4. QED
      BY <3>1, <3>2, <3>3
  <2>3. CASE i # node /\ i # before
    <3>1. W.next[i] = L.next[i] /\ i \in live /\ W.above[i] = L.above[i]
      BY <1>1, <1>5, <2>3
    <3>2. /\ L.next[i] \in live /\ L.above[L.next[i]] = L.above[i] /\ L.prev[L.next[i]] = i
          /\ labels[i] <= labels[L.next[i]]
      BY <1>3, <1>8, <3>1 DEF Linked
    <3>3. L.next[i] # after
      BY <1>1, <1>4, <2>3, <3>2
    <3>4. QED
      BY <1>1, <1>5, <3>1, <3>2, <3>3
  <2>4. QED
    BY <2>1, <2>2, <2>3
<1>9. ASSUME NEW i \in more
      PROVE  /\ W.above[i] \in more \cup {Top}
             /\ W.prev[i] = None => W.childs[W.above[i]] = i
             /\ W.prev[i] # None => W.prev[i] \in more /\ W.next[W.prev[i]] = i
  <2>1. CASE i = node
    <3>1. W.above[i] = level /\ W.prev[i] = before
      BY <1>1, <1>5, <2>1
    <3>2. before = None => W.childs[level] = node
      BY <1>1, <1>5
    <3>3. before # None => before \in live /\ W.next[before] = node
      BY <1>1, <1>4, <1>5
    <3>4. QED
      BY <2>1, <3>1, <3>2, <3>3
  <2>2. CASE i # node
    <3>1. i \in live /\ W.above[i] = L.above[i] /\ L.above[i] \in live \cup {Top}
      BY <1>1, <1>3, <1>5, <2>2 DEF Linked
    <3>2. CASE i = after
      <4>1. W.prev[i] = node /\ node # None /\ W.next[node] = i
        BY <1>1, <1>5, <2>2, <3>2
      <4>2. QED
        BY <3>1, <4>1
    <3>3. CASE i # after
      <4>1. W.prev[i] = L.prev[i]
        BY <1>1, <1>5, <2>2, <3>3
      <4>2. ASSUME L.prev[i] = None
            PROVE  W.childs[W.above[i]] = i
        <5>1. L.childs[L.above[i]] = i
          BY <1>3, <3>1, <4>2 DEF Linked
        <5>2. ~ (L.above[i] = level /\ before = None)
          BY <1>4, <3>3, <5>1
        <5>3. QED
          BY <1>1, <1>5, <3>1, <5>1, <5>2
      <4>3. ASSUME L.prev[i] # None
            PROVE  L.prev[i] \in more /\ W.next[L.prev[i]] = i
        <5>1. L.prev[i] \in live /\ L.next[L.prev[i]] = i
          BY <1>3, <3>1, <4>3 DEF Linked
        <5>2. L.prev[i] # before
          BY <1>1, <1>4, <3>3, <5>1
        <5>3. QED
          BY <1>1, <1>5, <5>1, <5>2
      <4>4. QED
        BY <3>1, <4>1, <4>2, <4>3
    <3>4. QED
      BY <3>2, <3>3
  <2>3. QED
    BY <2>1, <2>2
<1>10. W.next[Top] = None
  <2>1. Top # before /\ Top \in Places
    BY <1>1, <1>2, <1>4
  <2>2. QED
    BY <1>2, <1>3, <1>5, <2>1 DEF Linked
<1>11. ASSUME NEW i \in Places \ (more \cup {Top})
       PROVE  W.next[i] = None /\ W.childs[i] = None
  <2>1. i # None
    BY AmountIsNatural DEF Places, None
  <2>2. i # node /\ i # level /\ i # before /\ i \notin live \cup {Top}
    BY <1>4, <2>1
  <2>3. QED
    BY <1>3, <1>5, <2>2 DEF Linked
<1>12. W \in LinkFields
  BY DEF WithNode
<1>13. QED
  BY <1>7, <1>8, <1>9, <1>10, <1>11, <1>12 DEF Linked

(* The intervals are stretched to make room for that of the new node.       *)
LEMMA InsertNests ==
  ASSUME NEW L, NEW live, NEW labels, NEW lo, NEW hi, NEW max, NEW node, NEW level, NEW n,
         NEW before, NEW after,
         Insertable(L, live, labels, lo, hi, max, node, level, n, before, after),
         NEW W, WithNode(W, L, node, level, before, after),
         NEW more, more = live \cup {node}
  PROVE  \E lo2, hi2, max2 : Nested(W, more, lo2, hi2, max2)
<1>0. /\ live \subseteq Nodes /\ labels \in [Nodes -> Nat] /\ n \in Nat
      /\ node \in Nodes /\ node \notin live /\ level \in live \cup {Top}
  BY DEF Insertable
<1> USE <1>0
<1>1. \A i \in more \cup {Top} : i \in Places /\ i # None
  BY AmountIsNatural DEF Nodes, Places, Top, None
<1>2. Top \notin live /\ node # Top /\ node # level
  BY AmountIsNatural DEF Nodes, Top
<1>3. Linked(L, live, labels) /\ Nested(L, live, lo, hi, max)
  BY DEF Insertable
<1>4. /\ before = None => after = L.childs[level]
      /\ before # None => before \in live /\ L.above[before] = level /\ L.next[before] = after
      /\ after # None => after \in live /\ L.above[after] = level /\ L.prev[after] = before
  BY DEF Insertable, Between
<1>5. \A i \in Places :
        /\ W.above[i] = IF i = node THEN level ELSE L.above[i]
        /\ W.next[i] = IF i = node THEN after ELSE IF i = before THEN node ELSE L.next[i]
  BY DEF WithNode
<1>6. /\ max \in Nat /\ lo \in [Places -> 0..max] /\ hi \in [Places -> 0..max]
      /\ \A i \in live \cup {Top} : lo[i] < hi[i]
      /\ \A i \in live :
           /\ L.above[i] \in live \cup {Top}
           /\ lo[L.above[i]] < lo[i] /\ hi[i] < hi[L.above[i]]
           /\ L.next[i] # None => L.next[i] \in live /\ hi[i] < lo[L.next[i]]
  BY <1>3 DEF Linked, Nested
<1>7. \A i \in Places : lo[i] \in Nat /\ hi[i] \in Nat /\ lo[i] <= max /\ hi[i] <= max
  BY <1>6
<1> DEFINE x == IF before = None THEN 3 * lo[level] ELSE 3 * hi[before]
<1>8. /\ x \in Nat /\ x <= 3 * max
      /\ 3 * lo[level] < x + 1 /\ x + 2 < 3 * hi[level]
      /\ before # None => 3 * hi[before] < x + 1
      /\ after # None => x + 2 < 3 * lo[after]
  <2>1. level \in Places /\ lo[level] \in Nat /\ hi[level] \in Nat /\ lo[level] < hi[level]
        /\ lo[level] <= max
    BY <1>1, <1>6, <1>7
  <2>2. CASE before = None
    <3>1. x = 3 * lo[level]
      BY <2>2
    <3>2. after # None => lo[after] \in Nat /\ lo[level] < lo[after]
      BY <1>1, <1>4, <1>6, <1>7
    <3> HIDE DEF x
    <3>3. QED
      BY <1>6, <2>1, <2>2, <3>1, <3>2
  <2>3. CASE before # None
    <3>1. x = 3 * hi[before]
      BY <2>3
    <3>2. before \in live /\ lo[before] \in Nat /\ hi[before] \in Nat /\ hi[before] <= max
      BY <1>1, <1>4, <1>7, <2>3
    <3>3. lo[before] < hi[before] /\ lo[level] < lo[before] /\ hi[before] < hi[level]
      BY <1>4, <1>6, <2>3, <3>2
    <3>4. after # None => lo[after] \in Nat /\ hi[before] < lo[after]
      BY <1>1, <1>4, <1>6, <1>7, <2>3
    <3> HIDE DEF x
    <3>5. QED
      BY <1>6, <2>1, <2>3, <3>1, <3>2, <3>3, <3>4
  <2>4. QED
    BY <2>2, <2>3
<1> HIDE DEF x
<1> DEFINE low == [i \in Places |-> IF i = node THEN x + 1 ELSE 3 * lo[i]]
           high == [i \in Places |-> IF i = node THEN x + 2 ELSE 3 * hi[i]]
           most == 3 * max + 3
<1>9. /\ \A i \in Places : i # node => low[i] = 3 * lo[i] /\ high[i] = 3 * hi[i]
      /\ low[node] = x + 1 /\ high[node] = x + 2
  BY <1>1
<1>10. /\ most \in Nat
       /\ low \in [Places -> 0..most] /\ high \in [Places -> 0..most]
  <2>1. \A i \in Places : 3 * lo[i] \in 0..most /\ 3 * hi[i] \in 0..most
    BY <1>6, <1>7
  <2>2. x + 1 \in 0..most /\ x + 2 \in 0..most
    BY <1>6, <1>8
  <2> HIDE DEF most
  <2>3. low \in [Places -> 0..most] /\ high \in [Places -> 0..most]
    BY <2>1, <2>2
  <2>4. QED
    BY <1>6, <2>3 DEF most
<1> HIDE DEF low, high, most
<1>11. ASSUME NEW i \in more \cup {Top}
       PROVE  low[i] < high[i]
  <2>1. CASE i = node
    BY <1>8, <1>9, <2>1
  <2>2. CASE i # node
    <3>1. i \in live \cup {Top} /\ i \in Places
      BY <1>1, <2>2
    <3>2. low[i] = 3 * lo[i] /\ high[i] = 3 * hi[i]
      BY <1>9, <2>2, <3>1
    <3>3. lo[i] < hi[i] /\ lo[i] \in Nat /\ hi[i] \in Nat
      BY <1>6, <1>7, <3>1
    <3>4. QED
      BY <3>2, <3>3
  <2>3. QED
    BY <2>1, <2>2
<1>12. ASSUME NEW i \in more
       PROVE  /\ low[W.above[i]] < low[i] /\ high[i] < high[W.above[i]]
              /\ W.next[i] # None => high[i] < low[W.next[i]]
  <2>1. CASE i = node
    <3>1. W.above[i] = level /\ W.next[i] = after /\ level \in Places
      BY <1>1, <1>5, <2>1
    <3>2. low[level] = 3 * lo[level] /\ high[level] = 3 * hi[level]
      BY <1>2, <1>9, <3>1
    <3>3. low[i] = x + 1 /\ high[i] = x + 2
      BY <1>9, <2>1
    <3>4. after # None => low[after] = 3 * lo[after]
      BY <1>1, <1>4, <1>9
    <3>5. QED
      BY <1>8, <3>1, <3>2, <3>3, <3>4
  <2>2. CASE i # node
    <3>1. i \in live /\ i \in Places /\ W.above[i] = L.above[i] /\ L.above[i] \in live \cup {Top}
      BY <1>1, <1>5, <1>6, <2>2
    <3>2. L.above[i] \in Places /\ L.above[i] # node
      BY <1>1, <1>2, <3>1
    <3>3. /\ low[i] = 3 * lo[i] /\ high[i] = 3 * hi[i]
          /\ low[W.above[i]] = 3 * lo[L.above[i]] /\ high[W.above[i]] = 3 * hi[L.above[i]]
      BY <1>9, <2>2, <3>1, <3>2
    <3>4. /\ lo[i] \in Nat /\ hi[i] \in Nat /\ lo[L.above[i]] \in Nat /\ hi[L.above[i]] \in Nat
          /\ lo[L.above[i]] < lo[i] /\ hi[i] < hi[L.above[i]]
      BY <1>6, <1>7, <3>1, <3>2
    <3>5. low[W.above[i]] < low[i] /\ high[i] < high[W.above[i]]
      BY <3>3, <3>4
    <3>6. ASSUME i = before
          PROVE  high[i] < low[W.next[i]]
      <4>1. W.next[i] = node /\ before # None
        BY <1>1, <1>5, <2>2, <3>1, <3>6
      <4>2. QED
        BY <1>8, <1>9, <3>3, <3>6, <4>1
    <3>7. ASSUME i # before, W.next[i] # None
          PROVE  high[i] < low[W.next[i]]
      <4>1. W.next[i] = L.next[i]
        BY <1>5, <2>2, <3>1, <3>7
      <4>2. L.next[i] \in live /\ hi[i] < lo[L.next[i]]
        BY <1>6, <3>1, <3>7, <4>1
      <4>3. L.next[i] \in Places /\ lo[L.next[i]] \in Nat /\ low[L.next[i]] = 3 * lo[L.next[i]]
        BY <1>1, <1>7, <1>9, <4>2
      <4>4. QED
        BY <3>3, <3>4, <4>1, <4>2, <4>3
    <3>8. QED
      BY <3>5, <3>6, <3>7
  <2>3. QED
    BY <2>1, <2>2
<1>13. Nested(W, more, low, high, most)
  BY <1>10, <1>11, <1>12 DEF Nested
<1>14. QED
  BY <1>13

LEMMA FirstLater ==
  ASSUME NEW level, NEW n, NEW s, s = Level(level), s \in Seq(nodes),
         NEW at, at = FirstNotBefore(level, n)
  PROVE  \/ at = None /\ \A k \in 1..Len(s) : ~ (label[s[k]] >= n)
         \/ \E k \in 1..Len(s) : /\ at = s[k] /\ label[s[k]] >= n
                                 /\ \A m \in 1..Len(s) : label[s[m]] >= n => k <= m
<1> DEFINE later == {k \in DOMAIN s : label[s[k]] >= n}
<1>1. at = IF later = {} THEN None ELSE s[CHOOSE k \in later : \A m \in later : k <= m]
  BY DEF FirstNotBefore
<1>2. DOMAIN s = 1..Len(s) /\ Len(s) \in Nat
  OBVIOUS
<1>3. CASE later = {}
  BY <1>1, <1>2, <1>3
<1>4. CASE later # {}
  <2>1. \E k \in later : \A m \in later : k <= m
    <3>1. later \subseteq Nat
      BY <1>2
    <3> HIDE DEF later
    <3>2. QED
      BY <1>4, <3>1, LeastNumber
  <2>2. PICK k \in later : at = s[k] /\ \A m \in later : k <= m
    <3> HIDE DEF later
    <3>1. QED
      BY <1>1, <1>4, <2>1
  <2>3. k \in 1..Len(s) /\ label[s[k]] >= n /\ \A m \in 1..Len(s) : label[s[m]] >= n => k <= m
    BY <1>2, <2>2
  <2>4. QED
    BY <2>2, <2>3
<1>5. QED
  BY <1>3, <1>4

LEMMA NeighboursAre ==
  ASSUME NEW lo, NEW hi, NEW max, Intervals(lo, hi, max), NEW level \in nodes \cup {Top},
         NEW n \in Nat, NEW both, both = Neighbours(level, n)
  PROVE  Between(LinksNow, nodes, label, level, n, both[1], both[2])
<1> DEFINE before == both[1]
           after == both[2]
<1> SUFFICES /\ before = None => after = childs[level]
             /\ before # None => /\ before \in nodes /\ above[before] = level
                                 /\ next[before] = after /\ label[before] <= n
             /\ after # None => /\ after \in nodes /\ above[after] = level
                                /\ prev[after] = before /\ n <= label[after]
  BY DEF Between, LinksNow
<1>1. PICK s : s = Level(level)
  OBVIOUS
<1>2. PICK at : at = FirstNotBefore(level, n)
  OBVIOUS
<1>3. both = IF at = None THEN <<IF s = <<>> THEN None ELSE Last(s), None>>
             ELSE IF label[at] = n THEN <<at, next[at]>>
             ELSE <<prev[at], at>>
  BY <1>1, <1>2 DEF Neighbours
<1>4. Ranked(s, level, lo)
  BY <1>1, LevelIs
<1>5. /\ s \in Seq(nodes) /\ Len(s) \in Nat
      /\ s = <<>> <=> childs[level] = None
      /\ s # <<>> => s[1] = childs[level]
      /\ \A k \in 1..Len(s) :
           /\ above[s[k]] = level
           /\ next[s[k]] = IF k = Len(s) THEN None ELSE s[k + 1]
           /\ prev[s[k]] = IF k = 1 THEN None ELSE s[k - 1]
  BY <1>4 DEF Ranked
<1>6. \A k \in 1..Len(s) : s[k] \in nodes /\ s[k] # None /\ label[s[k]] \in Nat
  <2>1. \A k \in 1..Len(s) : s[k] \in nodes
    BY <1>5, ElementOfSeq
  <2>2. \A i \in nodes : i # None /\ label[i] \in Nat
    BY ForestFacts, IntervalTypes
  <2>3. QED
    BY <2>1, <2>2
<1>7. \/ at = None /\ \A k \in 1..Len(s) : ~ (label[s[k]] >= n)
      \/ \E k \in 1..Len(s) : /\ at = s[k] /\ label[s[k]] >= n
                              /\ \A m \in 1..Len(s) : label[s[m]] >= n => k <= m
  BY <1>1, <1>2, <1>5, FirstLater
<1>8. CASE at = None
  <2>1. \A k \in 1..Len(s) : label[s[k]] <= n
    BY <1>6, <1>7, <1>8
  <2>2. CASE s = <<>>
    <3>1. before = None /\ after = None
      BY <1>3, <1>8, <2>2
    <3>2. QED
      BY <1>5, <2>2, <3>1
  <2>3. CASE s # <<>>
    <3>1. Len(s) \in 1..Len(s)
      BY <1>5, <2>3
    <3>2. before = s[Len(s)] /\ after = None
      BY <1>3, <1>8, <2>3 DEF Last
    <3>3. /\ before \in nodes /\ before # None
          /\ above[before] = level /\ next[before] = None /\ label[before] <= n
      BY <1>5, <1>6, <2>1, <3>1, <3>2
    <3>4. QED
      BY <3>2, <3>3
  <2>4. QED
    BY <2>2, <2>3
<1>9. ASSUME NEW k \in 1..Len(s), at = s[k], label[s[k]] >= n,
             \A m \in 1..Len(s) : label[s[m]] >= n => k <= m
      PROVE  /\ before = None => after = childs[level]
             /\ before # None => /\ before \in nodes /\ above[before] = level
                                 /\ next[before] = after /\ label[before] <= n
             /\ after # None => /\ after \in nodes /\ above[after] = level
                                /\ prev[after] = before /\ n <= label[after]
  <2>1. at \in nodes /\ at # None /\ label[at] \in Nat /\ above[at] = level /\ n <= label[at]
    BY <1>5, <1>6, <1>9
  <2>2. CASE label[at] = n
    <3>1. before = at /\ after = next[at]
      BY <1>3, <2>1, <2>2
    <3>2. next[at] # None =>
            /\ next[at] \in nodes /\ above[next[at]] = level /\ prev[next[at]] = at
            /\ n <= label[next[at]]
      BY <2>1, <2>2, ForestFacts
    <3>3. QED
      BY <2>1, <2>2, <3>1, <3>2
  <2>3. CASE label[at] # n
    <3>1. before = prev[at] /\ after = at
      BY <1>3, <2>1, <2>3
    <3>2. CASE k = 1
      <4>1. s # <<>>
        BY <1>5
      <4>2. prev[at] = None /\ at = childs[level]
        BY <1>5, <1>9, <3>2, <4>1
      <4>3. QED
        BY <2>1, <3>1, <4>2
    <3>3. ASSUME k # 1, NEW m, m = k - 1
          PROVE  /\ prev[at] # None /\ prev[at] \in nodes /\ above[prev[at]] = level
                 /\ next[prev[at]] = at /\ label[prev[at]] <= n
      <4>1. m \in 1..Len(s) /\ ~ (k <= m) /\ m # Len(s) /\ m + 1 = k
        <5>1. Len(s) \in Nat
          BY <1>5
        <5>2. QED
          BY <3>3, <5>1
      <4>2. prev[at] = s[m] /\ next[s[m]] = s[k] /\ above[s[m]] = level
        BY <1>5, <1>9, <3>3, <4>1
      <4>3. s[m] \in nodes /\ s[m] # None /\ label[s[m]] \in Nat
        BY <1>6, <4>1
      <4>4. ~ (label[s[m]] >= n)
        BY <1>9, <4>1
      <4>5. QED
        BY <1>9, <4>2, <4>3, <4>4
    <3>4. QED
      BY <2>1, <3>1, <3>2, <3>3
  <2>4. QED
    BY <2>2, <2>3
<1>10. QED
  BY <1>7, <1>8, <1>9

(* A new sibling is linked in where it keeps the order.                     *)
LEMMA InsertKeeps ==
  ASSUME ForestInv, NEW level \in 0..NodeAmount, NEW n \in NodeNames, genericTree_Insert(level, n)
  PROVE  ForestInv'
<1> DEFINE node == CHOOSE i \in Nodes \ nodes : \A j \in Nodes \ nodes : i <= j
           both == Neighbours(level, n)
           before == both[1]
           after == both[2]
<1>1. PICK lo, hi, max : Nested(LinksNow, nodes, lo, hi, max)
  BY DEF ForestInv
<1>2. Intervals(lo, hi, max)
  BY <1>1 DEF Intervals, ForestInv
<1>3. nodes # Nodes /\ level \in nodes \cup {Top} /\ n \in Nat
  BY GenericTreeAssumption DEF genericTree_Insert
<1>4. /\ nodes \subseteq Nodes /\ label \in [Nodes -> Nat]
      /\ above \in [Places -> Ends] /\ childs \in [Places -> Ends]
      /\ next \in [Places -> Ends] /\ prev \in [Places -> Ends]
  BY <1>2, ForestFacts
<1>5. CASE UNCHANGED <<above, childs, next, prev, label, nodes, clients, itemAmount>>
  <2>1. LinksNow' = LinksNow /\ UNCHANGED <<nodes, label, itemAmount, clients>>
    BY <1>5 DEF LinksNow
  <2>2. ForestLinked'
    BY <2>1 DEF ForestInv, ForestLinked
  <2>3. \E lo2, hi2, max2 : Nested(LinksNow', nodes', lo2, hi2, max2)
    BY <2>1 DEF ForestInv
  <2>4. QED
    BY <2>1, <2>2, <2>3 DEF ForestInv
<1>6. ASSUME /\ above' = [above EXCEPT ![node] = level]
             /\ childs' = IF before = None THEN [childs EXCEPT ![level] = node] ELSE childs
             /\ next' = [i \in 0..NodeAmount |->
                           IF i = node THEN after ELSE IF i = before THEN node ELSE next[i]]
             /\ prev' = [i \in 0..NodeAmount |->
                           IF i = node THEN before ELSE IF i = after THEN node ELSE prev[i]]
             /\ label' = [label EXCEPT ![node] = n]
             /\ nodes' = nodes \cup {node}
             /\ clients' = clients \cup {node}
             /\ itemAmount' = itemAmount + 1
      PROVE  ForestInv'
  <2>1. node \in Nodes /\ node \notin nodes
    <3>0. Nodes \subseteq Nat
      BY DEF Nodes
    <3>1. Nodes \ nodes \subseteq Nat /\ Nodes \ nodes # {}
      BY <1>3, <1>4, <3>0
    <3>2. \E i \in Nodes \ nodes : \A j \in Nodes \ nodes : i <= j
      BY <3>1, LeastNumber
    <3>3. node \in Nodes \ nodes
      BY <3>2
    <3> HIDE DEF node
    <3>4. QED
      BY <3>3
  <2>2. Between(LinksNow, nodes, label, level, n, before, after)
    <3>1. \A w : w = both => Between(LinksNow, nodes, label, level, n, w[1], w[2])
      <4> HIDE DEF both
      <4>1. ASSUME NEW w, w = Neighbours(level, n)
            PROVE  Between(LinksNow, nodes, label, level, n, w[1], w[2])
        BY <1>2, <1>3, <4>1, NeighboursAre
      <4>2. QED
        BY <4>1 DEF both
    <3>2. QED
      BY <3>1
  <2> HIDE DEF both, node
  <2>3. /\ level \in Places /\ node \in Places /\ nodes \subseteq Places
        /\ None \in Ends /\ Places \subseteq Ends /\ Places = 0..NodeAmount
    <3>1. level \in Places /\ node \in Places /\ nodes \subseteq Places
      BY <1>4, <2>1, AmountIsNatural DEF Places, Nodes
    <3>2. None \in Ends /\ Places \subseteq Ends /\ Places = 0..NodeAmount
      BY AmountIsNatural DEF Places, Ends, None
    <3>3. QED
      BY <3>1, <3>2
  <2>4. before \in Ends /\ after \in Ends
    <3>1. before # None => before \in nodes
      BY <2>2 DEF Between
    <3>2. after # None => after \in nodes
      BY <2>2 DEF Between
    <3> HIDE DEF before, after
    <3>3. QED
      BY <2>3, <3>1, <3>2
  <2> HIDE DEF before, after
  <2>5. WithNode(LinksNow', LinksNow, node, level, before, after)
    <3>1. /\ above' \in [Places -> Ends]
          /\ \A i \in Places : above'[i] = IF i = node THEN level ELSE above[i]
      BY <1>4, <1>6, <2>3
    <3>2. /\ childs' \in [Places -> Ends]
          /\ \A i \in Places : childs'[i] = IF i = level /\ before = None THEN node ELSE childs[i]
      BY <1>4, <1>6, <2>3
    <3>3. /\ next' \in [Places -> Ends]
          /\ \A i \in Places : next'[i] = IF i = node THEN after ELSE IF i = before THEN node ELSE next[i]
      BY <1>4, <1>6, <2>3, <2>4
    <3>4. /\ prev' \in [Places -> Ends]
          /\ \A i \in Places : prev'[i] = IF i = node THEN before ELSE IF i = after THEN node ELSE prev[i]
      BY <1>4, <1>6, <2>3, <2>4
    <3>5. LinksNow' = [above |-> above', childs |-> childs', next |-> next', prev |-> prev']
      BY DEF LinksNow
    <3>6. LinksNow' \in LinkFields
      BY <3>1, <3>2, <3>3, <3>4, <3>5 DEF LinkFields
    <3>7. QED
      BY <3>1, <3>2, <3>3, <3>4, <3>5, <3>6 DEF WithNode, LinksNow
  <2>6. Insertable(LinksNow, nodes, label, lo, hi, max, node, level, n, before, after)
    BY <1>1, <1>3, <1>4, <2>1, <2>2 DEF Insertable, ForestInv, ForestLinked
  <2>7. label' \in [Nodes -> Nat] /\ label'[node] = n /\ \A i \in nodes : label'[i] = label[i]
    BY <1>3, <1>4, <1>6, <2>1
  <2>8. nodes' = nodes \cup {node}
    BY <1>6
  <2>9. Linked(LinksNow', nodes', label')
    BY <2>5, <2>6, <2>7, <2>8, InsertLinks
  <2>10. \E lo2, hi2, max2 : Nested(LinksNow', nodes', lo2, hi2, max2)
    BY <2>5, <2>6, <2>8, InsertNests
  <2>11. ForestLinked'
    BY <1>4, <2>1, <2>7, <2>8, <2>9 DEF ForestLinked
  <2>12. Cardinality(nodes') = itemAmount'
    <3>1. IsFiniteSet(Nodes)
      BY AmountIsNatural, FS_Interval DEF Nodes
    <3>2. IsFiniteSet(nodes)
      BY <1>4, <3>1, FS_Subset
    <3>3. Cardinality(nodes \cup {node}) = Cardinality(nodes) + 1
      BY <2>1, <3>2, FS_AddElement
    <3>4. QED
      BY <1>6, <3>3 DEF ForestInv
  <2>13. nodes' \subseteq clients'
    BY <1>6 DEF ForestInv
  <2>14. QED
    BY <2>10, <2>11, <2>12, <2>13 DEF ForestInv
<1>7. QED
  BY <1>5, <1>6 DEF genericTree_Insert

LEMMA EmptyForest == genericTree_Constructor => ForestInv
<1> SUFFICES ASSUME genericTree_Constructor
             PROVE  ForestInv
  OBVIOUS
<1>1. /\ above = Unlinked /\ childs = Unlinked /\ next = Unlinked /\ prev = Unlinked
      /\ label = [i \in Nodes |-> 0] /\ nodes = {} /\ clients = {} /\ itemAmount = 0
  BY DEF genericTree_Constructor
<1>2. Unlinked \in [Places -> Ends] /\ Top \in Places /\ \A i \in Places : Unlinked[i] = None
  BY AmountIsNatural DEF Unlinked, Places, Ends, None, Top
<1>3. LinksNow \in LinkFields
  BY <1>1, <1>2 DEF LinksNow, LinkFields
<1>4. Linked(LinksNow, nodes, label)
  BY <1>1, <1>2, <1>3 DEF Linked, LinksNow
<1>5. ForestLinked
  BY <1>1, <1>4 DEF ForestLinked
<1> DEFINE low == [i \in Places |-> 0]
           high == [i \in Places |-> 1]
<1>6. Nested(LinksNow, nodes, low, high, 1)
  BY <1>1, <1>2 DEF Nested
<1>7. Cardinality(nodes) = itemAmount
  BY <1>1, FS_EmptySet
<1>8. \E lo, hi, max : Nested(LinksNow, nodes, lo, hi, max)
  BY <1>6
<1>9. QED
  BY <1>1, <1>5, <1>7, <1>8 DEF ForestInv

LEMMA ForestStep == ForestInv /\ [ForestNext]_forestVars => ForestInv'
<1> SUFFICES ASSUME ForestInv, [ForestNext]_forestVars
             PROVE  ForestInv'
  OBVIOUS
<1>1. ASSUME NEW level \in 0..NodeAmount, NEW n \in NodeNames, genericTree_Insert(level, n)
      PROVE  ForestInv'
  BY <1>1, InsertKeeps
<1>2. CASE CallerFrees \/ genericTree_Destructor
             \/ \E node \in Nodes : genericTree_Remove(node) \/ genericTree_Delete(node)
  BY <1>2, FreesOfTrees
<1>3. CASE UNCHANGED forestVars
  <2>1. LinksNow' = LinksNow /\ UNCHANGED <<nodes, label, itemAmount, clients>>
    BY <1>3 DEF LinksNow, forestVars
  <2>2. ForestLinked'
    BY <2>1 DEF ForestInv, ForestLinked
  <2>3. \E lo, hi, max : Nested(LinksNow', nodes', lo, hi, max)
    BY <2>1 DEF ForestInv
  <2>4. QED
    BY <2>1, <2>2, <2>3 DEF ForestInv
<1>4. QED
  BY <1>1, <1>2, <1>3 DEF ForestNext

(* Whatever is inserted, removed and deleted in whatever order, every node  *)
(* is on one level, under its parent, the levels stay in the order of the   *)
(* names with links both ways that agree, and itemAmount counts the nodes.  *)
THEOREM LevelsAlwaysHold == ForestSpec => []LevelsHoldNodes
<1>1. genericTree_Constructor => ForestInv
  BY EmptyForest
<1>2. ForestInv /\ [ForestNext]_forestVars => ForestInv'
  BY ForestStep
<1>3. ForestInv => LevelsHoldNodes
  BY LevelsFollow
<1>4. QED
  BY <1>1, <1>2, <1>3, PTL DEF ForestSpec

-----------------------------------------------------------------------------
(* The members S of a tree have the positions 1..n, and the branch of each  *)
(* is the block of the positions from lo to hi: s is the row of them.       *)
Numbered(S, n, s, pos, lo, hi) ==
  /\ S \subseteq Items /\ n \in Nat /\ s \in [1..n -> S]
  /\ pos \in [Items -> Nat] /\ lo \in [Items -> Nat] /\ hi \in [Items -> Nat]
  /\ \A i \in S : /\ 1 <= lo[i] /\ lo[i] <= pos[i] /\ pos[i] <= hi[i] /\ hi[i] <= n
                  /\ s[pos[i]] = i
  /\ \A p \in 1..n : pos[s[p]] = p

(* The links are those of a tree of such blocks: the block of a child is    *)
(* the part of its parent's on its side of the parent.                     *)
Drawn(root, parent, left, right, S, n, pos, lo, hi) ==
  /\ root \in 0..NodeMax /\ parent \in Links /\ left \in Links /\ right \in Links
  /\ n = 0 => root = Nobody
  /\ n # 0 => root \in S /\ parent[root] = Nobody /\ lo[root] = 1 /\ hi[root] = n
  /\ \A i \in S : left[i] = Nobody => lo[i] = pos[i]
  /\ \A i \in S : right[i] = Nobody => hi[i] = pos[i]
  /\ \A i \in S : left[i] # Nobody =>
       left[i] \in S /\ parent[left[i]] = i /\ lo[left[i]] = lo[i] /\ hi[left[i]] = pos[i] - 1
  /\ \A i \in S : right[i] # Nobody =>
       right[i] \in S /\ parent[right[i]] = i /\ lo[right[i]] = pos[i] + 1 /\ hi[right[i]] = hi[i]
  /\ \A i \in S : parent[i] = Nobody => i = root
  /\ \A i \in S : parent[i] # Nobody =>
       parent[i] \in S /\ (left[parent[i]] = i \/ right[parent[i]] = i)
  /\ \A i \in Items \ S : parent[i] = Nobody /\ left[i] = Nobody /\ right[i] = Nobody

Shape(t, S, n, s, pos, lo, hi) ==
  /\ t \in Trees
  /\ Numbered(S, n, s, pos, lo, hi)
  /\ Drawn(t.root, t.parent, t.left, t.right, S, n, pos, lo, hi)

LEMMA ItemsAreNumbers ==
  /\ NodeMax \in Nat /\ Nobody \notin Items /\ Nobody \in 0..NodeMax
  /\ \A i \in Items : i \in 0..NodeMax /\ i # Nobody
  /\ \A i \in 0..NodeMax : i # Nobody => i \in Items
  BY BinaryTreeAssumption DEF Items, Nobody

(* What the numbers say of a branch.                                        *)
LEMMA NumberFacts ==
  ASSUME NEW t, NEW S, NEW n, NEW s, NEW pos, NEW lo, NEW hi, Shape(t, S, n, s, pos, lo, hi)
  PROVE  /\ n \in Nat /\ S \subseteq Items
         /\ \A i \in Items : pos[i] \in Nat /\ lo[i] \in Nat /\ hi[i] \in Nat
         /\ \A i \in S : /\ 1 <= lo[i] /\ lo[i] <= pos[i] /\ pos[i] <= hi[i] /\ hi[i] <= n
                         /\ s[pos[i]] = i /\ i \in Items
         /\ \A p \in 1..n : s[p] \in S /\ pos[s[p]] = p
         /\ s \in [1..n -> S]
  BY DEF Shape, Numbered

LEMMA LinkFacts ==
  ASSUME NEW t, NEW S, NEW n, NEW s, NEW pos, NEW lo, NEW hi, Shape(t, S, n, s, pos, lo, hi)
  PROVE  /\ t["left"] = t.left /\ t["right"] = t.right
         /\ t.root \in 0..NodeMax
         /\ t.left \in [Items -> 0..NodeMax] /\ t.right \in [Items -> 0..NodeMax]
         /\ t.parent \in [Items -> 0..NodeMax]
         /\ n = 0 => t.root = Nobody
         /\ n # 0 => t.root \in S /\ t.parent[t.root] = Nobody /\ lo[t.root] = 1 /\ hi[t.root] = n
         /\ \A i \in S : t.left[i] = Nobody => lo[i] = pos[i]
         /\ \A i \in S : t.right[i] = Nobody => hi[i] = pos[i]
         /\ \A i \in S : t.left[i] # Nobody =>
              /\ t.left[i] \in S /\ t.parent[t.left[i]] = i
              /\ lo[t.left[i]] = lo[i] /\ hi[t.left[i]] = pos[i] - 1
         /\ \A i \in S : t.right[i] # Nobody =>
              /\ t.right[i] \in S /\ t.parent[t.right[i]] = i
              /\ lo[t.right[i]] = pos[i] + 1 /\ hi[t.right[i]] = hi[i]
         /\ \A i \in S : t.parent[i] = Nobody => i = t.root
         /\ \A i \in S : t.parent[i] # Nobody =>
              t.parent[i] \in S /\ (t.left[t.parent[i]] = i \/ t.right[t.parent[i]] = i)
         /\ \A i \in Items \ S : t.parent[i] = Nobody /\ t.left[i] = Nobody /\ t.right[i] = Nobody
  BY DEF Shape, Drawn, Links

(* The links down lead to smaller branches, those up to larger ones.        *)
Span(S, lo, hi) ==
  [i \in 0..NodeMax |-> IF i \in S THEN (hi[i] - lo[i]) + 2 ELSE IF i = Nobody THEN 0 ELSE 1]
Rise(S, n, lo, hi) ==
  [i \in 0..NodeMax |-> IF i \in S THEN (n - (hi[i] - lo[i])) + 1 ELSE IF i = Nobody THEN 0 ELSE 1]

LEMMA SpansShrink ==
  ASSUME NEW t, NEW S, NEW n, NEW s, NEW pos, NEW lo, NEW hi, Shape(t, S, n, s, pos, lo, hi)
  PROVE  /\ Span(S, lo, hi) \in [0..NodeMax -> Nat]
         /\ \A i \in Items, side \in Sides :
              /\ t[side][i] \in 0..NodeMax
              /\ Span(S, lo, hi)[t[side][i]] < Span(S, lo, hi)[i]
<1>1. \A i \in S : i \in 0..NodeMax /\ i # Nobody /\ (hi[i] - lo[i]) + 2 \in Nat /\ (hi[i] - lo[i]) + 2 > 1
  BY NumberFacts, ItemsAreNumbers
<1>2. Span(S, lo, hi) \in [0..NodeMax -> Nat]
  BY <1>1 DEF Span
<1>3. \A i \in S : Span(S, lo, hi)[i] = (hi[i] - lo[i]) + 2
  BY <1>1 DEF Span
<1>4. Span(S, lo, hi)[Nobody] = 0 /\ \A i \in Items \ S : Span(S, lo, hi)[i] = 1
  BY <1>1, ItemsAreNumbers DEF Span
<1>5. ASSUME NEW i \in Items
      PROVE  /\ t.left[i] \in 0..NodeMax /\ Span(S, lo, hi)[t.left[i]] < Span(S, lo, hi)[i]
             /\ t.right[i] \in 0..NodeMax /\ Span(S, lo, hi)[t.right[i]] < Span(S, lo, hi)[i]
  <2>1. t.left[i] \in 0..NodeMax /\ t.right[i] \in 0..NodeMax
    BY LinkFacts
  <2>2. CASE i \notin S
    BY <1>4, <2>1, <2>2, LinkFacts
  <2>3. CASE i \in S
    <3>1. t.left[i] # Nobody =>
            /\ t.left[i] \in S /\ lo[t.left[i]] = lo[i] /\ hi[t.left[i]] = pos[i] - 1
      BY <2>3, LinkFacts
    <3>2. t.right[i] # Nobody =>
            /\ t.right[i] \in S /\ lo[t.right[i]] = pos[i] + 1 /\ hi[t.right[i]] = hi[i]
      BY <2>3, LinkFacts
    <3>3. lo[i] \in Nat /\ hi[i] \in Nat /\ pos[i] \in Nat /\ lo[i] <= pos[i] /\ pos[i] <= hi[i]
      BY <2>3, NumberFacts
    <3>4. QED
      BY <1>3, <1>4, <2>1, <2>3, <3>1, <3>2, <3>3
  <2>4. QED
    BY <2>1, <2>2, <2>3
<1>6. QED
  BY <1>2, <1>5, LinkFacts DEF Sides

LEMMA RisesShrink ==
  ASSUME NEW t, NEW S, NEW n, NEW s, NEW pos, NEW lo, NEW hi, Shape(t, S, n, s, pos, lo, hi)
  PROVE  /\ Rise(S, n, lo, hi) \in [0..NodeMax -> Nat]
         /\ \A i \in Items :
              /\ t.parent[i] \in 0..NodeMax
              /\ Rise(S, n, lo, hi)[t.parent[i]] < Rise(S, n, lo, hi)[i]
<1>1. \A i \in S : i \in 0..NodeMax /\ i # Nobody /\ (n - (hi[i] - lo[i])) + 1 \in Nat /\ (n - (hi[i] - lo[i])) + 1 > 1
  BY NumberFacts, ItemsAreNumbers
<1>2. Rise(S, n, lo, hi) \in [0..NodeMax -> Nat]
  BY <1>1 DEF Rise
<1>3. \A i \in S : Rise(S, n, lo, hi)[i] = (n - (hi[i] - lo[i])) + 1
  BY <1>1 DEF Rise
<1>4. Rise(S, n, lo, hi)[Nobody] = 0 /\ \A i \in Items \ S : Rise(S, n, lo, hi)[i] = 1
  BY <1>1, ItemsAreNumbers DEF Rise
<1>5. ASSUME NEW i \in Items
      PROVE  t.parent[i] \in 0..NodeMax /\ Rise(S, n, lo, hi)[t.parent[i]] < Rise(S, n, lo, hi)[i]
  <2>1. t.parent[i] \in 0..NodeMax
    BY LinkFacts
  <2>2. CASE i \notin S
    BY <1>4, <2>1, <2>2, LinkFacts
  <2>3. CASE i \in S /\ t.parent[i] = Nobody
    BY <1>1, <1>3, <1>4, <2>1, <2>3
  <2>4. ASSUME i \in S, NEW p, p = t.parent[i], p # Nobody
        PROVE  Rise(S, n, lo, hi)[p] < Rise(S, n, lo, hi)[i]
    <3>1. p \in S /\ (t.left[p] = i \/ t.right[p] = i)
      BY <2>4, LinkFacts
    <3>2. i # Nobody
      BY <1>1, <2>4
    <3>3. (lo[i] = lo[p] /\ hi[i] = pos[p] - 1) \/ (lo[i] = pos[p] + 1 /\ hi[i] = hi[p])
      BY <3>1, <3>2, LinkFacts
    <3>4. /\ n \in Nat /\ lo[i] \in Nat /\ hi[i] \in Nat /\ lo[i] <= hi[i]
          /\ lo[p] \in Nat /\ hi[p] \in Nat /\ pos[p] \in Nat /\ lo[p] <= pos[p] /\ pos[p] <= hi[p]
      <4>1. i \in Items /\ p \in Items
        BY <2>4, <3>1, NumberFacts
      <4>2. lo[i] <= pos[i] /\ pos[i] <= hi[i]
        BY <2>4, NumberFacts
      <4>3. lo[p] <= pos[p] /\ pos[p] <= hi[p]
        BY <3>1, NumberFacts
      <4>4. /\ n \in Nat /\ lo[i] \in Nat /\ hi[i] \in Nat /\ pos[i] \in Nat
            /\ lo[p] \in Nat /\ hi[p] \in Nat /\ pos[p] \in Nat
        BY <4>1, NumberFacts
      <4>5. QED
        BY <4>2, <4>3, <4>4
    <3>5. QED
      BY <1>3, <2>4, <3>1, <3>3, <3>4
  <2>5. QED
    BY <2>1, <2>2, <2>3, <2>4
<1>6. QED
  BY <1>2, <1>5

(* Induction: over the branches from the smaller to the larger, and back.   *)
LEMMA SmallerFirst ==
  ASSUME NEW t, NEW S, NEW n, NEW s, NEW pos, NEW lo, NEW hi, Shape(t, S, n, s, pos, lo, hi), NEW T,
         \A i \in S : (t.left[i] # Nobody => t.left[i] \in T) /\ (t.right[i] # Nobody => t.right[i] \in T) => i \in T
  PROVE  \A i \in S : i \in T
<1> DEFINE U == {m \in Nat : \A i \in S : Span(S, lo, hi)[i] <= m => i \in T}
<1>1. \A i \in S : i \in Items /\ Span(S, lo, hi)[i] \in Nat /\ Span(S, lo, hi)[i] > 0
  <2>1. \A i \in S : i \in Items /\ i \in 0..NodeMax
    BY NumberFacts, ItemsAreNumbers
  <2>2. \A i \in S : Span(S, lo, hi)[i] \in Nat
    BY <2>1, SpansShrink
  <2>3. ASSUME NEW i \in S
        PROVE  Span(S, lo, hi)[i] > 0
    <3>1. "left" \in Sides
      BY DEF Sides
    <3>2. t["left"][i] \in 0..NodeMax /\ Span(S, lo, hi)[t["left"][i]] < Span(S, lo, hi)[i]
      BY <2>1, <3>1, SpansShrink
    <3>3. Span(S, lo, hi)[t["left"][i]] \in Nat
      BY <3>2, SpansShrink
    <3>4. QED
      BY <2>2, <3>2, <3>3
  <2>4. QED
    BY <2>1, <2>2, <2>3
<1>2. 0 \in U
  BY <1>1
<1>3. ASSUME NEW m \in Nat, m \in U
      PROVE  m + 1 \in U
  <2>1. ASSUME NEW i \in S, Span(S, lo, hi)[i] <= m + 1
        PROVE  i \in T
    <3>1. ASSUME NEW side \in Sides, NEW j, j = t[side][i], j \in S
          PROVE  j \in T
      <4>1. Span(S, lo, hi)[j] < Span(S, lo, hi)[i]
        BY <1>1, <3>1, SpansShrink
      <4>2. Span(S, lo, hi)[j] <= m
        BY <1>1, <2>1, <3>1, <4>1
      <4>3. QED
        BY <1>3, <3>1, <4>2
    <3>2. "left" \in Sides /\ "right" \in Sides /\ t["left"][i] = t.left[i] /\ t["right"][i] = t.right[i]
      BY LinkFacts DEF Sides
    <3>3. (t.left[i] # Nobody => t.left[i] \in S) /\ (t.right[i] # Nobody => t.right[i] \in S)
      BY LinkFacts
    <3>4. (t.left[i] # Nobody => t.left[i] \in T) /\ (t.right[i] # Nobody => t.right[i] \in T)
      BY <3>1, <3>2, <3>3
    <3>5. QED
      BY <3>4
  <2>2. QED
    BY <2>1
<1> HIDE DEF U
<1>4. \A m \in Nat : m \in U
  BY <1>2, <1>3, AllNumbers
<1>5. QED
  BY <1>1, <1>4 DEF U

LEMMA LargerFirst ==
  ASSUME NEW t, NEW S, NEW n, NEW s, NEW pos, NEW lo, NEW hi, Shape(t, S, n, s, pos, lo, hi), NEW T,
         \A i \in S : (t.parent[i] # Nobody => t.parent[i] \in T) => i \in T
  PROVE  \A i \in S : i \in T
<1> DEFINE U == {m \in Nat : \A i \in S : Rise(S, n, lo, hi)[i] <= m => i \in T}
<1>1. \A i \in S : i \in Items /\ Rise(S, n, lo, hi)[i] \in Nat /\ Rise(S, n, lo, hi)[i] > 0
  <2>1. \A i \in S : i \in Items /\ i \in 0..NodeMax
    BY NumberFacts, ItemsAreNumbers
  <2>2. \A i \in S : Rise(S, n, lo, hi)[i] \in Nat
    BY <2>1, RisesShrink
  <2>3. ASSUME NEW i \in S
        PROVE  Rise(S, n, lo, hi)[i] > 0
    <3>1. t.parent[i] \in 0..NodeMax /\ Rise(S, n, lo, hi)[t.parent[i]] < Rise(S, n, lo, hi)[i]
      BY <2>1, RisesShrink
    <3>2. Rise(S, n, lo, hi)[t.parent[i]] \in Nat
      BY <3>1, RisesShrink
    <3>3. QED
      BY <2>2, <3>1, <3>2
  <2>4. QED
    BY <2>1, <2>2, <2>3
<1>2. 0 \in U
  BY <1>1
<1>3. ASSUME NEW m \in Nat, m \in U
      PROVE  m + 1 \in U
  <2>1. ASSUME NEW i \in S, Rise(S, n, lo, hi)[i] <= m + 1
        PROVE  i \in T
    <3>1. ASSUME NEW j, j = t.parent[i], j # Nobody
          PROVE  j \in T
      <4>1. j \in S
        BY <3>1, LinkFacts
      <4>2. Rise(S, n, lo, hi)[j] < Rise(S, n, lo, hi)[i]
        BY <1>1, <3>1, RisesShrink
      <4>3. Rise(S, n, lo, hi)[j] <= m
        BY <1>1, <2>1, <4>1, <4>2
      <4>4. QED
        BY <1>3, <4>1, <4>3
    <3>2. QED
      BY <3>1
  <2>2. QED
    BY <2>1
<1> HIDE DEF U
<1>4. \A m \in Nat : m \in U
  BY <1>2, <1>3, AllNumbers
<1>5. QED
  BY <1>1, <1>4 DEF U

-----------------------------------------------------------------------------
(* The functions that End, Step, Visited, InOrder, Place and Search read.   *)
EndGo(links) == CHOOSE h : h = [i \in Items |-> IF links[i] = Nobody THEN i ELSE h[links[i]]]

UpGo(tree, ahead) ==
  CHOOSE h : h = [i \in Items |->
    IF tree.parent[i] = Nobody THEN Nobody
    ELSE IF tree[ahead][tree.parent[i]] = i THEN h[tree.parent[i]]
    ELSE tree.parent[i]]

LEMMA TreeReadOff ==
  /\ \A tree, item, side : End(tree, item, side) = IF item = Nobody THEN Nobody ELSE EndGo(tree[side])[item]
  /\ \A tree, item, ahead :
       Step(tree, item, ahead) =
         IF tree[ahead][item] # Nobody THEN End(tree, tree[ahead][item], Other(ahead))
         ELSE UpGo(tree, ahead)[item]
  BY Zenon DEF End, EndGo, Step, UpGo

LEMMA EndGoes ==
  ASSUME NEW t, NEW S, NEW n, NEW s, NEW pos, NEW lo, NEW hi, Shape(t, S, n, s, pos, lo, hi),
         NEW side \in Sides, NEW links, links = t[side]
  PROVE  \A i \in Items : EndGo(links)[i] = IF links[i] = Nobody THEN i ELSE EndGo(links)[links[i]]
<1> SUFFICES ASSUME NEW x \in Items
             PROVE  EndGo(links)[x] = IF links[x] = Nobody THEN x ELSE EndGo(links)[links[x]]
  OBVIOUS
<1> DEFINE size == [i \in Items |-> Span(S, lo, hi)[i]]
           onward == [i \in Items |-> IF links[i] = Nobody THEN i ELSE links[i]]
           made == [i \in Items |-> [r \in Items |-> IF links[i] = Nobody THEN i ELSE r]]
           Body(h) == [i \in Items |-> IF links[i] = Nobody THEN i ELSE h[links[i]]]
<1>1. \A i \in Items : /\ links[i] \in 0..NodeMax /\ i \in 0..NodeMax /\ Span(S, lo, hi)[i] \in Nat
                       /\ Span(S, lo, hi)[links[i]] < Span(S, lo, hi)[i]
  BY SpansShrink, ItemsAreNumbers
<1>2. \A i \in Items : links[i] # Nobody => links[i] \in Items
  BY <1>1, ItemsAreNumbers
<1>3. size \in [Items -> Nat] /\ onward \in [Items -> Items] /\ made \in [Items -> [Items -> Items]]
  BY <1>1, <1>2
<1>4. ASSUME NEW i \in Items
      PROVE  Stops(i, Items, Items, size, onward, made)
  <2>1. CASE links[i] = Nobody
    BY <2>1 DEF Stops
  <2>2. CASE links[i] # Nobody
    <3>1. size[onward[i]] < size[i]
      BY <1>1, <1>2, <2>2
    <3>2. QED
      BY <3>1 DEF Stops
  <2>3. QED
    BY <2>1, <2>2
<1>5. \E h : Recurs(h, Items, Items, onward, made)
  <2> HIDE DEF size, onward, made
  <2>1. QED
    BY <1>3, <1>4, TailRecursion
<1>6. ASSUME NEW h, Recurs(h, Items, Items, onward, made)
      PROVE  h = Body(h)
  <2>1. h \in [Items -> Items] /\ \A i \in Items : h[i] = made[i][h[onward[i]]]
    BY <1>6 DEF Recurs
  <2>2. \A i \in Items : h[i] = IF links[i] = Nobody THEN i ELSE h[links[i]]
    <3>1. \A i \in Items : onward[i] \in Items /\ h[onward[i]] \in Items
      BY <1>3, <2>1
    <3>2. QED
      BY <2>1, <3>1
  <2>3. QED
    BY <2>1, <2>2
<1>7. EndGo(links) = CHOOSE h : h = Body(h)
  BY DEF EndGo
<1>8. EndGo(links) = Body(EndGo(links))
  <2> HIDE DEF Body, size, onward, made
  <2>1. QED
    BY <1>5, <1>6, <1>7
<1>9. QED
  BY <1>8

LEMMA UpGoes ==
  ASSUME NEW t, NEW S, NEW n, NEW s, NEW pos, NEW lo, NEW hi, Shape(t, S, n, s, pos, lo, hi),
         NEW ahead \in Sides
  PROVE  \A i \in Items : UpGo(t, ahead)[i] =
           IF t.parent[i] = Nobody THEN Nobody
           ELSE IF t[ahead][t.parent[i]] = i THEN UpGo(t, ahead)[t.parent[i]] ELSE t.parent[i]
<1> SUFFICES ASSUME NEW x \in Items
             PROVE  UpGo(t, ahead)[x] =
                      IF t.parent[x] = Nobody THEN Nobody
                      ELSE IF t[ahead][t.parent[x]] = x THEN UpGo(t, ahead)[t.parent[x]] ELSE t.parent[x]
  OBVIOUS
<1> DEFINE R == 0..NodeMax
           size == [i \in Items |-> Rise(S, n, lo, hi)[i]]
           Rises(i) == t.parent[i] # Nobody /\ t[ahead][t.parent[i]] = i
           onward == [i \in Items |-> IF Rises(i) THEN t.parent[i] ELSE i]
           made == [i \in Items |-> [r \in R |-> IF Rises(i) THEN r ELSE t.parent[i]]]
           Body(h) == [i \in Items |->
             IF t.parent[i] = Nobody THEN Nobody
             ELSE IF t[ahead][t.parent[i]] = i THEN h[t.parent[i]] ELSE t.parent[i]]
<1>1. \A i \in Items : /\ t.parent[i] \in R /\ i \in R /\ Rise(S, n, lo, hi)[i] \in Nat
                       /\ Rise(S, n, lo, hi)[t.parent[i]] < Rise(S, n, lo, hi)[i]
  BY RisesShrink, ItemsAreNumbers
<1>2. \A i \in Items : t.parent[i] # Nobody => t.parent[i] \in Items
  BY <1>1, ItemsAreNumbers
<1>3. size \in [Items -> Nat] /\ onward \in [Items -> Items] /\ made \in [Items -> [R -> R]] /\ Nobody \in R
  BY <1>1, <1>2, ItemsAreNumbers
<1>4. ASSUME NEW i \in Items
      PROVE  Stops(i, Items, R, size, onward, made)
  <2>1. CASE ~ Rises(i)
    BY <2>1 DEF Stops
  <2>2. CASE Rises(i)
    <3>1. size[onward[i]] < size[i]
      BY <1>1, <1>2, <2>2
    <3>2. QED
      BY <3>1 DEF Stops
  <2>3. QED
    BY <2>1, <2>2
<1>5. \E h : Recurs(h, Items, R, onward, made)
  <2> HIDE DEF size, onward, made, R
  <2>1. QED
    BY <1>3, <1>4, TailRecursion
<1>6. ASSUME NEW h, Recurs(h, Items, R, onward, made)
      PROVE  h = Body(h)
  <2>1. h \in [Items -> R] /\ \A i \in Items : h[i] = made[i][h[onward[i]]]
    BY <1>6 DEF Recurs
  <2>2. \A i \in Items : h[i] = IF t.parent[i] = Nobody THEN Nobody
                                ELSE IF t[ahead][t.parent[i]] = i THEN h[t.parent[i]] ELSE t.parent[i]
    <3>1. \A i \in Items : onward[i] \in Items /\ h[onward[i]] \in R
      <4> HIDE DEF onward, R
      <4>1. QED
        BY <1>3, <2>1
    <3>2. \A i \in Items : h[i] = IF Rises(i) THEN h[t.parent[i]] ELSE t.parent[i]
      BY <2>1, <3>1
    <3>3. QED
      BY <3>2
  <2>3. QED
    BY <2>1, <2>2
<1>7. UpGo(t, ahead) = CHOOSE h : h = Body(h)
  BY DEF UpGo
<1>8. UpGo(t, ahead) = Body(UpGo(t, ahead))
  <2> HIDE DEF Body, size, onward, made, R
  <2>1. QED
    BY <1>5, <1>6, <1>7
<1>9. QED
  BY <1>8

(* The ends of a branch are at the ends of its block.                       *)
LEMMA EndAt ==
  ASSUME NEW t, NEW S, NEW n, NEW s, NEW pos, NEW lo, NEW hi, Shape(t, S, n, s, pos, lo, hi),
         NEW i \in S
  PROVE  End(t, i, "left") = s[lo[i]] /\ End(t, i, "right") = s[hi[i]]
<1> DEFINE T == {j \in S : EndGo(t.left)[j] = s[lo[j]] /\ EndGo(t.right)[j] = s[hi[j]]}
<1>1. ASSUME NEW j \in S, t.left[j] # Nobody => t.left[j] \in T, t.right[j] # Nobody => t.right[j] \in T
      PROVE  j \in T
  <2>1. j \in Items /\ s[pos[j]] = j
    BY NumberFacts
  <2>2. "left" \in Sides /\ "right" \in Sides /\ t.left = t["left"] /\ t.right = t["right"]
    BY LinkFacts DEF Sides
  <2>3. EndGo(t.left)[j] = IF t.left[j] = Nobody THEN j ELSE EndGo(t.left)[t.left[j]]
    BY <2>1, <2>2, EndGoes
  <2>4. EndGo(t.right)[j] = IF t.right[j] = Nobody THEN j ELSE EndGo(t.right)[t.right[j]]
    BY <2>1, <2>2, EndGoes
  <2>5. EndGo(t.left)[j] = s[lo[j]]
    BY <1>1, <2>1, <2>3, LinkFacts
  <2>6. EndGo(t.right)[j] = s[hi[j]]
    BY <1>1, <2>1, <2>4, LinkFacts
  <2>7. QED
    BY <2>5, <2>6
<1>2. i \in T
  <2> HIDE DEF T
  <2>1. QED
    BY <1>1, SmallerFirst
<1>3. i # Nobody /\ t.left = t["left"] /\ t.right = t["right"]
  BY NumberFacts, LinkFacts, ItemsAreNumbers
<1>4. QED
  BY <1>2, <1>3, TreeReadOff

(* A step leads to the next position, in either direction.                  *)
LEMMA StepAt ==
  ASSUME NEW t, NEW S, NEW n, NEW s, NEW pos, NEW lo, NEW hi, Shape(t, S, n, s, pos, lo, hi)
  PROVE  /\ \A i \in S : Step(t, i, "right") = IF pos[i] < n THEN s[pos[i] + 1] ELSE Nobody
         /\ \A i \in S : Step(t, i, "left") = IF pos[i] > 1 THEN s[pos[i] - 1] ELSE Nobody
         /\ \A i \in Items \ S, ahead \in Sides : Step(t, i, ahead) = Nobody
<1> DEFINE Next(i) == IF hi[i] < n THEN s[hi[i] + 1] ELSE Nobody
           Previous(i) == IF lo[i] > 1 THEN s[lo[i] - 1] ELSE Nobody
           T == {i \in S : UpGo(t, "right")[i] = Next(i) /\ UpGo(t, "left")[i] = Previous(i)}
<1>0. "left" \in Sides /\ "right" \in Sides /\ t.left = t["left"] /\ t.right = t["right"]
  BY LinkFacts DEF Sides
<1>1. ASSUME NEW i \in S, t.parent[i] # Nobody => t.parent[i] \in T
      PROVE  i \in T
  <2>1. i \in Items /\ i # Nobody
    BY NumberFacts, ItemsAreNumbers
  <2>2. UpGo(t, "right")[i] = IF t.parent[i] = Nobody THEN Nobody
                              ELSE IF t.right[t.parent[i]] = i THEN UpGo(t, "right")[t.parent[i]] ELSE t.parent[i]
    BY <1>0, <2>1, UpGoes
  <2>3. UpGo(t, "left")[i] = IF t.parent[i] = Nobody THEN Nobody
                             ELSE IF t.left[t.parent[i]] = i THEN UpGo(t, "left")[t.parent[i]] ELSE t.parent[i]
    BY <1>0, <2>1, UpGoes
  <2>4. CASE t.parent[i] = Nobody
    <3>1. i = t.root
      BY <2>4, LinkFacts
    <3>2. n # 0
      BY <2>1, <3>1, LinkFacts
    <3>3. lo[i] = 1 /\ hi[i] = n /\ n \in Nat
      BY <3>1, <3>2, LinkFacts, NumberFacts
    <3>4. QED
      BY <2>2, <2>3, <2>4, <3>3
  <2>5. ASSUME NEW p, p = t.parent[i], p # Nobody
        PROVE  i \in T
    <3>1. p \in S /\ (t.left[p] = i \/ t.right[p] = i) /\ p \in T
      BY <1>1, <2>5, LinkFacts
    <3>2. /\ lo[p] \in Nat /\ hi[p] \in Nat /\ pos[p] \in Nat /\ n \in Nat /\ s[pos[p]] = p
          /\ 1 <= lo[p] /\ lo[p] <= pos[p] /\ pos[p] <= hi[p] /\ hi[p] <= n
      BY <3>1, NumberFacts
    <3>3. t.left[p] # t.right[p]
      <4>1. t.left[p] = i => lo[i] = lo[p]
        BY <2>1, <3>1, LinkFacts
      <4>2. t.right[p] = i => lo[i] = pos[p] + 1
        BY <2>1, <3>1, LinkFacts
      <4>3. QED
        BY <3>1, <3>2, <4>1, <4>2
    <3>4. CASE t.left[p] = i
      <4>1. lo[i] = lo[p] /\ hi[i] = pos[p] - 1
        BY <2>1, <3>1, <3>4, LinkFacts
      <4>2. Next(i) = p
        <5>1. hi[i] < n /\ hi[i] + 1 = pos[p]
          BY <3>2, <4>1
        <5>2. QED
          BY <3>2, <5>1
      <4>3. Previous(i) = Previous(p)
        BY <4>1
      <4>4. UpGo(t, "right")[i] = p /\ UpGo(t, "left")[i] = Previous(p)
        BY <2>2, <2>3, <2>5, <3>1, <3>3, <3>4
      <4>5. QED
        BY <4>2, <4>3, <4>4
    <3>5. CASE t.right[p] = i
      <4>1. hi[i] = hi[p] /\ lo[i] = pos[p] + 1
        BY <2>1, <3>1, <3>5, LinkFacts
      <4>2. Previous(i) = p
        <5>1. lo[i] > 1 /\ lo[i] - 1 = pos[p]
          BY <3>2, <4>1
        <5>2. QED
          BY <3>2, <5>1
      <4>3. Next(i) = Next(p)
        BY <4>1
      <4>4. UpGo(t, "left")[i] = p /\ UpGo(t, "right")[i] = Next(p)
        BY <2>2, <2>3, <2>5, <3>1, <3>3, <3>5
      <4>5. QED
        BY <4>2, <4>3, <4>4
    <3>6. QED
      BY <3>1, <3>4, <3>5
  <2>6. QED
    BY <2>4, <2>5
<1>2. \A i \in S : i \in T
  <2> HIDE DEF T
  <2>1. QED
    BY <1>1, LargerFirst
<1>3. ASSUME NEW i \in S
      PROVE  /\ Step(t, i, "right") = IF pos[i] < n THEN s[pos[i] + 1] ELSE Nobody
             /\ Step(t, i, "left") = IF pos[i] > 1 THEN s[pos[i] - 1] ELSE Nobody
  <2>1. /\ n \in Nat /\ lo[i] \in Nat /\ hi[i] \in Nat /\ pos[i] \in Nat
        /\ 1 <= lo[i] /\ lo[i] <= pos[i] /\ pos[i] <= hi[i] /\ hi[i] <= n
    BY NumberFacts
  <2>2. Step(t, i, "right") = IF t.right[i] # Nobody THEN End(t, t.right[i], "left") ELSE UpGo(t, "right")[i]
    BY <1>0, TreeReadOff DEF Other
  <2>3. Step(t, i, "left") = IF t.left[i] # Nobody THEN End(t, t.left[i], "right") ELSE UpGo(t, "left")[i]
    BY <1>0, TreeReadOff DEF Other
  <2>4. UpGo(t, "right")[i] = Next(i) /\ UpGo(t, "left")[i] = Previous(i)
    BY <1>2
  <2>5. ASSUME NEW r, r = t.right[i], r # Nobody
        PROVE  Step(t, i, "right") = IF pos[i] < n THEN s[pos[i] + 1] ELSE Nobody
    <3>1. r \in S /\ lo[r] = pos[i] + 1
      BY <2>5, LinkFacts
    <3>2. lo[r] <= n
      <4>1. n \in Nat /\ lo[r] \in Nat /\ hi[r] \in Nat /\ pos[r] \in Nat /\ lo[r] <= pos[r] /\ pos[r] <= hi[r] /\ hi[r] <= n
        BY <3>1, NumberFacts
      <4>2. QED
        BY <4>1
    <3>3. End(t, r, "left") = s[lo[r]]
      BY <3>1, EndAt
    <3>4. QED
      BY <2>1, <2>2, <2>5, <3>1, <3>2, <3>3
  <2>6. ASSUME NEW l, l = t.left[i], l # Nobody
        PROVE  Step(t, i, "left") = IF pos[i] > 1 THEN s[pos[i] - 1] ELSE Nobody
    <3>1. l \in S /\ hi[l] = pos[i] - 1
      BY <2>6, LinkFacts
    <3>2. hi[l] >= 1
      <4>1. lo[l] \in Nat /\ hi[l] \in Nat /\ pos[l] \in Nat /\ 1 <= lo[l] /\ lo[l] <= pos[l] /\ pos[l] <= hi[l]
        BY <3>1, NumberFacts
      <4>2. QED
        BY <4>1
    <3>3. End(t, l, "right") = s[hi[l]]
      BY <3>1, EndAt
    <3>4. QED
      BY <2>1, <2>3, <2>6, <3>1, <3>2, <3>3
  <2>7. t.right[i] = Nobody => hi[i] = pos[i]
    BY LinkFacts
  <2>8. t.left[i] = Nobody => lo[i] = pos[i]
    BY LinkFacts
  <2>9. QED
    BY <2>2, <2>3, <2>4, <2>5, <2>6, <2>7, <2>8
<1>4. ASSUME NEW i \in Items \ S, NEW ahead \in Sides
      PROVE  Step(t, i, ahead) = Nobody
  <2>1. t[ahead][i] = Nobody /\ t.parent[i] = Nobody
    BY <1>0, LinkFacts DEF Sides
  <2>2. UpGo(t, ahead)[i] = Nobody
    BY <2>1, UpGoes
  <2>3. QED
    BY <2>1, <2>2, TreeReadOff
<1>5. QED
  BY <1>3, <1>4

-----------------------------------------------------------------------------
(* The positions from a to b of a row, as a sequence.                       *)
Stretch(v, S, row, a, b) ==
  /\ v \in Seq(S)
  /\ Len(v) + a = b + 1
  /\ \A k \in 1..Len(v) : v[k] = row[(a + k) - 1]

LEMMA NoStretch ==
  ASSUME NEW S, NEW row, NEW a \in Nat, NEW b \in Nat, a = b + 1
  PROVE  Stretch(<<>>, S, row, a, b)
<1>1. <<>> \in Seq(S) /\ Len(<<>>) = 0
  OBVIOUS
<1>2. QED
  BY <1>1 DEF Stretch

LEMMA OneStretch ==
  ASSUME NEW S, NEW row, NEW a \in Nat, NEW i \in S, row[a] = i
  PROVE  Stretch(<<i>>, S, row, a, a)
<1>1. <<i>> \in Seq(S) /\ Len(<<i>>) = 1 /\ <<i>>[1] = i
  OBVIOUS
<1>2. QED
  BY <1>1 DEF Stretch

LEMMA JoinStretch ==
  ASSUME NEW S, NEW row, NEW a \in Nat, NEW m \in Nat, NEW b \in Nat, NEW u, NEW v,
         Stretch(u, S, row, a, m), Stretch(v, S, row, m + 1, b)
  PROVE  Stretch(u \o v, S, row, a, b)
<1>1. /\ u \in Seq(S) /\ v \in Seq(S) /\ Len(u) + a = m + 1 /\ Len(v) + (m + 1) = b + 1
      /\ Len(u) \in Nat /\ Len(v) \in Nat
  BY DEF Stretch
<1>2. /\ u \o v \in Seq(S) /\ Len(u \o v) = Len(u) + Len(v)
      /\ \A k \in 1..Len(u) + Len(v) : (u \o v)[k] = IF k <= Len(u) THEN u[k] ELSE v[k - Len(u)]
  BY <1>1, ConcatProperties
<1>3. ASSUME NEW k \in 1..Len(u) + Len(v)
      PROVE  (u \o v)[k] = row[(a + k) - 1]
  <2>1. CASE k <= Len(u)
    <3>1. k \in 1..Len(u)
      BY <1>1, <2>1
    <3>2. u[k] = row[(a + k) - 1]
      BY <3>1 DEF Stretch
    <3>3. QED
      BY <1>2, <2>1, <3>2
  <2>2. ASSUME k > Len(u), NEW j, j = k - Len(u)
        PROVE  (u \o v)[k] = row[(a + k) - 1]
    <3>1. j \in 1..Len(v) /\ ((m + 1) + j) - 1 = (a + k) - 1
      BY <1>1, <2>2
    <3>2. v[j] = row[((m + 1) + j) - 1]
      BY <3>1 DEF Stretch
    <3>3. (u \o v)[k] = v[j]
      BY <1>1, <1>2, <2>2
    <3>4. QED
      BY <3>1, <3>2, <3>3, Zenon
  <2>3. QED
    BY <1>1, <2>1, <2>2
<1>4. ASSUME NEW w, w = u \o v
      PROVE  Stretch(w, S, row, a, b)
  <2>1. w \in Seq(S) /\ Len(w) = Len(u) + Len(v) /\ \A k \in 1..Len(u) + Len(v) : w[k] = row[(a + k) - 1]
    BY <1>2, <1>3, <1>4
  <2>2. Len(w) + a = b + 1
    <3>1. ASSUME NEW c \in Nat, NEW d \in Nat, c + a = m + 1, d + (m + 1) = b + 1
          PROVE  (c + d) + a = b + 1
      BY <3>1
    <3>2. (Len(u) + Len(v)) + a = b + 1
      BY <1>1, <3>1
    <3>3. Len(w) = Len(u) + Len(v)
      BY <2>1
    <3>4. QED
      BY <3>2, <3>3, Zenon
  <2>3. \A k \in 1..Len(w) : w[k] = row[(a + k) - 1]
    BY <2>1, Zenon
  <2>4. QED
    BY <2>1, <2>2, <2>3 DEF Stretch
<1>5. QED
  BY <1>4

LEMMA WholeStretch ==
  ASSUME NEW S, NEW n \in Nat, NEW row \in [1..n -> S], NEW v, Stretch(v, S, row, 1, n)
  PROVE  v = row
<1>1. v \in Seq(S) /\ Len(v) + 1 = n + 1 /\ Len(v) \in Nat /\ \A k \in 1..Len(v) : v[k] = row[(1 + k) - 1]
  BY DEF Stretch
<1>2. Len(v) = n /\ v \in [1..Len(v) -> S]
  BY <1>1, LenProperties
<1>3. \A k \in 1..n : v[k] = row[k]
  <2>1. ASSUME NEW k \in 1..n
        PROVE  v[k] = row[k]
    <3>1. (1 + k) - 1 = k
      OBVIOUS
    <3>2. QED
      BY <1>1, <1>2, <3>1
  <2>2. QED
    BY <2>1
<1>4. QED
  BY <1>2, <1>3

-----------------------------------------------------------------------------
VisitGo(tree, ahead) ==
  CHOOSE h : h = [i \in 0..NodeMax |-> IF i = Nobody THEN <<>> ELSE <<i>> \o h[Step(tree, i, ahead)]]

InOrderGo(tree) ==
  CHOOSE h : h = [i \in 0..NodeMax |->
    IF i = Nobody THEN <<>> ELSE h[tree.left[i]] \o <<i>> \o h[tree.right[i]]]

LEMMA WalksReadOff ==
  /\ \A tree, ahead : Visited(tree, ahead) = VisitGo(tree, ahead)[End(tree, tree.root, Other(ahead))]
  /\ \A tree : InOrder(tree) = InOrderGo(tree)[tree.root]
  BY Zenon DEF Visited, VisitGo, InOrder, InOrderGo

(* A walk that goes through a row of the members.                          *)
Leads(t, S, n, row, rank, ahead) ==
  /\ n \in Nat /\ S \subseteq Items /\ row \in [1..n -> S]
  /\ \A i \in S : rank[i] \in 1..n
  /\ \A p \in 1..n : rank[row[p]] = p
  /\ \A i \in S : Step(t, i, ahead) = IF rank[i] < n THEN row[rank[i] + 1] ELSE Nobody
  /\ \A i \in Items \ S : Step(t, i, ahead) = Nobody

LEMMA VisitGoes ==
  ASSUME NEW t, NEW S, NEW n, NEW row, NEW rank, NEW ahead, Leads(t, S, n, row, rank, ahead)
  PROVE  /\ VisitGo(t, ahead)[Nobody] = <<>>
         /\ \A i \in Items : VisitGo(t, ahead)[i] = <<i>> \o VisitGo(t, ahead)[Step(t, i, ahead)]
<1> DEFINE D == 0..NodeMax
           R == Seq(D)
           size == [i \in D |-> IF i \in S THEN (n - rank[i]) + 1 ELSE IF i = Nobody THEN 0 ELSE 1]
           onward == [i \in D |-> IF i = Nobody THEN Nobody ELSE Step(t, i, ahead)]
           made == [i \in D |-> [r \in R |-> IF i = Nobody THEN <<>> ELSE <<i>> \o r]]
           Body(h) == [i \in D |-> IF i = Nobody THEN <<>> ELSE <<i>> \o h[Step(t, i, ahead)]]
<1>1. /\ n \in Nat /\ S \subseteq Items /\ \A i \in S : rank[i] \in 1..n /\ i # Nobody /\ i \in D
      /\ \A p \in 1..n : row[p] \in S /\ rank[row[p]] = p
  BY ItemsAreNumbers DEF Leads
<1>2. size \in [D -> Nat]
  BY <1>1
<1>3. ASSUME NEW i \in D, i # Nobody
      PROVE  Step(t, i, ahead) \in D /\ size[Step(t, i, ahead)] < size[i]
  <2>1. i \in Items /\ Nobody \in D /\ Nobody \notin S
    BY <1>3, <1>1, ItemsAreNumbers
  <2>2. CASE i \notin S
    <3>1. Step(t, i, ahead) = Nobody
      BY <2>1, <2>2 DEF Leads
    <3>2. size[Nobody] = 0 /\ size[i] = 1
      BY <1>3, <2>1, <2>2
    <3>3. QED
      BY <2>1, <3>1, <3>2
  <2>3. CASE i \in S /\ rank[i] < n
    <3>1. Step(t, i, ahead) = row[rank[i] + 1] /\ rank[i] + 1 \in 1..n
      BY <1>1, <2>3 DEF Leads
    <3>2. Step(t, i, ahead) \in S /\ rank[Step(t, i, ahead)] = rank[i] + 1
      BY <1>1, <3>1
    <3>3. size[Step(t, i, ahead)] = (n - (rank[i] + 1)) + 1 /\ size[i] = (n - rank[i]) + 1
      BY <1>1, <2>3, <3>2
    <3>4. (n - (rank[i] + 1)) + 1 < (n - rank[i]) + 1
      <4>1. rank[i] \in Nat
        BY <1>1, <2>3
      <4>2. QED
        BY <1>1, <4>1
    <3>5. Step(t, i, ahead) \in D
      BY <1>1, <3>2
    <3> HIDE DEF size, D
    <3>6. QED
      BY <3>3, <3>4, <3>5
  <2>4. CASE i \in S /\ ~ (rank[i] < n)
    <3>1. Step(t, i, ahead) = Nobody
      BY <2>4 DEF Leads
    <3>2. size[Nobody] = 0 /\ size[i] = (n - rank[i]) + 1
      BY <2>1, <2>4
    <3>3. QED
      BY <1>1, <2>1, <2>4, <3>1, <3>2
  <2>5. QED
    BY <2>2, <2>3, <2>4
<1>4. onward \in [D -> D]
  BY <1>3, ItemsAreNumbers
<1>5. made \in [D -> [R -> R]] /\ <<>> \in R
  <2>1. <<>> \in R
    OBVIOUS
  <2>2. ASSUME NEW i \in D, NEW r \in R
        PROVE  <<i>> \o r \in R
    BY ConcatProperties
  <2> HIDE DEF D, R
  <2>3. QED
    BY <2>1, <2>2
<1>6. ASSUME NEW i \in D
      PROVE  Stops(i, D, R, size, onward, made)
  <2>1. CASE i = Nobody
    BY <2>1 DEF Stops
  <2>2. CASE i # Nobody
    <3>1. onward[i] = Step(t, i, ahead)
      BY <2>2
    <3> HIDE DEF size, onward
    <3>2. size[onward[i]] < size[i]
      BY <1>3, <2>2, <3>1
    <3>3. QED
      BY <3>2 DEF Stops
  <2>3. QED
    BY <2>1, <2>2
<1>7. \E h : Recurs(h, D, R, onward, made)
  <2> HIDE DEF size, onward, made, R, D
  <2>1. QED
    BY <1>2, <1>4, <1>5, <1>6, TailRecursion
<1>8. ASSUME NEW h, Recurs(h, D, R, onward, made)
      PROVE  h = Body(h)
  <2>1. h \in [D -> R] /\ \A i \in D : h[i] = made[i][h[onward[i]]]
    BY <1>8 DEF Recurs
  <2>2. \A i \in D : onward[i] \in D /\ h[onward[i]] \in R
    <3> HIDE DEF onward, R, D
    <3>1. QED
      BY <1>4, <2>1
  <2>3. \A i \in D : h[i] = IF i = Nobody THEN <<>> ELSE <<i>> \o h[onward[i]]
    <3> HIDE DEF onward, R, D
    <3>1. QED
      BY <2>1, <2>2
  <2>4. \A i \in D : h[i] = IF i = Nobody THEN <<>> ELSE <<i>> \o h[Step(t, i, ahead)]
    <3>1. \A i \in D : i # Nobody => onward[i] = Step(t, i, ahead)
      OBVIOUS
    <3> HIDE DEF onward, R, D
    <3>2. QED
      BY <2>3, <3>1
  <2> HIDE DEF R, onward, made
  <2>5. QED
    BY <2>1, <2>4
<1>9. VisitGo(t, ahead) = CHOOSE h : h = Body(h)
  BY DEF VisitGo
<1>10. VisitGo(t, ahead) = Body(VisitGo(t, ahead))
  <2> HIDE DEF Body, size, onward, made, R, D
  <2>1. QED
    BY <1>7, <1>8, <1>9
<1> HIDE DEF size, onward, made, R
<1>11. \A i \in D : VisitGo(t, ahead)[i] = IF i = Nobody THEN <<>> ELSE <<i>> \o VisitGo(t, ahead)[Step(t, i, ahead)]
  BY <1>10
<1>12. VisitGo(t, ahead)[Nobody] = <<>>
  <2>1. Nobody \in D
    BY ItemsAreNumbers
  <2> HIDE DEF D
  <2>2. QED
    BY <1>11, <2>1, Zenon
<1>13. ASSUME NEW i \in Items
       PROVE  VisitGo(t, ahead)[i] = <<i>> \o VisitGo(t, ahead)[Step(t, i, ahead)]
  <2>1. i \in D /\ i # Nobody
    BY ItemsAreNumbers
  <2> HIDE DEF D
  <2>2. QED
    BY <1>11, <2>1, Zenon
<1>14. QED
  BY <1>12, <1>13

LEMMA WalkIsRow ==
  ASSUME NEW t, NEW S, NEW n, NEW row, NEW rank, NEW ahead, Leads(t, S, n, row, rank, ahead)
  PROVE  /\ VisitGo(t, ahead)[Nobody] = <<>>
         /\ n # 0 => VisitGo(t, ahead)[row[1]] = row
<1>0. /\ n \in Nat /\ S \subseteq Items /\ \A i \in S : rank[i] \in 1..n /\ i # Nobody /\ i \in 0..NodeMax
      /\ \A p \in 1..n : row[p] \in S /\ rank[row[p]] = p
      /\ row \in [1..n -> S]
  <2>1. /\ n \in Nat /\ S \subseteq Items /\ row \in [1..n -> S]
        /\ \A i \in S : rank[i] \in 1..n
        /\ \A p \in 1..n : rank[row[p]] = p
    BY DEF Leads
  <2>2. \A i \in S : i # Nobody /\ i \in 0..NodeMax
    BY <2>1, ItemsAreNumbers
  <2>3. \A p \in 1..n : row[p] \in S
    BY <2>1
  <2>4. QED
    BY <2>1, <2>2, <2>3
<1>1. VisitGo(t, ahead)[Nobody] = <<>>
  BY VisitGoes
<1>a. \A i \in S : VisitGo(t, ahead)[i] = <<i>> \o VisitGo(t, ahead)[Step(t, i, ahead)]
  <2>1. ASSUME NEW i \in Items
        PROVE  VisitGo(t, ahead)[i] = <<i>> \o VisitGo(t, ahead)[Step(t, i, ahead)]
    BY VisitGoes
  <2>2. \A i \in S : i \in Items
    BY <1>0
  <2>3. QED
    BY <2>1, <2>2, Zenon
<1> DEFINE U == {m \in Nat : \A p \in 1..n : p + m = n => Stretch(VisitGo(t, ahead)[row[p]], S, row, p, n)}
<1>2. 0 \in U
  <2>1. ASSUME NEW p \in 1..n, p + 0 = n
        PROVE  Stretch(VisitGo(t, ahead)[row[p]], S, row, p, n)
    <3>1. p = n /\ row[p] \in S /\ rank[row[p]] = n /\ p \in Nat
      BY <1>0, <2>1
    <3>2. Step(t, row[p], ahead) = Nobody
      BY <1>0, <3>1 DEF Leads
    <3>3. VisitGo(t, ahead)[row[p]] = <<row[p]>> \o VisitGo(t, ahead)[Nobody]
      <4>1. row[p] \in S
        BY <1>0
      <4>2. VisitGo(t, ahead)[row[p]] = <<row[p]>> \o VisitGo(t, ahead)[Step(t, row[p], ahead)]
        BY <1>a, <4>1, Zenon
      <4>3. QED
        BY <3>2, <4>2, Zenon
    <3>4. Stretch(<<row[p]>>, S, row, p, n)
      BY <3>1, OneStretch
    <3>5. Stretch(VisitGo(t, ahead)[Nobody], S, row, n + 1, n)
      BY <1>0, <1>1, NoStretch
    <3>6. Stretch(<<row[p]>> \o VisitGo(t, ahead)[Nobody], S, row, p, n)
      BY <1>0, <3>1, <3>4, <3>5, JoinStretch
    <3>7. QED
      BY <3>3, <3>6
  <2>2. QED
    BY <2>1
<1>3. ASSUME NEW m \in Nat, m \in U
      PROVE  m + 1 \in U
  <2>1. ASSUME NEW p \in 1..n, p + (m + 1) = n
        PROVE  Stretch(VisitGo(t, ahead)[row[p]], S, row, p, n)
    <3>1. p \in Nat /\ p + 1 \in 1..n /\ (p + 1) + m = n /\ p < n
      BY <1>0, <2>1
    <3>2. row[p] \in S /\ rank[row[p]] = p
      BY <1>0
    <3>3. Step(t, row[p], ahead) = row[p + 1]
      BY <3>1, <3>2 DEF Leads
    <3>4. VisitGo(t, ahead)[row[p]] = <<row[p]>> \o VisitGo(t, ahead)[row[p + 1]]
      <4>1. row[p] \in S
        BY <1>0
      <4>2. VisitGo(t, ahead)[row[p]] = <<row[p]>> \o VisitGo(t, ahead)[Step(t, row[p], ahead)]
        BY <1>a, <4>1, Zenon
      <4>3. QED
        BY <3>3, <4>2, Zenon
    <3>5. Stretch(VisitGo(t, ahead)[row[p + 1]], S, row, p + 1, n)
      BY <1>3, <3>1
    <3>6. Stretch(<<row[p]>>, S, row, p, p)
      BY <3>1, <3>2, OneStretch
    <3> HIDE DEF U
    <3>7. Stretch(<<row[p]>> \o VisitGo(t, ahead)[row[p + 1]], S, row, p, n)
      BY <1>0, <3>1, <3>5, <3>6, JoinStretch
    <3>8. QED
      BY <3>4, <3>7
  <2>2. QED
    BY <2>1
<1> HIDE DEF U
<1>4. \A m \in Nat : m \in U
  BY <1>2, <1>3, AllNumbers
<1>5. ASSUME n # 0
      PROVE  VisitGo(t, ahead)[row[1]] = row
  <2>1. n - 1 \in Nat /\ 1 + (n - 1) = n /\ 1 \in 1..n
    BY <1>0, <1>5
  <2>2. n - 1 \in U
    BY <1>4, <2>1
  <2>3. Stretch(VisitGo(t, ahead)[row[1]], S, row, 1, n)
    BY <2>1, <2>2 DEF U
  <2>4. QED
    BY <1>0, <2>3, WholeStretch
<1>6. QED
  BY <1>1, <1>5

LEMMA WalksAre ==
  ASSUME NEW t, NEW S, NEW n, NEW s, NEW pos, NEW lo, NEW hi, Shape(t, S, n, s, pos, lo, hi)
  PROVE  Visited(t, "right") = s /\ Visited(t, "left") = Reverse(s)
<1>0. /\ n \in Nat /\ S \subseteq Items /\ s \in [1..n -> S]
      /\ \A i \in S : pos[i] \in 1..n /\ i \in Items /\ s[pos[i]] = i
      /\ \A p \in 1..n : s[p] \in S /\ pos[s[p]] = p
  <2>1. ASSUME NEW i \in S
        PROVE  pos[i] \in 1..n
    <3>1. /\ i \in Items /\ n \in Nat /\ lo[i] \in Nat /\ hi[i] \in Nat /\ pos[i] \in Nat
          /\ 1 <= lo[i] /\ lo[i] <= pos[i] /\ pos[i] <= hi[i] /\ hi[i] <= n
      BY NumberFacts
    <3>2. QED
      BY <3>1
  <2>2. QED
    BY <2>1, NumberFacts
<1>1. s \in Seq(S) /\ Len(s) = n
  BY <1>0
<1> DEFINE back == [p \in 1..n |-> s[(n - p) + 1]]
           rank == [i \in S |-> (n - pos[i]) + 1]
<1>2. Reverse(s) = back
  BY <1>1 DEF Reverse
<1>3. \A p \in 1..n : (n - p) + 1 \in 1..n
  BY <1>0
<1>4. Leads(t, S, n, s, pos, "right")
  BY <1>0, StepAt DEF Leads, Sides
<1>5. back \in [1..n -> S] /\ \A p \in 1..n : back[p] = s[(n - p) + 1]
  BY <1>0, <1>3
<1>6. \A i \in S : rank[i] = (n - pos[i]) + 1 /\ rank[i] \in 1..n
  BY <1>0
<1> HIDE DEF back, rank
<1>7. ASSUME NEW p \in 1..n
      PROVE  rank[back[p]] = p
  <2>1. ASSUME NEW q, q = (n - p) + 1
        PROVE  rank[s[q]] = p
    <3>1. q \in 1..n /\ (n - q) + 1 = p
      BY <1>0, <1>3, <2>1
    <3>2. QED
      BY <1>0, <1>6, <3>1
  <2>2. QED
    BY <1>5, <2>1
<1>8. ASSUME NEW i \in S
      PROVE  Step(t, i, "left") = IF rank[i] < n THEN back[rank[i] + 1] ELSE Nobody
  <2>1. Step(t, i, "left") = IF pos[i] > 1 THEN s[pos[i] - 1] ELSE Nobody
    BY StepAt
  <2>2. pos[i] > 1 <=> rank[i] < n
    BY <1>0, <1>6
  <2>3. ASSUME pos[i] > 1, NEW q, q = rank[i] + 1
        PROVE  back[q] = s[pos[i] - 1]
    <3>1. n \in Nat /\ pos[i] \in 1..n /\ q = ((n - pos[i]) + 1) + 1
      BY <1>0, <1>6, <2>3
    <3>2. q \in 1..n /\ (n - q) + 1 = pos[i] - 1
      BY <2>3, <3>1
    <3>3. QED
      BY <1>5, <3>2
  <2>4. QED
    BY <2>1, <2>2, <2>3
<1>9. \A i \in Items \ S : Step(t, i, "left") = Nobody
  BY StepAt DEF Sides
<1>10. Leads(t, S, n, back, rank, "left")
  BY <1>0, <1>5, <1>6, <1>7, <1>8, <1>9 DEF Leads
<1>11. CASE n = 0
  <2>1. t.root = Nobody /\ End(t, t.root, "left") = Nobody /\ End(t, t.root, "right") = Nobody
    BY <1>11, LinkFacts, TreeReadOff
  <2>2. Visited(t, "right") = <<>> /\ Visited(t, "left") = <<>>
    BY <1>4, <1>10, <2>1, WalkIsRow, WalksReadOff DEF Other
  <2>3. s = <<>>
    BY <1>1, <1>11, EmptySeq
  <2>4. back = <<>>
    <3>1. back \in Seq(S) /\ Len(back) = 0
      BY <1>5, <1>11
    <3>2. QED
      BY <3>1, EmptySeq
  <2>5. QED
    BY <1>2, <2>2, <2>3, <2>4
<1>12. CASE n # 0
  <2>1. t.root \in S /\ lo[t.root] = 1 /\ hi[t.root] = n
    BY <1>12, LinkFacts
  <2>2. End(t, t.root, "left") = s[1] /\ End(t, t.root, "right") = s[n]
    BY <2>1, EndAt
  <2>3. back[1] = s[n]
    BY <1>0, <1>5, <1>12
  <2>4. Visited(t, "right") = VisitGo(t, "right")[s[1]] /\ Visited(t, "left") = VisitGo(t, "left")[back[1]]
    BY <2>2, <2>3, WalksReadOff DEF Other
  <2>5. VisitGo(t, "right")[s[1]] = s /\ VisitGo(t, "left")[back[1]] = back
    BY <1>4, <1>10, <1>12, WalkIsRow
  <2>6. QED
    BY <1>2, <2>4, <2>5
<1>13. QED
  BY <1>11, <1>12

-----------------------------------------------------------------------------
LEMMA InOrderGoes ==
  ASSUME NEW t, NEW S, NEW n, NEW s, NEW pos, NEW lo, NEW hi, Shape(t, S, n, s, pos, lo, hi)
  PROVE  /\ InOrderGo(t)[Nobody] = <<>>
         /\ \A i \in Items : InOrderGo(t)[i] = InOrderGo(t)[t.left[i]] \o <<i>> \o InOrderGo(t)[t.right[i]]
<1> DEFINE D == 0..NodeMax
           R == Seq(D)
           F == [v \in [D -> R] |-> [i \in D |->
                   IF i = Nobody THEN <<>> ELSE v[t.left[i]] \o <<i>> \o v[t.right[i]]]]
           Body(h) == [i \in D |-> IF i = Nobody THEN <<>> ELSE h[t.left[i]] \o <<i>> \o h[t.right[i]]]
           size == Span(S, lo, hi)
<1>1. ASSUME NEW i \in D, i # Nobody
      PROVE  /\ t.left[i] \in D /\ size[t.left[i]] < size[i]
             /\ t.right[i] \in D /\ size[t.right[i]] < size[i]
  <2>1. i \in Items /\ "left" \in Sides /\ "right" \in Sides /\ t["left"] = t.left /\ t["right"] = t.right
    BY <1>1, ItemsAreNumbers, LinkFacts DEF Sides
  <2> HIDE DEF size
  <2>2. t["left"][i] \in D /\ size[t["left"][i]] < size[i] /\ t["right"][i] \in D /\ size[t["right"][i]] < size[i]
    BY <2>1, SpansShrink DEF size
  <2>3. QED
    BY <2>1, <2>2
<1>2. size \in [D -> Nat]
  BY SpansShrink
<1>3. ASSUME NEW v \in [D -> R], NEW i \in D
      PROVE  (IF i = Nobody THEN <<>> ELSE v[t.left[i]] \o <<i>> \o v[t.right[i]]) \in R
  <2>1. CASE i = Nobody
    BY <2>1
  <2>2. CASE i # Nobody
    <3>1. v[t.left[i]] \in R /\ v[t.right[i]] \in R
      <4> HIDE DEF R, D
      <4>1. QED
        BY <1>1, <2>2
    <3>2. <<i>> \in R
      OBVIOUS
    <3>3. v[t.left[i]] \o <<i>> \in R
      BY <3>1, <3>2, ConcatProperties
    <3>4. (v[t.left[i]] \o <<i>>) \o v[t.right[i]] \in R
      BY <3>1, <3>3, ConcatProperties
    <3>5. QED
      BY <2>2, <3>4
  <2>3. QED
    BY <2>1, <2>2
<1>4. F \in [[D -> R] -> [D -> R]]
  <2> HIDE DEF D, R
  <2>1. QED
    BY <1>3
<1>5. [i \in D |-> <<>>] \in [D -> R]
  OBVIOUS
<1>6. ASSUME NEW v \in [D -> R], NEW w \in [D -> R], NEW i \in D,
             \A j \in D : size[j] < size[i] => v[j] = w[j]
      PROVE  F[v][i] = F[w][i]
  <2>1. F[v][i] = IF i = Nobody THEN <<>> ELSE v[t.left[i]] \o <<i>> \o v[t.right[i]]
    <3> HIDE DEF D, R
    <3>1. QED
      OBVIOUS
  <2>2. F[w][i] = IF i = Nobody THEN <<>> ELSE w[t.left[i]] \o <<i>> \o w[t.right[i]]
    <3> HIDE DEF D, R
    <3>1. QED
      OBVIOUS
  <2>3. i # Nobody => v[t.left[i]] = w[t.left[i]] /\ v[t.right[i]] = w[t.right[i]]
    <3> HIDE DEF D, R, size, F
    <3>1. QED
      BY <1>1, <1>6
  <2> HIDE DEF F, size, D, R
  <2>4. QED
    BY <2>1, <2>2, <2>3
<1>7. ASSUME NEW h, Fixed(h, F, D, R)
      PROVE  h = Body(h)
  <2>1. h \in [D -> R] /\ \A i \in D : h[i] = F[h][i]
    BY <1>7 DEF Fixed
  <2>2. \A i \in D : F[h][i] = IF i = Nobody THEN <<>> ELSE h[t.left[i]] \o <<i>> \o h[t.right[i]]
    <3> HIDE DEF D, R
    <3>1. QED
      BY <2>1
  <2>3. \A i \in D : h[i] = IF i = Nobody THEN <<>> ELSE h[t.left[i]] \o <<i>> \o h[t.right[i]]
    <3> HIDE DEF F, D, R
    <3>1. QED
      BY <2>1, <2>2
  <2> HIDE DEF F, D, R
  <2>4. QED
    BY <2>1, <2>3
<1>8. \E h : Fixed(h, F, D, R)
  <2>1. Descends(F, D, R, size)
    <3> HIDE DEF F, R, D, size
    <3>1. QED
      BY <1>6 DEF Descends
  <2> HIDE DEF F, R, D, size
  <2>2. QED
    BY <1>2, <1>4, <1>5, <2>1, Recursion
<1>9. InOrderGo(t) = CHOOSE h : h = Body(h)
  BY DEF InOrderGo
<1>10. InOrderGo(t) = Body(InOrderGo(t))
  <2> HIDE DEF Body, F, R, D, size
  <2>1. QED
    BY <1>7, <1>8, <1>9
<1> HIDE DEF F, R, size
<1>11. \A i \in D : InOrderGo(t)[i] =
         IF i = Nobody THEN <<>> ELSE InOrderGo(t)[t.left[i]] \o <<i>> \o InOrderGo(t)[t.right[i]]
  BY <1>10
<1>12. Nobody \in D /\ \A i \in Items : i \in D /\ i # Nobody
  BY ItemsAreNumbers
<1> HIDE DEF D, Body
<1>13. InOrderGo(t)[Nobody] = <<>>
  BY <1>11, <1>12, Zenon
<1>14. \A i \in Items : InOrderGo(t)[i] = InOrderGo(t)[t.left[i]] \o <<i>> \o InOrderGo(t)[t.right[i]]
  BY <1>11, <1>12, Zenon
<1>15. QED
  BY <1>13, <1>14

(* The items of a branch from left to right are those of its block.         *)
LEMMA InOrderIs ==
  ASSUME NEW t, NEW S, NEW n, NEW s, NEW pos, NEW lo, NEW hi, Shape(t, S, n, s, pos, lo, hi)
  PROVE  InOrder(t) = s
<1> DEFINE T == {i \in S : Stretch(InOrderGo(t)[i], S, s, lo[i], hi[i])}
<1>1. ASSUME NEW i \in S, t.left[i] # Nobody => t.left[i] \in T, t.right[i] # Nobody => t.right[i] \in T
      PROVE  i \in T
  <2>1. /\ i \in Items /\ s[pos[i]] = i
        /\ lo[i] \in Nat /\ hi[i] \in Nat /\ pos[i] \in Nat /\ 1 <= lo[i] /\ lo[i] <= pos[i] /\ pos[i] <= hi[i]
    BY NumberFacts
  <2>2. InOrderGo(t)[i] = (InOrderGo(t)[t.left[i]] \o <<i>>) \o InOrderGo(t)[t.right[i]]
    BY <2>1, InOrderGoes, Zenon
  <2>3. InOrderGo(t)[Nobody] = <<>>
    BY InOrderGoes, Zenon
  <2>4. Stretch(InOrderGo(t)[t.left[i]], S, s, lo[i], pos[i] - 1)
    <3>1. CASE t.left[i] = Nobody
      <4>1. lo[i] = pos[i]
        BY <3>1, LinkFacts
      <4>2. pos[i] - 1 \in Nat /\ lo[i] = (pos[i] - 1) + 1
        BY <2>1, <4>1
      <4>3. Stretch(<<>>, S, s, lo[i], pos[i] - 1)
        BY <2>1, <4>2, NoStretch
      <4>4. QED
        BY <2>3, <3>1, <4>3
    <3>2. CASE t.left[i] # Nobody
      <4>1. lo[t.left[i]] = lo[i] /\ hi[t.left[i]] = pos[i] - 1
        BY <3>2, LinkFacts
      <4>2. QED
        BY <1>1, <3>2, <4>1
    <3>3. QED
      BY <3>1, <3>2
  <2>5. Stretch(InOrderGo(t)[t.right[i]], S, s, pos[i] + 1, hi[i])
    <3>1. CASE t.right[i] = Nobody
      <4>1. hi[i] = pos[i]
        BY <3>1, LinkFacts
      <4>2. pos[i] + 1 \in Nat /\ pos[i] + 1 = hi[i] + 1
        BY <2>1, <4>1
      <4>3. Stretch(<<>>, S, s, pos[i] + 1, hi[i])
        BY <2>1, <4>2, NoStretch
      <4>4. QED
        BY <2>3, <3>1, <4>3
    <3>2. CASE t.right[i] # Nobody
      <4>1. lo[t.right[i]] = pos[i] + 1 /\ hi[t.right[i]] = hi[i]
        BY <3>2, LinkFacts
      <4>2. QED
        BY <1>1, <3>2, <4>1
    <3>3. QED
      BY <3>1, <3>2
  <2>6. Stretch(<<i>>, S, s, pos[i], pos[i])
    BY <2>1, OneStretch
  <2>7. Stretch(InOrderGo(t)[t.left[i]] \o <<i>>, S, s, lo[i], pos[i])
    <3>1. pos[i] - 1 \in Nat /\ (pos[i] - 1) + 1 = pos[i]
      BY <2>1
    <3> HIDE DEF T
    <3>2. QED
      BY <2>1, <2>4, <2>6, <3>1, JoinStretch
  <2>8. Stretch((InOrderGo(t)[t.left[i]] \o <<i>>) \o InOrderGo(t)[t.right[i]], S, s, lo[i], hi[i])
    <3> HIDE DEF T
    <3>1. QED
      BY <2>1, <2>5, <2>7, JoinStretch
  <2>9. QED
    BY <2>2, <2>8
<1>2. \A i \in S : i \in T
  <2> HIDE DEF T
  <2>1. QED
    BY <1>1, SmallerFirst
<1>3. n \in Nat /\ s \in [1..n -> S]
  BY NumberFacts
<1>4. CASE n = 0
  <2>1. InOrder(t) = <<>>
    <3>1. t.root = Nobody
      BY <1>4, LinkFacts
    <3>2. InOrderGo(t)[Nobody] = <<>>
      BY InOrderGoes, Zenon
    <3>3. QED
      BY <3>1, <3>2, WalksReadOff, Zenon
  <2>2. s \in Seq(S) /\ Len(s) = 0
    BY <1>3, <1>4
  <2>3. QED
    BY <2>1, <2>2, EmptySeq
<1>5. CASE n # 0
  <2>1. t.root \in S /\ lo[t.root] = 1 /\ hi[t.root] = n
    BY <1>5, LinkFacts
  <2>2. Stretch(InOrderGo(t)[t.root], S, s, 1, n)
    BY <1>2, <2>1
  <2>3. InOrderGo(t)[t.root] = s
    BY <1>3, <2>2, WholeStretch
  <2>4. QED
    BY <2>3, WalksReadOff
<1>6. QED
  BY <1>4, <1>5

-----------------------------------------------------------------------------
PlaceGo(tree, key, k, duplicates) ==
  CHOOSE h : h = [i \in Items |->
    LET side == IF key[i] < k THEN "right" ELSE "left"
    IN  IF key[i] = k /\ ~ duplicates THEN [under |-> i, side |-> "exists"]
        ELSE IF tree[side][i] = Nobody THEN [under |-> i, side |-> side]
        ELSE h[tree[side][i]]]

SearchGo(tree, key, k) ==
  CHOOSE h : h = [i \in 0..NodeMax |->
    IF i = Nobody \/ key[i] = k THEN i
    ELSE h[IF key[i] < k THEN tree.right[i] ELSE tree.left[i]]]

LEMMA DescentsReadOff ==
  /\ \A tree, key, k, duplicates :
       Place(tree, key, k, duplicates) =
         IF tree.root = Nobody THEN [under |-> Nobody, side |-> "left"]
         ELSE PlaceGo(tree, key, k, duplicates)[tree.root]
  /\ \A tree, key, k : Search(tree, key, k) = SearchGo(tree, key, k)[tree.root]
  BY Zenon DEF Place, PlaceGo, Search, SearchGo

Toward(key, k, i) == IF key[i] < k THEN "right" ELSE "left"

LEMMA PlaceGoes ==
  ASSUME NEW t, NEW S, NEW n, NEW s, NEW pos, NEW lo, NEW hi, Shape(t, S, n, s, pos, lo, hi),
         NEW key, NEW k, NEW duplicates
  PROVE  \A i \in Items : PlaceGo(t, key, k, duplicates)[i] =
           IF key[i] = k /\ ~ duplicates THEN [under |-> i, side |-> "exists"]
           ELSE IF t[Toward(key, k, i)][i] = Nobody THEN [under |-> i, side |-> Toward(key, k, i)]
           ELSE PlaceGo(t, key, k, duplicates)[t[Toward(key, k, i)][i]]
<1> DEFINE R == [under : Items, side : {"left", "right", "exists"}]
           side(i) == Toward(key, k, i)
           links(i) == t[side(i)][i]
           Halts(i) == (key[i] = k /\ ~ duplicates) \/ links(i) = Nobody
           made0(i) == IF key[i] = k /\ ~ duplicates THEN [under |-> i, side |-> "exists"]
                       ELSE [under |-> i, side |-> side(i)]
           size == [i \in Items |-> Span(S, lo, hi)[i]]
           onward == [i \in Items |-> IF Halts(i) THEN i ELSE links(i)]
           made == [i \in Items |-> [r \in R |-> IF Halts(i) THEN made0(i) ELSE r]]
           Body(h) == [i \in Items |->
             IF key[i] = k /\ ~ duplicates THEN [under |-> i, side |-> "exists"]
             ELSE IF links(i) = Nobody THEN [under |-> i, side |-> side(i)]
             ELSE h[links(i)]]
<1>1. \A i \in Items : side(i) \in {"left", "right"} /\ side(i) \in Sides
  BY DEF Toward, Sides
<1>2. \A i \in Items : /\ links(i) \in 0..NodeMax /\ i \in 0..NodeMax /\ Span(S, lo, hi)[i] \in Nat
                       /\ Span(S, lo, hi)[links(i)] < Span(S, lo, hi)[i]
  BY <1>1, SpansShrink, ItemsAreNumbers
<1>3. \A i \in Items : ~ Halts(i) => links(i) \in Items
  BY <1>2, ItemsAreNumbers
<1>4. \A i \in Items : made0(i) \in R
  BY <1>1
<1> HIDE DEF links, made0, side
<1>5. size \in [Items -> Nat] /\ onward \in [Items -> Items] /\ made \in [Items -> [R -> R]]
  BY <1>2, <1>3, <1>4
<1>6. ASSUME NEW i \in Items
      PROVE  Stops(i, Items, R, size, onward, made)
  <2>1. CASE Halts(i)
    <3>1. \A r \in R : made[i][r] = made0(i)
      BY <2>1
    <3> HIDE DEF made, R
    <3>2. QED
      BY <3>1 DEF Stops
  <2>2. CASE ~ Halts(i)
    <3>1. size[onward[i]] < size[i]
      BY <1>2, <1>3, <2>2
    <3>2. QED
      BY <3>1 DEF Stops
  <2>3. QED
    BY <2>1, <2>2
<1>7. ASSUME NEW i0 \in Items
      PROVE  \E h : Recurs(h, Items, R, onward, made)
  <2>1. made0(i0) \in R
    BY <1>4
  <2> HIDE DEF size, onward, made, R
  <2>2. QED
    BY <1>5, <1>6, <2>1, TailRecursion
<1>8. ASSUME NEW h, Recurs(h, Items, R, onward, made)
      PROVE  h = Body(h)
  <2>1. h \in [Items -> R] /\ \A i \in Items : h[i] = made[i][h[onward[i]]]
    BY <1>8 DEF Recurs
  <2>2. \A i \in Items : onward[i] \in Items /\ h[onward[i]] \in R
    <3> HIDE DEF onward, R
    <3>1. QED
      BY <1>5, <2>1
  <2>3. \A i \in Items : h[i] = IF Halts(i) THEN made0(i) ELSE h[links(i)]
    <3>1. \A i \in Items : h[i] = IF Halts(i) THEN made0(i) ELSE h[onward[i]]
      <4> HIDE DEF onward, R, Halts
      <4>1. QED
        BY <2>1, <2>2
    <3>2. QED
      BY <3>1
  <2>4. \A i \in Items : h[i] =
             IF key[i] = k /\ ~ duplicates THEN [under |-> i, side |-> "exists"]
             ELSE IF links(i) = Nobody THEN [under |-> i, side |-> side(i)]
             ELSE h[links(i)]
    <3> HIDE DEF onward, R, made
    <3>1. QED
      BY <2>3, Zenon DEF made0
  <2> HIDE DEF R, onward, made
  <2>5. QED
    BY <2>1, <2>4
<1>9. PlaceGo(t, key, k, duplicates) = CHOOSE h : h = Body(h)
  BY Zenon DEF PlaceGo, links, side, Toward
<1>10. ASSUME NEW i0 \in Items
       PROVE  PlaceGo(t, key, k, duplicates) = Body(PlaceGo(t, key, k, duplicates))
  <2> HIDE DEF Body, size, onward, made, R
  <2>1. QED
    BY <1>7, <1>8, <1>9
<1>11. ASSUME NEW i0 \in Items
       PROVE  PlaceGo(t, key, k, duplicates)[i0] =
             IF key[i0] = k /\ ~ duplicates THEN [under |-> i0, side |-> "exists"]
             ELSE IF links(i0) = Nobody THEN [under |-> i0, side |-> side(i0)]
             ELSE PlaceGo(t, key, k, duplicates)[links(i0)]
  <2> HIDE DEF size, onward, made, R, Halts
  <2>1. QED
    BY <1>10, Zenon
<1>12. QED
  BY <1>11, Zenon DEF links, side

LEMMA SearchGoes ==
  ASSUME NEW t, NEW S, NEW n, NEW s, NEW pos, NEW lo, NEW hi, Shape(t, S, n, s, pos, lo, hi),
         NEW key, NEW k
  PROVE  /\ SearchGo(t, key, k)[Nobody] = Nobody
         /\ \A i \in Items : SearchGo(t, key, k)[i] =
              IF key[i] = k THEN i
              ELSE SearchGo(t, key, k)[IF key[i] < k THEN t.right[i] ELSE t.left[i]]
<1> DEFINE D == 0..NodeMax
           links(i) == IF key[i] < k THEN t.right[i] ELSE t.left[i]
           Halts(i) == i = Nobody \/ key[i] = k
           size == [i \in D |-> Span(S, lo, hi)[i]]
           onward == [i \in D |-> IF Halts(i) THEN i ELSE links(i)]
           made == [i \in D |-> [r \in D |-> IF Halts(i) THEN i ELSE r]]
           Body(h) == [i \in D |-> IF i = Nobody \/ key[i] = k THEN i ELSE h[links(i)]]
<1>1. \A i \in D : Span(S, lo, hi)[i] \in Nat
  BY SpansShrink
<1>2. ASSUME NEW i \in D, i # Nobody
      PROVE  links(i) \in D /\ Span(S, lo, hi)[links(i)] < Span(S, lo, hi)[i]
  <2>1. i \in Items /\ "left" \in Sides /\ "right" \in Sides /\ t["left"] = t.left /\ t["right"] = t.right
    BY <1>2, ItemsAreNumbers, LinkFacts DEF Sides
  <2>2. /\ t["left"][i] \in D /\ Span(S, lo, hi)[t["left"][i]] < Span(S, lo, hi)[i]
        /\ t["right"][i] \in D /\ Span(S, lo, hi)[t["right"][i]] < Span(S, lo, hi)[i]
    BY <2>1, SpansShrink
  <2>3. QED
    BY <2>1, <2>2
<1> HIDE DEF links
<1>3. size \in [D -> Nat] /\ onward \in [D -> D] /\ made \in [D -> [D -> D]] /\ Nobody \in D
  BY <1>1, <1>2, ItemsAreNumbers
<1>4. ASSUME NEW i \in D
      PROVE  Stops(i, D, D, size, onward, made)
  <2>1. CASE Halts(i)
    <3>1. \A r \in D : made[i][r] = i
      BY <2>1
    <3> HIDE DEF made, D
    <3>2. QED
      BY <3>1 DEF Stops
  <2>2. CASE ~ Halts(i)
    <3>1. size[onward[i]] < size[i]
      BY <1>2, <2>2
    <3>2. QED
      BY <3>1 DEF Stops
  <2>3. QED
    BY <2>1, <2>2
<1>5. \E h : Recurs(h, D, D, onward, made)
  <2> HIDE DEF size, onward, made, D
  <2>1. QED
    BY <1>3, <1>4, TailRecursion
<1>6. ASSUME NEW h, Recurs(h, D, D, onward, made)
      PROVE  h = Body(h)
  <2>1. h \in [D -> D] /\ \A i \in D : h[i] = made[i][h[onward[i]]]
    BY <1>6 DEF Recurs
  <2>2. \A i \in D : onward[i] \in D /\ h[onward[i]] \in D
    <3> HIDE DEF onward, D
    <3>1. QED
      BY <1>3, <2>1
  <2>3. \A i \in D : h[i] = IF Halts(i) THEN i ELSE h[onward[i]]
    <3> HIDE DEF onward, D, Halts
    <3>1. QED
      BY <2>1, <2>2
  <2>4. \A i \in D : h[i] = IF i = Nobody \/ key[i] = k THEN i ELSE h[links(i)]
    BY <2>3
  <2> HIDE DEF D, onward, made
  <2>5. QED
    BY <2>1, <2>4
<1>7. SearchGo(t, key, k) = CHOOSE h : h = Body(h)
  BY Zenon DEF SearchGo, links
<1>8. SearchGo(t, key, k) = Body(SearchGo(t, key, k))
  <2> HIDE DEF Body, size, onward, made, D
  <2>1. QED
    BY <1>5, <1>6, <1>7
<1> HIDE DEF size, onward, made
<1>9. \A i \in D : SearchGo(t, key, k)[i] = IF i = Nobody \/ key[i] = k THEN i ELSE SearchGo(t, key, k)[links(i)]
  BY <1>8, Zenon
<1>10. Nobody \in D /\ \A i \in Items : i \in D /\ i # Nobody
  BY ItemsAreNumbers
<1> HIDE DEF D, Body
<1>11. SearchGo(t, key, k)[Nobody] = Nobody
  BY <1>9, <1>10, Zenon
<1>12. ASSUME NEW i \in Items
       PROVE  SearchGo(t, key, k)[i] = IF key[i] = k THEN i ELSE SearchGo(t, key, k)[links(i)]
  BY <1>9, <1>10, Zenon
<1>13. QED
  BY <1>11, <1>12, Zenon DEF links

(* The keys rise from left to right.                                        *)
Rising(S, pos, key) == \A i, j \in S : pos[i] < pos[j] => key[i] <= key[j]

(* The position a new item gets in its place.                               *)
Gap(place, pos) == IF place.side = "left" THEN pos[place.under] ELSE pos[place.under] + 1

(* A place in the branch of i: where a link is free, and between the keys   *)
(* that are not larger and those that are not smaller.                     *)
FreePlace(place, t, S, pos, lo, hi, i) ==
  /\ place.under \in S /\ place.side \in {"left", "right", "exists"}
  /\ lo[i] <= pos[place.under] /\ pos[place.under] <= hi[i]
  /\ place.side # "exists" => t[place.side][place.under] = Nobody

KeysBetween(place, S, pos, lo, hi, key, k, i) ==
  \A j \in S : lo[i] <= pos[j] /\ pos[j] <= hi[i] =>
    /\ pos[j] < Gap(place, pos) => key[j] <= k
    /\ pos[j] >= Gap(place, pos) => key[j] >= k

LEMMA PlaceIs ==
  ASSUME NEW t, NEW S, NEW n, NEW s, NEW pos, NEW lo, NEW hi, Shape(t, S, n, s, pos, lo, hi),
         NEW key \in [Items -> Nat], NEW k \in Nat, NEW duplicates, NEW place,
         place = Place(t, key, k, duplicates)
  PROVE  /\ t.root = Nobody => place = [under |-> Nobody, side |-> "left"]
         /\ t.root # Nobody => FreePlace(place, t, S, pos, lo, hi, t.root)
         /\ t.root # Nobody /\ place.side # "exists" /\ Rising(S, pos, key) =>
              KeysBetween(place, S, pos, lo, hi, key, k, t.root)
<1> DEFINE go == PlaceGo(t, key, k, duplicates)
           T == {i \in S : /\ FreePlace(go[i], t, S, pos, lo, hi, i)
                           /\ go[i].side # "exists" /\ Rising(S, pos, key) =>
                                KeysBetween(go[i], S, pos, lo, hi, key, k, i)}
<1>0. "left" \in Sides /\ "right" \in Sides /\ t["left"] = t.left /\ t["right"] = t.right
  BY LinkFacts DEF Sides
<1>1. ASSUME NEW i \in S, t.left[i] # Nobody => t.left[i] \in T, t.right[i] # Nobody => t.right[i] \in T
      PROVE  i \in T
  <2>1. /\ i \in Items /\ key[i] \in Nat /\ lo[i] \in Nat /\ hi[i] \in Nat /\ pos[i] \in Nat
        /\ lo[i] <= pos[i] /\ pos[i] <= hi[i]
    BY NumberFacts
  <2>2. \A j \in S : pos[j] \in Nat /\ key[j] \in Nat /\ (pos[j] = pos[i] => j = i)
    <3>1. \A j \in S : j \in Items /\ s[pos[j]] = j
      BY NumberFacts
    <3>2. QED
      BY <3>1, NumberFacts
  <2>3. go[i] = IF key[i] = k /\ ~ duplicates THEN [under |-> i, side |-> "exists"]
                ELSE IF t[Toward(key, k, i)][i] = Nobody THEN [under |-> i, side |-> Toward(key, k, i)]
                ELSE go[t[Toward(key, k, i)][i]]
    BY <2>1, PlaceGoes
  <2> HIDE DEF go
  <2>4. CASE key[i] = k /\ ~ duplicates
    <3>1. go[i] = [under |-> i, side |-> "exists"]
      BY <2>3, <2>4
    <3>2. FreePlace(go[i], t, S, pos, lo, hi, i)
      BY <2>1, <3>1 DEF FreePlace
    <3>3. go[i].side = "exists"
      BY <3>1
    <3>4. QED
      BY <3>2, <3>3
  <2>5. CASE ~ (key[i] = k /\ ~ duplicates) /\ key[i] < k /\ t.right[i] = Nobody
    <3>1. go[i] = [under |-> i, side |-> "right"]
      BY <1>0, <2>3, <2>5 DEF Toward
    <3>2. FreePlace(go[i], t, S, pos, lo, hi, i)
      BY <1>0, <2>1, <2>5, <3>1 DEF FreePlace
    <3>3. Gap(go[i], pos) = pos[i] + 1 /\ hi[i] = pos[i]
      BY <2>5, <3>1, LinkFacts DEF Gap
    <3>4. ASSUME Rising(S, pos, key)
          PROVE  KeysBetween(go[i], S, pos, lo, hi, key, k, i)
      <4>1. ASSUME NEW j \in S, lo[i] <= pos[j], pos[j] <= hi[i]
            PROVE  pos[j] < Gap(go[i], pos) /\ key[j] <= k
        <5>1. pos[j] < pos[i] => key[j] <= key[i]
          BY <3>4 DEF Rising
        <5>2. QED
          BY <2>1, <2>2, <2>5, <3>3, <4>1, <5>1
      <4>2. \A j \in S : pos[j] \in Nat
        BY <2>2
      <4>3. Gap(go[i], pos) \in Nat
        BY <2>1, <3>3
      <4>4. QED
        BY <4>1, <4>2, <4>3 DEF KeysBetween
    <3>5. QED
      BY <3>2, <3>4
  <2>6. CASE ~ (key[i] = k /\ ~ duplicates) /\ ~ (key[i] < k) /\ t.left[i] = Nobody
    <3>1. go[i] = [under |-> i, side |-> "left"]
      BY <1>0, <2>3, <2>6 DEF Toward
    <3>2. FreePlace(go[i], t, S, pos, lo, hi, i)
      BY <1>0, <2>1, <2>6, <3>1 DEF FreePlace
    <3>3. Gap(go[i], pos) = pos[i] /\ lo[i] = pos[i]
      BY <2>6, <3>1, LinkFacts DEF Gap
    <3>4. ASSUME Rising(S, pos, key)
          PROVE  KeysBetween(go[i], S, pos, lo, hi, key, k, i)
      <4>1. ASSUME NEW j \in S, lo[i] <= pos[j], pos[j] <= hi[i]
            PROVE  pos[j] >= Gap(go[i], pos) /\ key[j] >= k
        <5>1. pos[i] < pos[j] => key[i] <= key[j]
          BY <3>4 DEF Rising
        <5>2. QED
          BY <2>1, <2>2, <2>6, <3>3, <4>1, <5>1
      <4>2. \A j \in S : pos[j] \in Nat
        BY <2>2
      <4>3. Gap(go[i], pos) \in Nat
        BY <2>1, <3>3
      <4>4. QED
        BY <4>1, <4>2, <4>3 DEF KeysBetween
    <3>5. QED
      BY <3>2, <3>4
  <2>7. ASSUME ~ (key[i] = k /\ ~ duplicates), key[i] < k, NEW r, r = t.right[i], r # Nobody
        PROVE  i \in T
    <3>1. go[i] = go[r]
      BY <1>0, <2>3, <2>7 DEF Toward
    <3>2. r \in S /\ lo[r] = pos[i] + 1 /\ hi[r] = hi[i] /\ r \in T
      BY <1>1, <2>7, LinkFacts
    <3>3. FreePlace(go[r], t, S, pos, lo, hi, r)
      BY <3>2
    <3>4. pos[go[r].under] \in Nat /\ pos[i] + 1 <= pos[go[r].under] /\ pos[go[r].under] <= hi[i]
      BY <2>2, <3>2, <3>3 DEF FreePlace
    <3>5. FreePlace(go[i], t, S, pos, lo, hi, i)
      <4>1. lo[i] <= pos[go[r].under]
        BY <2>1, <3>4
      <4>2. QED
        BY <3>1, <3>3, <3>4, <4>1 DEF FreePlace
    <3>6. ASSUME go[i].side # "exists", Rising(S, pos, key)
          PROVE  KeysBetween(go[i], S, pos, lo, hi, key, k, i)
      <4>1. KeysBetween(go[r], S, pos, lo, hi, key, k, r)
        BY <3>1, <3>2, <3>6
      <4>2. Gap(go[r], pos) \in Nat /\ pos[i] < Gap(go[r], pos)
        BY <2>1, <3>4 DEF Gap
      <4>3. ASSUME NEW j \in S, lo[i] <= pos[j], pos[j] <= hi[i]
            PROVE  (pos[j] < Gap(go[i], pos) => key[j] <= k) /\ (pos[j] >= Gap(go[i], pos) => key[j] >= k)
        <5>1. CASE pos[j] >= pos[i] + 1
          BY <3>1, <3>2, <4>1, <4>3, <5>1 DEF KeysBetween
        <5>2. CASE ~ (pos[j] >= pos[i] + 1)
          <6>1. pos[j] < pos[i] => key[j] <= key[i]
            BY <3>6 DEF Rising
          <6>2. key[j] <= k
            BY <2>1, <2>2, <2>7, <5>2, <6>1
          <6>3. ~ (pos[j] >= Gap(go[r], pos))
            BY <2>1, <2>2, <4>2, <5>2
          <6>4. QED
            BY <3>1, <6>2, <6>3
        <5>3. QED
          BY <5>1, <5>2
      <4>4. QED
        BY <4>3 DEF KeysBetween
    <3>7. QED
      BY <3>5, <3>6
  <2>8. ASSUME ~ (key[i] = k /\ ~ duplicates), ~ (key[i] < k), NEW l, l = t.left[i], l # Nobody
        PROVE  i \in T
    <3>1. go[i] = go[l]
      BY <1>0, <2>3, <2>8 DEF Toward
    <3>2. l \in S /\ lo[l] = lo[i] /\ hi[l] = pos[i] - 1 /\ l \in T
      BY <1>1, <2>8, LinkFacts
    <3>3. FreePlace(go[l], t, S, pos, lo, hi, l)
      BY <3>2
    <3>4. pos[go[l].under] \in Nat /\ lo[i] <= pos[go[l].under] /\ pos[go[l].under] <= pos[i] - 1
      BY <2>2, <3>2, <3>3 DEF FreePlace
    <3>5. FreePlace(go[i], t, S, pos, lo, hi, i)
      <4>1. pos[go[l].under] <= hi[i]
        BY <2>1, <3>4
      <4>2. QED
        BY <3>1, <3>3, <3>4, <4>1 DEF FreePlace
    <3>6. ASSUME go[i].side # "exists", Rising(S, pos, key)
          PROVE  KeysBetween(go[i], S, pos, lo, hi, key, k, i)
      <4>1. KeysBetween(go[l], S, pos, lo, hi, key, k, l)
        BY <3>1, <3>2, <3>6
      <4>2. Gap(go[l], pos) \in Nat /\ Gap(go[l], pos) <= pos[i]
        BY <2>1, <3>4 DEF Gap
      <4>3. ASSUME NEW j \in S, lo[i] <= pos[j], pos[j] <= hi[i]
            PROVE  (pos[j] < Gap(go[i], pos) => key[j] <= k) /\ (pos[j] >= Gap(go[i], pos) => key[j] >= k)
        <5>1. CASE pos[j] <= pos[i] - 1
          BY <3>1, <3>2, <4>1, <4>3, <5>1 DEF KeysBetween
        <5>2. CASE ~ (pos[j] <= pos[i] - 1)
          <6>1. pos[i] < pos[j] => key[i] <= key[j]
            BY <3>6 DEF Rising
          <6>2. key[j] >= k
            BY <2>1, <2>2, <2>8, <5>2, <6>1
          <6>3. ~ (pos[j] < Gap(go[l], pos))
            BY <2>1, <2>2, <4>2, <5>2
          <6>4. QED
            BY <3>1, <6>2, <6>3
        <5>3. QED
          BY <5>1, <5>2
      <4>4. QED
        BY <4>3 DEF KeysBetween
    <3>7. QED
      BY <3>5, <3>6
  <2>9. QED
    BY <2>4, <2>5, <2>6, <2>7, <2>8
<1>2. \A i \in S : i \in T
  <2> HIDE DEF T
  <2>1. QED
    BY <1>1, SmallerFirst
<1>3. t.root = Nobody => place = [under |-> Nobody, side |-> "left"]
  BY DescentsReadOff
<1>4. t.root # Nobody => t.root \in T /\ place = go[t.root]
  <2>1. t.root # Nobody => t.root \in S
    BY LinkFacts
  <2>2. QED
    BY <1>2, <2>1, DescentsReadOff
<1>5. QED
  BY <1>3, <1>4

LEMMA SearchIs ==
  ASSUME NEW t, NEW S, NEW n, NEW s, NEW pos, NEW lo, NEW hi, Shape(t, S, n, s, pos, lo, hi),
         NEW key \in [Items -> Nat], NEW k \in Nat, Rising(S, pos, key), NEW found \in S, key[found] = k
  PROVE  Search(t, key, k) \in S /\ key[Search(t, key, k)] = k
<1> DEFINE go == SearchGo(t, key, k)
           T == {i \in S : lo[i] <= pos[found] /\ pos[found] <= hi[i] => go[i] \in S /\ key[go[i]] = k}
<1>0. \A i \in S : /\ i \in Items /\ key[i] \in Nat /\ lo[i] \in Nat /\ hi[i] \in Nat /\ pos[i] \in Nat
                   /\ lo[i] <= pos[i] /\ pos[i] <= hi[i]
                   /\ (pos[i] = pos[found] => i = found)
  <2>1. \A i \in S : /\ i \in Items /\ s[pos[i]] = i
    BY NumberFacts
  <2>2. QED
    BY <2>1, NumberFacts
<1>1. ASSUME NEW i \in S, t.left[i] # Nobody => t.left[i] \in T, t.right[i] # Nobody => t.right[i] \in T
      PROVE  i \in T
  <2>1. SUFFICES ASSUME lo[i] <= pos[found], pos[found] <= hi[i]
                 PROVE  go[i] \in S /\ key[go[i]] = k
    OBVIOUS
  <2>2. go[i] = IF key[i] = k THEN i ELSE go[IF key[i] < k THEN t.right[i] ELSE t.left[i]]
    BY <1>0, SearchGoes
  <2> HIDE DEF go
  <2>3. CASE key[i] = k
    BY <2>2, <2>3
  <2>4. CASE key[i] < k
    <3>1. pos[found] >= pos[i] + 1
      <4>1. pos[found] < pos[i] => key[found] <= key[i]
        BY DEF Rising
      <4>2. QED
        BY <1>0, <2>4, <4>1
    <3>2. t.right[i] # Nobody
      <4>1. t.right[i] = Nobody => hi[i] = pos[i]
        BY LinkFacts
      <4>2. QED
        BY <1>0, <2>1, <3>1, <4>1
    <3>3. t.right[i] \in T /\ lo[t.right[i]] = pos[i] + 1 /\ hi[t.right[i]] = hi[i]
      BY <1>1, <3>2, LinkFacts
    <3>4. go[t.right[i]] \in S /\ key[go[t.right[i]]] = k
      BY <2>1, <3>1, <3>3
    <3>5. go[i] = go[t.right[i]]
      BY <1>0, <2>2, <2>4
    <3>6. QED
      BY <3>4, <3>5
  <2>5. CASE ~ (key[i] = k) /\ ~ (key[i] < k)
    <3>1. pos[found] <= pos[i] - 1
      <4>1. pos[i] < pos[found] => key[i] <= key[found]
        BY DEF Rising
      <4>2. QED
        BY <1>0, <2>5, <4>1
    <3>2. t.left[i] # Nobody
      <4>1. t.left[i] = Nobody => lo[i] = pos[i]
        BY LinkFacts
      <4>2. QED
        BY <1>0, <2>1, <3>1, <4>1
    <3>3. t.left[i] \in T /\ lo[t.left[i]] = lo[i] /\ hi[t.left[i]] = pos[i] - 1
      BY <1>1, <3>2, LinkFacts
    <3>4. go[t.left[i]] \in S /\ key[go[t.left[i]]] = k
      BY <2>1, <3>1, <3>3
    <3>5. go[i] = go[t.left[i]]
      BY <2>2, <2>5
    <3>6. QED
      BY <3>4, <3>5
  <2>6. QED
    BY <2>3, <2>4, <2>5
<1>2. \A i \in S : i \in T
  <2> HIDE DEF T
  <2>1. QED
    BY <1>1, SmallerFirst
<1>3. /\ t.root \in S /\ lo[t.root] = 1 /\ hi[t.root] = n
      /\ 1 <= pos[found] /\ pos[found] <= n
  <2>1. /\ n \in Nat /\ 1 <= lo[found] /\ lo[found] <= pos[found] /\ pos[found] <= hi[found] /\ hi[found] <= n
    BY NumberFacts
  <2>2. 1 <= pos[found] /\ pos[found] <= n /\ n # 0
    BY <1>0, <2>1
  <2>3. QED
    BY <2>2, LinkFacts
<1>4. QED
  BY <1>2, <1>3, DescentsReadOff

-----------------------------------------------------------------------------
(* The numbers after a new item has got position q: the blocks that begin   *)
(* at from or behind it, and those that end at till or behind it, move on.  *)
Moved(x, q) == IF x >= q THEN x + 1 ELSE x
MovedAll(f, q, item, at) == [i \in Items |-> IF i = item THEN at ELSE Moved(f[i], q)]
WithNew(s, n, item, q) == [p \in 1..n + 1 |-> IF p < q THEN s[p] ELSE IF p = q THEN item ELSE s[p - 1]]

LEMMA NumbersMove ==
  ASSUME NEW S, NEW n, NEW s, NEW pos, NEW lo, NEW hi, Numbered(S, n, s, pos, lo, hi),
         NEW item \in Items, item \notin S, NEW q \in 1..n + 1, NEW from \in {q, q + 1}, NEW till \in Nat,
         till + 1 \in {q, q + 1}
  PROVE  Numbered(S \cup {item}, n + 1, WithNew(s, n, item, q), MovedAll(pos, q, item, q),
                  MovedAll(lo, from, item, q), MovedAll(hi, till, item, q))
<1> DEFINE s2 == WithNew(s, n, item, q)
           pos2 == MovedAll(pos, q, item, q)
           lo2 == MovedAll(lo, from, item, q)
           hi2 == MovedAll(hi, till, item, q)
           S2 == S \cup {item}
<1>1. /\ n \in Nat /\ n + 1 \in Nat /\ q \in Nat /\ from \in Nat /\ till \in Nat /\ 1 <= q /\ q <= n + 1
      /\ S \subseteq Items /\ S2 \subseteq Items /\ s \in [1..n -> S]
      /\ \A i \in Items : pos[i] \in Nat /\ lo[i] \in Nat /\ hi[i] \in Nat
      /\ \A i \in S : 1 <= lo[i] /\ lo[i] <= pos[i] /\ pos[i] <= hi[i] /\ hi[i] <= n /\ s[pos[i]] = i /\ i # item
      /\ \A p \in 1..n : s[p] \in S /\ pos[s[p]] = p
  BY DEF Numbered
<1>2. \A x, y \in Nat : Moved(x, y) \in Nat
  BY DEF Moved
<1>3. pos2 \in [Items -> Nat] /\ lo2 \in [Items -> Nat] /\ hi2 \in [Items -> Nat]
  BY <1>1, <1>2 DEF MovedAll
<1>4. \A i \in S : /\ pos2[i] = Moved(pos[i], q) /\ lo2[i] = Moved(lo[i], from) /\ hi2[i] = Moved(hi[i], till)
                   /\ i \in Items /\ pos[i] \in Nat /\ lo[i] \in Nat /\ hi[i] \in Nat
  BY <1>1 DEF MovedAll
<1>5. pos2[item] = q /\ lo2[item] = q /\ hi2[item] = q
  BY DEF MovedAll
<1>6. \A p \in 1..n + 1 : s2[p] = IF p < q THEN s[p] ELSE IF p = q THEN item ELSE s[p - 1]
  BY DEF WithNew
<1>7. ASSUME NEW p \in 1..n + 1
      PROVE  (p < q => p \in 1..n) /\ (p > q => p - 1 \in 1..n)
  BY <1>1
<1>8. s2 \in [1..n + 1 -> S2]
  <2>1. ASSUME NEW p \in 1..n + 1
        PROVE  (IF p < q THEN s[p] ELSE IF p = q THEN item ELSE s[p - 1]) \in S2
    BY <1>1, <1>7
  <2>2. QED
    BY <2>1 DEF WithNew
<1> HIDE DEF s2, pos2, lo2, hi2
<1>9. ASSUME NEW i \in S2
      PROVE  1 <= lo2[i] /\ lo2[i] <= pos2[i] /\ pos2[i] <= hi2[i] /\ hi2[i] <= n + 1 /\ s2[pos2[i]] = i
  <2>1. CASE i = item
    BY <1>1, <1>5, <1>6, <2>1
  <2>2. CASE i \in S
    <3>1. 1 <= lo[i] /\ lo[i] <= pos[i] /\ pos[i] <= hi[i] /\ hi[i] <= n
      BY <1>1, <2>2
    <3>2. pos2[i] = Moved(pos[i], q) /\ lo2[i] = Moved(lo[i], from) /\ hi2[i] = Moved(hi[i], till)
      BY <1>4, <2>2
    <3>3. pos[i] \in Nat /\ lo[i] \in Nat /\ hi[i] \in Nat
      BY <1>4, <2>2
    <3>4. n \in Nat /\ q \in Nat /\ (from = q \/ from = q + 1) /\ till \in Nat /\ (till + 1 = q \/ till + 1 = q + 1)
      BY <1>1
    <3>5. 1 <= lo2[i] /\ lo2[i] <= pos2[i] /\ pos2[i] <= hi2[i] /\ hi2[i] <= n + 1
      BY <3>1, <3>2, <3>3, <3>4 DEF Moved
    <3>6. s2[pos2[i]] = i
      <4>1. ASSUME NEW p, p = pos2[i]
            PROVE  s2[p] = i
        <5>1. p \in 1..n + 1 /\ (pos[i] < q => p = pos[i] /\ p < q) /\ (~ (pos[i] < q) => p - 1 = pos[i] /\ p > q)
          BY <3>1, <3>2, <3>3, <3>4, <4>1 DEF Moved
        <5>2. s[pos[i]] = i
          BY <1>1, <2>2
        <5>3. CASE pos[i] < q
          BY <1>6, <5>1, <5>2, <5>3
        <5>4. CASE ~ (pos[i] < q)
          <6>1. ~ (p < q) /\ p # q
            BY <3>4, <5>1, <5>4
          <6>2. s2[p] = s[p - 1]
            BY <1>6, <5>1, <6>1
          <6>3. QED
            BY <5>1, <5>2, <5>4, <6>2
        <5>5. QED
          BY <5>3, <5>4
      <4>2. QED
        BY <4>1
    <3>7. QED
      BY <3>5, <3>6
  <2>3. QED
    BY <2>1, <2>2
<1>10. ASSUME NEW p \in 1..n + 1
       PROVE  pos2[s2[p]] = p
  <2>1. CASE p < q
    <3>1. s2[p] = s[p] /\ s[p] \in S /\ pos[s[p]] = p
      BY <1>1, <1>6, <1>7, <2>1
    <3>2. pos2[s[p]] = Moved(p, q)
      BY <1>4, <3>1
    <3>3. QED
      BY <1>1, <2>1, <3>1, <3>2 DEF Moved
  <2>2. CASE p = q
    BY <1>5, <1>6, <2>2
  <2>3. ASSUME p > q, NEW r, r = p - 1
        PROVE  pos2[s2[p]] = p
    <3>1. r \in 1..n /\ r >= q /\ r + 1 = p /\ ~ (p < q) /\ p # q
      BY <1>1, <2>3
    <3>2. s2[p] = s[r] /\ s[r] \in S /\ pos[s[r]] = r
      BY <1>1, <1>6, <2>3, <3>1
    <3>3. pos2[s[r]] = Moved(r, q)
      BY <1>4, <3>2
    <3>4. QED
      BY <3>1, <3>2, <3>3 DEF Moved
  <2>4. QED
    BY <1>1, <2>1, <2>2, <2>3
<1>11. Numbered(S2, n + 1, s2, pos2, lo2, hi2)
  BY <1>1, <1>3, <1>8, <1>9, <1>10 DEF Numbered
<1>12. QED
  BY <1>11 DEF s2, pos2, lo2, hi2

Hung(t2, t, item, u, side) == t2 = [t EXCEPT ![side][u] = item, !.parent[item] = u]

LEMMA HangLeft ==
  ASSUME NEW t, NEW S, NEW n, NEW s, NEW pos, NEW lo, NEW hi, Shape(t, S, n, s, pos, lo, hi),
         NEW item \in Items, item \notin S, NEW u \in S, t.left[u] = Nobody, NEW t2, Hung(t2, t, item, u, "left"),
         NEW q, q = pos[u]
  PROVE  Shape(t2, S \cup {item}, n + 1,
               WithNew(s, n, item, q), MovedAll(pos, q, item, q),
               MovedAll(lo, q + 1, item, q), MovedAll(hi, q, item, q))
<1> DEFINE S2 == S \cup {item}
           pos2 == MovedAll(pos, q, item, q)
           lo2 == MovedAll(lo, q + 1, item, q)
           hi2 == MovedAll(hi, q, item, q)
           parent2 == [t.parent EXCEPT ![item] = u]
           left2 == [t.left EXCEPT ![u] = item]
<1>1. /\ n \in Nat /\ S \subseteq Items
      /\ \A i \in Items : pos[i] \in Nat /\ lo[i] \in Nat /\ hi[i] \in Nat
      /\ \A i \in S : /\ 1 <= lo[i] /\ lo[i] <= pos[i] /\ pos[i] <= hi[i] /\ hi[i] <= n
                      /\ i \in Items /\ i # item /\ i # Nobody /\ (pos[i] = pos[u] => i = u)
      /\ u \in Items /\ item # Nobody /\ u # item
  <2>1. \A i \in S : i \in Items /\ s[pos[i]] = i
    BY NumberFacts
  <2>2. QED
    BY <2>1, NumberFacts, ItemsAreNumbers
<1>2. q \in Nat /\ q \in 1..n + 1
  BY <1>1
<1>3. Numbered(S2, n + 1, WithNew(s, n, item, q), pos2, lo2, hi2)
  <2>1. Numbered(S, n, s, pos, lo, hi)
    BY DEF Shape
  <2>2. q + 1 \in {q, q + 1} /\ q \in Nat /\ q + 1 \in {q, q + 1}
    BY <1>1, <1>2
  <2> HIDE DEF S2, pos2, lo2, hi2
  <2>3. QED
    BY <1>2, <2>1, <2>2, NumbersMove DEF S2, pos2, lo2, hi2
<1>4. t \in Trees
  BY DEF Shape
<1>5. /\ t2 \in Trees /\ t2.root = t.root /\ t2.parent = parent2 /\ t2.left = left2 /\ t2.right = t.right
  BY <1>1, <1>4, ItemsAreNumbers DEF Trees, Links, Hung
<1>6. /\ \A i \in S : /\ pos2[i] = Moved(pos[i], q) /\ lo2[i] = Moved(lo[i], q + 1) /\ hi2[i] = Moved(hi[i], q)
                       /\ parent2[i] = t.parent[i] /\ (i # u => left2[i] = t.left[i])
      /\ pos2[item] = q /\ lo2[item] = q /\ hi2[item] = q
      /\ parent2[item] = u /\ left2[u] = item /\ left2[item] = Nobody /\ t.right[item] = Nobody
      /\ \A i \in Items : (i # item => parent2[i] = t.parent[i]) /\ (i # u => left2[i] = t.left[i])
  <2>1. /\ t.parent \in [Items -> 0..NodeMax] /\ t.left \in [Items -> 0..NodeMax]
        /\ t.left[item] = Nobody /\ t.right[item] = Nobody
    BY LinkFacts
  <2>2. QED
    BY <1>1, <2>1 DEF MovedAll
<1> HIDE DEF S2, pos2, lo2, hi2, parent2, left2
<1>7. \A i \in S2 : i \in S \/ i = item
  BY DEF S2
<1>8. S \subseteq S2 /\ item \in S2
  BY DEF S2
<1>9. /\ t.root # Nobody /\ t.root \in S2 /\ parent2[t.root] = Nobody /\ lo2[t.root] = 1 /\ hi2[t.root] = n + 1
  <2>1. n # 0
    BY <1>1
  <2>2. t.root \in S /\ t.parent[t.root] = Nobody /\ lo[t.root] = 1 /\ hi[t.root] = n
    BY <2>1, LinkFacts
  <2>3. pos[u] \in Nat /\ 1 <= pos[u] /\ pos[u] <= n
    BY <1>1
  <2>4. lo2[t.root] = 1 /\ hi2[t.root] = n + 1
    BY <1>1, <1>6, <2>2, <2>3 DEF Moved
  <2>5. QED
    BY <1>1, <1>6, <1>8, <2>2, <2>4
<1>10. ASSUME NEW i \in S2, left2[i] = Nobody
       PROVE  lo2[i] = pos2[i]
  <2>1. CASE i = item
    BY <1>6, <2>1
  <2>2. CASE i \in S
    <3>1. i # u /\ t.left[i] = Nobody
      BY <1>1, <1>6, <1>10, <2>2
    <3>2. lo[i] = pos[i] /\ pos[i] # pos[u] /\ pos[i] \in Nat /\ pos[u] \in Nat
      BY <1>1, <2>2, <3>1, LinkFacts
    <3>3. QED
      BY <1>6, <2>2, <3>2 DEF Moved
  <2>3. QED
    BY <1>7, <2>1, <2>2
<1>11. ASSUME NEW i \in S2, t.right[i] = Nobody
       PROVE  hi2[i] = pos2[i]
  <2>1. CASE i = item
    BY <1>6, <2>1
  <2>2. CASE i \in S
    <3>1. hi[i] = pos[i] /\ pos[i] \in Nat
      BY <1>1, <1>11, <2>2, LinkFacts
    <3>2. QED
      BY <1>1, <1>6, <2>2, <3>1 DEF Moved
  <2>3. QED
    BY <1>7, <2>1, <2>2
<1>12. ASSUME NEW i \in S2, NEW c, c = left2[i], c # Nobody
       PROVE  /\ c \in S2 /\ parent2[c] = i
              /\ lo2[c] = lo2[i] /\ hi2[c] = pos2[i] - 1
  <2>1. CASE i = u
    <3>1. c = item
      BY <1>6, <1>12, <2>1
    <3>2. lo[u] = pos[u] /\ pos[u] \in Nat
      BY <1>1, LinkFacts
    <3>3. QED
      BY <1>6, <1>8, <2>1, <3>1, <3>2 DEF Moved
  <2>2. CASE i # u
    <3>1. i \in S /\ c = t.left[i]
      BY <1>6, <1>7, <1>12, <2>2
    <3>2. c \in S /\ t.parent[c] = i /\ lo[c] = lo[i] /\ hi[c] = pos[i] - 1
      BY <1>12, <3>1, LinkFacts
    <3>3. pos[i] \in Nat /\ pos[u] \in Nat /\ pos[i] # pos[u] /\ lo[i] \in Nat /\ hi[i] \in Nat /\ 1 <= pos[i]
      BY <1>1, <2>2, <3>1
    <3>4. lo2[c] = Moved(lo[i], q + 1) /\ hi2[c] = Moved(pos[i] - 1, q)
      BY <1>6, <3>2
    <3>5. lo2[i] = Moved(lo[i], q + 1) /\ pos2[i] = Moved(pos[i], q)
      BY <1>6, <3>1
    <3>6. lo2[c] = lo2[i] /\ hi2[c] = pos2[i] - 1
      BY <3>3, <3>4, <3>5 DEF Moved
    <3>7. QED
      BY <1>6, <1>8, <3>2, <3>6
  <2>3. QED
    BY <2>1, <2>2
<1>13. ASSUME NEW i \in S2, NEW c, c = t.right[i], c # Nobody
       PROVE  /\ c \in S2 /\ parent2[c] = i
              /\ lo2[c] = pos2[i] + 1 /\ hi2[c] = hi2[i]
  <2>1. i \in S
    BY <1>6, <1>7, <1>13
  <2>2. c \in S /\ t.parent[c] = i /\ lo[c] = pos[i] + 1 /\ hi[c] = hi[i]
    BY <1>13, <2>1, LinkFacts
  <2>3. pos[i] \in Nat /\ pos[u] \in Nat /\ lo[i] \in Nat /\ hi[i] \in Nat /\ 1 <= pos[i]
    BY <1>1, <2>1
  <2>4. lo2[c] = Moved(pos[i] + 1, q + 1) /\ hi2[c] = Moved(hi[i], q)
    BY <1>6, <2>2
  <2>5. hi2[i] = Moved(hi[i], q) /\ pos2[i] = Moved(pos[i], q)
    BY <1>6, <2>1
  <2>6. lo2[c] = pos2[i] + 1 /\ hi2[c] = hi2[i]
    BY <2>3, <2>4, <2>5 DEF Moved
  <2>7. QED
    BY <1>6, <1>8, <2>2, <2>6
<1>14. ASSUME NEW i \in S2
       PROVE  /\ parent2[i] = Nobody => i = t.root
              /\ parent2[i] # Nobody => parent2[i] \in S2 /\ (left2[parent2[i]] = i \/ t.right[parent2[i]] = i)
  <2>1. CASE i = item
    BY <1>1, <1>6, <1>8, <2>1
  <2>2. ASSUME i \in S, NEW p, p = t.parent[i]
        PROVE  /\ parent2[i] = Nobody => i = t.root
               /\ parent2[i] # Nobody => parent2[i] \in S2 /\ (left2[parent2[i]] = i \/ t.right[parent2[i]] = i)
    <3>1. parent2[i] = p /\ i # Nobody
      BY <1>1, <1>6, <2>2
    <3>2. p = Nobody => i = t.root
      <4>1. \A j \in S : t.parent[j] = Nobody => j = t.root
        BY LinkFacts
      <4>2. QED
        BY <2>2, <4>1
    <3>3. p # Nobody => p \in S /\ (t.left[p] = i \/ t.right[p] = i)
      BY <2>2, LinkFacts
    <3>4. p # Nobody /\ t.left[p] = i => p # u
      BY <3>1
    <3>5. p # Nobody => p \in S2 /\ (left2[p] = i \/ t.right[p] = i)
      BY <1>6, <1>8, <3>3, <3>4
    <3>6. QED
      BY <3>1, <3>2, <3>5
  <2>3. QED
    BY <1>7, <2>1, <2>2
<1>15. ASSUME NEW i \in Items \ S2
       PROVE  parent2[i] = Nobody /\ left2[i] = Nobody /\ t.right[i] = Nobody
  <2>1. i \in Items \ S /\ i # item /\ i # u
    BY <1>8, <1>15
  <2>2. t.parent[i] = Nobody /\ t.left[i] = Nobody /\ t.right[i] = Nobody
    BY <2>1, LinkFacts
  <2>3. QED
    BY <1>6, <2>1, <2>2
<1>16. Drawn(t2.root, t2.parent, t2.left, t2.right, S2, n + 1, pos2, lo2, hi2)
  <2>1. t2.root \in 0..NodeMax /\ t2.parent \in Links /\ t2.left \in Links /\ t2.right \in Links
    BY <1>5 DEF Trees
  <2>2. n + 1 # 0
    BY <1>1
  <2>3. QED
    BY <1>5, <1>9, <1>10, <1>11, <1>12, <1>13, <1>14, <1>15, <2>1, <2>2 DEF Drawn
<1>17. Shape(t2, S2, n + 1, WithNew(s, n, item, q), pos2, lo2, hi2)
  BY <1>3, <1>5, <1>16 DEF Shape
<1>18. QED
  BY <1>17 DEF S2, pos2, lo2, hi2


LEMMA HangRight ==
  ASSUME NEW t, NEW S, NEW n, NEW s, NEW pos, NEW lo, NEW hi, Shape(t, S, n, s, pos, lo, hi),
         NEW item \in Items, item \notin S, NEW u \in S, t.right[u] = Nobody, NEW t2, Hung(t2, t, item, u, "right"),
         NEW q, q = pos[u] + 1
  PROVE  Shape(t2, S \cup {item}, n + 1,
               WithNew(s, n, item, q), MovedAll(pos, q, item, q),
               MovedAll(lo, q, item, q), MovedAll(hi, pos[u], item, q))
<1> DEFINE S2 == S \cup {item}
           pos2 == MovedAll(pos, q, item, q)
           lo2 == MovedAll(lo, q, item, q)
           hi2 == MovedAll(hi, pos[u], item, q)
           parent2 == [t.parent EXCEPT ![item] = u]
           right2 == [t.right EXCEPT ![u] = item]
<1>1. /\ n \in Nat /\ S \subseteq Items
      /\ \A i \in Items : pos[i] \in Nat /\ lo[i] \in Nat /\ hi[i] \in Nat
      /\ \A i \in S : /\ 1 <= lo[i] /\ lo[i] <= pos[i] /\ pos[i] <= hi[i] /\ hi[i] <= n
                      /\ i \in Items /\ i # item /\ i # Nobody /\ (pos[i] = pos[u] => i = u)
      /\ u \in Items /\ item # Nobody /\ u # item
  <2>1. \A i \in S : i \in Items /\ s[pos[i]] = i
    BY NumberFacts
  <2>2. QED
    BY <2>1, NumberFacts, ItemsAreNumbers
<1>2. q \in Nat /\ q \in 1..n + 1
  BY <1>1
<1>3. Numbered(S2, n + 1, WithNew(s, n, item, q), pos2, lo2, hi2)
  <2>1. Numbered(S, n, s, pos, lo, hi)
    BY DEF Shape
  <2>2. q \in {q, q + 1} /\ pos[u] \in Nat /\ pos[u] + 1 \in {q, q + 1}
    BY <1>1, <1>2
  <2> HIDE DEF S2, pos2, lo2, hi2
  <2>3. QED
    BY <1>2, <2>1, <2>2, NumbersMove DEF S2, pos2, lo2, hi2
<1>4. t \in Trees
  BY DEF Shape
<1>5. /\ t2 \in Trees /\ t2.root = t.root /\ t2.parent = parent2 /\ t2.right = right2 /\ t2.left = t.left
  BY <1>1, <1>4, ItemsAreNumbers DEF Trees, Links, Hung
<1>6. /\ \A i \in S : /\ pos2[i] = Moved(pos[i], q) /\ lo2[i] = Moved(lo[i], q) /\ hi2[i] = Moved(hi[i], pos[u])
                       /\ parent2[i] = t.parent[i] /\ (i # u => right2[i] = t.right[i])
      /\ pos2[item] = q /\ lo2[item] = q /\ hi2[item] = q
      /\ parent2[item] = u /\ right2[u] = item /\ right2[item] = Nobody /\ t.left[item] = Nobody
      /\ \A i \in Items : (i # item => parent2[i] = t.parent[i]) /\ (i # u => right2[i] = t.right[i])
  <2>1. /\ t.parent \in [Items -> 0..NodeMax] /\ t.right \in [Items -> 0..NodeMax]
        /\ t.right[item] = Nobody /\ t.left[item] = Nobody
    BY LinkFacts
  <2>2. QED
    BY <1>1, <2>1 DEF MovedAll
<1> HIDE DEF S2, pos2, lo2, hi2, parent2, right2
<1>7. \A i \in S2 : i \in S \/ i = item
  BY DEF S2
<1>8. S \subseteq S2 /\ item \in S2
  BY DEF S2
<1>9. /\ t.root # Nobody /\ t.root \in S2 /\ parent2[t.root] = Nobody /\ lo2[t.root] = 1 /\ hi2[t.root] = n + 1
  <2>1. n # 0
    BY <1>1
  <2>2. t.root \in S /\ t.parent[t.root] = Nobody /\ lo[t.root] = 1 /\ hi[t.root] = n
    BY <2>1, LinkFacts
  <2>3. pos[u] \in Nat /\ 1 <= pos[u] /\ pos[u] <= n
    BY <1>1
  <2>4. lo2[t.root] = 1 /\ hi2[t.root] = n + 1
    BY <1>1, <1>6, <2>2, <2>3 DEF Moved
  <2>5. QED
    BY <1>1, <1>6, <1>8, <2>2, <2>4
<1>10. ASSUME NEW i \in S2, right2[i] = Nobody
       PROVE  hi2[i] = pos2[i]
  <2>1. CASE i = item
    BY <1>6, <2>1
  <2>2. CASE i \in S
    <3>1. i # u /\ t.right[i] = Nobody
      BY <1>1, <1>6, <1>10, <2>2
    <3>2. hi[i] = pos[i] /\ pos[i] # pos[u] /\ pos[i] \in Nat /\ pos[u] \in Nat
      BY <1>1, <2>2, <3>1, LinkFacts
    <3>3. QED
      BY <1>6, <2>2, <3>2 DEF Moved
  <2>3. QED
    BY <1>7, <2>1, <2>2
<1>11. ASSUME NEW i \in S2, t.left[i] = Nobody
       PROVE  lo2[i] = pos2[i]
  <2>1. CASE i = item
    BY <1>6, <2>1
  <2>2. CASE i \in S
    <3>1. lo[i] = pos[i] /\ pos[i] \in Nat
      BY <1>1, <1>11, <2>2, LinkFacts
    <3>2. QED
      BY <1>1, <1>6, <2>2, <3>1 DEF Moved
  <2>3. QED
    BY <1>7, <2>1, <2>2
<1>12. ASSUME NEW i \in S2, NEW c, c = right2[i], c # Nobody
       PROVE  /\ c \in S2 /\ parent2[c] = i
              /\ lo2[c] = pos2[i] + 1 /\ hi2[c] = hi2[i]
  <2>1. CASE i = u
    <3>1. c = item
      BY <1>6, <1>12, <2>1
    <3>2. hi[u] = pos[u] /\ pos[u] \in Nat
      BY <1>1, LinkFacts
    <3>3. QED
      BY <1>6, <1>8, <2>1, <3>1, <3>2 DEF Moved
  <2>2. CASE i # u
    <3>1. i \in S /\ c = t.right[i]
      BY <1>6, <1>7, <1>12, <2>2
    <3>2. c \in S /\ t.parent[c] = i /\ lo[c] = pos[i] + 1 /\ hi[c] = hi[i]
      BY <1>12, <3>1, LinkFacts
    <3>3. pos[i] \in Nat /\ pos[u] \in Nat /\ pos[i] # pos[u] /\ lo[i] \in Nat /\ hi[i] \in Nat /\ 1 <= pos[i]
      BY <1>1, <2>2, <3>1
    <3>4. lo2[c] = Moved(pos[i] + 1, q) /\ hi2[c] = Moved(hi[i], pos[u])
      BY <1>6, <3>2
    <3>5. hi2[i] = Moved(hi[i], pos[u]) /\ pos2[i] = Moved(pos[i], q)
      BY <1>6, <3>1
    <3>6. lo2[c] = pos2[i] + 1 /\ hi2[c] = hi2[i]
      BY <3>3, <3>4, <3>5 DEF Moved
    <3>7. QED
      BY <1>6, <1>8, <3>2, <3>6
  <2>3. QED
    BY <2>1, <2>2
<1>13. ASSUME NEW i \in S2, NEW c, c = t.left[i], c # Nobody
       PROVE  /\ c \in S2 /\ parent2[c] = i
              /\ lo2[c] = lo2[i] /\ hi2[c] = pos2[i] - 1
  <2>1. i \in S
    BY <1>6, <1>7, <1>13
  <2>2. c \in S /\ t.parent[c] = i /\ lo[c] = lo[i] /\ hi[c] = pos[i] - 1
    BY <1>13, <2>1, LinkFacts
  <2>3. pos[i] \in Nat /\ pos[u] \in Nat /\ lo[i] \in Nat /\ hi[i] \in Nat /\ 1 <= pos[i]
    BY <1>1, <2>1
  <2>4. lo2[c] = Moved(lo[i], q) /\ hi2[c] = Moved(pos[i] - 1, pos[u])
    BY <1>6, <2>2
  <2>5. lo2[i] = Moved(lo[i], q) /\ pos2[i] = Moved(pos[i], q)
    BY <1>6, <2>1
  <2>6. lo2[c] = lo2[i] /\ hi2[c] = pos2[i] - 1
    BY <2>3, <2>4, <2>5 DEF Moved
  <2>7. QED
    BY <1>6, <1>8, <2>2, <2>6
<1>14. ASSUME NEW i \in S2
       PROVE  /\ parent2[i] = Nobody => i = t.root
              /\ parent2[i] # Nobody => parent2[i] \in S2 /\ (right2[parent2[i]] = i \/ t.left[parent2[i]] = i)
  <2>1. CASE i = item
    BY <1>1, <1>6, <1>8, <2>1
  <2>2. ASSUME i \in S, NEW p, p = t.parent[i]
        PROVE  /\ parent2[i] = Nobody => i = t.root
               /\ parent2[i] # Nobody => parent2[i] \in S2 /\ (right2[parent2[i]] = i \/ t.left[parent2[i]] = i)
    <3>1. parent2[i] = p /\ i # Nobody
      BY <1>1, <1>6, <2>2
    <3>2. p = Nobody => i = t.root
      <4>1. \A j \in S : t.parent[j] = Nobody => j = t.root
        BY LinkFacts
      <4>2. QED
        BY <2>2, <4>1
    <3>3. p # Nobody => p \in S /\ (t.right[p] = i \/ t.left[p] = i)
      BY <2>2, LinkFacts
    <3>4. p # Nobody /\ t.right[p] = i => p # u
      BY <3>1
    <3>5. p # Nobody => p \in S2 /\ (right2[p] = i \/ t.left[p] = i)
      BY <1>6, <1>8, <3>3, <3>4
    <3>6. QED
      BY <3>1, <3>2, <3>5
  <2>3. QED
    BY <1>7, <2>1, <2>2
<1>15. ASSUME NEW i \in Items \ S2
       PROVE  parent2[i] = Nobody /\ right2[i] = Nobody /\ t.left[i] = Nobody
  <2>1. i \in Items \ S /\ i # item /\ i # u
    BY <1>8, <1>15
  <2>2. t.parent[i] = Nobody /\ t.right[i] = Nobody /\ t.left[i] = Nobody
    BY <2>1, LinkFacts
  <2>3. QED
    BY <1>6, <2>1, <2>2
<1>16. Drawn(t2.root, t2.parent, t2.left, t2.right, S2, n + 1, pos2, lo2, hi2)
  <2>1. t2.root \in 0..NodeMax /\ t2.parent \in Links /\ t2.left \in Links /\ t2.right \in Links
    BY <1>5 DEF Trees
  <2>2. n + 1 # 0
    BY <1>1
  <2>3. QED
    BY <1>5, <1>9, <1>10, <1>11, <1>12, <1>13, <1>14, <1>15, <2>1, <2>2 DEF Drawn
<1>17. Shape(t2, S2, n + 1, WithNew(s, n, item, q), pos2, lo2, hi2)
  BY <1>3, <1>5, <1>16 DEF Shape
<1>18. QED
  BY <1>17 DEF S2, pos2, lo2, hi2

(* A tree of the members S, with keys that rise if they should.             *)
Grown(t, S, key, rises) ==
  \E n, s, pos, lo, hi : Shape(t, S, n, s, pos, lo, hi) /\ (rises => Rising(S, pos, key))

LEMMA FirstGrows ==
  ASSUME NEW t, NEW S, NEW n, NEW s, NEW pos, NEW lo, NEW hi, Shape(t, S, n, s, pos, lo, hi), t.root = Nobody,
         NEW item \in Items, NEW key, NEW rises
  PROVE  Grown([t EXCEPT !.root = item], S \cup {item}, key, rises)
<1> DEFINE one == [i \in Items |-> 1]
           row == [p \in 1..1 |-> item]
           t2 == [t EXCEPT !.root = item]
<1>1. S = {} /\ n = 0
  <2>1. n = 0
    <3>1. n # 0 => t.root \in S /\ t.root # Nobody
      BY LinkFacts, NumberFacts, ItemsAreNumbers
    <3>2. QED
      BY <3>1
  <2>2. QED
    BY <2>1, NumberFacts
<1>2. t \in Trees /\ item \in 0..NodeMax /\ item # Nobody
  BY ItemsAreNumbers DEF Shape
<1>3. /\ t2 \in Trees /\ t2.root = item /\ t2.parent = t.parent /\ t2.left = t.left /\ t2.right = t.right
  BY <1>2 DEF Trees
<1>4. \A i \in Items : t.parent[i] = Nobody /\ t.left[i] = Nobody /\ t.right[i] = Nobody
  BY <1>1, LinkFacts
<1>5. one \in [Items -> Nat] /\ \A i \in Items : one[i] = 1
  OBVIOUS
<1>6. row \in [1..1 -> {item}] /\ row[1] = item
  OBVIOUS
<1> HIDE DEF one, row, t2
<1>7. Numbered({item}, 1, row, one, one, one)
  <2>1. \A p \in 1..1 : p = 1 /\ row[p] = item
    BY <1>6
  <2>2. QED
    BY <1>5, <1>6, <2>1 DEF Numbered
<1>8. Drawn(t2.root, t2.parent, t2.left, t2.right, {item}, 1, one, one, one)
  <2>1. t2.root \in 0..NodeMax /\ t2.parent \in Links /\ t2.left \in Links /\ t2.right \in Links
    BY <1>3 DEF Trees
  <2>2. QED
    BY <1>2, <1>3, <1>4, <1>5, <2>1 DEF Drawn
<1>9. Shape(t2, {item}, 1, row, one, one, one)
  BY <1>3, <1>7, <1>8 DEF Shape
<1>10. Rising({item}, one, key)
  BY <1>5 DEF Rising
<1>11. S \cup {item} = {item}
  BY <1>1
<1>12. Grown(t2, S \cup {item}, key, rises)
  BY <1>9, <1>10, <1>11 DEF Grown
<1>13. QED
  BY <1>12 DEF t2

LEMMA RisingMoves ==
  ASSUME NEW S, NEW pos, NEW key, NEW item \in Items, item \notin S, NEW q \in Nat, NEW k \in Nat,
         S \subseteq Items, pos \in [Items -> Nat], key \in [Items -> Nat], Rising(S, pos, key),
         \A j \in S : (pos[j] < q => key[j] <= k) /\ (pos[j] >= q => key[j] >= k)
  PROVE  Rising(S \cup {item}, MovedAll(pos, q, item, q), [key EXCEPT ![item] = k])
<1> DEFINE pos2 == MovedAll(pos, q, item, q)
           key2 == [key EXCEPT ![item] = k]
<1>1. \A i \in S : /\ pos2[i] = Moved(pos[i], q) /\ key2[i] = key[i] /\ pos[i] \in Nat /\ key[i] \in Nat
  BY DEF MovedAll
<1>2. pos2[item] = q /\ key2[item] = k
  BY DEF MovedAll
<1> HIDE DEF pos2, key2
<1>3. ASSUME NEW i \in S \cup {item}, NEW j \in S \cup {item}, pos2[i] < pos2[j]
      PROVE  key2[i] <= key2[j]
  <2>1. CASE i \in S /\ j \in S
    <3>1. pos[i] < pos[j]
      BY <1>1, <1>3, <2>1 DEF Moved
    <3>2. QED
      BY <1>1, <2>1, <3>1 DEF Rising
  <2>2. CASE i = item /\ j \in S
    <3>1. pos[j] >= q
      BY <1>1, <1>2, <1>3, <2>2 DEF Moved
    <3>2. QED
      BY <1>1, <1>2, <2>2, <3>1
  <2>3. CASE i \in S /\ j = item
    <3>1. pos[i] < q
      BY <1>1, <1>2, <1>3, <2>3 DEF Moved
    <3>2. QED
      BY <1>1, <1>2, <2>3, <3>1
  <2>4. CASE i = item /\ j = item
    BY <1>2, <1>3, <2>4
  <2>5. QED
    BY <2>1, <2>2, <2>3, <2>4
<1>4. Rising(S \cup {item}, pos2, key2)
  BY <1>3 DEF Rising
<1>5. QED
  BY <1>4 DEF pos2, key2

(* The insertion of an item where Place has found a place for its key.     *)
LEMMA HangKeeps ==
  ASSUME NEW t, NEW S, NEW key \in [Items -> Nat], NEW rises, Grown(t, S, key, rises),
         NEW item \in Items, item \notin S, NEW k \in Nat, NEW duplicates, NEW place,
         place = Place(t, key, k, duplicates), place.side # "exists"
  PROVE  Grown(Hang(t, item, place), S \cup {item}, [key EXCEPT ![item] = k], rises)
<1>1. PICK n, s, pos, lo, hi : Shape(t, S, n, s, pos, lo, hi) /\ (rises => Rising(S, pos, key))
  BY DEF Grown
<1> DEFINE key2 == [key EXCEPT ![item] = k]
           S2 == S \cup {item}
<1>2. CASE t.root = Nobody
  <2>1. place.under = Nobody
    <3>1. place = [under |-> Nobody, side |-> "left"]
      BY <1>1, <1>2, PlaceIs
    <3>2. QED
      BY <3>1
  <2>2. Hang(t, item, place) = [t EXCEPT !.root = item]
    BY <2>1 DEF Hang
  <2> HIDE DEF key2
  <2>3. Grown([t EXCEPT !.root = item], S2, key2, rises)
    BY <1>1, <1>2, FirstGrows
  <2>4. QED
    BY <2>2, <2>3 DEF key2
<1>3. ASSUME t.root # Nobody, NEW u, u = place.under, NEW q, q = Gap(place, pos)
      PROVE  Grown(Hang(t, item, place), S2, key2, rises)
  <2>1. FreePlace(place, t, S, pos, lo, hi, t.root)
    BY <1>1, <1>3, PlaceIs
  <2>2. u \in S /\ u \in Items /\ u # Nobody /\ pos[u] \in Nat
    BY <1>1, <1>3, <2>1, NumberFacts, ItemsAreNumbers DEF FreePlace
  <2>3. place.side \in {"left", "right"} /\ t[place.side][u] = Nobody
    BY <1>3, <2>1 DEF FreePlace
  <2>4. t["left"] = t.left /\ t["right"] = t.right
    BY <1>1, LinkFacts
  <2>5. Hung(Hang(t, item, place), t, item, u, place.side)
    BY <1>3, <2>2 DEF Hang, Hung
  <2>6. q \in Nat
    BY <1>3, <2>2 DEF Gap
  <2>7. rises => Rising(S2, MovedAll(pos, q, item, q), key2)
    <3>1. SUFFICES ASSUME rises
                   PROVE  Rising(S2, MovedAll(pos, q, item, q), key2)
      OBVIOUS
    <3>2. Rising(S, pos, key)
      BY <1>1, <3>1
    <3>3. KeysBetween(place, S, pos, lo, hi, key, k, t.root)
      BY <1>1, <1>3, <3>2, PlaceIs
    <3>4. lo[t.root] = 1 /\ hi[t.root] = n
      <4>1. n # 0
        BY <1>1, <1>3, LinkFacts
      <4>2. QED
        BY <1>1, <4>1, LinkFacts
    <3>5. S \subseteq Items /\ pos \in [Items -> Nat] /\ \A j \in S : 1 <= pos[j] /\ pos[j] <= n
      <4>1. S \subseteq Items /\ pos \in [Items -> Nat]
        BY <1>1 DEF Shape, Numbered
      <4>2. ASSUME NEW j \in S
            PROVE  1 <= pos[j] /\ pos[j] <= n
        <5>1. /\ 1 <= lo[j] /\ lo[j] <= pos[j] /\ pos[j] <= hi[j] /\ hi[j] <= n /\ n \in Nat
              /\ lo[j] \in Nat /\ pos[j] \in Nat /\ hi[j] \in Nat
          BY <1>1, <4>1, NumberFacts
        <5>2. QED
          BY <5>1
      <4>3. QED
        BY <4>1, <4>2
    <3>6. \A j \in S : (pos[j] < q => key[j] <= k) /\ (pos[j] >= q => key[j] >= k)
      BY <1>3, <3>3, <3>4, <3>5 DEF KeysBetween
    <3>7. QED
      BY <2>6, <3>2, <3>5, <3>6, RisingMoves
  <2> HIDE DEF key2, S2
  <2>8. CASE place.side = "left"
    <3>1. q = pos[u] /\ t.left[u] = Nobody
      BY <1>3, <2>3, <2>4, <2>8 DEF Gap
    <3>2. \E n2, s2, pos2, lo2, hi2 :
            Shape(Hang(t, item, place), S2, n2, s2, pos2, lo2, hi2) /\ pos2 = MovedAll(pos, q, item, q)
      <4>1. Hung(Hang(t, item, place), t, item, u, "left")
        BY <2>5, <2>8
      <4>2. Shape(Hang(t, item, place), S \cup {item}, n + 1, WithNew(s, n, item, q), MovedAll(pos, q, item, q),
                  MovedAll(lo, q + 1, item, q), MovedAll(hi, q, item, q))
        BY <1>1, <2>2, <3>1, <4>1, HangLeft
      <4>3. QED
        BY <4>2, Zenon DEF S2
    <3>3. PICK n2, s2, pos2, lo2, hi2 :
            Shape(Hang(t, item, place), S2, n2, s2, pos2, lo2, hi2) /\ pos2 = MovedAll(pos, q, item, q)
      BY <3>2
    <3>4. rises => Rising(S2, pos2, key2)
      BY <2>7, <3>3
    <3>5. QED
      BY <3>3, <3>4 DEF Grown
  <2>9. CASE place.side = "right"
    <3>1. q = pos[u] + 1 /\ t.right[u] = Nobody
      BY <1>3, <2>3, <2>4, <2>9 DEF Gap
    <3>2. \E n2, s2, pos2, lo2, hi2 :
            Shape(Hang(t, item, place), S2, n2, s2, pos2, lo2, hi2) /\ pos2 = MovedAll(pos, q, item, q)
      <4>1. Hung(Hang(t, item, place), t, item, u, "right")
        BY <2>5, <2>9
      <4>2. Shape(Hang(t, item, place), S \cup {item}, n + 1, WithNew(s, n, item, q), MovedAll(pos, q, item, q),
                  MovedAll(lo, q, item, q), MovedAll(hi, pos[u], item, q))
        BY <1>1, <2>2, <3>1, <4>1, HangRight
      <4>3. QED
        BY <4>2, Zenon DEF S2
    <3>3. PICK n2, s2, pos2, lo2, hi2 :
            Shape(Hang(t, item, place), S2, n2, s2, pos2, lo2, hi2) /\ pos2 = MovedAll(pos, q, item, q)
      BY <3>2
    <3>4. rises => Rising(S2, pos2, key2)
      BY <2>7, <3>3
    <3>5. QED
      BY <3>3, <3>4 DEF Grown
  <2>10. QED
    BY <2>3, <2>8, <2>9
<1>4. QED
  BY <1>2, <1>3, Zenon

-----------------------------------------------------------------------------
(* The numbers after position p is given up.                                *)
Dropped(v, p) == IF v > p THEN v - 1 ELSE v
DroppedAll(f, p) == [i \in Items |-> Dropped(f[i], p)]
RowWithout(s, n, p) == [k \in 1..n - 1 |-> IF k < p THEN s[k] ELSE s[k + 1]]

LEMMA NumbersDrop ==
  ASSUME NEW S, NEW n, NEW s, NEW pos, NEW lo, NEW hi, Numbered(S, n, s, pos, lo, hi), NEW x \in S, NEW p, p = pos[x],
         \A i \in S : i # x => (lo[i] = p => lo[i] < hi[i]) /\ (pos[i] > p \/ lo[i] # p \/ hi[i] # p)
  PROVE  Numbered(S \ {x}, n - 1, RowWithout(s, n, p), DroppedAll(pos, p), DroppedAll(lo, p), DroppedAll(hi, p - 1))
<1> DEFINE s2 == RowWithout(s, n, p)
           pos2 == DroppedAll(pos, p)
           lo2 == DroppedAll(lo, p)
           hi2 == DroppedAll(hi, p - 1)
           S2 == S \ {x}
<1>1. /\ n \in Nat /\ S \subseteq Items /\ S2 \subseteq Items /\ s \in [1..n -> S]
      /\ \A i \in Items : pos[i] \in Nat /\ lo[i] \in Nat /\ hi[i] \in Nat
      /\ \A i \in S : 1 <= lo[i] /\ lo[i] <= pos[i] /\ pos[i] <= hi[i] /\ hi[i] <= n /\ s[pos[i]] = i
      /\ \A k \in 1..n : s[k] \in S /\ pos[s[k]] = k
  BY DEF Numbered
<1>2. p \in Nat /\ 1 <= p /\ p <= n /\ s[p] = x /\ n - 1 \in Nat
  <2>1. x \in Items /\ 1 <= lo[x] /\ lo[x] <= pos[x] /\ pos[x] <= hi[x] /\ hi[x] <= n /\ s[pos[x]] = x
    BY <1>1
  <2>2. pos[x] \in Nat /\ lo[x] \in Nat /\ hi[x] \in Nat /\ n \in Nat
    BY <1>1, <2>1
  <2>3. QED
    BY <2>1, <2>2
<1>3. \A i \in S2 : i \in S /\ i \in Items /\ i # x /\ pos[i] \in Nat /\ lo[i] \in Nat /\ hi[i] \in Nat /\ pos[i] # p
  <2>1. ASSUME NEW i \in S2
        PROVE  pos[i] # p
    <3>1. s[pos[i]] = i /\ i # x
      BY <1>1
    <3>2. QED
      BY <1>2, <3>1
  <2>2. QED
    BY <1>1, <2>1
<1>4. pos2 \in [Items -> Nat] /\ lo2 \in [Items -> Nat] /\ hi2 \in [Items -> Nat]
  <2>1. ASSUME NEW v \in Nat
        PROVE  Dropped(v, p) \in Nat /\ Dropped(v, p - 1) \in Nat
    BY <1>2 DEF Dropped
  <2>2. QED
    BY <1>1, <2>1 DEF DroppedAll
<1>5. \A i \in S : pos2[i] = Dropped(pos[i], p) /\ lo2[i] = Dropped(lo[i], p) /\ hi2[i] = Dropped(hi[i], p - 1)
  BY <1>1 DEF DroppedAll
<1>6. \A k \in 1..n - 1 : s2[k] = IF k < p THEN s[k] ELSE s[k + 1]
  BY DEF RowWithout
<1>7. ASSUME NEW k \in 1..n - 1
      PROVE  (k < p => s[k] \in S2) /\ (~ (k < p) => s[k + 1] \in S2)
  <2>1. CASE k < p
    <3>1. k \in 1..n /\ k # p
      BY <1>1, <1>2, <2>1
    <3>2. s[k] \in S /\ pos[s[k]] = k
      BY <1>1, <3>1
    <3>3. QED
      BY <2>1, <3>1, <3>2
  <2>2. ASSUME ~ (k < p), NEW m, m = k + 1
        PROVE  s[m] \in S2
    <3>1. m \in 1..n /\ m # p
      BY <1>1, <1>2, <2>2
    <3>2. s[m] \in S /\ pos[s[m]] = m
      BY <1>1, <3>1
    <3>3. QED
      BY <3>1, <3>2
  <2>3. QED
    BY <2>1, <2>2
<1>8. s2 \in [1..n - 1 -> S2]
  <2> HIDE DEF S2
  <2>1. QED
    BY <1>7 DEF RowWithout
<1> HIDE DEF s2, pos2, lo2, hi2
<1>9. ASSUME NEW i \in S2
      PROVE  1 <= lo2[i] /\ lo2[i] <= pos2[i] /\ pos2[i] <= hi2[i] /\ hi2[i] <= n - 1 /\ s2[pos2[i]] = i
  <2>1. i \in S /\ pos[i] \in Nat /\ lo[i] \in Nat /\ hi[i] \in Nat /\ pos[i] # p
    BY <1>3
  <2>2. 1 <= lo[i] /\ lo[i] <= pos[i] /\ pos[i] <= hi[i] /\ hi[i] <= n /\ s[pos[i]] = i
    BY <1>1, <2>1
  <2>3. pos2[i] = Dropped(pos[i], p) /\ lo2[i] = Dropped(lo[i], p) /\ hi2[i] = Dropped(hi[i], p - 1)
    BY <1>5, <2>1
  <2>4. 1 <= lo2[i] /\ lo2[i] <= pos2[i] /\ pos2[i] <= hi2[i] /\ hi2[i] <= n - 1
    <3>1. n \in Nat /\ p \in Nat /\ 1 <= p /\ p <= n
      BY <1>1, <1>2
    <3>2. 1 <= lo2[i] /\ lo2[i] <= pos2[i]
      BY <2>1, <2>2, <2>3, <3>1 DEF Dropped
    <3>3. pos2[i] <= hi2[i] /\ hi2[i] <= n - 1
      BY <2>1, <2>2, <2>3, <3>1 DEF Dropped
    <3>4. QED
      BY <3>2, <3>3
  <2>5. ASSUME NEW k, k = pos2[i]
        PROVE  s2[k] = i
    <3>1. CASE pos[i] < p
      <4>1. k = pos[i] /\ k < p /\ k \in 1..n - 1
        BY <1>1, <1>2, <2>1, <2>2, <2>3, <2>5, <3>1 DEF Dropped
      <4>2. QED
        BY <1>6, <2>2, <4>1
    <3>2. CASE ~ (pos[i] < p)
      <4>1. k + 1 = pos[i] /\ ~ (k < p) /\ k \in 1..n - 1
        BY <1>1, <1>2, <2>1, <2>2, <2>3, <2>5, <3>2 DEF Dropped
      <4>2. s2[k] = s[k + 1]
        BY <1>6, <4>1
      <4>3. QED
        BY <2>2, <4>1, <4>2
    <3>3. QED
      BY <3>1, <3>2
  <2>6. QED
    BY <2>4, <2>5
<1>10. ASSUME NEW k \in 1..n - 1
       PROVE  pos2[s2[k]] = k
  <2>1. CASE k < p
    <3>1. s2[k] = s[k] /\ k \in 1..n
      BY <1>1, <1>6, <2>1
    <3>2. s[k] \in S /\ pos[s[k]] = k
      BY <1>1, <3>1
    <3>3. pos2[s[k]] = Dropped(k, p)
      BY <1>5, <3>2
    <3>4. QED
      BY <1>2, <2>1, <3>1, <3>3 DEF Dropped
  <2>2. ASSUME ~ (k < p), NEW m, m = k + 1
        PROVE  pos2[s2[k]] = k
    <3>1. s2[k] = s[m] /\ m \in 1..n /\ m > p /\ m - 1 = k
      BY <1>1, <1>2, <1>6, <2>2
    <3>2. s[m] \in S /\ pos[s[m]] = m
      BY <1>1, <3>1
    <3>3. pos2[s[m]] = Dropped(m, p)
      BY <1>5, <3>2
    <3>4. QED
      BY <3>1, <3>3 DEF Dropped
  <2>3. QED
    BY <2>1, <2>2
<1>11. Numbered(S2, n - 1, s2, pos2, lo2, hi2)
  BY <1>1, <1>2, <1>4, <1>8, <1>9, <1>10 DEF Numbered
<1>12. QED
  BY <1>11 DEF s2, pos2, lo2, hi2

(* An item with one child at most leaves its place to the child.            *)
OnlyChild(t, x, c) == (c = t.left[x] /\ t.right[x] = Nobody) \/ (c = t.right[x] /\ t.left[x] = Nobody)

Spliced(t2, t, x, c) ==
  /\ t2 \in Trees
  /\ t2.root = IF t.parent[x] = Nobody THEN c ELSE t.root
  /\ \A i \in Items :
       /\ t2.parent[i] = IF i = x THEN Nobody ELSE IF i = c THEN t.parent[x] ELSE t.parent[i]
       /\ t2.left[i] = IF i = x THEN Nobody ELSE IF t.left[i] = x THEN c ELSE t.left[i]
       /\ t2.right[i] = IF i = x THEN Nobody ELSE IF t.right[i] = x THEN c ELSE t.right[i]

LEMMA SpliceKeeps ==
  ASSUME NEW t, NEW S, NEW n, NEW s, NEW pos, NEW lo, NEW hi, Shape(t, S, n, s, pos, lo, hi),
         NEW x \in S, NEW c, OnlyChild(t, x, c), NEW t2, Spliced(t2, t, x, c), NEW p, p = pos[x]
  PROVE  Shape(t2, S \ {x}, n - 1, RowWithout(s, n, p), DroppedAll(pos, p), DroppedAll(lo, p), DroppedAll(hi, p - 1))
<1> DEFINE S2 == S \ {x}
           pos2 == DroppedAll(pos, p)
           lo2 == DroppedAll(lo, p)
           hi2 == DroppedAll(hi, p - 1)
           parent2 == t2.parent
           left2 == t2.left
           right2 == t2.right
<1>1. /\ n \in Nat /\ S \subseteq Items /\ p \in Nat /\ 1 <= p /\ p <= n
      /\ \A i \in Items : pos[i] \in Nat /\ lo[i] \in Nat /\ hi[i] \in Nat
      /\ \A i \in S : /\ 1 <= lo[i] /\ lo[i] <= pos[i] /\ pos[i] <= hi[i] /\ hi[i] <= n
                      /\ i \in Items /\ i # Nobody /\ (i # x => pos[i] # p)
                      /\ pos[i] \in Nat /\ lo[i] \in Nat /\ hi[i] \in Nat
      /\ x \in Items /\ x # Nobody /\ lo[x] <= p /\ p <= hi[x]
  <2>1. \A i \in S : i \in Items /\ s[pos[i]] = i
    BY NumberFacts
  <2>2. 1 <= p /\ p <= n /\ p \in Nat
    <3>1. /\ 1 <= lo[x] /\ lo[x] <= pos[x] /\ pos[x] <= hi[x] /\ hi[x] <= n
          /\ lo[x] \in Nat /\ hi[x] \in Nat /\ pos[x] \in Nat /\ n \in Nat
      BY <2>1, NumberFacts
    <3>2. QED
      BY <3>1
  <2>3. QED
    BY <2>1, <2>2, NumberFacts, ItemsAreNumbers
<1>2. /\ c # Nobody => /\ c \in S /\ c # x /\ t.parent[c] = x
                       /\ \/ lo[c] = lo[x] /\ hi[c] = p - 1 /\ hi[x] = p
                          \/ lo[c] = p + 1 /\ hi[c] = hi[x] /\ lo[x] = p
      /\ c = Nobody => lo[x] = p /\ hi[x] = p
      /\ \A i \in S : t.left[x] = i \/ t.right[x] = i => i = c
  <2>1. /\ t.left[x] = Nobody => lo[x] = p
        /\ t.right[x] = Nobody => hi[x] = p
        /\ t.left[x] # Nobody =>
             /\ t.left[x] \in S /\ t.parent[t.left[x]] = x
             /\ lo[t.left[x]] = lo[x] /\ hi[t.left[x]] = p - 1
        /\ t.right[x] # Nobody =>
             /\ t.right[x] \in S /\ t.parent[t.right[x]] = x
             /\ lo[t.right[x]] = p + 1 /\ hi[t.right[x]] = hi[x]
    BY LinkFacts
  <2>2. ASSUME c # Nobody
        PROVE  /\ c \in S /\ t.parent[c] = x
               /\ \/ lo[c] = lo[x] /\ hi[c] = p - 1 /\ hi[x] = p
                  \/ lo[c] = p + 1 /\ hi[c] = hi[x] /\ lo[x] = p
    BY <2>1, <2>2 DEF OnlyChild
  <2>3. c # Nobody => c # x
    BY <1>1, <2>2
  <2>4. c = Nobody => lo[x] = p /\ hi[x] = p
    BY <2>1 DEF OnlyChild
  <2>5. \A i \in S : t.left[x] = i \/ t.right[x] = i => i = c
    BY <1>1 DEF OnlyChild
  <2>6. QED
    BY <2>2, <2>3, <2>4, <2>5
<1>3. Numbered(S2, n - 1, RowWithout(s, n, p), pos2, lo2, hi2)
  <2>1. Numbered(S, n, s, pos, lo, hi)
    BY DEF Shape
  <2>2. \A i \in S : i # x => (lo[i] = p => lo[i] < hi[i]) /\ (pos[i] > p \/ lo[i] # p \/ hi[i] # p)
    BY <1>1
  <2>3. QED
    BY <2>1, <2>2, NumbersDrop
<1>6. /\ t2 \in Trees /\ t2.root = IF t.parent[x] = Nobody THEN c ELSE t.root
      /\ \A i \in Items :
           /\ parent2[i] = IF i = x THEN Nobody ELSE IF i = c THEN t.parent[x] ELSE t.parent[i]
           /\ left2[i] = IF i = x THEN Nobody ELSE IF t.left[i] = x THEN c ELSE t.left[i]
           /\ right2[i] = IF i = x THEN Nobody ELSE IF t.right[i] = x THEN c ELSE t.right[i]
      /\ \A i \in S :
           /\ parent2[i] = IF i = x THEN Nobody ELSE IF i = c THEN t.parent[x] ELSE t.parent[i]
           /\ left2[i] = IF i = x THEN Nobody ELSE IF t.left[i] = x THEN c ELSE t.left[i]
           /\ right2[i] = IF i = x THEN Nobody ELSE IF t.right[i] = x THEN c ELSE t.right[i]
  <2>1. \A i \in S : i \in Items
    BY <1>1
  <2>2. QED
    BY <2>1 DEF Spliced
<1>7. \A i \in S : pos2[i] = Dropped(pos[i], p) /\ lo2[i] = Dropped(lo[i], p) /\ hi2[i] = Dropped(hi[i], p - 1)
  BY <1>1 DEF DroppedAll
<1>8. \A i : i \in S2 <=> i \in S /\ i # x
  OBVIOUS
<1> HIDE DEF S2, pos2, lo2, hi2, parent2, left2, right2
<1>9. /\ n - 1 = 0 => t2.root = Nobody
      /\ n - 1 # 0 => t2.root \in S2 /\ parent2[t2.root] = Nobody /\ lo2[t2.root] = 1 /\ hi2[t2.root] = n - 1
  <2>0. n # 0 /\ t.root \in S /\ t.parent[t.root] = Nobody /\ lo[t.root] = 1 /\ hi[t.root] = n
    <3>1. n # 0
      BY <1>1
    <3>2. QED
      BY <3>1, LinkFacts
  <2>1. CASE t.parent[x] = Nobody
    <3>1. x = t.root /\ t2.root = c /\ lo[x] = 1 /\ hi[x] = n
      <4>1. x = t.root
        BY <2>1, LinkFacts
      <4>2. QED
        BY <1>6, <2>0, <2>1, <4>1
    <3>2. CASE c = Nobody
      BY <1>1, <1>2, <3>1, <3>2
    <3>3. CASE c # Nobody
      <4>1. c \in S /\ c # x /\ lo2[c] = Dropped(lo[c], p) /\ hi2[c] = Dropped(hi[c], p - 1)
        BY <1>2, <1>7, <3>3
      <4>2. parent2[c] = Nobody
        BY <1>6, <2>1, <4>1
      <4>3. /\ lo[c] \in Nat /\ hi[c] \in Nat /\ pos[c] \in Nat /\ lo[c] <= pos[c] /\ pos[c] <= hi[c] /\ 1 <= lo[c]
            /\ p \in Nat /\ n \in Nat /\ 1 <= p /\ p <= n
        BY <1>1, <4>1
      <4>4. (lo[c] = 1 /\ hi[c] = p - 1 /\ n = p) \/ (lo[c] = p + 1 /\ hi[c] = n /\ p = 1)
        BY <1>2, <3>1, <3>3
      <4>5. n - 1 # 0 /\ lo2[c] = 1 /\ hi2[c] = n - 1
        <5>1. CASE lo[c] = 1 /\ hi[c] = p - 1 /\ n = p
          <6>1. ~ (1 > p) /\ ~ (p - 1 > p - 1) /\ n - 1 # 0
            BY <4>3, <5>1
          <6>2. QED
            BY <4>1, <5>1, <6>1 DEF Dropped
        <5>2. CASE lo[c] = p + 1 /\ hi[c] = n /\ p = 1
          <6>1. p + 1 > p /\ (p + 1) - 1 = 1 /\ n > p - 1 /\ n - 1 # 0
            BY <4>3, <5>2
          <6>2. QED
            BY <4>1, <5>2, <6>1 DEF Dropped
        <5>3. QED
          BY <4>4, <5>1, <5>2
      <4>6. QED
        BY <1>8, <3>1, <4>1, <4>2, <4>5
    <3>4. QED
      BY <3>2, <3>3
  <2>2. CASE t.parent[x] # Nobody
    <3>1. t2.root = t.root /\ t.root # x
      BY <1>6, <2>0, <2>2
    <3>2. t.root # c
      BY <1>1, <1>2, <2>0
    <3>3. t.root \in S2 /\ parent2[t.root] = Nobody
      BY <1>6, <1>8, <2>0, <3>1, <3>2
    <3>4. lo2[t.root] = Dropped(1, p) /\ hi2[t.root] = Dropped(n, p - 1)
      BY <1>7, <2>0
    <3>5. lo2[t.root] = 1 /\ hi2[t.root] = n - 1
      BY <1>1, <3>4 DEF Dropped
    <3>6. n - 1 # 0
      <4>1. /\ pos[t.root] \in Nat /\ pos[t.root] # p /\ 1 <= lo[t.root] /\ lo[t.root] <= pos[t.root]
            /\ pos[t.root] <= hi[t.root] /\ hi[t.root] <= n /\ lo[t.root] \in Nat /\ hi[t.root] \in Nat
        BY <1>1, <2>0, <3>1
      <4>2. QED
        BY <1>1, <4>1
    <3>7. QED
      BY <3>1, <3>3, <3>5, <3>6
  <2>3. QED
    BY <2>1, <2>2
<1>10. ASSUME NEW i \in S2, left2[i] = Nobody
       PROVE  lo2[i] = pos2[i]
  <2>1. i \in S /\ i # x
    BY <1>8, <1>10
  <2>2. pos[i] \in Nat /\ pos[i] # p /\ lo[i] \in Nat /\ hi[i] \in Nat /\ p \in Nat /\ lo[i] <= pos[i] /\ pos[i] <= hi[i]
    BY <1>1, <2>1
  <2>3. CASE t.left[i] = x
    <3>1. c = Nobody
      BY <1>6, <1>10, <2>1, <2>3
    <3>2. lo[x] = p /\ hi[x] = p
      BY <1>2, <3>1
    <3>3. lo[x] = lo[i] /\ hi[x] = pos[i] - 1
      BY <1>1, <2>1, <2>3, LinkFacts
    <3>4. lo2[i] = pos2[i]
      BY <1>7, <2>1, <2>2, <3>2, <3>3 DEF Dropped
    <3>5. QED
      BY <3>4
  <2>4. CASE t.left[i] # x
    <3>1. t.left[i] = Nobody
      BY <1>6, <1>10, <2>1, <2>4
    <3>2. lo[i] = pos[i]
      BY <2>1, <3>1, LinkFacts
    <3>3. QED
      BY <1>7, <2>1, <2>2, <3>2 DEF Dropped
  <2>5. QED
    BY <2>3, <2>4
<1>11. ASSUME NEW i \in S2, NEW d, d = left2[i], d # Nobody
       PROVE  d \in S2 /\ parent2[d] = i /\ lo2[d] = lo2[i] /\ hi2[d] = pos2[i] - 1
  <2>1. i \in S /\ i # x
    BY <1>8, <1>11
  <2>2. /\ pos[i] \in Nat /\ pos[i] # p /\ lo[i] \in Nat /\ hi[i] \in Nat /\ p \in Nat
        /\ 1 <= lo[i] /\ lo[i] <= pos[i] /\ pos[i] <= hi[i] /\ 1 <= p
    BY <1>1, <2>1
  <2>3. pos2[i] = Dropped(pos[i], p) /\ lo2[i] = Dropped(lo[i], p) /\ hi2[i] = Dropped(hi[i], p - 1)
    BY <1>7, <2>1
  <2>4. CASE t.left[i] = x
    <3>1. d = c
      BY <1>6, <1>11, <2>1, <2>4
    <3>2. t.parent[x] = i /\ lo[x] = lo[i] /\ hi[x] = pos[i] - 1
      BY <1>1, <2>1, <2>4, LinkFacts
    <3>3. d \in S2 /\ parent2[d] = i
      BY <1>2, <1>6, <1>8, <1>11, <3>1, <3>2
    <3>4. lo2[d] = Dropped(lo[d], p) /\ hi2[d] = Dropped(hi[d], p - 1)
      BY <1>2, <1>7, <1>11, <3>1
    <3>5. \/ lo[d] = lo[x] /\ hi[d] = p - 1 /\ hi[x] = p
          \/ lo[d] = p + 1 /\ hi[d] = hi[x] /\ lo[x] = p
      BY <1>2, <1>11, <3>1
    <3>6. lo[x] \in Nat /\ hi[x] \in Nat /\ lo[x] <= p /\ p <= hi[x]
      BY <1>1
    <3>7. lo2[d] = lo2[i] /\ hi2[d] = pos2[i] - 1
      BY <2>2, <2>3, <3>2, <3>4, <3>5, <3>6 DEF Dropped
    <3>8. QED
      BY <3>3, <3>7
  <2>5. CASE t.left[i] # x
    <3>1. d = t.left[i]
      BY <1>6, <1>11, <2>1, <2>5
    <3>2. d \in S /\ t.parent[d] = i /\ lo[d] = lo[i] /\ hi[d] = pos[i] - 1
      BY <1>11, <2>1, <3>1, LinkFacts
    <3>3. d # x /\ d # c
      BY <1>2, <1>11, <2>1, <2>5, <3>1, <3>2
    <3>4. d \in S2 /\ parent2[d] = i
      BY <1>1, <1>6, <1>8, <3>2, <3>3
    <3>5. lo2[d] = Dropped(lo[d], p) /\ hi2[d] = Dropped(hi[d], p - 1)
      BY <1>7, <3>2, <3>3
    <3>6. lo2[d] = lo2[i] /\ hi2[d] = pos2[i] - 1
      BY <2>2, <2>3, <3>2, <3>5 DEF Dropped
    <3>7. QED
      BY <3>4, <3>6
  <2>6. QED
    BY <2>4, <2>5
<1>12. ASSUME NEW i \in S2, right2[i] = Nobody
       PROVE  hi2[i] = pos2[i]
  <2>1. i \in S /\ i # x
    BY <1>8, <1>12
  <2>2. pos[i] \in Nat /\ pos[i] # p /\ lo[i] \in Nat /\ hi[i] \in Nat /\ p \in Nat /\ lo[i] <= pos[i] /\ pos[i] <= hi[i]
    BY <1>1, <2>1
  <2>3. CASE t.right[i] = x
    <3>1. c = Nobody
      BY <1>6, <1>12, <2>1, <2>3
    <3>2. lo[x] = p /\ hi[x] = p
      BY <1>2, <3>1
    <3>3. lo[x] = pos[i] + 1 /\ hi[x] = hi[i]
      BY <1>1, <2>1, <2>3, LinkFacts
    <3>4. hi2[i] = pos2[i]
      BY <1>7, <2>1, <2>2, <3>2, <3>3 DEF Dropped
    <3>5. QED
      BY <3>4
  <2>4. CASE t.right[i] # x
    <3>1. t.right[i] = Nobody
      BY <1>6, <1>12, <2>1, <2>4
    <3>2. hi[i] = pos[i]
      BY <2>1, <3>1, LinkFacts
    <3>3. QED
      BY <1>7, <2>1, <2>2, <3>2 DEF Dropped
  <2>5. QED
    BY <2>3, <2>4
<1>13. ASSUME NEW i \in S2, NEW d, d = right2[i], d # Nobody
       PROVE  d \in S2 /\ parent2[d] = i /\ lo2[d] = pos2[i] + 1 /\ hi2[d] = hi2[i]
  <2>1. i \in S /\ i # x
    BY <1>8, <1>13
  <2>2. /\ pos[i] \in Nat /\ pos[i] # p /\ lo[i] \in Nat /\ hi[i] \in Nat /\ p \in Nat
        /\ 1 <= lo[i] /\ lo[i] <= pos[i] /\ pos[i] <= hi[i] /\ 1 <= p
    BY <1>1, <2>1
  <2>3. pos2[i] = Dropped(pos[i], p) /\ lo2[i] = Dropped(lo[i], p) /\ hi2[i] = Dropped(hi[i], p - 1)
    BY <1>7, <2>1
  <2>4. CASE t.right[i] = x
    <3>1. d = c
      BY <1>6, <1>13, <2>1, <2>4
    <3>2. t.parent[x] = i /\ lo[x] = pos[i] + 1 /\ hi[x] = hi[i]
      BY <1>1, <2>1, <2>4, LinkFacts
    <3>3. d \in S2 /\ parent2[d] = i
      BY <1>2, <1>6, <1>8, <1>13, <3>1, <3>2
    <3>4. lo2[d] = Dropped(lo[d], p) /\ hi2[d] = Dropped(hi[d], p - 1)
      BY <1>2, <1>7, <1>13, <3>1
    <3>5. \/ lo[d] = lo[x] /\ hi[d] = p - 1 /\ hi[x] = p
          \/ lo[d] = p + 1 /\ hi[d] = hi[x] /\ lo[x] = p
      BY <1>2, <1>13, <3>1
    <3>6. lo[x] \in Nat /\ hi[x] \in Nat /\ lo[x] <= p /\ p <= hi[x]
      BY <1>1
    <3>7. lo2[d] = pos2[i] + 1 /\ hi2[d] = hi2[i]
      BY <2>2, <2>3, <3>2, <3>4, <3>5, <3>6 DEF Dropped
    <3>8. QED
      BY <3>3, <3>7
  <2>5. CASE t.right[i] # x
    <3>1. d = t.right[i]
      BY <1>6, <1>13, <2>1, <2>5
    <3>2. d \in S /\ t.parent[d] = i /\ lo[d] = pos[i] + 1 /\ hi[d] = hi[i]
      BY <1>13, <2>1, <3>1, LinkFacts
    <3>3. d # x /\ d # c
      BY <1>2, <1>13, <2>1, <2>5, <3>1, <3>2
    <3>4. d \in S2 /\ parent2[d] = i
      BY <1>1, <1>6, <1>8, <3>2, <3>3
    <3>5. lo2[d] = Dropped(lo[d], p) /\ hi2[d] = Dropped(hi[d], p - 1)
      BY <1>7, <3>2, <3>3
    <3>6. lo2[d] = pos2[i] + 1 /\ hi2[d] = hi2[i]
      BY <2>2, <2>3, <3>2, <3>5 DEF Dropped
    <3>7. QED
      BY <3>4, <3>6
  <2>6. QED
    BY <2>4, <2>5
<1>14. ASSUME NEW i \in S2
       PROVE  /\ parent2[i] = Nobody => i = t2.root
              /\ parent2[i] # Nobody => parent2[i] \in S2 /\ (left2[parent2[i]] = i \/ right2[parent2[i]] = i)
  <2>1. i \in S /\ i # x /\ i # Nobody
    BY <1>1, <1>8
  <2>2. ASSUME i = c, NEW q, q = t.parent[x]
        PROVE  /\ parent2[i] = Nobody => i = t2.root
               /\ parent2[i] # Nobody => parent2[i] \in S2 /\ (left2[parent2[i]] = i \/ right2[parent2[i]] = i)
    <3>1. parent2[i] = q
      BY <1>6, <2>1, <2>2
    <3>2. q = Nobody => i = t2.root
      BY <1>6, <2>2
    <3>3. q # Nobody => q \in S /\ (t.left[q] = x \/ t.right[q] = x)
      BY <2>2, LinkFacts
    <3>4. q # x
      <4>1. t.left[x] = x => hi[x] = p - 1
        BY <1>1, LinkFacts
      <4>2. t.right[x] = x => lo[x] = p + 1
        BY <1>1, LinkFacts
      <4>3. QED
        BY <1>1, <3>3, <4>1, <4>2
    <3>5. q # Nobody => q \in S2 /\ (left2[q] = i \/ right2[q] = i)
      BY <1>6, <1>8, <2>2, <3>3, <3>4
    <3>6. QED
      BY <3>1, <3>2, <3>5
  <2>3. ASSUME i # c, NEW q, q = t.parent[i]
        PROVE  /\ parent2[i] = Nobody => i = t2.root
               /\ parent2[i] # Nobody => parent2[i] \in S2 /\ (left2[parent2[i]] = i \/ right2[parent2[i]] = i)
    <3>1. parent2[i] = q
      BY <1>6, <2>1, <2>3
    <3>2. q = Nobody => i = t2.root
      <4>1. \A j \in S : t.parent[j] = Nobody => j = t.root
        BY LinkFacts
      <4>2. q = Nobody => i = t.root /\ t.parent[x] # Nobody
        BY <2>1, <2>3, <4>1
      <4>3. QED
        BY <1>6, <4>2
    <3>3. q # Nobody => q \in S /\ (t.left[q] = i \/ t.right[q] = i)
      BY <2>1, <2>3, LinkFacts
    <3>4. q # x
      BY <1>1, <1>2, <2>1, <2>3, <3>3
    <3>5. q # Nobody => q \in S2 /\ (left2[q] = i \/ right2[q] = i)
      BY <1>6, <1>8, <2>1, <3>3, <3>4
    <3>6. QED
      BY <3>1, <3>2, <3>5
  <2>4. QED
    BY <2>2, <2>3
<1>15. ASSUME NEW i \in Items \ S2
       PROVE  parent2[i] = Nobody /\ left2[i] = Nobody /\ right2[i] = Nobody
  <2>1. CASE i = x
    BY <1>6, <2>1
  <2>2. CASE i # x
    <3>1. i \in Items \ S
      BY <1>8, <1>15, <2>2
    <3>2. t.parent[i] = Nobody /\ t.left[i] = Nobody /\ t.right[i] = Nobody
      BY <3>1, LinkFacts
    <3>3. i # c
      <4>1. i # Nobody
        BY ItemsAreNumbers
      <4>2. QED
        BY <1>2, <3>1, <4>1
    <3>4. QED
      BY <1>1, <1>6, <2>2, <3>2, <3>3
  <2>3. QED
    BY <2>1, <2>2
<1>16. Drawn(t2.root, t2.parent, t2.left, t2.right, S2, n - 1, pos2, lo2, hi2)
  <2>1. t2.root \in 0..NodeMax /\ t2.parent \in Links /\ t2.left \in Links /\ t2.right \in Links
    BY <1>6 DEF Trees
  <2>2. t2.parent = parent2 /\ t2.left = left2 /\ t2.right = right2
    BY DEF parent2, left2, right2
  <2>3. Drawn(t2.root, parent2, left2, right2, S2, n - 1, pos2, lo2, hi2)
    BY <1>9, <1>10, <1>11, <1>12, <1>13, <1>14, <1>15, <2>1, <2>2 DEF Drawn
  <2>4. QED
    BY <2>2, <2>3
<1>17. Shape(t2, S2, n - 1, RowWithout(s, n, p), pos2, lo2, hi2)
  BY <1>3, <1>6, <1>16 DEF Shape
<1>18. QED
  BY <1>17 DEF S2, pos2, lo2, hi2

-----------------------------------------------------------------------------
(* Blocks are one inside the other or apart.                                *)
LEMMA BlocksNest ==
  ASSUME NEW t, NEW S, NEW n, NEW s, NEW pos, NEW lo, NEW hi, Shape(t, S, n, s, pos, lo, hi), NEW j \in S
  PROVE  \A i \in S : lo[i] <= pos[j] /\ pos[j] <= hi[i] => lo[i] <= lo[j] /\ hi[j] <= hi[i]
<1> DEFINE T == {i \in S : lo[i] <= pos[j] /\ pos[j] <= hi[i] => lo[i] <= lo[j] /\ hi[j] <= hi[i]}
<1>0. \A i \in S : /\ pos[i] \in Nat /\ lo[i] \in Nat /\ hi[i] \in Nat /\ lo[i] <= pos[i] /\ pos[i] <= hi[i]
                   /\ (pos[i] = pos[j] => i = j)
  <2>1. \A i \in S : i \in Items /\ s[pos[i]] = i
    BY NumberFacts
  <2>2. QED
    BY <2>1, NumberFacts
<1>1. ASSUME NEW i \in S, t.left[i] # Nobody => t.left[i] \in T, t.right[i] # Nobody => t.right[i] \in T
      PROVE  i \in T
  <2>1. SUFFICES ASSUME lo[i] <= pos[j], pos[j] <= hi[i]
                 PROVE  lo[i] <= lo[j] /\ hi[j] <= hi[i]
    OBVIOUS
  <2>2. CASE pos[j] = pos[i]
    BY <1>0, <2>2
  <2>3. CASE pos[j] < pos[i]
    <3>1. t.left[i] # Nobody
      <4>1. t.left[i] = Nobody => lo[i] = pos[i]
        BY LinkFacts
      <4>2. QED
        BY <1>0, <2>1, <2>3, <4>1
    <3>2. t.left[i] \in T /\ lo[t.left[i]] = lo[i] /\ hi[t.left[i]] = pos[i] - 1
      BY <1>1, <3>1, LinkFacts
    <3>3. lo[i] <= lo[j] /\ hi[j] <= pos[i] - 1
      BY <1>0, <2>1, <2>3, <3>2
    <3>4. QED
      BY <1>0, <3>3
  <2>4. CASE pos[j] > pos[i]
    <3>1. t.right[i] # Nobody
      <4>1. t.right[i] = Nobody => hi[i] = pos[i]
        BY LinkFacts
      <4>2. QED
        BY <1>0, <2>1, <2>4, <4>1
    <3>2. t.right[i] \in T /\ lo[t.right[i]] = pos[i] + 1 /\ hi[t.right[i]] = hi[i]
      BY <1>1, <3>1, LinkFacts
    <3>3. pos[i] + 1 <= lo[j] /\ hi[j] <= hi[i]
      BY <1>0, <2>1, <2>4, <3>2
    <3>4. QED
      BY <1>0, <3>3
  <2>5. QED
    BY <1>0, <2>2, <2>3, <2>4
<1>2. \A i \in S : i \in T
  <2> HIDE DEF T
  <2>1. QED
    BY <1>1, SmallerFirst
<1>3. QED
  BY <1>2

Inside(lo, hi, i, j) == lo[i] <= lo[j] /\ hi[j] <= hi[i]
Apart(lo, hi, i, j) == hi[i] < lo[j] \/ hi[j] < lo[i] \/ Inside(lo, hi, i, j) \/ Inside(lo, hi, j, i)

LEMMA BlocksApart ==
  ASSUME NEW t, NEW S, NEW n, NEW s, NEW pos, NEW lo, NEW hi, Shape(t, S, n, s, pos, lo, hi)
  PROVE  \A i, j \in S : Apart(lo, hi, i, j)
<1> DEFINE T == {r \in S : \A i, j \in S : Inside(lo, hi, r, i) /\ Inside(lo, hi, r, j) => Apart(lo, hi, i, j)}
<1>0. \A i \in S : pos[i] \in Nat /\ lo[i] \in Nat /\ hi[i] \in Nat /\ lo[i] <= pos[i] /\ pos[i] <= hi[i]
  <2>1. \A i \in S : i \in Items
    BY NumberFacts
  <2>2. QED
    BY <2>1, NumberFacts
<1>1. ASSUME NEW r \in S, t.left[r] # Nobody => t.left[r] \in T, t.right[r] # Nobody => t.right[r] \in T
      PROVE  r \in T
  <2>1. ASSUME NEW i \in S, Inside(lo, hi, r, i)
        PROVE  \/ i = r
               \/ t.left[r] # Nobody /\ Inside(lo, hi, t.left[r], i) /\ hi[i] < pos[r]
               \/ t.right[r] # Nobody /\ Inside(lo, hi, t.right[r], i) /\ lo[i] > pos[r]
    <3>1. pos[i] = pos[r] => i = r
      <4>1. s[pos[i]] = i /\ s[pos[r]] = r
        BY NumberFacts
      <4>2. QED
        BY <4>1
    <3>2. lo[r] <= pos[i] /\ pos[i] <= hi[r]
      BY <1>0, <2>1 DEF Inside
    <3>3. CASE pos[i] < pos[r]
      <4>1. t.left[r] = Nobody => lo[r] = pos[r]
        BY LinkFacts
      <4>2. t.left[r] # Nobody
        BY <1>0, <3>2, <3>3, <4>1
      <4>3. t.left[r] \in S /\ lo[t.left[r]] = lo[r] /\ hi[t.left[r]] = pos[r] - 1
        BY <4>2, LinkFacts
      <4>4. lo[t.left[r]] <= pos[i] /\ pos[i] <= hi[t.left[r]]
        BY <1>0, <3>2, <3>3, <4>3
      <4>5. lo[t.left[r]] <= lo[i] /\ hi[i] <= hi[t.left[r]]
        BY <4>3, <4>4, BlocksNest
      <4>6. hi[i] < pos[r]
        BY <1>0, <4>3, <4>5
      <4>7. QED
        BY <4>2, <4>5, <4>6 DEF Inside
    <3>4. CASE pos[i] > pos[r]
      <4>1. t.right[r] = Nobody => hi[r] = pos[r]
        BY LinkFacts
      <4>2. t.right[r] # Nobody
        BY <1>0, <3>2, <3>4, <4>1
      <4>3. t.right[r] \in S /\ lo[t.right[r]] = pos[r] + 1 /\ hi[t.right[r]] = hi[r]
        BY <4>2, LinkFacts
      <4>4. lo[t.right[r]] <= pos[i] /\ pos[i] <= hi[t.right[r]]
        BY <1>0, <3>2, <3>4, <4>3
      <4>5. lo[t.right[r]] <= lo[i] /\ hi[i] <= hi[t.right[r]]
        BY <4>3, <4>4, BlocksNest
      <4>6. lo[i] > pos[r]
        BY <1>0, <4>3, <4>5
      <4>7. QED
        BY <4>2, <4>5, <4>6 DEF Inside
    <3>5. QED
      BY <1>0, <3>1, <3>3, <3>4
  <2>2. ASSUME NEW i \in S, NEW j \in S, Inside(lo, hi, r, i), Inside(lo, hi, r, j)
        PROVE  Apart(lo, hi, i, j)
    <3>1. CASE i = r \/ j = r
      BY <2>2, <3>1 DEF Apart
    <3>2. CASE /\ t.left[r] # Nobody /\ Inside(lo, hi, t.left[r], i) /\ hi[i] < pos[r]
               /\ t.left[r] # Nobody /\ Inside(lo, hi, t.left[r], j) /\ hi[j] < pos[r]
      BY <1>1, <3>2
    <3>3. CASE /\ t.right[r] # Nobody /\ Inside(lo, hi, t.right[r], i) /\ lo[i] > pos[r]
               /\ t.right[r] # Nobody /\ Inside(lo, hi, t.right[r], j) /\ lo[j] > pos[r]
      BY <1>1, <3>3
    <3>4. CASE (hi[i] < pos[r] /\ lo[j] > pos[r]) \/ (hi[j] < pos[r] /\ lo[i] > pos[r])
      BY <1>0, <3>4 DEF Apart
    <3> HIDE DEF T
    <3>5. QED
      BY <2>1, <2>2, <3>1, <3>2, <3>3, <3>4
  <2>3. QED
    BY <2>2
<1>2. \A r \in S : r \in T
  <2> HIDE DEF T
  <2>1. QED
    BY <1>1, SmallerFirst
<1>3. ASSUME NEW i \in S, NEW j \in S
      PROVE  Apart(lo, hi, i, j)
  <2>1. \A k \in S : 1 <= lo[k] /\ hi[k] <= n /\ lo[k] \in Nat /\ hi[k] \in Nat /\ lo[k] <= hi[k] /\ n \in Nat
    <3>1. \A k \in S : 1 <= lo[k] /\ hi[k] <= n /\ n \in Nat
      BY NumberFacts
    <3>2. QED
      BY <1>0, <3>1
  <2>2. n # 0
    BY <2>1
  <2>3. t.root \in T /\ lo[t.root] = 1 /\ hi[t.root] = n
    BY <1>2, <2>2, LinkFacts
  <2>4. Inside(lo, hi, t.root, i) /\ Inside(lo, hi, t.root, j)
    BY <2>1, <2>3 DEF Inside
  <2>5. QED
    BY <2>3, <2>4
<1>4. QED
  BY <1>3

(* Where an item is as seen from x: it is x, in its left or in its right    *)
(* branch, above it, or beside it.                                         *)
Sector(j, x, a, p, b, pos, lo, hi) ==
  \/ j = x
  \/ j # x /\ a <= lo[j] /\ hi[j] < p
  \/ j # x /\ p < lo[j] /\ hi[j] <= b
  \/ j # x /\ lo[j] <= a /\ b <= hi[j] /\ (pos[j] < a \/ b < pos[j])
  \/ j # x /\ hi[j] < a
  \/ j # x /\ b < lo[j]

LEMMA Sectors ==
  ASSUME NEW t, NEW S, NEW n, NEW s, NEW pos, NEW lo, NEW hi, Shape(t, S, n, s, pos, lo, hi),
         NEW x \in S
  PROVE  \A j \in S : Sector(j, x, lo[x], pos[x], hi[x], pos, lo, hi)
<1> SUFFICES ASSUME NEW j \in S, j # x
             PROVE  Sector(j, x, lo[x], pos[x], hi[x], pos, lo, hi)
  BY DEF Sector
<1>0. \A i \in S : pos[i] \in Nat /\ lo[i] \in Nat /\ hi[i] \in Nat /\ lo[i] <= pos[i] /\ pos[i] <= hi[i]
  <2>1. \A i \in S : i \in Items
    BY NumberFacts
  <2>2. QED
    BY <2>1, NumberFacts
<1>1. pos[j] # pos[x]
  <2>1. s[pos[j]] = j /\ s[pos[x]] = x
    BY NumberFacts
  <2>2. QED
    BY <2>1
<1>2. Apart(lo, hi, x, j)
  BY BlocksApart
<1>3. ASSUME lo[x] <= pos[j], pos[j] <= hi[x], pos[j] < pos[x]
      PROVE  lo[x] <= lo[j] /\ hi[j] < pos[x]
  <2>1. t.left[x] # Nobody
    <3>1. t.left[x] = Nobody => lo[x] = pos[x]
      BY LinkFacts
    <3>2. QED
      BY <1>0, <1>3, <3>1
  <2>2. t.left[x] \in S /\ lo[t.left[x]] = lo[x] /\ hi[t.left[x]] = pos[x] - 1
    BY <2>1, LinkFacts
  <2>3. lo[t.left[x]] <= pos[j] /\ pos[j] <= hi[t.left[x]]
    BY <1>0, <1>3, <2>2
  <2>4. lo[t.left[x]] <= lo[j] /\ hi[j] <= hi[t.left[x]]
    BY <2>2, <2>3, BlocksNest
  <2>5. QED
    BY <1>0, <2>2, <2>4
<1>4. ASSUME lo[x] <= pos[j], pos[j] <= hi[x], pos[j] > pos[x]
      PROVE  pos[x] < lo[j] /\ hi[j] <= hi[x]
  <2>1. t.right[x] # Nobody
    <3>1. t.right[x] = Nobody => hi[x] = pos[x]
      BY LinkFacts
    <3>2. QED
      BY <1>0, <1>4, <3>1
  <2>2. t.right[x] \in S /\ lo[t.right[x]] = pos[x] + 1 /\ hi[t.right[x]] = hi[x]
    BY <2>1, LinkFacts
  <2>3. lo[t.right[x]] <= pos[j] /\ pos[j] <= hi[t.right[x]]
    BY <1>0, <1>4, <2>2
  <2>4. lo[t.right[x]] <= lo[j] /\ hi[j] <= hi[t.right[x]]
    BY <2>2, <2>3, BlocksNest
  <2>5. QED
    BY <1>0, <2>2, <2>4
<1>5. CASE lo[x] <= pos[j] /\ pos[j] <= hi[x]
  BY <1>0, <1>1, <1>3, <1>4, <1>5 DEF Sector
<1>6. CASE ~ (lo[x] <= pos[j] /\ pos[j] <= hi[x])
  BY <1>0, <1>2, <1>6 DEF Sector, Apart, Inside
<1>7. QED
  BY <1>5, <1>6

-----------------------------------------------------------------------------
(* The members renumbered: q becomes to[q].                                 *)
Permutes(n, to, from) ==
  /\ to \in [1..n -> 1..n] /\ from \in [1..n -> 1..n]
  /\ \A q \in 1..n : to[from[q]] = q /\ from[to[q]] = q

Shuffled(s, n, from) == [q \in 1..n |-> s[from[q]]]

Renumbered(S, n, to, pos, pos1, lo1, hi1) ==
  /\ pos1 \in [Items -> Nat] /\ lo1 \in [Items -> Nat] /\ hi1 \in [Items -> Nat]
  /\ \A i \in S : pos1[i] = to[pos[i]] /\ 1 <= lo1[i] /\ lo1[i] <= pos1[i] /\ pos1[i] <= hi1[i] /\ hi1[i] <= n

LEMMA Renumbers ==
  ASSUME NEW S, NEW n, NEW s, NEW pos, NEW lo, NEW hi, Numbered(S, n, s, pos, lo, hi),
         NEW to, NEW from, Permutes(n, to, from),
         NEW pos1, NEW lo1, NEW hi1, Renumbered(S, n, to, pos, pos1, lo1, hi1)
  PROVE  Numbered(S, n, Shuffled(s, n, from), pos1, lo1, hi1)
<1> DEFINE s1 == Shuffled(s, n, from)
<1>0. /\ to \in [1..n -> 1..n] /\ from \in [1..n -> 1..n]
      /\ \A q \in 1..n : to[from[q]] = q /\ from[to[q]] = q
      /\ pos1 \in [Items -> Nat] /\ lo1 \in [Items -> Nat] /\ hi1 \in [Items -> Nat]
      /\ \A i \in S : pos1[i] = to[pos[i]] /\ 1 <= lo1[i] /\ lo1[i] <= pos1[i] /\ pos1[i] <= hi1[i] /\ hi1[i] <= n
  BY DEF Permutes, Renumbered
<1>1. /\ S \subseteq Items /\ n \in Nat /\ s \in [1..n -> S]
      /\ \A i \in Items : pos[i] \in Nat /\ lo[i] \in Nat /\ hi[i] \in Nat
      /\ \A i \in S : 1 <= lo[i] /\ lo[i] <= pos[i] /\ pos[i] <= hi[i] /\ hi[i] <= n /\ s[pos[i]] = i
      /\ \A q \in 1..n : s[q] \in S /\ pos[s[q]] = q
  BY DEF Numbered
<1>2. \A i \in S : pos[i] \in 1..n
  <2>1. ASSUME NEW i \in S
        PROVE  pos[i] \in 1..n
    <3>1. i \in Items
      BY <1>1
    <3>2. /\ pos[i] \in Nat /\ lo[i] \in Nat /\ hi[i] \in Nat
          /\ 1 <= lo[i] /\ lo[i] <= pos[i] /\ pos[i] <= hi[i] /\ hi[i] <= n /\ n \in Nat
      BY <1>1, <3>1
    <3>3. QED
      BY <3>2
  <2>2. QED
    BY <2>1
<1>3. s1 \in [1..n -> S] /\ \A q \in 1..n : s1[q] = s[from[q]]
  BY <1>0, <1>1 DEF Shuffled
<1> HIDE DEF s1
<1>4. \A i \in S : s1[pos1[i]] = i
  <2>1. ASSUME NEW i \in S, NEW q, q = pos[i]
        PROVE  s1[pos1[i]] = i
    <3>1. q \in 1..n /\ pos1[i] = to[q] /\ to[q] \in 1..n
      BY <1>0, <1>2, <2>1
    <3>2. s1[to[q]] = s[from[to[q]]] /\ from[to[q]] = q
      BY <1>0, <1>3, <3>1
    <3>3. s[q] = i
      BY <1>1, <2>1
    <3>4. QED
      BY <3>1, <3>2, <3>3
  <2>2. QED
    BY <2>1
<1>5. \A q \in 1..n : pos1[s1[q]] = q
  <2>1. ASSUME NEW q \in 1..n, NEW r, r = from[q]
        PROVE  pos1[s1[q]] = q
    <3>1. r \in 1..n /\ s1[q] = s[r]
      BY <1>0, <1>3, <2>1
    <3>2. s[r] \in S /\ pos[s[r]] = r
      BY <1>1, <3>1
    <3>3. pos1[s[r]] = to[r] /\ to[r] = q
      BY <1>0, <2>1, <3>2
    <3>4. QED
      BY <3>1, <3>3
  <2>2. QED
    BY <2>1
<1>6. Numbered(S, n, s1, pos1, lo1, hi1)
  BY <1>0, <1>1, <1>3, <1>4, <1>5 DEF Numbered
<1>7. QED
  BY <1>6 DEF s1

(* A block with a position in it.                                           *)
Block(n, a, p, b) ==
  /\ n \in Nat /\ a \in Nat /\ p \in Nat /\ b \in Nat
  /\ 1 <= a /\ a <= p /\ p <= b /\ b <= n

(* An item with two branches, and its block.                                *)
Forked(t, pos, lo, hi, x, a, p, b) ==
  /\ a = lo[x] /\ p = pos[x] /\ b = hi[x]
  /\ t.left[x] # Nobody /\ t.right[x] # Nobody

(* The item of which the tree takes the branch h from one side to hang it   *)
(* under bottom.                                                            *)
Rehung(t1, t, x, h, bottom, from, at) ==
  /\ t1 \in Trees /\ t1.root = t.root
  /\ \A i \in Items :
       /\ t1.parent[i] = IF i = h THEN bottom ELSE t.parent[i]
       /\ t1.left[i] = IF at = "left" /\ i = bottom THEN h ELSE IF from = "left" /\ i = x THEN Nobody ELSE t.left[i]
       /\ t1.right[i] = IF at = "right" /\ i = bottom THEN h ELSE IF from = "right" /\ i = x THEN Nobody ELSE t.right[i]

(* A tree of the same members, in the same order if keeps, but for x.       *)
Reshaped(t1, S, n, x, pos, keeps) ==
  \E s1, pos1, lo1, hi1 :
    /\ Shape(t1, S, n, s1, pos1, lo1, hi1)
    /\ keeps => \A i, j \in S : i # x /\ j # x /\ pos1[i] < pos1[j] => pos[i] < pos[j]

(* At the root: right of x goes under the last item left of x.  The order   *)
(* stays, but x comes last.                                                 *)
RootForth(q, a, p, b) == IF q = p THEN b ELSE IF p < q /\ q <= b THEN q - 1 ELSE q
RootBack(q, a, p, b) == IF q = b THEN p ELSE IF p <= q /\ q < b THEN q + 1 ELSE q

LEMMA RootTurns ==
  ASSUME NEW n, NEW a, NEW p, NEW b, Block(n, a, p, b), NEW q \in 1..n
  PROVE  /\ RootForth(q, a, p, b) \in 1..n /\ RootBack(q, a, p, b) \in 1..n
         /\ RootForth(RootBack(q, a, p, b), a, p, b) = q /\ RootBack(RootForth(q, a, p, b), a, p, b) = q
<1>1. RootForth(q, a, p, b) \in 1..n /\ RootBack(q, a, p, b) \in 1..n
  BY DEF Block, RootForth, RootBack
<1>2. RootForth(RootBack(q, a, p, b), a, p, b) = q
  BY DEF Block, RootForth, RootBack
<1>3. RootBack(RootForth(q, a, p, b), a, p, b) = q
  BY DEF Block, RootForth, RootBack
<1>4. QED
  BY <1>1, <1>2, <1>3

RootPlaced(i, x, a, p, b, pos, lo, hi, pos1, lo1, hi1) ==
  \/ i = x /\ pos1[i] = b /\ lo1[i] = a /\ hi1[i] = b
  \/ /\ i # x /\ a <= lo[i] /\ hi[i] < p
     /\ pos1[i] = pos[i] /\ lo1[i] = (lo[i]) /\ hi1[i] = (IF hi[i] = p - 1 THEN b - 1 ELSE hi[i])
  \/ /\ i # x /\ p < lo[i] /\ hi[i] <= b
     /\ pos1[i] = pos[i] - 1 /\ lo1[i] = (lo[i] - 1) /\ hi1[i] = (hi[i] - 1)
  \/ /\ i # x /\ pos1[i] = pos[i] /\ lo1[i] = lo[i] /\ hi1[i] = hi[i]
     /\ (lo[i] <= a /\ b <= hi[i] /\ (pos[i] < a \/ b < pos[i])) \/ hi[i] < a \/ b < lo[i]

RootFork(t, s, pos, lo, hi, x, a, p, b, h, bottom) ==
  Forked(t, pos, lo, hi, x, a, p, b) /\ h = t.right[x] /\ bottom = s[p - 1]

RootTurned(t1, t, S, n, x, pos, bottom) ==
  /\ Reshaped(t1, S, n, x, pos, TRUE) /\ t1.right[x] = Nobody /\ t1.left[x] = t.left[x]
  /\ bottom \in S /\ bottom # x /\ t.right[bottom] = Nobody

LEMMA RehangRoot ==
  ASSUME NEW t, NEW S, NEW n, NEW s, NEW pos, NEW lo, NEW hi, Shape(t, S, n, s, pos, lo, hi),
         NEW x \in S, NEW a, NEW p, NEW b, NEW h, NEW bottom,
         RootFork(t, s, pos, lo, hi, x, a, p, b, h, bottom), NEW t1, Rehung(t1, t, x, h, bottom, "right", "right")
  PROVE  RootTurned(t1, t, S, n, x, pos, bottom)
<1>0. a = lo[x] /\ p = pos[x] /\ b = hi[x] /\ t.left[x] # Nobody /\ t.right[x] # Nobody
      /\ h = t.right[x] /\ bottom = s[p - 1]
  BY DEF Forked, RootFork
<1> USE <1>0
<1>1. /\ n \in Nat /\ S \subseteq Items
      /\ \A i \in S : /\ pos[i] \in Nat /\ lo[i] \in Nat /\ hi[i] \in Nat
                      /\ 1 <= lo[i] /\ lo[i] <= pos[i] /\ pos[i] <= hi[i] /\ hi[i] <= n
                      /\ i \in Items /\ i # Nobody /\ s[pos[i]] = i
      /\ \A q \in 1..n : s[q] \in S /\ pos[s[q]] = q
  <2>1. \A i \in S : i \in Items
    BY NumberFacts
  <2>2. QED
    BY <2>1, NumberFacts, ItemsAreNumbers
<1>2. /\ a \in Nat /\ p \in Nat /\ b \in Nat /\ 1 <= a /\ a <= p /\ p <= b /\ b <= n
      /\ x \in Items /\ x # Nobody
  BY <1>1
<1>3. /\ h \in S /\ t.parent[h] = x /\ h # x
      /\ t.left[x] \in S /\ lo[t.left[x]] = a /\ hi[t.left[x]] = p - 1 /\ t.parent[t.left[x]] = x
      /\ t.right[x] \in S /\ lo[t.right[x]] = p + 1 /\ hi[t.right[x]] = b /\ t.parent[t.right[x]] = x
  <2>1. /\ t.left[x] \in S /\ lo[t.left[x]] = a /\ hi[t.left[x]] = p - 1 /\ t.parent[t.left[x]] = x
        /\ t.right[x] \in S /\ lo[t.right[x]] = p + 1 /\ hi[t.right[x]] = b /\ t.parent[t.right[x]] = x
    BY LinkFacts
  <2>2. h # x
    BY <1>2, <2>1
  <2>3. QED
    BY <2>1, <2>2
<1>4. a < p /\ p < b
  <2>1. lo[t.left[x]] <= hi[t.left[x]] /\ lo[t.right[x]] <= hi[t.right[x]]
    <3>1. \A i \in S : lo[i] <= hi[i]
      BY <1>1
    <3>2. QED
      BY <1>3, <3>1
  <2>2. QED
    BY <1>2, <1>3, <2>1
<1>5. \A i \in S : Sector(i, x, a, p, b, pos, lo, hi)
  BY Sectors
<1>6. bottom \in S /\ pos[bottom] = p - 1
  <2>1. ASSUME NEW q, q = p - 1
        PROVE  bottom \in S /\ pos[bottom] = p - 1
    <3>1. q \in 1..n
      BY <1>1, <1>2, <1>4, <2>1
    <3>2. QED
      BY <1>1, <2>1, <3>1
  <2>2. QED
    BY <2>1
<1>7. \A i \in S : pos[i] = pos[bottom] => i = bottom
  BY <1>1, <1>6
<1>8. \A i \in S : pos[i] = p => i = x
  BY <1>1
<1> DEFINE to == [q \in 1..n |-> RootForth(q, a, p, b)]
           from == [q \in 1..n |-> RootBack(q, a, p, b)]
           s1 == Shuffled(s, n, from)
           In1(i) == i # x /\ a <= lo[i] /\ hi[i] < p
           In2(i) == i # x /\ p < lo[i] /\ hi[i] <= b
           pos1 == [i \in Items |-> IF i \notin S THEN 0 ELSE RootForth(pos[i], a, p, b)]
           lo1 == [i \in Items |-> IF i \notin S THEN 0 ELSE IF i = x THEN a
                                   ELSE IF In1(i) THEN lo[i]
                                   ELSE IF In2(i) THEN lo[i] - 1 ELSE lo[i]]
           hi1 == [i \in Items |-> IF i \notin S THEN 0 ELSE IF i = x THEN b
                                   ELSE IF In1(i) THEN IF hi[i] = p - 1 THEN b - 1 ELSE hi[i]
                                   ELSE IF In2(i) THEN hi[i] - 1 ELSE hi[i]]
           Z(i) == RootPlaced(i, x, a, p, b, pos, lo, hi, pos1, lo1, hi1)
<1>9. ASSUME NEW i \in S
      PROVE  Z(i)
  <2>0. i \in Items
    BY <1>1
  <2>1. pos1[i] = RootForth(pos[i], a, p, b)
    BY <2>0
  <2>2. lo1[i] = IF i = x THEN a ELSE IF In1(i) THEN lo[i]
                 ELSE IF In2(i) THEN lo[i] - 1 ELSE lo[i]
    BY <2>0
  <2>3. hi1[i] = IF i = x THEN b ELSE IF In1(i) THEN IF hi[i] = p - 1 THEN b - 1 ELSE hi[i]
                 ELSE IF In2(i) THEN hi[i] - 1 ELSE hi[i]
    BY <2>0
  <2>4. /\ pos[i] \in Nat /\ lo[i] \in Nat /\ hi[i] \in Nat /\ lo[i] <= pos[i] /\ pos[i] <= hi[i]
        /\ (i = x => pos[i] = p /\ lo[i] = a /\ hi[i] = b)
    BY <1>1
  <2>5. Sector(i, x, a, p, b, pos, lo, hi)
    BY <1>5
  <2> HIDE DEF pos1, lo1, hi1
  <2>6. CASE i = x
    BY <1>2, <2>1, <2>2, <2>3, <2>4, <2>6 DEF RootPlaced, RootForth
  <2>7. CASE i # x /\ a <= lo[i] /\ hi[i] < p
    BY <1>2, <2>1, <2>2, <2>3, <2>4, <2>7 DEF RootPlaced, RootForth
  <2>8. CASE i # x /\ p < lo[i] /\ hi[i] <= b
    BY <1>2, <2>1, <2>2, <2>3, <2>4, <2>8 DEF RootPlaced, RootForth
  <2>9. CASE i # x /\ ((lo[i] <= a /\ b <= hi[i] /\ (pos[i] < a \/ b < pos[i])) \/ hi[i] < a \/ b < lo[i])
    <3>1. pos1[i] = pos[i] /\ lo1[i] = lo[i] /\ hi1[i] = hi[i]
      BY <1>2, <2>1, <2>2, <2>3, <2>4, <2>9 DEF RootForth
    <3>2. QED
      BY <2>9, <3>1 DEF RootPlaced
  <2>10. QED
    BY <2>5, <2>6, <2>7, <2>8, <2>9 DEF Sector
<1>10. ASSUME NEW i \in S
       PROVE  /\ pos1[i] = to[pos[i]] /\ pos1[i] \in Nat /\ lo1[i] \in Nat /\ hi1[i] \in Nat
              /\ 1 <= lo1[i] /\ lo1[i] <= pos1[i] /\ pos1[i] <= hi1[i] /\ hi1[i] <= n
  <2>1. /\ i \in Items /\ pos[i] \in Nat /\ lo[i] \in Nat /\ hi[i] \in Nat
        /\ 1 <= lo[i] /\ lo[i] <= pos[i] /\ pos[i] <= hi[i] /\ hi[i] <= n
    BY <1>1
  <2>2. pos[i] \in 1..n
    BY <1>1, <2>1
  <2>3. pos1[i] = to[pos[i]]
    BY <2>1, <2>2
  <2>4. Z(i)
    BY <1>9
  <2> HIDE DEF pos1, lo1, hi1, to
  <2>5. /\ pos1[i] \in Nat /\ lo1[i] \in Nat /\ hi1[i] \in Nat
        /\ 1 <= lo1[i] /\ lo1[i] <= pos1[i] /\ pos1[i] <= hi1[i] /\ hi1[i] <= n
    BY <1>1, <1>2, <1>4, <2>1, <2>4 DEF RootPlaced
  <2>6. QED
    BY <2>3, <2>5
<1>11. pos1 \in [Items -> Nat] /\ lo1 \in [Items -> Nat] /\ hi1 \in [Items -> Nat]
  <2>1. \A i \in Items : pos1[i] \in Nat /\ lo1[i] \in Nat /\ hi1[i] \in Nat
    <3>1. ASSUME NEW i \in Items
          PROVE  pos1[i] \in Nat /\ lo1[i] \in Nat /\ hi1[i] \in Nat
      <4>1. i \notin S => pos1[i] = 0 /\ lo1[i] = 0 /\ hi1[i] = 0
        OBVIOUS
      <4>2. i \in S => pos1[i] \in Nat /\ lo1[i] \in Nat /\ hi1[i] \in Nat
        BY <1>10
      <4>3. QED
        BY <4>1, <4>2
    <3>2. QED
      BY <3>1
  <2>2. pos1 = [i \in Items |-> pos1[i]] /\ lo1 = [i \in Items |-> lo1[i]] /\ hi1 = [i \in Items |-> hi1[i]]
    OBVIOUS
  <2> HIDE DEF pos1, lo1, hi1
  <2>3. QED
    BY <2>1, <2>2
<1>12. Numbered(S, n, s1, pos1, lo1, hi1)
  <2>1. Numbered(S, n, s, pos, lo, hi)
    BY DEF Shape
  <2>2. ASSUME NEW q \in 1..n
        PROVE  /\ RootForth(q, a, p, b) \in 1..n /\ RootBack(q, a, p, b) \in 1..n
               /\ RootForth(RootBack(q, a, p, b), a, p, b) = q /\ RootBack(RootForth(q, a, p, b), a, p, b) = q
    <3>1. Block(n, a, p, b)
      BY <1>1, <1>2 DEF Block
    <3>2. QED
      BY <3>1, RootTurns
  <2>3. Permutes(n, to, from)
    BY <2>2 DEF Permutes
  <2>4. Renumbered(S, n, to, pos, pos1, lo1, hi1)
    <3> HIDE DEF to, pos1, lo1, hi1
    <3>1. QED
      BY <1>10, <1>11 DEF Renumbered
  <2> HIDE DEF to, from, pos1, lo1, hi1
  <2>5. QED
    BY <2>1, <2>3, <2>4, Renumbers
<1> HIDE DEF pos1, lo1, hi1, s1, to, from
<1>13. /\ t1 \in Trees /\ t1.root = t.root
       /\ \A i \in Items : t1.parent[i] = IF i = h THEN bottom ELSE t.parent[i]
       /\ \A i \in Items : t1.left[i] = t.left[i]
       /\ \A i \in Items : t1.right[i] = IF i = bottom THEN h ELSE IF i = x THEN Nobody ELSE t.right[i]
  BY DEF Rehung
<1>14. /\ bottom # x /\ hi[bottom] < p /\ a <= lo[bottom] /\ hi[bottom] = p - 1 /\ t.right[bottom] = Nobody
  <2>1. /\ pos[bottom] \in Nat /\ lo[bottom] \in Nat /\ hi[bottom] \in Nat
        /\ lo[bottom] <= pos[bottom] /\ pos[bottom] <= hi[bottom] /\ pos[x] = p
    BY <1>1, <1>6
  <2>2. Sector(bottom, x, a, p, b, pos, lo, hi)
    BY <1>5, <1>6
  <2>3. bottom # x /\ hi[bottom] < p /\ a <= lo[bottom] /\ hi[bottom] = p - 1
    BY <1>2, <1>4, <1>6, <2>1, <2>2 DEF Sector
  <2>4. t.right[bottom] = Nobody
    <3>1. SUFFICES ASSUME NEW d, d = t.right[bottom], d # Nobody
                   PROVE  FALSE
      OBVIOUS
    <3>2. d \in S /\ lo[d] = pos[bottom] + 1 /\ hi[d] = hi[bottom]
      BY <1>6, <3>1, LinkFacts
    <3>3. lo[d] <= pos[d] /\ pos[d] <= hi[d] /\ lo[d] \in Nat /\ hi[d] \in Nat /\ pos[d] \in Nat
      BY <1>1, <3>2
    <3>4. QED
      BY <1>2, <1>6, <2>1, <2>3, <3>2, <3>3
  <2>5. QED
    BY <2>3, <2>4
<1>15. t1.right[x] = Nobody /\ t1.left[x] = t.left[x] /\ t1.right[bottom] = h /\ t1.parent[h] = bottom
  BY <1>1, <1>2, <1>3, <1>6, <1>13, <1>14
<1>16. /\ n = 0 => t1.root = Nobody
       /\ n # 0 => t1.root \in S /\ t1.parent[t1.root] = Nobody /\ lo1[t1.root] = 1 /\ hi1[t1.root] = n
  <2>1. n # 0
    BY <1>1, <1>2
  <2>2. t.root \in S /\ t.parent[t.root] = Nobody /\ lo[t.root] = 1 /\ hi[t.root] = n
    BY <2>1, LinkFacts
  <2>3. t.root # h /\ t1.parent[t.root] = Nobody
    BY <1>1, <1>2, <1>3, <1>13, <2>2
  <2>4. Z(t.root)
    BY <1>9, <2>2
  <2>5. ASSUME NEW r, r = t.root
        PROVE  lo1[r] = 1 /\ hi1[r] = n
    <3>1. RootPlaced(r, x, a, p, b, pos, lo, hi, pos1, lo1, hi1) /\ lo[r] = 1 /\ hi[r] = n
      BY <2>2, <2>4, <2>5
    <3>2. r = x => a = 1 /\ b = n
      BY <2>2, <2>5
    <3>3. QED
      BY <1>1, <1>2, <1>4, <3>1, <3>2 DEF RootPlaced
  <2>6. QED
    BY <1>13, <2>1, <2>2, <2>3, <2>5
<1>17. ASSUME NEW i \in S, t1.left[i] = Nobody
       PROVE  lo1[i] = pos1[i]
  <2>1. Z(i) /\ i \in Items /\ pos[i] \in Nat /\ lo[i] \in Nat /\ hi[i] \in Nat /\ lo[i] <= pos[i] /\ pos[i] <= hi[i]
    BY <1>1, <1>9
  <2>2. CASE i = x
    BY <1>15, <1>17, <2>2
  <2>3. CASE i # x
    <3>1. t.left[i] = Nobody
      BY <1>13, <1>17, <2>1, <2>3
    <3>2. lo[i] = pos[i]
      BY <3>1, LinkFacts
    <3>3. QED
      BY <1>2, <2>1, <2>3, <3>2 DEF RootPlaced
  <2>4. QED
    BY <2>2, <2>3
<1>18. ASSUME NEW i \in S, NEW d, d = t1.left[i], d # Nobody
       PROVE  d \in S /\ t1.parent[d] = i /\ lo1[d] = lo1[i] /\ hi1[d] = pos1[i] - 1
  <2>1. Z(i) /\ i \in Items /\ pos[i] \in Nat /\ lo[i] \in Nat /\ hi[i] \in Nat /\ lo[i] <= pos[i] /\ pos[i] <= hi[i]
    BY <1>1, <1>9
  <2>2. QED
    <3>1. d = t.left[i]
      BY <1>13, <1>18, <2>1
    <3>2. d \in S /\ t.parent[d] = i /\ lo[d] = lo[i] /\ hi[d] = pos[i] - 1
      BY <1>18, <3>1, LinkFacts
    <3>3. d # h
      <4>1. i = x => d # h
        <5>1. i = x => d = t.left[x] /\ lo[d] = a
          BY <1>3, <3>1
        <5>2. QED
          BY <1>2, <1>3, <1>4, <5>1
      <4>2. QED
        BY <1>3, <3>2, <4>1
    <3>4. t1.parent[d] = i
      BY <1>1, <1>13, <3>2, <3>3
    <3>5. Z(d) /\ pos[d] \in Nat /\ lo[d] \in Nat /\ hi[d] \in Nat /\ lo[d] <= pos[d] /\ pos[d] <= hi[d]
      BY <1>1, <1>9, <3>2
    <3>6. (i = x => pos[i] = p /\ lo[i] = a /\ hi[i] = b) /\ (d = x => pos[d] = p /\ lo[d] = a /\ hi[d] = b)
      OBVIOUS
    <3>7. lo1[d] = lo1[i] /\ hi1[d] = pos1[i] - 1
      BY <1>2, <1>4, <2>1, <3>2, <3>5, <3>6 DEF RootPlaced
    <3>8. QED
      BY <3>2, <3>4, <3>7
<1>19. ASSUME NEW i \in S, t1.right[i] = Nobody
       PROVE  hi1[i] = pos1[i]
  <2>1. Z(i) /\ i \in Items /\ pos[i] \in Nat /\ lo[i] \in Nat /\ hi[i] \in Nat /\ lo[i] <= pos[i] /\ pos[i] <= hi[i]
    BY <1>1, <1>9
  <2>2. CASE i = x
    BY <2>1, <2>2 DEF RootPlaced
  <2>3. CASE i # x
    <3>1. i # bottom /\ t.right[i] = Nobody
      BY <1>1, <1>3, <1>13, <1>15, <1>19, <2>1, <2>3
    <3>2. hi[i] = pos[i] /\ pos[i] # pos[bottom]
      BY <1>7, <3>1, LinkFacts
    <3>3. QED
      BY <1>2, <1>6, <2>1, <2>3, <3>2 DEF RootPlaced
  <2>4. QED
    BY <2>2, <2>3
<1>20. ASSUME NEW i \in S, NEW d, d = t1.right[i], d # Nobody
       PROVE  d \in S /\ t1.parent[d] = i /\ lo1[d] = pos1[i] + 1 /\ hi1[d] = hi1[i]
  <2>1. Z(i) /\ i \in Items /\ pos[i] \in Nat /\ lo[i] \in Nat /\ hi[i] \in Nat /\ lo[i] <= pos[i] /\ pos[i] <= hi[i]
    BY <1>1, <1>9
  <2>2. CASE i = bottom
    <3>1. d = h /\ d \in S /\ t1.parent[d] = i
      BY <1>3, <1>15, <1>20, <2>2
    <3>2. Z(d) /\ pos[d] \in Nat /\ lo[d] \in Nat /\ hi[d] \in Nat /\ lo[d] <= pos[d] /\ pos[d] <= hi[d]
      BY <1>1, <1>9, <3>1
    <3>3. lo[d] = p + 1 /\ hi[d] = b
      BY <1>3, <3>1
    <3>4. pos[i] = p - 1 /\ i # x /\ hi[i] < p /\ a <= lo[i] /\ hi[i] = p - 1
      BY <1>6, <1>14, <2>2
    <3>5. lo1[d] = pos1[i] + 1 /\ hi1[d] = hi1[i]
      BY <1>2, <1>4, <2>1, <3>2, <3>3, <3>4 DEF RootPlaced
    <3>6. QED
      BY <3>1, <3>5
  <2>3. i # x
    BY <1>15, <1>20
  <2>4. CASE i # bottom
    <3>1. d = t.right[i]
      BY <1>13, <1>20, <2>1, <2>3, <2>4
    <3>2. d \in S /\ t.parent[d] = i /\ lo[d] = pos[i] + 1 /\ hi[d] = hi[i]
      BY <1>20, <3>1, LinkFacts
    <3>3. d # h
      <4>1. i = x => d # h
        <5>1. i = x => d = t.right[x] /\ lo[d] = p + 1
          BY <1>3, <3>1
        <5>2. QED
          BY <1>2, <1>3, <1>4, <5>1, <2>3
      <4>2. QED
        BY <1>3, <3>2, <4>1
    <3>4. t1.parent[d] = i
      BY <1>1, <1>13, <3>2, <3>3
    <3>5. Z(d) /\ pos[d] \in Nat /\ lo[d] \in Nat /\ hi[d] \in Nat /\ lo[d] <= pos[d] /\ pos[d] <= hi[d]
      BY <1>1, <1>9, <3>2
    <3>6. (i = x => pos[i] = p /\ lo[i] = a /\ hi[i] = b) /\ (d = x => pos[d] = p /\ lo[d] = a /\ hi[d] = b)
      OBVIOUS
    <3>7. lo1[d] = pos1[i] + 1 /\ hi1[d] = hi1[i]
      BY <1>2, <1>4, <2>1, <2>3, <3>2, <3>5, <3>6 DEF RootPlaced
    <3>8. QED
      BY <3>2, <3>4, <3>7
  <2>5. QED
    BY <2>2, <2>4
<1>21. ASSUME NEW i \in S
       PROVE  /\ t1.parent[i] = Nobody => i = t1.root
              /\ t1.parent[i] # Nobody => t1.parent[i] \in S /\ (t1.left[t1.parent[i]] = i \/ t1.right[t1.parent[i]] = i)
  <2>1. CASE i = h
    <3>1. t1.parent[i] = bottom /\ t1.right[bottom] = i /\ bottom # Nobody
      BY <1>1, <1>6, <1>15, <2>1
    <3>2. QED
      BY <1>6, <3>1
  <2>2. ASSUME i # h, NEW q, q = t.parent[i]
        PROVE  /\ t1.parent[i] = Nobody => i = t1.root
               /\ t1.parent[i] # Nobody => t1.parent[i] \in S /\ (t1.left[t1.parent[i]] = i \/ t1.right[t1.parent[i]] = i)
    <3>1. t1.parent[i] = q
      BY <1>1, <1>13, <2>2
    <3>2. q = Nobody => i = t1.root
      <4>1. \A j \in S : t.parent[j] = Nobody => j = t.root
        BY LinkFacts
      <4>2. QED
        BY <1>13, <2>2, <4>1
    <3>3. q # Nobody => q \in S /\ (t.left[q] = i \/ t.right[q] = i)
      BY <2>2, LinkFacts
    <3>4. i # Nobody
      BY <1>1
    <3>5. q # Nobody => q \in Items
      BY <1>1, <3>3
    <3>6. q # Nobody => (t1.left[q] = i \/ t1.right[q] = i)
      BY <1>13, <1>14, <2>2, <3>3, <3>4, <3>5
    <3>7. QED
      BY <3>1, <3>2, <3>3, <3>6
  <2>3. QED
    BY <2>1, <2>2
<1>22. ASSUME NEW i \in Items \ S
       PROVE  t1.parent[i] = Nobody /\ t1.left[i] = Nobody /\ t1.right[i] = Nobody
  <2>1. t.parent[i] = Nobody /\ t.left[i] = Nobody /\ t.right[i] = Nobody
    BY LinkFacts
  <2>2. i # h /\ i # bottom /\ i # x
    BY <1>3, <1>6
  <2>3. QED
    BY <1>13, <2>1, <2>2
<1>23. Drawn(t1.root, t1.parent, t1.left, t1.right, S, n, pos1, lo1, hi1)
  <2>1. t1.root \in 0..NodeMax /\ t1.parent \in Links /\ t1.left \in Links /\ t1.right \in Links
    BY <1>13 DEF Trees
  <2>2. QED
    BY <1>16, <1>17, <1>18, <1>19, <1>20, <1>21, <1>22, <2>1 DEF Drawn
<1>24. Shape(t1, S, n, s1, pos1, lo1, hi1)
  BY <1>12, <1>13, <1>23 DEF Shape
<1>25. \A i, j \in S : i # x /\ j # x /\ pos1[i] < pos1[j] => pos[i] < pos[j]
  <2>1. ASSUME NEW i \in S, NEW j \in S, i # x, j # x, pos1[i] < pos1[j]
        PROVE  pos[i] < pos[j]
    <3>1. Z(i) /\ Z(j)
      BY <1>9
    <3>2. /\ pos[i] \in Nat /\ lo[i] \in Nat /\ hi[i] \in Nat /\ lo[i] <= pos[i] /\ pos[i] <= hi[i]
          /\ pos[j] \in Nat /\ lo[j] \in Nat /\ hi[j] \in Nat /\ lo[j] <= pos[j] /\ pos[j] <= hi[j]
      BY <1>1
    <3>3. pos[i] = pos[j] => i = j
      BY <1>1
    <3>4. pos[i] = pos[j] => pos1[i] = pos1[j]
      BY <3>3
    <3>5. QED
      BY <1>2, <1>4, <2>1, <3>1, <3>2, <3>4 DEF RootPlaced
  <2>2. QED
    BY <2>1
<1>26. QED
  BY <1>6, <1>14, <1>15, <1>24, <1>25 DEF Reshaped, RootTurned

(* At a left child: left of x goes under the last item right of x.          *)
LeftForth(q, a, p, b) == IF q = p THEN a ELSE IF p < q /\ q <= b THEN q - (p - a) ELSE IF a <= q /\ q < p THEN (q + (b - p)) + 1 ELSE q
LeftBack(q, a, p, b) == IF q = a THEN p ELSE IF a < q /\ q <= a + (b - p) THEN q + (p - a) ELSE IF a + (b - p) < q /\ q <= b THEN (q - (b - p)) - 1 ELSE q

LEMMA LeftTurns ==
  ASSUME NEW n, NEW a, NEW p, NEW b, Block(n, a, p, b), NEW q \in 1..n
  PROVE  /\ LeftForth(q, a, p, b) \in 1..n /\ LeftBack(q, a, p, b) \in 1..n
         /\ LeftForth(LeftBack(q, a, p, b), a, p, b) = q /\ LeftBack(LeftForth(q, a, p, b), a, p, b) = q
<1>1. LeftForth(q, a, p, b) \in 1..n /\ LeftBack(q, a, p, b) \in 1..n
  BY DEF Block, LeftForth, LeftBack
<1>2. LeftForth(LeftBack(q, a, p, b), a, p, b) = q
  BY DEF Block, LeftForth, LeftBack
<1>3. LeftBack(LeftForth(q, a, p, b), a, p, b) = q
  BY DEF Block, LeftForth, LeftBack
<1>4. QED
  BY <1>1, <1>2, <1>3

LeftPlaced(i, x, a, p, b, pos, lo, hi, pos1, lo1, hi1) ==
  \/ i = x /\ pos1[i] = a /\ lo1[i] = a /\ hi1[i] = b
  \/ /\ i # x /\ a <= lo[i] /\ hi[i] < p
     /\ pos1[i] = (pos[i] + (b - p)) + 1 /\ lo1[i] = ((lo[i] + (b - p)) + 1) /\ hi1[i] = ((hi[i] + (b - p)) + 1)
  \/ /\ i # x /\ p < lo[i] /\ hi[i] <= b
     /\ pos1[i] = pos[i] - (p - a) /\ lo1[i] = (lo[i] - (p - a)) /\ hi1[i] = (IF hi[i] = b THEN b ELSE hi[i] - (p - a))
  \/ /\ i # x /\ pos1[i] = pos[i] /\ lo1[i] = lo[i] /\ hi1[i] = hi[i]
     /\ (lo[i] <= a /\ b <= hi[i] /\ (pos[i] < a \/ b < pos[i])) \/ hi[i] < a \/ b < lo[i]

LeftFork(t, s, pos, lo, hi, x, a, p, b, h, bottom) ==
  Forked(t, pos, lo, hi, x, a, p, b) /\ h = t.left[x] /\ bottom = s[b]

LeftTurned(t1, t, S, n, x, pos, bottom) ==
  /\ Reshaped(t1, S, n, x, pos, FALSE) /\ t1.left[x] = Nobody /\ t1.right[x] = t.right[x]
  /\ bottom \in S /\ bottom # x /\ t.right[bottom] = Nobody

LEMMA RehangLeft ==
  ASSUME NEW t, NEW S, NEW n, NEW s, NEW pos, NEW lo, NEW hi, Shape(t, S, n, s, pos, lo, hi),
         NEW x \in S, NEW a, NEW p, NEW b, NEW h, NEW bottom,
         LeftFork(t, s, pos, lo, hi, x, a, p, b, h, bottom), NEW t1, Rehung(t1, t, x, h, bottom, "left", "right")
  PROVE  LeftTurned(t1, t, S, n, x, pos, bottom)
<1>0. a = lo[x] /\ p = pos[x] /\ b = hi[x] /\ t.left[x] # Nobody /\ t.right[x] # Nobody
      /\ h = t.left[x] /\ bottom = s[b]
  BY DEF Forked, LeftFork
<1> USE <1>0
<1>1. /\ n \in Nat /\ S \subseteq Items
      /\ \A i \in S : /\ pos[i] \in Nat /\ lo[i] \in Nat /\ hi[i] \in Nat
                      /\ 1 <= lo[i] /\ lo[i] <= pos[i] /\ pos[i] <= hi[i] /\ hi[i] <= n
                      /\ i \in Items /\ i # Nobody /\ s[pos[i]] = i
      /\ \A q \in 1..n : s[q] \in S /\ pos[s[q]] = q
  <2>1. \A i \in S : i \in Items
    BY NumberFacts
  <2>2. QED
    BY <2>1, NumberFacts, ItemsAreNumbers
<1>2. /\ a \in Nat /\ p \in Nat /\ b \in Nat /\ 1 <= a /\ a <= p /\ p <= b /\ b <= n
      /\ x \in Items /\ x # Nobody
  BY <1>1
<1>3. /\ h \in S /\ t.parent[h] = x /\ h # x
      /\ t.left[x] \in S /\ lo[t.left[x]] = a /\ hi[t.left[x]] = p - 1 /\ t.parent[t.left[x]] = x
      /\ t.right[x] \in S /\ lo[t.right[x]] = p + 1 /\ hi[t.right[x]] = b /\ t.parent[t.right[x]] = x
  <2>1. /\ t.left[x] \in S /\ lo[t.left[x]] = a /\ hi[t.left[x]] = p - 1 /\ t.parent[t.left[x]] = x
        /\ t.right[x] \in S /\ lo[t.right[x]] = p + 1 /\ hi[t.right[x]] = b /\ t.parent[t.right[x]] = x
    BY LinkFacts
  <2>2. h # x
    BY <1>2, <2>1
  <2>3. QED
    BY <2>1, <2>2
<1>4. a < p /\ p < b
  <2>1. lo[t.left[x]] <= hi[t.left[x]] /\ lo[t.right[x]] <= hi[t.right[x]]
    <3>1. \A i \in S : lo[i] <= hi[i]
      BY <1>1
    <3>2. QED
      BY <1>3, <3>1
  <2>2. QED
    BY <1>2, <1>3, <2>1
<1>5. \A i \in S : Sector(i, x, a, p, b, pos, lo, hi)
  BY Sectors
<1>6. bottom \in S /\ pos[bottom] = b
  <2>1. ASSUME NEW q, q = b
        PROVE  bottom \in S /\ pos[bottom] = b
    <3>1. q \in 1..n
      BY <1>1, <1>2, <1>4, <2>1
    <3>2. QED
      BY <1>1, <2>1, <3>1
  <2>2. QED
    BY <2>1
<1>7. \A i \in S : pos[i] = pos[bottom] => i = bottom
  BY <1>1, <1>6
<1>8. \A i \in S : pos[i] = p => i = x
  BY <1>1
<1> DEFINE to == [q \in 1..n |-> LeftForth(q, a, p, b)]
           from == [q \in 1..n |-> LeftBack(q, a, p, b)]
           s1 == Shuffled(s, n, from)
           In1(i) == i # x /\ a <= lo[i] /\ hi[i] < p
           In2(i) == i # x /\ p < lo[i] /\ hi[i] <= b
           pos1 == [i \in Items |-> IF i \notin S THEN 0 ELSE LeftForth(pos[i], a, p, b)]
           lo1 == [i \in Items |-> IF i \notin S THEN 0 ELSE IF i = x THEN a
                                   ELSE IF In1(i) THEN (lo[i] + (b - p)) + 1
                                   ELSE IF In2(i) THEN lo[i] - (p - a) ELSE lo[i]]
           hi1 == [i \in Items |-> IF i \notin S THEN 0 ELSE IF i = x THEN b
                                   ELSE IF In1(i) THEN (hi[i] + (b - p)) + 1
                                   ELSE IF In2(i) THEN IF hi[i] = b THEN b ELSE hi[i] - (p - a) ELSE hi[i]]
           Z(i) == LeftPlaced(i, x, a, p, b, pos, lo, hi, pos1, lo1, hi1)
<1>9. ASSUME NEW i \in S
      PROVE  Z(i)
  <2>0. i \in Items
    BY <1>1
  <2>1. pos1[i] = LeftForth(pos[i], a, p, b)
    BY <2>0
  <2>2. lo1[i] = IF i = x THEN a ELSE IF In1(i) THEN (lo[i] + (b - p)) + 1
                 ELSE IF In2(i) THEN lo[i] - (p - a) ELSE lo[i]
    BY <2>0
  <2>3. hi1[i] = IF i = x THEN b ELSE IF In1(i) THEN (hi[i] + (b - p)) + 1
                 ELSE IF In2(i) THEN IF hi[i] = b THEN b ELSE hi[i] - (p - a) ELSE hi[i]
    BY <2>0
  <2>4. /\ pos[i] \in Nat /\ lo[i] \in Nat /\ hi[i] \in Nat /\ lo[i] <= pos[i] /\ pos[i] <= hi[i]
        /\ (i = x => pos[i] = p /\ lo[i] = a /\ hi[i] = b)
    BY <1>1
  <2>5. Sector(i, x, a, p, b, pos, lo, hi)
    BY <1>5
  <2> HIDE DEF pos1, lo1, hi1
  <2>6. CASE i = x
    BY <1>2, <2>1, <2>2, <2>3, <2>4, <2>6 DEF LeftPlaced, LeftForth
  <2>7. CASE i # x /\ a <= lo[i] /\ hi[i] < p
    BY <1>2, <2>1, <2>2, <2>3, <2>4, <2>7 DEF LeftPlaced, LeftForth
  <2>8. CASE i # x /\ p < lo[i] /\ hi[i] <= b
    BY <1>2, <2>1, <2>2, <2>3, <2>4, <2>8 DEF LeftPlaced, LeftForth
  <2>9. CASE i # x /\ ((lo[i] <= a /\ b <= hi[i] /\ (pos[i] < a \/ b < pos[i])) \/ hi[i] < a \/ b < lo[i])
    <3>1. pos1[i] = pos[i] /\ lo1[i] = lo[i] /\ hi1[i] = hi[i]
      BY <1>2, <2>1, <2>2, <2>3, <2>4, <2>9 DEF LeftForth
    <3>2. QED
      BY <2>9, <3>1 DEF LeftPlaced
  <2>10. QED
    BY <2>5, <2>6, <2>7, <2>8, <2>9 DEF Sector
<1>10. ASSUME NEW i \in S
       PROVE  /\ pos1[i] = to[pos[i]] /\ pos1[i] \in Nat /\ lo1[i] \in Nat /\ hi1[i] \in Nat
              /\ 1 <= lo1[i] /\ lo1[i] <= pos1[i] /\ pos1[i] <= hi1[i] /\ hi1[i] <= n
  <2>1. /\ i \in Items /\ pos[i] \in Nat /\ lo[i] \in Nat /\ hi[i] \in Nat
        /\ 1 <= lo[i] /\ lo[i] <= pos[i] /\ pos[i] <= hi[i] /\ hi[i] <= n
    BY <1>1
  <2>2. pos[i] \in 1..n
    BY <1>1, <2>1
  <2>3. pos1[i] = to[pos[i]]
    BY <2>1, <2>2
  <2>4. Z(i)
    BY <1>9
  <2> HIDE DEF pos1, lo1, hi1, to
  <2>5. /\ pos1[i] \in Nat /\ lo1[i] \in Nat /\ hi1[i] \in Nat
        /\ 1 <= lo1[i] /\ lo1[i] <= pos1[i] /\ pos1[i] <= hi1[i] /\ hi1[i] <= n
    BY <1>1, <1>2, <1>4, <2>1, <2>4 DEF LeftPlaced
  <2>6. QED
    BY <2>3, <2>5
<1>11. pos1 \in [Items -> Nat] /\ lo1 \in [Items -> Nat] /\ hi1 \in [Items -> Nat]
  <2>1. \A i \in Items : pos1[i] \in Nat /\ lo1[i] \in Nat /\ hi1[i] \in Nat
    <3>1. ASSUME NEW i \in Items
          PROVE  pos1[i] \in Nat /\ lo1[i] \in Nat /\ hi1[i] \in Nat
      <4>1. i \notin S => pos1[i] = 0 /\ lo1[i] = 0 /\ hi1[i] = 0
        OBVIOUS
      <4>2. i \in S => pos1[i] \in Nat /\ lo1[i] \in Nat /\ hi1[i] \in Nat
        BY <1>10
      <4>3. QED
        BY <4>1, <4>2
    <3>2. QED
      BY <3>1
  <2>2. pos1 = [i \in Items |-> pos1[i]] /\ lo1 = [i \in Items |-> lo1[i]] /\ hi1 = [i \in Items |-> hi1[i]]
    OBVIOUS
  <2> HIDE DEF pos1, lo1, hi1
  <2>3. QED
    BY <2>1, <2>2
<1>12. Numbered(S, n, s1, pos1, lo1, hi1)
  <2>1. Numbered(S, n, s, pos, lo, hi)
    BY DEF Shape
  <2>2. ASSUME NEW q \in 1..n
        PROVE  /\ LeftForth(q, a, p, b) \in 1..n /\ LeftBack(q, a, p, b) \in 1..n
               /\ LeftForth(LeftBack(q, a, p, b), a, p, b) = q /\ LeftBack(LeftForth(q, a, p, b), a, p, b) = q
    <3>1. Block(n, a, p, b)
      BY <1>1, <1>2 DEF Block
    <3>2. QED
      BY <3>1, LeftTurns
  <2>3. Permutes(n, to, from)
    BY <2>2 DEF Permutes
  <2>4. Renumbered(S, n, to, pos, pos1, lo1, hi1)
    <3> HIDE DEF to, pos1, lo1, hi1
    <3>1. QED
      BY <1>10, <1>11 DEF Renumbered
  <2> HIDE DEF to, from, pos1, lo1, hi1
  <2>5. QED
    BY <2>1, <2>3, <2>4, Renumbers
<1> HIDE DEF pos1, lo1, hi1, s1, to, from
<1>13. /\ t1 \in Trees /\ t1.root = t.root
       /\ \A i \in Items : t1.parent[i] = IF i = h THEN bottom ELSE t.parent[i]
       /\ \A i \in Items : t1.right[i] = IF i = bottom THEN h ELSE t.right[i]
       /\ \A i \in Items : t1.left[i] = IF i = x THEN Nobody ELSE t.left[i]
  BY DEF Rehung
<1>14. /\ bottom # x /\ p < lo[bottom] /\ hi[bottom] <= b /\ hi[bottom] = b /\ t.right[bottom] = Nobody
  <2>1. /\ pos[bottom] \in Nat /\ lo[bottom] \in Nat /\ hi[bottom] \in Nat
        /\ lo[bottom] <= pos[bottom] /\ pos[bottom] <= hi[bottom] /\ pos[x] = p
    BY <1>1, <1>6
  <2>2. Sector(bottom, x, a, p, b, pos, lo, hi)
    BY <1>5, <1>6
  <2>3. bottom # x /\ p < lo[bottom] /\ hi[bottom] <= b /\ hi[bottom] = b
    BY <1>2, <1>4, <1>6, <2>1, <2>2 DEF Sector
  <2>4. t.right[bottom] = Nobody
    <3>1. SUFFICES ASSUME NEW d, d = t.right[bottom], d # Nobody
                   PROVE  FALSE
      OBVIOUS
    <3>2. d \in S /\ lo[d] = pos[bottom] + 1 /\ hi[d] = hi[bottom]
      BY <1>6, <3>1, LinkFacts
    <3>3. lo[d] <= pos[d] /\ pos[d] <= hi[d] /\ lo[d] \in Nat /\ hi[d] \in Nat /\ pos[d] \in Nat
      BY <1>1, <3>2
    <3>4. QED
      BY <1>2, <1>6, <2>1, <2>3, <3>2, <3>3
  <2>5. QED
    BY <2>3, <2>4
<1>15. t1.left[x] = Nobody /\ t1.right[x] = t.right[x] /\ t1.right[bottom] = h /\ t1.parent[h] = bottom
  BY <1>1, <1>2, <1>3, <1>6, <1>13, <1>14
<1>16. /\ n = 0 => t1.root = Nobody
       /\ n # 0 => t1.root \in S /\ t1.parent[t1.root] = Nobody /\ lo1[t1.root] = 1 /\ hi1[t1.root] = n
  <2>1. n # 0
    BY <1>1, <1>2
  <2>2. t.root \in S /\ t.parent[t.root] = Nobody /\ lo[t.root] = 1 /\ hi[t.root] = n
    BY <2>1, LinkFacts
  <2>3. t.root # h /\ t1.parent[t.root] = Nobody
    BY <1>1, <1>2, <1>3, <1>13, <2>2
  <2>4. Z(t.root)
    BY <1>9, <2>2
  <2>5. ASSUME NEW r, r = t.root
        PROVE  lo1[r] = 1 /\ hi1[r] = n
    <3>1. LeftPlaced(r, x, a, p, b, pos, lo, hi, pos1, lo1, hi1) /\ lo[r] = 1 /\ hi[r] = n
      BY <2>2, <2>4, <2>5
    <3>2. r = x => a = 1 /\ b = n
      BY <2>2, <2>5
    <3>3. QED
      BY <1>1, <1>2, <1>4, <3>1, <3>2 DEF LeftPlaced
  <2>6. QED
    BY <1>13, <2>1, <2>2, <2>3, <2>5
<1>17. ASSUME NEW i \in S, t1.left[i] = Nobody
       PROVE  lo1[i] = pos1[i]
  <2>1. Z(i) /\ i \in Items /\ pos[i] \in Nat /\ lo[i] \in Nat /\ hi[i] \in Nat /\ lo[i] <= pos[i] /\ pos[i] <= hi[i]
    BY <1>1, <1>9
  <2>2. CASE i = x
    BY <2>1, <2>2 DEF LeftPlaced
  <2>3. CASE i # x
    <3>1. t.left[i] = Nobody
      BY <1>13, <1>17, <2>1, <2>3
    <3>2. lo[i] = pos[i]
      BY <3>1, LinkFacts
    <3>3. QED
      BY <1>2, <2>1, <2>3, <3>2 DEF LeftPlaced
  <2>4. QED
    BY <2>2, <2>3
<1>18. ASSUME NEW i \in S, NEW d, d = t1.left[i], d # Nobody
       PROVE  d \in S /\ t1.parent[d] = i /\ lo1[d] = lo1[i] /\ hi1[d] = pos1[i] - 1
  <2>1. Z(i) /\ i \in Items /\ pos[i] \in Nat /\ lo[i] \in Nat /\ hi[i] \in Nat /\ lo[i] <= pos[i] /\ pos[i] <= hi[i]
    BY <1>1, <1>9
  <2>2. i # x
    BY <1>15, <1>18
  <2>3. QED
    <3>1. d = t.left[i]
      BY <1>13, <1>18, <2>1, <2>2
    <3>2. d \in S /\ t.parent[d] = i /\ lo[d] = lo[i] /\ hi[d] = pos[i] - 1
      BY <1>18, <3>1, LinkFacts
    <3>3. d # h
      <4>1. i = x => d # h
        <5>1. i = x => d = t.left[x] /\ lo[d] = a
          BY <1>3, <3>1
        <5>2. QED
          BY <1>2, <1>3, <1>4, <5>1, <2>2
      <4>2. QED
        BY <1>3, <3>2, <4>1
    <3>4. t1.parent[d] = i
      BY <1>1, <1>13, <3>2, <3>3
    <3>5. Z(d) /\ pos[d] \in Nat /\ lo[d] \in Nat /\ hi[d] \in Nat /\ lo[d] <= pos[d] /\ pos[d] <= hi[d]
      BY <1>1, <1>9, <3>2
    <3>6. (i = x => pos[i] = p /\ lo[i] = a /\ hi[i] = b) /\ (d = x => pos[d] = p /\ lo[d] = a /\ hi[d] = b)
      OBVIOUS
    <3>7. lo1[d] = lo1[i] /\ hi1[d] = pos1[i] - 1
      BY <1>2, <1>4, <2>1, <2>2, <3>2, <3>5, <3>6 DEF LeftPlaced
    <3>8. QED
      BY <3>2, <3>4, <3>7
<1>19. ASSUME NEW i \in S, t1.right[i] = Nobody
       PROVE  hi1[i] = pos1[i]
  <2>1. Z(i) /\ i \in Items /\ pos[i] \in Nat /\ lo[i] \in Nat /\ hi[i] \in Nat /\ lo[i] <= pos[i] /\ pos[i] <= hi[i]
    BY <1>1, <1>9
  <2>2. CASE i = x
    BY <1>15, <1>19, <2>2
  <2>3. CASE i # x
    <3>1. i # bottom /\ t.right[i] = Nobody
      BY <1>1, <1>3, <1>13, <1>15, <1>19, <2>1, <2>3
    <3>2. hi[i] = pos[i] /\ pos[i] # pos[bottom]
      BY <1>7, <3>1, LinkFacts
    <3>3. QED
      BY <1>2, <1>6, <2>1, <2>3, <3>2 DEF LeftPlaced
  <2>4. QED
    BY <2>2, <2>3
<1>20. ASSUME NEW i \in S, NEW d, d = t1.right[i], d # Nobody
       PROVE  d \in S /\ t1.parent[d] = i /\ lo1[d] = pos1[i] + 1 /\ hi1[d] = hi1[i]
  <2>1. Z(i) /\ i \in Items /\ pos[i] \in Nat /\ lo[i] \in Nat /\ hi[i] \in Nat /\ lo[i] <= pos[i] /\ pos[i] <= hi[i]
    BY <1>1, <1>9
  <2>2. CASE i = bottom
    <3>1. d = h /\ d \in S /\ t1.parent[d] = i
      BY <1>3, <1>15, <1>20, <2>2
    <3>2. Z(d) /\ pos[d] \in Nat /\ lo[d] \in Nat /\ hi[d] \in Nat /\ lo[d] <= pos[d] /\ pos[d] <= hi[d]
      BY <1>1, <1>9, <3>1
    <3>3. lo[d] = a /\ hi[d] = p - 1
      BY <1>3, <3>1
    <3>4. pos[i] = b /\ i # x /\ p < lo[i] /\ hi[i] <= b /\ hi[i] = b
      BY <1>6, <1>14, <2>2
    <3>5. lo1[d] = pos1[i] + 1 /\ hi1[d] = hi1[i]
      BY <1>2, <1>4, <2>1, <3>2, <3>3, <3>4 DEF LeftPlaced
    <3>6. QED
      BY <3>1, <3>5
  <2>3. CASE i # bottom
    <3>1. d = t.right[i]
      BY <1>13, <1>20, <2>1, <2>3
    <3>2. d \in S /\ t.parent[d] = i /\ lo[d] = pos[i] + 1 /\ hi[d] = hi[i]
      BY <1>20, <3>1, LinkFacts
    <3>3. d # h
      <4>1. i = x => d # h
        <5>1. i = x => d = t.right[x] /\ lo[d] = p + 1
          BY <1>3, <3>1
        <5>2. QED
          BY <1>2, <1>3, <1>4, <5>1
      <4>2. QED
        BY <1>3, <3>2, <4>1
    <3>4. t1.parent[d] = i
      BY <1>1, <1>13, <3>2, <3>3
    <3>5. Z(d) /\ pos[d] \in Nat /\ lo[d] \in Nat /\ hi[d] \in Nat /\ lo[d] <= pos[d] /\ pos[d] <= hi[d]
      BY <1>1, <1>9, <3>2
    <3>6. (i = x => pos[i] = p /\ lo[i] = a /\ hi[i] = b) /\ (d = x => pos[d] = p /\ lo[d] = a /\ hi[d] = b)
      OBVIOUS
    <3>7. lo1[d] = pos1[i] + 1 /\ hi1[d] = hi1[i]
      BY <1>2, <1>4, <2>1, <3>2, <3>5, <3>6 DEF LeftPlaced
    <3>8. QED
      BY <3>2, <3>4, <3>7
  <2>4. QED
    BY <2>2, <2>3
<1>21. ASSUME NEW i \in S
       PROVE  /\ t1.parent[i] = Nobody => i = t1.root
              /\ t1.parent[i] # Nobody => t1.parent[i] \in S /\ (t1.left[t1.parent[i]] = i \/ t1.right[t1.parent[i]] = i)
  <2>1. CASE i = h
    <3>1. t1.parent[i] = bottom /\ t1.right[bottom] = i /\ bottom # Nobody
      BY <1>1, <1>6, <1>15, <2>1
    <3>2. QED
      BY <1>6, <3>1
  <2>2. ASSUME i # h, NEW q, q = t.parent[i]
        PROVE  /\ t1.parent[i] = Nobody => i = t1.root
               /\ t1.parent[i] # Nobody => t1.parent[i] \in S /\ (t1.left[t1.parent[i]] = i \/ t1.right[t1.parent[i]] = i)
    <3>1. t1.parent[i] = q
      BY <1>1, <1>13, <2>2
    <3>2. q = Nobody => i = t1.root
      <4>1. \A j \in S : t.parent[j] = Nobody => j = t.root
        BY LinkFacts
      <4>2. QED
        BY <1>13, <2>2, <4>1
    <3>3. q # Nobody => q \in S /\ (t.left[q] = i \/ t.right[q] = i)
      BY <2>2, LinkFacts
    <3>4. i # Nobody
      BY <1>1
    <3>5. q # Nobody => q \in Items
      BY <1>1, <3>3
    <3>6. q # Nobody => (t1.left[q] = i \/ t1.right[q] = i)
      BY <1>13, <1>14, <2>2, <3>3, <3>4, <3>5
    <3>7. QED
      BY <3>1, <3>2, <3>3, <3>6
  <2>3. QED
    BY <2>1, <2>2
<1>22. ASSUME NEW i \in Items \ S
       PROVE  t1.parent[i] = Nobody /\ t1.left[i] = Nobody /\ t1.right[i] = Nobody
  <2>1. t.parent[i] = Nobody /\ t.left[i] = Nobody /\ t.right[i] = Nobody
    BY LinkFacts
  <2>2. i # h /\ i # bottom /\ i # x
    BY <1>3, <1>6
  <2>3. QED
    BY <1>13, <2>1, <2>2
<1>23. Drawn(t1.root, t1.parent, t1.left, t1.right, S, n, pos1, lo1, hi1)
  <2>1. t1.root \in 0..NodeMax /\ t1.parent \in Links /\ t1.left \in Links /\ t1.right \in Links
    BY <1>13 DEF Trees
  <2>2. QED
    BY <1>16, <1>17, <1>18, <1>19, <1>20, <1>21, <1>22, <2>1 DEF Drawn
<1>24. Shape(t1, S, n, s1, pos1, lo1, hi1)
  BY <1>12, <1>13, <1>23 DEF Shape
<1>25. QED
  BY <1>6, <1>14, <1>15, <1>24 DEF Reshaped, LeftTurned

(* At a right child: right of x goes under the first item left of x.        *)
RightForth(q, a, p, b) == IF q = p THEN b ELSE IF a <= q /\ q < p THEN q + (b - p) ELSE IF p < q /\ q <= b THEN (q - (p - a)) - 1 ELSE q
RightBack(q, a, p, b) == IF q = b THEN p ELSE IF a <= q /\ q < a + (b - p) THEN (q + (p - a)) + 1 ELSE IF a + (b - p) <= q /\ q < b THEN q - (b - p) ELSE q

LEMMA RightTurns ==
  ASSUME NEW n, NEW a, NEW p, NEW b, Block(n, a, p, b), NEW q \in 1..n
  PROVE  /\ RightForth(q, a, p, b) \in 1..n /\ RightBack(q, a, p, b) \in 1..n
         /\ RightForth(RightBack(q, a, p, b), a, p, b) = q /\ RightBack(RightForth(q, a, p, b), a, p, b) = q
<1>1. RightForth(q, a, p, b) \in 1..n /\ RightBack(q, a, p, b) \in 1..n
  BY DEF Block, RightForth, RightBack
<1>2. RightForth(RightBack(q, a, p, b), a, p, b) = q
  BY DEF Block, RightForth, RightBack
<1>3. RightBack(RightForth(q, a, p, b), a, p, b) = q
  BY DEF Block, RightForth, RightBack
<1>4. QED
  BY <1>1, <1>2, <1>3

RightPlaced(i, x, a, p, b, pos, lo, hi, pos1, lo1, hi1) ==
  \/ i = x /\ pos1[i] = b /\ lo1[i] = a /\ hi1[i] = b
  \/ /\ i # x /\ a <= lo[i] /\ hi[i] < p
     /\ pos1[i] = pos[i] + (b - p) /\ lo1[i] = (IF lo[i] = a THEN a ELSE lo[i] + (b - p)) /\ hi1[i] = (hi[i] + (b - p))
  \/ /\ i # x /\ p < lo[i] /\ hi[i] <= b
     /\ pos1[i] = (pos[i] - (p - a)) - 1 /\ lo1[i] = ((lo[i] - (p - a)) - 1) /\ hi1[i] = ((hi[i] - (p - a)) - 1)
  \/ /\ i # x /\ pos1[i] = pos[i] /\ lo1[i] = lo[i] /\ hi1[i] = hi[i]
     /\ (lo[i] <= a /\ b <= hi[i] /\ (pos[i] < a \/ b < pos[i])) \/ hi[i] < a \/ b < lo[i]

RightFork(t, s, pos, lo, hi, x, a, p, b, h, bottom) ==
  Forked(t, pos, lo, hi, x, a, p, b) /\ h = t.right[x] /\ bottom = s[a]

RightTurned(t1, t, S, n, x, pos, bottom) ==
  /\ Reshaped(t1, S, n, x, pos, FALSE) /\ t1.right[x] = Nobody /\ t1.left[x] = t.left[x]
  /\ bottom \in S /\ bottom # x /\ t.left[bottom] = Nobody

LEMMA RehangRight ==
  ASSUME NEW t, NEW S, NEW n, NEW s, NEW pos, NEW lo, NEW hi, Shape(t, S, n, s, pos, lo, hi),
         NEW x \in S, NEW a, NEW p, NEW b, NEW h, NEW bottom,
         RightFork(t, s, pos, lo, hi, x, a, p, b, h, bottom), NEW t1, Rehung(t1, t, x, h, bottom, "right", "left")
  PROVE  RightTurned(t1, t, S, n, x, pos, bottom)
<1>0. a = lo[x] /\ p = pos[x] /\ b = hi[x] /\ t.left[x] # Nobody /\ t.right[x] # Nobody
      /\ h = t.right[x] /\ bottom = s[a]
  BY DEF Forked, RightFork
<1> USE <1>0
<1>1. /\ n \in Nat /\ S \subseteq Items
      /\ \A i \in S : /\ pos[i] \in Nat /\ lo[i] \in Nat /\ hi[i] \in Nat
                      /\ 1 <= lo[i] /\ lo[i] <= pos[i] /\ pos[i] <= hi[i] /\ hi[i] <= n
                      /\ i \in Items /\ i # Nobody /\ s[pos[i]] = i
      /\ \A q \in 1..n : s[q] \in S /\ pos[s[q]] = q
  <2>1. \A i \in S : i \in Items
    BY NumberFacts
  <2>2. QED
    BY <2>1, NumberFacts, ItemsAreNumbers
<1>2. /\ a \in Nat /\ p \in Nat /\ b \in Nat /\ 1 <= a /\ a <= p /\ p <= b /\ b <= n
      /\ x \in Items /\ x # Nobody
  BY <1>1
<1>3. /\ h \in S /\ t.parent[h] = x /\ h # x
      /\ t.left[x] \in S /\ lo[t.left[x]] = a /\ hi[t.left[x]] = p - 1 /\ t.parent[t.left[x]] = x
      /\ t.right[x] \in S /\ lo[t.right[x]] = p + 1 /\ hi[t.right[x]] = b /\ t.parent[t.right[x]] = x
  <2>1. /\ t.left[x] \in S /\ lo[t.left[x]] = a /\ hi[t.left[x]] = p - 1 /\ t.parent[t.left[x]] = x
        /\ t.right[x] \in S /\ lo[t.right[x]] = p + 1 /\ hi[t.right[x]] = b /\ t.parent[t.right[x]] = x
    BY LinkFacts
  <2>2. h # x
    BY <1>2, <2>1
  <2>3. QED
    BY <2>1, <2>2
<1>4. a < p /\ p < b
  <2>1. lo[t.left[x]] <= hi[t.left[x]] /\ lo[t.right[x]] <= hi[t.right[x]]
    <3>1. \A i \in S : lo[i] <= hi[i]
      BY <1>1
    <3>2. QED
      BY <1>3, <3>1
  <2>2. QED
    BY <1>2, <1>3, <2>1
<1>5. \A i \in S : Sector(i, x, a, p, b, pos, lo, hi)
  BY Sectors
<1>6. bottom \in S /\ pos[bottom] = a
  <2>1. ASSUME NEW q, q = a
        PROVE  bottom \in S /\ pos[bottom] = a
    <3>1. q \in 1..n
      BY <1>1, <1>2, <1>4, <2>1
    <3>2. QED
      BY <1>1, <2>1, <3>1
  <2>2. QED
    BY <2>1
<1>7. \A i \in S : pos[i] = pos[bottom] => i = bottom
  BY <1>1, <1>6
<1>8. \A i \in S : pos[i] = p => i = x
  BY <1>1
<1> DEFINE to == [q \in 1..n |-> RightForth(q, a, p, b)]
           from == [q \in 1..n |-> RightBack(q, a, p, b)]
           s1 == Shuffled(s, n, from)
           In1(i) == i # x /\ a <= lo[i] /\ hi[i] < p
           In2(i) == i # x /\ p < lo[i] /\ hi[i] <= b
           pos1 == [i \in Items |-> IF i \notin S THEN 0 ELSE RightForth(pos[i], a, p, b)]
           lo1 == [i \in Items |-> IF i \notin S THEN 0 ELSE IF i = x THEN a
                                   ELSE IF In1(i) THEN IF lo[i] = a THEN a ELSE lo[i] + (b - p)
                                   ELSE IF In2(i) THEN (lo[i] - (p - a)) - 1 ELSE lo[i]]
           hi1 == [i \in Items |-> IF i \notin S THEN 0 ELSE IF i = x THEN b
                                   ELSE IF In1(i) THEN hi[i] + (b - p)
                                   ELSE IF In2(i) THEN (hi[i] - (p - a)) - 1 ELSE hi[i]]
           Z(i) == RightPlaced(i, x, a, p, b, pos, lo, hi, pos1, lo1, hi1)
<1>9. ASSUME NEW i \in S
      PROVE  Z(i)
  <2>0. i \in Items
    BY <1>1
  <2>1. pos1[i] = RightForth(pos[i], a, p, b)
    BY <2>0
  <2>2. lo1[i] = IF i = x THEN a ELSE IF In1(i) THEN IF lo[i] = a THEN a ELSE lo[i] + (b - p)
                 ELSE IF In2(i) THEN (lo[i] - (p - a)) - 1 ELSE lo[i]
    BY <2>0
  <2>3. hi1[i] = IF i = x THEN b ELSE IF In1(i) THEN hi[i] + (b - p)
                 ELSE IF In2(i) THEN (hi[i] - (p - a)) - 1 ELSE hi[i]
    BY <2>0
  <2>4. /\ pos[i] \in Nat /\ lo[i] \in Nat /\ hi[i] \in Nat /\ lo[i] <= pos[i] /\ pos[i] <= hi[i]
        /\ (i = x => pos[i] = p /\ lo[i] = a /\ hi[i] = b)
    BY <1>1
  <2>5. Sector(i, x, a, p, b, pos, lo, hi)
    BY <1>5
  <2> HIDE DEF pos1, lo1, hi1
  <2>6. CASE i = x
    BY <1>2, <2>1, <2>2, <2>3, <2>4, <2>6 DEF RightPlaced, RightForth
  <2>7. CASE i # x /\ a <= lo[i] /\ hi[i] < p
    BY <1>2, <2>1, <2>2, <2>3, <2>4, <2>7 DEF RightPlaced, RightForth
  <2>8. CASE i # x /\ p < lo[i] /\ hi[i] <= b
    BY <1>2, <2>1, <2>2, <2>3, <2>4, <2>8 DEF RightPlaced, RightForth
  <2>9. CASE i # x /\ ((lo[i] <= a /\ b <= hi[i] /\ (pos[i] < a \/ b < pos[i])) \/ hi[i] < a \/ b < lo[i])
    <3>1. pos1[i] = pos[i] /\ lo1[i] = lo[i] /\ hi1[i] = hi[i]
      BY <1>2, <2>1, <2>2, <2>3, <2>4, <2>9 DEF RightForth
    <3>2. QED
      BY <2>9, <3>1 DEF RightPlaced
  <2>10. QED
    BY <2>5, <2>6, <2>7, <2>8, <2>9 DEF Sector
<1>10. ASSUME NEW i \in S
       PROVE  /\ pos1[i] = to[pos[i]] /\ pos1[i] \in Nat /\ lo1[i] \in Nat /\ hi1[i] \in Nat
              /\ 1 <= lo1[i] /\ lo1[i] <= pos1[i] /\ pos1[i] <= hi1[i] /\ hi1[i] <= n
  <2>1. /\ i \in Items /\ pos[i] \in Nat /\ lo[i] \in Nat /\ hi[i] \in Nat
        /\ 1 <= lo[i] /\ lo[i] <= pos[i] /\ pos[i] <= hi[i] /\ hi[i] <= n
    BY <1>1
  <2>2. pos[i] \in 1..n
    BY <1>1, <2>1
  <2>3. pos1[i] = to[pos[i]]
    BY <2>1, <2>2
  <2>4. Z(i)
    BY <1>9
  <2> HIDE DEF pos1, lo1, hi1, to
  <2>5. /\ pos1[i] \in Nat /\ lo1[i] \in Nat /\ hi1[i] \in Nat
        /\ 1 <= lo1[i] /\ lo1[i] <= pos1[i] /\ pos1[i] <= hi1[i] /\ hi1[i] <= n
    BY <1>1, <1>2, <1>4, <2>1, <2>4 DEF RightPlaced
  <2>6. QED
    BY <2>3, <2>5
<1>11. pos1 \in [Items -> Nat] /\ lo1 \in [Items -> Nat] /\ hi1 \in [Items -> Nat]
  <2>1. \A i \in Items : pos1[i] \in Nat /\ lo1[i] \in Nat /\ hi1[i] \in Nat
    <3>1. ASSUME NEW i \in Items
          PROVE  pos1[i] \in Nat /\ lo1[i] \in Nat /\ hi1[i] \in Nat
      <4>1. i \notin S => pos1[i] = 0 /\ lo1[i] = 0 /\ hi1[i] = 0
        OBVIOUS
      <4>2. i \in S => pos1[i] \in Nat /\ lo1[i] \in Nat /\ hi1[i] \in Nat
        BY <1>10
      <4>3. QED
        BY <4>1, <4>2
    <3>2. QED
      BY <3>1
  <2>2. pos1 = [i \in Items |-> pos1[i]] /\ lo1 = [i \in Items |-> lo1[i]] /\ hi1 = [i \in Items |-> hi1[i]]
    OBVIOUS
  <2> HIDE DEF pos1, lo1, hi1
  <2>3. QED
    BY <2>1, <2>2
<1>12. Numbered(S, n, s1, pos1, lo1, hi1)
  <2>1. Numbered(S, n, s, pos, lo, hi)
    BY DEF Shape
  <2>2. ASSUME NEW q \in 1..n
        PROVE  /\ RightForth(q, a, p, b) \in 1..n /\ RightBack(q, a, p, b) \in 1..n
               /\ RightForth(RightBack(q, a, p, b), a, p, b) = q /\ RightBack(RightForth(q, a, p, b), a, p, b) = q
    <3>1. Block(n, a, p, b)
      BY <1>1, <1>2 DEF Block
    <3>2. QED
      BY <3>1, RightTurns
  <2>3. Permutes(n, to, from)
    BY <2>2 DEF Permutes
  <2>4. Renumbered(S, n, to, pos, pos1, lo1, hi1)
    <3> HIDE DEF to, pos1, lo1, hi1
    <3>1. QED
      BY <1>10, <1>11 DEF Renumbered
  <2> HIDE DEF to, from, pos1, lo1, hi1
  <2>5. QED
    BY <2>1, <2>3, <2>4, Renumbers
<1> HIDE DEF pos1, lo1, hi1, s1, to, from
<1>13. /\ t1 \in Trees /\ t1.root = t.root
       /\ \A i \in Items : t1.parent[i] = IF i = h THEN bottom ELSE t.parent[i]
       /\ \A i \in Items : t1.left[i] = IF i = bottom THEN h ELSE t.left[i]
       /\ \A i \in Items : t1.right[i] = IF i = x THEN Nobody ELSE t.right[i]
  BY DEF Rehung
<1>14. /\ bottom # x /\ hi[bottom] < p /\ a <= lo[bottom] /\ lo[bottom] = a /\ t.left[bottom] = Nobody
  <2>1. /\ pos[bottom] \in Nat /\ lo[bottom] \in Nat /\ hi[bottom] \in Nat
        /\ lo[bottom] <= pos[bottom] /\ pos[bottom] <= hi[bottom] /\ pos[x] = p
    BY <1>1, <1>6
  <2>2. Sector(bottom, x, a, p, b, pos, lo, hi)
    BY <1>5, <1>6
  <2>3. bottom # x /\ hi[bottom] < p /\ a <= lo[bottom] /\ lo[bottom] = a
    BY <1>2, <1>4, <1>6, <2>1, <2>2 DEF Sector
  <2>4. t.left[bottom] = Nobody
    <3>1. SUFFICES ASSUME NEW d, d = t.left[bottom], d # Nobody
                   PROVE  FALSE
      OBVIOUS
    <3>2. d \in S /\ lo[d] = lo[bottom] /\ hi[d] = pos[bottom] - 1
      BY <1>6, <3>1, LinkFacts
    <3>3. lo[d] <= pos[d] /\ pos[d] <= hi[d] /\ lo[d] \in Nat /\ hi[d] \in Nat /\ pos[d] \in Nat
      BY <1>1, <3>2
    <3>4. QED
      BY <1>2, <1>6, <2>1, <2>3, <3>2, <3>3
  <2>5. QED
    BY <2>3, <2>4
<1>15. t1.right[x] = Nobody /\ t1.left[x] = t.left[x] /\ t1.left[bottom] = h /\ t1.parent[h] = bottom
  BY <1>1, <1>2, <1>3, <1>6, <1>13, <1>14
<1>16. /\ n = 0 => t1.root = Nobody
       /\ n # 0 => t1.root \in S /\ t1.parent[t1.root] = Nobody /\ lo1[t1.root] = 1 /\ hi1[t1.root] = n
  <2>1. n # 0
    BY <1>1, <1>2
  <2>2. t.root \in S /\ t.parent[t.root] = Nobody /\ lo[t.root] = 1 /\ hi[t.root] = n
    BY <2>1, LinkFacts
  <2>3. t.root # h /\ t1.parent[t.root] = Nobody
    BY <1>1, <1>2, <1>3, <1>13, <2>2
  <2>4. Z(t.root)
    BY <1>9, <2>2
  <2>5. ASSUME NEW r, r = t.root
        PROVE  lo1[r] = 1 /\ hi1[r] = n
    <3>1. RightPlaced(r, x, a, p, b, pos, lo, hi, pos1, lo1, hi1) /\ lo[r] = 1 /\ hi[r] = n
      BY <2>2, <2>4, <2>5
    <3>2. r = x => a = 1 /\ b = n
      BY <2>2, <2>5
    <3>3. QED
      BY <1>1, <1>2, <1>4, <3>1, <3>2 DEF RightPlaced
  <2>6. QED
    BY <1>13, <2>1, <2>2, <2>3, <2>5
<1>17. ASSUME NEW i \in S, t1.left[i] = Nobody
       PROVE  lo1[i] = pos1[i]
  <2>1. Z(i) /\ i \in Items /\ pos[i] \in Nat /\ lo[i] \in Nat /\ hi[i] \in Nat /\ lo[i] <= pos[i] /\ pos[i] <= hi[i]
    BY <1>1, <1>9
  <2>2. CASE i = x
    BY <1>15, <1>17, <2>2
  <2>3. CASE i # x
    <3>1. i # bottom /\ t.left[i] = Nobody
      BY <1>1, <1>3, <1>13, <1>15, <1>17, <2>1, <2>3
    <3>2. lo[i] = pos[i] /\ pos[i] # pos[bottom]
      BY <1>7, <3>1, LinkFacts
    <3>3. QED
      BY <1>2, <1>6, <2>1, <2>3, <3>2 DEF RightPlaced
  <2>4. QED
    BY <2>2, <2>3
<1>18. ASSUME NEW i \in S, NEW d, d = t1.left[i], d # Nobody
       PROVE  d \in S /\ t1.parent[d] = i /\ lo1[d] = lo1[i] /\ hi1[d] = pos1[i] - 1
  <2>1. Z(i) /\ i \in Items /\ pos[i] \in Nat /\ lo[i] \in Nat /\ hi[i] \in Nat /\ lo[i] <= pos[i] /\ pos[i] <= hi[i]
    BY <1>1, <1>9
  <2>2. CASE i = bottom
    <3>1. d = h /\ d \in S /\ t1.parent[d] = i
      BY <1>3, <1>15, <1>18, <2>2
    <3>2. Z(d) /\ pos[d] \in Nat /\ lo[d] \in Nat /\ hi[d] \in Nat /\ lo[d] <= pos[d] /\ pos[d] <= hi[d]
      BY <1>1, <1>9, <3>1
    <3>3. lo[d] = p + 1 /\ hi[d] = b
      BY <1>3, <3>1
    <3>4. pos[i] = a /\ i # x /\ hi[i] < p /\ a <= lo[i] /\ lo[i] = a
      BY <1>6, <1>14, <2>2
    <3>5. lo1[d] = lo1[i] /\ hi1[d] = pos1[i] - 1
      BY <1>2, <1>4, <2>1, <3>2, <3>3, <3>4 DEF RightPlaced
    <3>6. QED
      BY <3>1, <3>5
  <2>3. CASE i # bottom
    <3>1. d = t.left[i]
      BY <1>13, <1>18, <2>1, <2>3
    <3>2. d \in S /\ t.parent[d] = i /\ lo[d] = lo[i] /\ hi[d] = pos[i] - 1
      BY <1>18, <3>1, LinkFacts
    <3>3. d # h
      <4>1. i = x => d # h
        <5>1. i = x => d = t.left[x] /\ lo[d] = a
          BY <1>3, <3>1
        <5>2. QED
          BY <1>2, <1>3, <1>4, <5>1
      <4>2. QED
        BY <1>3, <3>2, <4>1
    <3>4. t1.parent[d] = i
      BY <1>1, <1>13, <3>2, <3>3
    <3>5. Z(d) /\ pos[d] \in Nat /\ lo[d] \in Nat /\ hi[d] \in Nat /\ lo[d] <= pos[d] /\ pos[d] <= hi[d]
      BY <1>1, <1>9, <3>2
    <3>6. (i = x => pos[i] = p /\ lo[i] = a /\ hi[i] = b) /\ (d = x => pos[d] = p /\ lo[d] = a /\ hi[d] = b)
      OBVIOUS
    <3>7. lo1[d] = lo1[i] /\ hi1[d] = pos1[i] - 1
      BY <1>2, <1>4, <2>1, <3>2, <3>5, <3>6 DEF RightPlaced
    <3>8. QED
      BY <3>2, <3>4, <3>7
  <2>4. QED
    BY <2>2, <2>3
<1>19. ASSUME NEW i \in S, t1.right[i] = Nobody
       PROVE  hi1[i] = pos1[i]
  <2>1. Z(i) /\ i \in Items /\ pos[i] \in Nat /\ lo[i] \in Nat /\ hi[i] \in Nat /\ lo[i] <= pos[i] /\ pos[i] <= hi[i]
    BY <1>1, <1>9
  <2>2. CASE i = x
    BY <2>1, <2>2 DEF RightPlaced
  <2>3. CASE i # x
    <3>1. t.right[i] = Nobody
      BY <1>13, <1>19, <2>1, <2>3
    <3>2. hi[i] = pos[i]
      BY <3>1, LinkFacts
    <3>3. QED
      BY <1>2, <2>1, <2>3, <3>2 DEF RightPlaced
  <2>4. QED
    BY <2>2, <2>3
<1>20. ASSUME NEW i \in S, NEW d, d = t1.right[i], d # Nobody
       PROVE  d \in S /\ t1.parent[d] = i /\ lo1[d] = pos1[i] + 1 /\ hi1[d] = hi1[i]
  <2>1. Z(i) /\ i \in Items /\ pos[i] \in Nat /\ lo[i] \in Nat /\ hi[i] \in Nat /\ lo[i] <= pos[i] /\ pos[i] <= hi[i]
    BY <1>1, <1>9
  <2>2. i # x
    BY <1>15, <1>20
  <2>3. QED
    <3>1. d = t.right[i]
      BY <1>13, <1>20, <2>1, <2>2
    <3>2. d \in S /\ t.parent[d] = i /\ lo[d] = pos[i] + 1 /\ hi[d] = hi[i]
      BY <1>20, <3>1, LinkFacts
    <3>3. d # h
      <4>1. i = x => d # h
        <5>1. i = x => d = t.right[x] /\ lo[d] = p + 1
          BY <1>3, <3>1
        <5>2. QED
          BY <1>2, <1>3, <1>4, <5>1, <2>2
      <4>2. QED
        BY <1>3, <3>2, <4>1
    <3>4. t1.parent[d] = i
      BY <1>1, <1>13, <3>2, <3>3
    <3>5. Z(d) /\ pos[d] \in Nat /\ lo[d] \in Nat /\ hi[d] \in Nat /\ lo[d] <= pos[d] /\ pos[d] <= hi[d]
      BY <1>1, <1>9, <3>2
    <3>6. (i = x => pos[i] = p /\ lo[i] = a /\ hi[i] = b) /\ (d = x => pos[d] = p /\ lo[d] = a /\ hi[d] = b)
      OBVIOUS
    <3>7. lo1[d] = pos1[i] + 1 /\ hi1[d] = hi1[i]
      BY <1>2, <1>4, <2>1, <2>2, <3>2, <3>5, <3>6 DEF RightPlaced
    <3>8. QED
      BY <3>2, <3>4, <3>7
<1>21. ASSUME NEW i \in S
       PROVE  /\ t1.parent[i] = Nobody => i = t1.root
              /\ t1.parent[i] # Nobody => t1.parent[i] \in S /\ (t1.left[t1.parent[i]] = i \/ t1.right[t1.parent[i]] = i)
  <2>1. CASE i = h
    <3>1. t1.parent[i] = bottom /\ t1.left[bottom] = i /\ bottom # Nobody
      BY <1>1, <1>6, <1>15, <2>1
    <3>2. QED
      BY <1>6, <3>1
  <2>2. ASSUME i # h, NEW q, q = t.parent[i]
        PROVE  /\ t1.parent[i] = Nobody => i = t1.root
               /\ t1.parent[i] # Nobody => t1.parent[i] \in S /\ (t1.left[t1.parent[i]] = i \/ t1.right[t1.parent[i]] = i)
    <3>1. t1.parent[i] = q
      BY <1>1, <1>13, <2>2
    <3>2. q = Nobody => i = t1.root
      <4>1. \A j \in S : t.parent[j] = Nobody => j = t.root
        BY LinkFacts
      <4>2. QED
        BY <1>13, <2>2, <4>1
    <3>3. q # Nobody => q \in S /\ (t.left[q] = i \/ t.right[q] = i)
      BY <2>2, LinkFacts
    <3>4. i # Nobody
      BY <1>1
    <3>5. q # Nobody => q \in Items
      BY <1>1, <3>3
    <3>6. q # Nobody => (t1.left[q] = i \/ t1.right[q] = i)
      BY <1>13, <1>14, <2>2, <3>3, <3>4, <3>5
    <3>7. QED
      BY <3>1, <3>2, <3>3, <3>6
  <2>3. QED
    BY <2>1, <2>2
<1>22. ASSUME NEW i \in Items \ S
       PROVE  t1.parent[i] = Nobody /\ t1.left[i] = Nobody /\ t1.right[i] = Nobody
  <2>1. t.parent[i] = Nobody /\ t.left[i] = Nobody /\ t.right[i] = Nobody
    BY LinkFacts
  <2>2. i # h /\ i # bottom /\ i # x
    BY <1>3, <1>6
  <2>3. QED
    BY <1>13, <2>1, <2>2
<1>23. Drawn(t1.root, t1.parent, t1.left, t1.right, S, n, pos1, lo1, hi1)
  <2>1. t1.root \in 0..NodeMax /\ t1.parent \in Links /\ t1.left \in Links /\ t1.right \in Links
    BY <1>13 DEF Trees
  <2>2. QED
    BY <1>16, <1>17, <1>18, <1>19, <1>20, <1>21, <1>22, <2>1 DEF Drawn
<1>24. Shape(t1, S, n, s1, pos1, lo1, hi1)
  BY <1>12, <1>13, <1>23 DEF Shape
<1>25. QED
  BY <1>6, <1>14, <1>15, <1>24 DEF Reshaped, RightTurned

-----------------------------------------------------------------------------
(* Unlink in its four steps: the homeless branch gets its place, the        *)
(* promoted one its parent, that its new child, and the item is cut off.    *)
Housed(t, end, bottom, h, c) ==
  IF h = Nobody \/ c = Nobody THEN t ELSE [t EXCEPT ![end][bottom] = h, !.parent[h] = bottom]
Risen(t, c, q) == IF c = Nobody THEN t ELSE [t EXCEPT !.parent[c] = q]
Above(t, q, at, c) == IF q = Nobody THEN [t EXCEPT !.root = c] ELSE [t EXCEPT ![at][q] = c]
Gone(t, x) == [t EXCEPT !.parent[x] = Nobody, !.left[x] = Nobody, !.right[x] = Nobody]

LEMMA UnlinkReadOff ==
  ASSUME NEW t, NEW x, In(t, x)
  PROVE  Unlink(t, x) =
           Gone(Above(Risen(Housed(t, HomelessSide(t, x), End(t, t[Promoted(t, x)][x], HomelessSide(t, x)),
                                   t[Other(Promoted(t, x))][x], t[Promoted(t, x)][x]),
                            t[Promoted(t, x)][x], t.parent[x]),
                      t.parent[x], SideOf(t, x), t[Promoted(t, x)][x]), x)
  BY DEF Unlink, Housed, Risen, Above, Gone

LEMMA TreeLinks ==
  ASSUME NEW t \in Trees
  PROVE  /\ t.root \in 0..NodeMax /\ t.parent \in [Items -> 0..NodeMax]
         /\ t.left \in [Items -> 0..NodeMax] /\ t.right \in [Items -> 0..NodeMax]
         /\ t["left"] = t.left /\ t["right"] = t.right
  BY DEF Trees, Links

LEMMA HousedIs ==
  ASSUME NEW t \in Trees, NEW end \in Sides, NEW bottom \in Items, NEW h \in Items, NEW c, c # Nobody
  PROVE  /\ Housed(t, end, bottom, h, c) \in Trees /\ Housed(t, end, bottom, h, c).root = t.root
         /\ \A i \in Items :
              /\ Housed(t, end, bottom, h, c).parent[i] = IF i = h THEN bottom ELSE t.parent[i]
              /\ Housed(t, end, bottom, h, c).left[i] = IF end = "left" /\ i = bottom THEN h ELSE t.left[i]
              /\ Housed(t, end, bottom, h, c).right[i] = IF end = "right" /\ i = bottom THEN h ELSE t.right[i]
<1>1. h # Nobody /\ h \in 0..NodeMax /\ bottom \in 0..NodeMax
  BY ItemsAreNumbers
<1>2. CASE end = "left"
  <2>1. ASSUME NEW t2, Hung(t2, t, h, bottom, "left")
        PROVE  /\ t2 \in Trees /\ t2.root = t.root /\ t2.left = [t.left EXCEPT ![bottom] = h]
               /\ t2.parent = [t.parent EXCEPT ![h] = bottom] /\ t2.right = t.right
    BY <1>1, <2>1 DEF Trees, Links, Hung
  <2>2. ASSUME NEW t2, t2 = Housed(t, end, bottom, h, c)
        PROVE  Hung(t2, t, h, bottom, "left")
    BY <1>1, <1>2, <2>2 DEF Housed, Hung
  <2>3. ASSUME NEW t2, t2 = Housed(t, end, bottom, h, c)
        PROVE  /\ t2 \in Trees /\ t2.root = t.root
               /\ \A i \in Items :
                    /\ t2.parent[i] = IF i = h THEN bottom ELSE t.parent[i]
                    /\ t2.left[i] = IF end = "left" /\ i = bottom THEN h ELSE t.left[i]
                    /\ t2.right[i] = IF end = "right" /\ i = bottom THEN h ELSE t.right[i]
    <3>1. /\ t2 \in Trees /\ t2.root = t.root /\ t2.left = [t.left EXCEPT ![bottom] = h]
          /\ t2.parent = [t.parent EXCEPT ![h] = bottom] /\ t2.right = t.right
      BY <2>1, <2>2, <2>3
    <3>2. QED
      BY <1>2, <3>1, TreeLinks
  <2>4. QED
    BY <2>3
<1>3. CASE end = "right"
  <2>1. ASSUME NEW t2, Hung(t2, t, h, bottom, "right")
        PROVE  /\ t2 \in Trees /\ t2.root = t.root /\ t2.right = [t.right EXCEPT ![bottom] = h]
               /\ t2.parent = [t.parent EXCEPT ![h] = bottom] /\ t2.left = t.left
    BY <1>1, <2>1 DEF Trees, Links, Hung
  <2>2. ASSUME NEW t2, t2 = Housed(t, end, bottom, h, c)
        PROVE  Hung(t2, t, h, bottom, "right")
    BY <1>1, <1>3, <2>2 DEF Housed, Hung
  <2>3. ASSUME NEW t2, t2 = Housed(t, end, bottom, h, c)
        PROVE  /\ t2 \in Trees /\ t2.root = t.root
               /\ \A i \in Items :
                    /\ t2.parent[i] = IF i = h THEN bottom ELSE t.parent[i]
                    /\ t2.left[i] = IF end = "left" /\ i = bottom THEN h ELSE t.left[i]
                    /\ t2.right[i] = IF end = "right" /\ i = bottom THEN h ELSE t.right[i]
    <3>1. /\ t2 \in Trees /\ t2.root = t.root /\ t2.right = [t.right EXCEPT ![bottom] = h]
          /\ t2.parent = [t.parent EXCEPT ![h] = bottom] /\ t2.left = t.left
      BY <2>1, <2>2, <2>3
    <3>2. QED
      BY <1>3, <3>1, TreeLinks
  <2>4. QED
    BY <2>3
<1>4. QED
  BY <1>2, <1>3 DEF Sides

LEMMA RisenIs ==
  ASSUME NEW t \in Trees, NEW c \in 0..NodeMax, NEW q \in 0..NodeMax
  PROVE  /\ Risen(t, c, q) \in Trees /\ Risen(t, c, q).root = t.root
         /\ \A i \in Items :
              /\ Risen(t, c, q).parent[i] = IF i = c THEN q ELSE t.parent[i]
              /\ Risen(t, c, q).left[i] = t.left[i] /\ Risen(t, c, q).right[i] = t.right[i]
<1>1. CASE c = Nobody
  <2>1. \A i \in Items : i # Nobody
    BY ItemsAreNumbers
  <2>2. QED
    BY <1>1, <2>1 DEF Risen
<1>2. CASE c # Nobody
  <2>1. c \in Items
    BY <1>2, ItemsAreNumbers
  <2>2. Risen(t, c, q) = [t EXCEPT !.parent[c] = q]
    BY <1>2 DEF Risen
  <2>3. QED
    BY <2>1, <2>2 DEF Trees, Links
<1>3. QED
  BY <1>1, <1>2

LEMMA AboveIs ==
  ASSUME NEW t \in Trees, NEW c \in 0..NodeMax, NEW q \in 0..NodeMax, NEW at \in Sides
  PROVE  /\ Above(t, q, at, c) \in Trees
         /\ Above(t, q, at, c).root = IF q = Nobody THEN c ELSE t.root
         /\ \A i \in Items :
              /\ Above(t, q, at, c).parent[i] = t.parent[i]
              /\ Above(t, q, at, c).left[i] = IF at = "left" /\ i = q THEN c ELSE t.left[i]
              /\ Above(t, q, at, c).right[i] = IF at = "right" /\ i = q THEN c ELSE t.right[i]
<1>1. CASE q = Nobody
  <2>1. \A i \in Items : i # q
    BY <1>1, ItemsAreNumbers
  <2>2. Above(t, q, at, c) = [t EXCEPT !.root = c]
    BY <1>1 DEF Above
  <2>3. QED
    BY <1>1, <2>1, <2>2 DEF Trees, Links
<1>2. CASE q # Nobody /\ at = "left"
  <2>1. q \in Items
    BY <1>2, ItemsAreNumbers
  <2>2. Above(t, q, at, c) = [t EXCEPT !["left"][q] = c]
    BY <1>2 DEF Above
  <2>3. QED
    BY <1>2, <2>1, <2>2 DEF Trees, Links
<1>3. CASE q # Nobody /\ at = "right"
  <2>1. q \in Items
    BY <1>3, ItemsAreNumbers
  <2>2. Above(t, q, at, c) = [t EXCEPT !["right"][q] = c]
    BY <1>3 DEF Above
  <2>3. QED
    BY <1>3, <2>1, <2>2 DEF Trees, Links
<1>4. QED
  BY <1>1, <1>2, <1>3 DEF Sides

LEMMA GoneIs ==
  ASSUME NEW t \in Trees, NEW x \in Items
  PROVE  /\ Gone(t, x) \in Trees /\ Gone(t, x).root = t.root
         /\ \A i \in Items :
              /\ Gone(t, x).parent[i] = IF i = x THEN Nobody ELSE t.parent[i]
              /\ Gone(t, x).left[i] = IF i = x THEN Nobody ELSE t.left[i]
              /\ Gone(t, x).right[i] = IF i = x THEN Nobody ELSE t.right[i]
  BY ItemsAreNumbers DEF Gone, Trees, Links

(* The last three steps, on the tree the first one makes.                   *)
Cut(t2, t, x, c, q, at) ==
  /\ t2 \in Trees
  /\ t2.root = IF q = Nobody THEN c ELSE t.root
  /\ \A i \in Items :
       /\ t2.parent[i] = IF i = x THEN Nobody ELSE IF i = c THEN q ELSE t.parent[i]
       /\ t2.left[i] = IF i = x THEN Nobody ELSE IF at = "left" /\ i = q THEN c ELSE t.left[i]
       /\ t2.right[i] = IF i = x THEN Nobody ELSE IF at = "right" /\ i = q THEN c ELSE t.right[i]

LEMMA CutIs ==
  ASSUME NEW t \in Trees, NEW x \in Items, NEW c \in 0..NodeMax, NEW q \in 0..NodeMax, NEW at \in Sides
  PROVE  Cut(Gone(Above(Risen(t, c, q), q, at, c), x), t, x, c, q, at)
<1>1. ASSUME NEW ta, ta = Risen(t, c, q), NEW tb, tb = Above(ta, q, at, c), NEW tc, tc = Gone(tb, x)
      PROVE  Cut(tc, t, x, c, q, at)
  <2>1. /\ ta \in Trees /\ ta.root = t.root
        /\ \A i \in Items : /\ ta.parent[i] = IF i = c THEN q ELSE t.parent[i]
                            /\ ta.left[i] = t.left[i] /\ ta.right[i] = t.right[i]
    BY <1>1, RisenIs
  <2>2. /\ tb \in Trees /\ tb.root = IF q = Nobody THEN c ELSE ta.root
        /\ \A i \in Items : /\ tb.parent[i] = ta.parent[i]
                            /\ tb.left[i] = IF at = "left" /\ i = q THEN c ELSE ta.left[i]
                            /\ tb.right[i] = IF at = "right" /\ i = q THEN c ELSE ta.right[i]
    BY <1>1, <2>1, AboveIs
  <2>3. /\ tc \in Trees /\ tc.root = tb.root
        /\ \A i \in Items : /\ tc.parent[i] = IF i = x THEN Nobody ELSE tb.parent[i]
                            /\ tc.left[i] = IF i = x THEN Nobody ELSE tb.left[i]
                            /\ tc.right[i] = IF i = x THEN Nobody ELSE tb.right[i]
    BY <1>1, <2>2, GoneIs
  <2>4. QED
    BY <2>1, <2>2, <2>3 DEF Cut
<1>2. QED
  BY <1>1

(* Where an item hangs.                                                     *)
HangsAt(t, x, q, at) ==
  /\ at \in Sides /\ q = t.parent[x] /\ q \in 0..NodeMax
  /\ \A i \in Items : (t.left[i] = x <=> at = "left" /\ i = q) /\ (t.right[i] = x <=> at = "right" /\ i = q)

LEMMA InIs ==
  ASSUME NEW t, NEW S, NEW n, NEW s, NEW pos, NEW lo, NEW hi, Shape(t, S, n, s, pos, lo, hi), NEW x \in Items
  PROVE  In(t, x) <=> x \in S
<1>1. CASE x \in S
  <2>1. t.parent[x] = Nobody => x = t.root
    BY <1>1, LinkFacts
  <2>2. QED
    BY <1>1, <2>1 DEF In
<1>2. CASE x \notin S
  <2>1. t.parent[x] = Nobody
    BY <1>2, LinkFacts
  <2>2. t.root = Nobody \/ t.root \in S
    BY LinkFacts
  <2>3. x # Nobody
    BY ItemsAreNumbers
  <2>4. QED
    BY <1>2, <2>1, <2>2, <2>3 DEF In
<1>3. QED
  BY <1>1, <1>2

LEMMA OneLink ==
  ASSUME NEW t, NEW S, NEW n, NEW s, NEW pos, NEW lo, NEW hi, Shape(t, S, n, s, pos, lo, hi),
         NEW x \in S, NEW i \in Items
  PROVE  /\ t.left[i] = x \/ t.right[i] = x => i \in S /\ t.parent[x] = i
         /\ ~ (t.left[i] = x /\ t.right[i] = x)
<1>1. x \in Items /\ x # Nobody
  BY NumberFacts, ItemsAreNumbers
<1>2. i \notin S => t.left[i] = Nobody /\ t.right[i] = Nobody
  BY LinkFacts
<1>3. t.left[i] = x \/ t.right[i] = x => i \in S /\ t.parent[x] = i
  <2>1. i \in S /\ t.left[i] = x => t.parent[x] = i
    BY <1>1, LinkFacts
  <2>2. i \in S /\ t.right[i] = x => t.parent[x] = i
    BY <1>1, LinkFacts
  <2>3. QED
    BY <1>1, <1>2, <2>1, <2>2
<1>4. ASSUME t.left[i] = x, t.right[i] = x
      PROVE  FALSE
  <2>1. i \in S
    BY <1>3, <1>4
  <2>2. hi[x] = pos[i] - 1 /\ lo[x] = pos[i] + 1
    BY <1>1, <1>4, <2>1, LinkFacts
  <2>3. lo[x] \in Nat /\ hi[x] \in Nat /\ pos[x] \in Nat /\ pos[i] \in Nat /\ lo[x] <= pos[x] /\ pos[x] <= hi[x]
    BY <1>1, NumberFacts
  <2>4. QED
    BY <2>2, <2>3
<1>5. QED
  BY <1>3, <1>4

LEMMA HangsAtIs ==
  ASSUME NEW t, NEW S, NEW n, NEW s, NEW pos, NEW lo, NEW hi, Shape(t, S, n, s, pos, lo, hi),
         NEW x \in S, NEW q, q = t.parent[x], NEW at, at = SideOf(t, x)
  PROVE  HangsAt(t, x, q, at)
<1>1. \A i \in Items : /\ t.left[i] = x \/ t.right[i] = x => i \in S /\ q = i
                       /\ ~ (t.left[i] = x /\ t.right[i] = x)
  BY OneLink
<1>2. x \in Items /\ q \in 0..NodeMax /\ t["left"] = t.left /\ t["right"] = t.right
  BY NumberFacts, LinkFacts
<1>3. CASE q = Nobody
  <2>1. at = "left"
    BY <1>3 DEF SideOf
  <2>2. \A i \in Items : i # q
    BY <1>3, ItemsAreNumbers
  <2>3. QED
    BY <1>1, <1>2, <2>1, <2>2 DEF HangsAt, Sides
<1>4. CASE q # Nobody
  <2>1. at = CHOOSE side \in Sides : t[side][q] = x
    BY <1>4 DEF SideOf
  <2>2. q \in Items /\ (t.left[q] = x \/ t.right[q] = x)
    BY <1>2, <1>4, LinkFacts, ItemsAreNumbers
  <2>3. \E side \in Sides : t[side][q] = x
    BY <1>2, <2>2 DEF Sides
  <2>4. at \in Sides /\ t[at][q] = x
    BY <2>1, <2>3
  <2>5. (at = "left" /\ t.left[q] = x /\ t.right[q] # x) \/ (at = "right" /\ t.right[q] = x /\ t.left[q] # x)
    BY <1>1, <1>2, <2>2, <2>4 DEF Sides
  <2>6. QED
    BY <1>1, <1>2, <2>4, <2>5 DEF HangsAt
<1>5. QED
  BY <1>3, <1>4

LEMMA CutSplices ==
  ASSUME NEW t \in Trees, NEW t2, NEW x \in Items, NEW c, NEW q, NEW at, HangsAt(t, x, q, at), Cut(t2, t, x, c, q, at)
  PROVE  Spliced(t2, t, x, c)
<1>1. /\ at \in Sides /\ q = t.parent[x]
      /\ \A i \in Items : (t.left[i] = x <=> at = "left" /\ i = q) /\ (t.right[i] = x <=> at = "right" /\ i = q)
  BY DEF HangsAt
<1>2. /\ t2 \in Trees
      /\ t2.root = IF q = Nobody THEN c ELSE t.root
      /\ \A i \in Items :
           /\ t2.parent[i] = IF i = x THEN Nobody ELSE IF i = c THEN q ELSE t.parent[i]
           /\ t2.left[i] = IF i = x THEN Nobody ELSE IF at = "left" /\ i = q THEN c ELSE t.left[i]
           /\ t2.right[i] = IF i = x THEN Nobody ELSE IF at = "right" /\ i = q THEN c ELSE t.right[i]
  BY DEF Cut
<1>3. QED
  BY <1>1, <1>2 DEF Spliced

(* The tree between the first step and the others.                          *)
Turning(t, x, h, bottom, from, at) ==
  [root |-> t.root,
   parent |-> [i \in Items |-> IF i = h THEN bottom ELSE t.parent[i]],
   left |-> [i \in Items |-> IF at = "left" /\ i = bottom THEN h
                             ELSE IF from = "left" /\ i = x THEN Nobody ELSE t.left[i]],
   right |-> [i \in Items |-> IF at = "right" /\ i = bottom THEN h
                              ELSE IF from = "right" /\ i = x THEN Nobody ELSE t.right[i]]]

LEMMA RehungIs ==
  ASSUME NEW t \in Trees, NEW x, NEW h \in Items, NEW bottom \in Items, NEW from, NEW at
  PROVE  Rehung(Turning(t, x, h, bottom, from, at), t, x, h, bottom, from, at)
<1>1. /\ t.root \in 0..NodeMax
      /\ \A i \in Items : t.parent[i] \in 0..NodeMax /\ t.left[i] \in 0..NodeMax /\ t.right[i] \in 0..NodeMax
  BY TreeLinks
<1>2. h \in 0..NodeMax /\ bottom \in 0..NodeMax /\ Nobody \in 0..NodeMax
  BY ItemsAreNumbers
<1>3. /\ Turning(t, x, h, bottom, from, at).root \in 0..NodeMax
      /\ Turning(t, x, h, bottom, from, at).parent \in Links
      /\ Turning(t, x, h, bottom, from, at).left \in Links
      /\ Turning(t, x, h, bottom, from, at).right \in Links
  BY <1>1, <1>2 DEF Turning, Links
<1>4. Turning(t, x, h, bottom, from, at) \in Trees
  BY <1>3 DEF Turning, Trees
<1>5. QED
  BY <1>4 DEF Rehung, Turning

LEMMA RehungSplices ==
  ASSUME NEW t \in Trees, NEW t1, NEW th, NEW t2, NEW x \in Items, NEW c, NEW h \in Items, NEW bottom \in Items,
         NEW from \in Sides, NEW end \in Sides, NEW q, NEW at,
         Rehung(t1, t, x, h, bottom, from, end), th = Housed(t, end, bottom, h, c), c # Nobody,
         HangsAt(t, x, q, at), Cut(t2, th, x, c, q, at), bottom # x, h # x, h # c, t[end][bottom] # x
  PROVE  Spliced(t2, t1, x, c)
<1>1. /\ at \in Sides /\ q = t.parent[x]
      /\ \A i \in Items : (t.left[i] = x <=> at = "left" /\ i = q) /\ (t.right[i] = x <=> at = "right" /\ i = q)
  BY DEF HangsAt
<1>2. /\ t2 \in Trees
      /\ t2.root = IF q = Nobody THEN c ELSE th.root
      /\ \A i \in Items :
           /\ t2.parent[i] = IF i = x THEN Nobody ELSE IF i = c THEN q ELSE th.parent[i]
           /\ t2.left[i] = IF i = x THEN Nobody ELSE IF at = "left" /\ i = q THEN c ELSE th.left[i]
           /\ t2.right[i] = IF i = x THEN Nobody ELSE IF at = "right" /\ i = q THEN c ELSE th.right[i]
  BY DEF Cut
<1>3. /\ th.root = t.root
      /\ \A i \in Items :
           /\ th.parent[i] = IF i = h THEN bottom ELSE t.parent[i]
           /\ th.left[i] = IF end = "left" /\ i = bottom THEN h ELSE t.left[i]
           /\ th.right[i] = IF end = "right" /\ i = bottom THEN h ELSE t.right[i]
  BY HousedIs
<1>4. /\ t1.root = t.root
      /\ \A i \in Items :
           /\ t1.parent[i] = IF i = h THEN bottom ELSE t.parent[i]
           /\ t1.left[i] = IF end = "left" /\ i = bottom THEN h ELSE IF from = "left" /\ i = x THEN Nobody ELSE t.left[i]
           /\ t1.right[i] = IF end = "right" /\ i = bottom THEN h ELSE IF from = "right" /\ i = x THEN Nobody ELSE t.right[i]
  BY DEF Rehung
<1>5. x # Nobody /\ (end = "left" => t.left[bottom] # x) /\ (end = "right" => t.right[bottom] # x)
  BY ItemsAreNumbers, TreeLinks
<1>6. t1.parent[x] = q
  BY <1>1, <1>4
<1>7. ASSUME NEW i \in Items
      PROVE  /\ t2.parent[i] = IF i = x THEN Nobody ELSE IF i = c THEN q ELSE t1.parent[i]
             /\ t2.left[i] = IF i = x THEN Nobody ELSE IF t1.left[i] = x THEN c ELSE t1.left[i]
             /\ t2.right[i] = IF i = x THEN Nobody ELSE IF t1.right[i] = x THEN c ELSE t1.right[i]
  <2>1. t2.parent[i] = IF i = x THEN Nobody ELSE IF i = c THEN q ELSE t1.parent[i]
    BY <1>2, <1>3, <1>4
  <2>2. t2.left[i] = IF i = x THEN Nobody ELSE IF t1.left[i] = x THEN c ELSE t1.left[i]
    BY <1>1, <1>2, <1>3, <1>4, <1>5
  <2>3. t2.right[i] = IF i = x THEN Nobody ELSE IF t1.right[i] = x THEN c ELSE t1.right[i]
    BY <1>1, <1>2, <1>3, <1>4, <1>5
  <2>4. QED
    BY <2>1, <2>2, <2>3
<1>8. QED
  BY <1>2, <1>3, <1>4, <1>6, <1>7 DEF Spliced

LEMMA UnlinkFew ==
  ASSUME NEW t, NEW S, NEW n, NEW s, NEW pos, NEW lo, NEW hi, Shape(t, S, n, s, pos, lo, hi),
         NEW x \in S, t.left[x] = Nobody \/ t.right[x] = Nobody
  PROVE  \E c : OnlyChild(t, x, c) /\ Spliced(Unlink(t, x), t, x, c)
<1>1. ASSUME NEW side, side = Promoted(t, x), NEW c, c = t[side][x], NEW h, h = t[Other(side)][x],
             NEW q, q = t.parent[x], NEW at, at = SideOf(t, x)
      PROVE  OnlyChild(t, x, c) /\ Spliced(Unlink(t, x), t, x, c)
  <2>1. t \in Trees /\ x \in Items /\ In(t, x)
    BY NumberFacts, InIs DEF Shape
  <2>2. HangsAt(t, x, q, at)
    BY <1>1, HangsAtIs
  <2>3. at \in Sides /\ q \in 0..NodeMax
    BY <2>2 DEF HangsAt
  <2>4. /\ t["left"] = t.left /\ t["right"] = t.right /\ t.left[x] \in 0..NodeMax /\ t.right[x] \in 0..NodeMax
    BY <2>1, TreeLinks
  <2>5. /\ side \in Sides /\ h = Nobody
        /\ (side = "left" /\ Other(side) = "right") \/ (side = "right" /\ Other(side) = "left")
    BY <1>1, <2>3, <2>4 DEF Promoted, Other, Sides
  <2>6. OnlyChild(t, x, c) /\ c \in 0..NodeMax
    BY <1>1, <2>4, <2>5 DEF OnlyChild
  <2>7. Unlink(t, x) = Gone(Above(Risen(Housed(t, HomelessSide(t, x), End(t, c, HomelessSide(t, x)), h, c), c, q), q, at, c), x)
    BY <1>1, <2>1, UnlinkReadOff
  <2>8. \A end, bottom : Housed(t, end, bottom, h, c) = t
    BY <2>5 DEF Housed
  <2>9. Unlink(t, x) = Gone(Above(Risen(t, c, q), q, at, c), x)
    BY <2>7, <2>8
  <2>10. Cut(Unlink(t, x), t, x, c, q, at)
    BY <2>1, <2>3, <2>6, <2>9, CutIs
  <2>11. QED
    BY <2>1, <2>2, <2>6, <2>10, CutSplices
<1>2. QED
  BY <1>1

LEMMA UnlinkRoot ==
  ASSUME NEW t, NEW S, NEW n, NEW s, NEW pos, NEW lo, NEW hi, Shape(t, S, n, s, pos, lo, hi),
         NEW x \in S, t.left[x] # Nobody, t.right[x] # Nobody, t.parent[x] = Nobody
  PROVE  \E t1, c : Reshaped(t1, S, n, x, pos, TRUE) /\ OnlyChild(t1, x, c) /\ Spliced(Unlink(t, x), t1, x, c)
<1>1. ASSUME NEW c, c = t.left[x], NEW h, h = t.right[x], NEW q, q = t.parent[x], NEW at, at = SideOf(t, x),
             NEW a, NEW p, NEW b, a = lo[x], p = pos[x], b = hi[x], NEW bottom, bottom = s[p - 1]
      PROVE  \E t1 : Reshaped(t1, S, n, x, pos, TRUE) /\ OnlyChild(t1, x, c) /\ Spliced(Unlink(t, x), t1, x, c)
  <2>1. t \in Trees /\ x \in Items /\ x # Nobody /\ In(t, x)
    BY NumberFacts, ItemsAreNumbers, InIs DEF Shape
  <2>2. HangsAt(t, x, q, at)
    BY <1>1, HangsAtIs
  <2>3. at \in Sides /\ q \in 0..NodeMax
    BY <2>2 DEF HangsAt
  <2>4. t["left"] = t.left /\ t["right"] = t.right
    BY <2>1, TreeLinks
  <2>5. Promoted(t, x) = "left" /\ Other("left") = "right" /\ HomelessSide(t, x) = "right"
    BY <1>1, <2>4 DEF Promoted, HomelessSide, Other
  <2>6. /\ c \in S /\ h \in S /\ c # Nobody /\ h # Nobody /\ t.parent[h] = x /\ t.parent[c] = x /\ hi[c] = p - 1
        /\ hi[c] = p - 1 /\ lo[h] = p + 1
    BY <1>1, LinkFacts
  <2>7. /\ c \in Items /\ h \in Items /\ pos[x] \in Nat
        /\ lo[c] \in Nat /\ hi[c] \in Nat /\ pos[c] \in Nat /\ lo[c] <= pos[c] /\ pos[c] <= hi[c]
        /\ lo[h] \in Nat /\ hi[h] \in Nat /\ pos[h] \in Nat /\ lo[h] <= pos[h] /\ pos[h] <= hi[h]
        /\ lo[x] <= pos[x] /\ pos[x] <= hi[x]
    BY <2>1, <2>6, NumberFacts
  <2>8. h # c /\ h # x /\ c # x
    BY <1>1, <2>6, <2>7
  <2>9. End(t, c, "right") = bottom
    <3>1. End(t, c, "right") = s[hi[c]]
      BY <2>6, EndAt
    <3>2. QED
      BY <1>1, <2>6, <3>1
  <2>10. ASSUME NEW t1, Rehung(t1, t, x, h, bottom, "right", "right")
         PROVE  /\ Reshaped(t1, S, n, x, pos, TRUE) /\ OnlyChild(t1, x, c)
                /\ bottom \in S /\ bottom # x /\ t.right[bottom] = Nobody
    <3>0. RootFork(t, s, pos, lo, hi, x, a, p, b, h, bottom)
      BY <1>1 DEF Forked, RootFork
    <3>1. /\ Reshaped(t1, S, n, x, pos, TRUE) /\ t1.right[x] = Nobody /\ t1.left[x] = t.left[x]
          /\ bottom \in S /\ bottom # x /\ t.right[bottom] = Nobody
      <4>1. RootTurned(t1, t, S, n, x, pos, bottom)
        BY <2>10, <3>0, RehangRoot
      <4>2. QED
        BY <4>1 DEF RootTurned
    <3>2. QED
      BY <1>1, <3>1 DEF OnlyChild
  <2>11. bottom \in Items
    <3>1. bottom \in S
      <4>1. \A m \in 1..n : s[m] \in S
        BY NumberFacts
      <4>2. ASSUME NEW m, m = p - 1
            PROVE  m \in 1..n
        <5>1. /\ n \in Nat /\ lo[x] \in Nat /\ hi[x] \in Nat /\ 1 <= lo[x] /\ hi[x] <= n
          BY <2>1, NumberFacts
        <5>2. 1 <= lo[c] /\ hi[c] <= n
          BY <2>6, NumberFacts
        <5>3. QED
          BY <1>1, <2>6, <2>7, <4>2, <5>1, <5>2
      <4>3. QED
        BY <1>1, <4>1, <4>2
    <3>2. QED
      BY <3>1, NumberFacts
  <2>12. ASSUME NEW t1, t1 = Turning(t, x, h, bottom, "right", "right")
         PROVE  Rehung(t1, t, x, h, bottom, "right", "right")
    BY <2>1, <2>7, <2>11, <2>12, RehungIs
  <2>13. ASSUME NEW t1, t1 = Turning(t, x, h, bottom, "right", "right"), NEW th, th = Housed(t, "right", bottom, h, c)
         PROVE  Reshaped(t1, S, n, x, pos, TRUE) /\ OnlyChild(t1, x, c) /\ Spliced(Unlink(t, x), t1, x, c)
    <3>1. Rehung(t1, t, x, h, bottom, "right", "right")
      BY <2>12, <2>13
    <3>2. /\ Reshaped(t1, S, n, x, pos, TRUE) /\ OnlyChild(t1, x, c)
          /\ bottom \in S /\ bottom # x /\ t.right[bottom] = Nobody
      BY <2>10, <3>1
    <3>3. th \in Trees
      BY <2>1, <2>6, <2>7, <2>11, <2>13, HousedIs DEF Sides
    <3>4. Unlink(t, x) = Gone(Above(Risen(th, c, q), q, at, c), x)
      BY <1>1, <2>1, <2>4, <2>5, <2>9, <2>13, UnlinkReadOff
    <3>5. Cut(Unlink(t, x), th, x, c, q, at)
      <4>1. c \in 0..NodeMax
        BY <2>7, ItemsAreNumbers
      <4>2. QED
        BY <2>1, <2>3, <3>3, <3>4, <4>1, CutIs
    <3>6. "right" \in Sides /\ "right" \in Sides /\ t["right"][bottom] # x
      BY <2>1, <2>4, <3>2 DEF Sides
    <3>7. Spliced(Unlink(t, x), t1, x, c)
      BY <2>1, <2>2, <2>6, <2>7, <2>8, <2>11, <2>13, <3>1, <3>2, <3>5, <3>6, RehungSplices
    <3>8. QED
      BY <3>2, <3>7
  <2>14. QED
    BY <2>13
<1>2. QED
  BY <1>1

LEMMA UnlinkLeft ==
  ASSUME NEW t, NEW S, NEW n, NEW s, NEW pos, NEW lo, NEW hi, Shape(t, S, n, s, pos, lo, hi),
         NEW x \in S, t.left[x] # Nobody, t.right[x] # Nobody, t.parent[x] # Nobody, SideOf(t, x) = "left"
  PROVE  \E t1, c : Reshaped(t1, S, n, x, pos, FALSE) /\ OnlyChild(t1, x, c) /\ Spliced(Unlink(t, x), t1, x, c)
<1>1. ASSUME NEW c, c = t.right[x], NEW h, h = t.left[x], NEW q, q = t.parent[x], NEW at, at = SideOf(t, x),
             NEW a, NEW p, NEW b, a = lo[x], p = pos[x], b = hi[x], NEW bottom, bottom = s[b]
      PROVE  \E t1 : Reshaped(t1, S, n, x, pos, FALSE) /\ OnlyChild(t1, x, c) /\ Spliced(Unlink(t, x), t1, x, c)
  <2>1. t \in Trees /\ x \in Items /\ x # Nobody /\ In(t, x)
    BY NumberFacts, ItemsAreNumbers, InIs DEF Shape
  <2>2. HangsAt(t, x, q, at)
    BY <1>1, HangsAtIs
  <2>3. at \in Sides /\ q \in 0..NodeMax
    BY <2>2 DEF HangsAt
  <2>4. t["left"] = t.left /\ t["right"] = t.right
    BY <2>1, TreeLinks
  <2>5. Promoted(t, x) = "right" /\ Other("right") = "left" /\ HomelessSide(t, x) = "right"
    BY <1>1, <2>4 DEF Promoted, HomelessSide, Other
  <2>6. /\ c \in S /\ h \in S /\ c # Nobody /\ h # Nobody /\ t.parent[h] = x /\ t.parent[c] = x /\ hi[c] = b
        /\ hi[h] = p - 1 /\ lo[c] = p + 1
    BY <1>1, LinkFacts
  <2>7. /\ c \in Items /\ h \in Items /\ pos[x] \in Nat
        /\ lo[c] \in Nat /\ hi[c] \in Nat /\ pos[c] \in Nat /\ lo[c] <= pos[c] /\ pos[c] <= hi[c]
        /\ lo[h] \in Nat /\ hi[h] \in Nat /\ pos[h] \in Nat /\ lo[h] <= pos[h] /\ pos[h] <= hi[h]
        /\ lo[x] <= pos[x] /\ pos[x] <= hi[x]
    BY <2>1, <2>6, NumberFacts
  <2>8. h # c /\ h # x /\ c # x
    BY <1>1, <2>6, <2>7
  <2>9. End(t, c, "right") = bottom
    <3>1. End(t, c, "right") = s[hi[c]]
      BY <2>6, EndAt
    <3>2. QED
      BY <1>1, <2>6, <3>1
  <2>10. ASSUME NEW t1, Rehung(t1, t, x, h, bottom, "left", "right")
         PROVE  /\ Reshaped(t1, S, n, x, pos, FALSE) /\ OnlyChild(t1, x, c)
                /\ bottom \in S /\ bottom # x /\ t.right[bottom] = Nobody
    <3>0. LeftFork(t, s, pos, lo, hi, x, a, p, b, h, bottom)
      BY <1>1 DEF Forked, LeftFork
    <3>1. /\ Reshaped(t1, S, n, x, pos, FALSE) /\ t1.left[x] = Nobody /\ t1.right[x] = t.right[x]
          /\ bottom \in S /\ bottom # x /\ t.right[bottom] = Nobody
      <4>1. LeftTurned(t1, t, S, n, x, pos, bottom)
        BY <2>10, <3>0, RehangLeft
      <4>2. QED
        BY <4>1 DEF LeftTurned
    <3>2. QED
      BY <1>1, <3>1 DEF OnlyChild
  <2>11. bottom \in Items
    <3>1. bottom \in S
      <4>1. \A m \in 1..n : s[m] \in S
        BY NumberFacts
      <4>2. ASSUME NEW m, m = b
            PROVE  m \in 1..n
        <5>1. /\ n \in Nat /\ lo[x] \in Nat /\ hi[x] \in Nat /\ 1 <= lo[x] /\ hi[x] <= n
          BY <2>1, NumberFacts
        <5>2. 1 <= lo[c] /\ hi[c] <= n
          BY <2>6, NumberFacts
        <5>3. QED
          BY <1>1, <2>6, <2>7, <4>2, <5>1, <5>2
      <4>3. QED
        BY <1>1, <4>1, <4>2
    <3>2. QED
      BY <3>1, NumberFacts
  <2>12. ASSUME NEW t1, t1 = Turning(t, x, h, bottom, "left", "right")
         PROVE  Rehung(t1, t, x, h, bottom, "left", "right")
    BY <2>1, <2>7, <2>11, <2>12, RehungIs
  <2>13. ASSUME NEW t1, t1 = Turning(t, x, h, bottom, "left", "right"), NEW th, th = Housed(t, "right", bottom, h, c)
         PROVE  Reshaped(t1, S, n, x, pos, FALSE) /\ OnlyChild(t1, x, c) /\ Spliced(Unlink(t, x), t1, x, c)
    <3>1. Rehung(t1, t, x, h, bottom, "left", "right")
      BY <2>12, <2>13
    <3>2. /\ Reshaped(t1, S, n, x, pos, FALSE) /\ OnlyChild(t1, x, c)
          /\ bottom \in S /\ bottom # x /\ t.right[bottom] = Nobody
      BY <2>10, <3>1
    <3>3. th \in Trees
      BY <2>1, <2>6, <2>7, <2>11, <2>13, HousedIs DEF Sides
    <3>4. Unlink(t, x) = Gone(Above(Risen(th, c, q), q, at, c), x)
      BY <1>1, <2>1, <2>4, <2>5, <2>9, <2>13, UnlinkReadOff
    <3>5. Cut(Unlink(t, x), th, x, c, q, at)
      <4>1. c \in 0..NodeMax
        BY <2>7, ItemsAreNumbers
      <4>2. QED
        BY <2>1, <2>3, <3>3, <3>4, <4>1, CutIs
    <3>6. "left" \in Sides /\ "right" \in Sides /\ t["right"][bottom] # x
      BY <2>1, <2>4, <3>2 DEF Sides
    <3>7. Spliced(Unlink(t, x), t1, x, c)
      BY <2>1, <2>2, <2>6, <2>7, <2>8, <2>11, <2>13, <3>1, <3>2, <3>5, <3>6, RehungSplices
    <3>8. QED
      BY <3>2, <3>7
  <2>14. QED
    BY <2>13
<1>2. QED
  BY <1>1

LEMMA UnlinkRight ==
  ASSUME NEW t, NEW S, NEW n, NEW s, NEW pos, NEW lo, NEW hi, Shape(t, S, n, s, pos, lo, hi),
         NEW x \in S, t.left[x] # Nobody, t.right[x] # Nobody, t.parent[x] # Nobody, SideOf(t, x) = "right"
  PROVE  \E t1, c : Reshaped(t1, S, n, x, pos, FALSE) /\ OnlyChild(t1, x, c) /\ Spliced(Unlink(t, x), t1, x, c)
<1>1. ASSUME NEW c, c = t.left[x], NEW h, h = t.right[x], NEW q, q = t.parent[x], NEW at, at = SideOf(t, x),
             NEW a, NEW p, NEW b, a = lo[x], p = pos[x], b = hi[x], NEW bottom, bottom = s[a]
      PROVE  \E t1 : Reshaped(t1, S, n, x, pos, FALSE) /\ OnlyChild(t1, x, c) /\ Spliced(Unlink(t, x), t1, x, c)
  <2>1. t \in Trees /\ x \in Items /\ x # Nobody /\ In(t, x)
    BY NumberFacts, ItemsAreNumbers, InIs DEF Shape
  <2>2. HangsAt(t, x, q, at)
    BY <1>1, HangsAtIs
  <2>3. at \in Sides /\ q \in 0..NodeMax
    BY <2>2 DEF HangsAt
  <2>4. t["left"] = t.left /\ t["right"] = t.right
    BY <2>1, TreeLinks
  <2>5. Promoted(t, x) = "left" /\ Other("left") = "right" /\ HomelessSide(t, x) = "left"
    BY <1>1, <2>4 DEF Promoted, HomelessSide, Other
  <2>6. /\ c \in S /\ h \in S /\ c # Nobody /\ h # Nobody /\ t.parent[h] = x /\ t.parent[c] = x /\ lo[c] = a
        /\ hi[c] = p - 1 /\ lo[h] = p + 1
    BY <1>1, LinkFacts
  <2>7. /\ c \in Items /\ h \in Items /\ pos[x] \in Nat
        /\ lo[c] \in Nat /\ hi[c] \in Nat /\ pos[c] \in Nat /\ lo[c] <= pos[c] /\ pos[c] <= hi[c]
        /\ lo[h] \in Nat /\ hi[h] \in Nat /\ pos[h] \in Nat /\ lo[h] <= pos[h] /\ pos[h] <= hi[h]
        /\ lo[x] <= pos[x] /\ pos[x] <= hi[x]
    BY <2>1, <2>6, NumberFacts
  <2>8. h # c /\ h # x /\ c # x
    BY <1>1, <2>6, <2>7
  <2>9. End(t, c, "left") = bottom
    <3>1. End(t, c, "left") = s[lo[c]]
      BY <2>6, EndAt
    <3>2. QED
      BY <1>1, <2>6, <3>1
  <2>10. ASSUME NEW t1, Rehung(t1, t, x, h, bottom, "right", "left")
         PROVE  /\ Reshaped(t1, S, n, x, pos, FALSE) /\ OnlyChild(t1, x, c)
                /\ bottom \in S /\ bottom # x /\ t.left[bottom] = Nobody
    <3>0. RightFork(t, s, pos, lo, hi, x, a, p, b, h, bottom)
      BY <1>1 DEF Forked, RightFork
    <3>1. /\ Reshaped(t1, S, n, x, pos, FALSE) /\ t1.right[x] = Nobody /\ t1.left[x] = t.left[x]
          /\ bottom \in S /\ bottom # x /\ t.left[bottom] = Nobody
      <4>1. RightTurned(t1, t, S, n, x, pos, bottom)
        BY <2>10, <3>0, RehangRight
      <4>2. QED
        BY <4>1 DEF RightTurned
    <3>2. QED
      BY <1>1, <3>1 DEF OnlyChild
  <2>11. bottom \in Items
    <3>1. bottom \in S
      <4>1. \A m \in 1..n : s[m] \in S
        BY NumberFacts
      <4>2. ASSUME NEW m, m = a
            PROVE  m \in 1..n
        <5>1. /\ n \in Nat /\ lo[x] \in Nat /\ hi[x] \in Nat /\ 1 <= lo[x] /\ hi[x] <= n
          BY <2>1, NumberFacts
        <5>2. 1 <= lo[c] /\ hi[c] <= n
          BY <2>6, NumberFacts
        <5>3. QED
          BY <1>1, <2>6, <2>7, <4>2, <5>1, <5>2
      <4>3. QED
        BY <1>1, <4>1, <4>2
    <3>2. QED
      BY <3>1, NumberFacts
  <2>12. ASSUME NEW t1, t1 = Turning(t, x, h, bottom, "right", "left")
         PROVE  Rehung(t1, t, x, h, bottom, "right", "left")
    BY <2>1, <2>7, <2>11, <2>12, RehungIs
  <2>13. ASSUME NEW t1, t1 = Turning(t, x, h, bottom, "right", "left"), NEW th, th = Housed(t, "left", bottom, h, c)
         PROVE  Reshaped(t1, S, n, x, pos, FALSE) /\ OnlyChild(t1, x, c) /\ Spliced(Unlink(t, x), t1, x, c)
    <3>1. Rehung(t1, t, x, h, bottom, "right", "left")
      BY <2>12, <2>13
    <3>2. /\ Reshaped(t1, S, n, x, pos, FALSE) /\ OnlyChild(t1, x, c)
          /\ bottom \in S /\ bottom # x /\ t.left[bottom] = Nobody
      BY <2>10, <3>1
    <3>3. th \in Trees
      BY <2>1, <2>6, <2>7, <2>11, <2>13, HousedIs DEF Sides
    <3>4. Unlink(t, x) = Gone(Above(Risen(th, c, q), q, at, c), x)
      BY <1>1, <2>1, <2>4, <2>5, <2>9, <2>13, UnlinkReadOff
    <3>5. Cut(Unlink(t, x), th, x, c, q, at)
      <4>1. c \in 0..NodeMax
        BY <2>7, ItemsAreNumbers
      <4>2. QED
        BY <2>1, <2>3, <3>3, <3>4, <4>1, CutIs
    <3>6. "right" \in Sides /\ "left" \in Sides /\ t["left"][bottom] # x
      BY <2>1, <2>4, <3>2 DEF Sides
    <3>7. Spliced(Unlink(t, x), t1, x, c)
      BY <2>1, <2>2, <2>6, <2>7, <2>8, <2>11, <2>13, <3>1, <3>2, <3>5, <3>6, RehungSplices
    <3>8. QED
      BY <3>2, <3>7
  <2>14. QED
    BY <2>13
<1>2. QED
  BY <1>1

-----------------------------------------------------------------------------
(* What an unlinked item leaves is a tree, in order if no branch was moved. *)
RisesBut(S, x, pos, key, rises) ==
  rises => \A i, j \in S : i # x /\ j # x /\ pos[i] < pos[j] => key[i] <= key[j]

LEMMA SplicedGrows ==
  ASSUME NEW t, NEW S, NEW n, NEW s, NEW pos, NEW lo, NEW hi, Shape(t, S, n, s, pos, lo, hi),
         NEW x \in S, NEW c, OnlyChild(t, x, c), NEW t2, Spliced(t2, t, x, c),
         NEW key, NEW rises, RisesBut(S, x, pos, key, rises)
  PROVE  Grown(t2, S \ {x}, key, rises)
<1>1. ASSUME NEW p, p = pos[x]
      PROVE  Grown(t2, S \ {x}, key, rises)
  <2>1. Shape(t2, S \ {x}, n - 1, RowWithout(s, n, p), DroppedAll(pos, p), DroppedAll(lo, p), DroppedAll(hi, p - 1))
    BY <1>1, SpliceKeeps
  <2>2. \A i \in S : i \in Items /\ pos[i] \in Nat /\ s[pos[i]] = i
    BY NumberFacts
  <2>3. ASSUME rises, NEW i \in S \ {x}, NEW j \in S \ {x}, DroppedAll(pos, p)[i] < DroppedAll(pos, p)[j]
        PROVE  key[i] <= key[j]
    <3>1. DroppedAll(pos, p)[i] = Dropped(pos[i], p) /\ DroppedAll(pos, p)[j] = Dropped(pos[j], p)
      BY <2>2 DEF DroppedAll
    <3>2. pos[i] \in Nat /\ pos[j] \in Nat /\ p \in Nat /\ pos[i] # p /\ pos[j] # p
      BY <1>1, <2>2
    <3>3. pos[i] < pos[j]
      BY <2>3, <3>1, <3>2 DEF Dropped
    <3>4. QED
      BY <2>3, <3>3 DEF RisesBut
  <2>4. rises => Rising(S \ {x}, DroppedAll(pos, p), key)
    BY <2>3 DEF Rising
  <2>5. QED
    BY <2>1, <2>4 DEF Grown
<1>2. QED
  BY <1>1

SameBut(S, x, key, key2) == \A i \in S : i # x => key2[i] = key[i]

LEMMA ReshapedGrows ==
  ASSUME NEW t, NEW S, NEW n, NEW x \in S, NEW pos, NEW t1, NEW keeps, Reshaped(t1, S, n, x, pos, keeps),
         NEW c, OnlyChild(t1, x, c), NEW t2, Spliced(t2, t1, x, c),
         NEW key, NEW rises, rises => keeps, RisesBut(S, x, pos, key, rises)
  PROVE  Grown(t2, S \ {x}, key, rises)
<1>1. PICK s1, pos1, lo1, hi1 :
        /\ Shape(t1, S, n, s1, pos1, lo1, hi1)
        /\ keeps => \A i, j \in S : i # x /\ j # x /\ pos1[i] < pos1[j] => pos[i] < pos[j]
  BY DEF Reshaped
<1>2. RisesBut(S, x, pos1, key, rises)
  BY <1>1 DEF RisesBut
<1>3. QED
  BY <1>1, <1>2, SplicedGrows

LEMMA UnlinkKeeps ==
  ASSUME NEW t, NEW S, NEW key, NEW rises, Grown(t, S, key, rises), NEW x \in Items,
         NEW key2, SameBut(S, x, key, key2), NEW after, after => rises /\ ~ Displaces(t, x)
  PROVE  Grown(Unlink(t, x), S \ {x}, key2, after)
<1>1. PICK n, s, pos, lo, hi : Shape(t, S, n, s, pos, lo, hi) /\ (rises => Rising(S, pos, key))
  BY DEF Grown
<1>2. RisesBut(S, x, pos, key2, after)
  BY <1>1 DEF RisesBut, Rising, SameBut
<1>3. CASE x \notin S
  <2>1. Unlink(t, x) = t
    <3>1. ~ In(t, x)
      BY <1>1, <1>3, InIs
    <3>2. QED
      BY <3>1 DEF Unlink
  <2>2. S \ {x} = S
    BY <1>3
  <2>3. after => Rising(S, pos, key2)
    BY <1>2, <1>3 DEF RisesBut, Rising
  <2>4. Grown(t, S, key2, after)
    BY <1>1, <2>3 DEF Grown
  <2>5. QED
    BY <2>1, <2>2, <2>4
<1>4. CASE x \in S /\ (t.left[x] = Nobody \/ t.right[x] = Nobody)
  <2>1. PICK c : OnlyChild(t, x, c) /\ Spliced(Unlink(t, x), t, x, c)
    BY <1>1, <1>4, UnlinkFew
  <2>2. QED
    BY <1>1, <1>2, <1>4, <2>1, SplicedGrows
<1>5. CASE x \in S /\ t.left[x] # Nobody /\ t.right[x] # Nobody
  <2>1. CASE t.parent[x] = Nobody
    <3>1. PICK t1, c : Reshaped(t1, S, n, x, pos, TRUE) /\ OnlyChild(t1, x, c) /\ Spliced(Unlink(t, x), t1, x, c)
      BY <1>1, <1>5, <2>1, UnlinkRoot
    <3>2. QED
      BY <1>2, <1>5, <3>1, ReshapedGrows
  <2>2. CASE t.parent[x] # Nobody
    <3>1. ~ after
      BY <1>5, <2>2 DEF Displaces
    <3>2. SideOf(t, x) \in Sides
      BY <1>1, <1>5, HangsAtIs DEF HangsAt
    <3>3. PICK t1, c : Reshaped(t1, S, n, x, pos, FALSE) /\ OnlyChild(t1, x, c) /\ Spliced(Unlink(t, x), t1, x, c)
      <4>1. CASE SideOf(t, x) = "left"
        BY <1>1, <1>5, <2>2, <4>1, UnlinkLeft
      <4>2. CASE SideOf(t, x) = "right"
        BY <1>1, <1>5, <2>2, <4>2, UnlinkRight
      <4>3. QED
        BY <3>2, <4>1, <4>2 DEF Sides
    <3>4. QED
      BY <1>2, <1>5, <3>1, <3>3, ReshapedGrows
  <2>3. QED
    BY <2>1, <2>2
<1>6. QED
  BY <1>3, <1>4, <1>5

LEMMA GrownLess ==
  ASSUME NEW t, NEW S, NEW key, NEW rises, Grown(t, S, key, rises), NEW less, less => rises
  PROVE  Grown(t, S, key, less)
  BY DEF Grown

LEMMA GrownAs ==
  ASSUME NEW t, NEW S, NEW key, NEW rises, Grown(t, S, key, rises), NEW key2, \A i \in S : key2[i] = key[i]
  PROVE  Grown(t, S, key2, rises)
  BY DEF Grown, Rising

-----------------------------------------------------------------------------
(* The invariant: the items of a tree are those that are in use and not     *)
(* lost, by name those that have one, and its keys rise from left to right  *)
(* as long as no branch of it was moved past another.                      *)
Kept == used \ lost
Named == {i \in Kept : name[i] # 0}

TreesKept ==
  /\ used \subseteq Items /\ lost \subseteq used
  /\ name \in [Items -> Nat] /\ unique_id \in [Items -> Nat] /\ next_unique_id \in Nat
  /\ Grown(top, Named, name, "top" \notin displaced)
  /\ Grown(itop, Kept, unique_id, "itop" \notin displaced)

LEMMA EmptyGrown ==
  ASSUME NEW key, NEW rises
  PROVE  Grown(Bare, {}, key, rises)
<1> DEFINE zero == [i \in Items |-> 0]
           row == [p \in 1..0 |-> 0]
<1>1. NoLinks \in Links /\ Nobody \in 0..NodeMax
  BY ItemsAreNumbers DEF NoLinks, Links
<1>2. Bare \in Trees /\ Bare.root = Nobody /\ Bare.parent = NoLinks /\ Bare.left = NoLinks /\ Bare.right = NoLinks
  BY <1>1 DEF Bare, Trees
<1>3. \A i \in Items : NoLinks[i] = Nobody
  BY DEF NoLinks
<1>4. Numbered({}, 0, row, zero, zero, zero)
  BY DEF Numbered
<1>5. Drawn(Bare.root, Bare.parent, Bare.left, Bare.right, {}, 0, zero, zero, zero)
  BY <1>1, <1>2, <1>3 DEF Drawn
<1>6. Shape(Bare, {}, 0, row, zero, zero, zero)
  BY <1>2, <1>4, <1>5 DEF Shape
<1>7. Rising({}, zero, key)
  BY DEF Rising
<1> HIDE DEF zero, row
<1>8. QED
  BY <1>6, <1>7 DEF Grown

LEMMA NoneGrown ==
  ASSUME NEW t, NEW S, NEW key, NEW rises, Grown(t, S, key, rises), S = {}, NEW key2, NEW rises2
  PROVE  Grown(t, S, key2, rises2)
  BY DEF Grown, Rising

LEMMA GrownRoot ==
  ASSUME NEW t, NEW S, NEW key, NEW rises, Grown(t, S, key, rises)
  PROVE  /\ t \in Trees /\ S \subseteq Items /\ t.root \in 0..NodeMax
         /\ t.root = Nobody => S = {}
         /\ t.root # Nobody => t.root \in S
<1>1. PICK n, s, pos, lo, hi : Shape(t, S, n, s, pos, lo, hi)
  BY DEF Grown
<1>2. t \in Trees /\ S \subseteq Items /\ t.root \in 0..NodeMax
  BY <1>1, NumberFacts, LinkFacts DEF Shape
<1>3. t.root = Nobody => n = 0
  <2>1. n # 0 => t.root \in S
    BY <1>1, LinkFacts
  <2>2. QED
    BY <1>2, <2>1, ItemsAreNumbers
<1>4. n = 0 => S = {}
  <2>1. ASSUME n = 0, NEW i \in S
        PROVE  FALSE
    <3>1. i \in Items
      BY <1>2
    <3>2. /\ lo[i] \in Nat /\ hi[i] \in Nat /\ pos[i] \in Nat
          /\ 1 <= lo[i] /\ lo[i] <= pos[i] /\ pos[i] <= hi[i] /\ hi[i] <= n
      BY <1>1, <3>1, NumberFacts
    <3>3. QED
      BY <2>1, <3>2
  <2>2. QED
    BY <2>1
<1>5. t.root # Nobody => t.root \in S
  <2>1. n = 0 => t.root = Nobody
    BY <1>1, LinkFacts
  <2>2. n # 0 => t.root \in S
    BY <1>1, LinkFacts
  <2>3. QED
    BY <2>1, <2>2
<1>6. QED
  BY <1>2, <1>3, <1>4, <1>5

LEMMA TreeConstructorKeeps == binaryTree_Constructor => TreesKept
<1>1. SUFFICES ASSUME binaryTree_Constructor
               PROVE  TreesKept
  OBVIOUS
<1>2. /\ top = Bare /\ itop = Bare /\ next_unique_id = 1 /\ name = NoLinks /\ unique_id = NoLinks
      /\ used = {} /\ lost = {}
  BY <1>1 DEF binaryTree_Constructor
<1>3. NoLinks \in [Items -> Nat]
  BY DEF NoLinks, Nobody
<1>4. Named = {} /\ Kept = {}
  BY <1>2 DEF Named, Kept
<1>5. QED
  BY <1>2, <1>3, <1>4, EmptyGrown DEF TreesKept

LEMMA TreeInsertKeeps ==
  ASSUME TreesKept, NEW n \in Names, NEW id \in Ids, binaryTree_Insert(n, id)
  PROVE  TreesKept'
<1> DEFINE item == CHOOSE i \in Items \ used : \A j \in Items \ used : i <= j
           byName == Place(top, name, n, settings.duplicate_names)
           byId == Place(itop, unique_id, Generated(id), settings.duplicate_unique_ids)
<1>1. /\ used \subseteq Items /\ lost \subseteq used
      /\ name \in [Items -> Nat] /\ unique_id \in [Items -> Nat] /\ next_unique_id \in Nat
      /\ Grown(top, Named, name, "top" \notin displaced)
      /\ Grown(itop, Kept, unique_id, "itop" \notin displaced)
  BY DEF TreesKept
<1>2. n \in Nat /\ id \in Nat
  BY BinaryTreeAssumption
<1>3. Generated(id) \in Nat /\ Counted(id) \in Nat
  BY <1>1, <1>2 DEF Generated, Counted
<1>4. item \in Items /\ item \notin used
  <2>1. Items \ used \in SUBSET Nat /\ Items \ used # {}
    <3>1. used # Items
      BY DEF binaryTree_Insert
    <3>2. Items \in SUBSET Nat
      BY BinaryTreeAssumption DEF Items
    <3>3. QED
      BY <1>1, <3>1, <3>2
  <2>2. \E i \in Items \ used : \A j \in Items \ used : i <= j
    BY <2>1, LeastNumber
  <2>3. QED
    BY <2>2
<1>5. next_unique_id' = Counted(id) /\ displaced' = displaced
  BY DEF binaryTree_Insert
<1>6. \/ UNCHANGED <<top, itop, name, unique_id, used, lost>>
      \/ /\ used' = used \cup {item} /\ lost' = lost \cup {item}
         /\ UNCHANGED <<top, itop, name, unique_id>>
      \/ /\ n = 0 \/ byName.side # "exists"
         /\ byId.side # "exists"
         /\ used' = used \cup {item} /\ lost' = lost
         /\ top' = IF n = 0 THEN top ELSE Hang(top, item, byName)
         /\ itop' = Hang(itop, item, byId)
         /\ name' = [name EXCEPT ![item] = n] /\ unique_id' = [unique_id EXCEPT ![item] = Generated(id)]
  BY DEF binaryTree_Insert
<1> HIDE DEF item, byName, byId
<1>7. CASE UNCHANGED <<top, itop, name, unique_id, used, lost>>
  <2>1. Kept' = Kept /\ Named' = Named
    BY <1>7 DEF Kept, Named
  <2>2. QED
    BY <1>1, <1>3, <1>5, <1>7, <2>1 DEF TreesKept
<1>8. CASE used' = used \cup {item} /\ lost' = lost \cup {item} /\ UNCHANGED <<top, itop, name, unique_id>>
  <2>1. Kept' = Kept
    BY <1>4, <1>8 DEF Kept
  <2>2. Named' = Named
    BY <1>8, <2>1 DEF Named
  <2>3. QED
    BY <1>1, <1>3, <1>4, <1>5, <1>8, <2>1, <2>2 DEF TreesKept
<1>9. CASE /\ n = 0 \/ byName.side # "exists"
           /\ byId.side # "exists"
           /\ used' = used \cup {item} /\ lost' = lost
           /\ top' = IF n = 0 THEN top ELSE Hang(top, item, byName)
           /\ itop' = Hang(itop, item, byId)
           /\ name' = [name EXCEPT ![item] = n] /\ unique_id' = [unique_id EXCEPT ![item] = Generated(id)]
  <2>1. Kept' = Kept \cup {item} /\ item \notin Kept /\ item \notin Named /\ Kept \subseteq Items
    BY <1>1, <1>4, <1>9 DEF Kept, Named
  <2>2. name' \in [Items -> Nat] /\ unique_id' \in [Items -> Nat]
    BY <1>1, <1>2, <1>3, <1>9
  <2>3. Grown(itop', Kept', unique_id', "itop" \notin displaced')
    <3>1. Grown(Hang(itop, item, byId), Kept \cup {item}, [unique_id EXCEPT ![item] = Generated(id)], "itop" \notin displaced)
      BY <1>1, <1>3, <1>4, <1>9, <2>1, HangKeeps DEF byId
    <3>2. QED
      BY <1>5, <1>9, <2>1, <3>1
  <2>4. \A i \in Items : name'[i] = IF i = item THEN n ELSE name[i]
    BY <1>1, <1>9
  <2>5. Grown(top', Named', name', "top" \notin displaced')
    <3>1. CASE n = 0
      <4>1. Named' = Named
        BY <1>4, <2>1, <2>4, <3>1 DEF Named
      <4>2. \A i \in Named : name'[i] = name[i]
        BY <2>1, <2>4 DEF Named
      <4>3. Grown(top, Named, name', "top" \notin displaced)
        BY <1>1, <4>2, GrownAs
      <4>4. top' = top
        BY <1>9, <3>1
      <4>5. QED
        BY <1>5, <4>1, <4>3, <4>4
    <3>2. CASE n # 0
      <4>1. Named' = Named \cup {item}
        BY <1>4, <2>1, <2>4, <3>2 DEF Named
      <4>2. Grown(Hang(top, item, byName), Named \cup {item}, [name EXCEPT ![item] = n], "top" \notin displaced)
        BY <1>1, <1>2, <1>4, <1>9, <2>1, <3>2, HangKeeps DEF byName
      <4>3. QED
        BY <1>5, <1>9, <3>2, <4>1, <4>2
    <3>3. QED
      BY <3>1, <3>2
  <2>6. used' \subseteq Items /\ lost' \subseteq used'
    BY <1>1, <1>4, <1>9
  <2>7. QED
    BY <1>3, <1>5, <2>2, <2>3, <2>5, <2>6 DEF TreesKept
<1>10. QED
  BY <1>6, <1>7, <1>8, <1>9

LEMMA TreeDeleteKeeps ==
  ASSUME TreesKept, NEW item \in Items, binaryTree_Delete(item)
  PROVE  TreesKept'
<1>1. /\ used \subseteq Items /\ lost \subseteq used
      /\ name \in [Items -> Nat] /\ unique_id \in [Items -> Nat] /\ next_unique_id \in Nat
      /\ Grown(top, Named, name, "top" \notin displaced)
      /\ Grown(itop, Kept, unique_id, "itop" \notin displaced)
  BY DEF TreesKept
<1>2. /\ item \in used \ lost
      /\ top' = Unlink(top, item) /\ itop' = Unlink(itop, item) /\ used' = used \ {item}
      /\ name' = [name EXCEPT ![item] = 0] /\ unique_id' = [unique_id EXCEPT ![item] = 0]
      /\ displaced' = displaced \cup {t \in {"top"} : Displaces(top, item)}
                                \cup {t \in {"itop"} : Displaces(itop, item)}
      /\ next_unique_id' = next_unique_id /\ lost' = lost
  BY DEF binaryTree_Delete
<1>3. /\ "top" \notin displaced' => "top" \notin displaced /\ ~ Displaces(top, item)
      /\ "itop" \notin displaced' => "itop" \notin displaced /\ ~ Displaces(itop, item)
  BY <1>2
<1>4. /\ \A i \in Items : name'[i] = IF i = item THEN 0 ELSE name[i]
      /\ \A i \in Items : unique_id'[i] = IF i = item THEN 0 ELSE unique_id[i]
      /\ name' \in [Items -> Nat] /\ unique_id' \in [Items -> Nat]
  BY <1>1, <1>2
<1>5. Kept' = Kept \ {item} /\ Kept \subseteq Items
  BY <1>1, <1>2 DEF Kept
<1>6. Named' = Named \ {item}
  BY <1>4, <1>5 DEF Named
<1>7. Grown(top', Named', name', "top" \notin displaced')
  <2>1. SameBut(Named, item, name, name')
    BY <1>4, <1>5 DEF SameBut, Named
  <2>2. Grown(Unlink(top, item), Named \ {item}, name', "top" \notin displaced')
    BY <1>1, <1>3, <2>1, UnlinkKeeps
  <2>3. QED
    BY <1>2, <1>6, <2>2
<1>8. Grown(itop', Kept', unique_id', "itop" \notin displaced')
  <2>1. SameBut(Kept, item, unique_id, unique_id')
    BY <1>4, <1>5 DEF SameBut
  <2>2. Grown(Unlink(itop, item), Kept \ {item}, unique_id', "itop" \notin displaced')
    BY <1>1, <1>3, <2>1, UnlinkKeeps
  <2>3. QED
    BY <1>2, <1>5, <2>2
<1>9. used' \subseteq Items /\ lost' \subseteq used' /\ next_unique_id' \in Nat
  BY <1>1, <1>2
<1>10. QED
  BY <1>4, <1>7, <1>8, <1>9 DEF TreesKept

(* binaryTree_Clean takes away a root at a time, and after NodeMax none is  *)
(* left.                                                                   *)
Clearing(t, it, rest) ==
  /\ rest \subseteq Items /\ lost \subseteq rest
  /\ Grown(t, {i \in rest \ lost : name[i] # 0}, name, FALSE)
  /\ Grown(it, rest \ lost, name, FALSE)

RootOf(r) == IF r.top.root # Nobody THEN r.top.root ELSE r.itop.root
WithoutRoot(r) ==
  IF RootOf(r) = Nobody THEN r
  ELSE [top |-> Unlink(r.top, RootOf(r)), itop |-> Unlink(r.itop, RootOf(r)), used |-> r.used \ {RootOf(r)}]

CleanGo ==
  CHOOSE h : h = [n \in 0..NodeMax |->
    IF n = 0 THEN [top |-> top, itop |-> itop, used |-> used] ELSE WithoutRoot(h[n - 1])]

LEMMA CleanReadOff == Cleaned = CleanGo[NodeMax]
  BY DEF Cleaned, CleanGo, WithoutRoot, RootOf

LEMMA ClearStep ==
  ASSUME NEW t, NEW it, NEW rest, Clearing(t, it, rest),
         NEW root, root = IF t.root # Nobody THEN t.root ELSE it.root
  PROVE  /\ root = Nobody => rest \ lost = {}
         /\ root # Nobody => root \in rest \ lost /\ Clearing(Unlink(t, root), Unlink(it, root), rest \ {root})
<1> DEFINE S == {i \in rest \ lost : name[i] # 0}
<1>1. /\ rest \subseteq Items /\ lost \subseteq rest
      /\ Grown(t, S, name, FALSE) /\ Grown(it, rest \ lost, name, FALSE)
  BY DEF Clearing
<1>2. /\ it.root = Nobody => rest \ lost = {}
      /\ it.root # Nobody => it.root \in rest \ lost
      /\ t.root # Nobody => t.root \in S
  BY <1>1, GrownRoot
<1>3. root = Nobody => rest \ lost = {}
  BY <1>2
<1>4. ASSUME root # Nobody
      PROVE  root \in rest \ lost /\ Clearing(Unlink(t, root), Unlink(it, root), rest \ {root})
  <2>1. root \in rest \ lost
    BY <1>2, <1>4
  <2>2. root \in Items
    BY <1>1, <2>1
  <2>3. SameBut(S, root, name, name) /\ SameBut(rest \ lost, root, name, name)
    BY DEF SameBut
  <2>4. S \ {root} = {i \in (rest \ {root}) \ lost : name[i] # 0} /\ (rest \ lost) \ {root} = (rest \ {root}) \ lost
    OBVIOUS
  <2> HIDE DEF S
  <2>5. Grown(Unlink(t, root), S \ {root}, name, FALSE)
    BY <1>1, <2>2, <2>3, UnlinkKeeps
  <2>6. Grown(Unlink(it, root), (rest \ lost) \ {root}, name, FALSE)
    BY <1>1, <2>2, <2>3, UnlinkKeeps
  <2>7. rest \ {root} \subseteq Items /\ lost \subseteq rest \ {root}
    BY <1>1, <2>1
  <2>8. QED
    BY <2>1, <2>4, <2>5, <2>6, <2>7 DEF Clearing
<1>5. QED
  BY <1>3, <1>4

LEMMA CleanGoes ==
  ASSUME Clearing(top, itop, used)
  PROVE  /\ Clearing(CleanGo[NodeMax].top, CleanGo[NodeMax].itop, CleanGo[NodeMax].used)
         /\ CleanGo[NodeMax].used \ lost = {}
<1> DEFINE States == [top : Trees, itop : Trees, used : SUBSET Items]
           R == {r \in States : Clearing(r.top, r.itop, r.used)}
           F == [r \in R |-> WithoutRoot(r)]
           base == [top |-> top, itop |-> itop, used |-> used]
<1>1. ASSUME NEW t, NEW it, NEW rest, Clearing(t, it, rest), NEW r, r = [top |-> t, itop |-> it, used |-> rest]
      PROVE  r \in R
  <2>1. t \in Trees /\ it \in Trees /\ rest \in SUBSET Items
    BY <1>1, GrownRoot DEF Clearing
  <2>2. r \in States /\ r.top = t /\ r.itop = it /\ r.used = rest
    BY <1>1, <2>1
  <2>3. QED
    BY <1>1, <2>2
<1>2. base \in R
  BY <1>1
<1>3. ASSUME NEW r \in R
      PROVE  /\ WithoutRoot(r) \in R
             /\ RootOf(r) = Nobody => r.used \ lost = {}
             /\ RootOf(r) # Nobody => RootOf(r) \in r.used \ lost /\ WithoutRoot(r).used = r.used \ {RootOf(r)}
             /\ RootOf(r) = Nobody => WithoutRoot(r) = r
  <2>1. Clearing(r.top, r.itop, r.used)
    OBVIOUS
  <2>2. /\ RootOf(r) = Nobody => r.used \ lost = {}
        /\ RootOf(r) # Nobody =>
             /\ RootOf(r) \in r.used \ lost
             /\ Clearing(Unlink(r.top, RootOf(r)), Unlink(r.itop, RootOf(r)), r.used \ {RootOf(r)})
    BY <2>1, ClearStep DEF RootOf
  <2>3. CASE RootOf(r) = Nobody
    BY <2>2, <2>3 DEF WithoutRoot
  <2>4. CASE RootOf(r) # Nobody
    <3>1. WithoutRoot(r) = [top |-> Unlink(r.top, RootOf(r)), itop |-> Unlink(r.itop, RootOf(r)), used |-> r.used \ {RootOf(r)}]
      BY <2>4 DEF WithoutRoot
    <3>2. WithoutRoot(r) \in R
      BY <1>1, <2>2, <2>4, <3>1
    <3>3. WithoutRoot(r).used = r.used \ {RootOf(r)}
      BY <3>1
    <3>4. QED
      BY <2>2, <2>4, <3>2, <3>3
  <2>5. QED
    BY <2>3, <2>4
<1>4. F \in [R -> R] /\ \A r \in R : F[r] = WithoutRoot(r)
  <2> HIDE DEF R
  <2>1. QED
    BY <1>3
<1>5. \A r \in R : Clearing(r.top, r.itop, r.used) /\ r.used \subseteq Items
  OBVIOUS
<1>6. base.top = top /\ base.itop = itop /\ base.used = used
  OBVIOUS
<1> HIDE DEF R, F, States
<1>7. PICK g : Iterates(g, R, base, F)
  BY <1>2, <1>4, Iteration
<1> HIDE DEF base
<1>8. g[0] = base /\ \A k \in Nat : g[k] \in R /\ g[k + 1] = WithoutRoot(g[k])
  BY <1>4, <1>7 DEF Iterates
<1>9. NodeMax \in Nat
  BY ItemsAreNumbers
<1> DEFINE h == [n \in 0..NodeMax |-> g[n]]
           Body(f) == [n \in 0..NodeMax |->
             IF n = 0 THEN [top |-> top, itop |-> itop, used |-> used] ELSE WithoutRoot(f[n - 1])]
<1>10. h = Body(h)
  <2>1. ASSUME NEW n \in 0..NodeMax, n # 0, NEW m, m = n - 1
        PROVE  g[n] = WithoutRoot(h[m])
    <3>1. m \in Nat /\ m \in 0..NodeMax /\ m + 1 = n
      BY <1>9, <2>1
    <3>2. g[m + 1] = WithoutRoot(g[m]) /\ h[m] = g[m]
      BY <1>8, <3>1
    <3>3. QED
      BY <3>1, <3>2
  <2>2. ASSUME NEW n \in 0..NodeMax
        PROVE  g[n] = IF n = 0 THEN [top |-> top, itop |-> itop, used |-> used] ELSE WithoutRoot(h[n - 1])
    <3>1. n # 0 => g[n] = WithoutRoot(h[n - 1])
      BY <2>1
    <3>2. g[0] = [top |-> top, itop |-> itop, used |-> used]
      BY <1>8 DEF base
    <3>3. QED
      BY <3>1, <3>2
  <2> HIDE DEF base
  <2>3. QED
    BY <2>2
<1>11. CleanGo = Body(CleanGo)
  <2>1. CleanGo = CHOOSE f : f = Body(f)
    BY DEF CleanGo
  <2> HIDE DEF Body
  <2>2. QED
    BY <1>10, <2>1
<1> HIDE DEF h
<1> DEFINE T == {n \in Nat : n <= NodeMax =>
                   /\ CleanGo[n] \in R
                   /\ IsFiniteSet(CleanGo[n].used \ lost) /\ Cardinality(CleanGo[n].used \ lost) <= NodeMax - n}
<1>12. CleanGo[0] = base /\ \A n \in 1..NodeMax : CleanGo[n] = WithoutRoot(CleanGo[n - 1])
  <2>1. \A n \in 0..NodeMax : CleanGo[n] = IF n = 0 THEN [top |-> top, itop |-> itop, used |-> used] ELSE WithoutRoot(CleanGo[n - 1])
    BY <1>11
  <2>2. 0 \in 0..NodeMax /\ \A n \in 1..NodeMax : n \in 0..NodeMax /\ n # 0
    BY <1>9
  <2>3. QED
    BY <2>1, <2>2 DEF base
<1>13. 0 \in T
  <2>1. base \in R /\ CleanGo[0] = base /\ base.used = used /\ used \subseteq Items
    BY <1>2, <1>5, <1>6, <1>12
  <2>2. IsFiniteSet(Items) /\ Cardinality(Items) = NodeMax
    BY <1>9, FS_Interval DEF Items
  <2>3. used \ lost \in SUBSET Items
    BY <2>1
  <2>4. IsFiniteSet(used \ lost) /\ Cardinality(used \ lost) <= NodeMax
    BY <2>2, <2>3, FS_Subset
  <2>5. NodeMax - 0 = NodeMax
    BY <1>9
  <2>6. QED
    BY <2>1, <2>4, <2>5
<1>14. ASSUME NEW n \in Nat, n \in T
       PROVE  n + 1 \in T
  <2>1. SUFFICES ASSUME n + 1 <= NodeMax
                 PROVE  /\ CleanGo[n + 1] \in R
                        /\ IsFiniteSet(CleanGo[n + 1].used \ lost)
                        /\ Cardinality(CleanGo[n + 1].used \ lost) <= NodeMax - (n + 1)
    BY <1>14
  <2>2. /\ CleanGo[n] \in R /\ IsFiniteSet(CleanGo[n].used \ lost)
        /\ Cardinality(CleanGo[n].used \ lost) <= NodeMax - n
    BY <1>9, <1>14, <2>1
  <2>3. CleanGo[n + 1] = WithoutRoot(CleanGo[n])
    <3>1. n + 1 \in 1..NodeMax /\ (n + 1) - 1 = n
      BY <1>9, <2>1
    <3>2. QED
      BY <1>12, <3>1
  <2> HIDE DEF T
  <2>4. ASSUME NEW r, r = CleanGo[n], NEW root, root = RootOf(r), NEW r2, r2 = WithoutRoot(r)
        PROVE  r2 \in R /\ IsFiniteSet(r2.used \ lost) /\ Cardinality(r2.used \ lost) <= NodeMax - (n + 1)
    <3>1. r \in R /\ IsFiniteSet(r.used \ lost) /\ Cardinality(r.used \ lost) <= NodeMax - n
      BY <2>2, <2>4
    <3>2. /\ r2 \in R
          /\ root = Nobody => r.used \ lost = {} /\ r2 = r
          /\ root # Nobody => root \in r.used \ lost /\ r2.used = r.used \ {root}
      BY <1>3, <2>4, <3>1
    <3>3. CASE root = Nobody
      <4>1. r2.used \ lost = {}
        BY <3>2, <3>3
      <4>2. IsFiniteSet({}) /\ Cardinality({}) = 0
        BY FS_EmptySet
      <4>3. 0 <= NodeMax - (n + 1)
        BY <1>9, <2>1
      <4>4. QED
        BY <3>2, <4>1, <4>2, <4>3
    <3>4. CASE root # Nobody
      <4>1. r2.used \ lost = (r.used \ lost) \ {root} /\ root \in r.used \ lost
        BY <3>2, <3>4
      <4>2. /\ IsFiniteSet((r.used \ lost) \ {root})
            /\ Cardinality((r.used \ lost) \ {root}) = Cardinality(r.used \ lost) - 1
            /\ Cardinality(r.used \ lost) \in Nat
        BY <3>1, <4>1, FS_RemoveElement, FS_CardinalityType
      <4>3. IsFiniteSet(r2.used \ lost) /\ Cardinality(r2.used \ lost) = Cardinality(r.used \ lost) - 1
        BY <4>1, <4>2
      <4>4. ASSUME NEW c \in Nat, c <= NodeMax - n
            PROVE  c - 1 <= NodeMax - (n + 1)
        BY <1>9, <4>4
      <4>5. Cardinality(r.used \ lost) - 1 <= NodeMax - (n + 1)
        BY <3>1, <4>2, <4>4
      <4>6. QED
        BY <3>2, <4>3, <4>5
    <3>5. QED
      BY <3>3, <3>4
  <2>5. QED
    BY <2>3, <2>4
<1>15. \A n \in Nat : n \in T
  <2> HIDE DEF T
  <2>1. QED
    BY <1>13, <1>14, AllNumbers
<1>16. /\ CleanGo[NodeMax] \in R /\ IsFiniteSet(CleanGo[NodeMax].used \ lost)
       /\ Cardinality(CleanGo[NodeMax].used \ lost) <= NodeMax - NodeMax
  BY <1>9, <1>15
<1>17. Cardinality(CleanGo[NodeMax].used \ lost) = 0
  <2>1. Cardinality(CleanGo[NodeMax].used \ lost) \in Nat
    BY <1>16, FS_CardinalityType
  <2>2. QED
    BY <1>9, <1>16, <2>1
<1>18. CleanGo[NodeMax].used \ lost = {}
  BY <1>16, <1>17, FS_EmptySet
<1>19. QED
  BY <1>5, <1>16, <1>18

LEMMA TreeCleanKeeps ==
  ASSUME TreesKept, binaryTree_Clean
  PROVE  TreesKept'
<1> DEFINE clean == CleanGo[NodeMax]
<1>1. /\ used \subseteq Items /\ lost \subseteq used /\ next_unique_id \in Nat
      /\ Grown(top, Named, name, "top" \notin displaced)
      /\ Grown(itop, Kept, unique_id, "itop" \notin displaced)
  BY DEF TreesKept
<1>2. /\ top' = clean.top /\ itop' = clean.itop /\ used' = clean.used
      /\ name' = NoLinks /\ unique_id' = NoLinks /\ displaced' = {}
      /\ next_unique_id' = next_unique_id /\ lost' = lost
  BY CleanReadOff DEF binaryTree_Clean
<1>3. Clearing(top, itop, used)
  <2>1. Grown(top, Named, name, FALSE)
    BY <1>1, GrownLess
  <2>2. Grown(itop, Kept, name, FALSE)
    BY <1>1 DEF Grown
  <2>3. QED
    BY <1>1, <2>1, <2>2 DEF Clearing, Named, Kept
<1>4. Clearing(clean.top, clean.itop, clean.used) /\ clean.used \ lost = {}
  BY <1>3, CleanGoes
<1> HIDE DEF clean
<1>5. Kept' = {} /\ Named' = {}
  BY <1>2, <1>4 DEF Kept, Named
<1>6. /\ clean.used \subseteq Items /\ lost \subseteq clean.used
      /\ Grown(clean.top, {i \in clean.used \ lost : name[i] # 0}, name, FALSE)
      /\ Grown(clean.itop, clean.used \ lost, name, FALSE)
  BY <1>4 DEF Clearing
<1>7. Grown(clean.top, {}, name, FALSE) /\ Grown(clean.itop, {}, name, FALSE)
  <2>1. {i \in clean.used \ lost : name[i] # 0} = {}
    BY <1>4
  <2>2. QED
    BY <1>4, <1>6, <2>1
<1>8. Grown(top', Named', name', "top" \notin displaced') /\ Grown(itop', Kept', unique_id', "itop" \notin displaced')
  BY <1>2, <1>5, <1>7, NoneGrown
<1>9. NoLinks \in [Items -> Nat]
  BY DEF NoLinks, Nobody
<1>10. QED
  BY <1>1, <1>2, <1>6, <1>8, <1>9 DEF TreesKept

LEMMA WalksKeep ==
  ASSUME TreesKept, UNCHANGED <<top, itop, next_unique_id, name, unique_id, used, lost, displaced>>
  PROVE  TreesKept'
<1>1. Kept' = Kept /\ Named' = Named
  BY DEF Kept, Named
<1>2. Grown(top', Named', name', "top" \notin displaced') /\ Grown(itop', Kept', unique_id', "itop" \notin displaced')
  BY <1>1 DEF TreesKept
<1>3. QED
  BY <1>2 DEF TreesKept

LEMMA TreeStepKeeps ==
  ASSUME TreesKept, [TreeNext]_treeVars
  PROVE  TreesKept'
<1>1. CASE \E n \in Names, id \in Ids : binaryTree_Insert(n, id)
  BY <1>1, TreeInsertKeeps
<1>2. CASE \E item \in Items : binaryTree_Delete(item)
  BY <1>2, TreeDeleteKeeps
<1>3. CASE binaryTree_Clean
  BY <1>3, TreeCleanKeeps
<1>4. CASE binaryTree_FirstItem \/ binaryTree_LastItem \/ binaryTree_NextItem \/ binaryTree_PreviousItem
  BY <1>4, WalksKeep DEF binaryTree_FirstItem, binaryTree_LastItem, binaryTree_NextItem, binaryTree_PreviousItem, ByName
<1>5. CASE binaryTree_FirstiItem \/ binaryTree_LastiItem \/ binaryTree_NextiItem \/ binaryTree_PreviousiItem
  BY <1>5, WalksKeep DEF binaryTree_FirstiItem, binaryTree_LastiItem, binaryTree_NextiItem, binaryTree_PreviousiItem, ById
<1>6. CASE UNCHANGED treeVars
  BY <1>6, WalksKeep DEF treeVars
<1>7. QED
  BY <1>1, <1>2, <1>3, <1>4, <1>5, <1>6 DEF TreeNext

(* What the walks and the keys of such a tree show.                         *)
LEMMA RowOfTree ==
  ASSUME NEW t, NEW S, NEW key, NEW rises, Grown(t, S, key, rises)
  PROVE  /\ InOrder(t) \in Seq(S) /\ ToSet(InOrder(t)) = S /\ IsInjective(InOrder(t))
         /\ Visited(t, "right") = InOrder(t) /\ Visited(t, "left") = Reverse(InOrder(t))
         /\ rises => Sorted(t, key)
<1>1. PICK n, s, pos, lo, hi : Shape(t, S, n, s, pos, lo, hi) /\ (rises => Rising(S, pos, key))
  BY DEF Grown
<1>2. InOrder(t) = s /\ Visited(t, "right") = s /\ Visited(t, "left") = Reverse(s)
  BY <1>1, InOrderIs, WalksAre
<1>3. /\ n \in Nat /\ s \in [1..n -> S] /\ DOMAIN s = 1..n
      /\ \A p \in 1..n : s[p] \in S /\ pos[s[p]] = p
  BY <1>1, NumberFacts
<1>4. s \in Seq(S)
  BY <1>3
<1>5. ASSUME NEW i \in S
      PROVE  pos[i] \in DOMAIN s /\ s[pos[i]] = i
  <2>1. /\ 1 <= lo[i] /\ lo[i] <= pos[i] /\ pos[i] <= hi[i] /\ hi[i] <= n /\ s[pos[i]] = i /\ i \in Items
    BY <1>1, NumberFacts
  <2>2. lo[i] \in Nat /\ pos[i] \in Nat /\ hi[i] \in Nat
    BY <1>1, <2>1, NumberFacts
  <2>3. QED
    BY <1>3, <2>1, <2>2
<1>6. ToSet(s) = S
  BY <1>3, <1>5 DEF ToSet
<1>7. IsInjective(s)
  BY <1>3 DEF IsInjective
<1>8. ASSUME rises
      PROVE  Sorted(t, key)
  <2>1. \A i, j \in 1..n : i < j => key[s[i]] <= key[s[j]]
    <3>1. \A i, j \in S : pos[i] < pos[j] => key[i] <= key[j]
      BY <1>1, <1>8 DEF Rising
    <3>2. QED
      BY <1>3, <3>1
  <2>2. QED
    BY <1>2, <1>3, <2>1 DEF Sorted
<1>9. QED
  BY <1>2, <1>4, <1>6, <1>7, <1>8

LEMMA FoundInTree ==
  ASSUME NEW t, NEW S, NEW key \in [Items -> Nat], Grown(t, S, key, TRUE), NEW item \in S
  PROVE  Search(t, key, key[item]) \in S /\ key[Search(t, key, key[item])] = key[item]
<1>1. PICK n, s, pos, lo, hi : Shape(t, S, n, s, pos, lo, hi) /\ Rising(S, pos, key)
  BY DEF Grown
<1>2. item \in Items
  BY <1>1, NumberFacts
<1>3. ASSUME NEW k, k = key[item]
      PROVE  Search(t, key, k) \in S /\ key[Search(t, key, k)] = k
  <2>1. k \in Nat
    BY <1>2, <1>3
  <2>2. QED
    BY <1>1, <1>3, <2>1, SearchIs
<1>4. QED
  BY <1>3

LEMMA KeptVisitsAll ==
  ASSUME TreesKept
  PROVE  WalksVisitAll
<1>1. Grown(top, Named, name, "top" \notin displaced) /\ Grown(itop, Kept, unique_id, "itop" \notin displaced)
  BY DEF TreesKept
<1>2. /\ InOrder(top) \in Seq(Named) /\ ToSet(InOrder(top)) = Named /\ IsInjective(InOrder(top))
      /\ Visited(top, "right") = InOrder(top) /\ Visited(top, "left") = Reverse(InOrder(top))
  BY <1>1, RowOfTree
<1>3. /\ InOrder(itop) \in Seq(Kept) /\ ToSet(InOrder(itop)) = Kept /\ IsInjective(InOrder(itop))
      /\ Visited(itop, "right") = InOrder(itop) /\ Visited(itop, "left") = Reverse(InOrder(itop))
  BY <1>1, RowOfTree
<1>4. ASSUME NEW item \in Kept
      PROVE  binaryTree_GetClient(item)
  <2>1. ASSUME NEW a, a = InOrder(itop), NEW b, b = InOrder(top)
        PROVE  item \in ToSet(a \o b)
    <3>1. a \in Seq(Kept) /\ b \in Seq(Kept) /\ item \in ToSet(a)
      <4>1. Named \subseteq Kept
        BY DEF Named
      <4>2. b \in Seq(Named)
        BY <1>2, <2>1
      <4>3. b \in Seq(Kept)
        BY <4>1, <4>2
      <4>4. QED
        BY <1>3, <1>4, <2>1, <4>3
    <3>2. PICK i \in DOMAIN a : a[i] = item
      BY <3>1 DEF ToSet
    <3>3. /\ a \o b \in Seq(Kept) /\ Len(a \o b) = Len(a) + Len(b)
          /\ \A j \in 1..Len(a) + Len(b) : (a \o b)[j] = IF j <= Len(a) THEN a[j] ELSE b[j - Len(a)]
      BY <3>1, ConcatProperties
    <3>4. DOMAIN a = 1..Len(a) /\ Len(a) \in Nat /\ Len(b) \in Nat /\ DOMAIN (a \o b) = 1..Len(a \o b)
      BY <3>1, <3>3
    <3>5. i \in 1..Len(a) + Len(b) /\ i <= Len(a)
      BY <3>4
    <3>6. i \in DOMAIN (a \o b) /\ (a \o b)[i] = item
      BY <3>2, <3>3, <3>4, <3>5
    <3>7. QED
      BY <3>6 DEF ToSet
  <2>2. item \in ToSet(InOrder(itop) \o InOrder(top))
    BY <2>1
  <2>3. QED
    BY <1>2, <1>3, <2>2 DEF binaryTree_GetClient
<1>5. QED
  BY <1>2, <1>3, <1>4 DEF WalksVisitAll, Kept, Named

LEMMA KeptFinds ==
  ASSUME TreesKept
  PROVE  FoundByKey
<1>1. /\ used \subseteq Items /\ name \in [Items -> Nat] /\ unique_id \in [Items -> Nat]
      /\ Grown(top, Named, name, "top" \notin displaced) /\ Grown(itop, Kept, unique_id, "itop" \notin displaced)
  BY DEF TreesKept
<1>2. /\ "top" \notin displaced => Sorted(top, name)
      /\ "itop" \notin displaced => Sorted(itop, unique_id)
  BY <1>1, RowOfTree
<1>3. ASSUME displaced = {}, NEW item \in Kept
      PROVE  /\ unique_id[item] > 0 => unique_id[binaryTree_Get(0, unique_id[item])] = unique_id[item]
             /\ name[item] > 0 => name[binaryTree_Get(name[item], 0)] = name[item]
  <2>1. Grown(top, Named, name, TRUE) /\ Grown(itop, Kept, unique_id, TRUE)
    BY <1>1, <1>3, GrownLess
  <2>2. item \in Items /\ name[item] \in Nat /\ unique_id[item] \in Nat
    BY <1>1, <1>3 DEF Kept
  <2>3. \A i \in Kept : i # Nobody
    BY <1>1, ItemsAreNumbers DEF Kept
  <2>4. ASSUME unique_id[item] > 0
        PROVE  unique_id[binaryTree_Get(0, unique_id[item])] = unique_id[item]
    <3>1. ASSUME NEW t, t = itop, NEW S, S = Kept, NEW key, key = unique_id
          PROVE  Search(t, key, key[item]) \in S /\ key[Search(t, key, key[item])] = key[item]
      <4>1. key \in [Items -> Nat] /\ Grown(t, S, key, TRUE) /\ item \in S
        BY <1>1, <1>3, <2>1, <3>1
      <4>2. QED
        BY <4>1, FoundInTree
    <3>2. binaryTree_Get(0, unique_id[item]) = Search(itop, unique_id, unique_id[item])
      BY <2>3, <2>4, <3>1 DEF binaryTree_Get
    <3>3. QED
      BY <3>1, <3>2
  <2>5. ASSUME name[item] > 0
        PROVE  name[binaryTree_Get(name[item], 0)] = name[item]
    <3>1. item \in Named
      BY <1>3, <2>2, <2>5 DEF Named
    <3>2. name[Search(top, name, name[item])] = name[item]
      BY <1>1, <2>1, <3>1, FoundInTree, Zenon
    <3>3. binaryTree_Get(name[item], 0) = Search(top, name, name[item])
      BY <2>2, <2>5 DEF binaryTree_Get
    <3>4. QED
      BY <3>2, <3>3
  <2>6. QED
    BY <2>4, <2>5
<1>4. QED
  BY <1>2, <1>3 DEF FoundByKey, Kept

(* WalksVisitAll of BinaryTree, for any number of items and any settings:   *)
(* after any insertions, deletions and cleanings an item is once in the     *)
(* tree of ids, and in that of names if it has one, and the iterators visit *)
(* all of a tree in its order in both directions, and binaryTree_GetClient  *)
(* finds every client (toolbox-btree.c:1033-1227, 1349-1616).              *)
THEOREM WalksAlwaysVisitAll == TreeSpec => []WalksVisitAll
<1>1. binaryTree_Constructor => TreesKept
  BY TreeConstructorKeeps
<1>2. TreesKept /\ [TreeNext]_treeVars => TreesKept'
  BY TreeStepKeeps
<1>3. TreesKept => WalksVisitAll
  BY KeptVisitsAll
<1>4. QED
  BY <1>1, <1>2, <1>3, PTL DEF TreeSpec

(* FoundByKey of BinaryTree: a tree stays sorted until a deletion moves a   *)
(* branch past another, and until then binaryTree_Get finds every item by   *)
(* its unique_id and by its name (toolbox-btree.c:17, 612-720).            *)
THEOREM AlwaysFoundByKey == TreeSpec => []FoundByKey
<1>1. binaryTree_Constructor => TreesKept
  BY TreeConstructorKeeps
<1>2. TreesKept /\ [TreeNext]_treeVars => TreesKept'
  BY TreeStepKeeps
<1>3. TreesKept => FoundByKey
  BY KeptFinds
<1>4. QED
  BY <1>1, <1>2, <1>3, PTL DEF TreeSpec
=============================================================================
