----------------------------- MODULE ListProofs -----------------------------
(***************************************************************************)
(* The chain of nodes of a linked list, for any nodes and clients.          *)
(*                                                                         *)
(* The invariant has the chain as a sequence s of nodes: it starts at       *)
(* firstItem, next leads from each node to the one behind it and from the   *)
(* last to Null, no node is in it twice, and the nodes in it are those      *)
(* malloc'ed and not freed (Strung).  The walk along next finds s (WalkIs), *)
(* so there is only one.  What a call does is then an insertion into s or   *)
(* a removal from it.                                                      *)
(***************************************************************************)
EXTENDS LinkedList, SequenceTheorems, Foundations

Assumptions == LinkedListAssumption

OrNull == Nodes \cup {Null}

(* The node at a place of s, Null behind the last.                         *)
At(s, i) == IF i \in 1..Len(s) THEN s[i] ELSE Null

Strung(s, first, links) ==
  /\ s \in Seq(Nodes)
  /\ first = At(s, 1)
  /\ \A i \in 1..Len(s) : links[s[i]] = At(s, i + 1)
  /\ \A i, j \in 1..Len(s) : s[i] = s[j] => i = j

-----------------------------------------------------------------------------
(* The walk.                                                               *)
LEMMA WalkSteps ==
  ASSUME Assumptions, NEW links \in [Nodes -> OrNull]
  PROVE  \A n \in OrNull :
           /\ Walk(links)[0][n] = <<>>
           /\ \A k \in Nat :
                Walk(links)[k + 1][n] = IF n = Null THEN <<>> ELSE <<n>> \o Walk(links)[k][links[n]]
<1> DEFINE S == [OrNull -> Seq(Nodes)]
           base == [n \in OrNull |-> <<>>]
           F == [w \in S |-> [n \in OrNull |-> IF n = Null THEN <<>> ELSE <<n>> \o w[links[n]]]]
<1>1. base \in S
  OBVIOUS
<1>2. F \in [S -> S]
  <2>1. ASSUME NEW w \in S, NEW n \in OrNull
        PROVE  (IF n = Null THEN <<>> ELSE <<n>> \o w[links[n]]) \in Seq(Nodes)
    <3>1. CASE n # Null
      <4>1. n \in Nodes /\ links[n] \in OrNull
        BY <3>1 DEF OrNull
      <4>2. w[links[n]] \in Seq(Nodes) /\ <<n>> \in Seq(Nodes)
        BY <4>1
      <4>3. QED
        BY <3>1, <4>2
    <3>2. QED
      BY <3>1
  <2>2. QED
    BY <2>1
<1>3. PICK g : Iterates(g, S, base, F)
  <2> HIDE DEF S, base, F
  <2>1. QED
    BY <1>1, <1>2, Iteration
<1> DEFINE Go(h) == [k \in Nat |->
                      [n \in Nodes \cup {Null} |->
                        IF n = Null \/ k = 0 THEN <<>> ELSE <<n>> \o h[k - 1][links[n]]]]
<1>4. g = Go(g)
  <2>1. ASSUME NEW k \in Nat
        PROVE  g[k] = Go(g)[k]
    <3>1. CASE k = 0
      BY <1>3, <3>1 DEF OrNull, Iterates
    <3>2. CASE k # 0
      <4>0. k - 1 \in Nat /\ (k - 1) + 1 = k
        BY <3>2
      <4> HIDE DEF S, F
      <4>1. g[k - 1] \in S /\ g[k] = F[g[k - 1]]
        BY <1>3, <4>0 DEF Iterates
      <4> USE DEF S, F
      <4>2. F[g[k - 1]] = [n \in OrNull |-> IF n = Null THEN <<>> ELSE <<n>> \o g[k - 1][links[n]]]
        BY <4>1
      <4>3. Go(g)[k] = [n \in OrNull |-> IF n = Null THEN <<>> ELSE <<n>> \o g[k - 1][links[n]]]
        BY <3>2 DEF OrNull
      <4>4. QED
        BY <4>1, <4>2, <4>3
    <3>3. QED
      BY <3>1, <3>2
  <2>2. g = [k \in Nat |-> g[k]]
    BY <1>3 DEF Iterates
  <2> HIDE DEF S
  <2>3. QED
    BY <2>1, <2>2
<1>5. Walk(links) = CHOOSE h : h = Go(h)
  BY DEF Walk
<1>6. Walk(links) = Go(Walk(links))
  <2> HIDE DEF Go
  <2>1. QED
    BY <1>4, <1>5
<1>7. ASSUME NEW n \in OrNull
      PROVE  Walk(links)[0][n] = <<>>
  <2>1. Go(Walk(links))[0][n] = <<>>
    BY DEF OrNull
  <2>2. QED
    BY <1>6, <2>1
<1>8. ASSUME NEW n \in OrNull, NEW k \in Nat
      PROVE  Walk(links)[k + 1][n] = IF n = Null THEN <<>> ELSE <<n>> \o Walk(links)[k][links[n]]
  <2>1. k + 1 \in Nat /\ k + 1 # 0 /\ (k + 1) - 1 = k
    OBVIOUS
  <2>2. Go(Walk(links))[k + 1][n] = IF n = Null THEN <<>> ELSE <<n>> \o Walk(links)[k][links[n]]
    BY <2>1 DEF OrNull
  <2> HIDE DEF Go
  <2>3. QED
    BY <1>6, <2>2
<1>9. QED
  BY <1>7, <1>8

LEMMA WalkIs ==
  ASSUME Assumptions, NEW links \in [Nodes -> OrNull], NEW s, NEW first, Strung(s, first, links),
         NEW k \in Nat, Len(s) <= k
  PROVE  Walk(links)[k][first] = s
<1> DEFINE Rest(i) == SubSeq(s, i, Len(s))
           T == {m \in Nat : \A i \in 1..Len(s) + 1 :
                               Len(s) - i < m => Walk(links)[m][At(s, i)] = Rest(i)}
<1>1. s \in Seq(Nodes) /\ Len(s) \in Nat /\ Null \notin Nodes
  BY DEF Strung, Assumptions, LinkedListAssumption
<1>2. \A i \in 1..Len(s) + 1 : At(s, i) \in OrNull /\ (At(s, i) = Null <=> i = Len(s) + 1)
  BY <1>1 DEF At, OrNull
<1>3. Rest(Len(s) + 1) = <<>>
  BY <1>1, SubSeqEmpty
<1>4. 0 \in T
  <2>1. ASSUME NEW i \in 1..Len(s) + 1, Len(s) - i < 0
        PROVE  Walk(links)[0][At(s, i)] = Rest(i)
    <3>1. i = Len(s) + 1
      BY <1>1, <2>1
    <3>2. QED
      BY <1>2, <1>3, <3>1, WalkSteps
  <2>2. QED
    BY <2>1
<1>5. ASSUME NEW m \in Nat, m \in T
      PROVE  m + 1 \in T
  <2>1. ASSUME NEW i \in 1..Len(s) + 1, Len(s) - i < m + 1
        PROVE  Walk(links)[m + 1][At(s, i)] = Rest(i)
    <3>1. CASE i = Len(s) + 1
      BY <1>2, <1>3, <3>1, WalkSteps
    <3>2. CASE i <= Len(s)
      <4>1. At(s, i) = s[i] /\ links[s[i]] = At(s, i + 1) /\ s[i] # Null /\ s[i] \in OrNull
        BY <1>1, <3>2 DEF At, Strung, OrNull
      <4>2. Walk(links)[m + 1][s[i]] = <<s[i]>> \o Walk(links)[m][At(s, i + 1)]
        BY <4>1, WalkSteps
      <4>3. Walk(links)[m][At(s, i + 1)] = Rest(i + 1)
        BY <1>1, <1>5, <2>1, <3>2
      <4>4. Rest(i) = <<s[i]>> \o Rest(i + 1)
        BY <1>1, <3>2, SubSeqRecursiveFirst
      <4>5. QED
        BY <4>1, <4>2, <4>3, <4>4
    <3>3. QED
      BY <1>1, <3>1, <3>2
  <2>2. QED
    BY <2>1
<1> HIDE DEF T
<1>6. k \in T
  BY <1>4, <1>5, AllNumbers
<1> USE DEF T
<1>7. Walk(links)[k][At(s, 1)] = Rest(1)
  BY <1>1, <1>6
<1>8. QED
  BY <1>1, <1>7, SubSeqFull DEF Strung

LEMMA FitsNodes ==
  ASSUME Assumptions, NEW s, NEW first, NEW links, Strung(s, first, links)
  PROVE  /\ Len(s) \in Nat /\ Len(s) <= Cardinality(Nodes) /\ Cardinality(Nodes) \in Nat
         /\ Len(s) = Cardinality(ToSet(s))
<1>1. s \in [1..Len(s) -> Nodes] /\ Len(s) \in Nat /\ DOMAIN s = 1..Len(s)
  BY LenProperties DEF Strung
<1>2. IsFiniteSet(1..Len(s)) /\ Cardinality(1..Len(s)) = Len(s)
  <2>1. 1 \in Int /\ Len(s) \in Int
    BY <1>1
  <2>2. /\ IsFiniteSet(1..Len(s))
        /\ Cardinality(1..Len(s)) = IF 1 > Len(s) THEN 0 ELSE Len(s) - 1 + 1
    BY <2>1, FS_Interval, Zenon
  <2>3. QED
    BY <1>1, <2>2
<1>3. s \in Injection(1..Len(s), Nodes)
  BY <1>1 DEF Strung, Injection, IsInjective
<1>4. Cardinality(1..Len(s)) <= Cardinality(Nodes)
  BY <1>3, FS_Injection DEF Assumptions, LinkedListAssumption
<1>5. s \in Surjection(1..Len(s), ToSet(s)) /\ s \in Injection(1..Len(s), ToSet(s))
  BY <1>1 DEF Strung, Injection, IsInjective, Surjection, ToSet
<1>6. Cardinality(ToSet(s)) = Cardinality(1..Len(s))
  BY <1>2, <1>5, FS_Surjection
<1>7. QED
  BY <1>1, <1>2, <1>4, <1>6, FS_CardinalityType DEF Assumptions, LinkedListAssumption

(* The chain is what is strung: there is one walk only.                     *)
LEMMA ChainIs ==
  ASSUME Assumptions, NEW links \in [Nodes -> OrNull], NEW s, NEW first, Strung(s, first, links)
  PROVE  Walk(links)[Cardinality(Nodes)][first] = s
BY FitsNodes, WalkIs

-----------------------------------------------------------------------------
LEMMA TailRemovesFirst ==
  ASSUME NEW S, NEW s \in Seq(S), s # <<>>
  PROVE  Tail(s) = RemoveAt(s, 1)
<1>1. Len(s) \in Nat \ {0}
  BY EmptySeq
<1>2. /\ Tail(s) \in Seq(S) /\ Len(Tail(s)) = Len(s) - 1
      /\ \A k \in 1..Len(s) - 1 : Tail(s)[k] = s[k + 1]
  BY HeadTailProperties
<1>3. /\ RemoveAt(s, 1) \in Seq(S) /\ Len(RemoveAt(s, 1)) = Len(s) - 1
      /\ \A k \in 1..Len(s) - 1 : RemoveAt(s, 1)[k] = IF k < 1 THEN s[k] ELSE s[k + 1]
  BY <1>1, RemoveAtIs
<1>4. QED
  BY <1>2, <1>3, SeqEqual

-----------------------------------------------------------------------------
(* Chains with a node more, and with one less.                             *)
Mirrors(s, back) == \A i \in 1..Len(s) : back[s[i]] = At(s, i - 1)

LEMMA StrungWith ==
  ASSUME Assumptions, NEW s, NEW first, NEW links, Strung(s, first, links),
         NEW n \in Nodes, n \notin ToSet(s), NEW i \in 1..Len(s) + 1, NEW nx,
         \A m \in Nodes : nx[m] = IF m = n THEN At(s, i) ELSE IF m = At(s, i - 1) THEN n ELSE links[m]
  PROVE  /\ Strung(InsertAt(s, i, n), IF At(s, i - 1) = Null THEN n ELSE first, nx)
         /\ ToSet(InsertAt(s, i, n)) = ToSet(s) \cup {n}
<1> DEFINE t == InsertAt(s, i, n)
<1>1. /\ s \in Seq(Nodes) /\ Len(s) \in Nat /\ DOMAIN s = 1..Len(s)
      /\ \A k \in 1..Len(s) : s[k] \in Nodes /\ s[k] # n /\ s[k] # Null
  BY LenProperties DEF Strung, ToSet, Assumptions, LinkedListAssumption
<1>2. /\ t \in Seq(Nodes)
      /\ Len(t) = Len(s) + 1
      /\ \A k \in 1..Len(s) + 1 : t[k] = IF k < i THEN s[k] ELSE IF k = i THEN n ELSE s[k - 1]
  BY <1>1, InsertAtIs
<1> HIDE DEF t
<1>3. (IF At(s, i - 1) = Null THEN n ELSE first) = At(t, 1)
  BY <1>1, <1>2 DEF At, Strung
<1>4. ASSUME NEW k \in 1..Len(t)
      PROVE  nx[t[k]] = At(t, k + 1)
  <2>0. i \in Nat \ {0} /\ k \in Nat \ {0}
    BY <1>1, <1>2
  <2>1. CASE k < i - 1
    <3>1. t[k] = s[k] /\ t[k + 1] = s[k + 1] /\ k \in 1..Len(s) /\ k + 1 \in 1..Len(s)
      BY <1>1, <1>2, <2>0, <2>1
    <3>2. s[k] # At(s, i - 1)
      BY <1>1, <2>0, <2>1, <3>1 DEF At, Strung
    <3>3. nx[s[k]] = links[s[k]] /\ links[s[k]] = s[k + 1]
      BY <1>1, <3>1, <3>2 DEF At, Strung
    <3>4. At(t, k + 1) = t[k + 1]
      BY <1>1, <1>2, <2>0, <2>1 DEF At
    <3>5. QED
      BY <3>1, <3>3, <3>4
  <2>2. CASE k = i - 1
    <3>1. t[k] = s[k] /\ t[k + 1] = n /\ k \in 1..Len(s) /\ k + 1 \in 1..Len(t)
      BY <1>1, <1>2, <2>0, <2>2
    <3>2. QED
      BY <1>1, <2>2, <3>1 DEF At
  <2>3. CASE k = i
    <3>1. t[k] = n /\ nx[n] = At(s, i)
      BY <1>1, <1>2, <2>3
    <3>2. At(t, k + 1) = At(s, i)
      BY <1>1, <1>2, <2>0, <2>3 DEF At
    <3>3. QED
      BY <3>1, <3>2
  <2>4. CASE k > i
    <3>1. t[k] = s[k - 1] /\ k - 1 \in 1..Len(s)
      BY <1>1, <1>2, <2>0, <2>4
    <3>2. s[k - 1] # At(s, i - 1)
      BY <1>1, <2>0, <2>4, <3>1 DEF At, Strung
    <3>3. nx[s[k - 1]] = links[s[k - 1]] /\ links[s[k - 1]] = At(s, k)
      BY <1>1, <3>1, <3>2 DEF Strung
    <3>4. At(t, k + 1) = At(s, k)
      BY <1>1, <1>2, <2>0, <2>4 DEF At
    <3>5. QED
      BY <3>1, <3>3, <3>4
  <2>5. QED
    BY <2>0, <2>1, <2>2, <2>3, <2>4
<1>5. ASSUME NEW k \in 1..Len(t), NEW l \in 1..Len(t), t[k] = t[l]
      PROVE  k = l
  <2>0. i \in Nat \ {0} /\ k \in Nat \ {0} /\ l \in Nat \ {0} /\ Len(t) \in Nat
    BY <1>1, <1>2
  <2>1. ASSUME NEW p \in 1..Len(t), p # i
        PROVE  /\ t[p] = s[IF p < i THEN p ELSE p - 1]
               /\ (IF p < i THEN p ELSE p - 1) \in 1..Len(s)
               /\ t[p] # n
    BY <1>1, <1>2, <2>0, <2>1
  <2>2. t[i] = n
    BY <1>1, <1>2
  <2>3. CASE k = i \/ l = i
    BY <1>5, <2>1, <2>2, <2>3
  <2>4. CASE k # i /\ l # i
    <3>1. (IF k < i THEN k ELSE k - 1) = (IF l < i THEN l ELSE l - 1)
      BY <1>5, <2>1, <2>4, SMTT(30) DEF Strung
    <3>2. QED
      BY <2>0, <2>4, <3>1
  <2>5. QED
    BY <2>3, <2>4
<1>6. ToSet(t) = ToSet(s) \cup {n}
  <2>0. DOMAIN t = 1..Len(s) + 1
    BY <1>2, LenProperties
  <2>1. ASSUME NEW m \in ToSet(t)
        PROVE  m \in ToSet(s) \cup {n}
    <3>1. PICK k \in 1..Len(s) + 1 : m = t[k]
      BY <2>0, <2>1 DEF ToSet
    <3>2. m = n \/ (k < i /\ m = s[k] /\ k \in 1..Len(s)) \/ (m = s[k - 1] /\ k - 1 \in 1..Len(s))
      BY <1>1, <1>2, <3>1
    <3>3. QED
      BY <1>1, <3>2 DEF ToSet
  <2>2. ASSUME NEW m \in ToSet(s)
        PROVE  m \in ToSet(t)
    <3>1. PICK k \in 1..Len(s) : m = s[k]
      BY <1>1 DEF ToSet
    <3>2. \E l \in 1..Len(s) + 1 : m = t[l]
      <4>1. CASE k < i
        BY <1>1, <1>2, <3>1, <4>1
      <4>2. CASE k >= i
        <5>1. k + 1 \in 1..Len(s) + 1 /\ t[k + 1] = s[k]
          BY <1>1, <1>2, <3>1, <4>2
        <5>2. QED
          BY <3>1, <5>1
      <4>3. QED
        BY <1>1, <4>1, <4>2
    <3>3. QED
      BY <2>0, <3>2 DEF ToSet
  <2>3. n \in ToSet(t)
    BY <1>1, <1>2, <2>0, t[i] = n DEF ToSet
  <2>4. QED
    BY <2>1, <2>2, <2>3
<1>7. QED
  BY <1>2, <1>3, <1>4, <1>5, <1>6 DEF Strung, t

LEMMA MirrorsWith ==
  ASSUME Assumptions, NEW s, NEW first, NEW links, Strung(s, first, links),
         NEW n \in Nodes, n \notin ToSet(s), NEW i \in 1..Len(s) + 1, NEW back, Mirrors(s, back), NEW pv,
         \A m \in Nodes : pv[m] = IF m = n THEN At(s, i - 1) ELSE IF m = At(s, i) THEN n ELSE back[m]
  PROVE  Mirrors(InsertAt(s, i, n), pv)
<1> DEFINE t == InsertAt(s, i, n)
<1>1. /\ s \in Seq(Nodes) /\ Len(s) \in Nat /\ DOMAIN s = 1..Len(s)
      /\ \A k \in 1..Len(s) : s[k] \in Nodes /\ s[k] # n /\ s[k] # Null
  BY LenProperties DEF Strung, ToSet, Assumptions, LinkedListAssumption
<1>2. /\ Len(t) = Len(s) + 1
      /\ \A k \in 1..Len(s) + 1 : t[k] = IF k < i THEN s[k] ELSE IF k = i THEN n ELSE s[k - 1]
  BY <1>1, InsertAtIs
<1> HIDE DEF t
<1>3. ASSUME NEW k \in 1..Len(t)
      PROVE  pv[t[k]] = At(t, k - 1)
  <2>0. i \in Nat \ {0} /\ k \in Nat \ {0}
    BY <1>1, <1>2
  <2>1. CASE k < i
    <3>1. t[k] = s[k] /\ k \in 1..Len(s)
      BY <1>1, <1>2, <2>0, <2>1
    <3>2. s[k] # At(s, i)
      BY <1>1, <2>0, <2>1, <3>1 DEF At, Strung
    <3>3. pv[s[k]] = back[s[k]] /\ back[s[k]] = At(s, k - 1)
      BY <1>1, <3>1, <3>2 DEF Mirrors
    <3>4. At(t, k - 1) = At(s, k - 1)
      BY <1>1, <1>2, <2>0, <2>1 DEF At
    <3>5. QED
      BY <3>1, <3>3, <3>4
  <2>2. CASE k = i
    <3>1. t[k] = n /\ pv[n] = At(s, i - 1)
      BY <1>1, <1>2, <2>2
    <3>2. At(t, k - 1) = At(s, i - 1)
      BY <1>1, <1>2, <2>0, <2>2 DEF At
    <3>3. QED
      BY <3>1, <3>2
  <2>3. CASE k = i + 1
    <3>1. t[k] = s[i] /\ t[k - 1] = n /\ i \in 1..Len(s) /\ k - 1 \in 1..Len(t)
      BY <1>1, <1>2, <2>0, <2>3
    <3>2. At(s, i) = s[i] /\ At(t, k - 1) = n
      BY <3>1 DEF At
    <3>3. QED
      BY <1>1, <3>1, <3>2
  <2>4. CASE k > i + 1
    <3>1. t[k] = s[k - 1] /\ k - 1 \in 1..Len(s) /\ k - 1 > i
      BY <1>1, <1>2, <2>0, <2>4
    <3>2. s[k - 1] # At(s, i)
      BY <1>1, <2>0, <2>4, <3>1 DEF At, Strung
    <3>3. pv[s[k - 1]] = back[s[k - 1]] /\ back[s[k - 1]] = At(s, k - 1 - 1)
      BY <1>1, <3>1, <3>2 DEF Mirrors
    <3>4. At(t, k - 1) = At(s, k - 1 - 1)
      BY <1>1, <1>2, <2>0, <2>4 DEF At
    <3>5. QED
      BY <3>1, <3>3, <3>4
  <2>5. QED
    BY <2>0, <2>1, <2>2, <2>3, <2>4
<1>4. QED
  BY <1>3 DEF Mirrors, t

(* Links that skip the node of place j.                                    *)
Skips(s, j, links, nx) ==
  \A m \in Nodes \ {s[j]} : nx[m] = IF m = At(s, j - 1) THEN At(s, j + 1) ELSE links[m]

LEMMA StrungWithout ==
  ASSUME Assumptions, NEW s, NEW first, NEW links, Strung(s, first, links),
         NEW j \in 1..Len(s), j = 1 => Len(s) = 1,
         NEW first2, first2 = IF Len(s) = 1 THEN Null ELSE first, NEW nx, Skips(s, j, links, nx)
  PROVE  /\ Strung(RemoveAt(s, j), first2, nx)
         /\ ToSet(RemoveAt(s, j)) = ToSet(s) \ {s[j]}
<1> DEFINE t == RemoveAt(s, j)
<1>1. /\ s \in Seq(Nodes) /\ Len(s) \in Nat /\ DOMAIN s = 1..Len(s) /\ j \in Nat \ {0}
      /\ \A k \in 1..Len(s) : s[k] \in Nodes /\ s[k] # Null
  BY LenProperties DEF Strung, Assumptions, LinkedListAssumption
<1>2. /\ t \in Seq(Nodes)
      /\ Len(t) = Len(s) - 1
      /\ \A k \in 1..Len(s) - 1 : t[k] = IF k < j THEN s[k] ELSE s[k + 1]
  BY <1>1, RemoveAtIs
<1> HIDE DEF t
<1>3. first2 = At(t, 1)
  BY <1>1, <1>2 DEF At, Strung
<1>0. \A m \in Nodes \ {s[j]} : nx[m] = IF m = At(s, j - 1) THEN At(s, j + 1) ELSE links[m]
  BY DEF Skips
<1>4. ASSUME NEW k \in 1..Len(t)
      PROVE  nx[t[k]] = At(t, k + 1)
  <2>0. k \in Nat \ {0}
    BY <1>1, <1>2
  <2>1. CASE k < j - 1
    <3>1. /\ t[k] = s[k] /\ t[k + 1] = s[k + 1] /\ k \in 1..Len(s) /\ k + 1 \in 1..Len(t)
          /\ k + 1 \in 1..Len(s) /\ j - 1 \in 1..Len(s)
      BY <1>1, <1>2, <2>0, <2>1
    <3>2. s[k] # At(s, j - 1) /\ s[k] # s[j]
      BY <1>1, <2>0, <2>1, <3>1 DEF At, Strung
    <3>3. nx[s[k]] = links[s[k]] /\ links[s[k]] = s[k + 1]
      BY <1>0, <1>1, <3>1, <3>2 DEF At, Strung
    <3>4. QED
      BY <3>1, <3>3 DEF At
  <2>2. CASE k = j - 1
    <3>1. t[k] = s[k] /\ k \in 1..Len(s) /\ At(s, j - 1) = s[k] /\ s[k] # s[j]
      BY <1>1, <1>2, <2>0, <2>2 DEF At, Strung
    <3>2. nx[s[k]] = At(s, j + 1)
      BY <1>0, <1>1, <3>1
    <3>3. At(t, k + 1) = At(s, j + 1)
      BY <1>1, <1>2, <2>0, <2>2 DEF At
    <3>4. QED
      BY <3>1, <3>2, <3>3
  <2>3. CASE k >= j
    <3>1. t[k] = s[k + 1] /\ k + 1 \in 1..Len(s)
      BY <1>1, <1>2, <2>0, <2>3
    <3>2. s[k + 1] # At(s, j - 1) /\ s[k + 1] # s[j]
      BY <1>1, <2>0, <2>3, <3>1 DEF At, Strung
    <3>3. nx[s[k + 1]] = links[s[k + 1]] /\ links[s[k + 1]] = At(s, k + 1 + 1)
      BY <1>0, <1>1, <3>1, <3>2 DEF Strung
    <3>4. At(t, k + 1) = At(s, k + 1 + 1)
      BY <1>1, <1>2, <2>0, <2>3 DEF At
    <3>5. QED
      BY <3>1, <3>3, <3>4
  <2>4. QED
    BY <1>1, <2>0, <2>1, <2>2, <2>3
<1> DEFINE Old(k) == IF k < j THEN k ELSE k + 1
<1>5. ASSUME NEW k \in 1..Len(t)
      PROVE  t[k] = s[Old(k)] /\ Old(k) \in 1..Len(s) /\ Old(k) # j
  BY <1>1, <1>2
<1>6. ASSUME NEW k \in 1..Len(t), NEW l \in 1..Len(t), t[k] = t[l]
      PROVE  k = l
  <2>1. Old(k) = Old(l)
    <3>1. /\ t[k] = s[Old(k)] /\ Old(k) \in 1..Len(s)
          /\ t[l] = s[Old(l)] /\ Old(l) \in 1..Len(s)
      BY <1>5
    <3> HIDE DEF Old
    <3>2. QED
      BY <1>6, <3>1 DEF Strung
  <2>2. k \in Int /\ l \in Int
    BY <1>2
  <2>3. QED
    BY <1>1, <2>1, <2>2
<1>7. ToSet(t) = ToSet(s) \ {s[j]}
  <2>0. DOMAIN t = 1..Len(t)
    BY <1>2, LenProperties
  <2>1. ASSUME NEW m \in ToSet(t)
        PROVE  m \in ToSet(s) \ {s[j]}
    <3>1. PICK k \in 1..Len(t) : m = t[k]
      BY <2>0, <2>1 DEF ToSet
    <3> HIDE DEF Old
    <3>2. QED
      BY <1>1, <1>5, <3>1 DEF ToSet, Strung
  <2>2. ASSUME NEW m \in ToSet(s) \ {s[j]}
        PROVE  m \in ToSet(t)
    <3>1. PICK k \in 1..Len(s) : m = s[k]
      BY <1>1 DEF ToSet
    <3>2. k # j /\ k \in Nat
      BY <1>1, <3>1
    <3>3. CASE k < j
      <4>1. k \in 1..Len(t) /\ t[k] = m
        BY <1>1, <1>2, <3>1, <3>2, <3>3
      <4>2. QED
        BY <2>0, <4>1 DEF ToSet
    <3>4. CASE k > j
      <4>1. k - 1 \in 1..Len(t) /\ t[k - 1] = s[(k - 1) + 1] /\ (k - 1) + 1 = k
        BY <1>1, <1>2, <3>1, <3>2, <3>4
      <4>2. QED
        BY <2>0, <3>1, <4>1 DEF ToSet
    <3>5. QED
      BY <1>1, <3>2, <3>3, <3>4
  <2>3. QED
    BY <2>1, <2>2
<1>8. QED
  BY <1>2, <1>3, <1>4, <1>6, <1>7 DEF Strung, t

LEMMA MirrorsWithout ==
  ASSUME Assumptions, NEW s, NEW first, NEW links, Strung(s, first, links),
         NEW j \in 1..Len(s), NEW back, Mirrors(s, back), NEW pv,
         \A m \in Nodes \ {s[j]} : pv[m] = IF m = At(s, j + 1) THEN At(s, j - 1) ELSE back[m]
  PROVE  Mirrors(RemoveAt(s, j), pv)
<1> DEFINE t == RemoveAt(s, j)
<1>1. /\ s \in Seq(Nodes) /\ Len(s) \in Nat /\ DOMAIN s = 1..Len(s) /\ j \in Nat \ {0}
      /\ \A k \in 1..Len(s) : s[k] \in Nodes /\ s[k] # Null
  BY LenProperties DEF Strung, Assumptions, LinkedListAssumption
<1>2. /\ Len(t) = Len(s) - 1
      /\ \A k \in 1..Len(s) - 1 : t[k] = IF k < j THEN s[k] ELSE s[k + 1]
  BY <1>1, RemoveAtIs
<1> HIDE DEF t
<1>3. ASSUME NEW k \in 1..Len(t)
      PROVE  pv[t[k]] = At(t, k - 1)
  <2>0. k \in Nat \ {0}
    BY <1>1, <1>2
  <2>1. CASE k < j
    <3>1. t[k] = s[k] /\ k \in 1..Len(s)
      BY <1>1, <1>2, <2>0, <2>1
    <3>2. s[k] # At(s, j + 1) /\ s[k] # s[j]
      BY <1>1, <2>0, <2>1, <3>1 DEF At, Strung
    <3>3. pv[s[k]] = back[s[k]] /\ back[s[k]] = At(s, k - 1)
      BY <1>1, <3>1, <3>2 DEF Mirrors
    <3>4. At(t, k - 1) = At(s, k - 1)
      BY <1>1, <1>2, <2>0, <2>1 DEF At
    <3>5. QED
      BY <3>1, <3>3, <3>4
  <2>2. CASE k = j
    <3>1. t[k] = s[k + 1] /\ k + 1 \in 1..Len(s)
      BY <1>1, <1>2, <2>0, <2>2
    <3>2. s[k + 1] # s[j] /\ At(s, j + 1) = s[k + 1]
      BY <1>1, <2>0, <2>2, <3>1 DEF At, Strung
    <3>3. At(t, k - 1) = At(s, j - 1)
      BY <1>1, <1>2, <2>0, <2>2 DEF At
    <3>4. QED
      BY <1>1, <3>1, <3>2, <3>3
  <2>3. CASE k > j
    <3>1. t[k] = s[k + 1] /\ k + 1 \in 1..Len(s)
      BY <1>1, <1>2, <2>0, <2>3
    <3>2. s[k + 1] # At(s, j + 1) /\ s[k + 1] # s[j]
      BY <1>1, <2>0, <2>3, <3>1 DEF At, Strung
    <3>3. pv[s[k + 1]] = back[s[k + 1]] /\ back[s[k + 1]] = At(s, k + 1 - 1)
      BY <1>1, <3>1, <3>2 DEF Mirrors
    <3>4. At(t, k - 1) = At(s, k + 1 - 1)
      BY <1>1, <1>2, <2>0, <2>3 DEF At
    <3>5. QED
      BY <3>1, <3>3, <3>4
  <2>4. QED
    BY <1>1, <2>0, <2>1, <2>2, <2>3
<1>4. QED
  BY <1>3 DEF Mirrors, t

-----------------------------------------------------------------------------
(* The clients along a chain.                                              *)
ClientsOf(s, cl) == [i \in 1..Len(s) |-> cl[s[i]]]

Values == Clients \cup {NoClient}

LEMMA ClientsAre ==
  ASSUME NEW s \in Seq(Nodes), NEW cl \in [Nodes -> Values]
  PROVE  /\ ClientsOf(s, cl) \in Seq(Values)
         /\ Len(ClientsOf(s, cl)) = Len(s)
         /\ \A i \in 1..Len(s) : ClientsOf(s, cl)[i] = cl[s[i]]
<1>1. Len(s) \in Nat /\ s \in [1..Len(s) -> Nodes]
  BY LenProperties
<1>2. QED
  BY <1>1 DEF ClientsOf

LEMMA ClientsWith ==
  ASSUME NEW s \in Seq(Nodes), NEW cl \in [Nodes -> Values], NEW cl2 \in [Nodes -> Values],
         NEW n \in Nodes, n \notin ToSet(s), NEW c \in Clients, NEW i \in 1..Len(s) + 1,
         \A m \in Nodes : cl2[m] = IF m = n THEN c ELSE cl[m]
  PROVE  ClientsOf(InsertAt(s, i, n), cl2) = InsertAt(ClientsOf(s, cl), i, c)
<1> DEFINE t == InsertAt(s, i, n)
           old == ClientsOf(s, cl)
           left == ClientsOf(t, cl2)
           right == InsertAt(old, i, c)
<1>1. /\ s \in Seq(Nodes) /\ Len(s) \in Nat /\ i \in Nat \ {0} /\ c \in Values
      /\ \A k \in 1..Len(s) : s[k] \in Nodes /\ s[k] # n
  BY LenProperties DEF ToSet, Values
<1> HIDE DEF old, left, right
<1>2. /\ t \in Seq(Nodes)
      /\ Len(t) = Len(s) + 1
      /\ \A k \in 1..Len(s) + 1 : t[k] = IF k < i THEN s[k] ELSE IF k = i THEN n ELSE s[k - 1]
  BY <1>1, InsertAtIs
<1> HIDE DEF t
<1>3. /\ left \in Seq(Values)
      /\ Len(left) = Len(t)
      /\ \A k \in 1..Len(t) : left[k] = cl2[t[k]]
  BY <1>2, ClientsAre DEF left
<1>4. /\ old \in Seq(Values)
      /\ Len(old) = Len(s)
      /\ \A k \in 1..Len(s) : old[k] = cl[s[k]]
  BY ClientsAre DEF old
<1>5. /\ right \in Seq(Values)
      /\ Len(right) = Len(s) + 1
      /\ \A k \in 1..Len(s) + 1 : right[k] = IF k < i THEN old[k] ELSE IF k = i THEN c ELSE old[k - 1]
  BY <1>1, <1>4, InsertAtIs DEF right
<1>6. ASSUME NEW k \in 1..Len(s) + 1
      PROVE  left[k] = right[k]
  <2>0. left[k] = cl2[t[k]]
    BY <1>2, <1>3
  <2>1. CASE k < i
    <3>1. k \in 1..Len(s) /\ t[k] = s[k] /\ right[k] = old[k]
      BY <1>1, <1>2, <1>5, <2>1
    <3>2. QED
      BY <1>1, <1>4, <2>0, <3>1
  <2>2. CASE k = i
    BY <1>1, <1>2, <1>5, <2>0, <2>2
  <2>3. CASE k > i
    <3>1. k - 1 \in 1..Len(s) /\ ~ k < i /\ k # i
      BY <1>1, <2>3
    <3>2. t[k] = s[k - 1] /\ right[k] = old[k - 1]
      BY <1>2, <1>5, <3>1
    <3>3. QED
      BY <1>1, <1>4, <2>0, <3>1, <3>2
  <2>4. QED
    BY <1>1, <2>1, <2>2, <2>3
<1>7. left = right
  BY <1>2, <1>3, <1>5, <1>6, SeqEqual
<1>8. QED
  BY <1>7 DEF left, right, t, old

(* The node of place j goes, and its client moves into the node of place i, *)
(* if that is another: the one before it.                                  *)
LEMMA ClientsWithout ==
  ASSUME Assumptions, NEW s, NEW first, NEW links, Strung(s, first, links),
         NEW cl \in [Nodes -> Values], NEW cl2 \in [Nodes -> Values],
         NEW i \in 1..Len(s), NEW j, j = IF i < Len(s) THEN i + 1 ELSE i,
         \A m \in Nodes \ {s[j]} : cl2[m] = IF m = s[i] THEN cl[s[j]] ELSE cl[m]
  PROVE  ClientsOf(RemoveAt(s, j), cl2) = RemoveAt(ClientsOf(s, cl), i)
<1> DEFINE t == RemoveAt(s, j)
           left == ClientsOf(t, cl2)
           right == RemoveAt(ClientsOf(s, cl), i)
<1>1. /\ s \in Seq(Nodes) /\ Len(s) \in Nat /\ i \in Nat \ {0} /\ j \in 1..Len(s) /\ j \in Nat \ {0}
      /\ \A k \in 1..Len(s) : s[k] \in Nodes
  BY LenProperties DEF Strung
<1>2. /\ t \in Seq(Nodes)
      /\ Len(t) = Len(s) - 1
      /\ \A k \in 1..Len(s) - 1 : t[k] = IF k < j THEN s[k] ELSE s[k + 1]
  BY <1>1, RemoveAtIs
<1> HIDE DEF t
<1>3. /\ left \in Seq(Values)
      /\ Len(left) = Len(s) - 1
      /\ \A k \in 1..Len(s) - 1 : left[k] = cl2[t[k]]
  <2>1. /\ left \in Seq(Values)
        /\ Len(left) = Len(t)
        /\ \A k \in 1..Len(t) : left[k] = cl2[t[k]]
    BY <1>2, ClientsAre
  <2> HIDE DEF left
  <2>2. QED
    BY <1>2, <2>1
<1>4. /\ ClientsOf(s, cl) \in Seq(Values)
      /\ Len(ClientsOf(s, cl)) = Len(s)
      /\ \A k \in 1..Len(s) : ClientsOf(s, cl)[k] = cl[s[k]]
  BY <1>1, ClientsAre
<1>5. /\ right \in Seq(Values)
      /\ Len(right) = Len(s) - 1
      /\ \A k \in 1..Len(s) - 1 :
           right[k] = IF k < i THEN ClientsOf(s, cl)[k] ELSE ClientsOf(s, cl)[k + 1]
  BY <1>1, <1>4, RemoveAtIs
<1>6. ASSUME NEW k \in 1..Len(s) - 1
      PROVE  left[k] = right[k]
  <2> HIDE DEF left, right
  <2>0. k \in Nat \ {0} /\ k \in 1..Len(s) /\ k + 1 \in 1..Len(s)
    BY <1>1
  <2>1. CASE k < i
    <3>1. t[k] = s[k] /\ s[k] # s[j] /\ s[k] # s[i]
      BY <1>1, <1>2, <2>0, <2>1 DEF Strung
    <3>2. QED
      BY <1>1, <1>3, <1>4, <1>5, <2>0, <2>1, <3>1
  <2>2. CASE k = i
    <3>1. t[k] = s[i] /\ s[i] # s[j] /\ j = k + 1
      BY <1>1, <1>2, <2>0, <2>2 DEF Strung
    <3>2. QED
      BY <1>1, <1>3, <1>4, <1>5, <2>0, <2>2, <3>1
  <2>3. CASE k > i
    <3>1. t[k] = s[k + 1] /\ s[k + 1] # s[j] /\ s[k + 1] # s[i]
      BY <1>1, <1>2, <2>0, <2>3 DEF Strung
    <3>2. QED
      BY <1>1, <1>3, <1>4, <1>5, <2>0, <2>3, <3>1
  <2>4. QED
    BY <1>1, <2>0, <2>1, <2>2, <2>3
<1> HIDE DEF left, right
<1>7. left = right
  BY <1>3, <1>5, <1>6, SeqEqual
<1>8. QED
  BY <1>7 DEF left, right, t

-----------------------------------------------------------------------------
(* The itemAmount arithmetic.                                              *)
LEMMA ModuloShift ==
  ASSUME NEW M \in Nat \ {0}, NEW x \in Nat
  PROVE  (x + M) % M = x % M
<1>1. ASSUME NEW q, NEW r, q = x \div M, r = x % M
      PROVE  (x + M) % M = r
  <2>1. x = M * q + r /\ q \in Nat /\ r \in 0..M - 1
    BY <1>1
  <2>2. x + M = M * (q + 1) + r
    BY <2>1
  <2>3. QED
    BY <2>1, <2>2
<1>2. QED
  BY <1>1

LEMMA UpKeepsUp ==
  ASSUME NEW M \in Nat \ {0}, NEW a \in 0..M - 1, NEW l \in Nat
  PROVE  (((a + 1) % M) + l) % M = (a + (l + 1)) % M
<1>1. CASE a + 1 < M
  <2>1. (a + 1) % M = a + 1
    BY <1>1
  <2>2. QED
    BY <2>1
<1>2. CASE a + 1 = M
  <2>1. (a + 1) % M = 0
    BY <1>2, ModuloShift, 0 % M = 0
  <2>2. a + (l + 1) = l + M /\ 0 + l = l
    BY <1>2
  <2>3. (l + M) % M = l % M
    BY ModuloShift
  <2>4. QED
    BY <2>1, <2>2, <2>3
<1>3. QED
  BY <1>1, <1>2

LEMMA DownKeepsUp ==
  ASSUME NEW M \in Nat \ {0}, NEW a \in 0..M - 1, NEW l \in Nat \ {0}
  PROVE  (((a + M - 1) % M) + l) % M = (a + (l - 1)) % M
<1>1. CASE a = 0
  <2>1. (a + M - 1) % M = M - 1
    BY <1>1
  <2>2. ASSUME NEW x \in Nat, x = l - 1
        PROVE  (M - 1 + l) % M = x % M
    <3>1. (x + M) % M = x % M
      BY ModuloShift
    <3>2. M - 1 + l = x + M
      BY <2>2
    <3>3. QED
      BY <3>1, <3>2
  <2>3. l - 1 \in Nat /\ a + (l - 1) = l - 1
    BY <1>1
  <2>4. QED
    BY <2>1, <2>2, <2>3
<1>2. CASE a > 0
  <2>1. ASSUME NEW x \in Nat, x = a - 1
        PROVE  (a + M - 1) % M = x
    <3>1. (x + M) % M = x % M
      BY ModuloShift
    <3>2. a + M - 1 = x + M /\ x % M = x
      BY <2>1
    <3>3. QED
      BY <3>1, <3>2
  <2>2. a - 1 \in Nat /\ a - 1 + l = a + (l - 1)
    BY <1>2
  <2>3. QED
    BY <2>1, <2>2
<1>3. QED
  BY <1>1, <1>2

-----------------------------------------------------------------------------
(* The invariant: prev may be wrong once linkedList_Pop has been called, the *)
(* rest is the list's own.                                                 *)
ListInv ==
  /\ TypeOK
  /\ Strung(Chain, firstItem, next)
  /\ InChain = alive
  /\ popped \/ Mirrors(Chain, prev)
  /\ magic \/ firstItem = Null
  /\ magic \/ itemAmount = 0
  /\ IteratorsLive

(* What the invariant says of the chain, in the terms its proof needs.     *)
LEMMA ChainFacts ==
  ASSUME Assumptions, ListInv
  PROVE  /\ Chain \in Seq(Nodes) /\ Len(Chain) \in Nat /\ DOMAIN Chain = 1..Len(Chain)
         /\ next \in [Nodes -> OrNull] /\ client \in [Nodes -> Values]
         /\ ClientSequence = ClientsOf(Chain, client)
         /\ \A i \in 1..Len(Chain) : Chain[i] \in alive /\ Chain[i] \in Nodes /\ Chain[i] # Null
         /\ \A n \in alive : \E i \in 1..Len(Chain) : n = Chain[i]
         /\ firstItem = Null <=> Len(Chain) = 0
         /\ \A i \in 1..Len(Chain) : At(Chain, i) = Chain[i]
         /\ At(Chain, 0) = Null /\ At(Chain, Len(Chain) + 1) = Null
<1>1. Chain \in Seq(Nodes) /\ Len(Chain) \in Nat /\ DOMAIN Chain = 1..Len(Chain)
  BY LenProperties DEF ListInv, Strung
<1>2. next \in [Nodes -> OrNull] /\ client \in [Nodes -> Values]
  BY DEF ListInv, TypeOK, OrNull, Values
<1>3. ClientSequence = ClientsOf(Chain, client)
  BY <1>1 DEF ClientSequence, ClientsOf
<1>4. \A i \in 1..Len(Chain) : Chain[i] \in alive /\ Chain[i] \in Nodes /\ Chain[i] # Null
  BY <1>1 DEF ListInv, InChain, ToSet, Assumptions, LinkedListAssumption
<1>5. \A n \in alive : \E i \in 1..Len(Chain) : n = Chain[i]
  BY <1>1 DEF ListInv, InChain, ToSet
<1>6. /\ \A i \in 1..Len(Chain) : At(Chain, i) = Chain[i]
      /\ At(Chain, 0) = Null /\ At(Chain, Len(Chain) + 1) = Null
  BY <1>1 DEF At
<1>7. firstItem = Null <=> Len(Chain) = 0
  <2>1. firstItem = At(Chain, 1)
    BY DEF ListInv, Strung
  <2>2. QED
    BY <1>1, <1>4, <2>1 DEF At
<1>8. QED
  BY <1>1, <1>2, <1>3, <1>4, <1>5, <1>6, <1>7

(* A chain that is strung after a step is the chain after it.              *)
LEMMA ChainFollows ==
  ASSUME Assumptions, next' \in [Nodes -> OrNull], NEW t, Strung(t, firstItem', next')
  PROVE  Chain' = t
BY ChainIs DEF Chain

LEMMA ChainKept ==
  ASSUME UNCHANGED <<next, firstItem>>
  PROVE  Chain' = Chain
BY DEF Chain

(* What inserting a node does to the list.                                 *)
LEMMA LinkStep ==
  ASSUME Assumptions, ListInv, magic, NEW i \in 1..Len(Chain) + 1,
         NEW n \in Nodes \ alive, NEW c \in Clients,
         Link(n, c, At(Chain, i - 1), At(Chain, i)), itemAmount' \in 0..Amounts - 1
  PROVE  /\ ListInv'
         /\ Len(Chain') = Len(Chain) + 1
         /\ ClientSequence' = InsertAt(ClientSequence, i, c)
<1> DEFINE t == InsertAt(Chain, i, n)
<1>1. /\ Chain \in Seq(Nodes) /\ Len(Chain) \in Nat /\ DOMAIN Chain = 1..Len(Chain)
      /\ next \in [Nodes -> OrNull] /\ client \in [Nodes -> Values]
      /\ ClientSequence = ClientsOf(Chain, client)
      /\ Strung(Chain, firstItem, next) /\ n \notin ToSet(Chain) /\ n \in Nodes /\ n # Null
  BY ChainFacts DEF ListInv, InChain, Assumptions, LinkedListAssumption
<1>2. At(Chain, i - 1) \in OrNull /\ At(Chain, i) \in OrNull
  BY <1>1 DEF At, OrNull
<1>3. /\ alive' = alive \cup {n}
      /\ client' \in [Nodes -> Values]
      /\ \A m \in Nodes : client'[m] = IF m = n THEN c ELSE client[m]
      /\ next' \in [Nodes -> OrNull]
      /\ \A m \in Nodes : next'[m] = IF m = n THEN At(Chain, i) ELSE IF m = At(Chain, i - 1) THEN n ELSE next[m]
      /\ firstItem' = IF At(Chain, i - 1) = Null THEN n ELSE firstItem
  BY <1>1, <1>2 DEF Link, Values, OrNull
<1>4. /\ prev' \in [Nodes -> OrNull]
      /\ \A m \in Nodes : prev'[m] = IF m = n THEN At(Chain, i - 1) ELSE IF m = At(Chain, i) THEN n ELSE prev[m]
  BY <1>1, <1>2 DEF ListInv, TypeOK, Link, OrNull
<1>5. Strung(t, firstItem', next') /\ ToSet(t) = ToSet(Chain) \cup {n}
  BY <1>1, <1>3, StrungWith
<1>6. Chain' = t
  BY <1>3, <1>5, ChainFollows
<1>7. InChain' = alive'
  BY <1>3, <1>5, <1>6 DEF ListInv, InChain
<1>8. popped' \/ Mirrors(Chain', prev')
  <2>1. CASE popped
    BY <2>1 DEF Link
  <2>2. CASE Mirrors(Chain, prev)
    BY <1>1, <1>4, <1>6, <2>2, MirrorsWith
  <2>3. QED
    BY <2>1, <2>2 DEF ListInv
<1>9. TypeOK'
  BY <1>1, <1>3, <1>4 DEF ListInv, TypeOK, Link, OrNull, Values, cursors
<1>10. IteratorsLive'
  BY <1>3 DEF ListInv, IteratorsLive, Link, cursors
<1>11. Len(Chain') = Len(Chain) + 1
  BY <1>1, <1>6, InsertAtIs
<1>12. ClientSequence' = InsertAt(ClientSequence, i, c)
  <2>1. DOMAIN Chain' = 1..Len(Chain')
    BY <1>5, <1>6, LenProperties DEF Strung
  <2>2. ClientSequence' = ClientsOf(Chain', client')
    BY <2>1 DEF ClientSequence, ClientsOf
  <2>3. ClientsOf(t, client') = InsertAt(ClientsOf(Chain, client), i, c)
    BY <1>1, <1>3, ClientsWith
  <2>4. QED
    BY <1>1, <1>6, <2>2, <2>3
<1>13. magic'
  BY DEF Link
<1>14. QED
  BY <1>5, <1>6, <1>7, <1>8, <1>9, <1>10, <1>11, <1>12, <1>13 DEF ListInv

(* The node that goes when the client of place i does: the next one, whose  *)
(* client moves, or the last one.                                          *)
Goes(i) == IF i < Len(Chain) THEN i + 1 ELSE i

(* What linkedList_Pop and linkedList_Delete have in common.               *)
Unlink(i) ==
  /\ alive' = alive \ {Chain[Goes(i)]}
  /\ next' \in [Nodes -> OrNull]
  /\ client' \in [Nodes -> Values]
  /\ \A m \in Nodes \ {Chain[Goes(i)]} :
       /\ next'[m] = IF m = At(Chain, Goes(i) - 1) THEN At(Chain, Goes(i) + 1) ELSE next[m]
       /\ client'[m] = IF m = Chain[i] THEN client[Chain[Goes(i)]] ELSE client[m]
  /\ firstItem' = IF Len(Chain) = 1 THEN Null ELSE firstItem

LEMMA UnlinkStep ==
  ASSUME Assumptions, ListInv, NEW i \in 1..Len(Chain), Unlink(i)
  PROVE  /\ Chain' = RemoveAt(Chain, Goes(i))
         /\ Strung(Chain', firstItem', next')
         /\ InChain' = alive'
         /\ Len(Chain') = Len(Chain) - 1
         /\ ClientSequence' = RemoveAt(ClientSequence, i)
<1> DEFINE j == Goes(i)
           t == RemoveAt(Chain, j)
<1>1. /\ Chain \in Seq(Nodes) /\ Len(Chain) \in Nat /\ DOMAIN Chain = 1..Len(Chain)
      /\ client \in [Nodes -> Values] /\ client' \in [Nodes -> Values]
      /\ next' \in [Nodes -> OrNull]
      /\ ClientSequence = ClientsOf(Chain, client)
      /\ Strung(Chain, firstItem, next)
  BY ChainFacts DEF ListInv, Unlink
<1>2. j \in 1..Len(Chain) /\ (j = 1 => Len(Chain) = 1) /\ j = IF i < Len(Chain) THEN i + 1 ELSE i
  BY <1>1 DEF Goes
<1>3. /\ \A m \in Nodes \ {Chain[j]} :
           /\ next'[m] = IF m = At(Chain, j - 1) THEN At(Chain, j + 1) ELSE next[m]
           /\ client'[m] = IF m = Chain[i] THEN client[Chain[j]] ELSE client[m]
      /\ firstItem' = IF Len(Chain) = 1 THEN Null ELSE firstItem
      /\ alive' = alive \ {Chain[j]}
  BY DEF Unlink
<1> HIDE DEF j
<1>4. Strung(t, firstItem', next') /\ ToSet(t) = ToSet(Chain) \ {Chain[j]}
  <2>1. Skips(Chain, j, next, next')
    BY <1>3 DEF Skips
  <2>2. Strung(Chain, firstItem, next) /\ j \in 1..Len(Chain) /\ (j = 1 => Len(Chain) = 1)
    BY <1>1, <1>2
  <2>3. firstItem' = IF Len(Chain) = 1 THEN Null ELSE firstItem
    BY <1>3
  <2>4. QED
    BY <2>1, <2>2, <2>3, StrungWithout
<1>5. Chain' = t
  BY <1>1, <1>4, ChainFollows
<1>6. InChain' = alive'
  BY <1>3, <1>4, <1>5 DEF ListInv, InChain
<1>7. Len(Chain') = Len(Chain) - 1
  BY <1>1, <1>2, <1>5, RemoveAtIs
<1>8. ClientSequence' = RemoveAt(ClientSequence, i)
  <2>1. DOMAIN Chain' = 1..Len(Chain')
    BY <1>4, <1>5, LenProperties DEF Strung
  <2>2. ClientSequence' = ClientsOf(Chain', client')
    BY <2>1 DEF ClientSequence, ClientsOf
  <2>3. ClientsOf(t, client') = RemoveAt(ClientsOf(Chain, client), i)
    BY <1>1, <1>2, <1>3, ClientsWithout
  <2>4. QED
    BY <1>1, <1>5, <2>2, <2>3
<1>9. QED
  BY <1>4, <1>5, <1>6, <1>7, <1>8 DEF j

-----------------------------------------------------------------------------
(* The operations, one after another.                                      *)
LEMMA InitInv ==
  ASSUME Assumptions, Init
  PROVE  ListInv /\ ClientSequence = <<>>
<1>1. /\ <<>> \in Seq(Nodes) /\ Len(<<>>) = 0 /\ ToSet(<<>>) = {}
      /\ next \in [Nodes -> OrNull] /\ prev \in [Nodes -> OrNull]
  BY DEF Init, Empty, OrNull, ToSet
<1>2. Strung(<<>>, firstItem, next)
  BY <1>1 DEF Strung, At, Init
<1>3. Chain = <<>>
  BY <1>1, <1>2, ChainIs DEF Chain
<1>4. Mirrors(<<>>, prev)
  BY <1>1 DEF Mirrors
<1>5. TypeOK
  <2>1. /\ client \in [Nodes -> Clients \cup {NoClient}]
        /\ next \in [Nodes -> Nodes \cup {Null}]
        /\ prev \in [Nodes -> Nodes \cup {Null}]
    BY DEF Init, Empty
  <2>2. itemAmount \in 0..Amounts - 1
    BY DEF Init, Assumptions, LinkedListAssumption
  <2>3. QED
    BY <2>1, <2>2 DEF Init, TypeOK
<1>6. IteratorsLive
  BY DEF Init, IteratorsLive
<1>7. ClientSequence = <<>>
  BY <1>3 DEF ClientSequence
<1>8. QED
  BY <1>1, <1>2, <1>3, <1>4, <1>5, <1>6, <1>7 DEF ListInv, InChain, Init

LEMMA AmountWraps ==
  ASSUME Assumptions, itemAmount \in 0..Amounts - 1
  PROVE  /\ Up(itemAmount) \in 0..Amounts - 1
         /\ Down(itemAmount) \in 0..Amounts - 1
BY DEF Up, Down, Assumptions, LinkedListAssumption

LEMMA LastIsLast ==
  ASSUME Assumptions, ListInv
  PROVE  LastNode = At(Chain, Len(Chain))
<1>1. Chain \in Seq(Nodes) /\ Len(Chain) \in Nat /\ (Chain = <<>> <=> Len(Chain) = 0)
  BY ChainFacts, EmptySeq
<1>2. QED
  BY <1>1 DEF LastNode, Last, At

LEMMA AppendStep ==
  ASSUME Assumptions, ListInv, magic, NEW n \in Nodes \ alive, NEW c \in Clients,
         Link(n, c, LastNode, Null), itemAmount' \in 0..Amounts - 1
  PROVE  /\ ListInv'
         /\ Len(Chain') = Len(Chain) + 1
         /\ \E i \in 1..Len(Chain) + 1 : ClientSequence' = InsertAt(ClientSequence, i, c)
<1>1. /\ Len(Chain) \in Nat
      /\ LastNode = At(Chain, Len(Chain)) /\ Null = At(Chain, Len(Chain) + 1)
  BY ChainFacts, LastIsLast
<1>2. PICK i \in 1..Len(Chain) + 1 : i = Len(Chain) + 1
  BY <1>1
<1>3. i - 1 = Len(Chain)
  BY <1>1, <1>2
<1>4. Link(n, c, At(Chain, i - 1), At(Chain, i))
  BY <1>1, <1>2, <1>3
<1>5. QED
  BY <1>4, LinkStep

LEMMA PushStep ==
  ASSUME Assumptions, ListInv, NEW n \in Nodes \ alive, NEW c \in Clients, Push(n, c)
  PROVE  /\ ListInv'
         /\ Len(Chain') = Len(Chain) + 1 /\ itemAmount' = Up(itemAmount)
         /\ \E i \in 1..Len(Chain) + 1 : ClientSequence' = InsertAt(ClientSequence, i, c)
BY AppendStep, AmountWraps DEF Push, ListInv, TypeOK

LEMMA InsertBeforeStep ==
  ASSUME Assumptions, ListInv, NEW n \in Nodes \ alive, NEW c \in Clients, NEW b,
         InsertBefore(n, c, b)
  PROVE  /\ ListInv'
         /\ Len(Chain') = Len(Chain) + 1 /\ itemAmount' = Up(itemAmount)
         /\ \E i \in 1..Len(Chain) + 1 : ClientSequence' = InsertAt(ClientSequence, i, c)
<1>1. magic /\ itemAmount' = Up(itemAmount) /\ itemAmount' \in 0..Amounts - 1
  BY AmountWraps DEF InsertBefore, ListInv, TypeOK
<1>2. CASE b \notin InChain
  BY <1>1, <1>2, AppendStep DEF InsertBefore
<1>3. CASE b \in InChain
  <2> DEFINE found == CHOOSE i \in DOMAIN Chain : Chain[i] = b
  <2>1. found \in DOMAIN Chain /\ Chain[found] = b
    BY <1>3 DEF InChain, ToSet
  <2>2. Link(n, c, IF found = 1 THEN Null ELSE Chain[found - 1], b)
    BY <1>3 DEF InsertBefore
  <2> HIDE DEF found
  <2>3. Len(Chain) \in Nat /\ found \in 1..Len(Chain)
    BY <2>1, ChainFacts
  <2>4. (IF found = 1 THEN Null ELSE Chain[found - 1]) = At(Chain, found - 1) /\ b = At(Chain, found)
    BY <2>1, <2>3 DEF At
  <2>5. found \in 1..Len(Chain) + 1
    BY <2>3
  <2>6. QED
    BY <1>1, <2>2, <2>4, <2>5, LinkStep
<1>4. QED
  BY <1>2, <1>3

LEMMA InsertAfterStep ==
  ASSUME Assumptions, ListInv, NEW n \in Nodes \ alive, NEW c \in Clients, NEW a,
         InsertAfter(n, c, a)
  PROVE  /\ ListInv'
         /\ Len(Chain') = Len(Chain) + 1 /\ (a \notin InChain => itemAmount' = Up(itemAmount))
         /\ \E i \in 1..Len(Chain) + 1 : ClientSequence' = InsertAt(ClientSequence, i, c)
<1>1. magic /\ itemAmount' \in 0..Amounts - 1 /\ (a \notin InChain => itemAmount' = Up(itemAmount))
  BY AmountWraps DEF InsertAfter, ListInv, TypeOK
<1>2. CASE a \notin InChain
  BY <1>1, <1>2, AppendStep DEF InsertAfter
<1>3. CASE a \in InChain
  <2>1. PICK k \in DOMAIN Chain : Chain[k] = a
    BY <1>3 DEF InChain, ToSet
  <2>2. Link(n, c, a, next[a])
    BY <1>3 DEF InsertAfter
  <2>3. Len(Chain) \in Nat /\ k \in 1..Len(Chain)
    BY <2>1, ChainFacts
  <2>4. PICK i \in 1..Len(Chain) + 1 : i = k + 1
    BY <2>3
  <2>5. i - 1 = k
    BY <2>3, <2>4
  <2>6. a = At(Chain, i - 1) /\ next[a] = At(Chain, i)
    BY <2>1, <2>3, <2>4, <2>5 DEF At, ListInv, Strung
  <2>7. QED
    BY <1>1, <2>2, <2>6, LinkStep
<1>4. QED
  BY <1>2, <1>3

LEMMA PopStep ==
  ASSUME Assumptions, ListInv, Pop
  PROVE  /\ ListInv'
         /\ Len(Chain) \in Nat \ {0} /\ Len(Chain') = Len(Chain) - 1 /\ itemAmount' = Down(itemAmount)
         /\ ClientSequence # <<>> /\ ClientSequence' = Tail(ClientSequence)
<1>1. /\ Chain \in Seq(Nodes) /\ Len(Chain) \in Nat \ {0} /\ 1 \in 1..Len(Chain)
      /\ next \in [Nodes -> OrNull] /\ client \in [Nodes -> Values] /\ prev \in [Nodes -> OrNull]
      /\ Null \notin Nodes /\ NoClient \in Values /\ Null \in OrNull
  BY ChainFacts DEF Pop, ListInv, TypeOK, Assumptions, LinkedListAssumption, OrNull, Values
<1>2. /\ firstItem = Chain[1] /\ firstItem \in Nodes /\ next[firstItem] = At(Chain, 2)
      /\ next[firstItem] \in OrNull
  BY <1>1, ChainFacts DEF ListInv, Strung, At
<1>3. /\ Unlink(1)
      /\ prev' \in [Nodes -> OrNull]
  <2>1. CASE next[firstItem] # Null
    <3>1. Len(Chain) > 1 /\ next[firstItem] = Chain[2] /\ 2 \in 1..Len(Chain)
      BY <1>1, <1>2, <2>1 DEF At
    <3>2. /\ Goes(1) = 2 /\ At(Chain, Goes(1) - 1) = Chain[1] /\ At(Chain, Goes(1) + 1) = next[Chain[2]]
          /\ Chain[2] \in Nodes /\ Chain[2] # Chain[1] /\ next[Chain[2]] \in OrNull
      BY <1>1, <3>1 DEF Goes, At, ListInv, Strung
    <3>3. /\ Free(Chain[2], [client EXCEPT ![Chain[1]] = client[Chain[2]]],
                             [next EXCEPT ![Chain[1]] = next[Chain[2]]],
                             [prev EXCEPT ![Chain[1]] = Null])
          /\ firstItem' = firstItem
      BY <1>2, <2>1, <3>1 DEF Pop
    <3>4. client' \in [Nodes -> Values] /\ next' \in [Nodes -> OrNull] /\ prev' \in [Nodes -> OrNull]
      BY <1>1, <1>2, <3>2, <3>3 DEF Free
    <3>5. \A m \in Nodes \ {Chain[2]} :
            /\ next'[m] = IF m = Chain[1] THEN next[Chain[2]] ELSE next[m]
            /\ client'[m] = IF m = Chain[1] THEN client[Chain[2]] ELSE client[m]
      BY <1>1, <3>3 DEF Free
    <3>6. alive' = alive \ {Chain[2]} /\ firstItem' = IF Len(Chain) = 1 THEN Null ELSE firstItem
      BY <3>1, <3>3 DEF Free
    <3>7. QED
      BY <3>2, <3>4, <3>5, <3>6 DEF Unlink
  <2>2. CASE next[firstItem] = Null
    <3>1. Len(Chain) = 1
      BY <1>1, <1>2, <2>2, ChainFacts DEF At
    <3>2. Goes(1) = 1 /\ At(Chain, Goes(1) - 1) = Null
      BY <3>1 DEF Goes, At
    <3>3. Free(firstItem, client, next, prev) /\ firstItem' = Null
      BY <2>2 DEF Pop
    <3>4. client' \in [Nodes -> Values] /\ next' \in [Nodes -> OrNull] /\ prev' \in [Nodes -> OrNull]
      BY <1>1, <3>3 DEF Free
    <3>5. \A m \in Nodes \ {Chain[1]} : next'[m] = next[m] /\ client'[m] = client[m] /\ m # Null /\ m # Chain[1]
      BY <1>1, <1>2, <3>3 DEF Free
    <3>6. alive' = alive \ {Chain[1]}
      BY <1>2, <3>3 DEF Free
    <3>7. QED
      BY <3>1, <3>2, <3>3, <3>4, <3>5, <3>6 DEF Unlink
  <2>3. QED
    BY <2>1, <2>2
<1>4. /\ Strung(Chain', firstItem', next')
      /\ InChain' = alive'
      /\ Len(Chain') = Len(Chain) - 1
      /\ ClientSequence' = RemoveAt(ClientSequence, 1)
  BY <1>1, <1>3, UnlinkStep
<1>5. ClientSequence # <<>> /\ ClientSequence' = Tail(ClientSequence)
  <2>1. ClientSequence = ClientsOf(Chain, client)
    BY ChainFacts
  <2>2. ClientSequence \in Seq(Values) /\ Len(ClientSequence) = Len(Chain)
    BY <1>1, <2>1, ClientsAre
  <2>3. ClientSequence # <<>>
    BY <1>1, <2>2, EmptySeq
  <2>4. QED
    BY <1>4, <2>2, <2>3, TailRemovesFirst
<1>6. firstItem' \in alive' \cup {Null}
  BY <1>1, <1>4 DEF Strung, At, ToSet, InChain
<1>7. TypeOK'
  <2>1. itemAmount' \in 0..Amounts - 1
    BY AmountWraps DEF Pop, ListInv, TypeOK
  <2>2. QED
    BY <1>3, <1>6, <2>1 DEF Unlink, Pop, ListInv, TypeOK, OrNull, Values, Announce, cursors
<1>8. IteratorsLive' /\ popped' /\ magic'
  BY DEF Pop, IteratorsLive, Announce
<1>9. QED
  BY <1>1, <1>4, <1>5, <1>7, <1>8 DEF ListInv, Pop

(* linkedList_Delete stops at the first node that holds the client.        *)
LEMMA PositionIsFirst ==
  ASSUME Assumptions, ListInv, NEW c, Holds(c)
  PROVE  /\ Position(c) \in 1..Len(Chain)
         /\ client[Chain[Position(c)]] = c
         /\ \A j \in 1..Position(c) - 1 : client[Chain[j]] # c
<1> DEFINE Places == {i \in 1..Len(Chain) : client[Chain[i]] = c}
<1>1. Len(Chain) \in Nat /\ DOMAIN Chain = 1..Len(Chain)
  BY ChainFacts
<1>2. Places # {}
  BY <1>1 DEF Holds, InChain, ToSet
<1>3. PICK i \in Places : \A j \in Places : i <= j
  <2>1. Places \in SUBSET Nat
    BY <1>1
  <2> HIDE DEF Places
  <2>2. QED
    BY <1>2, <2>1, LeastNumber
<1>4. /\ i \in DOMAIN Chain /\ client[Chain[i]] = c
      /\ \A j \in 1..i - 1 : client[Chain[j]] # c
  BY <1>1, <1>3
<1> DEFINE First(k) == client[Chain[k]] = c /\ \A j \in 1..k - 1 : client[Chain[j]] # c
<1>5. Position(c) = CHOOSE k \in DOMAIN Chain : First(k)
  BY DEF Position
<1>6. \E k \in DOMAIN Chain : First(k)
  BY <1>4
<1>7. Position(c) \in DOMAIN Chain /\ First(Position(c))
  <2> HIDE DEF First
  <2>1. QED
    BY <1>5, <1>6
<1>8. QED
  BY <1>1, <1>7

(* prev mirrors next after linkedList_Delete, and its cursor follows.      *)
DeleteAt(i) ==
  /\ Unlink(i)
  /\ prev' \in [Nodes -> OrNull]
  /\ \A m \in Nodes \ {Chain[Goes(i)]} :
       prev'[m] = IF m = At(Chain, Goes(i) + 1) THEN At(Chain, Goes(i) - 1) ELSE prev[m]
  /\ current_iterator' = CursorAfter(Chain[Goes(i)], IF i < Len(Chain) THEN Chain[i] ELSE Null)

LEMMA DeleteIsAt ==
  ASSUME Assumptions, ListInv, NEW c \in Clients, Delete(c)
  PROVE  DeleteAt(Position(c))
<1> DEFINE i == Position(c)
<1>1. /\ Len(Chain) \in Nat \ {0} /\ i \in 1..Len(Chain) /\ i \in Nat \ {0} /\ Chain \in Seq(Nodes)
      /\ next \in [Nodes -> OrNull] /\ client \in [Nodes -> Values] /\ prev \in [Nodes -> OrNull]
      /\ Null \notin Nodes /\ NoClient \in Values /\ Null \in OrNull
      /\ Chain[i] \in Nodes /\ Chain[i] # Null
      /\ firstItem = Chain[1]
  <2>1. i \in 1..Len(Chain) /\ Len(Chain) \in Nat
    BY PositionIsFirst, ChainFacts DEF Delete
  <2>2. firstItem = Chain[1]
    BY <2>1 DEF ListInv, Strung, At
  <2>3. Len(Chain) \in Nat \ {0} /\ i \in Nat \ {0}
    BY <2>1
  <2> HIDE DEF i
  <2>4. QED
    BY <2>1, <2>2, <2>3, ChainFacts DEF ListInv, TypeOK, Assumptions, LinkedListAssumption, OrNull, Values
<1>2. next[Chain[i]] = At(Chain, i + 1)
  BY <1>1 DEF ListInv, Strung
<1>3. CASE next[Chain[i]] # Null
  <2> DEFINE gone == Chain[i + 1]
  <2>1. i < Len(Chain) /\ i + 1 \in 1..Len(Chain) /\ next[Chain[i]] = gone
    BY <1>1, <1>2, <1>3 DEF At
  <2>2. /\ Goes(i) = i + 1 /\ At(Chain, Goes(i) - 1) = Chain[i] /\ At(Chain, Goes(i) + 1) = next[gone]
        /\ gone \in Nodes /\ gone # Chain[i] /\ next[gone] \in OrNull
    BY <1>1, <2>1 DEF Goes, At, ListInv, Strung
  <2>3. /\ Free(gone, [client EXCEPT ![Chain[i]] = client[gone]],
                       [next EXCEPT ![Chain[i]] = next[gone]],
                       IF next[gone] = Null THEN prev ELSE [prev EXCEPT ![next[gone]] = Chain[i]])
        /\ current_iterator' = CursorAfter(gone, Chain[i])
        /\ firstItem' = firstItem
    BY <1>3, <2>1 DEF Delete
  <2> HIDE DEF gone, i
  <2>4. client' \in [Nodes -> Values] /\ next' \in [Nodes -> OrNull]
    BY <1>1, <2>2, <2>3 DEF Free
  <2>5. \A m \in Nodes \ {gone} :
          /\ next'[m] = IF m = Chain[i] THEN next[gone] ELSE next[m]
          /\ client'[m] = IF m = Chain[i] THEN client[gone] ELSE client[m]
    BY <1>1, <2>3 DEF Free
  <2>6. alive' = alive \ {gone} /\ firstItem' = IF Len(Chain) = 1 THEN Null ELSE firstItem
    <3>1. Len(Chain) # 1
      <4>1. i \in Nat \ {0} /\ Len(Chain) \in Nat /\ i < Len(Chain)
        BY <1>1, <2>1, Zenon
      <4>2. QED
        BY <4>1, SMTT(30)
    <3>2. QED
      BY <2>3, <3>1 DEF Free
  <2>7. /\ prev' \in [Nodes -> OrNull]
        /\ \A m \in Nodes \ {gone} : prev'[m] = IF m = next[gone] THEN Chain[i] ELSE prev[m]
    <3>1. CASE next[gone] = Null
      BY <1>1, <2>3, <3>1 DEF Free
    <3>2. CASE next[gone] # Null
      <4>1. next[gone] \in Nodes /\ Chain[i] \in OrNull
        BY <1>1, <2>2, <3>2 DEF OrNull
      <4>2. QED
        BY <1>1, <2>3, <3>2, <4>1 DEF Free
    <3>3. QED
      BY <3>1, <3>2
  <2>8. Chain[Goes(i)] = gone
    BY <2>2 DEF gone
  <2>9. Unlink(i)
    BY <2>2, <2>4, <2>5, <2>6, <2>8 DEF Unlink
  <2>10. QED
    BY <2>1, <2>2, <2>3, <2>7, <2>8, <2>9 DEF DeleteAt, i
<1>4. CASE next[Chain[i]] = Null
  <2>1. i = Len(Chain)
    <3>1. CASE i < Len(Chain)
      <4>1. i + 1 \in 1..Len(Chain)
        BY <1>1, <3>1
      <4>2. QED
        BY <1>2, <1>4, <4>1, ChainFacts
    <3>2. QED
      BY <1>1, <3>1
  <2>2. /\ Goes(i) = i /\ At(Chain, Goes(i) + 1) = Null /\ ~ i < Len(Chain)
        /\ Previous(c) = At(Chain, Goes(i) - 1)
        /\ At(Chain, Goes(i) - 1) \in OrNull /\ At(Chain, Goes(i) - 1) # Chain[i]
    <3>1. Goes(i) = i /\ At(Chain, Goes(i) + 1) = Null /\ ~ i < Len(Chain)
      BY <1>1, <2>1 DEF Goes, At
    <3>2. Previous(c) = At(Chain, i - 1)
      BY <1>1 DEF Previous, At
    <3> HIDE DEF i
    <3>3. At(Chain, i - 1) \in OrNull /\ At(Chain, i - 1) # Chain[i]
      BY <1>1 DEF At, OrNull, ListInv, Strung
    <3>4. QED
      BY <3>1, <3>2, <3>3
  <2>3. /\ Free(Chain[i], client, IF Previous(c) = Null THEN next ELSE [next EXCEPT ![Previous(c)] = Null], prev)
        /\ current_iterator' = CursorAfter(Chain[i], Null)
        /\ firstItem' = IF Chain[i] = firstItem THEN Null ELSE firstItem
    BY <1>4 DEF Delete
  <2> HIDE DEF i
  <2>4. client' \in [Nodes -> Values] /\ prev' \in [Nodes -> OrNull]
    BY <1>1, <2>3 DEF Free
  <2>5. \A m \in Nodes \ {Chain[i]} :
          client'[m] = client[m] /\ prev'[m] = prev[m] /\ m # Null /\ m # Chain[i]
    BY <1>1, <2>3 DEF Free
  <2>6. /\ next' \in [Nodes -> OrNull]
        /\ \A m \in Nodes \ {Chain[i]} : next'[m] = IF m = At(Chain, Goes(i) - 1) THEN Null ELSE next[m]
    <3>1. CASE Previous(c) = Null
      BY <1>1, <2>2, <2>3, <3>1 DEF Free
    <3>2. CASE Previous(c) # Null
      <4>1. Previous(c) \in Nodes
        BY <1>1, <2>2, <3>2 DEF OrNull
      <4>2. QED
        BY <1>1, <2>2, <2>3, <3>2, <4>1 DEF Free
    <3>3. QED
      BY <3>1, <3>2
  <2>7. alive' = alive \ {Chain[i]} /\ firstItem' = IF Len(Chain) = 1 THEN Null ELSE firstItem
    <3>1. Chain[i] = firstItem <=> Len(Chain) = 1
      BY <1>1, <2>1 DEF ListInv, Strung
    <3>2. QED
      BY <2>3, <3>1 DEF Free
  <2>8. Unlink(i)
    BY <2>2, <2>4, <2>5, <2>6, <2>7 DEF Unlink
  <2>9. QED
    BY <2>2, <2>3, <2>4, <2>5, <2>8 DEF DeleteAt, i
<1>5. QED
  BY <1>3, <1>4

(* The first place of c goes.                                              *)
Deleted(c) ==
  \E i \in 1..Len(ClientSequence) : /\ ClientSequence[i] = c
                                    /\ \A j \in 1..i - 1 : ClientSequence[j] # c
                                    /\ ClientSequence' = RemoveAt(ClientSequence, i)

LEMMA DeleteStep ==
  ASSUME Assumptions, ListInv, NEW c \in Clients, Delete(c)
  PROVE  /\ ListInv'
         /\ Len(Chain) \in Nat \ {0} /\ Len(Chain') = Len(Chain) - 1 /\ itemAmount' = Down(itemAmount)
         /\ Deleted(c)
         /\ current_iterator \in alive \ {Chain[Position(c)]}
            => current_iterator' \in alive' /\ client'[current_iterator'] = client[current_iterator]
<1> DEFINE i == Position(c)
           j == Goes(i)
<1>1. /\ i \in 1..Len(Chain) /\ client[Chain[i]] = c
      /\ \A k \in 1..i - 1 : client[Chain[k]] # c
      /\ DeleteAt(i)
  BY PositionIsFirst, DeleteIsAt DEF Delete
<1> HIDE DEF i
<1>2. /\ Chain \in Seq(Nodes) /\ Len(Chain) \in Nat \ {0} /\ i \in Nat \ {0}
      /\ client \in [Nodes -> Values]
      /\ ClientSequence = ClientsOf(Chain, client)
      /\ Strung(Chain, firstItem, next)
      /\ j \in 1..Len(Chain) /\ (i < Len(Chain) => j = i + 1) /\ (~ i < Len(Chain) => j = i)
      /\ \A k \in 1..Len(Chain) : Chain[k] \in alive /\ Chain[k] \in Nodes
  <2>1. Len(Chain) \in Nat
    BY ChainFacts
  <2>2. Len(Chain) \in Nat \ {0} /\ i \in Nat \ {0}
    BY <1>1, <2>1
  <2>3. j \in 1..Len(Chain) /\ (i < Len(Chain) => j = i + 1) /\ (~ i < Len(Chain) => j = i)
    BY <1>1, <2>2 DEF Goes
  <2> HIDE DEF j
  <2>4. QED
    BY <2>2, <2>3, ChainFacts DEF ListInv
<1>3. /\ Chain' = RemoveAt(Chain, j)
      /\ Strung(Chain', firstItem', next')
      /\ InChain' = alive'
      /\ Len(Chain') = Len(Chain) - 1
      /\ ClientSequence' = RemoveAt(ClientSequence, i)
  BY <1>1, UnlinkStep DEF DeleteAt
<1>4. /\ alive' = alive \ {Chain[j]}
      /\ client' \in [Nodes -> Values] /\ next' \in [Nodes -> OrNull] /\ prev' \in [Nodes -> OrNull]
      /\ \A m \in Nodes \ {Chain[j]} :
           /\ client'[m] = IF m = Chain[i] THEN client[Chain[j]] ELSE client[m]
           /\ prev'[m] = IF m = At(Chain, j + 1) THEN At(Chain, j - 1) ELSE prev[m]
      /\ current_iterator' = CursorAfter(Chain[j], IF i < Len(Chain) THEN Chain[i] ELSE Null)
  BY <1>1 DEF DeleteAt, Unlink
<1> HIDE DEF j
<1>5. Deleted(c)
  <2>1. /\ Len(ClientSequence) = Len(Chain)
        /\ \A k \in 1..Len(Chain) : ClientSequence[k] = client[Chain[k]]
    BY <1>2, ClientsAre
  <2>2. /\ i \in 1..Len(ClientSequence) /\ ClientSequence[i] = c
        /\ \A l \in 1..i - 1 : ClientSequence[l] # c
    BY <1>1, <1>2, <2>1
  <2>3. QED
    BY <1>3, <2>2 DEF Deleted
<1>6. current_iterator \in alive \ {Chain[i]}
      => current_iterator' \in alive' /\ client'[current_iterator'] = client[current_iterator]
  <2>1. SUFFICES ASSUME current_iterator \in alive \ {Chain[i]}
                 PROVE  current_iterator' \in alive' /\ client'[current_iterator'] = client[current_iterator]
    OBVIOUS
  <2>2. current_iterator \in Nodes
    BY <2>1 DEF ListInv, TypeOK
  <2>3. CASE current_iterator = Chain[j]
    <3>1. i < Len(Chain) /\ j = i + 1
      BY <1>2, <2>1, <2>3
    <3>2. Chain[i] # Chain[j]
      BY <1>1, <1>2, <3>1 DEF Strung
    <3>3. current_iterator' = Chain[i]
      BY <1>4, <2>3, <3>1 DEF CursorAfter
    <3>4. QED
      BY <1>1, <1>2, <1>4, <2>3, <3>2, <3>3
  <2>4. CASE current_iterator # Chain[j]
    <3>1. current_iterator' = current_iterator
      BY <1>4, <2>4 DEF CursorAfter
    <3>2. QED
      BY <1>4, <2>1, <2>2, <2>4, <3>1
  <2>5. QED
    BY <2>3, <2>4
<1>7. firstItem' \in alive' \cup {Null}
  <2>1. firstItem' = At(Chain', 1) /\ DOMAIN Chain' = 1..Len(Chain')
    BY <1>3, LenProperties DEF Strung
  <2>2. QED
    BY <1>3, <2>1 DEF At, InChain, ToSet
<1>8. popped' = popped /\ magic' = magic /\ magic /\ itemAmount' = Down(itemAmount)
      /\ iterator' = iterator /\ outside_iterator_should_be_revalidated' = TRUE
  BY DEF Delete, Announce
<1>9. current_iterator \in alive \cup {Null} => current_iterator' \in alive' \cup {Null}
  <2>1. i < Len(Chain) => Chain[i] # Chain[j]
    BY <1>1, <1>2 DEF Strung
  <2>2. QED
    BY <1>1, <1>2, <1>4, <2>1 DEF CursorAfter
<1>10. TypeOK'
  <2>1. itemAmount' \in 0..Amounts - 1
    BY <1>8, AmountWraps DEF ListInv, TypeOK
  <2>2. current_iterator' \in Nodes \cup {Null}
    BY <1>1, <1>2, <1>4 DEF CursorAfter, ListInv, TypeOK
  <2>3. alive' \subseteq Nodes
    BY <1>4 DEF ListInv, TypeOK
  <2>4. QED
    BY <1>4, <1>7, <1>8, <2>1, <2>2, <2>3 DEF ListInv, TypeOK, OrNull, Values
<1>11. IteratorsLive'
  BY <1>8, <1>9 DEF ListInv, IteratorsLive
<1>12. popped' \/ Mirrors(Chain', prev')
  <2>1. CASE Mirrors(Chain, prev)
    BY <1>2, <1>3, <1>4, <2>1, MirrorsWithout
  <2>2. QED
    BY <1>8, <2>1 DEF ListInv
<1>13. ListInv'
  BY <1>3, <1>8, <1>10, <1>11, <1>12 DEF ListInv
<1>14. QED
  BY <1>2, <1>3, <1>5, <1>6, <1>8, <1>13 DEF i

(* What leaves the nodes alone leaves the chain and the clients alone.     *)
LEMMA NodesKept ==
  ASSUME ListInv, UNCHANGED <<magic, firstItem, itemAmount, nodes, popped>>, TypeOK', IteratorsLive'
  PROVE  ListInv' /\ Chain' = Chain /\ ClientSequence' = ClientSequence
<1>1. Chain' = Chain
  BY DEF Chain, nodes
<1>2. ClientSequence' = ClientSequence
  BY <1>1 DEF ClientSequence, nodes
<1>3. popped' \/ Mirrors(Chain', prev')
  BY <1>1 DEF ListInv, nodes
<1>4. InChain' = alive' /\ Strung(Chain', firstItem', next') /\ (magic' \/ firstItem' = Null) /\ (magic' \/ itemAmount' = 0)
  BY <1>1 DEF ListInv, InChain, nodes
<1>5. QED
  BY <1>1, <1>2, <1>3, <1>4 DEF ListInv

(* Where a node of the chain leads is in the list, or Null.                *)
LEMMA NextLives ==
  ASSUME Assumptions, ListInv, NEW n \in alive
  PROVE  next[n] \in alive \cup {Null}
<1>1. PICK i \in 1..Len(Chain) : n = Chain[i]
  BY ChainFacts
<1>2. next[n] = At(Chain, i + 1)
  BY <1>1 DEF ListInv, Strung
<1>3. QED
  BY <1>2, ChainFacts DEF At

LEMMA CursorStep ==
  ASSUME Assumptions, ListInv, FirstItem \/ NextItem \/ FirstItemEx \/ NextItemEx
  PROVE  ListInv' /\ Chain' = Chain /\ ClientSequence' = ClientSequence /\ itemAmount' = itemAmount
<1>1. /\ firstItem \in alive \cup {Null} /\ alive \subseteq Nodes
      /\ current_iterator \in Nodes \cup {Null} /\ iterator \in Nodes \cup {Null}
      /\ \A n \in alive : next[n] \in alive \cup {Null}
      /\ magic => /\ popped \/ current_iterator \in alive \cup {Null}
                  /\ iterator \in alive \cup {Null} \/ outside_iterator_should_be_revalidated
  BY NextLives DEF ListInv, TypeOK, IteratorsLive
<1>2. /\ UNCHANGED <<magic, firstItem, itemAmount, nodes, popped>>
      /\ UNCHANGED <<itemAmount, outside_iterator_should_be_revalidated>>
      /\ alive' = alive
  BY DEF FirstItem, NextItem, FirstItemEx, NextItemEx, nodes
<1>3. CASE FirstItem
  <2>1. current_iterator' \in alive' \cup {Null} /\ iterator' = iterator
    BY <1>1, <1>2, <1>3 DEF FirstItem
  <2>2. TypeOK' /\ IteratorsLive'
    BY <1>1, <1>2, <2>1 DEF ListInv, TypeOK, IteratorsLive, nodes
  <2>3. QED
    BY <1>2, <2>2, NodesKept
<1>4. CASE NextItem
  <2>1. /\ current_iterator' \in Nodes \cup {Null}
        /\ popped \/ current_iterator' \in alive' \cup {Null}
        /\ iterator' = iterator
    BY <1>1, <1>2, <1>4 DEF NextItem
  <2>2. TypeOK' /\ IteratorsLive'
    BY <1>1, <1>2, <2>1 DEF ListInv, TypeOK, IteratorsLive, nodes
  <2>3. QED
    BY <1>2, <2>2, NodesKept
<1>5. CASE FirstItemEx
  <2>1. iterator' \in alive' \cup {Null} /\ current_iterator' = current_iterator
    BY <1>1, <1>2, <1>5 DEF FirstItemEx
  <2>2. TypeOK' /\ IteratorsLive'
    BY <1>1, <1>2, <2>1 DEF ListInv, TypeOK, IteratorsLive, nodes
  <2>3. QED
    BY <1>2, <2>2, NodesKept
<1>6. CASE NextItemEx
  <2>1. iterator' \in alive' \cup {Null} /\ current_iterator' = current_iterator
    BY <1>1, <1>2, <1>6 DEF NextItemEx
  <2>2. TypeOK' /\ IteratorsLive'
    BY <1>1, <1>2, <2>1 DEF ListInv, TypeOK, IteratorsLive, nodes
  <2>3. QED
    BY <1>2, <2>2, NodesKept
<1>7. QED
  BY <1>3, <1>4, <1>5, <1>6

LEMMA FreeClientsStep ==
  ASSUME Assumptions, ListInv, FreeClients
  PROVE  /\ ListInv' /\ Chain' = Chain /\ itemAmount' = itemAmount
         /\ ClientSequence' = [i \in 1..Len(ClientSequence) |-> NoClient]
<1>1. Chain' = Chain
  BY DEF Chain, FreeClients
<1>2. /\ UNCHANGED <<magic, firstItem, itemAmount, cursors, outside_iterator_should_be_revalidated,
                     alive, next, prev, popped>>
      /\ client' = [n \in Nodes |-> IF n \in InChain THEN NoClient ELSE client[n]]
  BY DEF FreeClients
<1>3. /\ Chain \in Seq(Nodes) /\ Len(Chain) \in Nat /\ DOMAIN Chain = 1..Len(Chain)
      /\ client \in [Nodes -> Values] /\ ClientSequence = ClientsOf(Chain, client)
      /\ \A i \in 1..Len(Chain) : Chain[i] \in InChain /\ Chain[i] \in Nodes
  BY ChainFacts DEF ListInv
<1>4. ClientSequence' = [i \in 1..Len(ClientSequence) |-> NoClient]
  <2>1. ClientSequence' = [i \in 1..Len(Chain) |-> client'[Chain[i]]]
    BY <1>1, <1>3 DEF ClientSequence
  <2>2. \A i \in 1..Len(Chain) : client'[Chain[i]] = NoClient
    BY <1>2, <1>3
  <2>3. Len(ClientSequence) = Len(Chain)
    BY <1>3, ClientsAre
  <2>4. QED
    BY <2>1, <2>2, <2>3
<1>5. TypeOK'
  <2>1. client' \in [Nodes -> Clients \cup {NoClient}]
    BY <1>2 DEF ListInv, TypeOK
  <2>2. QED
    BY <1>2, <2>1 DEF ListInv, TypeOK, cursors
<1>6. IteratorsLive'
  BY <1>2 DEF ListInv, IteratorsLive, cursors
<1>7. popped' \/ Mirrors(Chain', prev')
  BY <1>1, <1>2 DEF ListInv
<1>8. InChain' = alive' /\ Strung(Chain', firstItem', next') /\ (magic' \/ firstItem' = Null) /\ (magic' \/ itemAmount' = 0)
  BY <1>1, <1>2 DEF ListInv, InChain
<1>9. QED
  BY <1>1, <1>2, <1>4, <1>5, <1>6, <1>7, <1>8 DEF ListInv

(* A list without a first item has no nodes.                               *)
LEMMA NothingStrung ==
  ASSUME NEW links
  PROVE  Strung(<<>>, Null, links) /\ ToSet(<<>>) = {} /\ <<>> \in Seq(Nodes)
         /\ \A back : Mirrors(<<>>, back)
<1>1. <<>> \in Seq(Nodes) /\ Len(<<>>) = 0 /\ ToSet(<<>>) = {} /\ 1..0 = {} /\ 1 \notin 1..0
  BY DEF ToSet
<1>2. QED
  BY <1>1 DEF Strung, At, Mirrors

LEMMA DestructorStep ==
  ASSUME Assumptions, ListInv, Destructor
  PROVE  ListInv' /\ ClientSequence' = <<>>
<1>1. /\ magic' = FALSE /\ itemAmount' = 0 /\ firstItem' = Null /\ alive' = {}
      /\ UNCHANGED <<cursors, outside_iterator_should_be_revalidated, popped>>
  BY DEF Destructor, ListInv
<1>2. /\ client' \in [Nodes -> Clients \cup {NoClient}]
      /\ next' \in [Nodes -> OrNull]
      /\ prev' \in [Nodes -> OrNull]
  BY DEF Destructor, ListInv, TypeOK, OrNull
<1>3. Chain' = <<>>
  BY <1>1, <1>2, NothingStrung, ChainFollows
<1>4. TypeOK'
  <2>1. itemAmount' \in 0..Amounts - 1
    BY <1>1 DEF Assumptions, LinkedListAssumption
  <2>2. QED
    BY <1>1, <1>2, <2>1 DEF ListInv, TypeOK, OrNull, cursors
<1>5. IteratorsLive'
  BY <1>1 DEF IteratorsLive
<1>6. ClientSequence' = <<>>
  BY <1>3 DEF ClientSequence
<1>7. InChain' = alive' /\ Strung(Chain', firstItem', next') /\ Mirrors(Chain', prev')
  BY <1>1, <1>3, NothingStrung DEF InChain
<1>8. QED
  BY <1>1, <1>4, <1>5, <1>6, <1>7 DEF ListInv

LEMMA ConstructorStep ==
  ASSUME Assumptions, ListInv, Constructor
  PROVE  /\ ListInv' /\ Chain' = Chain /\ ClientSequence' = ClientSequence
         /\ Len(Chain) = 0 /\ itemAmount' = 0
<1>1. /\ firstItem = Null /\ firstItem' = Null /\ Len(Chain) = 0
      /\ magic' /\ itemAmount' = 0 /\ current_iterator' = Null /\ iterator' = Null
      /\ UNCHANGED nodes
  BY ChainFacts DEF Constructor, ListInv
<1>2. Chain' = Chain
  BY <1>1 DEF Chain, nodes
<1>3. ClientSequence' = ClientSequence
  BY <1>1, <1>2 DEF ClientSequence, nodes
<1>4. TypeOK'
  <2>1. itemAmount' \in 0..Amounts - 1
    BY <1>1 DEF Assumptions, LinkedListAssumption
  <2>2. magic' \in BOOLEAN /\ popped' \in BOOLEAN /\ outside_iterator_should_be_revalidated' \in BOOLEAN
    BY DEF Constructor
  <2>3. QED
    BY <1>1, <2>1, <2>2 DEF ListInv, TypeOK, nodes
<1>5. IteratorsLive'
  BY <1>1 DEF IteratorsLive
<1>6. Mirrors(Chain', prev')
  BY <1>1, <1>2 DEF Mirrors
<1>7. InChain' = alive' /\ Strung(Chain', firstItem', next')
  BY <1>1, <1>2 DEF ListInv, InChain, nodes
<1>8. QED
  BY <1>1, <1>2, <1>3, <1>4, <1>5, <1>6, <1>7 DEF ListInv

LEMMA StutterStep ==
  ASSUME ListInv, UNCHANGED vars
  PROVE  ListInv' /\ Chain' = Chain /\ ClientSequence' = ClientSequence /\ itemAmount' = itemAmount
<1>1. TypeOK' /\ IteratorsLive'
  BY DEF ListInv, TypeOK, IteratorsLive, vars
<1>2. QED
  BY <1>1, NodesKept DEF vars, nodes

LEMMA NextInv ==
  ASSUME Assumptions, ListInv, [Next]_vars
  PROVE  ListInv'
<1>1. CASE UNCHANGED vars
  BY <1>1, StutterStep
<1>2. CASE Next
  <2>1. CASE Constructor
    BY <2>1, ConstructorStep
  <2>2. CASE Pop
    BY <2>2, PopStep
  <2>3. ASSUME NEW n \in Nodes \ alive, NEW c \in Clients, Push(n, c)
        PROVE  ListInv'
    BY <2>3, PushStep
  <2>4. ASSUME NEW n \in Nodes \ alive, NEW c \in Clients, NEW b, InsertBefore(n, c, b)
        PROVE  ListInv'
    BY <2>4, InsertBeforeStep
  <2>5. ASSUME NEW n \in Nodes \ alive, NEW c \in Clients, NEW a, InsertAfter(n, c, a)
        PROVE  ListInv'
    BY <2>5, InsertAfterStep
  <2>6. ASSUME NEW c \in Clients, Delete(c)
        PROVE  ListInv'
    BY <2>6, DeleteStep
  <2>7. CASE FirstItem \/ NextItem \/ FirstItemEx \/ NextItemEx
    BY <2>7, CursorStep
  <2>8. CASE FreeClients
    BY <2>8, FreeClientsStep
  <2>9. CASE Destructor
    BY <2>9, DestructorStep
  <2>10. QED
    BY <1>2, <2>1, <2>2, <2>3, <2>4, <2>5, <2>6, <2>7, <2>8, <2>9 DEF Next
<1>3. QED
  BY <1>1, <1>2

LEMMA Invariant ==
  ASSUME Assumptions
  PROVE  Spec => []ListInv
<1>1. Init => ListInv
  BY InitInv
<1>2. ListInv /\ [Next]_vars => ListInv'
  BY NextInv
<1>3. QED
  BY <1>1, <1>2, PTL DEF Spec

-----------------------------------------------------------------------------
(* The header and the nodes keep to their types: firstItem is NULL or a     *)
(* node in use, and itemAmount stays within the width of an unsigned int.  *)
THEOREM ListTypesHold == Spec => []TypeOK
<1>1. ListInv => TypeOK
  BY DEF ListInv
<1>2. QED
  BY <1>1, Invariant, LinkedListAssumption, PTL DEF Assumptions

(* The chain from firstItem on has the nodes malloc'ed and not freed, each *)
(* once, whatever is inserted and removed and wherever: no node leaks and  *)
(* no freed one is reached.  Where linkedList_Pop was not used, prev leads  *)
(* back along it.                                                          *)
THEOREM ChainIsWhatIsAllocated == Spec => []ChainOwnsNodes
<1>1. ASSUME ListInv
      PROVE  ChainOwnsNodes
  <2>1. InChain = alive /\ Len(Chain) = Cardinality(alive)
    BY <1>1, FitsNodes, LinkedListAssumption DEF ListInv, InChain, Assumptions
  <2>2. ASSUME Mirrors(Chain, prev)
        PROVE  BackLinksMirror
    <3>1. Len(Chain) \in Nat /\ DOMAIN Chain = 1..Len(Chain)
      BY <1>1, ChainFacts, LinkedListAssumption DEF Assumptions
    <3>2. \A i \in 1..Len(Chain) : At(Chain, i - 1) = IF i = 1 THEN Null ELSE Chain[i - 1]
      BY <3>1 DEF At
    <3>3. QED
      BY <2>2, <3>1, <3>2 DEF BackLinksMirror, Mirrors
  <2>3. QED
    BY <1>1, <2>1, <2>2 DEF ChainOwnsNodes, ListInv
<1>2. QED
  BY <1>1, Invariant, LinkedListAssumption, PTL DEF Assumptions

(* No iterator is left on a freed node without the list saying so: neither *)
(* the list's own cursor (but for linkedList_Pop, which does not move it)   *)
(* nor one that a caller keeps.                                            *)
THEOREM IteratorsStayLive == Spec => []IteratorsLive
<1>1. ListInv => IteratorsLive
  BY DEF ListInv
<1>2. QED
  BY <1>1, Invariant, LinkedListAssumption, PTL DEF Assumptions

(* linkedList_Delete leaves the cursor on the client it was on, although    *)
(* it frees another node than the one that held the deleted client.        *)
THEOREM DeleteKeepsTheCursorsClient == Spec => CursorKeepsClient
<1> DEFINE Kept == \A c \in Clients :
                     magic /\ Holds(c) /\ current_iterator \in alive \ {Chain[Position(c)]} /\ Delete(c)
                     => current_iterator' \in alive' /\ client'[current_iterator'] = client[current_iterator]
<1>1. ListInv => [Kept]_vars
  BY DeleteStep, LinkedListAssumption DEF Assumptions
<1>2. QED
  BY <1>1, Invariant, LinkedListAssumption, PTL DEF Assumptions, CursorKeepsClient

(* itemAmount changes with the length of the chain, modulo its width, in    *)
(* every call but linkedList_InsertAfter and linkedList_Destructor.        *)
THEOREM AmountKeepsUp == Spec => AmountFollowsLength
<1> DEFINE Same == (itemAmount' + Len(Chain)) % Amounts = (itemAmount + Len(Chain')) % Amounts
           Follows == \/ Same
                      \/ \E n \in Nodes \ alive, c \in Clients, a \in InChain : InsertAfter(n, c, a)
                      \/ Destructor
<1>1. ASSUME ListInv, Next
      PROVE  Follows
  <2>0. /\ Assumptions /\ Amounts \in Nat \ {0}
        /\ itemAmount \in 0..Amounts - 1 /\ Len(Chain) \in Nat
    BY <1>1, ChainFacts, LinkedListAssumption DEF Assumptions, ListInv, TypeOK
  <2>1. ASSUME Len(Chain') = Len(Chain) + 1, itemAmount' = Up(itemAmount)
        PROVE  Same
    BY <2>0, <2>1, UpKeepsUp DEF Up
  <2>2. ASSUME Len(Chain) \in Nat \ {0}, Len(Chain') = Len(Chain) - 1, itemAmount' = Down(itemAmount)
        PROVE  Same
    BY <2>0, <2>2, DownKeepsUp DEF Down
  <2>3. ASSUME Chain' = Chain, itemAmount' = itemAmount
        PROVE  Same
    BY <2>3
  <2> HIDE DEF Same
  <2>4. CASE Pop
    BY <1>1, <2>0, <2>2, <2>4, PopStep
  <2>5. ASSUME NEW n \in Nodes \ alive, NEW c \in Clients, Push(n, c)
        PROVE  Same
    BY <1>1, <2>0, <2>1, <2>5, PushStep
  <2>6. ASSUME NEW n \in Nodes \ alive, NEW c \in Clients, NEW b, InsertBefore(n, c, b)
        PROVE  Same
    BY <1>1, <2>0, <2>1, <2>6, InsertBeforeStep
  <2>7. ASSUME NEW n \in Nodes \ alive, NEW c \in Clients, NEW a, InsertAfter(n, c, a), a \notin InChain
        PROVE  Same
    BY <1>1, <2>0, <2>1, <2>7, InsertAfterStep
  <2>8. ASSUME NEW c \in Clients, Delete(c)
        PROVE  Same
    BY <1>1, <2>0, <2>2, <2>8, DeleteStep
  <2>9. CASE FirstItem \/ NextItem \/ FirstItemEx \/ NextItemEx \/ FreeClients
    BY <1>1, <2>0, <2>3, <2>9, CursorStep, FreeClientsStep
  <2>10. CASE Constructor
    <3>1. Chain' = Chain /\ Len(Chain) = 0 /\ itemAmount' = 0
      BY <1>1, <2>0, <2>10, ConstructorStep
    <3>2. itemAmount = 0
      BY <1>1, <2>10 DEF Constructor, ListInv
    <3>3. QED
      BY <2>3, <3>1, <3>2
  <2>11. QED
    BY <1>1, <2>4, <2>5, <2>6, <2>7, <2>8, <2>9, <2>10 DEF Next
<1>2. ListInv /\ [Next]_vars => [Follows]_vars
  BY <1>1
<1>3. QED
  BY <1>2, Invariant, LinkedListAssumption, PTL DEF Assumptions, AmountFollowsLength, Spec

(* To a caller the list is a sequence of clients: each call inserts one,    *)
(* removes the first that equals its argument, removes the head, forgets    *)
(* them all or leaves the sequence as it was, and does so whichever nodes   *)
(* it moves the clients between.                                           *)
THEOREM ListIsAClientSequence == Spec => ClientListSpec
<1>1. Init => ClientSeq!Init
  BY InitInv, LinkedListAssumption DEF ClientSeq!Init, Assumptions
<1>2. ASSUME ListInv, [Next]_vars
      PROVE  [ClientSeq!Next]_ClientSequence
  <2>0. Assumptions
    BY LinkedListAssumption DEF Assumptions
  <2>1. ASSUME NEW c \in Clients, \E i \in 1..Len(Chain) + 1 : ClientSequence' = InsertAt(ClientSequence, i, c)
        PROVE  ClientSeq!Next
    <3>1. Len(ClientSequence) = Len(Chain)
      BY <1>2, <2>0, ChainFacts, ClientsAre
    <3>2. ClientSeq!Insert(c)
      BY <2>1, <3>1 DEF ClientSeq!Insert, ClientSeq!InsertAt, InsertAt
    <3>3. QED
      BY <3>2 DEF ClientSeq!Next
  <2>2. CASE Pop
    BY <1>2, <2>0, <2>2, PopStep DEF ClientSeq!Pop, ClientSeq!Next
  <2>3. ASSUME NEW n \in Nodes \ alive, NEW c \in Clients, Push(n, c)
        PROVE  ClientSeq!Next
    BY <1>2, <2>0, <2>1, <2>3, PushStep
  <2>4. ASSUME NEW n \in Nodes \ alive, NEW c \in Clients, NEW b, InsertBefore(n, c, b)
        PROVE  ClientSeq!Next
    BY <1>2, <2>0, <2>1, <2>4, InsertBeforeStep
  <2>5. ASSUME NEW n \in Nodes \ alive, NEW c \in Clients, NEW a, InsertAfter(n, c, a)
        PROVE  ClientSeq!Next
    BY <1>2, <2>0, <2>1, <2>5, InsertAfterStep
  <2>6. ASSUME NEW c \in Clients, Delete(c)
        PROVE  ClientSeq!Next
    <3>0. Deleted(c)
      BY <1>2, <2>0, <2>6, DeleteStep
    <3>1. ClientSeq!Delete(c)
      BY <3>0 DEF Deleted, ClientSeq!Delete, ClientSeq!RemoveAt, RemoveAt
    <3>2. QED
      BY <3>1 DEF ClientSeq!Next
  <2>7. CASE FreeClients
    BY <1>2, <2>0, <2>7, FreeClientsStep DEF ClientSeq!FreeClients, ClientSeq!Next
  <2>8. CASE Destructor
    BY <1>2, <2>0, <2>8, DestructorStep DEF ClientSeq!Clear, ClientSeq!Next
  <2>9. CASE FirstItem \/ NextItem \/ FirstItemEx \/ NextItemEx \/ Constructor \/ UNCHANGED vars
    <3>1. ClientSequence' = ClientSequence
      BY <1>2, <2>0, <2>9, CursorStep, ConstructorStep, StutterStep
    <3>2. QED
      BY <3>1
  <2>10. QED
    BY <1>2, <2>2, <2>3, <2>4, <2>5, <2>6, <2>7, <2>8, <2>9 DEF Next
<1>3. QED
  BY <1>1, <1>2, Invariant, LinkedListAssumption, PTL DEF Assumptions, ClientListSpec, ClientSeq!Spec, Spec
=============================================================================
