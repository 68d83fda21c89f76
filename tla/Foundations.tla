---------------------------- MODULE Foundations ----------------------------
(***************************************************************************)
(* The lemmas that the proofs about several components rest on.            *)
(* Induction over the natural numbers is for sets and functions instead of  *)
(* the operators of the library's theorems: a property to prove by         *)
(* induction is the set of the numbers that have it, and a function that    *)
(* is defined by recursion iterates another.  The operators of TextLines    *)
(* are described for any texts.                                            *)
(***************************************************************************)
EXTENDS TextLines, FiniteSetTheorems, SequenceTheorems, WellFoundedInduction, TLAPS

(* A set of natural numbers that is not empty has a least element: the sets *)
(* of the elements up to one of them are finite, so one of these sets has   *)
(* none of the others in it.                                               *)
LEMMA LeastNumber ==
  ASSUME NEW T \in SUBSET Nat, T # {}
  PROVE  \E x \in T : \A y \in T : x <= y
<1> DEFINE UpTo(x) == {t \in T : t <= x}
           Starts == {UpTo(x) : x \in T}
<1>1. Starts \subseteq FiniteSubsetsOf(Nat)
  <2>1. ASSUME NEW x \in T
        PROVE  UpTo(x) \in SUBSET Nat /\ IsFiniteSet(UpTo(x))
    BY FS_BoundedSetOfNaturals
  <2>2. QED
    BY <2>1 DEF FiniteSubsetsOf
<1>2. PICK start \in Starts : \A other \in Starts : <<other, start>> \notin StrictSubsetOrdering(Nat)
  <2>1. Starts # {}
    OBVIOUS
  <2>2. IsWellFoundedOn(StrictSubsetOrdering(Nat), FiniteSubsetsOf(Nat))
    BY FS_StrictSubsetOrderingWellFounded
  <2> HIDE DEF Starts
  <2>3. QED
    BY <1>1, <2>1, <2>2, WFMin
<1>3. PICK x \in T : start = UpTo(x)
  BY <1>2
<1>4. ASSUME NEW y \in T, y < x
      PROVE  FALSE
  <2>0. x \in UpTo(x) /\ x \notin UpTo(y)
    BY <1>4
  <2>1. UpTo(y) \in SUBSET Nat /\ UpTo(x) \in SUBSET Nat
    OBVIOUS
  <2>2. ASSUME NEW t \in UpTo(y)
        PROVE  t \in UpTo(x)
    BY <1>4
  <2>3. UpTo(y) \subseteq UpTo(x) /\ UpTo(y) # UpTo(x)
    BY <2>0, <2>2
  <2>4. <<UpTo(y), start>> \in StrictSubsetOrdering(Nat)
    BY <1>3, <2>1, <2>3 DEF StrictSubsetOrdering
  <2>5. QED
    BY <1>2, <2>4
<1>5. QED
  BY <1>3, <1>4

LEMMA AllNumbers ==
  ASSUME NEW T, 0 \in T, \A n \in Nat : n \in T => n + 1 \in T
  PROVE  \A n \in Nat : n \in T
<1> DEFINE Rest == {n \in Nat : n \notin T}
<1>1. SUFFICES ASSUME Rest # {}
               PROVE  FALSE
  OBVIOUS
<1>2. PICK n \in Rest : \A m \in Rest : n <= m
  BY <1>1, LeastNumber
<1>3. n # 0 /\ n - 1 \in Nat /\ n - 1 \notin Rest
  BY <1>2
<1>4. QED
  BY <1>2, <1>3

(* Where a function leads from base in so many steps.                       *)
Iterates(g, S, base, F) == g \in [Nat -> S] /\ g[0] = base /\ \A k \in Nat : g[k + 1] = F[g[k]]

LEMMA Iteration ==
  ASSUME NEW S, NEW base \in S, NEW F \in [S -> S]
  PROVE  \E g : Iterates(g, S, base, F)
<1> DEFINE Begins(g, n) == g \in [0..n -> S] /\ g[0] = base /\ \A k \in 1..n : g[k] = F[g[k - 1]]
           T == {n \in Nat : \E g : Begins(g, n)}
<1>1. \A n \in Nat : n \in T
  <2>1. 0 \in T
    <3>1. Begins([k \in 0..0 |-> base], 0)
      OBVIOUS
    <3>2. QED
      BY <3>1
  <2>2. ASSUME NEW n \in Nat, n \in T
        PROVE  n + 1 \in T
    <3>1. PICK g : Begins(g, n)
      BY <2>2
    <3> DEFINE h == [k \in 0..n + 1 |-> IF k = n + 1 THEN F[g[n]] ELSE g[k]]
    <3>2. h \in [0..n + 1 -> S] /\ h[0] = base
      BY <3>1
    <3>3. \A k \in 1..n + 1 : h[k] = F[h[k - 1]]
      BY <3>1
    <3>4. Begins(h, n + 1)
      BY <3>2, <3>3
    <3> HIDE DEF h
    <3>5. QED
      BY <3>4
  <2> HIDE DEF T
  <2>3. QED
    BY <2>1, <2>2, AllNumbers
<1>2. PICK G : \A n \in Nat : Begins(G[n], n)
  <2> DEFINE G == [n \in Nat |-> CHOOSE g : Begins(g, n)]
  <2>1. ASSUME NEW n \in Nat
        PROVE  Begins(G[n], n)
    <3>1. \E g : Begins(g, n)
      BY <1>1
    <3> HIDE DEF Begins
    <3>2. QED
      BY <3>1
  <2> HIDE DEF G
  <2>2. QED
    BY <2>1
<1>3. ASSUME NEW n \in Nat
      PROVE  G[n + 1][n] = G[n][n]
  <2> DEFINE Same == {k \in Nat : k <= n => G[n + 1][k] = G[n][k]}
  <2>1. Begins(G[n], n) /\ Begins(G[n + 1], n + 1)
    <3> HIDE DEF Begins
    <3>1. QED
      BY <1>2
  <2>2. 0 \in Same
    BY <2>1
  <2>3. ASSUME NEW k \in Nat, k \in Same
        PROVE  k + 1 \in Same
    <3>1. CASE k + 1 <= n
      <4>1. k + 1 \in 1..n /\ k + 1 \in 1..n + 1 /\ (k + 1) - 1 = k
        BY <3>1
      <4>2. G[n][k + 1] = F[G[n][k]] /\ G[n + 1][k + 1] = F[G[n + 1][k]]
        BY <2>1, <4>1
      <4>3. G[n][k] = G[n + 1][k]
        BY <2>3, <3>1
      <4>4. QED
        BY <4>2, <4>3
    <3>2. QED
      BY <3>1
  <2> HIDE DEF Same
  <2>4. \A k \in Nat : k \in Same
    BY <2>2, <2>3, AllNumbers
  <2>5. QED
    BY <2>4 DEF Same
<1> DEFINE g == [n \in Nat |-> G[n][n]]
<1>4. g \in [Nat -> S]
  BY <1>2
<1>5. ASSUME NEW n \in Nat
      PROVE  g[n] = IF n = 0 THEN base ELSE F[g[n - 1]]
  <2>1. Begins(G[n], n)
    BY <1>2
  <2>2. CASE n # 0
    <3>1. n - 1 \in Nat /\ (n - 1) + 1 = n
      BY <2>2
    <3>2. G[n][n - 1] = G[n - 1][n - 1]
      BY <1>3, <3>1
    <3>3. g[n] = G[n][n] /\ g[n - 1] = G[n - 1][n - 1]
      BY <3>1
    <3>4. n \in 1..n
      BY <2>2
    <3> HIDE DEF g
    <3>5. QED
      BY <2>1, <2>2, <3>2, <3>3, <3>4
  <2>3. CASE n = 0
    <3>1. g[0] = G[0][0]
      OBVIOUS
    <3> HIDE DEF g
    <3>2. QED
      BY <2>1, <2>3, <3>1
  <2>4. QED
    BY <2>2, <2>3
<1> HIDE DEF g
<1>6. ASSUME NEW k \in Nat
      PROVE  g[k + 1] = F[g[k]]
  <2>1. k + 1 \in Nat /\ k + 1 # 0 /\ (k + 1) - 1 = k
    OBVIOUS
  <2>2. QED
    BY <1>5, <2>1
<1>7. QED
  BY <1>4, <1>5, <1>6 DEF Iterates

(* F makes of a function on D another, whose value at a place depends only  *)
(* on the values at smaller ones.                                          *)
Descends(F, D, R, size) ==
  \A v, w \in [D -> R], x \in D :
    (\A y \in D : size[y] < size[x] => v[y] = w[y]) => F[v][x] = F[w][x]

Fixed(h, F, D, R) == h \in [D -> R] /\ \A x \in D : h[x] = F[h][x]

(* Such an F has a fixed point: a recursive definition on D whose size      *)
(* becomes smaller defines a function.                                     *)
LEMMA Recursion ==
  ASSUME NEW D, NEW R, NEW size \in [D -> Nat], NEW F \in [[D -> R] -> [D -> R]],
         NEW start \in [D -> R], Descends(F, D, R, size)
  PROVE  \E h : Fixed(h, F, D, R)
<1>1. PICK g : Iterates(g, [D -> R], start, F)
  BY Iteration
<1>2. \A n \in Nat : g[n] \in [D -> R] /\ g[n + 1] = F[g[n]]
  BY <1>1 DEF Iterates
<1> DEFINE T == {n \in Nat : \A x \in D : size[x] < n => g[n][x] = g[n + 1][x]}
<1>3. \A n \in Nat : n \in T
  <2>1. 0 \in T
    OBVIOUS
  <2>2. ASSUME NEW n \in Nat, n \in T
        PROVE  n + 1 \in T
    <3>1. ASSUME NEW x \in D, size[x] < n + 1
          PROVE  g[n + 1][x] = g[(n + 1) + 1][x]
      <4>1. \A y \in D : size[y] < size[x] => g[n][y] = g[n + 1][y]
        BY <2>2, <3>1
      <4>2. \A v, w \in [D -> R] : (\A y \in D : size[y] < size[x] => v[y] = w[y]) => F[v][x] = F[w][x]
        BY DEF Descends
      <4>3. g[n] \in [D -> R] /\ g[n + 1] \in [D -> R]
        BY <1>2
      <4>4. F[g[n]][x] = F[g[n + 1]][x]
        BY <4>1, <4>2, <4>3
      <4>5. QED
        BY <1>2, <4>4
    <3>2. QED
      BY <3>1
  <2> HIDE DEF T
  <2>3. QED
    BY <2>1, <2>2, AllNumbers
<1> DEFINE h == [x \in D |-> g[size[x] + 1][x]]
<1>4. ASSUME NEW x \in D, NEW k \in Nat
      PROVE  g[(size[x] + 1) + k][x] = g[size[x] + 1][x]
  <2> DEFINE U == {i \in Nat : g[(size[x] + 1) + i][x] = g[size[x] + 1][x]}
  <2>1. 0 \in U
    OBVIOUS
  <2>2. ASSUME NEW i \in Nat, i \in U
        PROVE  i + 1 \in U
    <3>1. ASSUME NEW n \in Nat, n = (size[x] + 1) + i
          PROVE  g[n][x] = g[n + 1][x]
      <4>1. n \in T
        BY <1>3
      <4>2. QED
        BY <3>1, <4>1
    <3>2. g[(size[x] + 1) + i][x] = g[((size[x] + 1) + i) + 1][x]
      <4>1. (size[x] + 1) + i \in Nat
        OBVIOUS
      <4>2. QED
        BY <3>1, <4>1, Zenon
    <3>3. ((size[x] + 1) + i) + 1 = (size[x] + 1) + (i + 1)
      <4>1. size[x] \in Nat
        OBVIOUS
      <4>2. QED
        BY <4>1
    <3>4. QED
      BY <2>2, <3>2, <3>3
  <2> HIDE DEF U
  <2>3. k \in U
    BY <2>1, <2>2, AllNumbers
  <2>4. QED
    BY <2>3 DEF U
<1>5. h \in [D -> R]
  BY <1>2
<1>6. ASSUME NEW x \in D
      PROVE  h[x] = F[h][x]
  <2>1. ASSUME NEW y \in D, size[y] < size[x]
        PROVE  h[y] = g[size[x]][y]
    <3>1. PICK k \in Nat : (size[y] + 1) + k = size[x]
      <4>1. size[x] - (size[y] + 1) \in Nat /\ (size[y] + 1) + (size[x] - (size[y] + 1)) = size[x]
        BY <2>1
      <4>2. QED
        BY <4>1
    <3>2. QED
      BY <1>4, <3>1
  <2>2. F[h][x] = F[g[size[x]]][x]
    <3>1. g[size[x]] \in [D -> R]
      BY <1>2
    <3> HIDE DEF h
    <3>2. QED
      BY <1>5, <2>1, <3>1 DEF Descends
  <2>3. h[x] = F[g[size[x]]][x]
    BY <1>2
  <2>4. QED
    BY <2>2, <2>3
<1> HIDE DEF h
<1>7. Fixed(h, F, D, R)
  BY <1>5, <1>6 DEF Fixed
<1>8. QED
  BY <1>7

(* A recursion that looks at one other place only, next[x], and stops where *)
(* that is not smaller: there the value does not depend on it.              *)
Stops(x, D, R, size, next, made) ==
  size[next[x]] < size[x] \/ \A r, s \in R : made[x][r] = made[x][s]

Recurs(h, D, R, next, made) == h \in [D -> R] /\ \A x \in D : h[x] = made[x][h[next[x]]]

LEMMA TailRecursion ==
  ASSUME NEW D, NEW R, NEW size \in [D -> Nat], NEW next \in [D -> D],
         NEW made \in [D -> [R -> R]], NEW r0 \in R,
         \A x \in D : Stops(x, D, R, size, next, made)
  PROVE  \E h : Recurs(h, D, R, next, made)
<1> DEFINE F == [v \in [D -> R] |-> [x \in D |-> made[x][v[next[x]]]]]
           start == [x \in D |-> r0]
<1>1. F \in [[D -> R] -> [D -> R]] /\ start \in [D -> R]
  OBVIOUS
<1>2. Descends(F, D, R, size)
  <2>1. ASSUME NEW v \in [D -> R], NEW w \in [D -> R], NEW x \in D,
               \A y \in D : size[y] < size[x] => v[y] = w[y]
        PROVE  F[v][x] = F[w][x]
    <3>1. next[x] \in D /\ v[next[x]] \in R /\ w[next[x]] \in R
      OBVIOUS
    <3>2. made[x][v[next[x]]] = made[x][w[next[x]]]
      BY <2>1, <3>1 DEF Stops
    <3>3. QED
      BY <3>2
  <2> HIDE DEF F
  <2>2. QED
    BY <2>1 DEF Descends
<1>3. PICK h : Fixed(h, F, D, R)
  <2> HIDE DEF F, start
  <2>1. QED
    BY <1>1, <1>2, Recursion
<1>4. h \in [D -> R] /\ \A x \in D : h[x] = made[x][h[next[x]]]
  BY <1>3 DEF Fixed
<1>5. QED
  BY <1>4 DEF Recurs

-----------------------------------------------------------------------------
(* Sequences with an element more, and with one less.                      *)
LEMMA PartIs ==
  ASSUME NEW S, NEW s \in Seq(S), NEW a \in Nat \ {0}, NEW b \in Nat, a <= b + 1, b <= Len(s)
  PROVE  /\ SubSeq(s, a, b) \in Seq(S)
         /\ Len(SubSeq(s, a, b)) = b - a + 1
         /\ \A k \in 1..b - a + 1 : SubSeq(s, a, b)[k] = s[a + k - 1]
<1>1. a \in Int /\ b \in Int /\ \A k \in a..b : s[k] \in S
  BY LenProperties
<1>2. /\ SubSeq(s, a, b) \in Seq(S)
      /\ Len(SubSeq(s, a, b)) = IF a <= b THEN b - a + 1 ELSE 0
      /\ \A k \in 1..b - a + 1 : SubSeq(s, a, b)[k] = s[a + k - 1]
  BY <1>1, SubSeqProperties
<1>3. QED
  BY <1>2

LEMMA InsertAtIs ==
  ASSUME NEW S, NEW s \in Seq(S), NEW e \in S, NEW i \in 1..Len(s) + 1
  PROVE  /\ InsertAt(s, i, e) \in Seq(S)
         /\ Len(InsertAt(s, i, e)) = Len(s) + 1
         /\ \A k \in 1..Len(s) + 1 :
              InsertAt(s, i, e)[k] = IF k < i THEN s[k] ELSE IF k = i THEN e ELSE s[k - 1]
<1> DEFINE left == SubSeq(s, 1, i - 1)
           right == SubSeq(s, i, Len(s))
<1>1. s \in [1..Len(s) -> S] /\ Len(s) \in Nat /\ i \in Int /\ i - 1 \in Int /\ 1 \in Int
  BY LenProperties
<1>2. left \in Seq(S) /\ Len(left) = i - 1 /\ \A k \in 1..i - 1 : left[k] = s[k]
  BY <1>1, PartIs
<1>3. right \in Seq(S) /\ Len(right) = Len(s) - i + 1 /\ \A k \in 1..Len(s) - i + 1 : right[k] = s[i + k - 1]
  BY <1>1, PartIs
<1> HIDE DEF left, right
<1>4. <<e>> \in Seq(S) /\ Len(<<e>>) = 1 /\ <<e>>[1] = e
  OBVIOUS
<1>5. /\ left \o <<e>> \in Seq(S)
      /\ Len(left \o <<e>>) = i
      /\ \A k \in 1..i : (left \o <<e>>)[k] = IF k < i THEN s[k] ELSE e
  BY <1>1, <1>2, <1>4, ConcatProperties
<1>6. /\ (left \o <<e>>) \o right \in Seq(S)
      /\ Len((left \o <<e>>) \o right) = i + Len(right)
      /\ \A k \in 1..i + Len(right) : ((left \o <<e>>) \o right)[k] =
                                       IF k <= i THEN (left \o <<e>>)[k] ELSE right[k - i]
  <2>1. ASSUME NEW l \in Seq(S), Len(l) = i
        PROVE  /\ l \o right \in Seq(S)
               /\ Len(l \o right) = i + Len(right)
               /\ \A k \in 1..i + Len(right) :
                    (l \o right)[k] = IF k <= i THEN l[k] ELSE right[k - i]
    BY <1>3, <2>1, ConcatProperties
  <2>2. QED
    BY <1>5, <2>1
<1>7. InsertAt(s, i, e) = (left \o <<e>>) \o right
  BY DEF InsertAt, left, right
<1>8. i + Len(right) = Len(s) + 1
  BY <1>1, <1>3
<1>9. ASSUME NEW k \in 1..Len(s) + 1
      PROVE  ((left \o <<e>>) \o right)[k] = IF k < i THEN s[k] ELSE IF k = i THEN e ELSE s[k - 1]
  <2>1. CASE k <= i
    BY <1>1, <1>5, <1>6, <1>8, <2>1
  <2>2. CASE k > i
    <3>1. k - i \in 1..Len(s) - i + 1 /\ i + (k - i) - 1 = k - 1 /\ ~ k < i /\ k # i
      BY <1>1, <2>2
    <3>2. ((left \o <<e>>) \o right)[k] = right[k - i]
      BY <1>1, <1>6, <1>8, <2>2
    <3>3. right[k - i] = s[i + (k - i) - 1]
      BY <1>3, <3>1
    <3>4. QED
      BY <3>1, <3>2, <3>3
  <2>3. k <= i \/ k > i
    BY <1>1
  <2>4. QED
    BY <2>1, <2>2, <2>3, Zenon
<1>10. QED
  BY <1>6, <1>7, <1>8, <1>9

LEMMA RemoveAtIs ==
  ASSUME NEW S, NEW s \in Seq(S), NEW i \in 1..Len(s)
  PROVE  /\ RemoveAt(s, i) \in Seq(S)
         /\ Len(RemoveAt(s, i)) = Len(s) - 1
         /\ \A k \in 1..Len(s) - 1 : RemoveAt(s, i)[k] = IF k < i THEN s[k] ELSE s[k + 1]
<1> DEFINE left == SubSeq(s, 1, i - 1)
           right == SubSeq(s, i + 1, Len(s))
<1>1. s \in [1..Len(s) -> S] /\ Len(s) \in Nat /\ i + 1 \in Int /\ i - 1 \in Int /\ 1 \in Int
  BY LenProperties
<1>2. left \in Seq(S) /\ Len(left) = i - 1 /\ \A k \in 1..i - 1 : left[k] = s[k]
  BY <1>1, PartIs
<1>3. right \in Seq(S) /\ Len(right) = Len(s) - i /\ \A k \in 1..Len(s) - i : right[k] = s[(i + 1) + k - 1]
  <2>1. ASSUME NEW a \in Nat \ {0}, a = i + 1
        PROVE  /\ SubSeq(s, a, Len(s)) \in Seq(S)
               /\ Len(SubSeq(s, a, Len(s))) = Len(s) - i
               /\ \A k \in 1..Len(s) - i : SubSeq(s, a, Len(s))[k] = s[a + k - 1]
    <3>1. a <= Len(s) + 1 /\ Len(s) - a + 1 = Len(s) - i
      BY <1>1, <2>1
    <3>2. /\ SubSeq(s, a, Len(s)) \in Seq(S)
          /\ Len(SubSeq(s, a, Len(s))) = Len(s) - a + 1
          /\ \A k \in 1..Len(s) - a + 1 : SubSeq(s, a, Len(s))[k] = s[a + k - 1]
      <4>1. Len(s) \in Nat /\ a <= Len(s) + 1 /\ Len(s) <= Len(s)
        BY <1>1, <3>1
      <4>2. QED
        BY <4>1, PartIs
    <3>3. QED
      BY <3>1, <3>2
  <2>2. i + 1 \in Nat \ {0}
    OBVIOUS
  <2>3. QED
    BY <2>1, <2>2
<1> HIDE DEF left, right
<1>4. /\ left \o right \in Seq(S)
      /\ Len(left \o right) = Len(left) + Len(right)
      /\ \A k \in 1..Len(left) + Len(right) :
           (left \o right)[k] = IF k <= Len(left) THEN left[k] ELSE right[k - Len(left)]
  BY <1>2, <1>3, ConcatProperties
<1>5. RemoveAt(s, i) = left \o right
  BY DEF RemoveAt, left, right
<1>6. Len(left) + Len(right) = Len(s) - 1
  BY <1>1, <1>2, <1>3
<1>7. ASSUME NEW k \in 1..Len(s) - 1
      PROVE  (left \o right)[k] = IF k < i THEN s[k] ELSE s[k + 1]
  <2>1. CASE k < i
    BY <1>1, <1>2, <1>4, <1>6, <2>1
  <2>2. CASE k >= i
    <3>1. k - (i - 1) \in 1..Len(s) - i /\ (i + 1) + (k - (i - 1)) - 1 = k + 1 /\ ~ k < i
      BY <1>1, <2>2
    <3>2. (left \o right)[k] = right[k - (i - 1)]
      BY <1>1, <1>2, <1>4, <1>6, <2>2
    <3>3. right[k - (i - 1)] = s[(i + 1) + (k - (i - 1)) - 1]
      BY <1>3, <3>1
    <3>4. QED
      BY <3>1, <3>2, <3>3
  <2>3. k < i \/ k >= i
    BY <1>1
  <2>4. QED
    BY <2>1, <2>2, <2>3, Zenon
<1>8. QED
  BY <1>4, <1>5, <1>6, <1>7

-----------------------------------------------------------------------------
Texts == Seq(STRING)

-----------------------------------------------------------------------------
(* Parts of texts.                                                         *)
LEMMA PartOfText ==
  ASSUME NEW s \in Texts, NEW i \in Nat \ {0}, NEW j \in Int, j <= Len(s)
  PROVE  /\ SubSeq(s, i, j) \in Texts
         /\ Len(SubSeq(s, i, j)) = IF i <= j THEN j - i + 1 ELSE 0
         /\ \A k \in 1..j - i + 1 : SubSeq(s, i, j)[k] = s[i + k - 1]
<1>1. \A k \in i..j : s[k] \in STRING
  <2>1. \A k \in i..j : k \in 1..Len(s)
    BY DEF Texts
  <2>2. QED
    BY <2>1, ElementOfSeq DEF Texts
<1>2. i \in Int
  OBVIOUS
<1>3. QED
  BY <1>1, <1>2, SubSeqProperties, SMT DEF Texts

(* Where a needle is in a line: at its first place.                         *)
LEMMA StrstrIs ==
  ASSUME NEW line \in Texts, NEW needle \in Texts, NEW at, at = strstr(line, needle)
  PROVE  /\ at \in Nat
         /\ at > 0 => /\ at + Len(needle) - 1 <= Len(line)
                      /\ SubSeq(line, at, at + Len(needle) - 1) = needle
         /\ \A i \in Nat : /\ i > 0 /\ i + Len(needle) - 1 <= Len(line)
                           /\ SubSeq(line, i, i + Len(needle) - 1) = needle
                           => at > 0 /\ at <= i
<1> DEFINE Hits == {i \in 1..Len(line) - Len(needle) + 1 :
                      SubSeq(line, i, i + Len(needle) - 1) = needle}
<1>1. at = IF Hits = {} THEN 0 ELSE CHOOSE i \in Hits : \A j \in Hits : i <= j
  BY DEF strstr
<1>2. Len(line) \in Nat /\ Len(needle) \in Nat
  BY DEF Texts
<1>3. \A i \in Nat : i \in Hits <=> /\ i > 0 /\ i + Len(needle) - 1 <= Len(line)
                                    /\ SubSeq(line, i, i + Len(needle) - 1) = needle
  BY <1>2
<1>4. Hits \in SUBSET Nat
  BY <1>2
<1>5. 0 \notin Hits
  OBVIOUS
<1> HIDE DEF Hits
<1>6. CASE Hits = {}
  <2>1. at = 0
    BY <1>1, <1>6
  <2>2. \A i \in Nat : i \notin Hits
    BY <1>6
  <2>3. ASSUME NEW i \in Nat, i > 0, i + Len(needle) - 1 <= Len(line),
               SubSeq(line, i, i + Len(needle) - 1) = needle
        PROVE  FALSE
    BY <1>3, <2>2, <2>3
  <2>4. at \in Nat /\ ~ (at > 0)
    BY <2>1
  <2>5. QED
    BY <2>3, <2>4
<1>7. CASE Hits # {}
  <2>1. \E i \in Hits : \A j \in Hits : i <= j
    BY <1>4, <1>7, LeastNumber
  <2>2. at \in Hits /\ \A j \in Hits : at <= j
    BY <1>1, <1>7, <2>1
  <2>3. at \in Nat /\ at > 0
    BY <1>4, <1>5, <2>2
  <2>4. QED
    BY <1>3, <2>2, <2>3
<1>8. QED
  BY <1>6, <1>7

LEMMA FromIs ==
  ASSUME NEW line \in Texts, NEW i \in Nat
  PROVE  /\ From(line, i) \in Texts
         /\ i > 0 => /\ Len(From(line, i)) = IF i <= Len(line) THEN Len(line) - i + 1 ELSE 0
                     /\ \A k \in 1..Len(line) - i + 1 : From(line, i)[k] = line[i + k - 1]
         /\ Len(From(line, i)) <= Len(line)
<1>1. Len(line) \in Nat /\ Len(line) <= Len(line) /\ Len(line) \in Int
  BY DEF Texts
<1>2. CASE i = 0
  BY <1>1, <1>2 DEF From, Texts
<1>3. CASE i # 0
  <2>1. i \in Nat \ {0} /\ From(line, i) = SubSeq(line, i, Len(line))
    BY <1>3 DEF From
  <2>2. QED
    BY <1>1, <2>1, PartOfText
<1>4. QED
  BY <1>2, <1>3

LEMMA BeforeIs ==
  ASSUME NEW line \in Texts, NEW i \in Nat, i <= Len(line) + 1
  PROVE  /\ Before(line, i) \in Texts
         /\ Len(Before(line, i)) = IF i = 0 THEN 0 ELSE i - 1
         /\ \A k \in 1..i - 1 : Before(line, i)[k] = line[k]
<1>1. Len(line) \in Nat /\ i - 1 \in Int /\ i - 1 <= Len(line) /\ 1 \in Nat \ {0}
  BY DEF Texts
<1>2. /\ SubSeq(line, 1, i - 1) \in Texts
      /\ Len(SubSeq(line, 1, i - 1)) = IF 1 <= i - 1 THEN (i - 1) - 1 + 1 ELSE 0
      /\ \A k \in 1..(i - 1) - 1 + 1 : SubSeq(line, 1, i - 1)[k] = line[1 + k - 1]
  BY <1>1, PartOfText
<1>3. QED
  BY <1>2 DEF Before

LEMMA UntilIs ==
  ASSUME NEW text \in Texts, NEW mark \in Texts
  PROVE  Until(text, mark) \in Texts /\ Len(Until(text, mark)) <= Len(text)
<1>1. Len(text) \in Nat /\ Len(mark) \in Nat
  BY DEF Texts
<1>2. CASE Has(text, mark)
  <2>1. ASSUME NEW at, at = strstr(text, mark)
        PROVE  at \in Nat /\ at > 0 /\ at <= Len(text) + 1
    BY <1>1, <1>2, <2>1, StrstrIs DEF Has
  <2>2. ASSUME NEW at, at = strstr(text, mark)
        PROVE  Before(text, at) \in Texts /\ Len(Before(text, at)) <= Len(text)
    <3>1. /\ Before(text, at) \in Texts
          /\ Len(Before(text, at)) = IF at = 0 THEN 0 ELSE at - 1
      BY <2>1, <2>2, BeforeIs
    <3>2. QED
      BY <1>1, <2>1, <2>2, <3>1
  <2>3. QED
    BY <1>2, <2>2 DEF Until
<1>3. CASE ~ Has(text, mark)
  BY <1>1, <1>3 DEF Until
<1>4. QED
  BY <1>2, <1>3

(* A line is what is before a needle, the needle, and what is behind it.    *)
LEMMA LineIsParts ==
  ASSUME NEW line \in Texts, NEW needle \in Texts, NEW at, at = strstr(line, needle), at > 0
  PROVE  /\ Before(line, at) \in Texts /\ Len(Before(line, at)) = at - 1
         /\ From(line, at + Len(needle)) \in Texts
         /\ Len(From(line, at + Len(needle))) = Len(line) - (at - 1) - Len(needle)
         /\ at + Len(needle) - 1 <= Len(line)
         /\ line = Before(line, at) \o (needle \o From(line, at + Len(needle)))
<1>1. Len(line) \in Nat /\ Len(needle) \in Nat
  BY DEF Texts
<1>2. /\ at \in Nat \ {0} /\ at + Len(needle) - 1 <= Len(line)
      /\ SubSeq(line, at, at + Len(needle) - 1) = needle
  BY <1>1, StrstrIs
<1>3. Before(line, at) \in Texts /\ Len(Before(line, at)) = at - 1
  <2>1. at \in Nat /\ at # 0 /\ at <= Len(line) + 1
    BY <1>1, <1>2
  <2>2. QED
    BY <2>1, BeforeIs
<1>4. ASSUME NEW j \in Nat, j = at + Len(needle)
      PROVE  /\ From(line, j) \in Texts
             /\ Len(From(line, j)) = Len(line) - (at - 1) - Len(needle)
  <2>1. /\ From(line, j) \in Texts
        /\ j > 0 => Len(From(line, j)) = IF j <= Len(line) THEN Len(line) - j + 1 ELSE 0
    BY FromIs
  <2>2. j > 0 /\ j <= Len(line) + 1 /\ at \in Nat
    BY <1>1, <1>2, <1>4, SMTT(30)
  <2>3. QED
    BY <1>1, <1>4, <2>1, <2>2
<1>5. line = Before(line, at) \o (needle \o From(line, at + Len(needle)))
  <2>1. ASSUME NEW k \in Int, k = at + Len(needle) - 1
        PROVE  SubSeq(line, at, k) \o SubSeq(line, k + 1, Len(line)) = SubSeq(line, at, Len(line))
    <3>1. at \in 1..Len(line) + 1 /\ k \in at - 1..Len(line) /\ Len(line) \in k..Len(line)
      BY <1>1, <1>2, <2>1, SMTT(30)
    <3>2. QED
      BY <3>1, ConcatAdjacentSubSeq DEF Texts
  <2>2. ASSUME NEW k \in Int, k = at - 1
        PROVE  SubSeq(line, 1, k) \o SubSeq(line, k + 1, Len(line)) = SubSeq(line, 1, Len(line))
    <3>1. 1 \in 1..Len(line) + 1 /\ k \in 1 - 1..Len(line) /\ Len(line) \in k..Len(line)
      BY <1>1, <1>2, <2>2
    <3>2. QED
      BY <3>1, ConcatAdjacentSubSeq DEF Texts
  <2>3. SubSeq(line, 1, Len(line)) = line
    BY SubSeqFull DEF Texts
  <2>4. ASSUME NEW k \in Int, k = at + Len(needle) - 1
        PROVE  needle \o From(line, at + Len(needle)) = SubSeq(line, at, Len(line))
    <3>1. k + 1 = at + Len(needle) /\ at + Len(needle) # 0
      BY <1>1, <1>2, <2>4
    <3>2. SubSeq(line, at, k) = needle
      BY <1>2, <2>4
    <3>3. From(line, at + Len(needle)) = SubSeq(line, k + 1, Len(line))
      BY <3>1 DEF From
    <3>4. QED
      BY <2>1, <2>4, <3>2, <3>3
  <2>5. at + Len(needle) - 1 \in Int /\ at - 1 \in Int /\ (at - 1) + 1 = at
    BY <1>1, <1>2
  <2>6. needle \o From(line, at + Len(needle)) = SubSeq(line, at, Len(line))
    BY <2>4, <2>5
  <2>7. Before(line, at) \o SubSeq(line, at, Len(line)) = line
    BY <2>2, <2>3, <2>5 DEF Before
  <2>8. QED
    BY <2>6, <2>7
<1>6. at + Len(needle) \in Nat
  BY <1>1, <1>2
<1>7. /\ From(line, at + Len(needle)) \in Texts
      /\ Len(From(line, at + Len(needle))) = Len(line) - (at - 1) - Len(needle)
  BY <1>4, <1>6
<1>8. QED
  BY <1>2, <1>3, <1>5, <1>7

-----------------------------------------------------------------------------
(* FlattenSeq.  f[i] is what the first i texts are, one behind another.     *)
Sums(f, seqs) ==
  /\ f \in [1..Len(seqs) -> Texts]
  /\ \A i \in 1..Len(seqs) : f[i] = IF i = 1 THEN seqs[i] ELSE f[i - 1] \o seqs[i]

LEMMA TextsJoin ==
  ASSUME NEW s \in Texts, NEW t \in Texts
  PROVE  s \o t \in Texts /\ Len(s \o t) = Len(s) + Len(t)
  BY ConcatProperties DEF Texts

LEMMA TextsAssociate ==
  ASSUME NEW s \in Texts, NEW t \in Texts, NEW u \in Texts
  PROVE  (s \o t) \o u = s \o (t \o u)
<1>1. ASSUME NEW S, S = STRING
      PROVE  (s \o t) \o u = s \o (t \o u)
  <2>1. s \in Seq(S) /\ t \in Seq(S) /\ u \in Seq(S)
    BY <1>1 DEF Texts
  <2>2. QED
    BY <2>1, ConcatAssociative
<1>2. QED
  BY <1>1

InARow(s, t, u) == s \o (t \o u) = (s \o t) \o u

LEMMA ThreeTexts ==
  ASSUME NEW s \in Texts, NEW t \in Texts, NEW u \in Texts
  PROVE  InARow(s, t, u)
BY TextsAssociate DEF InARow

LEMMA SumsExist ==
  ASSUME NEW seqs \in Seq(Texts), seqs # <<>>
  PROVE  \E f : Sums(f, seqs)
<1> DEFINE D == 1..Len(seqs)
           size == [i \in D |-> i]
           before == [i \in D |-> IF i = 1 THEN 1 ELSE i - 1]
           made == [i \in D |-> [r \in Texts |-> IF i = 1 THEN seqs[i] ELSE r \o seqs[i]]]
<1>1. Len(seqs) \in Nat /\ Len(seqs) > 0 /\ 1 \in D
  <2>1. Len(seqs) \in Nat \ {0}
    BY EmptySeq
  <2>2. QED
    BY <2>1
<1>2. size \in [D -> Nat] /\ before \in [D -> D]
  BY <1>1
<1>3. \A i \in D : seqs[i] \in Texts
  BY ElementOfSeq
<1>4. made \in [D -> [Texts -> Texts]]
  <2>1. ASSUME NEW i \in D, NEW r \in Texts
        PROVE  (IF i = 1 THEN seqs[i] ELSE r \o seqs[i]) \in Texts
    <3>1. seqs[i] \in Texts
      BY <1>3
    <3> HIDE DEF D
    <3>2. r \o seqs[i] \in Texts
      BY <3>1, TextsJoin
    <3>3. QED
      BY <3>1, <3>2
  <2> HIDE DEF D
  <2>2. QED
    BY <2>1
<1>5. \A i \in D : Stops(i, D, Texts, size, before, made)
  <2>1. ASSUME NEW i \in D
        PROVE  size[before[i]] < size[i] \/ \A r, s \in Texts : made[i][r] = made[i][s]
    <3>1. CASE i = 1
      <4>1. \A r \in Texts : made[i][r] = seqs[i]
        BY <3>1
      <4> HIDE DEF made
      <4>2. QED
        BY <4>1
    <3>2. CASE i # 1
      <4>1. i - 1 \in D /\ before[i] = i - 1
        BY <1>1, <3>2
      <4>2. size[i - 1] = i - 1 /\ size[i] = i
        BY <4>1
      <4>3. QED
        BY <4>1, <4>2
    <3>3. QED
      BY <3>1, <3>2
  <2> HIDE DEF D, size, before, made
  <2>2. QED
    BY <2>1 DEF Stops
<1>6. <<>> \in Texts
  BY DEF Texts
<1>7. PICK f : Recurs(f, D, Texts, before, made)
  <2> HIDE DEF D, size, before, made
  <2>1. QED
    BY <1>2, <1>4, <1>5, <1>6, TailRecursion
<1>8. ASSUME NEW i \in D
      PROVE  f[i] = IF i = 1 THEN seqs[i] ELSE f[i - 1] \o seqs[i]
  <2>1. f[i] = made[i][f[before[i]]] /\ f[before[i]] \in Texts
    BY <1>2, <1>7 DEF Recurs
  <2>2. made[i][f[before[i]]] = IF i = 1 THEN seqs[i] ELSE f[before[i]] \o seqs[i]
    BY <2>1
  <2>3. i # 1 => before[i] = i - 1
    OBVIOUS
  <2>4. QED
    BY <2>1, <2>2, <2>3
<1>9. Sums(f, seqs)
  BY <1>7, <1>8 DEF Sums, Recurs
<1>10. QED
  BY <1>9

LEMMA FlattenIs ==
  ASSUME NEW seqs \in Seq(Texts), seqs # <<>>, NEW f, Sums(f, seqs)
  PROVE  FlattenSeq(seqs) = f[Len(seqs)]
<1> DEFINE Body(h) == [i \in 1..Len(seqs) |-> IF i = 1 THEN seqs[i] ELSE h[i - 1] \o seqs[i]]
           g == CHOOSE h : h = Body(h)
<1>1. Len(seqs) \in Nat /\ Len(seqs) > 0
  <2>1. Len(seqs) \in Nat \ {0}
    BY EmptySeq
  <2>2. QED
    BY <2>1
<1>2. FlattenSeq(seqs) = g[Len(seqs)]
  BY <1>1 DEF FlattenSeq
<1>3. f = Body(f)
  BY DEF Sums
<1>4. g = Body(g)
  <2> HIDE DEF Body
  <2>1. QED
    BY <1>3
<1> DEFINE T == {i \in Nat : i \in 1..Len(seqs) => g[i] = f[i]}
<1>5. ASSUME NEW i \in 1..Len(seqs)
      PROVE  g[i] = IF i = 1 THEN seqs[i] ELSE g[i - 1] \o seqs[i]
  <2>1. Body(g)[i] = IF i = 1 THEN seqs[i] ELSE g[i - 1] \o seqs[i]
    OBVIOUS
  <2> HIDE DEF g, Body
  <2>2. QED
    BY <1>4, <2>1
<1> HIDE DEF g
<1>6. 0 \in T
  OBVIOUS
<1>7. ASSUME NEW i \in Nat, i \in T
      PROVE  i + 1 \in T
  <2>1. ASSUME i + 1 \in 1..Len(seqs), NEW k, k = i + 1
        PROVE  g[k] = f[k]
    <3>1. g[k] = IF k = 1 THEN seqs[k] ELSE g[k - 1] \o seqs[k]
      BY <1>5, <2>1
    <3>2. f[k] = IF k = 1 THEN seqs[k] ELSE f[k - 1] \o seqs[k]
      BY <2>1 DEF Sums
    <3>3. k # 1 => g[k - 1] = f[k - 1]
      BY <1>1, <1>7, <2>1
    <3>4. QED
      BY <3>1, <3>2, <3>3
  <2>2. QED
    BY <2>1
<1>8. Len(seqs) \in T
  <2> HIDE DEF T
  <2>1. QED
    BY <1>1, <1>6, <1>7, AllNumbers
<1>9. QED
  BY <1>1, <1>2, <1>8

LEMMA FlattenType ==
  ASSUME NEW seqs \in Seq(Texts)
  PROVE  FlattenSeq(seqs) \in Texts
<1>1. CASE seqs = <<>>
  <2>1. FlattenSeq(seqs) = <<>>
    BY <1>1 DEF FlattenSeq
  <2>2. QED
    BY <2>1 DEF Texts
<1>2. CASE seqs # <<>>
  <2>1. PICK f : Sums(f, seqs)
    BY <1>2, SumsExist
  <2>2. Len(seqs) \in Nat \ {0}
    BY <1>2, EmptySeq
  <2>3. FlattenSeq(seqs) = f[Len(seqs)]
    BY <1>2, <2>1, FlattenIs
  <2>4. Len(seqs) \in 1..Len(seqs)
    BY <2>2
  <2>5. f[Len(seqs)] \in Texts
    BY <2>1, <2>4 DEF Sums
  <2>6. QED
    BY <2>3, <2>5
<1>3. QED
  BY <1>1, <1>2

(* The texts but the first are put behind the first.                        *)
LEMMA FlattenHead ==
  ASSUME NEW x \in Texts, NEW t \in Seq(Texts), NEW seqs \in Seq(Texts),
         Len(seqs) = Len(t) + 1, seqs[1] = x, \A i \in 1..Len(t) : seqs[i + 1] = t[i]
  PROVE  FlattenSeq(seqs) = x \o FlattenSeq(t)
<1>1. Len(t) \in Nat /\ Len(seqs) \in Nat /\ seqs # <<>>
  <2>1. Len(t) \in Nat /\ Len(seqs) \in Nat
    OBVIOUS
  <2>2. QED
    BY <2>1
<1>2. CASE t = <<>>
  <2> DEFINE f == [i \in 1..Len(seqs) |-> x]
  <2>1. Len(seqs) = 1
    BY <1>2
  <2>2. Sums(f, seqs)
    BY <2>1 DEF Sums
  <2>3. FlattenSeq(seqs) = x
    <3>1. FlattenSeq(seqs) = f[Len(seqs)]
      <4> HIDE DEF f
      <4>1. QED
        BY <1>1, <2>2, FlattenIs
    <3>2. QED
      BY <2>1, <3>1
  <2>4. FlattenSeq(t) = <<>>
    BY <1>2 DEF FlattenSeq
  <2>5. QED
    BY <2>3, <2>4, ConcatEmptySeq DEF Texts
<1>3. CASE t # <<>>
  <2>1. PICK g : Sums(g, t)
    BY <1>3, SumsExist
  <2>2. Len(t) > 0
    <3>1. Len(t) \in Nat \ {0}
      BY <1>3, EmptySeq
    <3>2. QED
      BY <3>1
  <2> DEFINE f == [i \in 1..Len(seqs) |-> IF i = 1 THEN x ELSE x \o g[i - 1]]
  <2>3. ASSUME NEW i \in 1..Len(seqs), i # 1
        PROVE  i - 1 \in 1..Len(t) /\ g[i - 1] \in Texts /\ f[i] = x \o g[i - 1]
    <3>1. i - 1 \in 1..Len(t)
      BY <1>1, <2>3
    <3>2. QED
      BY <2>1, <2>3, <3>1 DEF Sums
  <2>4. ASSUME NEW i \in 1..Len(seqs)
        PROVE  f[i] \in Texts
    <3>1. CASE i = 1
      BY <3>1
    <3>2. CASE i # 1
      <4> HIDE DEF f
      <4>1. QED
        BY <2>3, <3>2, TextsJoin
    <3>3. QED
      BY <3>1, <3>2
  <2>5. ASSUME NEW i \in 1..Len(seqs)
        PROVE  f[i] = IF i = 1 THEN seqs[i] ELSE f[i - 1] \o seqs[i]
    <3>1. CASE i = 1
      BY <3>1
    <3>2. CASE i = 2
      <4>1. i # 1 /\ i - 1 = 1 /\ 1 \in 1..Len(seqs) /\ 1 \in 1..Len(t)
        BY <1>1, <2>2, <3>2
      <4>2. f[i] = x \o g[1] /\ f[1] = x /\ g[1] = t[1] /\ seqs[i] = t[1]
        <5>1. f[i] = x \o g[i - 1]
          BY <2>3, <4>1
        <5>2. f[1] = x
          BY <4>1
        <5>3. g[1] = t[1]
          BY <2>1, <4>1 DEF Sums
        <5>4. seqs[1 + 1] = t[1]
          BY <4>1
        <5> HIDE DEF f
        <5>5. QED
          BY <3>2, <4>1, <5>1, <5>2, <5>3, <5>4, SMTT(30)
      <4> HIDE DEF f
      <4>3. QED
        BY <4>1, <4>2
    <3>3. CASE i # 1 /\ i # 2
      <4>1. /\ i - 1 \in 1..Len(seqs) /\ i - 1 # 1
            /\ i - 1 \in 1..Len(t) /\ (i - 1) - 1 \in 1..Len(t)
        BY <1>1, <3>3
      <4>2. f[i] = x \o g[i - 1] /\ f[i - 1] = x \o g[(i - 1) - 1]
        <5> HIDE DEF f
        <5>1. QED
          BY <2>3, <3>3, <4>1
      <4>3. g[i - 1] = g[(i - 1) - 1] \o t[i - 1]
        BY <2>1, <4>1 DEF Sums
      <4>4. seqs[i] = t[i - 1]
        <5>1. ASSUME NEW k \in 1..Len(t), k = i - 1
              PROVE  seqs[i] = t[k]
          <6>1. k + 1 = i
            BY <1>1, <5>1
          <6>2. seqs[k + 1] = t[k]
            OBVIOUS
          <6>3. QED
            BY <6>1, <6>2
        <5>2. QED
          BY <4>1, <5>1
      <4>5. g[(i - 1) - 1] \in Texts /\ t[i - 1] \in Texts
        <5>1. \A k \in 1..Len(t) : t[k] \in Texts /\ g[k] \in Texts
          BY <2>1, ElementOfSeq DEF Sums
        <5>2. QED
          BY <4>1, <5>1
      <4>6. (x \o g[(i - 1) - 1]) \o t[i - 1] = x \o (g[(i - 1) - 1] \o t[i - 1])
        <5>1. InARow(x, g[(i - 1) - 1], t[i - 1])
          BY <4>5, ThreeTexts, Zenon
        <5>2. QED
          BY <5>1, Zenon DEF InARow
      <4> HIDE DEF f
      <4>7. QED
        BY <3>3, <4>2, <4>3, <4>4, <4>6
    <3> HIDE DEF f
    <3>4. QED
      BY <3>1, <3>2, <3>3
  <2>6. f = [i \in 1..Len(seqs) |-> f[i]]
    OBVIOUS
  <2>7. Len(seqs) \in 1..Len(seqs) /\ Len(seqs) # 1 /\ Len(seqs) - 1 = Len(t)
    BY <1>1, <2>2
  <2> HIDE DEF f
  <2>8. Sums(f, seqs)
    BY <2>4, <2>5, <2>6 DEF Sums
  <2>9. FlattenSeq(seqs) = f[Len(seqs)] /\ FlattenSeq(t) = g[Len(t)]
    BY <1>1, <1>3, <2>1, <2>8, FlattenIs
  <2>10. f[Len(seqs)] = x \o g[Len(seqs) - 1]
    BY <2>3, <2>7
  <2>11. QED
    BY <2>7, <2>9, <2>10
<1>4. QED
  BY <1>2, <1>3

-----------------------------------------------------------------------------
(* Split.  What a line is split into, given what is made of the text behind *)
(* the first tag.                                                          *)
BehindMark(rest, tag) == From(rest, strstr(rest, tag) + Len(tag))

Onward(rest, tag, greedy, more) ==
  IF rest = <<>> THEN <<>>
  ELSE IF strstr(rest, tag) = 0 THEN <<rest>>
  ELSE IF Before(rest, strstr(rest, tag)) # <<>>
       THEN <<Before(rest, strstr(rest, tag))>>
              \o (IF BehindMark(rest, tag) = <<>> THEN << <<>> >> ELSE <<>>) \o more
       ELSE (IF greedy THEN <<>> ELSE << <<>> >>) \o more

LEMMA BehindIs ==
  ASSUME NEW rest \in Texts, NEW tag \in Texts
  PROVE  /\ BehindMark(rest, tag) \in Texts
         /\ tag # <<>> /\ strstr(rest, tag) > 0 => Len(BehindMark(rest, tag)) < Len(rest)
         /\ strstr(rest, tag) \in Nat
<1>1. Len(rest) \in Nat /\ Len(tag) \in Nat /\ (tag # <<>> => Len(tag) > 0)
  <2>1. Len(rest) \in Nat /\ Len(tag) \in Nat
    BY DEF Texts
  <2>2. tag # <<>> => Len(tag) \in Nat \ {0}
    BY EmptySeq DEF Texts
  <2>3. QED
    BY <2>1, <2>2
<1>2. strstr(rest, tag) \in Nat
  BY StrstrIs
<1>3. BehindMark(rest, tag) \in Texts
  <2>1. strstr(rest, tag) + Len(tag) \in Nat
    BY <1>1, <1>2
  <2>2. QED
    BY <2>1, FromIs DEF BehindMark
<1>4. ASSUME tag # <<>>, NEW at, at = strstr(rest, tag), at > 0
      PROVE  Len(BehindMark(rest, tag)) < Len(rest)
  <2>1. Len(From(rest, at + Len(tag))) = Len(rest) - (at - 1) - Len(tag)
    BY <1>4, LineIsParts
  <2>2. at \in Nat
    BY <1>2, <1>4
  <2>3. QED
    BY <1>1, <1>4, <2>1, <2>2 DEF BehindMark
<1>5. QED
  BY <1>2, <1>3, <1>4

LEMMA PieceBefore ==
  ASSUME NEW rest \in Texts, NEW tag \in Texts
  PROVE  Before(rest, strstr(rest, tag)) \in Texts
<1>1. ASSUME NEW at, at = strstr(rest, tag)
      PROVE  Before(rest, at) \in Texts
  <2>1. Len(rest) \in Nat /\ Len(tag) \in Nat /\ at \in Nat
    BY <1>1, StrstrIs DEF Texts
  <2>2. at <= Len(rest) + 1
    BY <1>1, <2>1, StrstrIs, SMTT(30)
  <2>3. QED
    BY <2>1, <2>2, BeforeIs
<1>2. QED
  BY <1>1

LEMMA OnwardIs ==
  ASSUME NEW rest \in Texts, NEW tag \in Texts, NEW greedy
  PROVE  /\ \A more \in Seq(Texts) : Onward(rest, tag, greedy, more) \in Seq(Texts)
         /\ strstr(rest, tag) = 0 =>
              \A more, other : Onward(rest, tag, greedy, more) = Onward(rest, tag, greedy, other)
<1>1. strstr(rest, tag) = 0 =>
        \A more, other : Onward(rest, tag, greedy, more) = Onward(rest, tag, greedy, other)
  BY DEF Onward
<1>2. <<>> \in Texts
  BY DEF Texts
<1>3. << <<>> >> \in Seq(Texts) /\ <<>> \in Seq(Texts) /\ <<rest>> \in Seq(Texts)
  BY <1>2
<1>4. Before(rest, strstr(rest, tag)) \in Texts
  BY PieceBefore
<1>5. ASSUME NEW more \in Seq(Texts)
      PROVE  Onward(rest, tag, greedy, more) \in Seq(Texts)
  <2>1. ASSUME NEW a \in Seq(Texts), NEW b \in Seq(Texts), NEW c \in Seq(Texts)
        PROVE  a \o b \in Seq(Texts) /\ a \o b \o c \in Seq(Texts)
    BY ConcatProperties
  <2>2. <<Before(rest, strstr(rest, tag))>> \in Seq(Texts)
    BY <1>4
  <2>3. ASSUME NEW d, d = IF BehindMark(rest, tag) = <<>> THEN << <<>> >> ELSE <<>>
        PROVE  d \in Seq(Texts)
    BY <1>3, <2>3
  <2>4. ASSUME NEW d, d = IF greedy THEN <<>> ELSE << <<>> >>
        PROVE  d \in Seq(Texts)
    BY <1>3, <2>4
  <2>5. CASE rest = <<>>
    BY <1>3, <2>5 DEF Onward
  <2>6. CASE rest # <<>> /\ strstr(rest, tag) = 0
    BY <1>3, <2>6 DEF Onward
  <2>7. CASE rest # <<>> /\ strstr(rest, tag) # 0 /\ Before(rest, strstr(rest, tag)) # <<>>
    <3>1. ASSUME NEW d, d = IF BehindMark(rest, tag) = <<>> THEN << <<>> >> ELSE <<>>
          PROVE  <<Before(rest, strstr(rest, tag))>> \o d \o more \in Seq(Texts)
      BY <2>1, <2>2, <2>3, <3>1
    <3>2. QED
      BY <2>7, <3>1 DEF Onward
  <2>8. CASE rest # <<>> /\ strstr(rest, tag) # 0 /\ Before(rest, strstr(rest, tag)) = <<>>
    <3>1. ASSUME NEW d, d = IF greedy THEN <<>> ELSE << <<>> >>
          PROVE  d \o more \in Seq(Texts)
      BY <2>1, <2>4, <3>1
    <3>2. QED
      BY <2>8, <3>1 DEF Onward
  <2>9. QED
    BY <2>5, <2>6, <2>7, <2>8
<1>6. QED
  BY <1>1, <1>5

LEMMA SplitSteps ==
  ASSUME NEW tag \in Texts, tag # <<>>, NEW greedy
  PROVE  \A rest \in Texts :
           /\ Split(rest, tag, greedy) \in Seq(Texts)
           /\ Split(rest, tag, greedy) =
                Onward(rest, tag, greedy, Split(BehindMark(rest, tag), tag, greedy))
<1> DEFINE R == Seq(Texts)
           size == [x \in Texts |-> Len(x)]
           behind == [x \in Texts |-> BehindMark(x, tag)]
           made == [x \in Texts |-> [r \in R |-> Onward(x, tag, greedy, r)]]
           Body(h) == [rest \in Texts |-> Onward(rest, tag, greedy, h[BehindMark(rest, tag)])]
           g == CHOOSE h : h = Body(h)
<1>1. size \in [Texts -> Nat] /\ behind \in [Texts -> Texts]
  <2>1. \A x \in Texts : Len(x) \in Nat
    BY DEF Texts
  <2>2. \A x \in Texts : BehindMark(x, tag) \in Texts
    BY BehindIs
  <2>3. QED
    BY <2>1, <2>2
<1>2. made \in [Texts -> [R -> R]]
  <2>1. \A x \in Texts, r \in R : Onward(x, tag, greedy, r) \in R
    BY OnwardIs
  <2> HIDE DEF R
  <2>2. QED
    BY <2>1
<1>3. ASSUME NEW x \in Texts
      PROVE  Stops(x, Texts, R, size, behind, made)
  <2>1. CASE strstr(x, tag) > 0
    <3>1. size[behind[x]] < size[x]
      <4>1. BehindMark(x, tag) \in Texts /\ Len(BehindMark(x, tag)) < Len(x)
        BY <2>1, BehindIs
      <4>2. QED
        BY <4>1
    <3> HIDE DEF size, behind, made, R
    <3>2. QED
      BY <3>1 DEF Stops
  <2>2. CASE strstr(x, tag) = 0
    <3>1. \A r, s \in R : made[x][r] = made[x][s]
      <4>1. \A r, s : Onward(x, tag, greedy, r) = Onward(x, tag, greedy, s)
        BY <2>2, OnwardIs
      <4>2. \A r \in R : made[x][r] = Onward(x, tag, greedy, r)
        OBVIOUS
      <4> HIDE DEF made, R
      <4>3. QED
        BY <4>1, <4>2
    <3> HIDE DEF size, behind, made, R
    <3>2. QED
      BY <3>1 DEF Stops
  <2>3. strstr(x, tag) \in Nat
    BY BehindIs
  <2>4. QED
    BY <2>1, <2>2, <2>3
<1>4. <<>> \in R
  OBVIOUS
<1>5. PICK h : Recurs(h, Texts, R, behind, made)
  <2> HIDE DEF size, behind, made, R
  <2>1. QED
    BY <1>1, <1>2, <1>3, <1>4, TailRecursion
<1>6. h = Body(h)
  <2>1. h \in [Texts -> R]
    BY <1>5 DEF Recurs
  <2>2. ASSUME NEW x \in Texts
        PROVE  h[x] = Onward(x, tag, greedy, h[BehindMark(x, tag)])
    <3>1. h[x] = made[x][h[behind[x]]]
      BY <1>5 DEF Recurs
    <3>2. behind[x] = BehindMark(x, tag) /\ h[BehindMark(x, tag)] \in R
      BY <2>1, BehindIs
    <3>3. \A r \in R : made[x][r] = Onward(x, tag, greedy, r)
      OBVIOUS
    <3> HIDE DEF made, behind, R
    <3>4. QED
      BY <3>1, <3>2, <3>3
  <2> HIDE DEF R
  <2>3. QED
    BY <2>1, <2>2
<1>7. g = Body(g)
  <2> HIDE DEF Body
  <2>1. QED
    BY <1>6
<1>8. ASSUME NEW line
      PROVE  Split(line, tag, greedy) = g[line]
  BY DEF Split, Onward, BehindMark, Texts
<1>9. ASSUME NEW x \in Texts
      PROVE  g[x] = Onward(x, tag, greedy, g[BehindMark(x, tag)])
  <2>1. Body(g)[x] = Onward(x, tag, greedy, g[BehindMark(x, tag)])
    OBVIOUS
  <2> HIDE DEF g, Body
  <2>2. QED
    BY <1>7, <2>1
<1> HIDE DEF g, Body
<1> DEFINE T == {n \in Nat : \A x \in Texts : Len(x) < n => g[x] \in R}
<1>10. 0 \in T
  <2>1. \A x \in Texts : Len(x) \in Nat
    BY DEF Texts
  <2>2. QED
    BY <2>1
<1>11. ASSUME NEW n \in Nat, n \in T
       PROVE  n + 1 \in T
  <2>1. ASSUME NEW x \in Texts, Len(x) < n + 1
        PROVE  g[x] \in R
    <3>1. CASE strstr(x, tag) = 0
      <4>1. g[x] = Onward(x, tag, greedy, <<>>)
        BY <1>9, <3>1, OnwardIs
      <4>2. QED
        BY <1>4, <4>1, OnwardIs
    <3>2. CASE strstr(x, tag) > 0
      <4>1. BehindMark(x, tag) \in Texts /\ Len(BehindMark(x, tag)) < Len(x)
        BY <3>2, BehindIs
      <4>2. Len(x) \in Nat /\ Len(BehindMark(x, tag)) \in Nat
        BY <4>1 DEF Texts
      <4>3. g[BehindMark(x, tag)] \in R
        BY <1>11, <2>1, <4>1, <4>2
      <4>4. Onward(x, tag, greedy, g[BehindMark(x, tag)]) \in R
        BY <4>3, OnwardIs
      <4>5. QED
        BY <1>9, <4>4
    <3>3. strstr(x, tag) \in Nat
      BY BehindIs
    <3>4. QED
      BY <3>1, <3>2, <3>3
  <2> HIDE DEF R
  <2>2. QED
    BY <2>1
<1>12. \A n \in Nat : n \in T
  <2> HIDE DEF T
  <2>1. QED
    BY <1>10, <1>11, AllNumbers
<1>13. ASSUME NEW x \in Texts
       PROVE  g[x] \in R
  <2>1. Len(x) + 1 \in Nat /\ Len(x) < Len(x) + 1
    BY DEF Texts
  <2>2. ASSUME NEW n \in Nat, n = Len(x) + 1
        PROVE  g[x] \in R
    <3>1. n \in T
      BY <1>12
    <3>2. QED
      BY <2>1, <2>2, <3>1
  <2>3. QED
    BY <2>1, <2>2
<1>14. QED
  <2>1. ASSUME NEW rest \in Texts
        PROVE  /\ Split(rest, tag, greedy) \in Seq(Texts)
               /\ Split(rest, tag, greedy) =
                    Onward(rest, tag, greedy, Split(BehindMark(rest, tag), tag, greedy))
    BY <1>8, <1>9, <1>13
  <2>2. QED
    BY <2>1

(* The pieces of a text, when splitting is not greedy.                      *)
LEMMA PiecesAre ==
  ASSUME NEW x \in Texts, NEW tag \in Texts, tag # <<>>, NEW at, at = strstr(x, tag)
  PROVE  LET more == Split(BehindMark(x, tag), tag, FALSE)
             pieces == Split(x, tag, FALSE)
         IN  /\ more \in Seq(Texts)
             /\ x = <<>> => pieces = <<>>
             /\ x # <<>> /\ at = 0 => pieces = <<x>> \o <<>>
             /\ x # <<>> /\ at # 0 =>
                  pieces = <<Before(x, at)>>
                             \o (IF BehindMark(x, tag) = <<>> /\ Before(x, at) # <<>>
                                 THEN << <<>> >> \o <<>> ELSE more)
<1> DEFINE more == Split(BehindMark(x, tag), tag, FALSE)
           pieces == Split(x, tag, FALSE)
<1>1. pieces = Onward(x, tag, FALSE, more) /\ more \in Seq(Texts)
  <2>1. BehindMark(x, tag) \in Texts
    BY BehindIs
  <2>2. QED
    BY <2>1, SplitSteps
<1>2. Before(x, at) \in Texts /\ <<>> \in Texts
  BY PieceBefore DEF Texts
<1>3. BehindMark(x, tag) = <<>> => more = <<>>
  <2>1. ASSUME BehindMark(x, tag) = <<>>
        PROVE  more = <<>>
    <3>1. Split(<<>>, tag, FALSE) = Onward(<<>>, tag, FALSE, Split(BehindMark(<<>>, tag), tag, FALSE))
      BY <1>2, SplitSteps
    <3>2. QED
      BY <2>1, <3>1 DEF Onward
  <2>2. QED
    BY <2>1
<1> HIDE DEF more, pieces
<1>4. x = <<>> => pieces = <<>>
  BY <1>1 DEF Onward
<1>5. ASSUME NEW s \in Seq(Texts)
      PROVE  s \o <<>> = s /\ <<>> \o s = s
  BY ConcatEmptySeq
<1>6. x # <<>> /\ at = 0 => pieces = <<x>> \o <<>>
  <2>1. <<x>> \in Seq(Texts)
    OBVIOUS
  <2>2. <<x>> \o <<>> = <<x>>
    BY <1>5, <2>1
  <2>3. QED
    BY <1>1, <2>2 DEF Onward
<1>7. ASSUME x # <<>>, at # 0, Before(x, at) # <<>>
      PROVE  pieces = <<Before(x, at)>> \o (IF BehindMark(x, tag) = <<>> THEN << <<>> >> \o <<>> ELSE more)
  <2>1. pieces = <<Before(x, at)>> \o (IF BehindMark(x, tag) = <<>> THEN << <<>> >> ELSE <<>>) \o more
    BY <1>1, <1>7 DEF Onward
  <2>2. ASSUME NEW s \in Seq(Texts), NEW d \in Seq(Texts), NEW m \in Seq(Texts)
        PROVE  (s \o d) \o m = s \o (d \o m)
    BY ConcatAssociative
  <2>3. <<Before(x, at)>> \in Seq(Texts) /\ << <<>> >> \in Seq(Texts) /\ <<>> \in Seq(Texts)
    BY <1>2
  <2>4. CASE BehindMark(x, tag) = <<>>
    <3>1. pieces = (<<Before(x, at)>> \o << <<>> >>) \o <<>>
      BY <1>3, <2>1, <2>4
    <3>2. QED
      BY <2>2, <2>3, <2>4, <3>1
  <2>5. CASE BehindMark(x, tag) # <<>>
    <3>1. pieces = (<<Before(x, at)>> \o <<>>) \o more
      BY <2>1, <2>5
    <3>2. <<Before(x, at)>> \o <<>> = <<Before(x, at)>>
      BY <1>5, <2>3
    <3>3. QED
      BY <2>5, <3>1, <3>2
  <2>6. QED
    BY <2>4, <2>5
<1>8. ASSUME x # <<>>, at # 0, Before(x, at) = <<>>
      PROVE  pieces = <<Before(x, at)>> \o more
  BY <1>1, <1>8 DEF Onward
<1>9. x # <<>> /\ at # 0 =>
        pieces = <<Before(x, at)>>
                   \o (IF BehindMark(x, tag) = <<>> /\ Before(x, at) # <<>>
                       THEN << <<>> >> \o <<>> ELSE more)
  BY <1>7, <1>8
<1>10. QED
  BY <1>1, <1>4, <1>6, <1>9 DEF more, pieces
-----------------------------------------------------------------------------
(* Folds from the left, as the values they take on the sets of the places   *)
(* they have passed: F[k] is the step at place k.                          *)
LEMMA MaxIs ==
  ASSUME NEW n \in Nat, NEW s \in SUBSET (1..n), s # {}
  PROVE  Max(s) \in s /\ \A y \in s : y <= Max(s)
<1> DEFINE T == {n - y : y \in s}
<1>1. T \in SUBSET Nat /\ T # {}
  <2>1. \A y \in s : n - y \in Nat
    OBVIOUS
  <2>2. PICK y : y \in s
    OBVIOUS
  <2>3. n - y \in T
    BY <2>2
  <2>4. T \in SUBSET Nat
    BY <2>1
  <2>5. QED
    BY <2>3, <2>4
<1>2. PICK t \in T : \A u \in T : t <= u
  <2> HIDE DEF T
  <2>1. QED
    BY <1>1, LeastNumber
<1>3. PICK x \in s : t = n - x
  BY <1>2
<1>4. \A y \in s : n - y \in T
  OBVIOUS
<1>5. \A y \in s : x >= y
  <2> HIDE DEF T
  <2>1. ASSUME NEW y \in s
        PROVE  x >= y
    <3>1. n - x <= n - y
      BY <1>2, <1>3, <1>4
    <3>2. x \in Nat /\ y \in Nat
      OBVIOUS
    <3>3. QED
      BY <3>1, <3>2
  <2>2. QED
    BY <2>1
<1>6. \E m \in s : \A y \in s : m >= y
  BY <1>5
<1>7. Max(s) \in s /\ \A y \in s : Max(s) >= y
  BY <1>6 DEF Max
<1>8. QED
  BY <1>7

LEMMA MaxOfInterval ==
  ASSUME NEW k \in Nat, k > 0
  PROVE  Max(1..k) = k /\ (1..k) \ {k} = 1..k - 1
<1>1. Max(1..k) \in 1..k /\ \A y \in 1..k : y <= Max(1..k)
  <2>1. 1..k \in SUBSET (1..k) /\ 1..k # {}
    OBVIOUS
  <2>2. QED
    BY <2>1, MaxIs
<1>2. Max(1..k) = k
  BY <1>1
<1>3. QED
  BY <1>2

(* A fold up to n goes on to n + 1: e says what the step there makes of the *)
(* value on each set of places before.                                     *)
Onto(n, g, e) == [s \in SUBSET (1..n + 1) |-> IF n + 1 \in s THEN e[s \ {n + 1}] ELSE g[s]]

GoesOn(n, g, e, h, s) ==
  /\ n + 1 \in s => /\ Max(s) = n + 1 /\ s \ {n + 1} \in SUBSET (1..n)
                    /\ h[s] = e[s \ {n + 1}] /\ h[s \ {n + 1}] = g[s \ {n + 1}]
  /\ n + 1 \notin s => /\ s \in SUBSET (1..n) /\ h[s] = g[s]
                       /\ h[s \ {Max(s)}] = g[s \ {Max(s)}]

LEMMA OntoIs ==
  ASSUME NEW n \in Nat, NEW g, NEW e, NEW h, h = Onto(n, g, e)
  PROVE  \A s \in SUBSET (1..n + 1) : GoesOn(n, g, e, h, s)
<1> SUFFICES ASSUME NEW s \in SUBSET (1..n + 1)
             PROVE  GoesOn(n, g, e, h, s)
  OBVIOUS
<1>1. ASSUME NEW t \in SUBSET (1..n + 1), n + 1 \notin t
      PROVE  h[t] = g[t] /\ t \in SUBSET (1..n)
  <2>1. h[t] = g[t]
    BY <1>1 DEF Onto
  <2>2. \A k \in t : k \in 1..n
    BY <1>1
  <2>3. QED
    BY <2>1, <2>2
<1>2. CASE n + 1 \in s
  <2>1. Max(s) = n + 1
    <3>1. n + 1 \in Nat /\ s # {}
      BY <1>2
    <3>2. Max(s) \in s /\ n + 1 <= Max(s)
      <4>1. ASSUME NEW m \in Nat, m = n + 1
            PROVE  Max(s) \in s /\ \A y \in s : y <= Max(s)
        BY <3>1, <4>1, MaxIs
      <4>2. QED
        BY <1>2, <3>1, <4>1
    <3>3. PICK x : x = Max(s)
      OBVIOUS
    <3>4. x \in 1..n + 1 /\ n + 1 <= x
      BY <3>2, <3>3
    <3>5. QED
      BY <3>3, <3>4
  <2>2. h[s] = e[s \ {n + 1}]
    BY <1>2 DEF Onto
  <2>3. PICK t : t = s \ {n + 1}
    OBVIOUS
  <2>4. t \in SUBSET (1..n + 1) /\ n + 1 \notin t
    BY <2>3
  <2>5. h[t] = g[t] /\ t \in SUBSET (1..n)
    BY <1>1, <2>4
  <2>6. QED
    BY <1>2, <2>1, <2>2, <2>3, <2>5 DEF GoesOn
<1>3. CASE n + 1 \notin s
  <2>1. PICK t : t = s \ {Max(s)}
    OBVIOUS
  <2>2. t \in SUBSET (1..n + 1) /\ n + 1 \notin t
    BY <1>3, <2>1
  <2>3. h[t] = g[t] /\ h[s] = g[s] /\ s \in SUBSET (1..n)
    BY <1>1, <1>3, <2>2
  <2>4. QED
    BY <1>3, <2>1, <2>3 DEF GoesOn
<1>4. QED
  BY <1>2, <1>3 DEF GoesOn

(* What holds of the value at every place, T[k] at place k.                 *)
LEMMA FoldReaches ==
  ASSUME NEW n \in Nat, NEW g, NEW T, g[{}] \in T[0],
         \A k \in 1..n : g[1..k - 1] \in T[k - 1] => g[1..k] \in T[k]
  PROVE  g[1..n] \in T[n]
<1> DEFINE U == {k \in Nat : k <= n => g[1..k] \in T[k]}
<1>1. 0 \in U
  <2>1. 1..0 = {}
    OBVIOUS
  <2>2. QED
    BY <2>1
<1>2. ASSUME NEW k \in Nat, k \in U
      PROVE  k + 1 \in U
  <2>1. ASSUME NEW j, j = k + 1, j <= n
        PROVE  g[1..j] \in T[j]
    <3>1. j \in 1..n /\ j - 1 = k
      BY <2>1
    <3>2. g[1..j - 1] \in T[j - 1]
      BY <1>2, <2>1, <3>1
    <3>3. QED
      BY <3>1, <3>2
  <2>2. QED
    BY <2>1
<1> HIDE DEF U
<1>3. n \in U
  BY <1>1, <1>2, AllNumbers
<1>4. QED
  BY <1>3 DEF U

-----------------------------------------------------------------------------
(* Parts of texts: what a text begins and ends with, where a mark is in it *)
(* and in what is joined with it, and the texts behind that.               *)

LEMMA OneCharacter ==
  ASSUME NEW c \in STRING
  PROVE  <<c>> \in Texts
<1>1. ASSUME NEW S, NEW d \in S
      PROVE  <<d>> \in Seq(S)
  OBVIOUS
<1>2. QED
  BY <1>1, Zenon DEF Texts

LEMMA LaterPart ==
  ASSUME NEW line \in Texts, NEW i \in Nat \ {0}, NEW j \in Nat, i <= j
  PROVE  Len(From(line, j)) <= Len(From(line, i))
<1>1. Len(line) \in Nat
  BY DEF Texts
<1>2. Len(From(line, j)) = IF j <= Len(line) THEN Len(line) - j + 1 ELSE 0
  <2>1. j > 0
    OBVIOUS
  <2>2. QED
    BY <2>1, FromIs
<1>3. Len(From(line, i)) = IF i <= Len(line) THEN Len(line) - i + 1 ELSE 0
  <2>1. i > 0 /\ i \in Nat
    OBVIOUS
  <2>2. QED
    BY <2>1, FromIs
<1>4. QED
  BY <1>1, <1>2, <1>3

(* What is behind a tag that was found is part of what starts with it.      *)
LEMMA BehindTag ==
  ASSUME NEW line \in Texts, NEW tag \in Texts, NEW at, at = strstr(line, tag)
  PROVE  /\ at \in Nat
         /\ From(line, at) \in Texts /\ From(line, at + Len(tag)) \in Texts
         /\ Len(From(line, at)) <= Len(line) /\ Len(From(line, at + Len(tag))) <= Len(line)
         /\ at # 0 => Len(From(line, at + Len(tag))) <= Len(From(line, at))
<1>1. at \in Nat /\ Len(tag) \in Nat
  BY StrstrIs DEF Texts
<1>2. ASSUME NEW j \in Nat, j = at + Len(tag)
      PROVE  /\ From(line, j) \in Texts /\ Len(From(line, j)) <= Len(line)
             /\ at # 0 => Len(From(line, j)) <= Len(From(line, at))
  <2>1. at # 0 => at \in Nat \ {0} /\ at <= j
    BY <1>1, <1>2
  <2>2. QED
    BY <2>1, FromIs, LaterPart
<1>3. at + Len(tag) \in Nat
  BY <1>1
<1>4. From(line, at) \in Texts /\ Len(From(line, at)) <= Len(line)
  BY <1>1, FromIs
<1>5. QED
  BY <1>1, <1>2, <1>3, <1>4

LEMMA NonEmpty ==
  ASSUME NEW s \in Texts
  PROVE  Len(s) \in Nat /\ (s # <<>> => Len(s) > 0) /\ (s = <<>> => Len(s) = 0)
<1>1. Len(s) \in Nat
  BY DEF Texts
<1>2. s # <<>> => Len(s) \in Nat \ {0}
  BY EmptySeq DEF Texts
<1>3. QED
  BY <1>1, <1>2

LEMMA TailPart ==
  ASSUME NEW said \in Texts, said # <<>>, NEW i \in Nat \ {0}, NEW j \in Int,
         j <= Len(said) - 1, i <= j + 1
  PROVE  SubSeq(Tail(said), i, j) = SubSeq(said, i + 1, j + 1)
<1>1. Len(said) \in Nat
  BY NonEmpty
<1>2. /\ Tail(said) \in Texts /\ Len(Tail(said)) = Len(said) - 1
      /\ \A k \in 1..Len(Tail(said)) : Tail(said)[k] = said[k + 1]
  BY HeadTailProperties DEF Texts
<1>3. /\ SubSeq(Tail(said), i, j) \in Texts
      /\ Len(SubSeq(Tail(said), i, j)) = IF i <= j THEN j - i + 1 ELSE 0
      /\ \A k \in 1..j - i + 1 : SubSeq(Tail(said), i, j)[k] = Tail(said)[i + k - 1]
  BY <1>2, PartOfText
<1>4. ASSUME NEW m \in Nat \ {0}, m = i + 1, NEW n \in Int, n = j + 1
      PROVE  SubSeq(Tail(said), i, j) = SubSeq(said, m, n)
  <2>1. n <= Len(said)
    BY <1>1, <1>4
  <2>2. /\ SubSeq(said, m, n) \in Texts
        /\ Len(SubSeq(said, m, n)) = IF m <= n THEN n - m + 1 ELSE 0
        /\ \A k \in 1..n - m + 1 : SubSeq(said, m, n)[k] = said[m + k - 1]
    BY <2>1, PartOfText
  <2>3. Len(SubSeq(Tail(said), i, j)) = j - i + 1 /\ Len(SubSeq(said, m, n)) = j - i + 1
    BY <1>1, <1>3, <1>4, <2>2
  <2>4. ASSUME NEW k \in 1..j - i + 1
        PROVE  SubSeq(Tail(said), i, j)[k] = SubSeq(said, m, n)[k]
    <3>1. SubSeq(Tail(said), i, j)[k] = Tail(said)[i + k - 1]
      BY <1>3
    <3>2. SubSeq(said, m, n)[k] = said[m + k - 1]
      BY <1>4, <2>2
    <3>3. ASSUME NEW l, l = i + k - 1
          PROVE  Tail(said)[l] = said[m + k - 1]
      <4>1. l \in 1..Len(Tail(said)) /\ m + k - 1 = l + 1
        BY <1>1, <1>2, <1>4, <3>3
      <4>2. QED
        BY <1>2, <4>1
    <3>4. QED
      BY <3>1, <3>2, <3>3
  <2>5. QED
    BY <1>3, <2>2, <2>3, <2>4, SeqEqual DEF Texts
<1>5. i + 1 \in Nat \ {0} /\ j + 1 \in Int
  OBVIOUS
<1>6. QED
  BY <1>4, <1>5

LEMMA StartsWith ==
  ASSUME NEW said \in Texts, NEW search \in Texts
  PROVE  IsPrefix(search, said) <=> strstr(said, search) = 1
<1>1. Len(said) \in Nat /\ Len(search) \in Nat
  BY NonEmpty
<1>2. SubSeq(search, 1, Len(search)) = search
  BY SubSeqFull DEF Texts
<1>3. ASSUME NEW at, at = strstr(said, search), IsPrefix(search, said)
      PROVE  at = 1
  <2>1. SubSeq(said, 1, Len(search)) = search /\ Len(search) <= Len(said)
    BY <1>2, <1>3 DEF IsPrefix
  <2>2. 1 + Len(search) - 1 = Len(search) /\ 1 \in Nat /\ 1 > 0
    BY <1>1
  <2>3. at \in Nat /\ at > 0 /\ at <= 1
    BY <1>3, <2>1, <2>2, StrstrIs, SMTT(30)
  <2>4. QED
    BY <2>3
<1>4. ASSUME strstr(said, search) = 1
      PROVE  IsPrefix(search, said)
  <2>1. 1 + Len(search) - 1 = Len(search) /\ 1 > 0
    BY <1>1
  <2>2. 1 + Len(search) - 1 <= Len(said) /\ SubSeq(said, 1, 1 + Len(search) - 1) = search
    <3>1. ASSUME NEW at, at = strstr(said, search), at > 0
          PROVE  at + Len(search) - 1 <= Len(said) /\ SubSeq(said, at, at + Len(search) - 1) = search
      BY <3>1, StrstrIs
    <3>2. QED
      BY <1>4, <2>1, <3>1
  <2>3. QED
    BY <1>2, <2>1, <2>2 DEF IsPrefix
<1>5. QED
  BY <1>3, <1>4

(* Where an occurrence is that is not at the start.                         *)
LEMMA TailFinds ==
  ASSUME NEW said \in Texts, said # <<>>, NEW search \in Texts,
         NEW at, at = strstr(said, search), at # 1,
         NEW b, b = strstr(Tail(said), search)
  PROVE  /\ at \in Nat /\ b \in Nat
         /\ b = 0 => at = 0
         /\ b # 0 => at = b + 1
<1>1. Len(said) \in Nat /\ Len(search) \in Nat
  BY NonEmpty
<1>2. Tail(said) \in Texts /\ Len(Tail(said)) = Len(said) - 1
  BY HeadTailProperties DEF Texts
<1>3. /\ at \in Nat
      /\ at > 0 => /\ at + Len(search) - 1 <= Len(said)
                   /\ SubSeq(said, at, at + Len(search) - 1) = search
      /\ \A i \in Nat : /\ i > 0 /\ i + Len(search) - 1 <= Len(said)
                        /\ SubSeq(said, i, i + Len(search) - 1) = search
                        => at > 0 /\ at <= i
  BY StrstrIs
<1>4. /\ b \in Nat
      /\ b > 0 => /\ b + Len(search) - 1 <= Len(Tail(said))
                  /\ SubSeq(Tail(said), b, b + Len(search) - 1) = search
      /\ \A i \in Nat : /\ i > 0 /\ i + Len(search) - 1 <= Len(Tail(said))
                        /\ SubSeq(Tail(said), i, i + Len(search) - 1) = search
                        => b > 0 /\ b <= i
  BY <1>2, StrstrIs
<1>5. ASSUME NEW i \in Nat \ {0}, NEW j \in Int, j = i + Len(search) - 1, j <= Len(said) - 1,
             NEW k, k = i + 1
      PROVE  SubSeq(Tail(said), i, j) = SubSeq(said, k, k + Len(search) - 1)
  <2>1. i <= j + 1 /\ j + 1 = k + Len(search) - 1
    BY <1>1, <1>5
  <2>2. SubSeq(Tail(said), i, j) = SubSeq(said, i + 1, j + 1)
    BY <1>5, <2>1, TailPart
  <2>3. QED
    BY <1>5, <2>1, <2>2
<1>6. ASSUME b # 0
      PROVE  at # 0 /\ at <= b + 1
  <2>1. b \in Nat \ {0} /\ b + Len(search) - 1 \in Int /\ b + Len(search) - 1 <= Len(said) - 1
    BY <1>1, <1>2, <1>4, <1>6
  <2>2. ASSUME NEW k \in Nat, k = b + 1
        PROVE  at # 0 /\ at <= k
    <3>1. ASSUME NEW j, j = b + Len(search) - 1
          PROVE  SubSeq(said, k, k + Len(search) - 1) = search
      <4>1. SubSeq(Tail(said), b, j) = search
        BY <1>4, <2>1, <3>1, SMTT(30)
      <4>2. SubSeq(Tail(said), b, j) = SubSeq(said, k, k + Len(search) - 1)
        BY <1>5, <2>1, <2>2, <3>1
      <4>3. QED
        BY <4>1, <4>2
    <3>2. k > 0 /\ k + Len(search) - 1 <= Len(said)
      BY <1>1, <2>1, <2>2
    <3>3. at > 0 /\ at <= k
      BY <1>3, <3>1, <3>2, Zenon
    <3>4. QED
      BY <3>3
  <2>3. QED
    BY <2>1, <2>2
<1>7. ASSUME at # 0
      PROVE  b # 0 /\ b + 1 <= at
  <2>1. at > 0 /\ at - 1 \in Nat \ {0}
    BY <1>3, <1>7
  <2>2. ASSUME NEW i \in Nat \ {0}, at = i + 1
        PROVE  b # 0 /\ b <= i
    <3>1. i + Len(search) - 1 \in Int /\ i + Len(search) - 1 <= Len(said) - 1 /\ i > 0
      BY <1>1, <1>3, <2>1, <2>2
    <3>2. ASSUME NEW j, j = i + Len(search) - 1
          PROVE  SubSeq(Tail(said), i, j) = search
      <4>1. SubSeq(said, at, at + Len(search) - 1) = search
        BY <1>3, <2>1
      <4>2. SubSeq(Tail(said), i, j) = SubSeq(said, at, at + Len(search) - 1)
        BY <1>5, <2>2, <3>1, <3>2
      <4>3. QED
        BY <4>1, <4>2
    <3>3. SubSeq(Tail(said), i, i + Len(search) - 1) = search
      BY <3>2
    <3>4. i + Len(search) - 1 <= Len(Tail(said))
      BY <1>2, <3>1
    <3>5. b > 0 /\ b <= i
      BY <1>4, <3>1, <3>3, <3>4, Zenon
    <3>6. QED
      BY <3>5
  <2>3. at = (at - 1) + 1
    BY <1>3
  <2>4. b # 0 /\ b <= at - 1
    BY <2>1, <2>2, <2>3
  <2>5. QED
    BY <1>3, <1>4, <2>4
<1>8. QED
  BY <1>3, <1>4, <1>6, <1>7

LEMMA TailBefore ==
  ASSUME NEW said \in Texts, NEW b \in Nat \ {0}, b <= Len(said)
  PROVE  Before(said, b + 1) = <<Head(said)>> \o Before(Tail(said), b)
<1>1. Len(said) \in Nat /\ said # <<>>
  BY NonEmpty
<1>2. ASSUME NEW n, n = b
      PROVE  SubSeq(said, 1, n) = <<said[1]>> \o SubSeq(said, 1 + 1, n)
  <2>1. 1 \in 1..Len(said) /\ n \in 1..Len(said)
    BY <1>1, <1>2
  <2>2. QED
    BY <2>1, SubSeqRecursiveFirst DEF Texts
<1>3. Head(said) = said[1]
  BY DEF Texts
<1>4. SubSeq(Tail(said), 1, b - 1) = SubSeq(said, 1 + 1, (b - 1) + 1)
  <2>1. 1 \in Nat \ {0} /\ b - 1 \in Int /\ b - 1 <= Len(said) - 1 /\ 1 <= (b - 1) + 1
    BY <1>1
  <2>2. QED
    BY <1>1, <2>1, TailPart
<1>5. (b - 1) + 1 = b /\ (b + 1) - 1 = b
  OBVIOUS
<1>6. QED
  BY <1>2, <1>3, <1>4, <1>5 DEF Before

LEMMA TailFrom ==
  ASSUME NEW said \in Texts, said # <<>>, NEW j \in Nat \ {0}, j <= Len(said),
         NEW k, k = j + 1
  PROVE  From(said, k) = From(Tail(said), j)
<1>1. Len(said) \in Nat /\ Len(Tail(said)) = Len(said) - 1
  BY HeadTailProperties, NonEmpty DEF Texts
<1>2. SubSeq(Tail(said), j, Len(said) - 1) = SubSeq(said, j + 1, (Len(said) - 1) + 1)
  <2>1. Len(said) - 1 \in Int /\ Len(said) - 1 <= Len(said) - 1 /\ j <= (Len(said) - 1) + 1
    BY <1>1
  <2>2. QED
    BY <1>1, <2>1, TailPart
<1>3. (Len(said) - 1) + 1 = Len(said) /\ k # 0 /\ j # 0
  BY <1>1
<1>4. QED
  BY <1>1, <1>2, <1>3 DEF From

LEMMA HeadTailIs ==
  ASSUME NEW said \in Texts, said # <<>>
  PROVE  said = <<Head(said)>> \o Tail(said)
<1>1. Head(said) \in STRING /\ Tail(said) \in Texts /\ Len(Tail(said)) = Len(said) - 1
      /\ \A k \in 1..Len(Tail(said)) : Tail(said)[k] = said[k + 1]
  BY HeadTailProperties DEF Texts
<1>2. <<Head(said)>> \in Texts /\ Len(<<Head(said)>>) = 1
  BY <1>1, OneCharacter
<1>3. Len(said) \in Nat /\ Len(said) > 0
  BY NonEmpty
<1>4. ASSUME NEW n, n = Len(said)
      PROVE  SubSeq(said, 1, n) = <<said[1]>> \o SubSeq(said, 1 + 1, n)
  <2>1. 1 \in 1..Len(said) /\ n \in 1..Len(said)
    BY <1>3, <1>4
  <2>2. QED
    BY <2>1, SubSeqRecursiveFirst DEF Texts
<1>5. SubSeq(said, 1, Len(said)) = said
  BY SubSeqFull DEF Texts
<1>6. Head(said) = said[1] /\ Tail(said) = SubSeq(said, 1 + 1, Len(said))
  BY TailIsSubSeq DEF Texts
<1>7. QED
  BY <1>4, <1>5, <1>6

(* What holds of a text when it holds of all shorter ones holds of all.     *)
LEMMA ShorterTexts ==
  ASSUME NEW T, \A x \in Texts : (\A y \in Texts : Len(y) < Len(x) => y \in T) => x \in T
  PROVE  \A x \in Texts : x \in T
<1> DEFINE Up == {n \in Nat : \A x \in Texts : Len(x) < n => x \in T}
<1>1. 0 \in Up
  <2>1. \A x \in Texts : Len(x) \in Nat
    BY NonEmpty
  <2>2. QED
    BY <2>1
<1>2. ASSUME NEW n \in Nat, n \in Up
      PROVE  n + 1 \in Up
  <2>1. ASSUME NEW x \in Texts, Len(x) < n + 1
        PROVE  x \in T
    <3>1. ASSUME NEW y \in Texts, Len(y) < Len(x)
          PROVE  y \in T
      <4>1. Len(y) < n
        <5>1. Len(x) \in Nat /\ Len(y) \in Nat
          BY NonEmpty
        <5>2. QED
          BY <2>1, <3>1, <5>1
      <4>2. QED
        BY <1>2, <4>1
    <3>2. QED
      BY <3>1
  <2>2. QED
    BY <2>1
<1>3. \A n \in Nat : n \in Up
  <2> HIDE DEF Up
  <2>1. QED
    BY <1>1, <1>2, AllNumbers
<1>4. ASSUME NEW x \in Texts
      PROVE  x \in T
  <2>1. ASSUME NEW n \in Nat, n = Len(x) + 1
        PROVE  x \in T
    <3>1. n \in Up /\ Len(x) < n
      <4>1. Len(x) \in Nat
        BY NonEmpty
      <4> HIDE DEF Up
      <4>2. QED
        BY <1>3, <2>1, <4>1
    <3>2. QED
      BY <3>1
  <2>2. Len(x) + 1 \in Nat
    BY NonEmpty
  <2>3. QED
    BY <2>1, <2>2
<1>5. QED
  BY <1>4

LEMMA FirstPart ==
  ASSUME NEW s \in Texts, NEW n \in Nat, n <= Len(s)
  PROVE  /\ SubSeq(s, 1, n) \in Texts /\ Len(SubSeq(s, 1, n)) = n
         /\ \A k \in 1..n : SubSeq(s, 1, n)[k] = s[k]
<1>1. \A i \in Nat \ {0} : i = 1 =>
        /\ SubSeq(s, i, n) \in Texts
        /\ Len(SubSeq(s, i, n)) = IF i <= n THEN n - i + 1 ELSE 0
        /\ \A k \in 1..n - i + 1 : SubSeq(s, i, n)[k] = s[i + k - 1]
  BY PartOfText
<1>2. QED
  BY <1>1

EndsWith(x, end) == \E a \in Texts : x = a \o end

(* Merging the pieces of a split.                                           *)
LEMMA SuffixIs ==
  ASSUME NEW x \in Texts, NEW a \in Texts, NEW end \in Texts, x = a \o end
  PROVE  IsSuffix(end, x)
<1>1. /\ Len(a) \in Nat /\ Len(end) \in Nat /\ Len(x) = Len(a) + Len(end)
      /\ \A k \in 1..Len(end) : x[Len(a) + k] = end[k]
  <2>1. /\ Len(a) \in Nat /\ Len(end) \in Nat /\ Len(x) = Len(a) + Len(end)
        /\ \A k \in 1..Len(a) + Len(end) : x[k] = IF k <= Len(a) THEN a[k] ELSE end[k - Len(a)]
    BY ConcatProperties DEF Texts
  <2>2. ASSUME NEW k \in 1..Len(end), NEW i, i = Len(a) + k
        PROVE  x[i] = end[k]
    <3>1. i \in 1..Len(a) + Len(end) /\ ~ (i <= Len(a)) /\ i - Len(a) = k
      BY <2>1, <2>2
    <3>2. QED
      BY <2>1, <3>1
  <2>3. QED
    BY <2>1, <2>2
<1>2. ASSUME NEW s \in Texts
      PROVE  /\ Reverse(s) \in Texts /\ Len(Reverse(s)) = Len(s)
             /\ \A i \in 1..Len(s) : Reverse(s)[i] = s[(Len(s) - i) + 1]
  <2>1. ASSUME NEW i \in 1..Len(s)
        PROVE  s[(Len(s) - i) + 1] \in STRING
    <3>1. (Len(s) - i) + 1 \in 1..Len(s)
      BY DEF Texts
    <3>2. QED
      BY <3>1, ElementOfSeq DEF Texts
  <2>2. Reverse(s) \in [1..Len(s) -> STRING]
    BY <2>1 DEF Reverse
  <2>3. ASSUME NEW f \in [1..Len(s) -> STRING]
        PROVE  f \in Seq(STRING) /\ Len(f) = Len(s)
    <3>1. Len(s) \in Nat
      BY DEF Texts
    <3>2. QED
      BY <3>1
  <2>4. QED
    BY <2>2, <2>3 DEF Reverse, Texts
<1>3. ASSUME NEW i \in 1..Len(end)
      PROVE  Reverse(end)[i] = Reverse(x)[i]
  <2>1. ASSUME NEW k, k = (Len(end) - i) + 1
        PROVE  Reverse(end)[i] = end[k] /\ Reverse(x)[i] = x[Len(a) + k] /\ k \in 1..Len(end)
    <3>1. i \in 1..Len(x) /\ k \in 1..Len(end) /\ (Len(x) - i) + 1 = Len(a) + k
      BY <1>1, <1>3, <2>1
    <3>2. Reverse(end)[i] = end[(Len(end) - i) + 1] /\ Reverse(x)[i] = x[(Len(x) - i) + 1]
      BY <1>2, <1>3, <3>1
    <3>3. QED
      BY <2>1, <3>1, <3>2
  <2>2. QED
    BY <1>1, <2>1
<1>4. ASSUME NEW s \in Texts, NEW t \in Texts, Len(s) <= Len(t), \A i \in 1..Len(s) : s[i] = t[i]
      PROVE  IsPrefix(s, t)
  <2>1. Len(s) \in Nat /\ Len(t) \in Nat
    BY DEF Texts
  <2>2. ASSUME NEW u \in Texts, NEW v \in Texts, Len(u) = Len(s), Len(v) = Len(s),
               \A k \in 1..Len(s) : u[k] = s[k] /\ v[k] = t[k]
        PROVE  u = v
    BY <1>4, <2>1, <2>2, SeqEqual DEF Texts
  <2>3. /\ SubSeq(s, 1, Len(s)) \in Texts /\ SubSeq(t, 1, Len(s)) \in Texts
        /\ Len(SubSeq(s, 1, Len(s))) = Len(s) /\ Len(SubSeq(t, 1, Len(s))) = Len(s)
        /\ \A k \in 1..Len(s) : SubSeq(s, 1, Len(s))[k] = s[k] /\ SubSeq(t, 1, Len(s))[k] = t[k]
    BY <1>4, <2>1, PartOfText
  <2>4. SubSeq(s, 1, Len(s)) = SubSeq(t, 1, Len(s))
    BY <2>2, <2>3
  <2>5. QED
    BY <1>4, <2>4 DEF IsPrefix
<1>5. Len(Reverse(end)) <= Len(Reverse(x)) /\ Reverse(end) \in Texts /\ Reverse(x) \in Texts
  <2>1. Len(Reverse(end)) = Len(end) /\ Len(Reverse(x)) = Len(x) /\ Reverse(end) \in Texts /\ Reverse(x) \in Texts
    BY <1>2
  <2>2. Len(end) <= Len(x)
    BY <1>1
  <2>3. QED
    BY <2>1, <2>2
<1>6. \A i \in 1..Len(Reverse(end)) : Reverse(end)[i] = Reverse(x)[i]
  BY <1>2, <1>3
<1>7. IsPrefix(Reverse(end), Reverse(x))
  BY <1>4, <1>5, <1>6
<1>8. QED
  BY <1>7 DEF IsSuffix

(* Texts, character by character.                                          *)
LEMMA JoinIs ==
  ASSUME NEW s \in Texts, NEW t \in Texts
  PROVE  /\ s \o t \in Texts /\ Len(s \o t) = Len(s) + Len(t)
         /\ Len(s) \in Nat /\ Len(t) \in Nat
         /\ \A i \in 1..Len(s) : (s \o t)[i] = s[i]
         /\ \A i \in 1..Len(t) : (s \o t)[Len(s) + i] = t[i]
BY DEF Texts

LEMMA SameText ==
  ASSUME NEW s \in Texts, NEW t \in Texts, Len(s) = Len(t), \A i \in 1..Len(s) : s[i] = t[i]
  PROVE  s = t
BY SeqEqual DEF Texts

LEMMA NoText0 ==
  ASSUME NEW s \in Texts
  PROVE  /\ <<>> \in Texts /\ Len(<<>>) = 0
         /\ s \o <<>> = s /\ <<>> \o s = s
         /\ Len(s) = 0 <=> s = <<>>
         /\ Len(s) \in Nat
BY DEF Texts

(* A text is its beginning and the rest.                                    *)
LEMMA TextCutIs ==
  ASSUME NEW s \in Texts, NEW n \in Nat, n <= Len(s)
  PROVE  /\ SubSeq(s, 1, n) \in Texts /\ From(s, n + 1) \in Texts
         /\ Len(SubSeq(s, 1, n)) = n /\ Len(From(s, n + 1)) = Len(s) - n
         /\ s = SubSeq(s, 1, n) \o From(s, n + 1)
         /\ Before(s, n + 1) = SubSeq(s, 1, n)
         /\ n = 0 => SubSeq(s, 1, n) = <<>> /\ From(s, n + 1) = s
         /\ n = Len(s) => SubSeq(s, 1, n) = s /\ From(s, n + 1) = <<>>
<1>1. Len(s) \in Nat /\ n + 1 \in Nat /\ n + 1 > 0 /\ (n + 1) - 1 = n
  BY DEF Texts
<1>2. /\ SubSeq(s, 1, n) \in Texts /\ Len(SubSeq(s, 1, n)) = n
      /\ \A k \in 1..n : SubSeq(s, 1, n)[k] = s[k]
  BY FirstPart
<1>3. /\ From(s, n + 1) \in Texts /\ Len(From(s, n + 1)) = Len(s) - n
      /\ \A k \in 1..Len(s) - n : From(s, n + 1)[k] = s[n + k]
  BY <1>1, FromIs
<1>4. s = SubSeq(s, 1, n) \o From(s, n + 1)
  <2> DEFINE a == SubSeq(s, 1, n)
             b == From(s, n + 1)
  <2> HIDE DEF a, b
  <2>1. a \in Texts /\ b \in Texts /\ Len(a) = n /\ Len(b) = Len(s) - n
    BY <1>2, <1>3 DEF a, b
  <2>2. /\ a \o b \in Texts /\ Len(a \o b) = Len(s)
        /\ \A i \in 1..n : (a \o b)[i] = a[i]
        /\ \A i \in 1..Len(s) - n : (a \o b)[n + i] = b[i]
    <3>1. /\ a \o b \in Texts /\ Len(a \o b) = Len(a) + Len(b)
          /\ \A i \in 1..Len(a) : (a \o b)[i] = a[i]
          /\ \A i \in 1..Len(b) : (a \o b)[Len(a) + i] = b[i]
      BY <2>1, JoinIs, Zenon
    <3>2. QED
      BY <1>1, <2>1, <3>1
  <2>3. ASSUME NEW i \in 1..Len(s)
        PROVE  s[i] = (a \o b)[i]
    <3>1. CASE i <= n
      BY <1>1, <1>2, <2>2, <3>1 DEF a
    <3>2. CASE i > n
      <4>1. i - n \in 1..Len(s) - n /\ n + (i - n) = i
        BY <1>1, <3>2
      <4>2. (a \o b)[n + (i - n)] = b[i - n] /\ b[i - n] = s[n + (i - n)]
        BY <1>3, <2>2, <4>1 DEF b
      <4>3. QED
        BY <4>1, <4>2
    <3>3. i <= n \/ i > n
      BY <1>1
    <3>4. QED
      BY <3>1, <3>2, <3>3, Zenon
  <2>4. s = a \o b
    BY <2>2, <2>3, SameText
  <2>5. QED
    BY <2>4 DEF a, b
<1>5. Before(s, n + 1) = SubSeq(s, 1, n)
  BY <1>1 DEF Before
<1>6. n = 0 => SubSeq(s, 1, n) = <<>> /\ From(s, n + 1) = s
  <2>1. n = 0 => SubSeq(s, 1, n) = <<>>
    BY <1>2, NoText0
  <2>2. QED
    BY <1>3, <1>4, <2>1, NoText0
<1>7. n = Len(s) => SubSeq(s, 1, n) = s /\ From(s, n + 1) = <<>>
  <2>1. n = Len(s) => From(s, n + 1) = <<>>
    BY <1>1, <1>3, NoText0
  <2>2. QED
    BY <1>2, <1>4, <2>1, NoText0
<1>8. QED
  BY <1>2, <1>3, <1>4, <1>5, <1>6, <1>7

LEMMA PartsAt ==
  ASSUME NEW x \in Texts, NEW n \in Nat, n > 0, n <= Len(x) + 1
  PROVE  /\ Before(x, n) \in Texts /\ Len(Before(x, n)) = n - 1
         /\ \A k \in 1..n - 1 : Before(x, n)[k] = x[k]
         /\ From(x, n) \in Texts /\ Len(From(x, n)) = Len(x) - n + 1
         /\ \A k \in 1..Len(x) - n + 1 : From(x, n)[k] = x[n + k - 1]
<1>1. Len(x) \in Nat
  BY DEF Texts
<1>2. /\ From(x, n) \in Texts
      /\ Len(From(x, n)) = IF n <= Len(x) THEN Len(x) - n + 1 ELSE 0
      /\ \A k \in 1..Len(x) - n + 1 : From(x, n)[k] = x[n + k - 1]
  BY FromIs
<1>3. Len(From(x, n)) = Len(x) - n + 1
  BY <1>1, <1>2
<1>4. /\ Before(x, n) \in Texts /\ Len(Before(x, n)) = n - 1
      /\ \A k \in 1..n - 1 : Before(x, n)[k] = x[k]
  BY BeforeIs
<1>5. QED
  BY <1>2, <1>3, <1>4

(* A part of two texts, one behind the other.                               *)
LEMMA JoinParts ==
  ASSUME NEW a \in Texts, NEW b \in Texts
  PROVE  /\ \A j \in 1..Len(b) + 1 : /\ Before(a \o b, Len(a) + j) = a \o Before(b, j)
                                    /\ From(a \o b, Len(a) + j) = From(b, j)
         /\ \A j \in 1..Len(a) + 1 : /\ Before(a \o b, j) = Before(a, j)
                                    /\ From(a \o b, j) = From(a, j) \o b
<1> DEFINE s == a \o b
<1>1. /\ s \in Texts /\ Len(s) = Len(a) + Len(b) /\ Len(a) \in Nat /\ Len(b) \in Nat
      /\ \A i \in 1..Len(a) : s[i] = a[i]
      /\ \A i \in 1..Len(b) : s[Len(a) + i] = b[i]
  BY JoinIs
<1> HIDE DEF s
<1>2. ASSUME NEW j \in 1..Len(b) + 1, NEW n, n = Len(a) + j
      PROVE  Before(s, n) = a \o Before(b, j) /\ From(s, n) = From(b, j)
  <2>1. /\ j \in Nat /\ j <= Len(b) + 1 /\ j > 0
        /\ n \in Nat /\ n > 0 /\ n <= Len(s) + 1 /\ n = Len(a) + j
    BY <1>1, <1>2
  <2>2. /\ Before(b, j) \in Texts /\ Len(Before(b, j)) = j - 1
        /\ \A k \in 1..j - 1 : Before(b, j)[k] = b[k]
    BY <2>1, PartsAt
  <2>3. /\ Before(s, n) \in Texts /\ Len(Before(s, n)) = n - 1
        /\ \A k \in 1..n - 1 : Before(s, n)[k] = s[k]
    BY <1>1, <2>1, PartsAt
  <2>4. /\ From(b, j) \in Texts /\ Len(From(b, j)) = Len(b) - j + 1
        /\ \A k \in 1..Len(b) - j + 1 : From(b, j)[k] = b[j + k - 1]
    BY <1>1, <2>1, PartsAt
  <2>5. /\ From(s, n) \in Texts /\ Len(From(s, n)) = Len(s) - n + 1
        /\ \A k \in 1..Len(s) - n + 1 : From(s, n)[k] = s[n + k - 1]
    BY <1>1, <2>1, PartsAt
  <2>6. From(s, n) = From(b, j)
    <3>1. Len(From(s, n)) = Len(From(b, j))
      BY <1>1, <2>1, <2>4, <2>5
    <3>2. ASSUME NEW k \in 1..Len(From(s, n))
          PROVE  From(s, n)[k] = From(b, j)[k]
      <4>1. /\ k \in 1..Len(b) - j + 1 /\ k \in 1..Len(s) - n + 1
            /\ j + k - 1 \in 1..Len(b) /\ n + k - 1 = Len(a) + (j + k - 1)
        BY <1>1, <2>1, <2>4, <2>5
      <4>2. s[Len(a) + (j + k - 1)] = b[j + k - 1]
        BY <1>1, <4>1
      <4>3. QED
        BY <2>4, <2>5, <4>1, <4>2
    <3>3. QED
      BY <2>4, <2>5, <3>1, <3>2, SameText
  <2>7. Before(s, n) = a \o Before(b, j)
    <3> DEFINE p == Before(s, n)
               q == Before(b, j)
    <3>1. /\ a \o q \in Texts /\ Len(a \o q) = Len(a) + Len(q)
          /\ \A i \in 1..Len(a) : (a \o q)[i] = a[i]
          /\ \A i \in 1..Len(q) : (a \o q)[Len(a) + i] = q[i]
      BY <2>2, JoinIs
    <3>2. Len(p) = Len(a \o q)
      BY <1>1, <2>1, <2>2, <2>3, <3>1
    <3>3. ASSUME NEW k \in 1..Len(p)
          PROVE  p[k] = (a \o q)[k]
      <4>1. k \in 1..n - 1 /\ p[k] = s[k]
        BY <2>3
      <4>2. CASE k <= Len(a)
        <5>1. k \in 1..Len(a)
          BY <1>1, <2>1, <4>1, <4>2
        <5>2. QED
          BY <1>1, <3>1, <4>1, <5>1
      <4>3. CASE k > Len(a)
        <5>1. k - Len(a) \in 1..j - 1 /\ k - Len(a) \in 1..Len(b) /\ Len(a) + (k - Len(a)) = k
          <6>1. k \in Nat /\ k <= n - 1
            BY <2>1, <4>1
          <6>2. QED
            BY <1>1, <2>1, <4>3, <6>1
        <5>2. s[Len(a) + (k - Len(a))] = b[k - Len(a)]
          BY <1>1, <5>1
        <5>3. q[k - Len(a)] = b[k - Len(a)]
          BY <2>2, <5>1
        <5>4. (a \o q)[Len(a) + (k - Len(a))] = q[k - Len(a)]
          BY <2>2, <3>1, <5>1
        <5>5. QED
          BY <4>1, <5>1, <5>2, <5>3, <5>4
      <4>4. k <= Len(a) \/ k > Len(a)
        BY <1>1, <2>1, <4>1
      <4>5. QED
        BY <4>2, <4>3, <4>4, Zenon
    <3>4. p \in Texts
      BY <2>3
    <3> HIDE DEF p, q
    <3>5. p = a \o q
      BY <3>1, <3>2, <3>3, <3>4, SameText
    <3>6. QED
      BY <3>5 DEF p, q
  <2>8. QED
    BY <2>6, <2>7
<1>3. ASSUME NEW j \in 1..Len(a) + 1
      PROVE  Before(s, j) = Before(a, j) /\ From(s, j) = From(a, j) \o b
  <2>1. j \in Nat /\ j <= Len(a) + 1 /\ j > 0 /\ j <= Len(s) + 1
    BY <1>1
  <2>2. /\ Before(a, j) \in Texts /\ Len(Before(a, j)) = j - 1
        /\ \A k \in 1..j - 1 : Before(a, j)[k] = a[k]
    BY <2>1, BeforeIs
  <2>3. /\ Before(s, j) \in Texts /\ Len(Before(s, j)) = j - 1
        /\ \A k \in 1..j - 1 : Before(s, j)[k] = s[k]
    BY <1>1, <2>1, BeforeIs
  <2>4. /\ From(a, j) \in Texts /\ Len(From(a, j)) = Len(a) - j + 1
        /\ \A k \in 1..Len(a) - j + 1 : From(a, j)[k] = a[j + k - 1]
    BY <1>1, <2>1, FromIs
  <2>5. /\ From(s, j) \in Texts /\ Len(From(s, j)) = Len(s) - j + 1
        /\ \A k \in 1..Len(s) - j + 1 : From(s, j)[k] = s[j + k - 1]
    BY <1>1, <2>1, PartsAt
  <2>6. Before(s, j) = Before(a, j)
    <3>1. \A k \in 1..j - 1 : Before(s, j)[k] = Before(a, j)[k]
      <4>1. \A k \in 1..j - 1 : k \in 1..Len(a)
        BY <1>1, <2>1
      <4>2. QED
        BY <1>1, <2>2, <2>3, <4>1
    <3>2. QED
      BY <2>2, <2>3, <3>1, SameText
  <2>7. From(s, j) = From(a, j) \o b
    <3> DEFINE p == From(s, j)
               q == From(a, j)
    <3>1. /\ q \o b \in Texts /\ Len(q \o b) = Len(q) + Len(b)
          /\ \A i \in 1..Len(q) : (q \o b)[i] = q[i]
          /\ \A i \in 1..Len(b) : (q \o b)[Len(q) + i] = b[i]
      BY <2>4, JoinIs
    <3>2. Len(p) = Len(q \o b)
      BY <1>1, <2>1, <2>4, <2>5, <3>1
    <3>3. ASSUME NEW k \in 1..Len(p)
          PROVE  p[k] = (q \o b)[k]
      <4>1. k \in 1..Len(s) - j + 1 /\ p[k] = s[j + k - 1]
        BY <2>5
      <4>2. CASE k <= Len(a) - j + 1
        <5>1. k \in 1..Len(q) /\ j + k - 1 \in 1..Len(a) /\ k \in 1..Len(a) - j + 1
          BY <1>1, <2>1, <2>4, <4>1, <4>2
        <5>2. s[j + k - 1] = a[j + k - 1] /\ q[k] = a[j + k - 1]
          BY <1>1, <2>4, <5>1
        <5>3. QED
          BY <3>1, <4>1, <5>1, <5>2
      <4>3. CASE k > Len(a) - j + 1
        <5>1. /\ k - Len(q) \in 1..Len(b) /\ Len(q) + (k - Len(q)) = k
              /\ j + k - 1 = Len(a) + (k - Len(q))
          BY <1>1, <2>1, <2>4, <4>1, <4>3
        <5>2. s[Len(a) + (k - Len(q))] = b[k - Len(q)]
          BY <1>1, <5>1
        <5>3. (q \o b)[Len(q) + (k - Len(q))] = b[k - Len(q)]
          BY <3>1, <5>1
        <5>4. QED
          BY <4>1, <5>1, <5>2, <5>3
      <4>4. k <= Len(a) - j + 1 \/ k > Len(a) - j + 1
        BY <1>1, <2>1, <4>1
      <4>5. QED
        BY <4>2, <4>3, <4>4, Zenon
    <3>4. p \in Texts
      BY <2>5
    <3> HIDE DEF p, q
    <3>5. p = q \o b
      BY <3>1, <3>2, <3>3, <3>4, SameText
    <3>6. QED
      BY <3>5 DEF p, q
  <2>8. QED
    BY <2>6, <2>7
<1>4. ASSUME NEW j \in 1..Len(b) + 1
      PROVE  Before(s, Len(a) + j) = a \o Before(b, j) /\ From(s, Len(a) + j) = From(b, j)
  BY <1>2
<1>5. QED
  BY <1>3, <1>4 DEF s

(* A text begins with another.                                              *)
LEMMA PrefixIs ==
  ASSUME NEW s \in Texts, NEW t \in Texts
  PROVE  IsPrefix(s, t) <=> Len(s) <= Len(t) /\ \A i \in 1..Len(s) : s[i] = t[i]
<1>1. Len(s) \in Nat /\ Len(t) \in Nat
  BY DEF Texts
<1>2. SubSeq(s, 1, Len(s)) = s
  BY <1>1, TextCutIs
<1>3. CASE Len(s) <= Len(t)
  <2>1. /\ SubSeq(t, 1, Len(s)) \in Texts /\ Len(SubSeq(t, 1, Len(s))) = Len(s)
        /\ \A k \in 1..Len(s) : SubSeq(t, 1, Len(s))[k] = t[k]
    BY <1>1, <1>3, FirstPart
  <2>2. s = SubSeq(t, 1, Len(s)) <=> \A i \in 1..Len(s) : s[i] = t[i]
    <3>1. ASSUME \A i \in 1..Len(s) : s[i] = t[i]
          PROVE  s = SubSeq(t, 1, Len(s))
      BY <2>1, <3>1, SameText
    <3>2. ASSUME s = SubSeq(t, 1, Len(s))
          PROVE  \A i \in 1..Len(s) : s[i] = t[i]
      BY <2>1, <3>2
    <3>3. QED
      BY <3>1, <3>2
  <2>3. QED
    BY <1>2, <1>3, <2>2 DEF IsPrefix
<1>4. CASE ~ (Len(s) <= Len(t))
  BY <1>4 DEF IsPrefix
<1>5. QED
  BY <1>3, <1>4

LEMMA PrefixJoins ==
  ASSUME NEW s \in Texts, NEW t \in Texts
  PROVE  /\ IsPrefix(s, s \o t) /\ IsPrefix(s, s)
         /\ IsPrefix(<<>>, s)
         /\ IsPrefix(s, t) => /\ t = s \o From(t, Len(s) + 1)
                              /\ From(t, Len(s) + 1) \in Texts
                              /\ Len(From(t, Len(s) + 1)) = Len(t) - Len(s)
                              /\ s = SubSeq(t, 1, Len(s))
<1>1. Len(s) \in Nat /\ Len(t) \in Nat
  BY DEF Texts
<1>2. IsPrefix(s, s \o t) /\ IsPrefix(s, s)
  <2>1. ASSUME NEW u, u = s \o t
        PROVE  IsPrefix(s, u)
    <3>1. u \in Texts /\ Len(u) = Len(s) + Len(t) /\ \A i \in 1..Len(s) : u[i] = s[i]
      BY <2>1, JoinIs
    <3>2. Len(s) <= Len(u)
      BY <1>1, <3>1
    <3>3. QED
      BY <3>1, <3>2, PrefixIs
  <2>2. IsPrefix(s, s)
    BY <1>1, PrefixIs
  <2>3. QED
    BY <2>1, <2>2
<1>3. IsPrefix(<<>>, s)
  BY <1>1, NoText0, PrefixIs
<1>4. ASSUME IsPrefix(s, t)
      PROVE  /\ t = s \o From(t, Len(s) + 1)
             /\ From(t, Len(s) + 1) \in Texts
             /\ Len(From(t, Len(s) + 1)) = Len(t) - Len(s)
             /\ s = SubSeq(t, 1, Len(s))
  <2>1. Len(s) <= Len(t) /\ SubSeq(s, 1, Len(s)) = SubSeq(t, 1, Len(s))
    BY <1>4 DEF IsPrefix
  <2>2. SubSeq(s, 1, Len(s)) = s
    BY <1>1, TextCutIs
  <2>3. ASSUME NEW n, n = Len(s)
        PROVE  /\ t = SubSeq(t, 1, n) \o From(t, n + 1) /\ From(t, n + 1) \in Texts
               /\ Len(From(t, n + 1)) = Len(t) - n
    <3>1. n \in Nat /\ n <= Len(t)
      BY <1>1, <2>1, <2>3
    <3>2. QED
      BY <3>1, TextCutIs, ZenonT(40)
  <2>4. QED
    BY <2>1, <2>2, <2>3
<1>5. QED
  BY <1>2, <1>3, <1>4

LEMMA PrefixAfter ==
  ASSUME NEW a \in Texts, NEW s \in Texts, NEW t \in Texts
  PROVE  /\ IsPrefix(s, t) => IsPrefix(a \o s, a \o t)
         /\ IsPrefix(a, s) /\ IsPrefix(s, t) => IsPrefix(a, t)
         /\ IsPrefix(s, t) => IsPrefix(s, t \o a)
         /\ IsPrefix(s, t) /\ Len(s) = Len(t) => s = t
<1>1. Len(a) \in Nat /\ Len(s) \in Nat /\ Len(t) \in Nat
  BY DEF Texts
<1>2. ASSUME IsPrefix(s, t)
      PROVE  IsPrefix(a \o s, a \o t) /\ IsPrefix(s, t \o a)
  <2> DEFINE u == From(t, Len(s) + 1)
  <2>1. t = s \o u /\ u \in Texts
    BY <1>2, PrefixJoins
  <2> HIDE DEF u
  <2>2. a \o (s \o u) = (a \o s) \o u /\ (s \o u) \o a = s \o (u \o a)
    <3>1. (a \o s) \o u = a \o (s \o u)
      BY <2>1, TextsAssociate
    <3>2. (s \o u) \o a = s \o (u \o a)
      BY <2>1, TextsAssociate
    <3>3. QED
      BY <3>1, <3>2, Zenon
  <2>3. a \o s \in Texts /\ u \o a \in Texts
    BY <2>1, TextsJoin
  <2>4. IsPrefix(a \o s, (a \o s) \o u) /\ IsPrefix(s, s \o (u \o a))
    BY <2>1, <2>3, PrefixJoins
  <2>5. QED
    BY <2>1, <2>2, <2>4
<1>3. ASSUME IsPrefix(a, s), IsPrefix(s, t)
      PROVE  IsPrefix(a, t)
  BY <1>1, <1>3, PrefixIs
<1>4. ASSUME IsPrefix(s, t), Len(s) = Len(t)
      PROVE  s = t
  BY <1>1, <1>4, PrefixIs, SameText
<1>5. QED
  BY <1>2, <1>3, <1>4

(* Where a character is in a text for the first time.                       *)
FirstPlace(k, x, c) ==
  /\ k \in 0..Len(x)
  /\ k > 0 => x[k] = c /\ \A i \in 1..k - 1 : x[i] # c
  /\ k = 0 => \A i \in 1..Len(x) : x[i] # c

LEMMA FirstIsOne ==
  ASSUME NEW x \in Texts, NEW c, NEW k, NEW l, FirstPlace(k, x, c), FirstPlace(l, x, c)
  PROVE  k = l
<1>1. Len(x) \in Nat
  BY DEF Texts
<1>2. k \in Nat /\ l \in Nat /\ k <= Len(x) /\ l <= Len(x)
  BY <1>1 DEF FirstPlace
<1>3. ~ (k < l) /\ ~ (l < k)
  <2>1. ASSUME k < l
        PROVE  FALSE
    <3>1. CASE k = 0
      BY <1>2, <2>1, <3>1 DEF FirstPlace
    <3>2. CASE k > 0
      BY <1>2, <2>1, <3>2 DEF FirstPlace
    <3>3. QED
      BY <1>2, <3>1, <3>2
  <2>2. ASSUME l < k
        PROVE  FALSE
    <3>1. CASE l = 0
      BY <1>2, <2>2, <3>1 DEF FirstPlace
    <3>2. CASE l > 0
      BY <1>2, <2>2, <3>2 DEF FirstPlace
    <3>3. QED
      BY <1>2, <3>1, <3>2
  <2>3. QED
    BY <2>1, <2>2
<1>4. QED
  BY <1>2, <1>3

LEMMA MarkIs ==
  ASSUME NEW x \in Texts, NEW c \in STRING
  PROVE  FirstPlace(strstr(x, <<c>>), x, c)
<1>1. Len(x) \in Nat /\ <<c>> \in Texts /\ Len(<<c>>) = 1
  <2>1. <<c>> \in Texts
    BY OneCharacter
  <2>2. Len(x) \in Nat /\ Len(<<c>>) = 1
    BY DEF Texts
  <2>3. QED
    BY <2>1, <2>2
<1>2. SUFFICES ASSUME NEW at, at = strstr(x, <<c>>)
               PROVE  FirstPlace(at, x, c)
  OBVIOUS
<1>3. /\ at \in Nat
      /\ at > 0 => /\ at + 1 - 1 <= Len(x)
                   /\ SubSeq(x, at, at + 1 - 1) = <<c>>
      /\ \A i \in Nat : /\ i > 0 /\ i + 1 - 1 <= Len(x)
                        /\ SubSeq(x, i, i + 1 - 1) = <<c>>
                        => at > 0 /\ at <= i
  BY <1>1, <1>2, StrstrIs
<1>4. ASSUME NEW i \in Nat, i > 0, i <= Len(x)
      PROVE  SubSeq(x, i, i + 1 - 1) = <<x[i]>> /\ i + 1 - 1 <= Len(x)
  <2>1. i + 1 - 1 = i /\ i \in Nat \ {0} /\ i \in Int /\ i <= Len(x)
    BY <1>1, <1>4
  <2>2. /\ SubSeq(x, i, i) \in Texts
        /\ Len(SubSeq(x, i, i)) = IF i <= i THEN i - i + 1 ELSE 0
        /\ \A k \in 1..i - i + 1 : SubSeq(x, i, i)[k] = x[i + k - 1]
    BY <2>1, PartOfText
  <2>3. Len(SubSeq(x, i, i)) = 1 /\ SubSeq(x, i, i)[1] = x[i]
    BY <2>1, <2>2
  <2>4. ASSUME NEW y \in Texts, Len(y) = 1
        PROVE  y = <<y[1]>>
    BY <2>4 DEF Texts
  <2>5. SubSeq(x, i, i) = <<x[i]>>
    BY <2>2, <2>3, <2>4
  <2>6. QED
    BY <2>1, <2>5
<1>5. at \in Nat
  BY <1>3
<1>6. at > 0 => at <= Len(x) /\ x[at] = c
  <2>1. at > 0 => at <= Len(x)
    BY <1>1, <1>3, <1>5
  <2>2. at > 0 => <<x[at]>> = <<c>>
    BY <1>3, <1>4, <1>5, <2>1
  <2>3. QED
    BY <2>1, <2>2
<1>7. ASSUME NEW i \in Nat, i > 0, i <= Len(x), x[i] = c
      PROVE  at > 0 /\ at <= i
  <2>1. SubSeq(x, i, i + 1 - 1) = <<c>> /\ i + 1 - 1 <= Len(x)
    BY <1>4, <1>7
  <2>2. QED
    BY <1>3, <1>7, <2>1
<1>8. at \in 0..Len(x)
  <2>1. at > 0 => at <= Len(x)
    BY <1>6
  <2>2. Len(x) \in Nat
    BY <1>1
  <2>3. QED
    BY <1>5, <2>1, <2>2
<1>9. at > 0 => \A i \in 1..at - 1 : x[i] # c
  <2>1. ASSUME at > 0, NEW i \in 1..at - 1, x[i] = c
        PROVE  FALSE
    <3>1. i \in Nat /\ i > 0 /\ i <= Len(x) /\ i < at
      <4>1. Len(x) \in Nat
        BY <1>1
      <4>2. QED
        BY <1>5, <1>8, <2>1, <4>1
    <3>2. at <= i
      BY <1>7, <2>1, <3>1
    <3>3. QED
      BY <1>5, <3>1, <3>2
  <2>2. QED
    BY <2>1
<1>10. at = 0 => \A i \in 1..Len(x) : x[i] # c
  <2>1. ASSUME at = 0, NEW i \in 1..Len(x), x[i] = c
        PROVE  FALSE
    <3>1. i \in Nat /\ i > 0 /\ i <= Len(x)
      BY <1>1
    <3>2. at > 0
      BY <1>7, <2>1, <3>1
    <3>3. QED
      BY <2>1, <3>2
  <2>2. QED
    BY <2>1
<1>11. at > 0 => x[at] = c
  BY <1>6
<1>12. QED
  BY <1>8, <1>9, <1>10, <1>11 DEF FirstPlace

LEMMA MarkAt ==
  ASSUME NEW x \in Texts, NEW c \in STRING, NEW k, FirstPlace(k, x, c)
  PROVE  strstr(x, <<c>>) = k
BY MarkIs, FirstIsOne

(* In one text behind another.                                              *)
LEMMA MarkJoin ==
  ASSUME NEW a \in Texts, NEW b \in Texts, NEW c \in STRING
  PROVE  /\ strstr(a, <<c>>) > 0 => strstr(a \o b, <<c>>) = strstr(a, <<c>>)
         /\ (strstr(a, <<c>>) = 0 /\ strstr(b, <<c>>) > 0)
              => strstr(a \o b, <<c>>) = Len(a) + strstr(b, <<c>>)
         /\ (strstr(a, <<c>>) = 0 /\ strstr(b, <<c>>) = 0) => strstr(a \o b, <<c>>) = 0
<1>1. SUFFICES ASSUME NEW s, s = a \o b, NEW k, k = strstr(a, <<c>>), NEW l, l = strstr(b, <<c>>)
               PROVE  /\ k > 0 => strstr(s, <<c>>) = k
                      /\ (k = 0 /\ l > 0) => strstr(s, <<c>>) = Len(a) + l
                      /\ (k = 0 /\ l = 0) => strstr(s, <<c>>) = 0
  BY Zenon
<1>2. /\ s \in Texts /\ Len(s) = Len(a) + Len(b) /\ Len(a) \in Nat /\ Len(b) \in Nat
      /\ \A i \in 1..Len(a) : s[i] = a[i]
      /\ \A i \in 1..Len(b) : s[Len(a) + i] = b[i]
  BY <1>1, JoinIs
<1>3. FirstPlace(k, a, c) /\ FirstPlace(l, b, c)
  BY <1>1, MarkIs
<1>4. k \in 0..Len(a) /\ l \in 0..Len(b)
  BY <1>3 DEF FirstPlace
<1>5. ASSUME NEW i \in 1..Len(s)
      PROVE  \/ i \in 1..Len(a) /\ s[i] = a[i]
             \/ i - Len(a) \in 1..Len(b) /\ s[i] = b[i - Len(a)]
  <2>1. i \in 1..Len(a) \/ (i - Len(a) \in 1..Len(b) /\ Len(a) + (i - Len(a)) = i)
    BY <1>2
  <2>2. CASE i \in 1..Len(a)
    BY <1>2, <2>2
  <2>3. CASE i - Len(a) \in 1..Len(b) /\ Len(a) + (i - Len(a)) = i
    <3>1. s[Len(a) + (i - Len(a))] = b[i - Len(a)]
      BY <1>2, <2>3
    <3>2. QED
      BY <2>3, <3>1
  <2>4. QED
    BY <2>1, <2>2, <2>3
<1>6. CASE k > 0
  <2>1. k \in 1..Len(a) /\ k \in 0..Len(s) /\ \A i \in 1..k - 1 : i \in 1..Len(a)
    <3>1. Len(s) = Len(a) + Len(b) /\ Len(a) \in Nat /\ Len(b) \in Nat
      BY <1>2
    <3>2. k \in Nat /\ k <= Len(a) /\ k > 0
      BY <1>4, <1>6, <3>1
    <3>3. k \in 1..Len(a) /\ k \in 0..Len(s)
      BY <3>1, <3>2
    <3>4. \A i \in 1..k - 1 : i \in 1..Len(a)
      BY <3>1, <3>2
    <3>5. QED
      BY <3>3, <3>4
  <2>2. FirstPlace(k, s, c)
    <3>1. a[k] = c /\ \A i \in 1..k - 1 : a[i] # c
      BY <1>3, <1>6 DEF FirstPlace
    <3>2. s[k] = c /\ \A i \in 1..k - 1 : s[i] # c
      BY <1>2, <2>1, <3>1
    <3>3. k # 0
      BY <2>1
    <3>4. k \in 0..Len(s)
      BY <2>1
    <3>5. k > 0 => s[k] = c /\ \A i \in 1..k - 1 : s[i] # c
      BY <3>2
    <3>6. k = 0 => \A i \in 1..Len(s) : s[i] # c
      BY <3>3
    <3>7. QED
      BY <3>4, <3>5, <3>6 DEF FirstPlace
  <2>3. strstr(s, <<c>>) = k
    BY <1>2, <2>2, MarkAt
  <2>4. k # 0
    BY <2>1
  <2>5. QED
    BY <2>3, <2>4
<1>7. CASE k = 0 /\ l > 0
  <2>1. ASSUME NEW n, n = Len(a) + l
        PROVE  FirstPlace(n, s, c)
    <3>1. n \in 0..Len(s) /\ n > 0 /\ l \in 1..Len(b)
      BY <1>2, <1>4, <1>7, <2>1
    <3>2. s[n] = c
      BY <1>2, <1>3, <1>7, <2>1, <3>1 DEF FirstPlace
    <3>3. ASSUME NEW i \in 1..n - 1
          PROVE  s[i] # c
      <4>1. i \in 1..Len(s) /\ i - Len(a) <= l - 1
        BY <1>2, <1>4, <2>1, <3>1
      <4>2. CASE i \in 1..Len(a) /\ s[i] = a[i]
        BY <1>3, <1>7, <4>2 DEF FirstPlace
      <4>3. CASE i - Len(a) \in 1..Len(b) /\ s[i] = b[i - Len(a)]
        <5>1. i - Len(a) \in 1..l - 1
          BY <1>2, <1>4, <4>1, <4>3
        <5>2. QED
          BY <1>3, <1>7, <4>3, <5>1 DEF FirstPlace
      <4>4. QED
        BY <1>5, <4>1, <4>2, <4>3
    <3>4. n # 0
      BY <1>2, <3>1
    <3>5. QED
      BY <3>1, <3>2, <3>3, <3>4 DEF FirstPlace
  <2>2. strstr(s, <<c>>) = Len(a) + l
    BY <1>2, <2>1, MarkAt
  <2>3. QED
    BY <1>4, <1>7, <2>2
<1>8. CASE k = 0 /\ l = 0
  <2>1. FirstPlace(0, s, c)
    <3>1. \A i \in 1..Len(s) : s[i] # c
      BY <1>3, <1>5, <1>8 DEF FirstPlace
    <3>2. 0 \in 0..Len(s)
      BY <1>2
    <3>3. ~ (0 > 0)
      OBVIOUS
    <3>4. QED
      BY <3>1, <3>2, <3>3 DEF FirstPlace
  <2>2. strstr(s, <<c>>) = 0
    BY <1>2, <2>1, MarkAt
  <2>3. QED
    BY <1>4, <1>8, <2>2
<1>9. QED
  BY <1>2, <1>4, <1>6, <1>7, <1>8

LEMMA FromFrom ==
  ASSUME NEW s \in Texts, NEW a \in Nat, NEW b \in Nat, a + b <= Len(s)
  PROVE  From(From(s, a + 1), b + 1) = From(s, (a + b) + 1)
<1>1. Len(s) \in Nat /\ a <= Len(s) /\ b <= Len(s) - a
  BY NoText0
<1>2. SUFFICES ASSUME NEW p, p = SubSeq(s, 1, a), NEW q, q = From(s, a + 1)
               PROVE  From(q, b + 1) = From(s, (a + b) + 1)
  BY Zenon
<1>3. p \in Texts /\ q \in Texts /\ Len(p) = a /\ Len(q) = Len(s) - a /\ s = p \o q
  BY <1>1, <1>2, TextCutIs
<1>4. b + 1 \in 1..Len(q) + 1 /\ Len(p) + (b + 1) = (a + b) + 1
  BY <1>1, <1>3
<1>5. From(p \o q, Len(p) + (b + 1)) = From(q, b + 1)
  BY <1>3, <1>4, JoinParts
<1>6. QED
  BY <1>3, <1>4, <1>5

LEMMA HasIs ==
  ASSUME NEW x \in Texts, NEW c \in STRING
  PROVE  /\ strstr(x, <<c>>) \in Nat
         /\ ~ Has(x, <<c>>) <=> strstr(x, <<c>>) = 0
         /\ ~ Has(x, <<c>>) <=> \A i \in 1..Len(x) : x[i] # c
<1>1. SUFFICES ASSUME NEW k, k = strstr(x, <<c>>)
               PROVE  /\ k \in Nat
                      /\ ~ (k > 0) <=> k = 0
                      /\ ~ (k > 0) <=> \A i \in 1..Len(x) : x[i] # c
  BY Zenon DEF Has
<1>2. FirstPlace(k, x, c)
  BY <1>1, MarkIs
<1>3. Len(x) \in Nat
  BY NoText0
<1>4. k \in 0..Len(x) /\ (k > 0 => x[k] = c) /\ (k = 0 => \A i \in 1..Len(x) : x[i] # c)
  BY <1>2 DEF FirstPlace
<1>5. (k > 0 => k \in 1..Len(x)) /\ k \in Nat /\ (~ (k > 0) <=> k = 0)
  BY <1>3, <1>4
<1>6. ~ (k > 0) <=> \A i \in 1..Len(x) : x[i] # c
  BY <1>4, <1>5, Zenon
<1>7. QED
  BY <1>5, <1>6, Zenon

LEMMA LacksToo ==
  ASSUME NEW x \in Texts, NEW y \in Texts, IsPrefix(x, y), NEW c \in STRING, ~ Has(y, <<c>>)
  PROVE  ~ Has(x, <<c>>)
<1>1. Len(x) <= Len(y) /\ \A i \in 1..Len(x) : x[i] = y[i]
  BY PrefixIs
<1>2. Len(x) \in Nat /\ Len(y) \in Nat
  BY NoText0
<1>3. \A i \in 1..Len(x) : i \in 1..Len(y)
  BY <1>1, <1>2
<1>4. \A i \in 1..Len(y) : y[i] # c
  BY HasIs
<1>5. \A i \in 1..Len(x) : x[i] # c
  BY <1>1, <1>3, <1>4
<1>6. QED
  BY <1>5, HasIs

(* A text that begins like two others, one behind the other, ends in the    *)
(* first or goes on in the second.                                          *)
LEMMA PrefixOfTwo ==
  ASSUME NEW a \in Texts, NEW b \in Texts, NEW w \in Texts, IsPrefix(w, a \o b)
  PROVE  /\ Len(w) <= Len(a) => IsPrefix(w, a)
         /\ Len(w) >= Len(a) => /\ w = a \o From(w, Len(a) + 1)
                                /\ From(w, Len(a) + 1) \in Texts
                                /\ Len(From(w, Len(a) + 1)) = Len(w) - Len(a)
                                /\ IsPrefix(From(w, Len(a) + 1), b)
<1>1. SUFFICES ASSUME NEW s, s = a \o b, IsPrefix(w, s)
               PROVE  /\ Len(w) <= Len(a) => IsPrefix(w, a)
                      /\ Len(w) >= Len(a) => /\ w = a \o From(w, Len(a) + 1)
                                             /\ From(w, Len(a) + 1) \in Texts
                                             /\ Len(From(w, Len(a) + 1)) = Len(w) - Len(a)
                                             /\ IsPrefix(From(w, Len(a) + 1), b)
  OBVIOUS
<1>2. /\ s \in Texts /\ Len(s) = Len(a) + Len(b) /\ Len(a) \in Nat /\ Len(b) \in Nat
      /\ \A i \in 1..Len(a) : s[i] = a[i]
      /\ \A i \in 1..Len(b) : s[Len(a) + i] = b[i]
  BY <1>1, JoinIs
<1>3. Len(w) \in Nat /\ Len(w) <= Len(s) /\ \A i \in 1..Len(w) : w[i] = s[i]
  BY <1>1, <1>2, PrefixIs, NoText0
<1>4. ASSUME Len(w) <= Len(a)
      PROVE  IsPrefix(w, a)
  <2>1. \A i \in 1..Len(w) : i \in 1..Len(a)
    BY <1>2, <1>3, <1>4
  <2>2. \A i \in 1..Len(w) : w[i] = a[i]
    BY <1>2, <1>3, <2>1
  <2>3. QED
    BY <1>4, <2>2, PrefixIs
<1>5. ASSUME Len(w) >= Len(a)
      PROVE  /\ w = a \o From(w, Len(a) + 1)
             /\ From(w, Len(a) + 1) \in Texts
             /\ Len(From(w, Len(a) + 1)) = Len(w) - Len(a)
             /\ IsPrefix(From(w, Len(a) + 1), b)
  <2>1. \A i \in 1..Len(a) : i \in 1..Len(w)
    BY <1>2, <1>3, <1>5
  <2>2. \A i \in 1..Len(a) : a[i] = w[i]
    BY <1>2, <1>3, <2>1
  <2>3. IsPrefix(a, w)
    BY <1>5, <2>2, PrefixIs
  <2>4. /\ w = a \o From(w, Len(a) + 1)
        /\ From(w, Len(a) + 1) \in Texts
        /\ Len(From(w, Len(a) + 1)) = Len(w) - Len(a)
    BY <2>3, PrefixJoins
  <2>5. ASSUME NEW v, v = From(w, Len(a) + 1)
        PROVE  IsPrefix(v, b)
    <3>1. v \in Texts /\ Len(v) = Len(w) - Len(a) /\ w = a \o v
      BY <2>4, <2>5
    <3>2. Len(v) <= Len(b)
      BY <1>2, <1>3, <3>1
    <3>3. \A i \in 1..Len(v) : w[Len(a) + i] = v[i]
      BY <3>1, JoinIs
    <3>4. \A i \in 1..Len(v) : i \in 1..Len(b) /\ Len(a) + i \in 1..Len(w)
      BY <1>2, <1>3, <1>5, <3>1, <3>2
    <3>5. \A i \in 1..Len(v) : v[i] = b[i]
      <4>1. ASSUME NEW i \in 1..Len(v)
            PROVE  v[i] = b[i]
        <5>1. w[Len(a) + i] = v[i] /\ i \in 1..Len(b) /\ Len(a) + i \in 1..Len(w)
          BY <3>3, <3>4
        <5>2. s[Len(a) + i] = b[i]
          BY <1>2, <5>1
        <5>3. w[Len(a) + i] = s[Len(a) + i]
          BY <1>3, <5>1
        <5>4. QED
          BY <5>1, <5>2, <5>3
      <4>2. QED
        BY <4>1
    <3>6. QED
      BY <3>1, <3>2, <3>5, PrefixIs
  <2>6. QED
    BY <2>4, <2>5
<1>6. QED
  BY <1>4, <1>5
=============================================================================
