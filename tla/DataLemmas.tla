---------------------------- MODULE DataLemmas ----------------------------
(* Facts about naturals, recursive functions, sequences and sums that the   *)
(* proofs of several components need, stated without operator parameters so *)
(* that they can be cited.                                                  *)
EXTENDS Integers, SequencesExt, FiniteSetTheorems, WellFoundedInduction,
        SequenceTheorems, TLAPS

(* A value that equals a disjunction is a truth value.                     *)
LEMMA TruthValue ==
  ASSUME NEW A, NEW B, NEW x, x = (A \/ B)
  PROVE  x \in BOOLEAN
BY Zenon

-----------------------------------------------------------------------------
(* Naturals and recursion                                                   *)

(* A set of naturals that holds zero and every successor is all of them.   *)
LEMMA Induction ==
  ASSUME NEW T, 0 \in T, \A n \in Nat : n \in T => n + 1 \in T
  PROVE  \A n \in Nat : n \in T
<1> DEFINE Bad == Nat \ T
<1>1. SUFFICES ASSUME Bad # {} PROVE FALSE
  OBVIOUS
<1>2. PICK x \in Bad : \A y \in Bad : ~ (<<y, x>> \in OpToRel(<, Nat))
  BY <1>1, Bad \subseteq Nat, NatLessThanWellFounded, WFMin, Zenon
<1>3. x \in Nat \ {0}
  BY <1>2
<1>4. x - 1 \in Nat /\ x - 1 < x /\ (x - 1) + 1 = x
  BY <1>3
<1>5. <<x - 1, x>> \in OpToRel(<, Nat)
  BY <1>3, <1>4 DEF OpToRel
<1>6. x - 1 \in T
  BY <1>2, <1>4, <1>5
<1>7. x \in T
  BY <1>4, <1>6
<1>8. QED
  BY <1>2, <1>7

(* What holds of the first value and is passed from each to the next holds *)
(* of all up to n.                                                          *)
LEMMA UpTo ==
  ASSUME NEW n \in Nat, NEW f, NEW S,
         f[0] \in S,
         \A i \in 1 .. n : f[i - 1] \in S => f[i] \in S
  PROVE  \A i \in 0 .. n : f[i] \in S
<1> DEFINE T == {i \in Nat : i <= n => f[i] \in S}
<1>1. 0 \in T
  OBVIOUS
<1>2. ASSUME NEW i \in Nat, i \in T
      PROVE  i + 1 \in T
  <2>1. CASE i + 1 <= n
    <3>1. i + 1 \in 1 .. n /\ (i + 1) - 1 = i /\ f[i] \in S
      BY <1>2, <2>1
    <3>2. f[i + 1] \in S
      BY <3>1
    <3>3. QED
      BY <3>2
  <2>2. QED
    BY <2>1
<1>3. \A i \in Nat : i \in T
  <2> HIDE DEF T
  <2>1. QED
    BY <1>1, <1>2, Induction
<1>4. QED
  BY <1>3

(* g solves up to m the recursion that starts with a and steps by F.       *)
Solves(g, m, a, F, S) ==
  /\ g \in [0 .. m -> S]
  /\ g[0] = a
  /\ \A i \in 1 .. m : g[i] = F[i][g[i - 1]]

(* A recursion over the numbers up to n whose step is the function F has a *)
(* solution.                                                               *)
LEMMA Solution ==
  ASSUME NEW n \in Nat, NEW S, NEW a \in S, NEW F \in [1 .. n -> [S -> S]]
  PROVE  \E g : Solves(g, n, a, F, S)
<1> DEFINE T == {m \in Nat : m <= n => \E g : Solves(g, m, a, F, S)}
<1>1. 0 \in T
  <2>1. Solves([i \in 0 .. 0 |-> a], 0, a, F, S)
    BY DEF Solves
  <2>2. QED
    BY <2>1
<1>2. ASSUME NEW m \in Nat, m \in T
      PROVE  m + 1 \in T
  <2>1. CASE m + 1 <= n
    <3>1. PICK g : Solves(g, m, a, F, S)
      BY <1>2, <2>1
    <3> DEFINE h == [i \in 0 .. m + 1 |-> IF i = m + 1 THEN F[m + 1][g[m]] ELSE g[i]]
    <3>2. F[m + 1][g[m]] \in S
      BY <2>1, <3>1 DEF Solves
    <3>3. h \in [0 .. m + 1 -> S] /\ h[0] = a
      BY <3>1, <3>2 DEF Solves
    <3>4. ASSUME NEW i \in 1 .. m + 1
          PROVE  h[i] = F[i][h[i - 1]]
      <4>1. CASE i = m + 1
        BY <4>1
      <4>2. CASE i # m + 1
        <5>1. i \in 1 .. m /\ i - 1 \in 0 .. m
          BY <4>2
        <5>2. h[i] = g[i] /\ h[i - 1] = g[i - 1]
          BY <5>1
        <5>3. QED
          BY <3>1, <5>1, <5>2 DEF Solves
      <4>3. QED
        BY <4>1, <4>2
    <3>5. Solves(h, m + 1, a, F, S)
      BY <3>3, <3>4 DEF Solves
    <3>6. QED
      BY <3>5
  <2>2. QED
    BY <2>1
<1>3. \A m \in Nat : m \in T
  <2> HIDE DEF T
  <2>1. QED
    BY <1>1, <1>2, Induction
<1>4. QED
  BY <1>3

-----------------------------------------------------------------------------
(* Sequences                                                                *)

(* P gives the parent of each node but the root; ranks fall towards it.     *)
Tree(D, root, P, rank) ==
  /\ root \in D
  /\ P \in [D \ {root} -> D]
  /\ rank \in [D -> Nat]
  /\ \A b \in D \ {root} : rank[P[b]] < rank[b]

SolvesTree(g, D, root, P, S, a, F) ==
  /\ g \in [D -> S]
  /\ g[root] = a
  /\ \A b \in D \ {root} : g[b] = F[b][g[P[b]]]

(* A recursion along a tree has a solution: every node but the root passes  *)
(* its parent's value through F.                                            *)
LEMMA TreeRecursion ==
  ASSUME NEW D, NEW root, NEW P, NEW rank, Tree(D, root, P, rank),
         NEW S, NEW a \in S, NEW F \in [D -> [S -> S]]
  PROVE  \E g : SolvesTree(g, D, root, P, S, a, F)
<1> USE DEF Tree
<1> DEFINE Step(g) == [b \in D |-> IF b = root THEN a ELSE F[b][g[P[b]]]]
           Good(g, n) == /\ g \in [D -> S]
                         /\ \A b \in D : rank[b] < n => g[b] = Step(g)[b]
           T == {n \in Nat : \E g : Good(g, n)}
           U == {n \in Nat : \A g, h : Good(g, n) /\ Good(h, n) =>
                               \A b \in D : rank[b] < n => g[b] = h[b]}
<1>1. \A g \in [D -> S] : Step(g) \in [D -> S]
  OBVIOUS
<1>2. \A n \in Nat : n \in T
  <2>1. 0 \in T
    <3>1. Good([b \in D |-> a], 0)
      OBVIOUS
    <3> HIDE DEF Good
    <3>2. QED
      BY <3>1
  <2>2. ASSUME NEW n \in Nat, n \in T
        PROVE  n + 1 \in T
    <3>1. PICK g : Good(g, n)
      BY <2>2
    <3> DEFINE h == Step(g)
    <3>2. h \in [D -> S]
      BY SMTT(60), <1>1, <3>1
    <3>3. ASSUME NEW b \in D, rank[b] < n + 1
          PROVE  h[b] = Step(h)[b]
      <4>1. CASE b = root
        BY SMTT(60), <4>1
      <4>2. CASE b # root
        <5>1. P[b] \in D /\ rank[P[b]] < n
          BY <3>3, <4>2
        <5>2. g[P[b]] = h[P[b]]
          BY <3>1, <5>1
        <5>3. h[b] = F[b][g[P[b]]] /\ Step(h)[b] = F[b][h[P[b]]]
          BY <4>2
        <5>4. QED
          BY <5>2, <5>3
      <4>3. QED
        BY <4>1, <4>2
    <3>4. Good(h, n + 1)
      BY <3>2, <3>3
    <3> HIDE DEF Good, h
    <3>5. QED
      BY <3>4
  <2> HIDE DEF T
  <2>3. QED
    BY <2>1, <2>2, Induction
<1>3. \A n \in Nat : n \in U
  <2>1. 0 \in U
    OBVIOUS
  <2>2. ASSUME NEW n \in Nat, n \in U
        PROVE  n + 1 \in U
    <3>1. ASSUME NEW g, NEW h, Good(g, n + 1), Good(h, n + 1), NEW b \in D, rank[b] < n + 1
          PROVE  g[b] = h[b]
      <4>1. Good(g, n) /\ Good(h, n)
        BY <3>1
      <4>2. g[b] = Step(g)[b] /\ h[b] = Step(h)[b]
        BY <3>1
      <4>3. CASE b = root
        BY <4>2, <4>3
      <4>4. CASE b # root
        <5>1. P[b] \in D /\ rank[P[b]] < n
          BY <3>1, <4>4
        <5>2. g[P[b]] = h[P[b]]
          <6> HIDE DEF Good
          <6>1. QED
            BY <2>2, <4>1, <5>1
        <5>3. QED
          BY <4>2, <4>4, <5>2
      <4>5. QED
        BY <4>3, <4>4
    <3> HIDE DEF Good
    <3>2. QED
      BY <3>1
  <2> HIDE DEF U
  <2>3. QED
    BY <2>1, <2>2, Induction
<1> DEFINE best(n) == CHOOSE g : Good(g, n)
           G == [b \in D |-> best(rank[b] + 1)[b]]
<1>4. \A n \in Nat : Good(best(n), n)
  <2> HIDE DEF Good
  <2>1. QED
    BY <1>2
<1>5. G \in [D -> S]
  <2>1. \A n \in Nat : best(n) \in [D -> S]
    BY <1>4
  <2> HIDE DEF best
  <2>2. \A b \in D : rank[b] + 1 \in Nat
    OBVIOUS
  <2>3. QED
    BY <2>1, <2>2
<1>6. \A b \in D : G[b] = Step(best(rank[b] + 1))[b]
  <2> SUFFICES ASSUME NEW b \in D
               PROVE  G[b] = Step(best(rank[b] + 1))[b]
    OBVIOUS
  <2>1. rank[b] + 1 \in Nat /\ rank[b] < rank[b] + 1
    OBVIOUS
  <2>2. Good(best(rank[b] + 1), rank[b] + 1)
    BY <1>4, <2>1
  <2> HIDE DEF best
  <2>3. QED
    BY <2>1, <2>2
<1>7. G[root] = a
  BY <1>6
<1>8. ASSUME NEW b \in D \ {root}
      PROVE  G[b] = F[b][G[P[b]]]
  <2> DEFINE n == rank[P[b]] + 1
             m == rank[b] + 1
  <2>1. n \in Nat /\ m \in Nat /\ n <= m /\ P[b] \in D /\ rank[P[b]] < n
    BY SMTT(60)
  <2>2. Good(best(n), n) /\ Good(best(m), m)
    BY <1>4, <2>1
  <2>3. Good(best(m), n)
    <3> HIDE DEF best, n, m
    <3>1. QED
      BY <2>1, <2>2
  <2>4. best(m)[P[b]] = best(n)[P[b]]
    <3> HIDE DEF Good, best, n, m
    <3>1. n \in U
      BY <1>3, <2>1
    <3>2. QED
      BY <2>1, <2>2, <2>3, <3>1
  <2>5. G[b] = F[b][best(m)[P[b]]]
    BY <1>6
  <2>6. G[P[b]] = best(n)[P[b]]
    BY <2>1
  <2>7. QED
    BY <2>4, <2>5, <2>6
<1> HIDE DEF G
<1>9. SolvesTree(G, D, root, P, S, a, F)
  BY <1>5, <1>7, <1>8 DEF SolvesTree
<1>10. QED
  BY <1>9

(* A set of naturals that is not empty has a least element.                 *)
LEMMA Least ==
  ASSUME NEW I, I \subseteq Nat, I # {}
  PROVE  \E i \in I : \A j \in I : i <= j
<1>1. PICK x \in I : \A y \in I : ~ (<<y, x>> \in OpToRel(<, Nat))
  BY NatLessThanWellFounded, WFMin, Zenon
<1>2. ASSUME NEW j \in I, ~ (x <= j)
      PROVE  FALSE
  <2>1. x \in Nat /\ j \in Nat
    BY <1>1
  <2>2. j < x
    BY <1>2, <2>1
  <2>3. <<j, x>> \in OpToRel(<, Nat)
    BY <2>1, <2>2 DEF OpToRel
  <2>4. QED
    BY <1>1, <2>3
<1>3. QED
  BY <1>2

(* A bounded set of naturals that is not empty has a greatest element.      *)
LEMMA Greatest ==
  ASSUME NEW I, I \subseteq Nat, I # {}, NEW k \in Nat, \A i \in I : i <= k
  PROVE  \E i \in I : \A j \in I : j <= i
<1> DEFINE J == {k - i : i \in I}
<1>1. J \subseteq Nat /\ J # {}
  <2>1. \A i \in I : k - i \in Nat
    OBVIOUS
  <2>2. QED
    BY <2>1
<1>2. PICK x \in J : \A y \in J : x <= y
  <2> HIDE DEF J
  <2>1. QED
    BY <1>1, Least
<1>3. PICK i \in I : x = k - i
  BY <1>2
<1>4. \A j \in I : k - i <= k - j
  BY <1>2, <1>3
<1>5. QED
  BY <1>3, <1>4

LEMMA ElementFacts ==
  ASSUME NEW S, NEW q \in Seq(S)
  PROVE  /\ ToSet(q) \subseteq S
         /\ \A i \in DOMAIN q : q[i] \in ToSet(q)
         /\ \A x \in ToSet(q) : \E i \in DOMAIN q : q[i] = x
         /\ DOMAIN q = 1 .. Len(q)
  BY DEF ToSet

LEMMA TailFacts ==
  ASSUME NEW S, NEW q \in Seq(S), q # <<>>
  PROVE  /\ Tail(q) \in Seq(S)
         /\ Len(Tail(q)) = Len(q) - 1
         /\ Len(q) > 0
         /\ \A i \in DOMAIN Tail(q) : i + 1 \in DOMAIN q /\ Tail(q)[i] = q[i + 1]
         /\ ToSet(q) = {Head(q)} \cup ToSet(Tail(q))
<1>1. /\ Tail(q) \in Seq(S)
      /\ Len(Tail(q)) = Len(q) - 1
      /\ Len(q) > 0
      /\ \A i \in DOMAIN Tail(q) : i + 1 \in DOMAIN q /\ Tail(q)[i] = q[i + 1]
  OBVIOUS
<1>2. Head(q) = q[1] /\ 1 \in DOMAIN q
  BY <1>1
<1>3. ASSUME NEW i \in DOMAIN q
      PROVE  q[i] \in {Head(q)} \cup ToSet(Tail(q))
  <2>1. CASE i = 1
    BY <1>2, <2>1
  <2>2. CASE i # 1
    <3>1. i - 1 \in DOMAIN Tail(q) /\ (i - 1) + 1 = i
      BY <1>1, <2>2
    <3>2. Tail(q)[i - 1] = q[i]
      BY <1>1, <3>1
    <3>3. QED
      BY <3>1, <3>2 DEF ToSet
  <2>3. QED
    BY <2>1, <2>2
<1>4. ToSet(Tail(q)) \subseteq ToSet(q)
  BY <1>1 DEF ToSet
<1>5. QED
  BY SMTT(60), <1>1, <1>2, <1>3, <1>4 DEF ToSet

LEMMA AppendElements ==
  ASSUME NEW S, NEW q \in Seq(S), NEW e \in S
  PROVE  /\ Append(q, e) \in Seq(S)
         /\ Len(Append(q, e)) = Len(q) + 1
         /\ \A i \in DOMAIN q : i \in DOMAIN Append(q, e) /\ Append(q, e)[i] = q[i]
         /\ Append(q, e)[Len(q) + 1] = e
         /\ ToSet(Append(q, e)) = ToSet(q) \cup {e}
<1>1. /\ Append(q, e) \in Seq(S)
      /\ Len(Append(q, e)) = Len(q) + 1
      /\ \A i \in DOMAIN q : i \in DOMAIN Append(q, e) /\ Append(q, e)[i] = q[i]
      /\ Append(q, e)[Len(q) + 1] = e
  OBVIOUS
<1>2. \A i \in DOMAIN Append(q, e) : i \in DOMAIN q \/ i = Len(q) + 1
  BY <1>1
<1>3. Len(q) + 1 \in DOMAIN Append(q, e)
  BY <1>1
<1>4. QED
  BY <1>1, <1>2, <1>3 DEF ToSet

(* Removing one place keeps the other elements and their order.            *)
LEMMA RemoveAtFacts ==
  ASSUME NEW S, NEW q \in Seq(S), NEW k \in DOMAIN q
  PROVE  /\ RemoveAt(q, k) \in Seq(S)
         /\ Len(RemoveAt(q, k)) = Len(q) - 1
         /\ \A i \in DOMAIN RemoveAt(q, k) :
              RemoveAt(q, k)[i] = IF i < k THEN q[i] ELSE q[i + 1]
<1>1. k \in 1 .. Len(q) /\ Len(q) \in Nat
  OBVIOUS
<1> DEFINE a == SubSeq(q, 1, k - 1)
           b == SubSeq(q, k + 1, Len(q))
<1>2. /\ a \in Seq(S) /\ Len(a) = k - 1
      /\ \A i \in 1 .. k - 1 : a[i] = q[i]
  BY <1>1, SubSeqProperties
<1>3. /\ b \in Seq(S) /\ Len(b) = Len(q) - k
      /\ \A i \in 1 .. Len(q) - k : b[i] = q[k + i]
  BY <1>1, SubSeqProperties
<1>4. RemoveAt(q, k) = a \o b
  BY DEF RemoveAt
<1> HIDE DEF a, b
<1>5. /\ a \o b \in Seq(S)
      /\ Len(a \o b) = Len(q) - 1
      /\ \A i \in 1 .. Len(q) - 1 : (a \o b)[i] = IF i <= k - 1 THEN a[i] ELSE b[i - (k - 1)]
  BY SMTT(60), <1>1, <1>2, <1>3, ConcatProperties
<1>6. ASSUME NEW i \in 1 .. Len(q) - 1
      PROVE  (a \o b)[i] = IF i < k THEN q[i] ELSE q[i + 1]
  <2>1. CASE i < k
    BY <1>1, <1>2, <1>5, <2>1
  <2>2. CASE ~ (i < k)
    <3>1. i - (k - 1) \in 1 .. Len(q) - k /\ k + (i - (k - 1)) = i + 1
      BY <1>1, <2>2
    <3>2. b[i - (k - 1)] = q[i + 1]
      BY <1>3, <3>1
    <3>3. QED
      BY <1>1, <1>5, <2>2, <3>2
  <2>3. QED
    BY <2>1, <2>2
<1>7. DOMAIN (a \o b) = 1 .. Len(q) - 1
  BY <1>5
<1>8. QED
  BY <1>4, <1>5, <1>6, <1>7

-----------------------------------------------------------------------------
(* Sums                                                                     *)

(* g gives the sum of f over each part of S.                                *)
SumsParts(g, f, S) ==
  /\ g \in [SUBSET S -> Int]
  /\ g[{}] = 0
  /\ \A s \in SUBSET S : \A x \in s : g[s] = f[x] + g[s \ {x}]

(* The sum of a function over a finite set is the same in whatever order   *)
(* the elements are taken.                                                  *)
LEMMA SumParts ==
  ASSUME NEW S, IsFiniteSet(S), NEW f \in [S -> Int]
  PROVE  \E g : SumsParts(g, f, S) /\ SumFunction(f) = g[S]
<1> DEFINE D == SUBSET S
           pick(s) == CHOOSE x \in s : TRUE
           P == [s \in D \ {{}} |-> s \ {pick(s)}]
           F == [s \in D |-> [v \in Int |-> IF s = {} THEN 0 ELSE f[pick(s)] + v]]
           rank == [s \in D |-> Cardinality(s)]
           iter == CHOOSE g : g = [s \in SUBSET S |->
                     IF s = {} THEN 0
                     ELSE LET x == CHOOSE y \in s : TRUE IN f[x] + g[s \ {x}]]
<1>1. \A s \in D : IsFiniteSet(s) /\ Cardinality(s) \in Nat
  BY FS_Subset, FS_CardinalityType
<1>2. \A s \in D : s # {} => pick(s) \in s
  OBVIOUS
<1>3. Tree(D, {}, P, rank)
  <2>1. \A s \in D \ {{}} : P[s] \in D /\ rank[P[s]] < rank[s]
    <3> SUFFICES ASSUME NEW s \in D \ {{}}
                 PROVE  P[s] \in D /\ rank[P[s]] < rank[s]
      OBVIOUS
    <3>1. pick(s) \in s
      BY <1>2
    <3> HIDE DEF pick
    <3>2. Cardinality(s \ {pick(s)}) = Cardinality(s) - 1
      BY <1>1, <3>1, FS_RemoveElement
    <3>3. QED
      BY <1>1, <3>2
  <2>2. {} \in D /\ rank \in [D -> Nat]
    BY <1>1
  <2>3. P \in [D \ {{}} -> D]
    OBVIOUS
  <2> HIDE DEF P, rank, D
  <2>4. QED
    BY <2>1, <2>2, <2>3 DEF Tree
<1>4. F \in [D -> [Int -> Int]]
  <2>1. \A s \in D : s # {} => f[pick(s)] \in Int
    BY <1>2
  <2> HIDE DEF pick
  <2>2. \A s \in D, v \in Int : (IF s = {} THEN 0 ELSE f[pick(s)] + v) \in Int
    BY <2>1
  <2>3. QED
    BY <2>2
<1>5. PICK h : SolvesTree(h, D, {}, P, Int, 0, F)
  <2> HIDE DEF D, P, F, rank, iter
  <2>1. 0 \in Int
    OBVIOUS
  <2>2. QED
    BY <1>3, <1>4, <2>1, TreeRecursion, Zenon
<1>6. h = [s \in SUBSET S |-> IF s = {} THEN 0
                              ELSE LET x == CHOOSE y \in s : TRUE IN f[x] + h[s \ {x}]]
  <2>1. h \in [D -> Int] /\ h[{}] = 0
    BY <1>5 DEF SolvesTree
  <2>2. ASSUME NEW s \in D, s # {}
        PROVE  h[s] = f[pick(s)] + h[s \ {pick(s)}]
    <3>1. h[s] = F[s][h[P[s]]]
      BY <1>5, <2>2 DEF SolvesTree
    <3>2. P[s] = s \ {pick(s)} /\ P[s] \in D
      BY <2>2
    <3>3. h[P[s]] \in Int
      BY <2>1, <3>2
    <3>4. F[s][h[P[s]]] = f[pick(s)] + h[P[s]]
      BY <2>2, <3>3
    <3>5. QED
      BY <3>1, <3>2, <3>4
  <2>3. h = [s \in D |-> h[s]]
    BY <2>1
  <2>4. \A s \in D : h[s] = IF s = {} THEN 0 ELSE f[pick(s)] + h[s \ {pick(s)}]
    BY <2>1, <2>2
  <2>5. QED
    BY <2>3, <2>4
<1>7. iter = [s \in SUBSET S |-> IF s = {} THEN 0
                                 ELSE LET x == CHOOSE y \in s : TRUE IN f[x] + iter[s \ {x}]]
  BY <1>6
<1>8. SumFunction(f) = iter[S]
  <2>1. DOMAIN f = S
    OBVIOUS
  <2>2. SumFunction(f) = SumFunctionOnSet(f, S)
    BY <2>1 DEF SumFunction
  <2>3. QED
    BY <2>2 DEF SumFunctionOnSet, FoldFunctionOnSet, MapThenFoldSet
<1> HIDE DEF iter
<1> DEFINE g == iter
<1>9. g[{}] = 0 /\ \A s \in D : s # {} => g[s] = f[pick(s)] + g[s \ {pick(s)}]
  BY <1>7
<1> HIDE DEF g
<1> DEFINE T == {n \in Nat : \A s \in D : Cardinality(s) <= n =>
                   g[s] \in Int /\ \A x \in s : g[s] = f[x] + g[s \ {x}]}
<1>10. 0 \in T
  <2>1. \A s \in D : Cardinality(s) <= 0 => s = {}
    BY <1>1, FS_EmptySet
  <2>2. g[{}] \in Int /\ \A x \in {} : g[{}] = f[x] + g[{} \ {x}]
    BY <1>9
  <2>3. \A s \in D : Cardinality(s) <= 0 => g[s] \in Int /\ \A x \in s : g[s] = f[x] + g[s \ {x}]
    BY <2>1, <2>2
  <2>4. QED
    BY <2>3
<1>11. ASSUME NEW n \in Nat, n \in T
       PROVE  n + 1 \in T
  <2> SUFFICES ASSUME NEW s \in D, Cardinality(s) <= n + 1
               PROVE  g[s] \in Int /\ \A x \in s : g[s] = f[x] + g[s \ {x}]
    OBVIOUS
  <2> DEFINE y == pick(s)
  <2>1. CASE s = {}
    BY <1>9, <2>1
  <2>2. CASE s # {}
    <3>1. y \in s /\ f[y] \in Int
      BY <1>2, <2>2
    <3>2. g[s] = f[y] + g[s \ {y}]
      BY <1>9, <2>2
    <3> HIDE DEF y
    <3>3. ASSUME NEW x \in s
          PROVE  s \ {x} \in D /\ Cardinality(s \ {x}) <= n
      <4>1. Cardinality(s \ {x}) = Cardinality(s) - 1
        BY <1>1, FS_RemoveElement
      <4>2. QED
        BY <1>1, <4>1
    <3>4. \A x \in s : /\ g[s \ {x}] \in Int
                      /\ \A z \in s \ {x} : g[s \ {x}] = f[z] + g[(s \ {x}) \ {z}]
      BY <1>11, <3>3
    <3>5. ASSUME NEW x \in s, x # y
          PROVE  g[s] = f[x] + g[s \ {x}]
      <4> DEFINE u == (s \ {x}) \ {y}
      <4>1. g[s \ {x}] = f[y] + g[u]
        BY <3>1, <3>4, <3>5
      <4>2. (s \ {y}) \ {x} = u
        OBVIOUS
      <4>3. g[s \ {y}] = f[x] + g[u]
        BY <3>1, <3>4, <3>5, <4>2
      <4>4. u \in D /\ Cardinality(u) <= n
        <5>1. IsFiniteSet(s \ {x}) /\ u \subseteq s \ {x}
          BY <1>1, <3>3
        <5>2. Cardinality(u) <= Cardinality(s \ {x})
          BY <5>1, FS_Subset
        <5>3. u \in D
          OBVIOUS
        <5> HIDE DEF u
        <5>4. QED
          BY <1>1, <3>3, <5>2, <5>3
      <4>5. g[u] \in Int
        BY <1>11, <4>4
      <4> HIDE DEF u
      <4>6. f[x] \in Int
        OBVIOUS
      <4>7. QED
        BY <3>1, <3>2, <4>1, <4>3, <4>5, <4>6
    <3>6. g[s] \in Int
      BY <3>1, <3>2, <3>4
    <3>7. QED
      BY <3>2, <3>5, <3>6
  <2>3. QED
    BY <2>1, <2>2
<1>12. \A n \in Nat : n \in T
  <2> HIDE DEF T
  <2>1. QED
    BY <1>10, <1>11, Induction
<1>13. SumsParts(g, f, S)
  <2>1. \A s \in D : g[s] \in Int /\ \A x \in s : g[s] = f[x] + g[s \ {x}]
    <3> SUFFICES ASSUME NEW s \in D
                 PROVE  g[s] \in Int /\ \A x \in s : g[s] = f[x] + g[s \ {x}]
      OBVIOUS
    <3>1. Cardinality(s) \in Nat /\ Cardinality(s) <= Cardinality(s)
      BY <1>1
    <3>2. Cardinality(s) \in T
      BY <1>12, <3>1
    <3>3. QED
      BY <3>1, <3>2
  <2>2. g \in [SUBSET S -> Int]
    BY <1>7, <2>1 DEF g
  <2>3. QED
    BY <1>9, <2>1, <2>2 DEF SumsParts
<1>14. QED
  BY <1>8, <1>13 DEF g

(* What sums of integers satisfy, for a finite set of indices.              *)
LEMMA SumFacts ==
  ASSUME NEW S, IsFiniteSet(S), NEW f \in [S -> Int]
  PROVE  /\ SumFunction(f) \in Int
         /\ S = {} => SumFunction(f) = 0
<1>1. PICK g : SumsParts(g, f, S) /\ SumFunction(f) = g[S]
  BY SumParts
<1>2. QED
  BY <1>1 DEF SumsParts

(* h has the terms of f but the one at x.                                   *)
Without(f, S, x, h) ==
  /\ IsFiniteSet(S)
  /\ x \in S
  /\ f \in [S -> Int]
  /\ h \in [S \ {x} -> Int]
  /\ \A y \in S \ {x} : h[y] = f[y]

(* Any element can be taken out of a sum.                                   *)
LEMMA SumWithout ==
  ASSUME NEW S, NEW f, NEW x, NEW h, Without(f, S, x, h)
  PROVE  SumFunction(f) = f[x] + SumFunction(h)
<1> USE DEF Without
<1> DEFINE R == S \ {x}
<1>1. PICK g : SumsParts(g, f, S) /\ SumFunction(f) = g[S]
  BY SumParts
<1>2. IsFiniteSet(R) /\ h \in [R -> Int] /\ \A y \in R : h[y] = f[y]
  BY FS_Subset
<1>9. g[S] = f[x] + g[R]
  BY <1>1 DEF SumsParts
<1>8. R \subseteq S
  OBVIOUS
<1> HIDE DEF R
<1>3. PICK k : SumsParts(k, h, R) /\ SumFunction(h) = k[R]
  BY <1>2, SumParts
<1> DEFINE T == {n \in Nat : \A s \in SUBSET R : Cardinality(s) = n => g[s] = k[s]}
<1>4. \A s \in SUBSET R : IsFiniteSet(s) /\ Cardinality(s) \in Nat
  BY <1>2, FS_Subset, FS_CardinalityType
<1>5. 0 \in T
  <2>1. \A s \in SUBSET R : Cardinality(s) = 0 => s = {}
    BY <1>4, FS_EmptySet
  <2>2. g[{}] = 0 /\ k[{}] = 0
    BY <1>1, <1>3 DEF SumsParts
  <2>3. QED
    BY <2>1, <2>2
<1>6. ASSUME NEW n \in Nat, n \in T
      PROVE  n + 1 \in T
  <2> SUFFICES ASSUME NEW s \in SUBSET R, Cardinality(s) = n + 1
               PROVE  g[s] = k[s]
    OBVIOUS
  <2>1. s # {}
    <3>1. Cardinality({}) = 0 /\ Cardinality(s) # 0
      BY FS_EmptySet
    <3>2. QED
      BY <3>1, Zenon
  <2>2. PICK y \in s : TRUE
    BY <2>1
  <2>3. s \ {y} \in SUBSET R /\ Cardinality(s \ {y}) = n
    <3>1. Cardinality(s \ {y}) = Cardinality(s) - 1
      BY <1>4, <2>2, FS_RemoveElement
    <3>2. QED
      BY <3>1
  <2>4. g[s \ {y}] = k[s \ {y}]
    BY <1>6, <2>3
  <2>5. g[s] = f[y] + g[s \ {y}]
    BY <1>1, <1>8, <2>2 DEF SumsParts
  <2>6. k[s] = h[y] + k[s \ {y}] /\ h[y] = f[y]
    BY <1>2, <1>3, <2>2 DEF SumsParts
  <2>7. QED
    BY <2>4, <2>5, <2>6
<1>7. \A n \in Nat : n \in T
  <2> HIDE DEF T
  <2>1. QED
    BY <1>5, <1>6, Induction
<1>10. g[R] = k[R]
  <2>1. R \in SUBSET R /\ Cardinality(R) \in Nat
    BY <1>4
  <2>2. Cardinality(R) \in T
    BY <1>7, <2>1
  <2>3. QED
    BY <2>1, <2>2
<1>11. QED
  BY <1>1, <1>3, <1>9, <1>10

(* A sum over one index.                                                    *)
LEMMA SumOfOne ==
  ASSUME NEW x, NEW f \in [{x} -> Int]
  PROVE  SumFunction(f) = f[x]
<1> DEFINE e == [y \in {} |-> 0]
<1>1. IsFiniteSet({x}) /\ x \in {x} /\ IsFiniteSet({}) /\ {x} \ {x} = {}
  BY FS_Singleton, FS_EmptySet
<1>2. e \in [{} -> Int]
  OBVIOUS
<1> HIDE DEF e
<1>3. Without(f, {x}, x, e)
  BY <1>1, <1>2 DEF Without
<1>4. SumFunction(f) = f[x] + SumFunction(e)
  BY <1>3, SumWithout
<1>5. SumFunction(e) = 0 /\ f[x] \in Int
  BY <1>1, <1>2, SumFacts
<1>6. QED
  BY <1>4, <1>5

(* The value of f at x, or zero.                                            *)
Part(f, x) == IF x \in DOMAIN f THEN f[x] ELSE 0

(* h is f with d added to the terms in R.                                   *)
More(f, S, d, R, h) ==
  /\ IsFiniteSet(S)
  /\ R \subseteq S
  /\ f \in [S -> Int]
  /\ d \in [R -> Int]
  /\ h \in [S -> Int]
  /\ \A x \in S : h[x] = f[x] + Part(d, x)

(* What is added to some of the terms is added to the sum.                  *)
LEMMA SumMore ==
  ASSUME NEW S, NEW f, NEW R, NEW d, NEW h, More(f, S, d, R, h)
  PROVE  /\ SumFunction(h) = SumFunction(f) + SumFunction(d)
         /\ SumFunction(f) \in Int
         /\ SumFunction(d) \in Int
<1> USE DEF More
<1> DEFINE T == {n \in Nat : \A s \in SUBSET S : Cardinality(s) = n =>
                   \A e \in [s -> Int], k \in [S -> Int] :
                      (\A x \in S : k[x] = f[x] + Part(e, x)) =>
                         SumFunction(k) = SumFunction(f) + SumFunction(e)}
<1>1. \A s \in SUBSET S : IsFiniteSet(s) /\ Cardinality(s) \in Nat
  BY FS_Subset, FS_CardinalityType
<1>2. SumFunction(f) \in Int
  BY SumFacts
<1>3. 0 \in T
  <2> SUFFICES ASSUME NEW s \in SUBSET S, Cardinality(s) = 0, NEW e \in [s -> Int],
                      NEW k \in [S -> Int], \A x \in S : k[x] = f[x] + Part(e, x)
               PROVE  SumFunction(k) = SumFunction(f) + SumFunction(e)
    OBVIOUS
  <2>1. s = {}
    BY <1>1, FS_EmptySet
  <2>2. SumFunction(e) = 0
    BY <1>1, <2>1, SumFacts
  <2>3. \A x \in S : k[x] = f[x]
    BY <2>1 DEF Part
  <2>4. k = f
    BY <2>3
  <2>5. QED
    BY <1>2, <2>2, <2>4
<1>4. ASSUME NEW n \in Nat, n \in T
      PROVE  n + 1 \in T
  <2> SUFFICES ASSUME NEW s \in SUBSET S, Cardinality(s) = n + 1, NEW e \in [s -> Int],
                      NEW a \in [S -> Int], \A x \in S : a[x] = f[x] + Part(e, x)
               PROVE  SumFunction(a) = SumFunction(f) + SumFunction(e)
    OBVIOUS
  <2>1. s # {}
    <3>1. Cardinality({}) = 0 /\ Cardinality(s) # 0
      BY FS_EmptySet
    <3>2. QED
      BY <3>1, Zenon
  <2>2. PICK y \in s : TRUE
    BY <2>1
  <2> DEFINE r == s \ {y}
             c == [x \in r |-> e[x]]
             b == [x \in S |-> f[x] + Part(c, x)]
             w == [x \in S \ {y} |-> a[x]]
  <2>3. r \in SUBSET S /\ Cardinality(r) = n /\ c \in [r -> Int] /\ \A x \in r : c[x] = e[x]
    <3>1. Cardinality(r) = Cardinality(s) - 1
      BY <1>1, <2>2, FS_RemoveElement
    <3>2. QED
      BY <3>1
  <2>4. y \in S /\ f[y] \in Int /\ e[y] \in Int
    BY <2>2
  <2>5. a[y] = f[y] + e[y] /\ b[y] = f[y]
    BY <2>2 DEF Part
  <2>6. b \in [S -> Int] /\ \A x \in S : b[x] = f[x] + Part(c, x)
    BY <2>3 DEF Part
  <2>7. \A x \in S \ {y} : b[x] = a[x]
    BY DEF Part
  <2>8. w \in [S \ {y} -> Int] /\ \A x \in S \ {y} : w[x] = a[x] /\ w[x] = b[x]
    BY <2>7
  <2>9. IsFiniteSet(S \ {y}) /\ IsFiniteSet(r)
    BY <1>1, <2>3, FS_Subset
  <2> HIDE DEF b, c, w
  <2>10. SumFunction(b) = SumFunction(f) + SumFunction(c)
    <3> HIDE DEF r
    <3>1. QED
      BY <1>4, <2>3, <2>6
  <2>17. Without(e, s, y, c)
    BY <1>1, <2>2, <2>3 DEF Without
  <2>11. SumFunction(e) = e[y] + SumFunction(c)
    BY <2>17, SumWithout
  <2>18. Without(a, S, y, w) /\ Without(b, S, y, w)
    BY <2>4, <2>6, <2>8 DEF Without
  <2>12. SumFunction(a) = a[y] + SumFunction(w)
    BY <2>18, SumWithout
  <2>13. SumFunction(b) = b[y] + SumFunction(w)
    BY <2>18, SumWithout
  <2>14. SumFunction(w) \in Int
    BY <2>8, <2>9, SumFacts
  <2>15. SumFunction(c) \in Int
    <3> HIDE DEF r
    <3>1. QED
      BY <2>3, <2>9, SumFacts
  <2>16. QED
    BY <1>2, <2>4, <2>5, <2>10, <2>11, <2>12, <2>13, <2>14, <2>15
<1>5. \A n \in Nat : n \in T
  <2> HIDE DEF T
  <2>1. QED
    BY <1>3, <1>4, Induction
<1>6. Cardinality(R) \in T
  BY <1>1, <1>5
<1>7. SumFunction(d) \in Int
  BY <1>1, SumFacts
<1>8. QED
  BY <1>2, <1>6, <1>7

(* h is f without its first term.                                           *)
Shift(n, f, h) ==
  /\ n \in Nat
  /\ f \in [1 .. n + 1 -> Int]
  /\ h \in [1 .. n -> Int]
  /\ \A i \in 1 .. n : h[i] = f[i + 1]

LEMMA IntervalLess ==
  ASSUME NEW n \in Nat
  PROVE  (1 .. n + 1) \ {n + 1} = 1 .. n
<1>1. \A i : i \in (1 .. n + 1) \ {n + 1} <=> i \in 1 .. n
  OBVIOUS
<1>2. QED
  BY <1>1

(* The sum of a sequence is its first element and the sum of the others.    *)
LEMMA SumShift ==
  ASSUME NEW n, NEW f, NEW h, Shift(n, f, h)
  PROVE  SumFunction(f) = f[1] + SumFunction(h)
<1> USE DEF Shift
<1> DEFINE T == {m \in Nat : \A g \in [1 .. m + 1 -> Int], k \in [1 .. m -> Int] :
                   (\A i \in 1 .. m : k[i] = g[i + 1]) => SumFunction(g) = g[1] + SumFunction(k)}
<1>1. \A m \in Nat : IsFiniteSet(1 .. m)
  BY FS_Interval
<1>2. 0 \in T
  <2> SUFFICES ASSUME NEW g \in [1 .. 0 + 1 -> Int], NEW k \in [1 .. 0 -> Int]
               PROVE  SumFunction(g) = g[1] + SumFunction(k)
    OBVIOUS
  <2>1. g \in [{1} -> Int] /\ g[1] \in Int
    BY 1 .. 0 + 1 = {1}
  <2>2. SumFunction(g) = g[1]
    BY <2>1, SumOfOne
  <2>3. SumFunction(k) = 0
    <3>1. k \in [{} -> Int]
      BY 1 .. 0 = {}
    <3>2. QED
      BY <3>1, FS_EmptySet, SumFacts, Zenon
  <2>4. QED
    BY <2>1, <2>2, <2>3
<1>3. ASSUME NEW m \in Nat, m \in T
      PROVE  m + 1 \in T
  <2> SUFFICES ASSUME NEW g \in [1 .. (m + 1) + 1 -> Int], NEW k \in [1 .. m + 1 -> Int],
                      \A i \in 1 .. m + 1 : k[i] = g[i + 1]
               PROVE  SumFunction(g) = g[1] + SumFunction(k)
    <3>1. m + 1 \in Nat
      OBVIOUS
    <3>2. QED
      BY <3>1, Zenon
  <2> DEFINE a == [i \in 1 .. m + 1 |-> g[i]]
             b == [i \in 1 .. m |-> k[i]]
  <2>1. /\ a \in [1 .. m + 1 -> Int] /\ b \in [1 .. m -> Int]
        /\ \A i \in 1 .. m : b[i] = a[i + 1]
        /\ a[1] = g[1] /\ a[1] \in Int
        /\ \A i \in 1 .. m + 1 : g[i] = a[i]
        /\ \A i \in 1 .. m : k[i] = b[i]
    OBVIOUS
  <2>2. /\ 1 .. (m + 1) + 1 = (1 .. m + 1) \cup {m + 2} /\ m + 2 \notin 1 .. m + 1
        /\ 1 .. m + 1 = (1 .. m) \cup {m + 1} /\ m + 1 \notin 1 .. m
        /\ g[m + 2] \in Int /\ k[m + 1] = g[m + 2]
    BY SMTT(60)
  <2>3. IsFiniteSet(1 .. m + 1) /\ IsFiniteSet(1 .. m)
    BY <1>1
  <2> HIDE DEF a, b
  <2>4. SumFunction(a) = a[1] + SumFunction(b)
    BY <1>3, <2>1
  <2> DEFINE I == 1 .. m + 1
             J == 1 .. m
  <2>9. (1 .. (m + 1) + 1) \ {m + 2} = I /\ I \ {m + 1} = J
    <3>1. m + 1 \in Nat /\ (m + 1) + 1 = m + 2
      OBVIOUS
    <3>2. QED
      BY <3>1, IntervalLess
  <2>10. IsFiniteSet(1 .. (m + 1) + 1)
    BY <1>1, (m + 1) + 1 \in Nat
  <2>11. Without(g, 1 .. (m + 1) + 1, m + 2, a)
    BY <2>1, <2>9, <2>10 DEF Without
  <2>12. Without(k, I, m + 1, b)
    BY SMTT(60), <2>1, <2>3, <2>9 DEF Without
  <2>5. SumFunction(g) = g[m + 2] + SumFunction(a)
    BY <2>11, SumWithout
  <2>6. SumFunction(k) = k[m + 1] + SumFunction(b)
    BY <2>12, SumWithout
  <2>7. SumFunction(b) \in Int
    BY <2>1, <2>3, SumFacts
  <2>8. QED
    BY <2>1, <2>2, <2>4, <2>5, <2>6, <2>7
<1>4. \A m \in Nat : m \in T
  <2> HIDE DEF T
  <2>1. QED
    BY <1>2, <1>3, Induction
<1>5. n \in T
  BY <1>4
<1>6. QED
  BY <1>5

(* A sum of naturals is one, and no smaller than any of its terms.          *)
LEMMA SumOfNaturals ==
  ASSUME NEW S, IsFiniteSet(S), NEW f \in [S -> Nat]
  PROVE  /\ SumFunction(f) \in Nat
         /\ \A x \in S : f[x] <= SumFunction(f)
<1> DEFINE T == {n \in Nat : \A s \in SUBSET S : Cardinality(s) = n =>
                   \A h \in [s -> Nat] : SumFunction(h) \in Nat}
<1>1. \A s \in SUBSET S : IsFiniteSet(s) /\ Cardinality(s) \in Nat
  BY FS_Subset, FS_CardinalityType
<1>2. 0 \in T
  <2>1. \A s \in SUBSET S : Cardinality(s) = 0 => s = {}
    BY <1>1, FS_EmptySet
  <2>2. \A h \in [{} -> Nat] : SumFunction(h) = 0
    BY FS_EmptySet, SumFacts
  <2>3. QED
    BY <2>1, <2>2
<1>3. ASSUME NEW n \in Nat, n \in T
      PROVE  n + 1 \in T
  <2> SUFFICES ASSUME NEW s \in SUBSET S, Cardinality(s) = n + 1, NEW h \in [s -> Nat]
               PROVE  SumFunction(h) \in Nat
    OBVIOUS
  <2>1. s # {}
    <3>1. Cardinality({}) = 0 /\ Cardinality(s) # 0
      BY FS_EmptySet
    <3>2. QED
      BY <3>1, Zenon
  <2>2. PICK y \in s : TRUE
    BY <2>1
  <2> DEFINE k == [x \in s \ {y} |-> h[x]]
  <2>3. /\ s \ {y} \in SUBSET S /\ Cardinality(s \ {y}) = n /\ k \in [s \ {y} -> Nat]
        /\ k \in [s \ {y} -> Int] /\ h \in [s -> Int] /\ \A x \in s \ {y} : k[x] = h[x]
    <3>1. Cardinality(s \ {y}) = Cardinality(s) - 1
      BY <1>1, <2>2, FS_RemoveElement
    <3>2. QED
      BY <3>1
  <2> HIDE DEF k
  <2>7. Without(h, s, y, k)
    BY <1>1, <2>2, <2>3 DEF Without
  <2>4. SumFunction(h) = h[y] + SumFunction(k)
    BY <2>7, SumWithout
  <2>5. SumFunction(k) \in Nat
    BY <1>3, <2>3
  <2>6. QED
    BY <2>2, <2>4, <2>5
<1>4. \A n \in Nat : n \in T
  <2> HIDE DEF T
  <2>1. QED
    BY <1>2, <1>3, Induction
<1>5. \A s \in SUBSET S : \A h \in [s -> Nat] : SumFunction(h) \in Nat
  <2> SUFFICES ASSUME NEW s \in SUBSET S
               PROVE  \A h \in [s -> Nat] : SumFunction(h) \in Nat
    OBVIOUS
  <2>1. Cardinality(s) \in T
    BY <1>1, <1>4
  <2>2. QED
    BY <2>1
<1>6. ASSUME NEW x \in S
      PROVE  f[x] <= SumFunction(f)
  <2> DEFINE k == [y \in S \ {x} |-> f[y]]
  <2>1. /\ k \in [S \ {x} -> Nat] /\ k \in [S \ {x} -> Int] /\ f \in [S -> Int]
        /\ S \ {x} \in SUBSET S /\ \A y \in S \ {x} : k[y] = f[y]
    OBVIOUS
  <2> HIDE DEF k
  <2>5. Without(f, S, x, k)
    BY <2>1 DEF Without
  <2>2. SumFunction(f) = f[x] + SumFunction(k)
    BY <2>5, SumWithout
  <2>3. SumFunction(k) \in Nat /\ f[x] \in Nat
    BY <1>5, <2>1
  <2>4. QED
    BY <2>2, <2>3
<1>7. QED
  BY <1>5, <1>6


=============================================================================
