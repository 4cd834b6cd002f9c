-------------------------- MODULE BlockSyncProofs --------------------------
(* Proofs about BlockSync, for every tree of blocks, every set of peers and *)
(* every list of header hashes they may send.                               *)
EXTENDS BlockSync, DataLemmas

-----------------------------------------------------------------------------
(* Chains                                                                   *)

LEMMA BlockFacts ==
  /\ Number[Genesis] = 0 /\ Number \in [Block -> Nat] /\ Genesis \in Block
  /\ \A b \in Block \ {Genesis} : /\ Parent[b] \in Block
                                  /\ Number[b] = Number[Parent[b]] + 1
                                  /\ Number[b] > 0
<1>1. /\ Number[Genesis] = 0 /\ Number \in [Block -> Nat] /\ Genesis \in Block
      /\ Parent \in [Block \ {Genesis} -> Block]
      /\ \A b \in Block \ {Genesis} : Number[b] = Number[Parent[b]] + 1
  BY SyncAssumption
<1>2. \A b \in Block \ {Genesis} : Parent[b] \in Block /\ Number[Parent[b]] \in Nat
  BY <1>1
<1>3. \A b \in Block \ {Genesis} : Number[b] > 0
  BY <1>1, <1>2
<1>4. QED
  BY <1>1, <1>2, <1>3

LEMMA ChainFacts ==
  /\ Chain \in [Block -> Seq(Block)]
  /\ Chain[Genesis] = <<Genesis>>
  /\ \A b \in Block \ {Genesis} : Chain[b] = Append(Chain[Parent[b]], b)
<1> DEFINE Def(f) == [b \in Block |-> IF b = Genesis THEN <<Genesis>>
                                      ELSE Append(f[Parent[b]], b)]
           F == [b \in Block |-> [q \in Seq(Block) |-> Append(q, b)]]
<1>1. /\ Parent \in [Block \ {Genesis} -> Block]
      /\ \A b \in Block \ {Genesis} : Number[Parent[b]] < Number[b]
  <2>1. Parent \in [Block \ {Genesis} -> Block]
    BY SyncAssumption
  <2>2. QED
    BY <2>1, BlockFacts
<1>2. <<Genesis>> \in Seq(Block)
  BY BlockFacts
<1>3. F \in [Block -> [Seq(Block) -> Seq(Block)]]
  OBVIOUS
<1>4. PICK g : SolvesTree(g, Block, Genesis, Parent, Seq(Block), <<Genesis>>, F)
  <2>1. Tree(Block, Genesis, Parent, Number)
    BY <1>1, BlockFacts DEF Tree
  <2> HIDE DEF F
  <2>2. QED
    BY <1>2, <1>3, <2>1, TreeRecursion
<1>5. g = Def(g)
  <2>1. \A b \in Block \ {Genesis} : g[b] = Append(g[Parent[b]], b)
    <3>1. \A b \in Block \ {Genesis} : Parent[b] \in Block /\ g[Parent[b]] \in Seq(Block)
      BY <1>1, <1>4 DEF SolvesTree
    <3>2. QED
      BY <1>4, <3>1 DEF SolvesTree
  <2>2. QED
    BY <1>4, <2>1 DEF SolvesTree
<1>6. Chain = CHOOSE f : f = Def(f)
  BY DEF Chain
<1>7. Chain = Def(Chain)
  <2> HIDE DEF Def
  <2>1. QED
    BY <1>5, <1>6
<1>8. /\ Chain[Genesis] = <<Genesis>>
      /\ \A b \in Block \ {Genesis} : Chain[b] = Append(Chain[Parent[b]], b)
  BY <1>7, BlockFacts
<1>9. Chain \in [Block -> Seq(Block)]
  <2> DEFINE T == {n \in Nat : \A b \in Block : Number[b] = n => Chain[b] \in Seq(Block)}
  <2>1. 0 \in T
    <3>1. \A b \in Block : Number[b] = 0 => b = Genesis
      BY BlockFacts
    <3>2. Chain[Genesis] \in Seq(Block)
      BY <1>2, <1>8
    <3>3. QED
      BY <3>1, <3>2
  <2>2. ASSUME NEW n \in Nat, n \in T
        PROVE  n + 1 \in T
    <3>1. ASSUME NEW b \in Block, Number[b] = n + 1
          PROVE  Chain[b] \in Seq(Block)
      <4>1. b # Genesis
        BY <3>1, BlockFacts
      <4>2. Parent[b] \in Block /\ Number[Parent[b]] = n
        BY <3>1, <4>1, BlockFacts
      <4>3. Chain[Parent[b]] \in Seq(Block)
        BY <2>2, <4>2
      <4>4. Chain[b] = Append(Chain[Parent[b]], b)
        BY <1>8, <4>1
      <4>5. QED
        BY <4>3, <4>4, AppendElements
    <3>2. QED
      BY <3>1
  <2>3. \A n \in Nat : n \in T
    <3> HIDE DEF T
    <3>1. QED
      BY <2>1, <2>2, Induction
  <2>4. \A b \in Block : Chain[b] \in Seq(Block)
    BY <2>3, BlockFacts
  <2>5. DOMAIN Chain = Block /\ Chain = [b \in Block |-> Chain[b]]
    <3> HIDE DEF Def
    <3>1. DOMAIN Def(Chain) = Block /\ Def(Chain) = [b \in Block |-> Def(Chain)[b]]
      BY DEF Def
    <3>2. QED
      BY <1>7, <3>1
  <2> HIDE DEF T
  <2>6. QED
    BY <2>4, <2>5
<1>10. QED
  BY <1>8, <1>9

(* The chain that ends in b has a block of each number, up from the genesis *)
(* block, and each is the parent of the next.                               *)
Lineage(b) ==
  /\ Len(Chain[b]) = Number[b] + 1
  /\ At(b, Number[b]) = b
  /\ \A n \in 0 .. Number[b] : At(b, n) \in Block /\ Number[At(b, n)] = n
  /\ \A n \in 1 .. Number[b] : Parent[At(b, n)] = At(b, n - 1)

LEMMA AtFacts ==
  ASSUME NEW b \in Block
  PROVE  Lineage(b)
<1> DEFINE T == {n \in Nat : \A c \in Block : Number[c] = n => Lineage(c)}
<1>1. 0 \in T
  <2> SUFFICES ASSUME NEW c \in Block, Number[c] = 0
               PROVE  Lineage(c)
    OBVIOUS
  <2>1. c = Genesis
    BY BlockFacts
  <2>2. Chain[c] = <<c>>
    BY <2>1, ChainFacts
  <2>3. QED
    BY <2>1, <2>2, BlockFacts DEF Lineage, At
<1>2. ASSUME NEW n \in Nat, n \in T
      PROVE  n + 1 \in T
  <2> SUFFICES ASSUME NEW c \in Block, Number[c] = n + 1
               PROVE  Lineage(c)
    OBVIOUS
  <2> DEFINE d == Parent[c]
  <2>1. c # Genesis /\ d \in Block /\ Number[d] = n
    BY BlockFacts
  <2>2. Lineage(d)
    BY <1>2, <2>1
  <2>3. Chain[d] \in Seq(Block) /\ Chain[c] = Append(Chain[d], c) /\ Len(Chain[d]) = n + 1
    BY <2>1, <2>2, ChainFacts DEF Lineage
  <2>4. /\ Len(Chain[c]) = n + 2
        /\ \A i \in 1 .. n + 1 : Chain[c][i] = Chain[d][i]
        /\ Chain[c][n + 2] = c
    BY <2>3
  <2>5. At(c, n + 1) = c
    BY <2>4 DEF At
  <2>6. \A m \in 0 .. n : At(c, m) = At(d, m)
    BY <2>4 DEF At
  <2> HIDE DEF d
  <2>7. \A m \in 0 .. n + 1 : At(c, m) \in Block /\ Number[At(c, m)] = m
    <3>1. \A m \in 0 .. n + 1 : m \in 0 .. n \/ m = n + 1
      OBVIOUS
    <3>2. QED
      BY <2>1, <2>2, <2>5, <2>6, <3>1 DEF Lineage
  <2>8. \A m \in 1 .. n + 1 : Parent[At(c, m)] = At(c, m - 1)
    <3>1. ASSUME NEW m \in 1 .. n
          PROVE  Parent[At(c, m)] = At(c, m - 1)
      <4>1. At(c, m) = At(d, m) /\ At(c, m - 1) = At(d, m - 1)
        BY <2>6
      <4>2. QED
        BY <2>1, <2>2, <4>1 DEF Lineage
    <3>2. Parent[At(c, n + 1)] = At(c, (n + 1) - 1)
      <4>1. At(c, n) = d
        BY <2>1, <2>2, <2>6 DEF Lineage
      <4>2. (n + 1) - 1 = n
        OBVIOUS
      <4>3. QED
        BY <2>5, <4>1, <4>2 DEF d
    <3>3. \A m \in 1 .. n + 1 : m \in 1 .. n \/ m = n + 1
      OBVIOUS
    <3>4. QED
      BY <3>1, <3>2, <3>3
  <2>9. QED
    BY <2>4, <2>5, <2>7, <2>8 DEF Lineage
<1>3. \A n \in Nat : n \in T
  <2> HIDE DEF T
  <2>1. QED
    BY <1>1, <1>2, Induction
<1>4. QED
  BY <1>3, BlockFacts

(* A set of blocks that holds the parent of each of its own.                *)
Closed(X) == \A b \in X \ {Genesis} : Parent[b] \in X

LEMMA AncestorsIn ==
  ASSUME NEW X, X \subseteq Block, Closed(X), NEW b \in X
  PROVE  \A n \in 0 .. Number[b] : At(b, n) \in X
<1> DEFINE k == Number[b]
           f == [i \in 0 .. k |-> At(b, k - i)]
<1>1. k \in Nat /\ Lineage(b)
  BY AtFacts, BlockFacts
<1>2. f[0] \in X
  BY <1>1 DEF Lineage
<1>3. ASSUME NEW i \in 1 .. k, f[i - 1] \in X
      PROVE  f[i] \in X
  <2> DEFINE n == k - (i - 1)
  <2>1. n \in 1 .. k /\ n - 1 = k - i /\ i - 1 \in 0 .. k /\ i \in 0 .. k /\ n \in 0 .. k
    BY <1>1
  <2>2. f[i - 1] = At(b, n) /\ f[i] = At(b, n - 1)
    BY <2>1
  <2> HIDE DEF n, f, k
  <2>3. Parent[At(b, n)] = At(b, n - 1) /\ Number[At(b, n)] = n
    BY <1>1, <2>1 DEF Lineage, k
  <2>4. At(b, n) # Genesis
    BY <1>1, <2>1, <2>3, BlockFacts
  <2>5. QED
    BY <1>3, <2>2, <2>3, <2>4 DEF Closed
<1>4. \A i \in 0 .. k : f[i] \in X
  <2> HIDE DEF f, k
  <2>1. QED
    BY <1>1, <1>2, <1>3, UpTo
<1>5. ASSUME NEW n \in 0 .. k
      PROVE  At(b, n) \in X
  <2>1. k - n \in 0 .. k /\ k - (k - n) = n
    BY <1>1
  <2>2. f[k - n] = At(b, n)
    BY <2>1
  <2>3. QED
    BY <1>4, <2>1, <2>2
<1>6. QED
  BY <1>5

-----------------------------------------------------------------------------
(* The list and the fetches                                                 *)

Listing(l) == l.first \in Nat /\ l.hashes \in Seq(Block)

(* The synchronisation starts just above a block of the main chain that the *)
(* list agrees on, or at the first number of the list.                      *)
LEMMA ForkNumberFacts ==
  ASSUME NEW l, Listing(l), tip \in Block
  PROVE  /\ ForkNumber(l) \in Nat
         /\ ForkNumber(l) >= l.first
         /\ ForkNumber(l) > l.first =>
              /\ ForkNumber(l) - 1 \in 0 .. Number[tip]
              /\ Expected(l, ForkNumber(l) - 1) = At(tip, ForkNumber(l) - 1)
<1> DEFINE top == Smaller(Number[tip], LastNumber(l))
           same == {n \in l.first .. top : At(tip, n) = Expected(l, n)}
<1>1. Number[tip] \in Nat /\ l.first \in Nat /\ Len(l.hashes) \in Nat
  BY BlockFacts DEF Listing
<1>2. top \in Int /\ top <= Number[tip]
  BY <1>1 DEF LastNumber, Smaller
<1>3. ForkNumber(l) = IF same = {} THEN l.first
                      ELSE 1 + CHOOSE n \in same : \A m \in same : m <= n
  BY DEF ForkNumber
<1> HIDE DEF top
<1>4. CASE same = {}
  BY <1>1, <1>3, <1>4
<1>5. CASE same # {}
  <2>1. same \subseteq Nat /\ \A n \in same : n <= Number[tip]
    BY <1>1, <1>2
  <2> DEFINE c == CHOOSE n \in same : \A m \in same : m <= n
  <2>2. c \in same
    <3> HIDE DEF same
    <3>1. \E n \in same : \A m \in same : m <= n
      BY <1>1, <1>5, <2>1, Greatest
    <3>2. QED
      BY <3>1
  <2>3. ForkNumber(l) = 1 + c
    BY <1>3, <1>5
  <2> HIDE DEF c
  <2>4. /\ c \in Nat /\ c >= l.first /\ c <= Number[tip]
        /\ At(tip, c) = Expected(l, c)
    BY <1>1, <2>1, <2>2
  <2>5. ForkNumber(l) - 1 = c
    BY <2>3, <2>4
  <2>6. QED
    BY <1>1, <2>3, <2>4, <2>5
<1>6. QED
  BY <1>4, <1>5

LEMMA SplitRange ==
  ASSUME NEW a \in Int, NEW b \in Int, NEW n \in Int, NEW k \in a .. b
  PROVE  k \in a .. n - 1 \/ k \in n .. b
OBVIOUS

(* m is the first number from n up whose block of l is not in have.         *)
FirstMissing(l, n, m, have) ==
  /\ m \in n .. LastNumber(l)
  /\ Expected(l, m) \notin have
  /\ \A k \in n .. m - 1 : Expected(l, k) \in have

LEMMA FetchFacts ==
  ASSUME NEW p, NEW l, Listing(l), NEW n \in Nat, NEW have, NEW running, NEW waiting,
         Fetch(p, l, n, have, running, waiting)
  PROVE  \/ /\ \A k \in n .. LastNumber(l) : Expected(l, k) \in have
            /\ Finish
            /\ timers' = running
            /\ asked' = waiting
         \/ /\ FirstMissing(l, n, wanted', have)
            /\ target' = p /\ list' = l
            /\ syncing' = TRUE
            /\ timers' = running + 1
            /\ asked' = waiting \cup (({p} \cap Honest) \X {wanted'})
<1> DEFINE missing == Missing(l, n, have)
           next == CHOOSE m \in missing : \A k \in missing : m <= k
<1>1. LastNumber(l) \in Int
  BY DEF Listing, LastNumber
<1>2. CASE missing = {}
  <2>1. \A k \in n .. LastNumber(l) : Expected(l, k) \in have
    BY <1>2 DEF Missing
  <2>2. QED
    BY <1>2, <2>1 DEF Fetch
<1>3. CASE missing # {}
  <2>1. missing \subseteq Nat
    BY <1>1 DEF Missing
  <2>2. next \in missing /\ \A k \in missing : next <= k
    <3> HIDE DEF missing
    <3>1. \E m \in missing : \A k \in missing : m <= k
      BY <1>3, <2>1, Least
    <3>2. QED
      BY <3>1
  <2>3. /\ target' = p /\ list' = l /\ wanted' = next
        /\ syncing' = TRUE /\ timers' = running + 1
        /\ asked' = waiting \cup (({p} \cap Honest) \X {next})
    BY <1>3 DEF Fetch, Armed
  <2> HIDE DEF next
  <2>4. next \in n .. LastNumber(l) /\ Expected(l, next) \notin have
    BY <2>2 DEF Missing
  <2>5. ASSUME NEW k \in n .. next - 1, Expected(l, k) \notin have
        PROVE  FALSE
    <3>1. k \in missing
      BY <1>1, <2>4, <2>5 DEF Missing
    <3>2. QED
      BY <1>1, <2>2, <2>4, <2>5, <3>1
  <2>6. FirstMissing(l, n, wanted', have)
    BY <2>3, <2>4, <2>5 DEF FirstMissing
  <2>7. QED
    BY <2>3, <2>6
<1>4. QED
  BY <1>2, <1>3

-----------------------------------------------------------------------------
(* The invariant                                                            *)

(* The list of an honest target is a valid chain from a number within the   *)
(* limit, and the node holds the block below the one it started with.       *)
Rooted(p, l, start, lim, have) ==
  /\ l.first <= lim
  /\ \E b \in Valid : l.first <= Number[b] /\ l = ChainFrom(b, l.first)
  /\ start > l.first => Expected(l, start - 1) \in have

(* The synchronisation of the list l from p, which began at start, waits    *)
(* for the block of number w and has brought in all those below.            *)
Underway(p, l, w, start, lim, have) ==
  /\ p \in Peer
  /\ w \in l.first .. LastNumber(l)
  /\ start \in l.first .. w
  /\ \A k \in start .. w - 1 : Expected(l, k) \in have
  /\ p \in Honest => Rooted(p, l, start, lim, have)

SyncPhase ==
  IF syncing
  THEN timers = 1 /\ Underway(target, list, wanted, from, limit, store)
  ELSE timers = 0 /\ target = None /\ list = NoList /\ wanted = -1

(* What is asked of a connected honest peer is the block now wanted ...     *)
AsksCurrent ==
  \A a \in asked : a[1] \in connected => syncing /\ a = <<target, wanted>>

(* ... and that block is asked of the target, until it answers badly.       *)
AskStands ==
  syncing /\ target \in Honest \cap connected /\ target \notin banned =>
    <<target, wanted>> \in asked

SyncTyped ==
  /\ store \subseteq Block /\ tip \in store
  /\ limit \in Nat /\ from \in Nat
  /\ Listing(list)
  /\ syncing \in BOOLEAN
  /\ asked \subseteq Honest \X Nat
  /\ connected \subseteq Peer /\ banned \subseteq Peer
  /\ view \in [Honest -> Valid]

SyncInv ==
  /\ SyncTyped
  /\ Closed(store)
  /\ SyncPhase
  /\ AsksCurrent
  /\ AskStands

LEMMA UnderwayGrows ==
  ASSUME NEW p, NEW l, NEW w, NEW start, NEW lim \in Nat, NEW lim2 \in Nat, lim <= lim2,
         l.first \in Nat,
         NEW have, NEW have2, have \subseteq have2,
         Underway(p, l, w, start, lim, have)
  PROVE  Underway(p, l, w, start, lim2, have2)
<1>1. p \in Honest => Rooted(p, l, start, lim2, have2)
  BY DEF Underway, Rooted
<1>2. QED
  BY <1>1 DEF Underway

LEMMA AddBlockFacts ==
  ASSUME SyncInv, NEW b \in Block, Accepted(b), AddBlock(b)
  PROVE  /\ store' = store \cup {b} /\ store' \subseteq Block
         /\ tip' \in store'
         /\ limit' \in Nat /\ limit <= limit'
         /\ Closed(store')
<1>1. /\ store \subseteq Block /\ tip \in store /\ limit \in Nat
      /\ store' = store \cup {b}
      /\ tip' = IF Number[b] > Number[tip] THEN b ELSE tip
      /\ limit' = Bigger(limit, Number[tip'] - ReorgLimit)
      /\ Parent[b] \in store /\ Closed(store)
  BY DEF SyncInv, SyncTyped, AddBlock, Accepted
<1>2. tip' \in store' /\ tip' \in Block
  BY <1>1
<1>3. Number[tip'] \in Nat /\ ReorgLimit \in Nat
  BY <1>2, BlockFacts, SyncAssumption
<1>4. limit' \in Nat /\ limit <= limit'
  BY <1>1, <1>3 DEF Bigger
<1>5. Closed(store')
  BY <1>1 DEF Closed
<1>6. QED
  BY <1>1, <1>2, <1>4, <1>5

LEMMA FetchKeeps ==
  ASSUME NEW p \in Peer, NEW l, Listing(l), NEW n \in Nat,
         from' \in l.first .. n, from' \in Nat,
         \A k \in from' .. n - 1 : Expected(l, k) \in store',
         p \in Honest => Rooted(p, l, from', limit', store'),
         NEW have, have = store', NEW running, running = 0,
         NEW waiting, waiting \subseteq Honest \X Nat,
         \A a \in waiting : a[1] \notin connected',
         Fetch(p, l, n, have, running, waiting)
  PROVE  /\ SyncPhase' /\ AsksCurrent' /\ AskStands'
         /\ asked' \subseteq Honest \X Nat
         /\ syncing' \in BOOLEAN
         /\ Listing(list')
         /\ ~ syncing' => \A k \in from' .. LastNumber(l) : Expected(l, k) \in store'
<1>0. l.first \in Nat /\ LastNumber(l) \in Int
  BY DEF Listing, LastNumber
<1>1. CASE /\ \A k \in n .. LastNumber(l) : Expected(l, k) \in have
           /\ Finish
           /\ timers' = running
           /\ asked' = waiting
  <2>1. target' = None /\ list' = NoList /\ wanted' = -1 /\ syncing' = FALSE
    BY <1>1 DEF Finish
  <2>2. Listing(NoList)
    BY DEF Listing, NoList
  <2>3. ASSUME NEW k \in from' .. LastNumber(l)
        PROVE  Expected(l, k) \in store'
    <3>1. k \in from' .. n - 1 \/ k \in n .. LastNumber(l)
      BY <1>0
    <3>2. QED
      BY <1>1, <3>1
  <2>4. SyncPhase' /\ AsksCurrent' /\ AskStands'
    BY <1>1, <2>1 DEF SyncPhase, AsksCurrent, AskStands
  <2>5. QED
    BY <1>1, <2>1, <2>2, <2>3, <2>4
<1>2. CASE /\ FirstMissing(l, n, wanted', have)
           /\ target' = p /\ list' = l
           /\ syncing' = TRUE
           /\ timers' = running + 1
           /\ asked' = waiting \cup (({p} \cap Honest) \X {wanted'})
  <2>1. /\ wanted' \in n .. LastNumber(l) /\ wanted' \in Nat
        /\ \A k \in n .. wanted' - 1 : Expected(l, k) \in store'
    <3>1. /\ wanted' \in n .. LastNumber(l)
          /\ \A k \in n .. wanted' - 1 : Expected(l, k) \in have
      BY <1>2 DEF FirstMissing
    <3>2. wanted' \in Nat
      BY <1>0, <3>1
    <3>3. QED
      BY <3>1, <3>2
  <2>2. wanted' \in l.first .. LastNumber(l) /\ from' \in l.first .. wanted'
    BY <1>0, <2>1
  <2>3. ASSUME NEW k \in from' .. wanted' - 1
        PROVE  Expected(l, k) \in store'
    <3>1. k \in from' .. n - 1 \/ k \in n .. wanted' - 1
      <4>1. wanted' - 1 \in Int /\ from' \in Int /\ n \in Int
        BY <2>1
      <4>2. QED
        BY <4>1, SplitRange
    <3>2. QED
      BY <2>1, <3>1
  <2>4. Underway(p, l, wanted', from', limit', store')
    BY <2>2, <2>3 DEF Underway
  <2>5. SyncPhase'
    BY <1>2, <2>4 DEF SyncPhase
  <2>6. \A a \in asked' : a \in waiting \/ a = <<p, wanted'>>
    BY <1>2
  <2>7. AsksCurrent'
    BY <1>2, <2>6 DEF AsksCurrent
  <2>8. AskStands'
    BY <1>2 DEF AskStands
  <2>9. asked' \subseteq Honest \X Nat
    BY <1>2, <2>1
  <2>10. QED
    BY <1>2, <2>5, <2>7, <2>8, <2>9
<1>3. QED
  BY <1>1, <1>2, FetchFacts

-----------------------------------------------------------------------------
(* The steps                                                                *)

LEMMA SyncInitInv == Init => SyncInv
<1> SUFFICES ASSUME Init PROVE SyncInv
  OBVIOUS
<1>1. Tip0 \in Block /\ Tip0 \in Valid /\ Number[Tip0] \in Nat /\ ReorgLimit \in Nat
  BY SyncAssumption, BlockFacts
<1>2. Lineage(Tip0)
  BY <1>1, AtFacts
<1>3. /\ store = {At(Tip0, n) : n \in 0 .. Number[Tip0]}
      /\ tip = Tip0
      /\ limit = Bigger(0, Number[Tip0] - ReorgLimit)
      /\ target = None /\ list = NoList /\ wanted = -1
      /\ syncing = FALSE /\ timers = 0 /\ asked = {}
      /\ connected = Peer /\ banned = {} /\ view = View0 /\ from = 0
  BY DEF Init
<1>4. store \subseteq Block
  BY <1>2, <1>3 DEF Lineage
<1>5. tip \in store
  BY <1>1, <1>2, <1>3 DEF Lineage
<1>6. Closed(store)
  <2> SUFFICES ASSUME NEW b \in store, b # Genesis
               PROVE  Parent[b] \in store
    BY DEF Closed
  <2>1. PICK n \in 0 .. Number[Tip0] : b = At(Tip0, n)
    BY <1>3
  <2>2. Number[b] = n /\ n > 0
    BY <1>2, <1>4, <2>1, BlockFacts DEF Lineage
  <2>3. n \in 1 .. Number[Tip0] /\ n - 1 \in 0 .. Number[Tip0]
    BY <1>1, <2>2
  <2>4. Parent[b] = At(Tip0, n - 1)
    BY <1>2, <2>1, <2>3 DEF Lineage
  <2>5. QED
    BY <1>3, <2>3, <2>4
<1>7. limit \in Nat
  BY <1>1, <1>3 DEF Bigger
<1>8. Listing(list)
  BY <1>3 DEF Listing, NoList
<1>9. view \in [Honest -> Valid]
  BY <1>3, SyncAssumption
<1>10. SyncTyped
  BY <1>3, <1>4, <1>5, <1>7, <1>8, <1>9 DEF SyncTyped
<1>11. SyncPhase /\ AsksCurrent /\ AskStands
  BY <1>3 DEF SyncPhase, AsksCurrent, AskStands
<1>12. QED
  BY <1>6, <1>10, <1>11 DEF SyncInv

(* Blocks that arrive otherwise disturb no synchronisation.                 *)
LEMMA BlockArrivesKeeps ==
  ASSUME SyncInv, NEW b \in Block, BlockArrives(b)
  PROVE  SyncInv'
<1>1. /\ Accepted(b) /\ AddBlock(b)
      /\ UNCHANGED <<target, list, wanted, syncing, timers, asked, from, connected, banned, view>>
  BY DEF BlockArrives, syncVars
<1>2. /\ store \subseteq store' /\ store' \subseteq Block /\ tip' \in store'
      /\ limit \in Nat /\ limit' \in Nat /\ limit <= limit' /\ Closed(store')
  BY <1>1, AddBlockFacts DEF SyncInv, SyncTyped
<1>3. SyncTyped'
  BY <1>1, <1>2 DEF SyncInv, SyncTyped
<1>4. SyncPhase'
  <2>1. list.first \in Nat
    BY DEF SyncInv, SyncTyped, Listing
  <2>2. Underway(target, list, wanted, from, limit, store)
           => Underway(target, list, wanted, from, limit', store')
    BY <1>2, <2>1, UnderwayGrows
  <2>3. QED
    BY <1>1, <2>2 DEF SyncInv, SyncPhase
<1>5. AsksCurrent' /\ AskStands'
  BY <1>1 DEF SyncInv, AsksCurrent, AskStands
<1>6. QED
  BY <1>2, <1>3, <1>4, <1>5 DEF SyncInv

(* A list that leaves the main chain starts a synchronisation.              *)
LEMMA CompareAndSyncKeeps ==
  ASSUME SyncInv, NEW p \in Peer, NEW l, Listing(l), CompareAndSync(p, l),
         p \in Honest => /\ l.first <= limit
                         /\ \E b \in Valid : l.first <= Number[b] /\ l = ChainFrom(b, l.first)
  PROVE  SyncInv'
<1> DEFINE n == ForkNumber(l)
<1>1. /\ ~ syncing
      /\ Fetch(p, l, n, store, timers, asked)
      /\ from' = n
      /\ UNCHANGED <<store, tip, limit, connected, banned, view>>
  BY DEF CompareAndSync, nodeVars
<1>2. tip \in Block /\ tip \in store /\ store \subseteq Block /\ Closed(store)
  BY DEF SyncInv, SyncTyped
<1>3. /\ n \in Nat /\ n >= l.first
      /\ n > l.first => n - 1 \in 0 .. Number[tip] /\ Expected(l, n - 1) = At(tip, n - 1)
  BY <1>2, ForkNumberFacts
<1> HIDE DEF n
<1>4. timers = 0
  BY <1>1 DEF SyncInv, SyncPhase
<1>5. asked \subseteq Honest \X Nat /\ \A a \in asked : a[1] \notin connected'
  BY <1>1 DEF SyncInv, SyncTyped, AsksCurrent
<1>6. n > l.first => Expected(l, n - 1) \in store'
  BY <1>1, <1>2, <1>3, AncestorsIn
<1>7. p \in Honest => Rooted(p, l, from', limit', store')
  BY <1>1, <1>6 DEF Rooted
<1>8. /\ from' \in l.first .. n /\ from' \in Nat
      /\ \A k \in from' .. n - 1 : Expected(l, k) \in store'
  BY <1>1, <1>3 DEF Listing
<1>9. /\ SyncPhase' /\ AsksCurrent' /\ AskStands'
      /\ asked' \subseteq Honest \X Nat
      /\ syncing' \in BOOLEAN
      /\ Listing(list')
  BY <1>1, <1>3, <1>4, <1>5, <1>7, <1>8, FetchKeeps
<1>10. SyncTyped'
  BY <1>1, <1>8, <1>9 DEF SyncInv, SyncTyped
<1>11. QED
  BY <1>1, <1>2, <1>9, <1>10 DEF SyncInv

LEMMA ChainFromFacts ==
  ASSUME NEW b \in Block, NEW n \in 0 .. Number[b]
  PROVE  /\ Listing(ChainFrom(b, n))
         /\ ChainFrom(b, n).first = n
         /\ LastNumber(ChainFrom(b, n)) \in n .. Number[b]
         /\ \A m \in n .. LastNumber(ChainFrom(b, n)) : Expected(ChainFrom(b, n), m) = At(b, m)
<1> DEFINE last == Smaller(Number[b], n + 2 * ReorgLimit)
           k == last - n + 1
           h == [i \in 1 .. k |-> At(b, n + i - 1)]
<1>1. ChainFrom(b, n).first = n /\ ChainFrom(b, n).hashes = h
  BY DEF ChainFrom
<1>2. Number[b] \in Nat /\ last \in n .. Number[b]
  BY BlockFacts, SyncAssumption DEF Smaller
<1> HIDE DEF last
<1>3. k \in Nat /\ n + k - 1 = last
  BY <1>2
<1>4. \A i \in 1 .. k : At(b, n + i - 1) \in Block
  <2>1. \A i \in 1 .. k : n + i - 1 \in 0 .. Number[b]
    BY <1>2
  <2>2. QED
    BY <2>1, AtFacts DEF Lineage
<1>5. ASSUME NEW m \in n .. last
      PROVE  m - n + 1 \in 1 .. k /\ n + (m - n + 1) - 1 = m
  BY <1>2
<1> HIDE DEF k
<1>6. h \in Seq(Block) /\ Len(h) = k
  BY <1>3, <1>4
<1>7. ASSUME NEW m \in n .. last
      PROVE  h[m - n + 1] = At(b, m)
  BY <1>5
<1> HIDE DEF h
<1>8. LastNumber(ChainFrom(b, n)) = last
  BY <1>1, <1>3, <1>6 DEF LastNumber
<1>9. QED
  BY <1>1, <1>2, <1>6, <1>7, <1>8 DEF Listing, Expected

LEMMA HeaderHashesKeeps ==
  ASSUME SyncInv,
         \/ \E p \in Honest, n \in Numbers : HonestHeaderHashes(p, n)
         \/ \E p \in Peer, l \in Lists : OtherHeaderHashes(p, l)
  PROVE  SyncInv'
<1>1. ASSUME NEW p \in Honest, NEW n \in Numbers, HonestHeaderHashes(p, n)
      PROVE  SyncInv'
  <2> DEFINE b == view[p]
             l == ChainFrom(b, n)
  <2>1. b \in Valid /\ b \in Block /\ p \in Peer
    BY SyncAssumption DEF SyncInv, SyncTyped
  <2>2. n \in Nat /\ n <= limit /\ n <= Number[b] /\ CompareAndSync(p, l)
    BY <1>1, BlockFacts DEF HonestHeaderHashes, Numbers
  <2> HIDE DEF b
  <2>3. n \in 0 .. Number[b]
    BY <2>1, <2>2, BlockFacts
  <2>4. Listing(l) /\ l.first = n
    BY <2>1, <2>3, ChainFromFacts
  <2>5. l = ChainFrom(b, l.first)
    BY <2>4
  <2> HIDE DEF l
  <2>6. QED
    BY <2>1, <2>2, <2>4, <2>5, CompareAndSyncKeeps
<1>2. ASSUME NEW p \in Peer, NEW l \in Lists, OtherHeaderHashes(p, l)
      PROVE  SyncInv'
  <2>1. Listing(l)
    BY SyncAssumption DEF Listing
  <2>2. p \notin Honest /\ CompareAndSync(p, l)
    BY <1>2 DEF OtherHeaderHashes
  <2>3. QED
    BY <2>1, <2>2, CompareAndSyncKeeps
<1>3. QED
  BY <1>1, <1>2

(* A block from a peer: what was asked of the target is answered.           *)
LEMMA BlockReceivedKeeps ==
  ASSUME SyncInv, NEW p \in Peer, NEW b \in Block,
         NEW waiting, waiting \subseteq asked,
         p # target => waiting = asked,
         p = target => \A a \in waiting : a[1] \notin connected,
         BlockReceived(p, b, waiting),
         UNCHANGED <<connected, view, from>>
  PROVE  /\ SyncInv'
         /\ syncing /\ ~ syncing' =>
              \A k \in from .. LastNumber(list) : Expected(list, k) \in store'
<1>1. CASE /\ p # target
           /\ asked' = waiting
           /\ UNCHANGED <<nodeVars, target, list, wanted, syncing, timers, banned>>
  BY <1>1 DEF SyncInv, SyncTyped, SyncPhase, AsksCurrent, AskStands, nodeVars
<1>2. CASE /\ p = target /\ Unexpected(b)
           /\ banned' = banned \cup {p}
           /\ asked' = waiting
           /\ UNCHANGED <<nodeVars, target, list, wanted, syncing, timers>>
  <2>1. /\ target \in banned' /\ banned' \subseteq Peer /\ asked' \subseteq asked
        /\ UNCHANGED <<store, tip, limit, target, list, wanted, syncing, timers, connected, view,
                       from>>
    BY <1>2 DEF SyncInv, SyncTyped, nodeVars
  <2>2. SyncTyped'
    BY <2>1 DEF SyncInv, SyncTyped
  <2>3. SyncPhase' /\ AsksCurrent' /\ AskStands'
    BY <2>1 DEF SyncInv, SyncPhase, AsksCurrent, AskStands
  <2>4. QED
    BY <2>1, <2>2, <2>3 DEF SyncInv
<1>3. CASE /\ p = target /\ ~ Unexpected(b)
           /\ AddBlock(b)
           /\ Fetch(p, list, wanted + 1, store \cup {b}, Cancelled, waiting)
           /\ UNCHANGED banned
  <2>1. Accepted(b) /\ b = Expected(list, wanted)
    BY <1>3 DEF Unexpected
  <2>2. /\ store' = store \cup {b} /\ store' \subseteq Block /\ tip' \in store'
        /\ limit \in Nat /\ limit' \in Nat /\ limit <= limit' /\ Closed(store')
    BY <1>3, <2>1, AddBlockFacts DEF SyncInv, SyncTyped
  <2>3. syncing /\ timers = 1 /\ Underway(p, list, wanted, from, limit, store)
    BY <1>3, SyncAssumption DEF SyncInv, SyncPhase
  <2>4. Underway(p, list, wanted, from, limit', store')
    BY <2>2, <2>3, UnderwayGrows DEF SyncInv, SyncTyped, Listing
  <2>5. Listing(list) /\ list.first \in Nat /\ from \in Nat
    BY DEF SyncInv, SyncTyped, Listing
  <2>6. /\ wanted \in list.first .. LastNumber(list) /\ from \in list.first .. wanted
        /\ \A k \in from .. wanted - 1 : Expected(list, k) \in store'
        /\ p \in Honest => Rooted(p, list, from, limit', store')
    BY <2>4 DEF Underway
  <2>7. /\ wanted \in Nat /\ wanted + 1 \in Nat
        /\ from' = from /\ from' \in list.first .. wanted + 1 /\ from' \in Nat
    <3>1. LastNumber(list) \in Int
      BY <2>5 DEF Listing, LastNumber
    <3>2. wanted \in Nat /\ from \in list.first .. wanted + 1
      BY <2>5, <2>6, <3>1
    <3>3. QED
      BY <2>5, <3>2
  <2>8. \A k \in from' .. (wanted + 1) - 1 : Expected(list, k) \in store'
    <3>1. (wanted + 1) - 1 = wanted /\ wanted \in Int /\ from \in Int
      BY <2>5, <2>7
    <3>2. \A k \in from .. wanted : k \in from .. wanted - 1 \/ k = wanted
      BY <3>1
    <3>3. QED
      BY <2>1, <2>2, <2>6, <2>7, <3>1, <3>2
  <2>9. Cancelled = 0
    BY <2>3 DEF Cancelled
  <2>10. waiting \subseteq Honest \X Nat /\ \A a \in waiting : a[1] \notin connected'
    BY <1>3 DEF SyncInv, SyncTyped
  <2>11. p \in Honest => Rooted(p, list, from', limit', store')
    BY <2>6, <2>7
  <2>12. /\ SyncPhase' /\ AsksCurrent' /\ AskStands'
         /\ asked' \subseteq Honest \X Nat
         /\ syncing' \in BOOLEAN
         /\ Listing(list')
         /\ ~ syncing' => \A k \in from' .. LastNumber(list) : Expected(list, k) \in store'
    <3> DEFINE n == wanted + 1
               have == store \cup {b}
    <3>1. /\ n \in Nat /\ have = store' /\ from' \in list.first .. n
          /\ \A k \in from' .. n - 1 : Expected(list, k) \in store'
          /\ Fetch(p, list, n, have, Cancelled, waiting)
      BY <1>3, <2>2, <2>7, <2>8
    <3> HIDE DEF n, have
    <3>2. QED
      BY <2>5, <2>7, <2>9, <2>10, <2>11, <3>1, FetchKeeps
  <2>13. SyncTyped'
    BY <1>3, <2>2, <2>7, <2>12 DEF SyncInv, SyncTyped
  <2>14. QED
    BY <2>2, <2>7, <2>12, <2>13 DEF SyncInv
<1>4. QED
  BY <1>1, <1>2, <1>3 DEF BlockReceived

LEMMA PushBlockKeeps ==
  ASSUME SyncInv,
         \/ \E p \in Honest, n \in Numbers : HonestPushBlock(p, n)
         \/ \E p \in Peer, b \in Block : OtherPushBlock(p, b)
  PROVE  /\ SyncInv'
         /\ syncing /\ ~ syncing' =>
              \A k \in from .. LastNumber(list) : Expected(list, k) \in store'
<1>1. ASSUME NEW p \in Honest, NEW n \in Numbers, HonestPushBlock(p, n)
      PROVE  /\ SyncInv'
             /\ syncing /\ ~ syncing' =>
                  \A k \in from .. LastNumber(list) : Expected(list, k) \in store'
  <2> DEFINE b == At(view[p], n)
             waiting == asked \ {<<p, n>>}
  <2>1. /\ p \in connected /\ <<p, n>> \in asked
        /\ 0 < n /\ n <= Number[view[p]]
        /\ BlockReceived(p, b, waiting)
        /\ UNCHANGED <<connected, view, from>>
    BY <1>1 DEF HonestPushBlock
  <2>2. p \in Peer /\ view[p] \in Block
    BY SyncAssumption DEF SyncInv, SyncTyped
  <2>3. b \in Block
    <3>1. n \in 0 .. Number[view[p]]
      BY <2>1, <2>2, BlockFacts DEF SyncInv, SyncTyped
    <3>2. QED
      BY <2>2, <3>1, AtFacts DEF Lineage
  <2>4. \A a \in asked : a[1] \in connected => a = <<p, n>>
    BY <2>1 DEF SyncInv, AsksCurrent
  <2>5. p = target
    BY <2>1 DEF SyncInv, AsksCurrent
  <2>6. waiting \subseteq asked /\ \A a \in waiting : a[1] \notin connected
    BY <2>4
  <2> HIDE DEF b, waiting
  <2>7. QED
    BY <2>1, <2>2, <2>3, <2>5, <2>6, BlockReceivedKeeps
<1>2. ASSUME NEW p \in Peer, NEW b \in Block, OtherPushBlock(p, b)
      PROVE  /\ SyncInv'
             /\ syncing /\ ~ syncing' =>
                  \A k \in from .. LastNumber(list) : Expected(list, k) \in store'
  <2>1. p \notin Honest /\ BlockReceived(p, b, asked) /\ UNCHANGED <<connected, view, from>>
    BY <1>2 DEF OtherPushBlock
  <2>2. ASSUME p = target, NEW a \in asked
        PROVE  a[1] \notin connected
    <3>1. a \in Honest \X Nat /\ (a[1] \in connected => a = <<target, wanted>>)
      BY DEF SyncInv, SyncTyped, AsksCurrent
    <3>2. QED
      BY <2>1, <2>2, <3>1
  <2>3. QED
    BY <2>1, <2>2, BlockReceivedKeeps
<1>3. QED
  BY <1>1, <1>2

LEMMA TimerFiresKeeps ==
  ASSUME SyncInv, TimerFires
  PROVE  SyncInv'
<1>1. /\ timers > 0
      /\ \A a \in asked : a[1] \notin connected
      /\ timers' = timers - 1
      /\ UNCHANGED <<store, tip, limit, asked, connected, view, from>>
  BY DEF TimerFires, nodeVars
<1>2. syncing /\ timers' = 0 /\ target \in Peer
  BY <1>1 DEF SyncInv, SyncPhase, Underway
<1>3. /\ banned' = banned \cup {target}
      /\ target' = None /\ list' = NoList /\ wanted' = -1 /\ syncing' = FALSE
  BY <1>2 DEF TimerFires, Finish
<1>4. Listing(NoList)
  BY DEF Listing, NoList
<1>5. SyncTyped'
  BY <1>1, <1>2, <1>3, <1>4 DEF SyncInv, SyncTyped
<1>6. SyncPhase' /\ AsksCurrent' /\ AskStands'
  BY <1>1, <1>2, <1>3 DEF SyncPhase, AsksCurrent, AskStands
<1>7. QED
  BY <1>1, <1>5, <1>6 DEF SyncInv

LEMMA PeersKeep ==
  ASSUME SyncInv,
         \/ \E p \in Peer : Disconnect(p)
         \/ \E p \in Honest, b \in Block : PeerReorganises(p, b)
  PROVE  SyncInv'
<1>1. ASSUME NEW p \in Peer, Disconnect(p)
      PROVE  SyncInv'
  <2>1. /\ connected' \subseteq connected
        /\ UNCHANGED <<store, tip, limit, target, list, wanted, syncing, timers, asked, from,
                       banned, view>>
    BY <1>1 DEF Disconnect, nodeVars, syncVars
  <2>2. SyncTyped'
    BY <2>1 DEF SyncInv, SyncTyped
  <2>3. SyncPhase' /\ AsksCurrent' /\ AskStands'
    BY <2>1 DEF SyncInv, SyncPhase, AsksCurrent, AskStands
  <2>4. QED
    BY <2>1, <2>2, <2>3 DEF SyncInv
<1>2. ASSUME NEW p \in Honest, NEW b \in Block, PeerReorganises(p, b)
      PROVE  SyncInv'
  <2>1. /\ view' \in [Honest -> Valid]
        /\ UNCHANGED <<store, tip, limit, target, list, wanted, syncing, timers, asked, from,
                       banned, connected>>
    BY <1>2 DEF PeerReorganises, nodeVars, syncVars, SyncInv, SyncTyped
  <2>2. SyncTyped'
    BY <2>1 DEF SyncInv, SyncTyped
  <2>3. SyncPhase' /\ AsksCurrent' /\ AskStands'
    BY <2>1 DEF SyncInv, SyncPhase, AsksCurrent, AskStands
  <2>4. QED
    BY <2>1, <2>2, <2>3 DEF SyncInv
<1>3. QED
  BY <1>1, <1>2

LEMMA SyncUnchanged ==
  ASSUME SyncInv, UNCHANGED vars
  PROVE  SyncInv'
BY DEF SyncInv, SyncTyped, SyncPhase, AsksCurrent, AskStands, vars

LEMMA SyncNextKeeps == SyncInv /\ [Next]_vars => SyncInv'
<1> SUFFICES ASSUME SyncInv, [Next]_vars PROVE SyncInv'
  OBVIOUS
<1>1. CASE Next
  BY <1>1, BlockArrivesKeeps, HeaderHashesKeeps, PushBlockKeeps, TimerFiresKeeps, PeersKeep
     DEF Next
<1>2. CASE UNCHANGED vars
  BY <1>2, SyncUnchanged
<1>3. QED
  BY <1>1, <1>2

-----------------------------------------------------------------------------
(* The theorems                                                             *)

(* The invariant holds whatever peers send, withhold or break off, whatever *)
(* blocks arrive meanwhile and however honest peers change their chains.    *)
THEOREM SyncInvariant == Spec => []SyncInv
<1>1. QED
  BY SyncInitInv, SyncNextKeeps, PTL DEF Spec

(* Every value stays in its type; the last block is one the node holds and  *)
(* the number wanted never passes the end of the list.                      *)
THEOREM SyncTypeCorrect == Spec => []TypeOK
<1>1. SyncInv => TypeOK
  <2> SUFFICES ASSUME SyncInv PROVE TypeOK
    OBVIOUS
  <2>1. /\ SyncTyped /\ SyncPhase
        /\ list.first \in Nat /\ list.hashes \in Seq(Block) /\ LastNumber(list) \in Int
    BY DEF SyncInv, SyncTyped, Listing, LastNumber
  <2>2. target \in Peer \cup {None} /\ timers \in Nat
    BY <2>1 DEF SyncPhase, Underway
  <2>3. wanted \in -1 .. LastNumber(list)
    <3>1. CASE syncing
      BY <2>1, <3>1 DEF SyncPhase, Underway
    <3>2. CASE ~ syncing
      BY <2>1, <3>2 DEF SyncPhase, NoList, LastNumber
    <3>3. QED
      BY <3>1, <3>2
  <2>4. QED
    BY <2>1, <2>2, <2>3 DEF SyncTyped, TypeOK
<1>2. QED
  BY <1>1, SyncInvariant, PTL

(* A synchronisation has a target, a number still to fetch and exactly one  *)
(* timer, and nothing of it is left when it is over (peer_fetch_block,      *)
(* block_received, is_syncing_finished).                                    *)
THEOREM SyncStaysWatched == Spec => []SyncIsWatched
<1>1. SyncInv => SyncIsWatched
  <2> SUFFICES ASSUME SyncInv PROVE SyncIsWatched
    OBVIOUS
  <2>1. SyncPhase /\ None \notin Peer
    BY SyncAssumption DEF SyncInv
  <2>2. CASE syncing
    BY <2>1, <2>2 DEF SyncPhase, Underway, SyncIsWatched
  <2>3. CASE ~ syncing
    BY <2>1, <2>3 DEF SyncPhase, SyncIsWatched, NoList, LastNumber
  <2>4. QED
    BY <2>2, <2>3
<1>2. QED
  BY <1>1, SyncInvariant, PTL

(* The block that an honest target was asked for is accepted if it is still *)
(* on the target's chain, above the limit and not yet there.                *)
LEMMA HonestBlockAccepted ==
  ASSUME SyncInv, syncing, target \in Honest,
         NEW b, b = Expected(list, wanted), b \notin store, ~ (Number[b] <= limit)
  PROVE  b \in Block /\ Number[b] = wanted /\ Accepted(b)
<1>1. /\ wanted \in list.first .. LastNumber(list)
      /\ from \in list.first .. wanted
      /\ \A k \in from .. wanted - 1 : Expected(list, k) \in store
      /\ Rooted(target, list, from, limit, store)
  BY DEF SyncInv, SyncPhase, Underway
<1>2. PICK c \in Valid : list.first <= Number[c] /\ list = ChainFrom(c, list.first)
  BY <1>1 DEF Rooted
<1>3. /\ c \in Block /\ Number[c] \in Nat /\ list.first \in Nat /\ list.first \in 0 .. Number[c]
      /\ limit \in Nat
  BY <1>2, BlockFacts, SyncAssumption DEF SyncInv, SyncTyped, Listing
<1>4. /\ LastNumber(list) \in list.first .. Number[c]
      /\ \A m \in list.first .. LastNumber(list) : Expected(list, m) = At(c, m)
  BY <1>2, <1>3, ChainFromFacts
<1>5. /\ wanted \in Nat /\ wanted \in 0 .. Number[c]
      /\ wanted \in list.first .. LastNumber(list)
      /\ from \in Int
  BY <1>1, <1>3, <1>4
<1>6. b = At(c, wanted) /\ b \in Block /\ Number[b] = wanted
  BY <1>3, <1>4, <1>5, AtFacts DEF Lineage
<1>7. b # Genesis
  BY <1>3, <1>5, <1>6, BlockFacts
<1>8. b \in Valid
  <2> DEFINE X == Valid \cup {Genesis}
  <2>1. X \subseteq Block /\ Closed(X) /\ c \in X
    BY <1>2, SyncAssumption DEF Closed
  <2> HIDE DEF X
  <2>2. b \in X
    BY <1>5, <1>6, <2>1, AncestorsIn
  <2>3. QED
    BY <1>7, <2>2 DEF X
<1>9. /\ wanted > list.first /\ wanted - 1 \in list.first .. LastNumber(list)
      /\ wanted \in 1 .. Number[c]
  <2>1. list.first <= limit /\ wanted > limit
    BY <1>1, <1>3, <1>5, <1>6 DEF Rooted
  <2>2. QED
    BY <1>3, <1>4, <1>5, <2>1
<1>10. Parent[b] = Expected(list, wanted - 1)
  BY <1>3, <1>4, <1>6, <1>9, AtFacts DEF Lineage
<1>11. Expected(list, wanted - 1) \in store
  <2>1. CASE from = wanted
    BY <1>1, <1>9, <2>1 DEF Rooted
  <2>2. CASE from # wanted
    <3>1. wanted - 1 \in from .. wanted - 1
      BY <1>1, <1>3, <1>5, <2>2
    <3>2. QED
      BY <1>1, <3>1
  <2>3. QED
    BY <2>1, <2>2
<1>12. Number[b] > limit
  BY <1>3, <1>5, <1>6
<1>13. QED
  BY <1>6, <1>8, <1>10, <1>11, <1>12 DEF Accepted

Accident(p) ==
  LET b == Expected(list, wanted)
  IN p \notin connected \/ b \in store \/ At(view[p], wanted) # b \/ Number[b] <= limit

LEMMA BanIsAccident ==
  ASSUME SyncInv, [Next]_vars, NEW p \in Honest, p \in banned' \ banned
  PROVE  Accident(p)
<1>1. CASE \E b \in Block : BlockArrives(b)
  BY <1>1 DEF BlockArrives
<1>2. CASE \E q \in Honest, n \in Numbers : HonestHeaderHashes(q, n)
  BY <1>2 DEF HonestHeaderHashes, CompareAndSync
<1>3. CASE \E q \in Peer, l \in Lists : OtherHeaderHashes(q, l)
  BY <1>3 DEF OtherHeaderHashes, CompareAndSync
<1>4. ASSUME NEW q \in Honest, NEW n \in Numbers, HonestPushBlock(q, n)
      PROVE  Accident(p)
  <2> DEFINE b == At(view[q], n)
  <2>1. /\ q \in connected /\ <<q, n>> \in asked
        /\ n <= Number[view[q]]
        /\ BlockReceived(q, b, asked \ {<<q, n>>})
    BY <1>4 DEF HonestPushBlock
  <2>2. syncing /\ q = target /\ n = wanted
    BY <2>1 DEF SyncInv, AsksCurrent
  <2>3. p = q /\ Unexpected(b)
    BY <1>4, <2>1 DEF BlockReceived
  <2>4. SUFFICES ASSUME b = Expected(list, wanted), b \notin store, ~ (Number[b] <= limit)
                 PROVE  FALSE
    BY <2>2, <2>3 DEF Accident
  <2> HIDE DEF b
  <2>5. Number[b] = wanted /\ Accepted(b)
    BY <2>2, <2>3, <2>4, HonestBlockAccepted
  <2>6. QED
    BY <2>3, <2>4, <2>5 DEF Unexpected
<1>5. ASSUME NEW q \in Peer, NEW b \in Block, OtherPushBlock(q, b)
      PROVE  Accident(p)
  <2>1. q \notin Honest /\ BlockReceived(q, b, asked)
    BY <1>5 DEF OtherPushBlock
  <2>2. p = q
    BY <2>1 DEF BlockReceived
  <2>3. QED
    BY <2>1, <2>2
<1>6. CASE TimerFires
  <2>1. syncing /\ p = target /\ \A a \in asked : a[1] \notin connected
    BY <1>6 DEF TimerFires
  <2>2. p \in connected => <<target, wanted>> \in asked
    BY <2>1 DEF SyncInv, AskStands
  <2>3. p \notin connected
    BY <2>1, <2>2
  <2>4. QED
    BY <2>3 DEF Accident
<1>7. CASE \E q \in Peer : Disconnect(q)
  BY <1>7 DEF Disconnect
<1>8. CASE \E q \in Honest, b \in Block : PeerReorganises(q, b)
  BY <1>8 DEF PeerReorganises
<1>9. CASE UNCHANGED vars
  BY <1>9 DEF vars
<1>10. QED
  BY <1>1, <1>2, <1>3, <1>4, <1>5, <1>6, <1>7, <1>8, <1>9 DEF Next

(* An honest peer is banned for one of four accidents only: its connection  *)
(* broke, the block came in another way first, it has moved to another      *)
(* chain, or the limit of reorganisations has passed the block              *)
(* (block_received, peer_fetch_block, Block.validate).                      *)
THEOREM HonestBansAreAccidents == Spec => HonestBannedByAccident
<1>1. SyncInv /\ [Next]_vars =>
        [\A p \in Honest \cap (banned' \ banned) :
           LET b == Expected(list, wanted)
           IN  p \notin connected \/ b \in store \/ At(view[p], wanted) # b
               \/ Number[b] <= limit]_vars
  BY BanIsAccident DEF Accident
<1>2. QED
  BY <1>1, SyncInvariant, PTL DEF Spec, HonestBannedByAccident

LEMMA FinishIsComplete ==
  ASSUME SyncInv, [Next]_vars, syncing, ~ syncing', target \notin banned'
  PROVE  \A n \in from .. LastNumber(list) : Expected(list, n) \in store'
<1>1. CASE \E b \in Block : BlockArrives(b)
  BY <1>1 DEF BlockArrives, syncVars
<1>2. CASE \E q \in Honest, n \in Numbers : HonestHeaderHashes(q, n)
  BY <1>2 DEF HonestHeaderHashes, CompareAndSync
<1>3. CASE \E q \in Peer, l \in Lists : OtherHeaderHashes(q, l)
  BY <1>3 DEF OtherHeaderHashes, CompareAndSync
<1>4. CASE \/ \E p \in Honest, n \in Numbers : HonestPushBlock(p, n)
           \/ \E p \in Peer, b \in Block : OtherPushBlock(p, b)
  BY <1>4, PushBlockKeeps
<1>5. CASE TimerFires
  BY <1>5 DEF TimerFires
<1>6. CASE \E q \in Peer : Disconnect(q)
  BY <1>6 DEF Disconnect, syncVars
<1>7. CASE \E q \in Honest, b \in Block : PeerReorganises(q, b)
  BY <1>7 DEF PeerReorganises, syncVars
<1>8. CASE UNCHANGED vars
  BY <1>8 DEF vars
<1>9. QED
  BY <1>1, <1>2, <1>3, <1>4, <1>5, <1>6, <1>7, <1>8 DEF Next

(* A synchronisation whose target is not banned at its end has brought in   *)
(* every block of its list above the fork (peer_fetch_block).               *)
THEOREM FinishedSyncsAreComplete == Spec => FinishedSyncIsComplete
<1>1. SyncInv /\ [Next]_vars =>
        [syncing /\ ~ syncing' /\ target \notin banned' =>
           \A n \in from .. LastNumber(list) : Expected(list, n) \in store']_vars
  BY FinishIsComplete
<1>2. QED
  BY <1>1, SyncInvariant, PTL DEF Spec, FinishedSyncIsComplete

=============================================================================
