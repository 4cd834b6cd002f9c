-------------------------- MODULE LedgerChainProofs --------------------------
(***************************************************************************)
(* What the account state says of the blocks of the main chain.            *)
(*                                                                         *)
(* Every state that the chain went through is reached from the genesis     *)
(* state by the coinbase and the transactions of its blocks, whatever      *)
(* blocks were removed on the way (ChainStaysLinked).  A relation between  *)
(* a state and the places of the chain that lead to it therefore holds of  *)
(* the store and the whole chain when it holds at the genesis block and    *)
(* survives a coinbase and a valid transaction (ChainInduction).           *)
(* Then the lists: an applied transaction has left on each the element     *)
(* that its revert expects at the end.  The last part is about the search  *)
(* for a free one-time key.                                                *)
(***************************************************************************)
EXTENDS LedgerProofs


-----------------------------------------------------------------------------
(* Induction along the chain                                                *)

(* The first block of the chain was applied on the genesis state.           *)
Grounded == Same(After(0), GenesisState)

LEMMA SameItself ==
  ASSUME NEW s
  PROVE  Same(s, s)
BY DEF Same, SameKeys, SameRest

LEMMA GroundedKept ==
  ASSUME LedgerInv, Grounded, [Next]_vars
  PROVE  Grounded'
<1>1. /\ chain \in Seq(Seq(EntrySet)) /\ Len(chain) \in Nat /\ Len(saved) = Len(chain)
      /\ saved \in Seq(Shapes) /\ IsShape(db) /\ block \in Seq(EntrySet)
  BY DEF LedgerInv, Types, Stored, Sound, Good
<1>2. CASE CommitBlock
  <2>1. chain' = Append(chain, block) /\ saved' = Append(saved, db)
    BY <1>2 DEF CommitBlock
  <2>2. db \in Shapes
    BY <1>1, ShapesFacts
  <2>3. Len(chain') = Len(chain) + 1 /\ chain' \in Seq(Seq(EntrySet))
    BY <1>1, <2>1
  <2>4. saved'[1] = IF Len(chain) = 0 THEN db ELSE saved[1]
    BY <1>1, <2>1, <2>2
  <2>5. After(0)' = saved'[1]
    BY <1>1, <2>3 DEF After
  <2>6. After(0) = IF Len(chain) = 0 THEN db ELSE saved[1]
    BY <1>1 DEF After
  <2>7. QED
    BY <2>4, <2>5, <2>6 DEF Grounded
<1>3. CASE CommitRevert
  <2>1. /\ chain' = SubSeq(chain, 1, Len(chain) - 1) /\ saved' = SubSeq(saved, 1, Len(saved) - 1)
    BY <1>3 DEF CommitRevert
  <2>2. chain # <<>> /\ Same(db', saved[Len(chain)])
    BY <1>3, Restored
  <2>3. Len(chain) \in Nat \ {0} /\ Len(chain') = Len(chain) - 1
    BY <1>1, <2>1, <2>2
  <2>4. After(0) = saved[1]
    BY <1>1, <2>3 DEF After
  <2>5. CASE Len(chain) = 1
    <3>1. After(0)' = db'
      BY <2>3, <2>5 DEF After
    <3>2. QED
      BY <2>2, <2>4, <2>5, <3>1, SameIsEquivalence DEF Grounded
  <2>6. CASE Len(chain) # 1
    <3>1. After(0)' = saved'[1]
      BY <2>3, <2>6 DEF After
    <3>2. saved'[1] = saved[1]
      BY <1>1, <2>1, <2>3, <2>6
    <3>3. QED
      BY <2>4, <3>1, <3>2 DEF Grounded
  <2>7. QED
    BY <2>5, <2>6
<1>4. CASE UNCHANGED <<db, chain, saved>>
  BY <1>4 DEF Grounded, After
<1>5. [Next]_vars => CommitBlock \/ CommitRevert \/ UNCHANGED <<db, chain, saved>>
  BY DEF Next, vars, BeginBlock, ApplyTx, RejectBlock, BeginRevert, RevertTx, RevertFails
<1>6. QED
  BY <1>2, <1>3, <1>4, <1>5

LEMMA InitGrounded == Init => Grounded
<1> SUFFICES ASSUME Init PROVE Grounded
  OBVIOUS
<1>1. chain = <<>> /\ db = GenesisState
  BY DEF Init
<1>2. After(0) = GenesisState
  BY <1>1 DEF After
<1>3. QED
  BY <1>2, SameItself DEF Grounded

ChainLinked == LedgerInv /\ Grounded

(* What the store holds has been reached from the genesis state by the      *)
(* blocks of the chain, one transaction after the other.                    *)
THEOREM ChainStaysLinked == Spec => []ChainLinked
<1>1. Init => ChainLinked
  BY InitInv, InitGrounded DEF ChainLinked
<1>2. ChainLinked /\ [Next]_vars => ChainLinked'
  <2> SUFFICES ASSUME LedgerInv, Grounded, LedgerInv', [Next]_vars PROVE ChainLinked'
    BY LedgerStep DEF ChainLinked
  <2>1. QED
    BY GroundedKept DEF ChainLinked
<1>3. QED
  BY <1>1, <1>2, PTL DEF Spec

(* How many transactions block n has; there is none before the first.       *)
Size(n) == IF n = 0 THEN 0 ELSE Len(chain[n])

(* The places of the first n - 1 blocks and the first k of block n.         *)
Done(n, k) == {x \in Places : x[1] < n \/ (x[1] = n /\ x[2] <= k)}

FeesIn(n) == FeesOf(TxsOf(chain[n]))

TxAt(n, k) == chain[n][k].tx

(* R relates states to places in the chain, by the steps of the chain.      *)
FromGenesis(R) == \A s : Sound(s) /\ Same(s, GenesisState) => <<s, 0, 0>> \in R

ForLooks(R) ==
  \A r, s : \A n, k \in Nat : <<s, n, k>> \in R /\ Sound(r) /\ Same(r, s) => <<r, n, k>> \in R

ForCoinbase(R) ==
  \A s : \A n \in 1 .. Len(chain) :
    <<s, n - 1, Size(n - 1)>> \in R /\ Sound(s) => <<ApplyCoinbase(s, n, FeesIn(n)), n, 0>> \in R

ForTx(R) ==
  \A s : \A n \in 1 .. Len(chain) : \A k \in 1 .. Size(n) :
    /\ <<s, n, k - 1>> \in R
    /\ Sound(s) /\ TxAt(n, k) \in Ordinary /\ Valid(s, TxAt(n, k), n)
    => <<Apply(s, TxAt(n, k), n), n, k>> \in R

LEMMA ChainInduction ==
  ASSUME ChainLinked, NEW R, FromGenesis(R), ForLooks(R), ForCoinbase(R), ForTx(R)
  PROVE  \A n \in 0 .. Len(chain) : <<After(n), n, Size(n)>> \in R
<1>1. LedgerInv /\ Grounded /\ Types /\ Stored
  BY DEF ChainLinked, LedgerInv
<1> DEFINE N == Len(chain)
           T == {n \in Nat : n <= N => <<After(n), n, Size(n)>> \in R}
<1>2. N \in Nat /\ chain \in Seq(Seq(EntrySet)) /\ Len(saved) = N
  BY <1>1 DEF Types
<1>3. \A n \in 0 .. N : Sound(After(n))
  <2> SUFFICES ASSUME NEW n \in 0 .. N PROVE Sound(After(n))
    OBVIOUS
  <2>1. CASE n = N
    BY <1>1, <2>1 DEF After, Stored
  <2>2. CASE n # N
    <3>1. n + 1 \in 1 .. N
      BY <1>2, <2>2
    <3>2. QED
      BY <1>1, <2>2, <3>1 DEF After, Stored
  <2>3. QED
    BY <2>1, <2>2
<1>4. \A n \in 1 .. N : After(n - 1) = saved[n] /\ Size(n) = Len(chain[n])
  BY <1>2 DEF After, Size
<1>5. 0 \in T
  <2>1. 0 \in 0 .. N /\ Size(0) = 0
    BY <1>2 DEF Size
  <2>2. <<After(0), 0, 0>> \in R
    BY <1>1, <1>3, <2>1 DEF Grounded, FromGenesis
  <2>3. QED
    BY <2>1, <2>2
<1>6. ASSUME NEW n \in Nat, n \in T
      PROVE  n + 1 \in T
  <2> DEFINE m == n + 1
             b == chain[m]
             L == Len(b)
  <2>1. SUFFICES ASSUME m <= N PROVE <<After(m), m, Size(m)>> \in R
    OBVIOUS
  <2>2. m \in 1 .. N /\ m \in 0 .. N /\ n \in 0 .. N /\ m - 1 = n /\ m \in Nat
    BY <1>2, <2>1
  <2>3. <<After(n), n, Size(n)>> \in R /\ Sound(After(n)) /\ Sound(After(m))
    BY <1>3, <1>6, <2>2
  <2>4. b \in Seq(EntrySet) /\ L \in Nat /\ Size(m) = L /\ After(n) = saved[m]
    BY <1>2, <1>4, <2>2
  <2>5. Leads(saved[m], m, b, After(m))
    BY <1>1, <2>2 DEF Stored
  <2>6. PICK st : Trace(st, saved[m], m, b, FeesIn(m)) /\ Same(After(m), st[L])
    BY <2>5 DEF Leads, FeesIn
  <2> HIDE DEF L
  <2>7. /\ st[0] = ApplyCoinbase(saved[m], m, FeesIn(m))
        /\ \A i \in 1 .. L :
             /\ b[i].tx \in Ordinary
             /\ Valid(st[i - 1], b[i].tx, m)
             /\ st[i] = Apply(st[i - 1], b[i].tx, m)
        /\ \A i \in 0 .. L : Sound(st[i])
    BY <2>6 DEF Trace, Sound, L
  <2> DEFINE U == {i \in Nat : i <= L => <<st[i], m, i>> \in R}
  <2>8. 0 \in U
    <3>1. <<ApplyCoinbase(saved[m], m, FeesIn(m)), m, 0>> \in R
      BY <2>2, <2>3, <2>4 DEF ForCoinbase
    <3>2. QED
      BY <2>7, <3>1
  <2>9. ASSUME NEW i \in Nat, i \in U
        PROVE  i + 1 \in U
    <3>1. SUFFICES ASSUME i + 1 <= L PROVE <<st[i + 1], m, i + 1>> \in R
      OBVIOUS
    <3>2. i + 1 \in 1 .. L /\ (i + 1) - 1 = i /\ i \in 0 .. L
      BY <2>4, <3>1
    <3>3. <<st[i], m, i>> \in R /\ Sound(st[i])
      BY <2>7, <2>9, <3>2
    <3> DEFINE j == i + 1
    <3>4. /\ j \in 1 .. Size(m) /\ j - 1 = i /\ TxAt(m, j) = b[j].tx
      BY <2>4, <3>2 DEF TxAt
    <3>5. /\ b[j].tx \in Ordinary /\ Valid(st[i], b[j].tx, m)
          /\ st[j] = Apply(st[i], b[j].tx, m)
      BY <2>7, <3>2
    <3> HIDE DEF j
    <3>6. <<Apply(st[i], TxAt(m, j), m), m, j>> \in R
      BY <2>2, <3>3, <3>4, <3>5 DEF ForTx
    <3>7. QED
      BY <3>4, <3>5, <3>6 DEF j
  <2>10. \A i \in Nat : i \in U
    <3> HIDE DEF U
    <3>1. QED
      BY <2>8, <2>9, Induction
  <2>11. <<st[L], m, L>> \in R
    BY <2>4, <2>10
  <2>12. <<After(m), m, L>> \in R
    BY <2>2, <2>3, <2>4, <2>6, <2>11 DEF ForLooks
  <2>13. QED
    BY <2>4, <2>12
<1>7. \A n \in Nat : n \in T
  <2> HIDE DEF T
  <2>1. QED
    BY <1>5, <1>6, Induction
<1>8. QED
  BY <1>2, <1>7

LEMMA DoneFacts ==
  ASSUME ChainLinked
  PROVE  /\ Done(0, 0) = {}
         /\ Done(Len(chain), Size(Len(chain))) = Places
         /\ \A n \in 1 .. Len(chain) : Done(n, 0) = Done(n - 1, Size(n - 1))
         /\ \A n \in 1 .. Len(chain) : \A k \in 1 .. Size(n) :
              /\ <<n, k>> \notin Done(n, k - 1)
              /\ Done(n, k) = Done(n, k - 1) \cup {<<n, k>>}
              /\ At(<<n, k>>) = TxAt(n, k)
<1>1. chain \in Seq(Seq(EntrySet)) /\ Len(chain) \in Nat
  BY DEF ChainLinked, LedgerInv, Types
<1>2. \A n \in 1 .. Len(chain) :
        chain[n] \in Seq(EntrySet) /\ Size(n) = Len(chain[n]) /\ Size(n) \in Nat
  BY <1>1 DEF Size
<1>3. Size(0) = 0
  BY DEF Size
<1>4. \A x : x \in Places <=> \E n \in 1 .. Len(chain) : \E k \in 1 .. Size(n) : x = <<n, k>>
  <2> DEFINE D == 1 .. Len(chain)
             f(n) == {n} \X (1 .. Size(n))
  <2>1. DOMAIN chain = D /\ \A n \in D : DOMAIN chain[n] = 1 .. Size(n)
    BY <1>1, <1>2
  <2>2. Places = UNION {f(n) : n \in D}
    BY <2>1 DEF Places
  <2>3. \A n, x : x \in f(n) <=> \E k \in 1 .. Size(n) : x = <<n, k>>
    OBVIOUS
  <2> HIDE DEF f
  <2>4. \A x : x \in Places <=> \E n \in D : x \in f(n)
    BY <2>2
  <2>5. QED
    BY <2>3, <2>4
<1>5. \A n, k : \A x : x \in Done(n, k) <=> x \in Places /\ (x[1] < n \/ (x[1] = n /\ x[2] <= k))
  BY DEF Done
<1>6. \A x \in Places : x[1] \in 1 .. Len(chain) /\ x[2] \in 1 .. Size(x[1])
  BY <1>4
<1>7. Done(0, 0) = {}
  BY <1>1, <1>5, <1>6
<1>8. Done(Len(chain), Size(Len(chain))) = Places
  <2>1. ASSUME NEW x \in Places
        PROVE  x[1] < Len(chain) \/ (x[1] = Len(chain) /\ x[2] <= Size(Len(chain)))
    BY <1>1, <1>2, <1>6
  <2>2. QED
    BY <1>5, <2>1
<1>9. ASSUME NEW n \in 1 .. Len(chain)
      PROVE  Done(n, 0) = Done(n - 1, Size(n - 1))
  <2>1. ASSUME NEW x \in Places
        PROVE  x[1] < n \/ (x[1] = n /\ x[2] <= 0)
               <=> x[1] < n - 1 \/ (x[1] = n - 1 /\ x[2] <= Size(n - 1))
    <3>1. x[1] \in 1 .. Len(chain) /\ x[2] \in 1 .. Size(x[1]) /\ Size(x[1]) \in Nat
      BY <1>2, <1>6
    <3>2. QED
      BY SMTT(60), <1>1, <3>1
  <2>2. \A x : x \in Done(n, 0) <=> x \in Done(n - 1, Size(n - 1))
    BY <1>5, <2>1
  <2>3. QED
    BY <2>2
<1>10. ASSUME NEW n \in 1 .. Len(chain), NEW k \in 1 .. Size(n)
       PROVE  /\ <<n, k>> \notin Done(n, k - 1)
              /\ Done(n, k) = Done(n, k - 1) \cup {<<n, k>>}
              /\ At(<<n, k>>) = TxAt(n, k)
  <2>1. n \in Nat /\ k \in Nat /\ Size(n) \in Nat
    BY <1>1, <1>2
  <2>2. <<n, k>> \in Places
    BY <1>4
  <2>3. <<n, k>>[1] = n /\ <<n, k>>[2] = k
    OBVIOUS
  <2>4. <<n, k>> \notin Done(n, k - 1)
    BY <1>5, <2>1, <2>3
  <2>5. ASSUME NEW x \in Places
        PROVE  x[1] < n \/ (x[1] = n /\ x[2] <= k)
               <=> (x[1] < n \/ (x[1] = n /\ x[2] <= k - 1)) \/ x = <<n, k>>
    <3>1. PICK i \in 1 .. Len(chain) : \E j \in 1 .. Size(i) : x = <<i, j>>
      BY <1>4
    <3>2. PICK j \in 1 .. Size(i) : x = <<i, j>>
      BY <3>1
    <3>3. i \in Nat /\ j \in Nat
      BY <1>1, <1>2, <3>2
    <3>4. QED
      BY <2>1, <3>2, <3>3
  <2>6. \A x : x \in Done(n, k) <=> x \in Done(n, k - 1) \cup {<<n, k>>}
    BY <1>5, <2>2, <2>3, <2>5
  <2>7. QED
    BY <2>4, <2>6 DEF At, TxAt
<1>11. QED
  BY <1>7, <1>8, <1>9, <1>10

-----------------------------------------------------------------------------
(* One-time keys                                                            *)

(* The transactions at places P that a signed.                              *)
SignedBy(P, a) == {At(x) : x \in {y \in P : Signer(At(y)) = a}}

OneKeyEach(P) ==
  \A x, y \in P : Signer(At(x)) = Signer(At(y)) /\ Tx[At(x)].key = Tx[At(y)].key => x = y

Numbered(s, a, T) ==
  /\ IsFiniteSet(T)
  /\ s.keys[a].bits = {Tx[t].key : t \in T}
  /\ s.nonce[a] = Cardinality(T)
  /\ s.keys[a].count = Cardinality(T)

KeysFollow(s, P) == OneKeyEach(P) /\ \A a \in Accounts : Numbered(s, a, SignedBy(P, a))

LEMMA KeysGrow ==
  ASSUME NEW s, Good(s), NEW t \in Ordinary, NEW n, Valid(s, t, n),
         NEW u, u = Apply(s, t, n),
         NEW P, NEW x, x \notin P, At(x) = t, KeysFollow(s, P)
  PROVE  KeysFollow(u, P \cup {x})
<1> DEFINE g == Signer(t)
           Q == P \cup {x}
<1>1. /\ KeyUnused(s, t) /\ Signed(u, s, t) /\ g \in Accounts
  BY ValidFacts, ApplyHarmless, TxFacts DEF Harmless
<1>2. /\ s.nonce \in [Accounts \cup {Mint} -> Int] /\ s.keys \in [Accounts -> KeyStates]
  BY DEF Good, IsShape
<1>3. /\ \A a \in Accounts : a # g => u.nonce[a] = s.nonce[a] /\ u.keys[a] = s.keys[a]
      /\ u.nonce[g] = s.nonce[g] + 1
      /\ u.keys[g] = SetKey(s.keys[g], Tx[t].key, KeyCount[g])
  BY <1>1, <1>2 DEF Signed
<1>4. /\ u.keys[g].bits = s.keys[g].bits \cup {Tx[t].key}
      /\ u.keys[g].count = s.keys[g].count + 1
  <2>1. GoodKeys(s.keys[g], KeyCount[g]) /\ Tx[t].key \notin s.keys[g].bits
    BY <1>1 DEF Good, KeyUnused
  <2>2. IsKeys(s.keys[g])
    BY <1>1, <1>2 DEF IsKeys, KeyStates
  <2>3. QED
    BY <1>3, <2>2, SetKeyFields
<1>5. \A a \in Accounts : a # g => SignedBy(Q, a) = SignedBy(P, a)
  BY DEF SignedBy
<1>6. SignedBy(Q, g) = SignedBy(P, g) \cup {t}
  BY DEF SignedBy
<1>7. Numbered(s, g, SignedBy(P, g))
  BY <1>1 DEF KeysFollow
<1>8. t \notin SignedBy(P, g)
  BY <1>1, <1>7 DEF Numbered, KeyUnused
<1>9. OneKeyEach(Q)
  <2>1. \A y \in P : ~ (Signer(At(y)) = g /\ Tx[At(y)].key = Tx[t].key)
    BY <1>1, <1>7 DEF Numbered, KeyUnused, SignedBy
  <2>2. OneKeyEach(P)
    BY DEF KeysFollow
  <2>3. QED
    BY <2>1, <2>2 DEF OneKeyEach
<1>10. Numbered(u, g, SignedBy(Q, g))
  <2> DEFINE T == SignedBy(P, g)
             U == SignedBy(Q, g)
  <2>1. U = T \cup {t} /\ t \notin T
    BY <1>6, <1>8
  <2> HIDE DEF T, U
  <2>2. IsFiniteSet(U) /\ Cardinality(U) = Cardinality(T) + 1
    BY <1>7, <2>1, FS_AddElement DEF Numbered, T
  <2>3. {Tx[i].key : i \in U} = {Tx[i].key : i \in T} \cup {Tx[t].key}
    BY <2>1
  <2>4. Numbered(u, g, U)
    BY <1>3, <1>4, <1>7, <2>2, <2>3 DEF Numbered, T
  <2>5. QED
    BY <2>4 DEF U
<1>11. ASSUME NEW a \in Accounts, a # g
       PROVE  Numbered(u, a, SignedBy(Q, a))
  BY <1>3, <1>5, <1>11 DEF KeysFollow, Numbered
<1>12. QED
  BY <1>9, <1>10, <1>11 DEF KeysFollow

LEMMA GenesisFields ==
  ASSUME NEW s, Same(s, GenesisState)
  PROVE  /\ \A a \in Addresses :
              s.balance[a] = IF a \in Wallets THEN 0 ELSE InitialBalance[a]
         /\ \A a \in Accounts :
              /\ s.nonce[a] = 0 /\ s.keys[a] = NoKeys
              /\ \A m \in Logs : s.log[m][a] = <<>>
              /\ \A k \in Tokens : s.tokens[a][k] = NoToken
         /\ s.slaves = {} /\ s.lattice = {} /\ s.wallets = {}
         /\ \A p \in Spends : s.votes[p] = NoVotes
<1> DEFINE g == GenesisState
<1>1. /\ g.balance = [a \in Addresses |-> IF a \in Wallets THEN 0 ELSE InitialBalance[a]]
      /\ g.nonce = [a \in Accounts \cup {Mint} |-> 0]
      /\ g.keys = [a \in Accounts |-> NoKeys]
      /\ g.log = [l \in Logs |-> [a \in Addresses |-> <<>>]]
      /\ g.slaves = {} /\ g.lattice = {} /\ g.wallets = {}
      /\ g.tokens = [a \in Accounts |-> [t \in Tokens |-> NoToken]]
      /\ g.votes = [t \in Spends |-> NoVotes]
  BY DEF GenesisState
<1>2. /\ s.balance = g.balance /\ s.nonce = g.nonce /\ s.keys = g.keys
      /\ s.slaves = g.slaves /\ s.lattice = g.lattice /\ s.wallets = g.wallets
      /\ s.tokens = g.tokens /\ s.votes = g.votes
      /\ \A m \in Logs, a \in Addresses : Shown(g.wallets, m, a) => s.log[m][a] = g.log[m][a]
  BY DEF Same, SameRest, SameKeys
<1>3. \A m \in Logs, a \in Accounts : a \in Addresses /\ Shown(g.wallets, m, a)
  BY AddressAssumption DEF Addresses, Shown
<1> HIDE DEF g
<1>4. \A m \in Logs, a \in Accounts : s.log[m][a] = <<>>
  BY <1>1, <1>2, <1>3
<1>5. \A a \in Accounts : \A k \in Tokens : s.tokens[a][k] = NoToken
  BY <1>1, <1>2
<1>6. QED
  BY <1>1, <1>2, <1>4, <1>5

LEMMA SoundShapes ==
  ASSUME NEW s, Sound(s)
  PROVE  s \in Shapes /\ Good(s)
BY ShapesFacts DEF Sound, Good

LEMMA PlaceFacts ==
  ASSUME ChainLinked, NEW n \in 1 .. Len(chain)
  PROVE  /\ n \in Nat /\ n - 1 \in Nat /\ 0 \in Nat /\ n \in 1 .. MaxHeight
         /\ Size(n) \in Nat /\ Size(n - 1) \in Nat
         /\ \A k \in 1 .. Size(n) : k \in Nat /\ k - 1 \in Nat
         /\ FeesIn(n) \in Nat
<1>1. chain \in Seq(Seq(EntrySet)) /\ Len(chain) \in Nat /\ Len(chain) <= MaxHeight
  BY DEF ChainLinked, LedgerInv, Types
<1>2. \A i \in 1 .. Len(chain) : chain[i] \in Seq(EntrySet) /\ Len(chain[i]) \in Nat
  BY <1>1
<1>3. n \in Nat /\ n - 1 \in Nat /\ (n - 1 = 0 \/ n - 1 \in 1 .. Len(chain))
  BY <1>1
<1>4. Size(n) \in Nat /\ Size(n - 1) \in Nat
  BY <1>2, <1>3 DEF Size
<1>5. TxsOf(chain[n]) \in Seq(Ordinary)
  <2> DEFINE b == chain[n]
  <2>1. b \in Seq(EntrySet)
    BY <1>2
  <2> HIDE DEF b
  <2>2. \A i \in DOMAIN b : b[i].tx \in Ordinary
    <3>1. \A i \in DOMAIN b : b[i] \in EntrySet
      BY <2>1
    <3>2. \A e \in EntrySet : e.tx \in Ordinary
      BY DEF EntrySet
    <3>3. QED
      BY <3>1, <3>2
  <2>3. TxsOf(b) = [i \in 1 .. Len(b) |-> b[i].tx] /\ DOMAIN b = 1 .. Len(b) /\ Len(b) \in Nat
    BY <2>1 DEF TxsOf
  <2>4. QED
    BY <2>2, <2>3 DEF b
<1>6. FeesIn(n) \in Nat
  BY <1>5, FeesFacts DEF FeesIn
<1>7. QED
  BY <1>1, <1>3, <1>4, <1>6, ChainAssumption

LEMMA KeysStart ==
  ASSUME NEW s, Same(s, GenesisState)
  PROVE  KeysFollow(s, {})
<1>1. \A a : SignedBy({}, a) = {}
  BY DEF SignedBy
<1>2. IsFiniteSet({}) /\ Cardinality({}) = 0
  BY FS_EmptySet
<1>3. \A a \in Accounts : s.nonce[a] = 0 /\ s.keys[a] = NoKeys
  BY GenesisFields
<1>4. QED
  BY <1>1, <1>2, <1>3 DEF KeysFollow, OneKeyEach, Numbered, NoKeys

-----------------------------------------------------------------------------
(* What a valid transaction does, by kind                                   *)

TransferDone(u, s, t) ==
  /\ t \in OfKind("transfer") /\ ValidTransfer(s, t)
  /\ u.tokens = s.tokens /\ u.votes = s.votes
  /\ u.balance = Increase(Decrease(s.balance, TransferTotal(t)), Tx[t].pays)
  /\ u.log = Longer(Longer(Longer(s.log, "tx", {From(t)}, t),
                           "tx", OthersIn(t, Payees(t)), t), "tx", OnlySigner(t), t)

MessageDone(u, s, t) ==
  /\ t \in OfKind("message")
  /\ u.tokens = s.tokens /\ u.votes = s.votes
  /\ u.balance = Decrease(s.balance, Fee(t))
  /\ u.log = Longer(Longer(Longer(Longer(s.log, "tx", {From(t)}, t),
                                  "tx", OthersIn(t, Tx[t].to), t),
                           "inbox", OthersIn(t, Tx[t].to), t),
                    "tx", OnlySigner(t), t)

(* Lattice keys and slaves, by the list they go to.                         *)
NotedDone(u, s, t, l) ==
  /\ u.tokens = s.tokens /\ u.votes = s.votes
  /\ u.balance = Decrease(s.balance, Fee(t))
  /\ u.log = Longer(Longer(Longer(s.log, "tx", {From(t)}, t), l, {From(t)}, t),
                    "tx", OnlySigner(t), t)

TokenDone(u, s, t) ==
  /\ t \in Tokens
  /\ u.tokens = Made(s.tokens, t) /\ u.votes = s.votes
  /\ u.balance = Decrease(s.balance, Fee(t))
  /\ u.log = Longer(Longer(s.log, "tx", TokenParties(t), t), "tokens", Payees(t), t)

TransferTokenDone(u, s, t) ==
  LET k == Tx[t].token
      new == Holding(s.tokens, t, NoTx)
  IN  /\ t \in OfKind("transfer_token") /\ ValidTransferToken(s, t)
      /\ u.tokens = Named(Moved(s.tokens, t, 1), k, new, t) /\ u.votes = s.votes
      /\ u.balance = Decrease(s.balance, Fee(t))
      /\ u.log = Longer(Longer(Longer(Longer(s.log, "tx", {From(t)}, t), "tokens", new, k),
                               "tx", Payees(t) \ {From(t)}, t), "tx", OnlySigner(t), t)

CreateDone(u, s, c) ==
  LET w == Tx[c].wallet
  IN  /\ c \in Creations /\ w \notin s.wallets
      /\ u.tokens = s.tokens /\ u.votes = s.votes
      /\ u.balance = [Decrease(s.balance, Fee(c)) EXCEPT ![w] = 0]
      /\ u.log = Longer(Longer(Longer(Longer(s.log, "tx", {From(c)}, c),
                          "tx", {w} \cup OthersIn(c, Signatories(c)), c),
                          "wallets", Signatories(c), w), "tx", OnlySigner(c), c)

SpendDone(u, s, p) ==
  LET w == Tx[p].wallet
      told == Signatories(Creation(p)) \cup {w}
  IN  /\ p \in Spends /\ s.votes[p] = NoVotes
      /\ u.tokens = s.tokens
      /\ u.votes = [s.votes EXCEPT ![p] = [NoVotes EXCEPT !.live = TRUE]]
      /\ u.balance = Decrease(s.balance, Fee(p))
      /\ u.log = Longer(Longer(Longer(Longer(s.log, "tx", {From(p)}, p),
                          "spends", told, p), "tx", {w}, p), "tx", OnlySigner(p), p)

VoteCast(u, s, v, n) ==
  /\ v \in OfKind("multi_sig_vote") /\ ValidMultiSigVote(s, v, n) /\ VoteDone(u, s, v, n)

Effect(u, s, t, n) ==
  \/ TransferDone(u, s, t)
  \/ MessageDone(u, s, t)
  \/ t \in OfKind("lattice") /\ NotedDone(u, s, t, "lattice")
  \/ t \in OfKind("slave") /\ NotedDone(u, s, t, "slaves")
  \/ TokenDone(u, s, t)
  \/ TransferTokenDone(u, s, t)
  \/ CreateDone(u, s, t)
  \/ SpendDone(u, s, t)
  \/ VoteCast(u, s, t, n)

LEMMA ApplyDoes ==
  ASSUME NEW s, Good(s), NEW t \in Ordinary, NEW n, Valid(s, t, n)
  PROVE  Effect(Apply(s, t, n), s, t, n)
<1> DEFINE k == Tx[t].kind
           u == Apply(s, t, n)
<1>1. /\ k \in Kinds \ {"coinbase"} /\ t \in Txs /\ IsState(s)
      /\ Untouched(s, t)
  BY ValidFacts DEF Ordinary, Good, IsShape
<1>2. CASE k = "transfer"
  <2>1. t \in OfKind("transfer") /\ u = ApplyTransfer(s, t) /\ ValidTransfer(s, t)
    BY <1>1, <1>2, ValidFacts DEF OfKind, Apply
  <2>2. TransferDone(ApplyTransfer(s, t), s, t)
    BY ZenonT(60), <1>1, <2>1, TransferApplied DEF TransferDone, SameRest
  <2>3. QED
    BY <2>1, <2>2 DEF Effect
<1>3. CASE k = "message"
  <2>1. t \in OfKind("message") /\ u = ApplyMessage(s, t)
    BY <1>1, <1>3 DEF OfKind, Apply
  <2>2. MessageDone(ApplyMessage(s, t), s, t)
    BY <1>1, <2>1, MessageApplied DEF MessageDone, SameRest
  <2>3. QED
    BY <2>1, <2>2 DEF Effect
<1>4. CASE k = "lattice"
  <2>1. t \in OfKind("lattice") /\ u = ApplyLattice(s, t)
    BY <1>1, <1>4 DEF OfKind, Apply
  <2>2. NotedDone(ApplyLattice(s, t), s, t, "lattice")
    BY <1>1, <2>1, LatticeApplied DEF NotedDone
  <2>3. QED
    BY <2>1, <2>2 DEF Effect
<1>5. CASE k = "slave"
  <2>1. t \in OfKind("slave") /\ u = ApplySlave(s, t)
    BY <1>1, <1>5 DEF OfKind, Apply
  <2>2. NotedDone(ApplySlave(s, t), s, t, "slaves")
    BY <1>1, <2>1, SlaveApplied DEF NotedDone
  <2>3. QED
    BY <2>1, <2>2 DEF Effect
<1>6. CASE k = "token"
  <2>1. t \in Tokens /\ u = ApplyToken(s, t)
    BY <1>1, <1>6 DEF OfKind, Tokens, Apply
  <2>2. TokenDone(ApplyToken(s, t), s, t)
    BY <1>1, <2>1, TokenApplied DEF TokenDone
  <2>3. QED
    BY <2>1, <2>2 DEF Effect
<1>7. CASE k = "transfer_token"
  <2>1. t \in OfKind("transfer_token") /\ u = ApplyTransferToken(s, t) /\ ValidTransferToken(s, t)
    BY <1>1, <1>7, ValidFacts DEF OfKind, Apply
  <2>2. TransferTokenDone(ApplyTransferToken(s, t), s, t)
    BY <1>1, <2>1, TransferTokenApplied DEF TransferTokenDone
  <2>3. QED
    BY <2>1, <2>2 DEF Effect
<1>8. CASE k = "multi_sig_create"
  <2>1. t \in Creations /\ u = ApplyMultiSigCreate(s, t) /\ Tx[t].wallet \notin s.wallets
    BY <1>1, <1>8 DEF OfKind, Creations, Apply, Untouched
  <2>2. CreateDone(ApplyMultiSigCreate(s, t), s, t)
    BY ZenonT(60), <1>1, <2>1, CreateApplied DEF CreateDone
  <2>3. QED
    BY <2>1, <2>2 DEF Effect
<1>9. CASE k = "multi_sig_spend"
  <2>1. t \in Spends /\ u = ApplyMultiSigSpend(s, t) /\ s.votes[t] = NoVotes
    BY <1>1, <1>9 DEF OfKind, Spends, Apply, Untouched
  <2>2. SpendDone(ApplyMultiSigSpend(s, t), s, t)
    BY ZenonT(60), <1>1, <2>1, SpendApplied DEF SpendDone
  <2>3. QED
    BY <2>1, <2>2 DEF Effect
<1>10. CASE k = "multi_sig_vote"
  <2>1. t \in OfKind("multi_sig_vote") /\ u = ApplyMultiSigVote(s, t, n)
        /\ ValidMultiSigVote(s, t, n)
    BY <1>1, <1>10, ValidFacts DEF OfKind, Apply
  <2>2. VoteDone(ApplyMultiSigVote(s, t, n), s, t, n)
    BY <1>1, VoteApplied
  <2>3. QED
    BY <2>1, <2>2 DEF Effect, VoteCast
<1>11. QED
  BY <1>1, <1>2, <1>3, <1>4, <1>5, <1>6, <1>7, <1>8, <1>9, <1>10 DEF Kinds


(* A transaction of the chain, and a coinbase, on the way to the store.     *)
TxStep(u, s, n, k, x, t, P) ==
  /\ Good(s) /\ IsShape(s) /\ u \in Shapes /\ n \in Nat /\ k \in Nat
  /\ t \in Ordinary /\ KeyUnused(s, t) /\ Effect(u, s, t, n) /\ Harmless(u, s, t)
  /\ P = Done(n, k - 1)
  /\ x = <<n, k>> /\ x \notin P /\ At(x) = t
  /\ Done(n, k) = P \cup {x}

CoinbaseStep(u, s, n, P) ==
  /\ Good(s) /\ IsShape(s) /\ u \in Shapes /\ n \in Nat /\ n \in 1 .. MaxHeight
  /\ FeesIn(n) \in Nat
  /\ CoinbaseDone(u, s, n, FeesIn(n))
  /\ P = Done(n - 1, Size(n - 1)) /\ P = Done(n, 0)

LEMMA TxSteps ==
  ASSUME ChainLinked, NEW n \in 1 .. Len(chain), NEW k \in 1 .. Size(n), NEW s, Sound(s),
         TxAt(n, k) \in Ordinary, Valid(s, TxAt(n, k), n)
  PROVE  TxStep(Apply(s, TxAt(n, k), n), s, n, k, <<n, k>>, TxAt(n, k), Done(n, k - 1))
<1> DEFINE t == TxAt(n, k)
           u == Apply(s, t, n)
<1>1. Good(s) /\ IsShape(s) /\ n \in Nat /\ k \in Nat
  BY PlaceFacts, SoundShapes DEF Good
<1>2. u \in Shapes /\ KeyUnused(s, t) /\ Effect(u, s, t, n) /\ Harmless(u, s, t)
  BY <1>1, ValidFacts, ApplyKept, ApplyHarmless, ApplyDoes, ShapesFacts DEF Good
<1>3. /\ <<n, k>> \notin Done(n, k - 1) /\ At(<<n, k>>) = t
      /\ Done(n, k) = Done(n, k - 1) \cup {<<n, k>>}
  BY DoneFacts
<1> HIDE DEF t, u
<1>4. QED
  BY <1>1, <1>2, <1>3 DEF TxStep, t, u

LEMMA CoinbaseSteps ==
  ASSUME ChainLinked, NEW n \in 1 .. Len(chain), NEW s, Sound(s)
  PROVE  CoinbaseStep(ApplyCoinbase(s, n, FeesIn(n)), s, n, Done(n - 1, Size(n - 1)))
<1> DEFINE u == ApplyCoinbase(s, n, FeesIn(n))
<1>1. /\ Good(s) /\ IsShape(s) /\ IsState(s) /\ n \in Nat /\ n \in 1 .. MaxHeight
      /\ FeesIn(n) \in Nat
  BY PlaceFacts, SoundShapes DEF Good, IsShape
<1>2. u \in Shapes /\ CoinbaseDone(u, s, n, FeesIn(n))
  BY <1>1, CoinbaseKept, CoinbaseApplied, ShapesFacts DEF Good
<1>3. Done(n, 0) = Done(n - 1, Size(n - 1))
  BY DoneFacts
<1> HIDE DEF u
<1>4. QED
  BY <1>1, <1>2, <1>3 DEF CoinbaseStep, u

-----------------------------------------------------------------------------
(* Histories                                                                *)

ListedIn(L, a) == {L["tx"][a][i] : i \in DOMAIN L["tx"][a]}

(* From L to M, every list of transactions got elements of E only, and the  *)
(* addresses of A got t.                                                    *)
Logged(M, L, A, t, E) ==
  /\ M \in Lists
  /\ \A a \in Accounts : ListedIn(L, a) \subseteq ListedIn(M, a)
  /\ \A a \in Accounts : ListedIn(M, a) \subseteq ListedIn(L, a) \cup E
  /\ \A a \in A : t \in ListedIn(M, a)

LEMMA LongerList ==
  ASSUME NEW L \in Lists, NEW l \in Logs, NEW A, NEW e \in Elements, NEW a \in Addresses,
         NEW M, M = Longer(L, l, A, e)
  PROVE  ListedIn(M, a) = IF l = "tx" /\ a \in A THEN ListedIn(L, a) \cup {e} ELSE ListedIn(L, a)
<1> DEFINE q == L["tx"][a]
<1>1. q \in Seq(Elements) /\ "tx" \in Logs
  BY DEF Lists, Logs
<1>2. M["tx"][a] = IF l = "tx" /\ a \in A THEN Append(q, e) ELSE q
  BY <1>1 DEF Longer, Lists
<1> HIDE DEF q
<1>3. {Append(q, e)[i] : i \in DOMAIN Append(q, e)} = {q[i] : i \in DOMAIN q} \cup {e}
  <2>1. DOMAIN Append(q, e) = 1 .. Len(q) + 1 /\ DOMAIN q = 1 .. Len(q) /\ Len(q) \in Nat
    BY <1>1
  <2>2. \A i \in 1 .. Len(q) : Append(q, e)[i] = q[i]
    BY <1>1
  <2>3. Append(q, e)[Len(q) + 1] = e
    BY <1>1
  <2>4. \A i : i \in 1 .. Len(q) + 1 <=> i \in 1 .. Len(q) \/ i = Len(q) + 1
    BY <2>1
  <2>5. QED
    BY <2>1, <2>2, <2>3, <2>4
<1>4. CASE l = "tx" /\ a \in A
  <2>1. ListedIn(M, a) = {Append(q, e)[i] : i \in DOMAIN Append(q, e)}
    BY <1>2, <1>4 DEF ListedIn
  <2>2. QED
    BY <1>3, <1>4, <2>1 DEF ListedIn, q
<1>5. CASE ~ (l = "tx" /\ a \in A)
  BY <1>2, <1>5 DEF ListedIn, q
<1>6. QED
  BY <1>4, <1>5

LEMMA LoggedNone ==
  ASSUME NEW L \in Lists, NEW t, NEW E
  PROVE  Logged(L, L, {}, t, E)
BY DEF Logged

LEMMA LoggedMore ==
  ASSUME NEW K, NEW L \in Lists, NEW t, NEW E, NEW A, Logged(L, K, A, t, E),
         NEW l \in Logs, NEW B, NEW e \in Elements, l = "tx" => e \in E,
         NEW M, M = Longer(L, l, B, e), NEW C,
         \A a \in C : a \in A \/ (l = "tx" /\ e = t /\ a \in B /\ a \in Accounts),
         A \subseteq Accounts
  PROVE  Logged(M, K, C, t, E)
<1>1. M \in Lists
  BY LongerType
<1>2. \A a \in Accounts : a \in Addresses
  BY DEF Addresses
<1>3. \A a \in Accounts : /\ ListedIn(L, a) \subseteq ListedIn(M, a)
                          /\ ListedIn(M, a) \subseteq ListedIn(L, a) \cup E
                          /\ l = "tx" /\ a \in B => e \in ListedIn(M, a)
  BY <1>2, LongerList
<1>4. QED
  BY <1>1, <1>3 DEF Logged


(* The signer and the sender of t list it, and what else enters a list is   *)
(* a spend that is up for votes.                                            *)
Live(s) == {p \in Spends : s.votes[p].live}

Entered(u, s, t) == Logged(u.log, s.log, {From(t), Signer(t)}, t, {t} \cup Live(s))

LEMMA Logged3 ==
  ASSUME NEW L \in Lists, NEW t \in Ordinary, NEW E, t \in E,
         NEW l \in Logs, NEW B, NEW e \in Elements, l = "tx" => e \in E
  PROVE  Logged(Longer(Longer(Longer(L, "tx", {From(t)}, t), l, B, e), "tx", OnlySigner(t), t),
                L, {From(t), Signer(t)}, t, E)
<1> DEFINE f == {From(t)}
           g == {From(t), Signer(t)}
           o == OnlySigner(t)
           L1 == Longer(L, "tx", f, t)
           L2 == Longer(L1, l, B, e)
           L3 == Longer(L2, "tx", o, t)
<1>1. /\ t \in Elements /\ "tx" \in Logs /\ f \subseteq Accounts /\ g \subseteq Accounts
      /\ g = f \cup o
  BY TxFacts DEF Logs, OnlySigner
<1> HIDE DEF f, g, o
<1>2. Logged(L, L, {}, t, E)
  BY LoggedNone
<1>3. Logged(L1, L, f, t, E) /\ L1 \in Lists
  <2> HIDE DEF L1
  <2>1. L1 = Longer(L, "tx", f, t)
    BY DEF L1
  <2>2. Logged(L1, L, f, t, E)
    BY <1>1, <1>2, <2>1, LoggedMore
  <2>3. QED
    BY <2>2 DEF Logged
<1> HIDE DEF L1
<1>4. Logged(L2, L, f, t, E) /\ L2 \in Lists
  <2> HIDE DEF L2
  <2>1. L2 = Longer(L1, l, B, e)
    BY DEF L2
  <2>2. Logged(L2, L, f, t, E)
    BY <1>1, <1>3, <2>1, LoggedMore
  <2>3. QED
    BY <2>2 DEF Logged
<1> HIDE DEF L2
<1>5. Logged(L3, L, g, t, E)
  <2> HIDE DEF L3
  <2>1. L3 = Longer(L2, "tx", o, t)
    BY DEF L3
  <2>2. \A a \in g : a \in f \/ (a \in o /\ a \in Accounts)
    BY <1>1
  <2>3. QED
    BY <1>1, <1>4, <2>1, <2>2, LoggedMore
<1>6. QED
  BY <1>5 DEF L1, L2, L3, f, g, o

LEMMA Logged4 ==
  ASSUME NEW L \in Lists, NEW t \in Ordinary, NEW E, t \in E,
         NEW l \in Logs, NEW B, NEW e \in Elements, l = "tx" => e \in E,
         NEW m \in Logs, NEW C, NEW d \in Elements, m = "tx" => d \in E
  PROVE  Logged(Longer(Longer(Longer(Longer(L, "tx", {From(t)}, t), l, B, e), m, C, d),
                       "tx", OnlySigner(t), t),
                L, {From(t), Signer(t)}, t, E)
<1> DEFINE f == {From(t)}
           g == {From(t), Signer(t)}
           o == OnlySigner(t)
           L1 == Longer(L, "tx", f, t)
           L2 == Longer(L1, l, B, e)
           L3 == Longer(L2, m, C, d)
           L4 == Longer(L3, "tx", o, t)
<1>1. /\ t \in Elements /\ "tx" \in Logs /\ f \subseteq Accounts /\ g \subseteq Accounts
      /\ g = f \cup o
  BY TxFacts DEF Logs, OnlySigner
<1> HIDE DEF f, g, o
<1>2. Logged(L, L, {}, t, E)
  BY LoggedNone
<1>3. Logged(L1, L, f, t, E) /\ L1 \in Lists
  <2> HIDE DEF L1
  <2>1. L1 = Longer(L, "tx", f, t)
    BY DEF L1
  <2>2. Logged(L1, L, f, t, E)
    BY <1>1, <1>2, <2>1, LoggedMore
  <2>3. QED
    BY <2>2 DEF Logged
<1> HIDE DEF L1
<1>4. Logged(L2, L, f, t, E) /\ L2 \in Lists
  <2> HIDE DEF L2
  <2>1. L2 = Longer(L1, l, B, e)
    BY DEF L2
  <2>2. Logged(L2, L, f, t, E)
    BY <1>1, <1>3, <2>1, LoggedMore
  <2>3. QED
    BY <2>2 DEF Logged
<1> HIDE DEF L2
<1>5. Logged(L3, L, f, t, E) /\ L3 \in Lists
  <2> HIDE DEF L3
  <2>1. L3 = Longer(L2, m, C, d)
    BY DEF L3
  <2>2. Logged(L3, L, f, t, E)
    BY <1>1, <1>4, <2>1, LoggedMore
  <2>3. QED
    BY <2>2 DEF Logged
<1> HIDE DEF L3
<1>6. Logged(L4, L, g, t, E)
  <2> HIDE DEF L4
  <2>1. L4 = Longer(L3, "tx", o, t)
    BY DEF L4
  <2>2. \A a \in g : a \in f \/ (a \in o /\ a \in Accounts)
    BY <1>1
  <2>3. QED
    BY <1>1, <1>5, <2>1, <2>2, LoggedMore
<1>7. QED
  BY <1>6 DEF L1, L2, L3, L4, f, g, o

LEMMA AllEntered ==
  ASSUME NEW s, Good(s), NEW t \in Ordinary, NEW n, NEW u, Effect(u, s, t, n)
  PROVE  Entered(u, s, t)
<1> DEFINE E == {t} \cup Live(s)
           g == {From(t), Signer(t)}
<1>1. /\ s.log \in Lists /\ t \in Elements /\ t \in E
      /\ \A l \in {"tx", "inbox", "lattice", "slaves", "tokens", "wallets", "spends"} : l \in Logs
  BY TxFacts DEF Good, IsShape, Logs
<1> SUFFICES Logged(u.log, s.log, g, t, E)
  BY DEF Entered
<1> HIDE DEF E
<1>2. CASE TransferDone(u, s, t)
  BY <1>1, <1>2, Logged3 DEF TransferDone
<1>3. CASE MessageDone(u, s, t)
  BY <1>1, <1>3, Logged4 DEF MessageDone
<1>4. CASE NotedDone(u, s, t, "lattice")
  BY <1>1, <1>4, Logged3 DEF NotedDone
<1>5. CASE NotedDone(u, s, t, "slaves")
  BY <1>1, <1>5, Logged3 DEF NotedDone
<1>6. CASE TokenDone(u, s, t)
  <2> DEFINE A == TokenParties(t)
             B == Payees(t)
             L1 == Longer(s.log, "tx", A, t)
             L2 == Longer(L1, "tokens", B, t)
  <2>1. g \subseteq A /\ g \subseteq Accounts
    BY TxFacts DEF TokenParties
  <2>2. Logged(s.log, s.log, {}, t, E)
    BY <1>1, LoggedNone
  <2>3. u.log = L2
    BY <1>6 DEF TokenDone
  <2> HIDE DEF A, B, g
  <2>4. Logged(L1, s.log, g, t, E) /\ L1 \in Lists
    <3> HIDE DEF L1
    <3>1. L1 = Longer(s.log, "tx", A, t)
      BY DEF L1
    <3>2. Logged(L1, s.log, g, t, E)
      BY <1>1, <2>1, <2>2, <3>1, LoggedMore
    <3>3. QED
      BY <3>2 DEF Logged
  <2> HIDE DEF L1
  <2>5. Logged(L2, s.log, g, t, E)
    <3> HIDE DEF L2
    <3>1. L2 = Longer(L1, "tokens", B, t)
      BY DEF L2
    <3>2. QED
      BY <1>1, <2>1, <2>4, <3>1, LoggedMore
  <2>6. QED
    BY <2>3, <2>5
<1>7. CASE TransferTokenDone(u, s, t)
  <2>1. Tx[t].token \in Elements
    BY <1>7, FormAssumption DEF TransferTokenDone, Tokens, OfKind, Elements
  <2>2. QED
    BY <1>1, <1>7, <2>1, Logged4 DEF TransferTokenDone
<1>8. CASE CreateDone(u, s, t)
  <2>1. Tx[t].wallet \in Elements
    BY <1>8, FormAssumption DEF CreateDone, Elements
  <2>2. QED
    BY <1>1, <1>8, <2>1, Logged4 DEF CreateDone
<1>9. CASE SpendDone(u, s, t)
  BY <1>1, <1>9, Logged4 DEF SpendDone
<1>10. CASE VoteCast(u, s, t, n)
  <2> DEFINE p == Tx[t].spend
  <2>1. p \in Elements /\ p \in E
    BY <1>10, VoteFacts, TxFacts DEF VoteCast, ValidMultiSigVote, E, Live
  <2>2. VoteDone(u, s, t, n)
    BY <1>10 DEF VoteCast
  <2>3. CASE Executes(s, t, n)
    <3>1. u.log = Longer(Longer(Longer(s.log, "tx", {From(t)}, t), "tx", OthersIn(p, Payees(p)), p),
                                "tx", OnlySigner(t), t)
      BY <2>2, <2>3 DEF VoteDone
    <3>2. QED
      BY <1>1, <2>1, <3>1, Logged3
  <2>4. CASE ~ Executes(s, t, n)
    <3> DEFINE L == Longer(Longer(s.log, "tx", {From(t)}, t), "tx", {}, t)
    <3>1. u.log = Longer(Longer(s.log, "tx", {From(t)}, t), "tx", OnlySigner(t), t)
      BY <2>2, <2>4 DEF VoteDone
    <3>2. Longer(s.log, "tx", {From(t)}, t) \in Lists
      BY <1>1, LongerType
    <3>3. L = Longer(s.log, "tx", {From(t)}, t)
      BY <3>2 DEF Longer, Lists
    <3>4. Logged(Longer(L, "tx", OnlySigner(t), t), s.log, g, t, E)
      BY <1>1, Logged3
    <3>5. QED
      BY <3>1, <3>3, <3>4
  <2>5. QED
    BY <2>3, <2>4
<1>11. QED
  BY <1>2, <1>3, <1>4, <1>5, <1>6, <1>7, <1>8, <1>9, <1>10 DEF Effect


Sent(P) == {At(x) : x \in P}

Minted(n) == {Coinbase[i] : i \in 1 .. n}

HistoryFollows(s, P, n) ==
  /\ Live(s) \subseteq Sent(P)
  /\ \A a \in Accounts : ListedIn(s.log, a) \subseteq Sent(P) \cup Minted(n)
  /\ \A a \in Accounts, t \in Sent(P) :
       From(t) = a \/ Signer(t) = a => t \in ListedIn(s.log, a)

LEMMA HistoryGrows ==
  ASSUME NEW u, NEW s, NEW n, NEW k, NEW x, NEW t, NEW P, TxStep(u, s, n, k, x, t, P),
         HistoryFollows(s, P, n)
  PROVE  HistoryFollows(u, Done(n, k), n)
<1>1. /\ t \in Ordinary /\ Sent(Done(n, k)) = Sent(P) \cup {t}
      /\ From(t) \in Accounts /\ Signer(t) \in Accounts
  BY TxFacts DEF TxStep, Sent
<1>2. Entered(u, s, t) /\ Harmless(u, s, t)
  BY AllEntered DEF TxStep
<1>3. Live(u) \subseteq Live(s) \cup {t}
  BY <1>2 DEF Harmless, Live
<1>4. /\ \A a \in Accounts : ListedIn(u.log, a) \subseteq ListedIn(s.log, a) \cup {t} \cup Live(s)
      /\ \A a \in Accounts : ListedIn(s.log, a) \subseteq ListedIn(u.log, a)
      /\ t \in ListedIn(u.log, From(t)) /\ t \in ListedIn(u.log, Signer(t))
  BY <1>2 DEF Entered, Logged
<1>5. QED
  BY <1>1, <1>3, <1>4 DEF HistoryFollows

LEMMA HistoryMinted ==
  ASSUME NEW u, NEW s, NEW n, NEW P, CoinbaseStep(u, s, n, P), HistoryFollows(s, P, n - 1)
  PROVE  HistoryFollows(u, P, n)
<1> DEFINE c == Coinbase[n]
           A == {Tx[c].to}
           L1 == Longer(s.log, "tx", A, c)
           L2 == Longer(L1, "tx", {Mint}, c)
           E == {c}
<1>1. n \in 1 .. MaxHeight /\ n \in Nat /\ c \in Elements /\ s.log \in Lists /\ "tx" \in Logs
  BY ChainAssumption DEF CoinbaseStep, OfKind, Elements, IsShape, Logs
<1>2. u.log = L2 /\ u.votes = s.votes
  BY DEF CoinbaseStep, CoinbaseDone, SameRest
<1>3. Minted(n) = Minted(n - 1) \cup {c}
  <2>1. \A i : i \in 1 .. n <=> i \in 1 .. n - 1 \/ i = n
    BY <1>1
  <2>2. QED
    BY <2>1 DEF Minted
<1> HIDE DEF A, c
<1>4. Logged(s.log, s.log, {}, c, E)
  BY <1>1, LoggedNone
<1>5. Logged(L1, s.log, {}, c, E) /\ L1 \in Lists
  <2> HIDE DEF L1
  <2>1. L1 = Longer(s.log, "tx", A, c)
    BY DEF L1
  <2>2. Logged(L1, s.log, {}, c, E)
    BY <1>1, <1>4, <2>1, LoggedMore
  <2>3. QED
    BY <2>2 DEF Logged
<1> HIDE DEF L1
<1>6. Logged(L2, s.log, {}, c, E)
  <2> HIDE DEF L2
  <2>1. L2 = Longer(L1, "tx", {Mint}, c)
    BY DEF L2
  <2>2. QED
    BY <1>1, <1>5, <2>1, LoggedMore
<1>7. /\ \A a \in Accounts : ListedIn(u.log, a) \subseteq ListedIn(s.log, a) \cup {c}
      /\ \A a \in Accounts : ListedIn(s.log, a) \subseteq ListedIn(u.log, a)
  BY <1>2, <1>6 DEF Logged
<1>8. QED
  BY <1>2, <1>3, <1>7 DEF HistoryFollows, Live

LEMMA HistoryStarts ==
  ASSUME NEW s, Same(s, GenesisState)
  PROVE  HistoryFollows(s, {}, 0)
<1>1. Sent({}) = {}
  BY DEF Sent
<1>2. Live(s) = {}
  <2>1. \A p \in Spends : s.votes[p] = NoVotes
    BY GenesisFields
  <2>2. NoVotes.live = FALSE
    BY DEF NoVotes
  <2>3. QED
    BY <2>1, <2>2 DEF Live
<1>3. \A a \in Accounts : ListedIn(s.log, a) = {}
  <2>1. \A a \in Accounts : s.log["tx"][a] = <<>>
    BY GenesisFields DEF Logs
  <2>2. QED
    BY <2>1 DEF ListedIn
<1>4. QED
  BY <1>1, <1>2, <1>3 DEF HistoryFollows

-----------------------------------------------------------------------------
(* Votes                                                                    *)

WeightOf(A, p) == SumOf([a \in A |-> Tx[Creation(p)].weights[a]])

(* A tally agrees with the last word of each signatory.                     *)
TallyOf(x, p) ==
  /\ x.voted = {a \in Accounts : x.last[a] # NoTx /\ ~ Tx[x.last[a]].unvote}
  /\ x.live => /\ x.voted \subseteq Signatories(Creation(p))
               /\ x.weight = WeightOf(x.voted, p)
  /\ ~ x.live => x.weight = 0 /\ ~ x.executed
  /\ x.executed => x.weight >= Tx[Creation(p)].threshold

TallyDone(y, x, a, wt, for, t) ==
  /\ y \in VoteStates
  /\ y.live = x.live /\ y.executed = x.executed
  /\ y.last = [x.last EXCEPT ![a] = t]
  /\ for => y.weight = x.weight + wt /\ y.voted = x.voted \cup {a}
  /\ ~ for => y.weight = x.weight - wt /\ y.voted = x.voted \ {a}

LEMMA TallyEffect ==
  ASSUME NEW x \in VoteStates, NEW a \in Accounts, NEW wt \in Int, NEW for,
         NEW t \in Txs \cup {NoTx}
  PROVE  TallyDone(Tally(x, a, wt, for, t), x, a, wt, for, t)
BY TallyFacts DEF TallyDone

LEMMA TallyKept ==
  ASSUME NEW x \in VoteStates, NEW p, TallyOf(x, p), x.live, ~ x.executed,
         Creation(p) \in Creations, NEW a \in Signatories(Creation(p)),
         NEW v \in Txs, Tx[v].unvote \in BOOLEAN, Tx[v].unvote <=> a \in x.voted,
         NEW y, y = Tally(x, a, Tx[Creation(p)].weights[a], ~ Tx[v].unvote, v)
  PROVE  TallyOf(y, p) /\ y.live /\ ~ y.executed
<1> DEFINE S == Signatories(Creation(p))
           wt == Tx[Creation(p)].weights
           f == [b \in x.voted |-> wt[b]]
           g == [b \in y.voted |-> wt[b]]
<1>1. S \subseteq Accounts /\ IsFiniteSet(S) /\ wt \in [S -> Nat \ {0}] /\ S = DOMAIN wt
  BY FormAssumption, AddressesFinite, FS_Subset DEF Signatories
<1>2. /\ x.voted \subseteq S /\ x.weight = SumFunction(f)
      /\ x.voted = {b \in Accounts : x.last[b] # NoTx /\ ~ Tx[x.last[b]].unvote}
      /\ x.last \in [Accounts -> Txs \cup {NoTx}]
  BY DEF TallyOf, WeightOf, SumOf, VoteStates
<1>3. a \in Accounts /\ wt[a] \in Nat /\ v # NoTx /\ v \in Txs \cup {NoTx}
  BY <1>1, TxAssumption
<1>4. /\ y.live = x.live /\ y.executed = x.executed
      /\ y.last = [x.last EXCEPT ![a] = v]
      /\ ~ Tx[v].unvote => y.weight = x.weight + wt[a] /\ y.voted = x.voted \cup {a}
      /\ Tx[v].unvote => y.weight = x.weight - wt[a] /\ y.voted = x.voted \ {a}
  <2> DEFINE w == wt[a]
             for == ~ Tx[v].unvote
  <2>1. w \in Int /\ y = Tally(x, a, w, for, v)
    BY <1>3
  <2> HIDE DEF w, for
  <2>2. TallyDone(Tally(x, a, w, for, v), x, a, w, for, v)
    BY <1>3, <2>1, TallyEffect
  <2>3. TallyDone(y, x, a, w, for, v)
    BY <2>1, <2>2
  <2>4. QED
    BY <2>3 DEF TallyDone, w, for
<1> HIDE DEF S, wt
<1>5. y.voted \subseteq S /\ IsFiniteSet(x.voted) /\ IsFiniteSet(y.voted)
  <2>1. a \in S
    BY DEF S
  <2>2. y.voted \subseteq S
    BY <1>2, <1>4, <2>1
  <2>3. QED
    BY <1>1, <1>2, <2>2, FS_Subset
<1>6. f \in [x.voted -> Int] /\ g \in [y.voted -> Int]
  BY SMTT(60), <1>1, <1>2, <1>5
<1>7. CASE ~ Tx[v].unvote
  <2>1. a \notin x.voted /\ a \in y.voted /\ y.voted \ {a} = x.voted
    BY <1>4, <1>7
  <2>2. \A b \in x.voted : f[b] = g[b]
    BY <1>4, <1>7
  <2>3. g[a] = wt[a]
    BY SMTT(60), <2>1
  <2> HIDE DEF f, g
  <2>4. Without(g, y.voted, a, f)
    BY <1>5, <1>6, <2>1, <2>2 DEF Without
  <2>5. SumFunction(g) = wt[a] + SumFunction(f)
    BY <2>3, <2>4, SumWithout
  <2>6. SumFunction(f) \in Int
    BY <1>5, <1>6, SumFacts
  <2>7. y.weight = SumFunction(g)
    BY SMTT(60), <1>2, <1>3, <1>4, <1>7, <2>5, <2>6
  <2>8. y.voted = {b \in Accounts : y.last[b] # NoTx /\ ~ Tx[y.last[b]].unvote}
    BY <1>2, <1>3, <1>4, <1>7
  <2>9. QED
    BY <1>4, <1>5, <2>7, <2>8 DEF TallyOf, WeightOf, g, wt, S, SumOf
<1>8. CASE Tx[v].unvote
  <2>1. a \in x.voted /\ y.voted = x.voted \ {a}
    BY <1>4, <1>8
  <2>2. \A b \in y.voted : f[b] = g[b]
    BY <2>1
  <2>3. f[a] = wt[a]
    BY SMTT(60), <2>1
  <2> HIDE DEF f, g
  <2>4. Without(f, x.voted, a, g)
    BY <1>5, <1>6, <2>1, <2>2 DEF Without
  <2>5. SumFunction(f) = wt[a] + SumFunction(g)
    BY <2>3, <2>4, SumWithout
  <2>6. SumFunction(g) \in Int
    BY <1>5, <1>6, SumFacts
  <2>7. y.weight = SumFunction(g)
    BY SMTT(60), <1>2, <1>3, <1>4, <1>8, <2>5, <2>6
  <2>8. y.voted = {b \in Accounts : y.last[b] # NoTx /\ ~ Tx[y.last[b]].unvote}
    BY <1>2, <1>3, <1>4, <1>8
  <2>9. QED
    BY <1>4, <1>5, <2>7, <2>8 DEF TallyOf, WeightOf, g, wt, S, SumOf
<1>9. QED
  BY <1>7, <1>8

AllTallied(s) == \A p \in Spends : TallyOf(s.votes[p], p)

(* What t leaves of the tallies.                                            *)
OthersTallied(u, s, t) ==
  \A p \in Spends :
    p # t /\ (t \in OfKind("multi_sig_vote") => p # Tx[t].spend) => u.votes[p] = s.votes[p]

NewSpend(u, t) == t \in Spends => u.votes[t] = [NoVotes EXCEPT !.live = TRUE]

VoteCounted(u, s, t) ==
  t \in OfKind("multi_sig_vote") =>
    LET p == Tx[t].spend
    IN  /\ p \in Spends /\ s.votes[p].live
        /\ u.votes[p].live
        /\ u.votes[p].last = [s.votes[p].last EXCEPT ![From(t)] = t]

Tallied(u, s, t) ==
  /\ AllTallied(u) /\ OthersTallied(u, s, t) /\ NewSpend(u, t) /\ VoteCounted(u, s, t)

LEMMA VoteTallies ==
  ASSUME NEW s, Good(s), NEW t \in Ordinary, NEW n, NEW u, VoteCast(u, s, t, n), AllTallied(s)
  PROVE  Tallied(u, s, t)
<1> DEFINE p == Tx[t].spend
           a == From(t)
           C == Counted(s.votes, t)
           D == SetExecuted(C, p, TRUE)
           X == Executes(s, t, n)
           x == s.votes[p]
           y == Tally(x, a, Tx[Creation(p)].weights[a], ~ Tx[t].unvote, t)
<1>1. /\ t \in OfKind("multi_sig_vote") /\ ValidMultiSigVote(s, t, n) /\ VoteDone(u, s, t, n)
      /\ t \in Txs /\ s.votes \in [Spends -> VoteStates] /\ a \in Accounts
  BY TxFacts DEF VoteCast, Good, IsShape
<1>2. /\ p \in Spends /\ Tx[t].unvote \in BOOLEAN /\ Creation(p) \in Creations
      /\ Weight(t) \in Int
  BY <1>1, VoteFacts
<1>3. /\ x.live /\ ~ x.executed /\ a \in Signatories(Creation(p))
      /\ Tx[t].unvote <=> a \in x.voted
  BY <1>1 DEF ValidMultiSigVote
<1>4. x \in VoteStates /\ TallyOf(x, p)
  BY SMTT(60), <1>1, <1>2 DEF AllTallied
<1>5. /\ TallyOf(y, p) /\ y.live /\ ~ y.executed /\ y \in VoteStates
      /\ y.last = [x.last EXCEPT ![a] = t]
  <2> DEFINE w == Tx[Creation(p)].weights[a]
             for == ~ Tx[t].unvote
  <2>1. w \in Int /\ t \in Txs \cup {NoTx}
    BY <1>1, <1>2 DEF Weight
  <2>2. TallyOf(y, p) /\ y.live /\ ~ y.executed
    <3> HIDE DEF y, p, x, a
    <3>1. y = Tally(x, a, w, ~ Tx[t].unvote, t)
      BY DEF y
    <3>2. QED
      BY <1>1, <1>2, <1>3, <1>4, <3>1, TallyKept
  <2>3. y \in VoteStates /\ y.last = [x.last EXCEPT ![a] = t]
    <3> HIDE DEF w, for, x, a, p
    <3>1. /\ Tally(x, a, w, for, t) \in VoteStates
          /\ Tally(x, a, w, for, t).last = [x.last EXCEPT ![a] = t]
      BY <1>1, <1>4, <2>1, TallyFacts
    <3>2. QED
      BY <3>1 DEF w, for
  <2>4. QED
    BY <2>2, <2>3
<1>6. C = [s.votes EXCEPT ![p] = y]
  BY DEF Counted, Recount, Weight
<1> HIDE DEF p, a, x, y, C, D, X
<1>7. /\ C \in [Spends -> VoteStates] /\ C[p] = y
      /\ \A q \in Spends : q # p => C[q] = s.votes[q]
  BY <1>1, <1>2, <1>5, <1>6
<1>8. /\ D \in [Spends -> VoteStates]
      /\ \A q \in Spends : q # p => D[q] = C[q]
      /\ D[p].live = C[p].live /\ D[p].voted = C[p].voted /\ D[p].last = C[p].last
      /\ D[p].weight = C[p].weight /\ D[p].executed
  BY ZenonT(60), <1>2, <1>7, ExecutedFacts DEF D
<1>9. /\ X => u.votes = D /\ C[p].weight >= Tx[Creation(p)].threshold
      /\ ~ X => u.votes = C
  BY <1>1 DEF VoteDone, X, p, C, D, Executes
<1>10. CASE X
  <2>1. TallyOf(D[p], p)
    <3> DEFINE z == D[p]
    <3>1. /\ z.live = y.live /\ z.voted = y.voted /\ z.last = y.last /\ z.weight = y.weight
          /\ z.executed /\ y.weight >= Tx[Creation(p)].threshold
      BY <1>7, <1>8, <1>9, <1>10
    <3> HIDE DEF z
    <3>2. TallyOf(z, p)
      BY ZenonT(60), <1>5, <3>1 DEF TallyOf
    <3>3. QED
      BY <3>2 DEF z
  <2>2. AllTallied(u)
    BY <1>7, <1>8, <1>9, <1>10, <2>1 DEF AllTallied
  <2>3. \A q \in Spends : q # p => u.votes[q] = s.votes[q]
    BY <1>7, <1>8, <1>9, <1>10
  <2>4. u.votes[p].live /\ u.votes[p].last = [x.last EXCEPT ![a] = t]
    BY <1>5, <1>7, <1>8, <1>9, <1>10
  <2>5. t \notin Spends
    BY <1>1 DEF OfKind, Spends
  <2>6. QED
    BY <1>1, <1>2, <1>3, <2>2, <2>3, <2>4, <2>5
       DEF Tallied, OthersTallied, NewSpend, VoteCounted, p, x, a
<1>11. CASE ~ X
  <2>1. AllTallied(u)
    BY <1>5, <1>7, <1>9, <1>11 DEF AllTallied
  <2>2. \A q \in Spends : q # p => u.votes[q] = s.votes[q]
    BY <1>7, <1>9, <1>11
  <2>3. u.votes[p].live /\ u.votes[p].last = [x.last EXCEPT ![a] = t]
    BY <1>5, <1>7, <1>9, <1>11
  <2>4. t \notin Spends
    BY <1>1 DEF OfKind, Spends
  <2>5. QED
    BY <1>1, <1>2, <1>3, <2>1, <2>2, <2>3, <2>4
       DEF Tallied, OthersTallied, NewSpend, VoteCounted, p, x, a
<1>12. QED
  BY <1>10, <1>11

LEMMA StaysTallied ==
  ASSUME NEW s, Good(s), NEW t \in Ordinary, NEW n, NEW u, Effect(u, s, t, n), AllTallied(s)
  PROVE  Tallied(u, s, t)
<1>1. s.votes \in [Spends -> VoteStates]
  BY DEF Good, IsShape
<1>2. ASSUME u.votes = s.votes, t \notin Spends, t \notin OfKind("multi_sig_vote")
      PROVE  Tallied(u, s, t)
  BY <1>2 DEF Tallied, AllTallied, OthersTallied, NewSpend, VoteCounted
<1>3. CASE SpendDone(u, s, t)
  <2> DEFINE x == [NoVotes EXCEPT !.live = TRUE]
  <2>1. t \in Spends /\ u.votes = [s.votes EXCEPT ![t] = x] /\ t \notin OfKind("multi_sig_vote")
    BY <1>3 DEF SpendDone, Spends, OfKind
  <2>2. TallyOf(x, t)
    <3>1. /\ x.live /\ x.voted = {} /\ x.last = [a \in Accounts |-> NoTx] /\ x.weight = 0
          /\ ~ x.executed
      BY DEF NoVotes
    <3> DEFINE f == [a \in {} |-> Tx[Creation(t)].weights[a]]
    <3>2. SumOf(f) = 0
      <4>1. f \in [{} -> Int] /\ IsFiniteSet({})
        BY FS_EmptySet
      <4> HIDE DEF f
      <4>2. QED
        BY <4>1, SumFacts DEF SumOf
    <3> HIDE DEF x
    <3>3. x.weight = WeightOf(x.voted, t)
      BY <3>1, <3>2 DEF WeightOf
    <3>4. QED
      BY <3>1, <3>3 DEF TallyOf
  <2> HIDE DEF x
  <2>3. u.votes[t] = x /\ \A p \in Spends : p # t => u.votes[p] = s.votes[p]
    BY <1>1, <2>1
  <2>4. QED
    BY <2>1, <2>2, <2>3 DEF Tallied, AllTallied, OthersTallied, NewSpend, VoteCounted, x
<1>4. CASE VoteCast(u, s, t, n)
  BY <1>4, VoteTallies
<1>5. TransferDone(u, s, t) \/ MessageDone(u, s, t)
      \/ (t \in OfKind("lattice") /\ NotedDone(u, s, t, "lattice"))
      \/ (t \in OfKind("slave") /\ NotedDone(u, s, t, "slaves"))
      \/ TokenDone(u, s, t) \/ TransferTokenDone(u, s, t) \/ CreateDone(u, s, t)
      => u.votes = s.votes /\ t \notin Spends /\ t \notin OfKind("multi_sig_vote")
  BY DEF TransferDone, MessageDone, NotedDone, TokenDone, TransferTokenDone, CreateDone,
         OfKind, Spends, Tokens, Creations
<1>6. QED
  BY <1>2, <1>3, <1>4, <1>5 DEF Effect


VotesIn(P, p, a) ==
  {x \in P : Tx[At(x)].kind = "multi_sig_vote" /\ Tx[At(x)].spend = p /\ From(At(x)) = a}

LatestOf(V) == IF V = {} THEN NoTx ELSE At(CHOOSE x \in V : \A y \in V : x = y \/ Later(x, y))

LastIn(P, p, a) == LatestOf(VotesIn(P, p, a))

(* The last word of a about p once t comes after P.                         *)
LastWith(P, t, p, a) ==
  IF t \in OfKind("multi_sig_vote") /\ Tx[t].spend = p /\ From(t) = a THEN t ELSE LastIn(P, p, a)

TalliesFollow(s, P) ==
  /\ AllTallied(s)
  /\ \A p \in Spends : s.votes[p].live <=> p \in Sent(P)
  /\ \A p \in Spends, a \in Accounts : s.votes[p].last[a] = LastIn(P, p, a)

LEMMA LaterFacts ==
  ASSUME ChainLinked, NEW n \in 1 .. Len(chain), NEW k \in 1 .. Size(n),
         NEW y \in Done(n, k - 1)
  PROVE  Later(<<n, k>>, y) /\ ~ Later(y, <<n, k>>)
<1>1. /\ y[1] < n \/ (y[1] = n /\ y[2] <= k - 1)
      /\ y \in Places
  BY DEF Done
<1>2. n \in Nat /\ k \in Nat
  BY PlaceFacts
<1>3. y[1] \in Int /\ y[2] \in Int
  <2>1. chain \in Seq(Seq(EntrySet))
    BY DEF ChainLinked, LedgerInv, Types
  <2>2. DOMAIN chain \subseteq Nat /\ \A i \in DOMAIN chain : DOMAIN chain[i] \subseteq Nat
    <3>1. \A i \in DOMAIN chain : chain[i] \in Seq(EntrySet)
      BY <2>1
    <3>2. QED
      BY SMTT(60), <2>1, <3>1
  <2> DEFINE f(i) == {i} \X DOMAIN chain[i]
  <2>3. Places = UNION {f(i) : i \in DOMAIN chain}
    BY DEF Places
  <2>4. \A i \in DOMAIN chain : \A x \in f(i) : x[1] \in Nat /\ x[2] \in Nat
    BY <2>2
  <2> HIDE DEF f
  <2>5. y[1] \in Nat /\ y[2] \in Nat
    BY <1>1, <2>3, <2>4
  <2>6. QED
    BY <2>5
<1>4. /\ n > y[1] \/ (n = y[1] /\ k > y[2])
      /\ ~ (y[1] > n \/ (y[1] = n /\ y[2] > k))
  BY <1>1, <1>2, <1>3
<1>5. <<n, k>>[1] = n /\ <<n, k>>[2] = k
  OBVIOUS
<1>6. QED
  BY <1>4, <1>5 DEF Later

LEMMA LastGrows ==
  ASSUME NEW P, NEW x, x \notin P, NEW t \in Ordinary, At(x) = t,
         \A y \in P : Later(x, y) /\ ~ Later(y, x),
         NEW p, NEW a
  PROVE  LastIn(P \cup {x}, p, a) = LastWith(P, t, p, a)
<1> DEFINE V == VotesIn(P, p, a)
           W == VotesIn(P \cup {x}, p, a)
           Is == t \in OfKind("multi_sig_vote") /\ Tx[t].spend = p /\ From(t) = a
           Best(z) == \A y \in W : z = y \/ Later(z, y)
<1>1. CASE Is
  <2>1. W = V \cup {x} /\ V \subseteq P
    BY <1>1 DEF VotesIn, OfKind
  <2> HIDE DEF V, W
  <2>2. Best(x)
    BY <2>1
  <2>3. \A z \in W : Best(z) => z = x
    BY <2>1
  <2>4. (CHOOSE z \in W : Best(z)) = x
    BY <2>1, <2>2, <2>3
  <2>5. LastIn(P \cup {x}, p, a) = IF W = {} THEN NoTx ELSE At(CHOOSE z \in W : Best(z))
    BY DEF LastIn, LatestOf, W
  <2>6. W # {}
    BY <2>1
  <2>7. LastIn(P \cup {x}, p, a) = t
    BY <2>4, <2>5, <2>6
  <2>8. QED
    BY <1>1, <2>7 DEF LastWith
<1>2. CASE ~ Is
  <2>1. t \in Txs
    BY DEF Ordinary
  <2>2. W = V
    BY <1>2, <2>1 DEF VotesIn, OfKind
  <2> HIDE DEF V, W
  <2>3. LastIn(P \cup {x}, p, a) = LastIn(P, p, a)
    BY <2>2 DEF LastIn, V, W
  <2>4. QED
    BY <1>2, <2>3 DEF LastWith
<1>3. QED
  BY <1>1, <1>2

LEMMA TalliesGrow ==
  ASSUME NEW u, NEW s, NEW n, NEW k, NEW x, NEW t, NEW P, TxStep(u, s, n, k, x, t, P),
         \A y \in P : Later(x, y) /\ ~ Later(y, x), TalliesFollow(s, P)
  PROVE  TalliesFollow(u, Done(n, k))
<1>1. /\ t \in Ordinary /\ Sent(Done(n, k)) = Sent(P) \cup {t} /\ Done(n, k) = P \cup {x}
      /\ x \notin P /\ At(x) = t
      /\ s.votes \in [Spends -> VoteStates]
  BY DEF TxStep, Sent, IsShape
<1>2. Tallied(u, s, t)
  BY StaysTallied DEF TxStep, TalliesFollow
<1>3. \A p \in Spends, a \in Accounts :
        LastIn(Done(n, k), p, a) = LastWith(P, t, p, a)
  BY <1>1, LastGrows
<1>4. AllTallied(u)
  BY <1>2 DEF Tallied
<1>5. ASSUME NEW p \in Spends
      PROVE  /\ u.votes[p].live <=> p \in Sent(Done(n, k))
             /\ \A a \in Accounts : u.votes[p].last[a] = LastIn(Done(n, k), p, a)
  <2>1. /\ s.votes[p].live <=> p \in Sent(P)
        /\ \A a \in Accounts : s.votes[p].last[a] = LastIn(P, p, a)
    BY DEF TalliesFollow
  <2>2. CASE p = t
    <3>1. t \notin OfKind("multi_sig_vote")
      BY <2>2 DEF Spends, OfKind
    <3>2. /\ u.votes[p].live
          /\ u.votes[p].last = NoVotes.last
      BY <1>2, <2>2 DEF Tallied, NewSpend, NoVotes
    <3>3. s.votes[p] = NoVotes
      BY <1>1, <2>2 DEF TxStep, Good, Untouched
    <3>4. QED
      BY <1>1, <1>3, <2>1, <2>2, <3>1, <3>2, <3>3 DEF LastWith
  <2>3. CASE p # t /\ t \in OfKind("multi_sig_vote") /\ Tx[t].spend = p
    <3>1. /\ s.votes[p].live /\ u.votes[p].live
          /\ u.votes[p].last = [s.votes[p].last EXCEPT ![From(t)] = t]
      BY <1>2, <2>3 DEF Tallied, VoteCounted
    <3>2. s.votes[p].last \in [Accounts -> Txs \cup {NoTx}]
      BY <1>1 DEF VoteStates
    <3>3. \A a \in Accounts : u.votes[p].last[a] = IF From(t) = a THEN t ELSE s.votes[p].last[a]
      BY <3>1, <3>2
    <3>4. QED
      BY SMTT(60), <1>1, <1>3, <2>1, <2>3, <3>1, <3>3 DEF LastWith
  <2>4. CASE p # t /\ ~ (t \in OfKind("multi_sig_vote") /\ Tx[t].spend = p)
    <3>1. u.votes[p] = s.votes[p]
      BY <1>2, <2>4 DEF Tallied, OthersTallied
    <3>2. QED
      BY <1>1, <1>3, <2>1, <2>4, <3>1 DEF LastWith
  <2>5. QED
    BY <2>2, <2>3, <2>4
<1>6. QED
  BY <1>4, <1>5 DEF TalliesFollow

LEMMA NothingTallied ==
  ASSUME NEW s, \A p \in Spends : s.votes[p] = NoVotes
  PROVE  TalliesFollow(s, {})
<1>1. /\ NoVotes.voted = {} /\ NoVotes.last = [a \in Accounts |-> NoTx]
      /\ NoVotes.live = FALSE /\ NoVotes.executed = FALSE /\ NoVotes.weight = 0
  BY DEF NoVotes
<1>2. \A p : TallyOf(NoVotes, p)
  BY <1>1 DEF TallyOf
<1>3. \A p, a : LastIn({}, p, a) = NoTx
  BY DEF LastIn, LatestOf, VotesIn
<1>4. Sent({}) = {}
  BY DEF Sent
<1>5. QED
  BY <1>1, <1>2, <1>3, <1>4 DEF TalliesFollow, AllTallied

-----------------------------------------------------------------------------
(* Balances                                                                 *)

LEMMA SumIncreased ==
  ASSUME NEW b \in [Addresses -> Int], NEW pays, Amounts(pays), DOMAIN pays \subseteq Addresses,
         NEW c, c = Increase(b, pays)
  PROVE  /\ c \in [Addresses -> Int]
         /\ SumOf(c) = SumOf(b) + SumOf(pays)
         /\ SumOf(b) \in Int /\ SumOf(c) \in Int /\ SumOf(pays) \in Int
<1> DEFINE D == DOMAIN pays
<1>1. c \in [Addresses -> Int] /\ \A a \in Addresses : c[a] = b[a] + Part(pays, a)
  BY BalanceFacts
<1>2. IsFiniteSet(Addresses) /\ pays \in [D -> Int]
  BY AddressesFinite DEF Amounts
<1>3. More(b, Addresses, pays, D, c)
  BY <1>1, <1>2 DEF More
<1>4. /\ SumFunction(c) = SumFunction(b) + SumFunction(pays)
      /\ SumFunction(b) \in Int /\ SumFunction(pays) \in Int
  BY <1>3, SumMore
<1>5. QED
  BY <1>1, <1>4 DEF SumOf

LEMMA SumDecreased ==
  ASSUME NEW b \in [Addresses -> Int], NEW pays, Amounts(pays), DOMAIN pays \subseteq Addresses,
         NEW c, c = Decrease(b, pays)
  PROVE  /\ c \in [Addresses -> Int]
         /\ SumOf(c) = SumOf(b) - SumOf(pays)
         /\ SumOf(b) \in Int /\ SumOf(c) \in Int /\ SumOf(pays) \in Int
<1> DEFINE D == DOMAIN pays
<1>1. c \in [Addresses -> Int] /\ \A a \in Addresses : c[a] = b[a] - Part(pays, a)
  BY BalanceFacts
<1>2. IsFiniteSet(Addresses) /\ pays \in [D -> Int] /\ \A a : Part(pays, a) \in Int
  BY AddressesFinite DEF Amounts, Part
<1>3. \A a \in Addresses : b[a] = c[a] + Part(pays, a)
  BY <1>1, <1>2
<1>4. More(c, Addresses, pays, D, b)
  BY <1>1, <1>2, <1>3 DEF More
<1>5. /\ SumFunction(b) = SumFunction(c) + SumFunction(pays)
      /\ SumFunction(c) \in Int /\ SumFunction(pays) \in Int
  BY <1>4, SumMore
<1>6. QED
  BY <1>1, <1>5 DEF SumOf

LEMMA CoinsSum ==
  ASSUME NEW a, NEW x \in Int
  PROVE  Amounts(Coins(a, x)) /\ DOMAIN Coins(a, x) = {a} /\ SumOf(Coins(a, x)) = x
<1> DEFINE f == Coins(a, x)
<1>1. f \in [{a} -> Int] /\ f[a] = x /\ DOMAIN f = {a}
  BY DEF Coins
<1> HIDE DEF f
<1>2. SumFunction(f) = x
  BY <1>1, SumOfOne
<1>3. QED
  BY <1>1, <1>2 DEF f, SumOf, Amounts

LEMMA FeeTaken ==
  ASSUME NEW s, Good(s), NEW t \in Ordinary, NEW b, b = Decrease(s.balance, Fee(t))
  PROVE  /\ b \in [Addresses -> Int]
         /\ SumOf(b) = SumOf(s.balance) - Tx[t].fee
         /\ SumOf(s.balance) \in Int /\ Tx[t].fee \in Nat
         /\ \A a \in Addresses : b[a] = s.balance[a] - (IF a = From(t) THEN Tx[t].fee ELSE 0)
<1> DEFINE f == Coins(From(t), Tx[t].fee)
<1>1. s.balance \in [Addresses -> Int] /\ Tx[t].fee \in Nat /\ From(t) \in Addresses
  BY TxFacts DEF Good, IsShape
<1>2. Amounts(f) /\ DOMAIN f = {From(t)} /\ SumOf(f) = Tx[t].fee /\ f[From(t)] = Tx[t].fee
  <2>1. Tx[t].fee \in Int
    BY <1>1
  <2>2. Amounts(f) /\ DOMAIN f = {From(t)} /\ SumOf(f) = Tx[t].fee
    BY <2>1, CoinsSum
  <2>3. QED
    BY <2>2 DEF Coins
<1>3. b = Decrease(s.balance, f)
  BY DEF Fee
<1> HIDE DEF f
<1>4. /\ b \in [Addresses -> Int]
      /\ SumOf(b) = SumOf(s.balance) - SumOf(f) /\ SumOf(s.balance) \in Int
  BY <1>1, <1>2, <1>3, SumDecreased
<1>5. \A a \in Addresses : b[a] = s.balance[a] - Part(f, a)
  BY <1>1, <1>2, <1>3, BalanceFacts
<1>6. \A a \in Addresses : Part(f, a) = IF a = From(t) THEN Tx[t].fee ELSE 0
  BY <1>2 DEF Part
<1>7. QED
  BY <1>1, <1>2, <1>4, <1>5, <1>6

Executed(s) == {p \in Spends : s.votes[p].executed}

(* What each kind of valid transaction does to the balances.                *)
Paying(c, b, t) ==
  /\ t \in OfKind("transfer") /\ c \in [Addresses -> Int]
  /\ SumOf(c) = SumOf(b) - Tx[t].fee
  /\ \A a \in Addresses :
       c[a] = b[a] - (IF a = From(t) THEN Total(t) + Tx[t].fee ELSE 0) + Part(Tx[t].pays, a)

Charging(c, b, t) ==
  /\ t \notin OfKind("transfer") /\ c \in [Addresses -> Int]
  /\ SumOf(c) = SumOf(b) - Tx[t].fee
  /\ \A a \in Addresses : c[a] = b[a] - (IF a = From(t) THEN Tx[t].fee ELSE 0)

Executing(c, b, t) ==
  LET p == Tx[t].spend
  IN  /\ t \in OfKind("multi_sig_vote") /\ c \in [Addresses -> Int]
      /\ SumOf(c) = SumOf(b) - Tx[t].fee
      /\ Total(p) <= b[Tx[p].wallet]
      /\ \A a \in Addresses :
           c[a] = b[a] - (IF a = From(t) THEN Tx[t].fee ELSE 0)
                       - (IF a = Tx[p].wallet THEN Total(p) ELSE 0) + Part(Tx[p].pays, a)

LEMMA TransferBalances ==
  ASSUME NEW s, Good(s), NEW t \in Ordinary, NEW u, TransferDone(u, s, t)
  PROVE  Paying(u.balance, s.balance, t)
<1> DEFINE x == Total(t) + Tx[t].fee
           f == Coins(From(t), x)
           q == Tx[t].pays
           b == Decrease(s.balance, f)
           c == Increase(b, q)
<1>1. /\ s.balance \in [Addresses -> Int] /\ Tx[t].fee \in Nat /\ From(t) \in Addresses
      /\ t \in OfKind("transfer") /\ u.balance = c
  BY TxFacts DEF Good, IsShape, TransferDone, TransferTotal, Total
<1>2. Amounts(q) /\ DOMAIN q \subseteq Addresses /\ SumOf(q) \in Nat
  BY <1>1, PaysFacts DEF Payees
<1>3. x \in Int /\ x = SumOf(q) + Tx[t].fee
  BY <1>1, <1>2 DEF Total
<1>4. Amounts(f) /\ DOMAIN f = {From(t)} /\ SumOf(f) = x /\ f[From(t)] = x
  <2> HIDE DEF x
  <2>1. Amounts(f) /\ DOMAIN f = {From(t)} /\ SumOf(f) = x
    BY <1>3, CoinsSum
  <2>2. QED
    BY <2>1 DEF Coins
<1> HIDE DEF f, x, q
<1>5. /\ b \in [Addresses -> Int]
      /\ SumOf(b) = SumOf(s.balance) - x /\ SumOf(s.balance) \in Int /\ SumOf(b) \in Int
      /\ \A a \in Addresses : b[a] = s.balance[a] - Part(f, a)
  <2> HIDE DEF b
  <2>1. b = Decrease(s.balance, f)
    BY DEF b
  <2>2. b \in [Addresses -> Int] /\ SumOf(b) = SumOf(s.balance) - SumOf(f)
        /\ SumOf(s.balance) \in Int /\ SumOf(b) \in Int
    BY <1>1, <1>4, <2>1, SumDecreased
  <2>3. \A a \in Addresses : b[a] = s.balance[a] - Part(f, a)
    BY <1>1, <1>4, <2>1, BalanceFacts
  <2>4. QED
    BY <1>4, <2>2, <2>3
<1> HIDE DEF b
<1>6. /\ c \in [Addresses -> Int]
      /\ SumOf(c) = SumOf(b) + SumOf(q)
      /\ \A a \in Addresses : c[a] = b[a] + Part(q, a)
  <2> HIDE DEF c
  <2>1. c = Increase(b, q)
    BY DEF c
  <2>2. c \in [Addresses -> Int] /\ SumOf(c) = SumOf(b) + SumOf(q)
    BY <1>2, <1>5, <2>1, SumIncreased
  <2>3. \A a \in Addresses : c[a] = b[a] + Part(q, a)
    BY <1>2, <1>5, <2>1, BalanceFacts
  <2>4. QED
    BY <2>2, <2>3
<1> HIDE DEF c
<1>7. \A a \in Addresses : Part(f, a) = IF a = From(t) THEN x ELSE 0
  BY <1>4 DEF Part
<1>8. \A a \in Addresses : c[a] = s.balance[a] - (IF a = From(t) THEN x ELSE 0) + Part(q, a)
  BY <1>5, <1>6, <1>7
<1>9. SumOf(c) = SumOf(s.balance) - Tx[t].fee
  BY SMTT(60), <1>1, <1>2, <1>3, <1>5, <1>6
<1>10. QED
  BY <1>1, <1>6, <1>8, <1>9 DEF Paying, x, q

LEMMA ExecutionBalances ==
  ASSUME NEW s, Good(s), NEW t \in Ordinary, NEW n, NEW u, VoteCast(u, s, t, n),
         Executes(s, t, n)
  PROVE  Executing(u.balance, s.balance, t)
<1> DEFINE p == Tx[t].spend
           w == Tx[p].wallet
           x == Total(p)
           f == Coins(w, x)
           q == Tx[p].pays
           e == Decrease(s.balance, Fee(t))
           b == Decrease(e, f)
           c == Increase(b, q)
<1>1. /\ t \in OfKind("multi_sig_vote") /\ ValidMultiSigVote(s, t, n)
      /\ VoteDone(u, s, t, n)
  BY DEF VoteCast
<1>2. u.balance = c
  BY <1>1 DEF VoteDone, Paid
<1>3. p \in Spends /\ w \in Wallets /\ w \in Addresses /\ w # From(t) /\ From(t) \in Accounts
  <2>1. p \in Spends /\ From(t) \in Accounts
    BY <1>1, VoteFacts, TxFacts
  <2>2. QED
    BY <2>1, FormAssumption, AddressAssumption DEF Addresses
<1>4. Amounts(q) /\ DOMAIN q \subseteq Addresses /\ SumOf(q) \in Nat /\ x = SumOf(q) /\ x \in Int
  BY <1>3, PaysFacts DEF Payees, Total
<1>5. Amounts(f) /\ DOMAIN f = {w} /\ SumOf(f) = x /\ f[w] = x
  <2> HIDE DEF x, w
  <2>1. Amounts(f) /\ DOMAIN f = {w} /\ SumOf(f) = x
    BY <1>4, CoinsSum
  <2>2. QED
    BY <2>1 DEF Coins
<1>6. /\ e \in [Addresses -> Int]
      /\ SumOf(e) = SumOf(s.balance) - Tx[t].fee
      /\ SumOf(s.balance) \in Int /\ Tx[t].fee \in Nat
      /\ \A a \in Addresses : e[a] = s.balance[a] - (IF a = From(t) THEN Tx[t].fee ELSE 0)
  <2> HIDE DEF e
  <2>1. e = Decrease(s.balance, Fee(t))
    BY DEF e
  <2>2. QED
    BY <2>1, FeeTaken
<1>7. x <= s.balance[w]
  <2>1. x <= e[w]
    BY DEF Executes
  <2> HIDE DEF x, e, w, p
  <2>2. e[w] = s.balance[w]
    <3>1. s.balance[w] \in Int
      BY <1>3 DEF Good, IsShape
    <3>2. QED
      BY <1>3, <1>6, <3>1
  <2>3. QED
    BY <2>1, <2>2
<1> HIDE DEF f, x, q, e, p, w
<1>8. /\ b \in [Addresses -> Int]
      /\ SumOf(b) = SumOf(e) - x /\ SumOf(b) \in Int
      /\ \A a \in Addresses : b[a] = e[a] - Part(f, a)
  <2> HIDE DEF b
  <2>1. b = Decrease(e, f)
    BY DEF b
  <2>2. b \in [Addresses -> Int] /\ SumOf(b) = SumOf(e) - SumOf(f) /\ SumOf(b) \in Int
    BY <1>3, <1>5, <1>6, <2>1, SumDecreased
  <2>3. \A a \in Addresses : b[a] = e[a] - Part(f, a)
    BY <1>5, <1>6, <2>1, BalanceFacts
  <2>4. QED
    BY <1>5, <2>2, <2>3
<1> HIDE DEF b
<1>9. /\ c \in [Addresses -> Int]
      /\ SumOf(c) = SumOf(b) + SumOf(q)
      /\ \A a \in Addresses : c[a] = b[a] + Part(q, a)
  <2> HIDE DEF c
  <2>1. c = Increase(b, q)
    BY DEF c
  <2>2. c \in [Addresses -> Int] /\ SumOf(c) = SumOf(b) + SumOf(q)
    BY <1>4, <1>8, <2>1, SumIncreased
  <2>3. \A a \in Addresses : c[a] = b[a] + Part(q, a)
    BY <1>4, <1>8, <2>1, BalanceFacts
  <2>4. QED
    BY <2>2, <2>3
<1> HIDE DEF c
<1>10. \A a \in Addresses : Part(f, a) = IF a = w THEN x ELSE 0
  BY <1>5 DEF Part
<1>11. \A a \in Addresses :
         c[a] = s.balance[a] - (IF a = From(t) THEN Tx[t].fee ELSE 0)
                  - (IF a = w THEN x ELSE 0) + Part(q, a)
  BY <1>6, <1>8, <1>9, <1>10
<1>12. SumOf(c) = SumOf(s.balance) - Tx[t].fee
  BY <1>4, <1>6, <1>8, <1>9
<1>13. QED
  BY <1>1, <1>2, <1>7, <1>9, <1>11, <1>12 DEF Executing, x, q, p, w

(* The three ways in which a transaction changes balances: the votes that   *)
(* have their spend executed are those it marks so.                         *)
Spending(u, s, t) ==
  \/ Paying(u.balance, s.balance, t) /\ Executed(u) = Executed(s)
  \/ Charging(u.balance, s.balance, t) /\ Executed(u) = Executed(s)
  \/ /\ Executing(u.balance, s.balance, t)
     /\ Tx[t].spend \in Spends \ Executed(s)
     /\ Payees(Tx[t].spend) \cap Wallets \subseteq s.wallets
     /\ Executed(u) = Executed(s) \cup {Tx[t].spend}

LEMMA FeeOnly ==
  ASSUME NEW s, Good(s), NEW t \in Ordinary, t \notin OfKind("transfer"), NEW u,
         u.balance = Decrease(s.balance, Fee(t)), Executed(u) = Executed(s)
  PROVE  Spending(u, s, t)
<1>1. Charging(u.balance, s.balance, t)
  BY FeeTaken DEF Charging
<1>2. QED
  BY <1>1 DEF Spending

LEMMA CreateBalances ==
  ASSUME NEW s, Good(s), NEW c \in Ordinary, NEW u, CreateDone(u, s, c)
  PROVE  u.balance = Decrease(s.balance, Fee(c))
<1> DEFINE w == Tx[c].wallet
           b == Decrease(s.balance, Fee(c))
<1>1. w \in Wallets \ s.wallets /\ u.balance = [b EXCEPT ![w] = 0]
  BY FormAssumption DEF CreateDone
<1>2. w \in Addresses /\ w # From(c) /\ s.balance[w] = 0
  BY <1>1, TxFacts, AddressAssumption DEF Addresses, Good
<1>3. b \in [Addresses -> Int] /\ b[w] = 0
  BY <1>2, FeeTaken
<1> HIDE DEF b
<1>4. [b EXCEPT ![w] = 0] = b
  BY <1>2, <1>3
<1>5. QED
  BY <1>1, <1>4 DEF b

LEMMA VoteBalances ==
  ASSUME NEW s, Good(s), NEW t \in Ordinary, NEW n, NEW u, VoteCast(u, s, t, n)
  PROVE  Spending(u, s, t)
<1> DEFINE p == Tx[t].spend
           C == Counted(s.votes, t)
           D == SetExecuted(C, p, TRUE)
<1>1. /\ t \in OfKind("multi_sig_vote") /\ ValidMultiSigVote(s, t, n) /\ VoteDone(u, s, t, n)
      /\ t \in Txs /\ s.votes \in [Spends -> VoteStates]
      /\ From(t) \in Accounts /\ t \in Txs \cup {NoTx}
  BY TxFacts DEF VoteCast, Good, IsShape
<1>2. p \in Spends /\ Weight(t) \in Int /\ ~ s.votes[p].executed /\ s.votes[p].live
      /\ Payees(p) \cap Wallets \subseteq s.wallets
  <2>1. p \in Spends /\ Weight(t) \in Int
    BY <1>1, VoteFacts
  <2>2. ~ s.votes[p].executed /\ s.votes[p].live
    BY <1>1 DEF ValidMultiSigVote
  <2>3. Payees(p) \cap Wallets \subseteq s.wallets
    BY <2>1, <2>2 DEF Good
  <2>4. QED
    BY <2>1, <2>2, <2>3
<1>3. /\ C \in [Spends -> VoteStates]
      /\ \A q \in Spends : C[q].executed = s.votes[q].executed
  <2> DEFINE wt == Weight(t)
             for == ~ Tx[t].unvote
             x == s.votes[p]
             y == Tally(x, From(t), wt, for, t)
  <2>1. TallyDone(y, x, From(t), wt, for, t)
    <3>1. x \in VoteStates
      BY <1>1, <1>2
    <3> HIDE DEF x, wt, for
    <3>2. wt \in Int
      BY <1>2 DEF wt
    <3>3. QED
      BY <1>1, <3>1, <3>2, TallyEffect
  <2>2. C = [s.votes EXCEPT ![p] = y]
    BY DEF Counted, Recount
  <2> HIDE DEF y, C
  <2>3. y \in VoteStates /\ y.executed = s.votes[p].executed
    BY <2>1 DEF TallyDone
  <2>4. QED
    BY <1>1, <1>2, <2>2, <2>3
<1> HIDE DEF p, C, D
<1>4. D[p].executed /\ \A q \in Spends : q # p => D[q] = C[q]
  BY <1>2, <1>3, ExecutedFacts DEF D
<1>5. CASE Executes(s, t, n)
  <2>1. u.votes = D /\ Executing(u.balance, s.balance, t)
    BY <1>1, <1>5, ExecutionBalances DEF VoteDone, D, C, p
  <2>2. Executed(u) = Executed(s) \cup {p}
    BY <1>2, <1>3, <1>4, <2>1 DEF Executed
  <2>3. p \in Spends \ Executed(s)
    BY <1>2 DEF Executed
  <2>4. QED
    BY <1>2, <2>1, <2>2, <2>3 DEF Spending, p
<1>6. CASE ~ Executes(s, t, n)
  <2>1. u.votes = C /\ u.balance = Decrease(s.balance, Fee(t))
    BY <1>1, <1>6 DEF VoteDone, D, C, p
  <2>2. Executed(u) = Executed(s)
    BY <1>3, <2>1 DEF Executed
  <2>3. t \notin OfKind("transfer")
    BY <1>1 DEF OfKind
  <2>4. QED
    BY <2>1, <2>2, <2>3, FeeOnly
<1>7. QED
  BY <1>5, <1>6

LEMMA AllSpending ==
  ASSUME NEW s, Good(s), NEW t \in Ordinary, NEW n, NEW u, Effect(u, s, t, n)
  PROVE  Spending(u, s, t)
<1>1. s.votes \in [Spends -> VoteStates]
  BY DEF Good, IsShape
<1>2. CASE TransferDone(u, s, t)
  <2>1. Executed(u) = Executed(s)
    BY <1>2 DEF TransferDone, Executed
  <2>2. QED
    BY <1>2, <2>1, TransferBalances DEF Spending
<1>3. CASE SpendDone(u, s, t)
  <2>1. t \notin OfKind("transfer") /\ u.balance = Decrease(s.balance, Fee(t)) /\ t \in Spends
    BY <1>3 DEF SpendDone, OfKind, Spends
  <2> DEFINE x == [NoVotes EXCEPT !.live = TRUE]
  <2>2. ~ x.executed /\ ~ NoVotes.executed
    BY DEF NoVotes
  <2> HIDE DEF x
  <2>3. u.votes = [s.votes EXCEPT ![t] = x] /\ s.votes[t] = NoVotes
    BY <1>3 DEF SpendDone, x
  <2>4. Executed(u) = Executed(s)
    BY <1>1, <2>1, <2>2, <2>3 DEF Executed
  <2>5. QED
    BY <2>1, <2>4, FeeOnly
<1>4. CASE VoteCast(u, s, t, n)
  BY <1>4, VoteBalances
<1>5. CASE CreateDone(u, s, t)
  <2>1. t \notin OfKind("transfer") /\ u.balance = Decrease(s.balance, Fee(t))
    BY <1>5, CreateBalances DEF CreateDone, OfKind, Creations
  <2>2. Executed(u) = Executed(s)
    BY <1>5 DEF CreateDone, Executed
  <2>3. QED
    BY <2>1, <2>2, FeeOnly
<1>6. CASE \/ MessageDone(u, s, t)
           \/ t \in OfKind("lattice") /\ NotedDone(u, s, t, "lattice")
           \/ t \in OfKind("slave") /\ NotedDone(u, s, t, "slaves")
           \/ TokenDone(u, s, t) \/ TransferTokenDone(u, s, t)
  <2>1. t \notin OfKind("transfer") /\ u.balance = Decrease(s.balance, Fee(t)) /\ u.votes = s.votes
    BY <1>6 DEF MessageDone, NotedDone, TokenDone, TransferTokenDone, OfKind, Tokens
  <2>2. Executed(u) = Executed(s)
    BY <2>1 DEF Executed
  <2>3. QED
    BY <2>1, <2>2, FeeOnly
<1>7. QED
  BY <1>2, <1>3, <1>4, <1>5, <1>6 DEF Effect


(* f has the terms of g and one more, at x.                                 *)
OneMore(f, S, x, g) ==
  /\ IsFiniteSet(S) /\ x \notin S
  /\ f \in [S \cup {x} -> Int] /\ g \in [S -> Int]
  /\ \A y \in S : g[y] = f[y]

LEMMA SumOneMore ==
  ASSUME NEW S, NEW f, NEW x, NEW g, OneMore(f, S, x, g)
  PROVE  SumOf(f) = f[x] + SumOf(g) /\ SumOf(g) \in Int /\ f[x] \in Int
<1> DEFINE T == S \cup {x}
<1>1. /\ IsFiniteSet(T) /\ x \in T /\ T \ {x} = S /\ f \in [T -> Int]
      /\ IsFiniteSet(S) /\ g \in [S -> Int] /\ \A y \in S : g[y] = f[y]
  BY FS_AddElement DEF OneMore
<1> HIDE DEF T
<1>2. Without(f, T, x, g)
  BY <1>1 DEF Without
<1>3. SumFunction(f) = f[x] + SumFunction(g)
  BY <1>2, SumWithout
<1>4. SumFunction(g) \in Int
  BY <1>1, SumFacts
<1>5. QED
  BY <1>1, <1>3, <1>4 DEF SumOf

(* The fees of the transactions of block n after the first k: the miner     *)
(* has been given them, and nobody has paid them yet.                       *)
Pending(n, k) == SumOf([i \in k + 1 .. Size(n) |-> Tx[TxAt(n, i)].fee])

LEMMA PendingFacts ==
  ASSUME ChainLinked, NEW n \in 1 .. Len(chain)
  PROVE  /\ Pending(n, 0) = FeesIn(n)
         /\ Pending(n, Size(n)) = 0
         /\ \A k \in 1 .. Size(n) : /\ Pending(n, k - 1) = Tx[TxAt(n, k)].fee + Pending(n, k)
                                    /\ Pending(n, k) \in Int
<1> DEFINE M == Size(n)
           b == chain[n]
           fee(i) == Tx[TxAt(n, i)].fee
           f(k) == [i \in k + 1 .. M |-> fee(i)]
<1>1. M \in Nat /\ b \in Seq(EntrySet) /\ Len(b) = M
  <2>1. chain \in Seq(Seq(EntrySet))
    BY DEF ChainLinked, LedgerInv, Types
  <2>2. QED
    BY <2>1, PlaceFacts DEF Size
<1>2. \A i \in 1 .. M : fee(i) \in Nat
  <2>1. \A i \in 1 .. M : b[i] \in EntrySet
    BY <1>1
  <2>2. \A e \in EntrySet : e.tx \in Ordinary
    BY DEF EntrySet
  <2>3. \A i \in 1 .. M : TxAt(n, i) \in Ordinary
    BY <2>1, <2>2 DEF TxAt
  <2>4. QED
    BY <2>3, TxFacts
<1>3. FeesIn(n) = Pending(n, 0)
  <2>1. TxsOf(b) = [i \in 1 .. M |-> TxAt(n, i)]
    BY <1>1 DEF TxsOf, TxAt
  <2>2. [i \in DOMAIN TxsOf(b) |-> Tx[TxsOf(b)[i]].fee] = [i \in 1 .. M |-> fee(i)]
    BY <2>1
  <2>3. 0 + 1 .. M = 1 .. M
    OBVIOUS
  <2>4. QED
    BY <2>2, <2>3 DEF FeesIn, FeesOf, Pending
<1> HIDE DEF M, b, fee
<1>4. Pending(n, M) = 0
  <2>1. M + 1 .. M = {}
    BY <1>1
  <2>2. f(M) \in [{} -> Int] /\ IsFiniteSet({})
    BY <2>1, FS_EmptySet
  <2> HIDE DEF f
  <2>3. SumFunction(f(M)) = 0
    BY <2>2, SumFacts
  <2>4. QED
    BY <2>3 DEF Pending, SumOf, f, fee, M
<1>5. ASSUME NEW k \in 1 .. M
      PROVE  Pending(n, k - 1) = fee(k) + Pending(n, k) /\ Pending(n, k) \in Int
  <2> DEFINE S == k + 1 .. M
  <2>1. k \notin S /\ (k - 1) + 1 .. M = S \cup {k} /\ IsFiniteSet(S) /\ S \subseteq 1 .. M
    BY <1>1, FS_Interval
  <2>2. PICK g : g = f(k)
    OBVIOUS
  <2>3. PICK h : h = f(k - 1)
    OBVIOUS
  <2>4. /\ g \in [S -> Int] /\ h \in [S \cup {k} -> Int]
        /\ h[k] = fee(k) /\ \A y \in S : g[y] = h[y]
    BY <1>2, <2>1, <2>2, <2>3
  <2> HIDE DEF f, S
  <2>5. OneMore(h, S, k, g)
    BY <2>1, <2>4 DEF OneMore
  <2>6. SumOf(h) = h[k] + SumOf(g) /\ SumOf(g) \in Int
    BY <2>5, SumOneMore
  <2>7. Pending(n, k - 1) = SumOf(h) /\ Pending(n, k) = SumOf(g)
    BY <2>2, <2>3 DEF Pending, f, fee, M
  <2>8. QED
    BY <2>4, <2>6, <2>7
<1>6. QED
  BY <1>3, <1>4, <1>5 DEF M, fee

LEMMA NoBlockPends == Pending(0, 0) = 0
<1> DEFINE f == [i \in 0 + 1 .. 0 |-> Tx[TxAt(0, i)].fee]
<1>1. Size(0) = 0 /\ 0 + 1 .. 0 = {}
  BY DEF Size
<1>2. f \in [{} -> Int] /\ IsFiniteSet({})
  BY <1>1, FS_EmptySet
<1> HIDE DEF f
<1>3. SumFunction(f) = 0
  BY <1>2, SumFacts
<1>4. QED
  BY <1>1, <1>3 DEF Pending, SumOf, f

SupplyFollows(s, n, k) == SumOf(s.balance) = SumOf(GenesisState.balance) + Pending(n, k)

LEMMA SupplyStarts ==
  ASSUME NEW s, Sound(s), Same(s, GenesisState)
  PROVE  SupplyFollows(s, 0, 0)
<1>1. s.balance = GenesisState.balance
  BY DEF Same
<1>2. SumOf(s.balance) \in Int
  <2>1. s.balance \in [Addresses -> Int] /\ IsFiniteSet(Addresses)
    BY AddressesFinite DEF Sound, Good, IsShape
  <2>2. QED
    BY <2>1, SumFacts DEF SumOf
<1>3. Pending(0, 0) = 0
  BY NoBlockPends
<1>4. QED
  BY <1>1, <1>2, <1>3 DEF SupplyFollows

LEMMA SupplyMinted ==
  ASSUME ChainLinked, NEW n \in 1 .. Len(chain), NEW u, NEW s, NEW P, CoinbaseStep(u, s, n, P),
         NEW m, NEW j, Pending(m, j) = 0, SupplyFollows(s, m, j)
  PROVE  SupplyFollows(u, n, 0)
<1> DEFINE c == Coinbase[n]
           x == Reward + FeesIn(n)
           f == Coins(Tx[c].to, x)
           g == Coins(Mint, Reward)
           b == Increase(s.balance, f)
           d == Decrease(b, g)
<1>1. /\ s.balance \in [Addresses -> Int] /\ u.balance = d
      /\ Tx[c].to \in Addresses /\ Mint \in Addresses /\ FeesIn(n) \in Nat
      /\ Reward \in Int /\ x \in Int
  BY SMTT(60), ChainAssumption, TxAssumption
     DEF CoinbaseStep, CoinbaseDone, IsShape, OfKind, Addresses
<1>2. Amounts(f) /\ DOMAIN f \subseteq Addresses /\ SumOf(f) = x
  <2> HIDE DEF x, c
  <2>1. Amounts(f) /\ DOMAIN f = {Tx[c].to} /\ SumOf(f) = x
    BY <1>1, CoinsSum
  <2>2. QED
    BY <1>1, <2>1
<1>3. Amounts(g) /\ DOMAIN g \subseteq Addresses /\ SumOf(g) = Reward
  <2>1. Amounts(g) /\ DOMAIN g = {Mint} /\ SumOf(g) = Reward
    BY <1>1, CoinsSum
  <2>2. QED
    BY <1>1, <2>1
<1> HIDE DEF f, g
<1>4. b \in [Addresses -> Int] /\ SumOf(b) = SumOf(s.balance) + SumOf(f)
      /\ SumOf(s.balance) \in Int /\ SumOf(b) \in Int
  <2> HIDE DEF b
  <2>1. b = Increase(s.balance, f)
    BY DEF b
  <2>2. QED
    BY <1>1, <1>2, <2>1, SumIncreased
<1> HIDE DEF b
<1>5. SumOf(d) = SumOf(b) - SumOf(g)
  <2> HIDE DEF d
  <2>1. d = Decrease(b, g)
    BY DEF d
  <2>2. QED
    BY <1>3, <1>4, <2>1, SumDecreased
<1>6. SumOf(u.balance) = SumOf(s.balance) + FeesIn(n)
  BY SMTT(60), <1>1, <1>2, <1>3, <1>4, <1>5
<1>7. SumOf(GenesisState.balance) \in Int
  <2>1. GenesisState.balance \in [Addresses -> Int] /\ IsFiniteSet(Addresses)
    BY GenesisGood, AddressesFinite DEF Good, IsShape
  <2>2. QED
    BY <2>1, SumFacts DEF SumOf
<1>8. SumOf(s.balance) = SumOf(GenesisState.balance)
  BY <1>7 DEF SupplyFollows
<1>9. QED
  BY <1>6, <1>8, PendingFacts DEF SupplyFollows

LEMMA SupplyGrows ==
  ASSUME ChainLinked, NEW n \in 1 .. Len(chain), NEW k \in 1 .. Size(n),
         NEW u, NEW s, NEW x, NEW t, NEW P, TxStep(u, s, n, k, x, t, P), t = TxAt(n, k),
         SupplyFollows(s, n, k - 1)
  PROVE  SupplyFollows(u, n, k)
<1>1. SumOf(u.balance) = SumOf(s.balance) - Tx[t].fee /\ Tx[t].fee \in Int
      /\ SumOf(s.balance) \in Int
  <2>1. Spending(u, s, t) /\ Tx[t].fee \in Int
    BY AllSpending, TxFacts DEF TxStep
  <2>2. s.balance \in [Addresses -> Int] /\ IsFiniteSet(Addresses)
    BY AddressesFinite DEF TxStep, IsShape
  <2>3. SumOf(s.balance) \in Int
    BY <2>2, SumFacts DEF SumOf
  <2>4. QED
    BY <2>1, <2>3 DEF Spending, Paying, Charging, Executing
<1>2. SumOf(GenesisState.balance) \in Int
  <2>1. GenesisState.balance \in [Addresses -> Int] /\ IsFiniteSet(Addresses)
    BY GenesisGood, AddressesFinite DEF Good, IsShape
  <2>2. QED
    BY <2>1, SumFacts DEF SumOf
<1>3. Pending(n, k - 1) = Tx[t].fee + Pending(n, k) /\ Pending(n, k) \in Int
  BY PendingFacts
<1>4. QED
  BY SMTT(60), <1>1, <1>2, <1>3 DEF SupplyFollows

-----------------------------------------------------------------------------
(* Wallets                                                                  *)

Payers == OfKind("transfer") \cup Spends

OutOf(w, E) == SumOf([p \in {q \in E : Tx[q].wallet = w} |-> Total(p)])

LEMMA PaidType ==
  ASSUME NEW w, NEW T \in SUBSET Payers, IsFiniteSet(T)
  PROVE  PaidTo(w, T) \in Int /\ (T \subseteq Spends => OutOf(w, T) \in Int)
<1> DEFINE A == {i \in T : w \in Payees(i)}
           f == [i \in A |-> Tx[i].pays[w]]
           B == {i \in T : Tx[i].wallet = w}
           g == [i \in B |-> Total(i)]
<1>1. IsFiniteSet(A) /\ IsFiniteSet(B)
  BY FS_Subset
<1>2. f \in [A -> Int]
  BY PaysFacts DEF Payers
<1>3. T \subseteq Spends => g \in [B -> Int]
  BY PaysFacts DEF Total
<1> HIDE DEF f, g, A, B
<1>4. SumFunction(f) \in Int /\ (T \subseteq Spends => SumFunction(g) \in Int)
  BY <1>1, <1>2, <1>3, SumFacts
<1>5. QED
  BY <1>4 DEF PaidTo, OutOf, SumOf, f, g, A, B

LEMMA PaidMore ==
  ASSUME NEW w, NEW T \in SUBSET Payers, IsFiniteSet(T), NEW t \in Payers, t \notin T,
         NEW U, U = T \cup {t}
  PROVE  /\ PaidTo(w, U) = PaidTo(w, T) + Part(Tx[t].pays, w)
         /\ PaidTo(w, T) \in Int /\ Part(Tx[t].pays, w) \in Int
<1> DEFINE paying(V) == {i \in V : w \in Payees(i)}
           pay(V) == [i \in paying(V) |-> Tx[i].pays[w]]
<1>1. \A i \in Payers : w \in Payees(i) => Tx[i].pays[w] \in Int
  BY PaysFacts DEF Payers
<1>2. PICK A : A = paying(T)
  OBVIOUS
<1>3. PICK f : f = pay(T)
  OBVIOUS
<1>4. PICK g : g = pay(U)
  OBVIOUS
<1>5. PaidTo(w, T) = SumOf(f) /\ PaidTo(w, U) = SumOf(g)
  BY <1>3, <1>4 DEF PaidTo
<1>6. IsFiniteSet(A) /\ t \notin A /\ f \in [A -> Int]
  <2>1. A \subseteq T /\ t \notin A
    BY <1>2
  <2>2. f \in [A -> Int]
    BY <1>1, <1>2, <1>3
  <2>3. QED
    BY <2>1, <2>2, FS_Subset
<1>7. SumOf(f) \in Int
  BY <1>6, SumFacts DEF SumOf
<1>8. CASE w \in Payees(t)
  <2>1. paying(U) = A \cup {t}
    BY <1>2, <1>8
  <2>2. g \in [A \cup {t} -> Int] /\ g[t] = Tx[t].pays[w] /\ \A i \in A : f[i] = g[i]
    BY <1>1, <1>2, <1>3, <1>4, <2>1
  <2>3. OneMore(g, A, t, f)
    BY <1>6, <2>2 DEF OneMore
  <2>4. SumOf(g) = g[t] + SumOf(f) /\ g[t] \in Int
    BY <2>3, SumOneMore
  <2>5. Part(Tx[t].pays, w) = g[t]
    BY <1>8, <2>2 DEF Part, Payees
  <2>6. QED
    BY <1>5, <1>7, <2>4, <2>5
<1>9. CASE w \notin Payees(t)
  <2>1. paying(U) = paying(T)
    BY <1>9
  <2>2. f = g
    BY <1>3, <1>4, <2>1
  <2>3. Part(Tx[t].pays, w) = 0
    BY <1>9 DEF Part, Payees
  <2>4. QED
    BY <1>5, <1>7, <2>2, <2>3
<1>10. QED
  BY <1>8, <1>9

LEMMA OutMore ==
  ASSUME NEW w, NEW T \in SUBSET Spends, IsFiniteSet(T), NEW t \in Spends, t \notin T,
         NEW U, U = T \cup {t}
  PROVE  /\ OutOf(w, U) = OutOf(w, T) + (IF Tx[t].wallet = w THEN Total(t) ELSE 0)
         /\ OutOf(w, T) \in Int /\ Total(t) \in Int
<1> DEFINE from(V) == {i \in V : Tx[i].wallet = w}
           out(V) == [i \in from(V) |-> Total(i)]
<1>1. \A i \in Spends : Total(i) \in Int
  BY PaysFacts DEF Total
<1>2. PICK A : A = from(T)
  OBVIOUS
<1>3. PICK f : f = out(T)
  OBVIOUS
<1>4. PICK g : g = out(U)
  OBVIOUS
<1>5. OutOf(w, T) = SumOf(f) /\ OutOf(w, U) = SumOf(g)
  BY <1>3, <1>4 DEF OutOf
<1>6. IsFiniteSet(A) /\ t \notin A /\ f \in [A -> Int]
  <2>1. A \subseteq T /\ t \notin A
    BY <1>2
  <2>2. f \in [A -> Int]
    BY <1>1, <1>2, <1>3
  <2>3. QED
    BY <2>1, <2>2, FS_Subset
<1>7. SumOf(f) \in Int
  BY <1>6, SumFacts DEF SumOf
<1>8. CASE Tx[t].wallet = w
  <2>1. from(U) = A \cup {t}
    BY <1>2, <1>8
  <2>2. g \in [A \cup {t} -> Int] /\ g[t] = Total(t) /\ \A i \in A : f[i] = g[i]
    BY <1>1, <1>2, <1>3, <1>4, <2>1
  <2>3. OneMore(g, A, t, f)
    BY <1>6, <2>2 DEF OneMore
  <2>4. SumOf(g) = g[t] + SumOf(f) /\ g[t] \in Int
    BY <2>3, SumOneMore
  <2>5. QED
    BY <1>5, <1>7, <1>8, <2>2, <2>4
<1>9. CASE Tx[t].wallet # w
  <2>1. from(U) = from(T)
    BY <1>9
  <2>2. f = g
    BY <1>3, <1>4, <2>1
  <2>3. QED
    BY <1>1, <1>5, <1>7, <1>9, <2>2
<1>10. QED
  BY <1>8, <1>9

LEMMA NonePaid ==
  ASSUME NEW w
  PROVE  PaidTo(w, {}) = 0 /\ OutOf(w, {}) = 0
<1> DEFINE A == {i \in {} : w \in Payees(i)}
           f == [i \in A |-> Tx[i].pays[w]]
           B == {i \in {} : Tx[i].wallet = w}
           g == [i \in B |-> Total(i)]
<1>1. A = {} /\ B = {} /\ IsFiniteSet({})
  BY FS_EmptySet
<1>2. f \in [{} -> Int] /\ g \in [{} -> Int]
  BY <1>1
<1> HIDE DEF f, g
<1>3. SumFunction(f) = 0 /\ SumFunction(g) = 0
  BY <1>1, <1>2, SumFacts
<1>4. QED
  BY <1>3 DEF PaidTo, OutOf, SumOf, f, g

Transfers(P) == OfKind("transfer") \cap Sent(P)

(* What wallet w holds when T are the transfers and E the spends executed.  *)
Held(w, T, E) == PaidTo(w, T) + PaidTo(w, E) - OutOf(w, E)

BackedFollows(s, P) ==
  /\ IsFiniteSet(Transfers(P)) /\ IsFiniteSet(Executed(s))
  /\ \A w \in Wallets : s.balance[w] = Held(w, Transfers(P), Executed(s))

(* A transaction that signs with an unused key is not in the chain yet.     *)
LEMMA NotYetSent ==
  ASSUME NEW u, NEW s, NEW n, NEW k, NEW x, NEW t, NEW P, TxStep(u, s, n, k, x, t, P),
         KeysFollow(s, P)
  PROVE  t \notin Sent(P) /\ Sent(Done(n, k)) = Sent(P) \cup {t} /\ t \in Ordinary
<1>1. t \in Ordinary /\ Signer(t) \in Accounts /\ KeyUnused(s, t)
      /\ At(x) = t /\ Done(n, k) = P \cup {x}
  BY TxFacts DEF TxStep
<1>2. Numbered(s, Signer(t), SignedBy(P, Signer(t)))
  BY <1>1 DEF KeysFollow
<1>3. t \notin SignedBy(P, Signer(t))
  BY <1>1, <1>2 DEF Numbered, KeyUnused
<1>4. QED
  BY <1>1, <1>3 DEF SignedBy, Sent

LEMMA BackedGrows ==
  ASSUME NEW u, NEW s, NEW n, NEW k, NEW x, NEW t, NEW P, TxStep(u, s, n, k, x, t, P),
         KeysFollow(s, P), BackedFollows(s, P)
  PROVE  BackedFollows(u, Done(n, k))
<1> DEFINE T == Transfers(P)
           E == Executed(s)
           U == Transfers(Done(n, k))
           D == Executed(u)
<1>1. t \notin Sent(P) /\ Sent(Done(n, k)) = Sent(P) \cup {t} /\ t \in Ordinary
  BY NotYetSent
<1>2. Spending(u, s, t) /\ s.balance \in [Addresses -> Int]
  BY <1>1, AllSpending DEF TxStep, IsShape
<1>3. /\ IsFiniteSet(T) /\ T \in SUBSET Payers /\ t \notin T
      /\ IsFiniteSet(E) /\ E \in SUBSET Payers /\ E \in SUBSET Spends
      /\ \A w \in Wallets : s.balance[w] = Held(w, T, E)
  BY <1>1 DEF BackedFollows, Transfers, Payers, Executed
<1>4. \A w \in Wallets : w \in Addresses /\ w # From(t) /\ s.balance[w] \in Int
  BY <1>1, <1>2, TxFacts, AddressAssumption DEF Addresses
<1>5. U = IF t \in OfKind("transfer") THEN T \cup {t} ELSE T
  BY <1>1 DEF Transfers
<1> HIDE DEF T, E, U, D
<1>6. CASE Paying(u.balance, s.balance, t) /\ D = E
  <2>1. t \in OfKind("transfer") /\ t \in Payers /\ U = T \cup {t}
    BY <1>5, <1>6 DEF Paying, Payers
  <2>2. IsFiniteSet(U)
    BY <1>3, <2>1, FS_AddElement
  <2>3. ASSUME NEW w \in Wallets
        PROVE  u.balance[w] = Held(w, U, D)
    <3>1. /\ PaidTo(w, U) = PaidTo(w, T) + Part(Tx[t].pays, w)
          /\ PaidTo(w, T) \in Int /\ Part(Tx[t].pays, w) \in Int
      BY <1>3, <2>1, PaidMore
    <3>2. u.balance[w] = s.balance[w] + Part(Tx[t].pays, w)
      BY <1>4, <1>6, <3>1 DEF Paying
    <3>3. s.balance[w] = PaidTo(w, T) + PaidTo(w, E) - OutOf(w, E)
      BY <1>3 DEF Held
    <3>4. PaidTo(w, E) \in Int /\ OutOf(w, E) \in Int
      BY <1>3, PaidType
    <3>5. QED
      BY <1>6, <3>1, <3>2, <3>3, <3>4 DEF Held
  <2>4. QED
    BY <1>3, <1>6, <2>2, <2>3 DEF BackedFollows, U, D
<1>7. CASE Charging(u.balance, s.balance, t) /\ D = E
  <2>1. U = T
    BY <1>5, <1>7 DEF Charging
  <2>2. \A w \in Wallets : u.balance[w] = s.balance[w]
    BY <1>4, <1>7 DEF Charging
  <2>3. QED
    BY <1>3, <1>7, <2>1, <2>2 DEF BackedFollows, U, D
<1>8. CASE /\ Executing(u.balance, s.balance, t)
           /\ Tx[t].spend \in Spends \ E
           /\ D = E \cup {Tx[t].spend}
  <2> DEFINE p == Tx[t].spend
  <2>1. p \in Spends /\ p \in Payers /\ p \notin E /\ D = E \cup {p} /\ IsFiniteSet(D)
    BY <1>3, <1>8, FS_AddElement DEF Payers
  <2>2. U = T
    BY <1>5, <1>8 DEF Executing, OfKind
  <2>3. \A w \in Wallets : u.balance[w] = s.balance[w] - (IF w = Tx[p].wallet THEN Total(p) ELSE 0)
                                            + Part(Tx[p].pays, w)
    BY <1>4, <1>8 DEF Executing
  <2> HIDE DEF p
  <2>4. ASSUME NEW w \in Wallets
        PROVE  u.balance[w] = Held(w, U, D)
    <3>1. /\ PaidTo(w, D) = PaidTo(w, E) + Part(Tx[p].pays, w)
          /\ PaidTo(w, E) \in Int /\ Part(Tx[p].pays, w) \in Int
      BY <1>3, <2>1, PaidMore
    <3>2. /\ OutOf(w, D) = OutOf(w, E) + (IF Tx[p].wallet = w THEN Total(p) ELSE 0)
          /\ OutOf(w, E) \in Int /\ Total(p) \in Int
      BY <1>3, <2>1, OutMore
    <3>3. PaidTo(w, T) \in Int
      BY <1>3, PaidType
    <3>4. s.balance[w] = PaidTo(w, T) + PaidTo(w, E) - OutOf(w, E)
      BY <1>3 DEF Held
    <3>5. CASE Tx[p].wallet = w
      BY <2>2, <2>3, <3>1, <3>2, <3>3, <3>4, <3>5 DEF Held
    <3>6. CASE Tx[p].wallet # w
      BY <2>2, <2>3, <3>1, <3>2, <3>3, <3>4, <3>6 DEF Held
    <3>7. QED
      BY <3>5, <3>6
  <2>5. QED
    BY <1>3, <2>1, <2>2, <2>4 DEF BackedFollows, U, D
<1>9. QED
  BY <1>2, <1>6, <1>7, <1>8 DEF Spending, D, E

LEMMA BackedMinted ==
  ASSUME NEW u, NEW s, NEW n, NEW P, CoinbaseStep(u, s, n, P), BackedFollows(s, P)
  PROVE  BackedFollows(u, P)
<1> DEFINE c == Coinbase[n]
           f == Coins(Tx[c].to, Reward + FeesIn(n))
           g == Coins(Mint, Reward)
           b == Increase(s.balance, f)
           d == Decrease(b, g)
<1>1. /\ s.balance \in [Addresses -> Int] /\ u.balance = d /\ u.votes = s.votes
      /\ Tx[c].to \in Accounts
  BY ChainAssumption, TxAssumption
     DEF CoinbaseStep, CoinbaseDone, IsShape, SameRest, OfKind
<1>2. DOMAIN f = {Tx[c].to} /\ DOMAIN g = {Mint}
  BY DEF Coins
<1> HIDE DEF f, g
<1>3. ASSUME NEW w \in Wallets
      PROVE  u.balance[w] = s.balance[w]
  <2>1. w \in Addresses /\ w \notin DOMAIN f /\ w \notin DOMAIN g
    BY <1>1, <1>2, AddressAssumption DEF Addresses
  <2>2. b[w] = s.balance[w]
    BY <2>1 DEF Increase
  <2>3. QED
    BY <1>1, <2>1, <2>2 DEF Decrease
<1>4. Executed(u) = Executed(s)
  BY <1>1 DEF Executed
<1>5. QED
  BY <1>3, <1>4 DEF BackedFollows

LEMMA BackedStarts ==
  ASSUME NEW s, Same(s, GenesisState)
  PROVE  BackedFollows(s, {})
<1>1. Executed(s) = {} /\ Transfers({}) = {} /\ IsFiniteSet({})
  <2>1. \A p \in Spends : ~ s.votes[p].executed
    BY GenesisFields DEF NoVotes
  <2>2. QED
    BY <2>1, FS_EmptySet DEF Executed, Transfers, Sent
<1>2. \A w \in Wallets : s.balance[w] = 0
  BY GenesisFields DEF Addresses
<1>3. \A w : Held(w, {}, {}) = 0
  BY NonePaid DEF Held
<1>4. QED
  BY <1>1, <1>2, <1>3 DEF BackedFollows

-----------------------------------------------------------------------------
(* Tokens                                                                   *)

(* How often the list q names k.                                            *)
Naming(q, k) == Cardinality({i \in DOMAIN q : q[i] = k})

LEMMA NamingMore ==
  ASSUME NEW q \in Seq(Elements), NEW e \in Elements, NEW k
  PROVE  /\ Naming(Append(q, e), k) = Naming(q, k) + (IF e = k THEN 1 ELSE 0)
         /\ Naming(q, k) \in Int
<1> DEFINE r == Append(q, e)
           m == Len(q) + 1
           A == {i \in DOMAIN q : q[i] = k}
           B == {i \in DOMAIN r : r[i] = k}
<1>1. /\ Len(q) \in Nat /\ DOMAIN q = 1 .. Len(q) /\ DOMAIN r = 1 .. m
      /\ r[m] = e /\ \A i \in 1 .. Len(q) : r[i] = q[i]
  OBVIOUS
<1> HIDE DEF r
<1>2. IsFiniteSet(A) /\ m \notin A
  <2>1. IsFiniteSet(1 .. Len(q)) /\ A \subseteq 1 .. Len(q)
    BY <1>1, FS_Interval
  <2>2. QED
    BY <1>1, <2>1, FS_Subset
<1>3. B = IF e = k THEN A \cup {m} ELSE A
  <2>1. \A i : i \in 1 .. m <=> i \in 1 .. Len(q) \/ i = m
    BY <1>1
  <2>2. QED
    BY <1>1, <2>1
<1>5. Naming(q, k) = Cardinality(A) /\ Naming(r, k) = Cardinality(B)
  BY DEF Naming
<1> HIDE DEF A, B, m
<1>4. Cardinality(A) \in Nat /\ Cardinality(A \cup {m}) = Cardinality(A) + 1
  BY <1>2, FS_AddElement, FS_CardinalityType
<1>6. CASE e = k
  BY <1>3, <1>4, <1>5, <1>6 DEF r
<1>7. CASE e # k
  BY <1>3, <1>4, <1>5, <1>7 DEF r
<1>8. QED
  BY <1>6, <1>7

LEMMA NamesNothing ==
  ASSUME NEW k
  PROVE  Naming(<<>>, k) = 0
BY FS_EmptySet DEF Naming

(* The lists of tokens after t are told to the addresses of A as e.         *)
Telling(M, L, A, e) ==
  /\ M \in Lists
  /\ \A a \in Accounts : M["tokens"][a] = IF a \in A THEN Append(L["tokens"][a], e)
                                                     ELSE L["tokens"][a]

LEMMA TellOthers ==
  ASSUME NEW L \in Lists, NEW l \in Logs \ {"tokens"}, NEW B, NEW d \in Elements,
         NEW K, NEW A, NEW e, Telling(L, K, A, e), NEW M, M = Longer(L, l, B, d)
  PROVE  Telling(M, K, A, e)
<1>1. M \in Lists
  BY LongerType
<1>2. M["tokens"] = L["tokens"]
  BY DEF Longer, Lists, Logs
<1>3. QED
  BY <1>1, <1>2 DEF Telling

LEMMA TellNobody ==
  ASSUME NEW L \in Lists, NEW e
  PROVE  Telling(L, L, {}, e)
BY DEF Telling

LEMMA TellTokens ==
  ASSUME NEW K, NEW L \in Lists, NEW A, NEW e \in Elements, Telling(L, K, {}, e),
         NEW M, M = Longer(L, "tokens", A, e)
  PROVE  Telling(M, K, A, e)
<1>1. M \in Lists /\ "tokens" \in Logs
  BY LongerType DEF Logs
<1>2. \A a \in Addresses : M["tokens"][a] = IF a \in A THEN Append(L["tokens"][a], e)
                                                       ELSE L["tokens"][a]
  BY <1>1 DEF Longer, Lists
<1>3. QED
  BY <1>1, <1>2 DEF Telling, Addresses

Records(T, k) == [a \in Accounts |-> T[a][k].balance]

TokenFollows(s, P, k) ==
  /\ SumOf(Records(s.tokens, k)) = IF k \in Sent(P) THEN SumOf(Tx[k].pays) ELSE 0
  /\ \A a \in Accounts :
       Naming(s.log["tokens"][a], k) = IF s.tokens[a][k].origin # NoTx THEN 1 ELSE 0

TokensFollow(s, P) == \A k \in Tokens : TokenFollows(s, P, k)

(* A transaction that concerns no token.                                    *)
TokensLeft(u, s, t) ==
  u.tokens = s.tokens /\ t \notin Tokens /\ Telling(u.log, s.log, {}, t)

TokensStep(u, s, t) ==
  \/ TokensLeft(u, s, t)
  \/ /\ t \in Tokens /\ u.tokens = Made(s.tokens, t)
     /\ Telling(u.log, s.log, Payees(t), t)
  \/ LET k == Tx[t].token
         new == Holding(s.tokens, t, NoTx)
     IN  /\ t \in OfKind("transfer_token")
         /\ u.tokens = Named(Moved(s.tokens, t, 1), k, new, t)
         /\ Telling(u.log, s.log, new, k)

LEMMA Telling3 ==
  ASSUME NEW L \in Lists, NEW t \in Elements, NEW l \in Logs \ {"tokens"}, NEW e \in Elements,
         NEW A, NEW B, NEW D
  PROVE  Telling(Longer(Longer(Longer(L, "tx", A, t), l, B, e), "tx", D, t), L, {}, t)
<1> DEFINE L1 == Longer(L, "tx", A, t)
           L2 == Longer(L1, l, B, e)
           L3 == Longer(L2, "tx", D, t)
<1>1. "tx" \in Logs \ {"tokens"}
  BY DEF Logs
<1>2. Telling(L1, L, {}, t) /\ L1 \in Lists
  <2> HIDE DEF L1
  <2>1. Telling(L1, L, {}, t)
    BY <1>1, TellNobody, TellOthers DEF L1
  <2>2. QED
    BY <2>1 DEF Telling
<1> HIDE DEF L1
<1>3. Telling(L2, L, {}, t) /\ L2 \in Lists
  <2> HIDE DEF L2
  <2>1. L2 = Longer(L1, l, B, e)
    BY DEF L2
  <2>2. Telling(L2, L, {}, t)
    BY <1>2, <2>1, TellOthers
  <2>3. QED
    BY <2>2 DEF Telling
<1> HIDE DEF L2
<1>4. Telling(L3, L, {}, t)
  <2> HIDE DEF L3
  <2>1. L3 = Longer(L2, "tx", D, t)
    BY DEF L3
  <2>2. QED
    BY <1>1, <1>3, <2>1, TellOthers
<1>5. QED
  BY <1>4 DEF L1, L2, L3

LEMMA Telling4 ==
  ASSUME NEW L \in Lists, NEW t \in Elements, NEW l \in Logs, NEW e \in Elements,
         NEW m \in Logs \ {"tokens"}, NEW A, NEW B, NEW C, NEW D, NEW d \in Elements,
         NEW S, l = "tokens" => S = B, l # "tokens" => S = {}
  PROVE  Telling(Longer(Longer(Longer(Longer(L, "tx", A, t), l, B, e), m, C, d), "tx", D, t),
                 L, S, e)
<1> DEFINE L1 == Longer(L, "tx", A, t)
           L2 == Longer(L1, l, B, e)
           L3 == Longer(L2, m, C, d)
           L4 == Longer(L3, "tx", D, t)
<1>1. "tx" \in Logs \ {"tokens"}
  BY DEF Logs
<1>2. Telling(L1, L, {}, e) /\ L1 \in Lists
  <2> HIDE DEF L1
  <2>1. L1 = Longer(L, "tx", A, t)
    BY DEF L1
  <2>2. Telling(L, L, {}, e)
    BY TellNobody
  <2>3. Telling(L1, L, {}, e)
    BY <1>1, <2>1, <2>2, TellOthers
  <2>4. QED
    BY <2>3 DEF Telling
<1> HIDE DEF L1
<1>3. Telling(L2, L, S, e) /\ L2 \in Lists
  <2> HIDE DEF L2
  <2>1. L2 = Longer(L1, l, B, e)
    BY DEF L2
  <2>2. CASE l = "tokens"
    <3>1. L2 = Longer(L1, "tokens", B, e) /\ S = B
      BY <2>1, <2>2
    <3>2. Telling(L2, L, S, e)
      BY <1>2, <3>1, TellTokens
    <3>3. QED
      BY <3>2 DEF Telling
  <2>3. CASE l # "tokens"
    <3>1. Telling(L2, L, {}, e)
      BY <1>2, <2>1, <2>3, TellOthers
    <3>2. QED
      BY <2>3, <3>1 DEF Telling
  <2>4. QED
    BY <2>2, <2>3
<1> HIDE DEF L2
<1>4. Telling(L3, L, S, e) /\ L3 \in Lists
  <2> HIDE DEF L3
  <2>1. L3 = Longer(L2, m, C, d)
    BY DEF L3
  <2>2. Telling(L3, L, S, e)
    BY <1>3, <2>1, TellOthers
  <2>3. QED
    BY <2>2 DEF Telling
<1> HIDE DEF L3
<1>5. Telling(L4, L, S, e)
  <2> HIDE DEF L4
  <2>1. L4 = Longer(L3, "tx", D, t)
    BY DEF L4
  <2>2. QED
    BY <1>1, <1>4, <2>1, TellOthers
<1>6. QED
  BY <1>5 DEF L1, L2, L3, L4

LEMMA TokenSteps ==
  ASSUME NEW s, Good(s), NEW t \in Ordinary, NEW n, NEW u, Effect(u, s, t, n)
  PROVE  TokensStep(u, s, t)
<1>1. /\ s.log \in Lists /\ t \in Elements /\ t \in Txs
      /\ "tokens" \in Logs
      /\ \A l \in {"tx", "inbox", "lattice", "slaves", "wallets", "spends"} :
           l \in Logs \ {"tokens"}
  BY TxFacts DEF Good, IsShape, Logs
<1>2. CASE TransferDone(u, s, t)
  <2>1. Telling(u.log, s.log, {}, t)
    BY <1>1, <1>2, Telling3 DEF TransferDone
  <2>2. t \notin Tokens
    BY <1>2 DEF TransferDone, Tokens, OfKind
  <2>3. QED
    BY <1>2, <2>1, <2>2 DEF TransferDone, TokensStep, TokensLeft
<1>3. CASE MessageDone(u, s, t)
  <2> DEFINE o == OthersIn(t, Tx[t].to)
  <2>1. Telling(Longer(Longer(Longer(Longer(s.log, "tx", {From(t)}, t), "tx", o, t),
                              "inbox", o, t), "tx", OnlySigner(t), t), s.log, {}, t)
    BY <1>1, Telling4
  <2>2. t \notin Tokens
    BY <1>3 DEF MessageDone, Tokens, OfKind
  <2>3. QED
    BY <1>3, <2>1, <2>2 DEF MessageDone, TokensStep, TokensLeft
<1>4. ASSUME NEW l \in {"lattice", "slaves"}, t \notin Tokens, NotedDone(u, s, t, l)
      PROVE  TokensStep(u, s, t)
  <2>1. Telling(u.log, s.log, {}, t)
    BY <1>1, <1>4, Telling3 DEF NotedDone
  <2>2. QED
    BY <1>4, <2>1 DEF NotedDone, TokensStep, TokensLeft
<1>5. CASE TokenDone(u, s, t)
  <2> DEFINE A == TokenParties(t)
             B == Payees(t)
             L1 == Longer(s.log, "tx", A, t)
             L2 == Longer(L1, "tokens", B, t)
  <2>1. u.log = L2
    BY <1>5 DEF TokenDone
  <2> HIDE DEF A, B
  <2>2. Telling(L1, s.log, {}, t) /\ L1 \in Lists
    <3> HIDE DEF L1
    <3>1. L1 = Longer(s.log, "tx", A, t)
      BY DEF L1
    <3>2. Telling(s.log, s.log, {}, t)
      BY <1>1, TellNobody
    <3>3. Telling(L1, s.log, {}, t)
      BY <1>1, <3>1, <3>2, TellOthers
    <3>4. QED
      BY <3>3 DEF Telling
  <2> HIDE DEF L1
  <2>3. Telling(L2, s.log, B, t)
    <3> HIDE DEF L2
    <3>1. L2 = Longer(L1, "tokens", B, t)
      BY DEF L2
    <3>2. QED
      BY <1>1, <2>2, <3>1, TellTokens
  <2>4. QED
    BY <1>5, <2>1, <2>3 DEF TokenDone, TokensStep, B
<1>6. CASE TransferTokenDone(u, s, t)
  <2> DEFINE k == Tx[t].token
             new == Holding(s.tokens, t, NoTx)
  <2>1. k \in Elements
    BY <1>6, FormAssumption DEF TransferTokenDone, Tokens, OfKind, Elements
  <2>2. u.log = Longer(Longer(Longer(Longer(s.log, "tx", {From(t)}, t), "tokens", new, k),
                              "tx", Payees(t) \ {From(t)}, t), "tx", OnlySigner(t), t)
    BY <1>6 DEF TransferTokenDone
  <2> HIDE DEF k, new
  <2>3. Telling(u.log, s.log, new, k)
    BY <1>1, <2>1, <2>2, Telling4
  <2>4. QED
    BY <1>6, <2>3 DEF TransferTokenDone, TokensStep, k, new
<1>7. CASE CreateDone(u, s, t)
  <2> DEFINE w == Tx[t].wallet
             A == {w} \cup OthersIn(t, Signatories(t))
             B == Signatories(t)
             L == Longer(Longer(Longer(Longer(s.log, "tx", {From(t)}, t), "tx", A, t),
                                "wallets", B, w), "tx", OnlySigner(t), t)
  <2>1. w \in Elements /\ t \notin Tokens
    BY <1>7, FormAssumption DEF CreateDone, Elements, Creations, Tokens, OfKind
  <2>2. u.log = L
    BY <1>7 DEF CreateDone
  <2> HIDE DEF w, A, B
  <2>3. Telling(L, s.log, {}, t)
    BY <1>1, <2>1, Telling4
  <2>4. QED
    BY <1>7, <2>1, <2>2, <2>3 DEF CreateDone, TokensStep, TokensLeft
<1>8. CASE SpendDone(u, s, t)
  <2> DEFINE w == Tx[t].wallet
             A == Signatories(Creation(t)) \cup {w}
             L == Longer(Longer(Longer(Longer(s.log, "tx", {From(t)}, t), "spends", A, t),
                                "tx", {w}, t), "tx", OnlySigner(t), t)
  <2>1. t \notin Tokens
    BY <1>8 DEF SpendDone, Spends, Tokens, OfKind
  <2>2. u.log = L
    BY <1>8 DEF SpendDone
  <2> HIDE DEF w, A
  <2>3. Telling(L, s.log, {}, t)
    BY <1>1, Telling4
  <2>4. QED
    BY <1>8, <2>1, <2>2, <2>3 DEF SpendDone, TokensStep, TokensLeft
<1>9. CASE VoteCast(u, s, t, n)
  <2> DEFINE p == Tx[t].spend
  <2>1. p \in Elements /\ t \notin Tokens
    BY <1>9, VoteFacts, TxFacts DEF VoteCast, Tokens, OfKind, Elements, Spends
  <2>2. VoteDone(u, s, t, n)
    BY <1>9 DEF VoteCast
  <2>3. Telling(u.log, s.log, {}, t)
    <3>1. CASE Executes(s, t, n)
      <4>1. u.log = Longer(Longer(Longer(s.log, "tx", {From(t)}, t),
                                  "tx", OthersIn(p, Payees(p)), p),
                           "tx", OnlySigner(t), t)
        BY <2>2, <3>1 DEF VoteDone
      <4>2. QED
        BY <1>1, <2>1, <4>1, Telling3
    <3>2. CASE ~ Executes(s, t, n)
      <4> DEFINE K == Longer(s.log, "tx", {From(t)}, t)
                 L == Longer(K, "tx", {}, t)
      <4>1. u.log = Longer(K, "tx", OnlySigner(t), t)
        BY <2>2, <3>2 DEF VoteDone
      <4>2. K \in Lists
        BY <1>1, LongerType
      <4>3. L = K
        <5> HIDE DEF K
        <5>1. QED
          BY <4>2 DEF Longer, Lists
      <4>4. Telling(Longer(L, "tx", OnlySigner(t), t), s.log, {}, t)
        BY <1>1, Telling3
      <4>5. QED
        BY <4>1, <4>3, <4>4
    <3>3. QED
      BY <3>1, <3>2
  <2>4. QED
    BY <2>1, <2>2, <2>3 DEF VoteDone, TokensStep, TokensLeft
<1>10. CASE t \in OfKind("lattice") /\ NotedDone(u, s, t, "lattice")
  <2>1. t \notin Tokens
    BY <1>10 DEF Tokens, OfKind
  <2>2. QED
    BY <1>4, <1>10, <2>1
<1>11. CASE t \in OfKind("slave") /\ NotedDone(u, s, t, "slaves")
  <2>1. t \notin Tokens
    BY <1>11 DEF Tokens, OfKind
  <2>2. QED
    BY <1>4, <1>11, <2>1
<1>12. QED
  BY <1>2, <1>3, <1>5, <1>6, <1>7, <1>8, <1>9, <1>10, <1>11 DEF Effect

TokenTables == [Accounts -> [Tokens -> TokenStates]]

LEMMA MadeTokens ==
  ASSUME NEW T \in TokenTables, NEW t \in Tokens, NEW M, M = Made(T, t)
  PROVE  /\ M \in TokenTables
         /\ \A a \in Accounts : \A k \in Tokens :
              M[a][k] = IF k = t /\ a \in Payees(t) THEN [balance |-> Tx[t].pays[a], origin |-> t]
                                                     ELSE T[a][k]
<1>1. Tx[t].pays \in [Payees(t) -> Int] /\ t \in Txs \cup {NoTx}
  BY PaysFacts DEF Tokens, OfKind
<1>2. \A a \in Payees(t) : [balance |-> Tx[t].pays[a], origin |-> t] \in TokenStates
  BY <1>1 DEF TokenStates
<1>3. QED
  BY <1>2 DEF Made, TokenTables

(* a's part of what t moves of its token.                                   *)
Gain(t, a) == Part(Tx[t].pays, a) - (IF a = From(t) THEN SumOf(Tx[t].pays) ELSE 0)

TokensMoved(M, T, t, A, k) ==
  /\ M \in TokenTables
  /\ \A a \in Accounts : \A j \in Tokens \ {k} : M[a][j] = T[a][j]
  /\ \A a \in Accounts : /\ M[a][k].balance = T[a][k].balance + Gain(t, a)
                         /\ M[a][k].origin = IF a \in A THEN t ELSE T[a][k].origin

LEMMA MovedTokens ==
  ASSUME NEW T \in TokenTables, NEW t \in OfKind("transfer_token"), NEW A,
         NEW k, k = Tx[t].token, NEW M, M = Named(Moved(T, t, 1), k, A, t)
  PROVE  TokensMoved(M, T, t, A, k)
<1> DEFINE N == Moved(T, t, 1)
<1>1. /\ k \in Tokens /\ t \in Txs \cup {NoTx}
      /\ Tx[t].pays \in [Payees(t) -> Int] /\ SumOf(Tx[t].pays) \in Int
  BY PaysFacts, FormAssumption DEF OfKind
<1>2. ASSUME NEW a \in Accounts
      PROVE  /\ N[a] \in [Tokens -> TokenStates]
             /\ \A j \in Tokens \ {k} : N[a][j] = T[a][j]
             /\ N[a][k].balance = T[a][k].balance + Gain(t, a)
             /\ N[a][k].origin = T[a][k].origin
  <2> DEFINE f == T[a]
             x == f[k].balance + (IF a \in Payees(t) THEN 1 * Tx[t].pays[a] ELSE 0)
                    - (IF a = From(t) THEN 1 * SumOf(Tx[t].pays) ELSE 0)
             y == [f[k] EXCEPT !.balance = x]
  <2>1. f \in [Tokens -> TokenStates] /\ f[k] \in TokenStates /\ f[k].balance \in Int
    BY <1>1 DEF TokenTables, TokenStates
  <2>2. x \in Int /\ x = f[k].balance + Gain(t, a)
    BY <1>1, <2>1 DEF Gain, Part, Payees
  <2>3. N[a] = [f EXCEPT ![k] = y]
    BY <1>1 DEF Moved
  <2> HIDE DEF x, f, N
  <2>4. y \in TokenStates /\ y.balance = x /\ y.origin = f[k].origin
    BY <2>1, <2>2 DEF TokenStates
  <2> HIDE DEF y
  <2>5. QED
    BY <1>1, <2>1, <2>2, <2>3, <2>4 DEF f
<1> HIDE DEF N
<1>3. ASSUME NEW a \in Accounts
      PROVE  /\ M[a] \in [Tokens -> TokenStates]
             /\ \A j \in Tokens \ {k} : M[a][j] = N[a][j]
             /\ M[a][k].balance = N[a][k].balance
             /\ M[a][k].origin = IF a \in A THEN t ELSE N[a][k].origin
  <2> DEFINE f == N[a]
             y == [f[k] EXCEPT !.origin = t]
  <2>1. f \in [Tokens -> TokenStates] /\ f[k] \in TokenStates
    BY <1>1, <1>2
  <2>2. M[a] = IF a \in A THEN [f EXCEPT ![k] = y] ELSE f
    BY DEF Named, N
  <2> HIDE DEF f
  <2>3. y \in TokenStates /\ y.balance = f[k].balance /\ y.origin = t
    BY <1>1, <2>1 DEF TokenStates
  <2> HIDE DEF y
  <2>4. CASE a \in A
    BY <1>1, <2>1, <2>2, <2>3, <2>4 DEF f
  <2>5. CASE a \notin A
    BY <1>1, <2>1, <2>2, <2>5 DEF f
  <2>6. QED
    BY <2>4, <2>5
<1>4. M \in TokenTables
  <2>1. M = [a \in Accounts |-> M[a]]
    BY DEF Named
  <2>2. QED
    BY <1>3, <2>1 DEF TokenTables
<1>5. QED
  BY <1>2, <1>3, <1>4 DEF TokensMoved

(* What a transfer of tokens moves adds up to nothing.                      *)
LEMMA GainsCancel ==
  ASSUME NEW f \in [Accounts -> Int], NEW t \in OfKind("transfer_token"), From(t) \in Accounts,
         NEW g \in [Accounts -> Int], \A a \in Accounts : g[a] = f[a] + Gain(t, a)
  PROVE  SumOf(g) = SumOf(f)
<1> DEFINE q == Tx[t].pays
           D == Payees(t)
           x == SumOf(q)
           c == Coins(From(t), x)
           h == [a \in Accounts |-> f[a] + Part(q, a)]
<1>1. q \in [D -> Int] /\ x \in Int /\ D \subseteq Accounts /\ D = DOMAIN q
      /\ IsFiniteSet(Accounts)
  BY PaysFacts, FormAssumption, AddressesFinite DEF Payees
<1>2. DOMAIN c = {From(t)} /\ SumOf(c) = x /\ c \in [{From(t)} -> Int] /\ c[From(t)] = x
  <2> HIDE DEF x
  <2>1. DOMAIN c = {From(t)} /\ SumOf(c) = x
    BY <1>1, CoinsSum
  <2>2. QED
    BY <1>1, <2>1 DEF Coins
<1> HIDE DEF c
<1>3. \A a : Part(q, a) \in Int
  BY <1>1 DEF Part
<1>4. h \in [Accounts -> Int] /\ \A a \in Accounts : h[a] = f[a] + Part(q, a)
  BY <1>3
<1> HIDE DEF q, D, h
<1>5. More(f, Accounts, q, D, h)
  BY <1>1, <1>4 DEF More
<1>6. \A a \in Accounts : Part(c, a) = IF a = From(t) THEN x ELSE 0
  BY <1>2 DEF Part
<1> HIDE DEF x
<1>7. \A a \in Accounts : h[a] = g[a] + Part(c, a)
  <2>1. \A a \in Accounts : g[a] = f[a] + (Part(q, a) - (IF a = From(t) THEN x ELSE 0))
    BY DEF Gain, q, x
  <2>2. QED
    BY <1>1, <1>3, <1>4, <1>6, <2>1
<1>8. More(g, Accounts, c, {From(t)}, h)
  BY <1>1, <1>2, <1>4, <1>7 DEF More
<1>9. /\ SumFunction(h) = SumFunction(f) + SumFunction(q)
      /\ SumFunction(h) = SumFunction(g) + SumFunction(c)
      /\ SumFunction(f) \in Int /\ SumFunction(q) \in Int /\ SumFunction(g) \in Int
  BY <1>5, <1>8, SumMore
<1>10. x = SumFunction(q) /\ SumOf(c) = SumFunction(c)
  BY DEF x, SumOf
<1>11. SumFunction(c) = SumFunction(q)
  BY <1>2, <1>10
<1>12. SumFunction(g) = SumFunction(f)
  <2>1. PICK i : i = SumFunction(g)
    OBVIOUS
  <2>2. PICK j : j = SumFunction(f)
    OBVIOUS
  <2>3. PICK d : d = SumFunction(q)
    OBVIOUS
  <2>4. i + d = j + d
    BY <1>9, <1>11, <2>1, <2>2, <2>3
  <2>5. i \in Int /\ j \in Int /\ d \in Int
    BY <1>9, <2>1, <2>2, <2>3
  <2>6. i = j
    BY <2>4, <2>5
  <2>7. QED
    BY <2>1, <2>2, <2>6
<1>13. QED
  BY <1>12 DEF SumOf

LEMMA TokensGrow ==
  ASSUME NEW u, NEW s, NEW n, NEW k, NEW x, NEW t, NEW P, TxStep(u, s, n, k, x, t, P),
         KeysFollow(s, P), TokensFollow(s, P)
  PROVE  TokensFollow(u, Done(n, k))
<1> DEFINE Q == Done(n, k)
           T == s.tokens
           U == u.tokens
<1>1. t \notin Sent(P) /\ Sent(Q) = Sent(P) \cup {t} /\ t \in Ordinary
  BY NotYetSent
<1>2. TokensStep(u, s, t)
  BY <1>1, TokenSteps DEF TxStep
<1>3. /\ T \in TokenTables /\ s.log \in Lists /\ Untouched(s, t) /\ t # NoTx /\ t \in Elements
      /\ From(t) \in Accounts
  BY <1>1, TxFacts, TxAssumption DEF TxStep, Good, IsShape, TokenTables
<1>4. \A a \in Accounts : s.log["tokens"][a] \in Seq(Elements)
  BY <1>3 DEF Lists, Logs, Addresses
<1> HIDE DEF Q, T, U
<1>5. \A j \in Tokens : TokenFollows(s, P, j)
  BY DEF TokensFollow
<1>6. ASSUME NEW j \in Tokens, j # t, Records(U, j) = Records(T, j),
             \A a \in Accounts : /\ U[a][j].origin = T[a][j].origin
                                 /\ Naming(u.log["tokens"][a], j) = Naming(s.log["tokens"][a], j)
      PROVE  TokenFollows(u, Q, j)
  BY <1>1, <1>5, <1>6 DEF TokenFollows, T, U
<1>7. CASE TokensLeft(u, s, t)
  <2>1. U = T /\ t \notin Tokens /\ \A a \in Accounts : u.log["tokens"][a] = s.log["tokens"][a]
    BY <1>7 DEF TokensLeft, Telling, T, U
  <2>2. ASSUME NEW j \in Tokens
        PROVE  TokenFollows(u, Q, j)
    BY <1>6, <2>1
  <2>3. QED
    BY <2>2 DEF TokensFollow, Q
<1>8. CASE /\ t \in Tokens /\ U = Made(T, t)
           /\ Telling(u.log, s.log, Payees(t), t)
  <2> DEFINE q == Tx[t].pays
             D == Payees(t)
             f == Records(T, t)
             g == Records(U, t)
  <2>1. /\ \A a \in Accounts : \A j \in Tokens :
             U[a][j] = IF j = t /\ a \in D THEN [balance |-> q[a], origin |-> t] ELSE T[a][j]
        /\ \A a \in Accounts :
             u.log["tokens"][a] = IF a \in D THEN Append(s.log["tokens"][a], t)
                                             ELSE s.log["tokens"][a]
    BY <1>3, <1>8, MadeTokens DEF Telling
  <2>2. q \in [D -> Int] /\ SumOf(q) \in Int /\ D \subseteq Accounts /\ D = DOMAIN q
        /\ IsFiniteSet(Accounts)
    BY <1>8, PaysFacts, FormAssumption, AddressesFinite DEF Payees
  <2> HIDE DEF q, D
  <2>3. ASSUME NEW j \in Tokens, j # t
        PROVE  TokenFollows(u, Q, j)
    <3>1. \A a \in Accounts : U[a][j] = T[a][j]
      BY <2>1, <2>3
    <3>2. \A a \in Accounts : Naming(u.log["tokens"][a], j) = Naming(s.log["tokens"][a], j)
      BY <1>3, <1>4, <2>1, <2>3, NamingMore
    <3>3. Records(U, j) = Records(T, j)
      BY <3>1 DEF Records
    <3>4. QED
      BY <1>6, <2>3, <3>1, <3>2, <3>3
  <2>4. TokenFollows(u, Q, t)
    <3>1. \A a \in Accounts : T[a][t] = NoToken
      BY <1>3, <1>8 DEF Untouched, T
    <3>2. \A a \in Accounts : /\ U[a][t].balance = Part(q, a)
                             /\ U[a][t].origin = IF a \in D THEN t ELSE NoTx
      <4>1. NoToken.balance = 0 /\ NoToken.origin = NoTx
        BY DEF NoToken
      <4>2. ASSUME NEW a \in Accounts
            PROVE  U[a][t].balance = Part(q, a) /\ U[a][t].origin = IF a \in D THEN t ELSE NoTx
        <5>1. U[a][t] = IF a \in D THEN [balance |-> q[a], origin |-> t] ELSE NoToken
          BY <1>8, <2>1, <3>1
        <5>2. QED
          BY <2>2, <4>1, <5>1 DEF Part
      <4>3. QED
        BY <4>2
    <3>3. f \in [Accounts -> Int] /\ g \in [Accounts -> Int]
          /\ \A a \in Accounts : f[a] = 0 /\ g[a] = Part(q, a)
      <4>1. \A a \in Accounts : Part(q, a) \in Int
        BY <2>2 DEF Part
      <4>2. QED
        BY <3>1, <3>2, <4>1 DEF Records, NoToken
    <3> HIDE DEF f, g
    <3>4. \A a \in Accounts : g[a] = f[a] + Part(q, a)
      BY <3>3
    <3>5. More(f, Accounts, q, D, g)
      BY <2>2, <3>3, <3>4 DEF More
    <3>6. SumFunction(g) = SumFunction(f) + SumFunction(q)
      BY <3>5, SumMore
    <3>7. SumFunction(f) = 0
      BY <1>1, <1>5, <1>8 DEF TokenFollows, SumOf, f, T
    <3>8. SumOf(g) = SumOf(q)
      BY <2>2, <3>6, <3>7 DEF SumOf
    <3>9. ASSUME NEW a \in Accounts
          PROVE  Naming(u.log["tokens"][a], t) = IF U[a][t].origin # NoTx THEN 1 ELSE 0
      <4>1. Naming(s.log["tokens"][a], t) = 0
        BY <1>5, <1>8, <3>1 DEF TokenFollows, NoToken, T
      <4>2. QED
        BY <1>3, <1>4, <2>1, <3>2, <4>1, NamingMore
    <3>10. t \in Sent(Q)
      BY <1>1
    <3>11. QED
      BY <3>8, <3>9, <3>10 DEF TokenFollows, U, g, q
  <2>5. QED
    BY <2>3, <2>4 DEF TokensFollow, Q
<1>9. CASE /\ t \in OfKind("transfer_token")
           /\ U = Named(Moved(T, t, 1), Tx[t].token, Holding(T, t, NoTx), t)
           /\ Telling(u.log, s.log, Holding(T, t, NoTx), Tx[t].token)
  <2> DEFINE i == Tx[t].token
             A == Holding(T, t, NoTx)
  <2>1. /\ \A a \in Accounts : \A j \in Tokens \ {i} : U[a][j] = T[a][j]
        /\ \A a \in Accounts : /\ U[a][i].balance = T[a][i].balance + Gain(t, a)
                               /\ U[a][i].origin = IF a \in A THEN t ELSE T[a][i].origin
        /\ \A a \in Accounts :
             u.log["tokens"][a] = IF a \in A THEN Append(s.log["tokens"][a], i)
                                             ELSE s.log["tokens"][a]
        /\ U \in TokenTables
    <3> HIDE DEF i, A
    <3>1. i = Tx[t].token /\ U = Named(Moved(T, t, 1), i, A, t)
      BY <1>9 DEF i, A
    <3>2. Telling(u.log, s.log, A, i)
      BY <1>9 DEF i, A
    <3>3. TokensMoved(U, T, t, A, i)
      BY <1>3, <1>9, <3>1, MovedTokens
    <3>4. QED
      BY <3>2, <3>3 DEF Telling, TokensMoved
  <2>2. i \in Tokens /\ t \notin Tokens /\ i \in Elements
    BY <1>9, FormAssumption DEF OfKind, Tokens, Elements
  <2>3. \A a \in A : T[a][i].origin = NoTx
    BY DEF Holding
  <2> HIDE DEF i, A
  <2>4. ASSUME NEW j \in Tokens, j # i
        PROVE  TokenFollows(u, Q, j)
    <3>1. \A a \in Accounts : U[a][j] = T[a][j]
      BY <2>1, <2>4
    <3>2. \A a \in Accounts : Naming(u.log["tokens"][a], j) = Naming(s.log["tokens"][a], j)
      BY <1>4, <2>1, <2>2, <2>4, NamingMore
    <3>3. Records(U, j) = Records(T, j)
      BY <3>1 DEF Records
    <3>4. j # t
      BY <2>2
    <3>5. QED
      BY <1>6, <3>1, <3>2, <3>3, <3>4
  <2>5. TokenFollows(u, Q, i)
    <3> DEFINE f == Records(T, i)
               g == Records(U, i)
    <3>1. f \in [Accounts -> Int] /\ g \in [Accounts -> Int]
          /\ \A a \in Accounts : g[a] = f[a] + Gain(t, a)
      BY <1>3, <2>1, <2>2 DEF Records, TokenTables, TokenStates
    <3> HIDE DEF f, g
    <3>2. SumOf(g) = SumOf(f)
      BY <1>3, <1>9, <3>1, GainsCancel
    <3>3. i \in Sent(Q) <=> i \in Sent(P)
      BY <1>1, <2>2
    <3>4. ASSUME NEW a \in Accounts
          PROVE  Naming(u.log["tokens"][a], i) = IF U[a][i].origin # NoTx THEN 1 ELSE 0
      <4>1. Naming(s.log["tokens"][a], i) = IF T[a][i].origin # NoTx THEN 1 ELSE 0
        BY <1>5, <2>2 DEF TokenFollows, T
      <4>2. CASE a \in A
        <5>1. Naming(s.log["tokens"][a], i) = 0
          BY <2>3, <4>1, <4>2
        <5>2. QED
          BY <1>3, <1>4, <2>1, <2>2, <4>2, <5>1, NamingMore
      <4>3. CASE a \notin A
        BY <2>1, <4>1, <4>3
      <4>4. QED
        BY <4>2, <4>3
    <3>5. SumOf(f) = IF i \in Sent(P) THEN SumOf(Tx[i].pays) ELSE 0
      BY <1>5, <2>2 DEF TokenFollows, f, T
    <3>6. QED
      BY <3>2, <3>3, <3>4, <3>5 DEF TokenFollows, U, g
  <2>6. QED
    BY <2>4, <2>5 DEF TokensFollow, Q
<1>10. QED
  BY <1>2, <1>7, <1>8, <1>9 DEF TokensStep, T, U

LEMMA TokensMinted ==
  ASSUME NEW u, NEW s, NEW n, NEW P, CoinbaseStep(u, s, n, P), TokensFollow(s, P)
  PROVE  TokensFollow(u, P)
<1> DEFINE c == Coinbase[n]
           A == {Tx[c].to}
           L1 == Longer(s.log, "tx", A, c)
           L2 == Longer(L1, "tx", {Mint}, c)
<1>1. /\ c \in Elements /\ s.log \in Lists /\ "tx" \in Logs \ {"tokens"}
      /\ u.log = L2 /\ u.tokens = s.tokens
  BY ChainAssumption
     DEF CoinbaseStep, CoinbaseDone, SameRest, IsShape, OfKind, Elements, Logs
<1> HIDE DEF A, c
<1>2. Telling(L1, s.log, {}, c) /\ L1 \in Lists
  <2> HIDE DEF L1
  <2>1. L1 = Longer(s.log, "tx", A, c)
    BY DEF L1
  <2>2. Telling(s.log, s.log, {}, c)
    BY <1>1, TellNobody
  <2>3. Telling(L1, s.log, {}, c)
    BY <1>1, <2>1, <2>2, TellOthers
  <2>4. QED
    BY <2>3 DEF Telling
<1> HIDE DEF L1
<1>3. Telling(L2, s.log, {}, c)
  <2> HIDE DEF L2
  <2>1. L2 = Longer(L1, "tx", {Mint}, c)
    BY DEF L2
  <2>2. QED
    BY <1>1, <1>2, <2>1, TellOthers
<1>4. \A a \in Accounts : u.log["tokens"][a] = s.log["tokens"][a]
  BY <1>1, <1>3 DEF Telling
<1>5. QED
  BY ZenonT(60), <1>1, <1>4 DEF TokensFollow, TokenFollows

LEMMA SumOfZeros ==
  ASSUME NEW S, IsFiniteSet(S), NEW f \in [S -> Int], \A x \in S : f[x] = 0
  PROVE  SumOf(f) = 0
<1>1. More(f, S, f, S, f)
  BY DEF More, Part
<1>2. SumFunction(f) = SumFunction(f) + SumFunction(f) /\ SumFunction(f) \in Int
  BY <1>1, SumMore
<1>3. PICK i : i = SumFunction(f)
  OBVIOUS
<1>4. i \in Int /\ i = i + i
  BY <1>2, <1>3
<1>5. i = 0
  BY <1>4
<1>6. QED
  BY <1>3, <1>5 DEF SumOf

LEMMA TokensStart ==
  ASSUME NEW s, Same(s, GenesisState)
  PROVE  TokensFollow(s, {})
<1>1. Sent({}) = {} /\ "tokens" \in Logs
  BY DEF Sent, Logs
<1>2. NoToken.balance = 0 /\ NoToken.origin = NoTx
  BY DEF NoToken
<1>3. ASSUME NEW k \in Tokens
      PROVE  TokenFollows(s, {}, k)
  <2> DEFINE f == Records(s.tokens, k)
  <2>1. \A a \in Accounts : s.tokens[a][k] = NoToken /\ s.log["tokens"][a] = <<>>
    BY <1>1, GenesisFields
  <2>2. f \in [Accounts -> Int] /\ IsFiniteSet(Accounts) /\ \A a \in Accounts : f[a] = 0
    BY <1>2, <2>1, AddressAssumption DEF Records
  <2>3. SumOf(f) = 0
    <3> HIDE DEF f
    <3>1. QED
      BY <2>2, SumOfZeros
  <2>4. QED
    BY <1>1, <1>2, <2>1, <2>3, NamesNothing DEF TokenFollows
<1>4. QED
  BY <1>3 DEF TokensFollow

-----------------------------------------------------------------------------
(* The store and the whole chain                                            *)

(* What the state s says of the first n - 1 blocks and the first k          *)
(* transactions of block n.                                                 *)
Tells(s, n, k) ==
  /\ KeysFollow(s, Done(n, k))
  /\ HistoryFollows(s, Done(n, k), n)
  /\ TalliesFollow(s, Done(n, k))
  /\ SupplyFollows(s, n, k)
  /\ BackedFollows(s, Done(n, k))
  /\ TokensFollow(s, Done(n, k))

Telltales == {z \in Shapes \X Nat \X Nat : Tells(z[1], z[2], z[3])}

LEMMA TellsAtGenesis ==
  ASSUME ChainLinked, NEW s, Sound(s), Same(s, GenesisState)
  PROVE  Tells(s, 0, 0)
<1>1. Done(0, 0) = {}
  BY DoneFacts
<1>2. TalliesFollow(s, {})
  BY GenesisFields, NothingTallied
<1>3. KeysFollow(s, {}) /\ HistoryFollows(s, {}, 0)
  BY KeysStart, HistoryStarts
<1>4. SupplyFollows(s, 0, 0) /\ BackedFollows(s, {}) /\ TokensFollow(s, {})
  BY SupplyStarts, BackedStarts, TokensStart
<1>5. QED
  BY <1>1, <1>2, <1>3, <1>4 DEF Tells

LEMMA TellsTheSame ==
  ASSUME NEW r, NEW s, Same(r, s), NEW n, NEW k, Tells(s, n, k)
  PROVE  Tells(r, n, k)
<1>1. /\ r.balance = s.balance /\ r.nonce = s.nonce /\ r.keys = s.keys
      /\ r.tokens = s.tokens /\ r.votes = s.votes
  BY DEF Same, SameKeys, SameRest
<1>2. \A m \in {"tx", "tokens"} : \A a \in Accounts : r.log[m][a] = s.log[m][a]
  <2>1. \A m \in {"tx", "tokens"} :
          m \in Logs /\ \A a \in Accounts : a \in Addresses /\ Shown(s.wallets, m, a)
    BY AddressAssumption DEF Logs, Addresses, Shown
  <2>2. QED
    BY <2>1 DEF Same
<1>3. KeysFollow(r, Done(n, k))
  BY <1>1 DEF Tells, KeysFollow, Numbered
<1>4. HistoryFollows(r, Done(n, k), n)
  BY <1>1, <1>2 DEF Tells, HistoryFollows, Live, ListedIn
<1>5. TalliesFollow(r, Done(n, k))
  BY <1>1 DEF Tells, TalliesFollow, AllTallied
<1>6. SupplyFollows(r, n, k)
  BY <1>1 DEF Tells, SupplyFollows
<1>7. BackedFollows(r, Done(n, k))
  BY <1>1 DEF Tells, BackedFollows, Executed
<1>8. TokensFollow(r, Done(n, k))
  BY <1>1, <1>2 DEF Tells, TokensFollow, TokenFollows
<1>9. QED
  BY <1>3, <1>4, <1>5, <1>6, <1>7, <1>8 DEF Tells

(* At the end of a block every fee is paid.                                 *)
LEMMA NothingPends ==
  ASSUME ChainLinked, NEW n \in 1 .. Len(chain) + 1
  PROVE  Pending(n - 1, Size(n - 1)) = 0
<1>1. Len(chain) \in Nat
  BY DEF ChainLinked, LedgerInv, Types
<1>2. CASE n = 1
  BY <1>2, NoBlockPends DEF Size
<1>3. CASE n # 1
  <2>1. n - 1 \in 1 .. Len(chain)
    BY <1>1, <1>3
  <2>2. QED
    BY <2>1, PendingFacts
<1>4. QED
  BY <1>2, <1>3

LEMMA TellsOfCoinbase ==
  ASSUME ChainLinked, NEW n \in 1 .. Len(chain), NEW u, NEW s, NEW m, m = n - 1, NEW j, j = Size(m),
         NEW P, P = Done(m, j), CoinbaseStep(u, s, n, P), Tells(s, m, j)
  PROVE  Tells(u, n, 0)
<1>1. P = Done(n, 0) /\ u.votes = s.votes
  BY DEF CoinbaseStep, CoinbaseDone, SameRest
<1>2. KeysFollow(u, P)
  <2>1. s.nonce \in [Accounts \cup {Mint} -> Int] /\ u.keys = s.keys
        /\ u.nonce = [s.nonce EXCEPT ![Mint] = @ + 1]
    BY DEF CoinbaseStep, CoinbaseDone, IsShape
  <2>2. \A a \in Accounts : u.nonce[a] = s.nonce[a] /\ u.keys[a] = s.keys[a]
    BY <2>1, AddressAssumption
  <2>3. KeysFollow(s, P)
    BY DEF Tells
  <2>4. QED
    BY <2>2, <2>3 DEF KeysFollow, Numbered
<1>3. HistoryFollows(u, P, n)
  BY HistoryMinted DEF Tells
<1>4. TalliesFollow(u, P)
  BY <1>1 DEF Tells, TalliesFollow, AllTallied
<1>5. SupplyFollows(u, n, 0)
  <2>1. Len(chain) \in Nat
    BY DEF ChainLinked, LedgerInv, Types
  <2>2. Pending(m, j) = 0
    BY <2>1, NothingPends
  <2>3. QED
    BY <2>2, SupplyMinted DEF Tells
<1>6. BackedFollows(u, P) /\ TokensFollow(u, P)
  BY BackedMinted, TokensMinted DEF Tells
<1>7. QED
  BY <1>1, <1>2, <1>3, <1>4, <1>5, <1>6 DEF Tells

LEMMA TellsOfTx ==
  ASSUME ChainLinked, NEW n \in 1 .. Len(chain), NEW k \in 1 .. Size(n),
         NEW u, NEW s, NEW x, x = <<n, k>>, NEW t, t = TxAt(n, k),
         NEW P, TxStep(u, s, n, k, x, t, P),
         Valid(s, t, n), u = Apply(s, t, n), Tells(s, n, k - 1)
  PROVE  Tells(u, n, k)
<1>1. /\ P = Done(n, k - 1) /\ Done(n, k) = P \cup {x} /\ x \notin P /\ At(x) = t
      /\ Good(s) /\ t \in Ordinary
  BY DEF TxStep
<1>2. /\ KeysFollow(s, P) /\ HistoryFollows(s, P, n) /\ TalliesFollow(s, P)
      /\ SupplyFollows(s, n, k - 1) /\ BackedFollows(s, P) /\ TokensFollow(s, P)
  BY <1>1 DEF Tells
<1>3. KeysFollow(u, Done(n, k))
  BY <1>1, <1>2, KeysGrow
<1>4. HistoryFollows(u, Done(n, k), n)
  BY <1>2, HistoryGrows
<1>5. TalliesFollow(u, Done(n, k))
  <2>1. \A y \in P : Later(x, y) /\ ~ Later(y, x)
    BY <1>1, LaterFacts
  <2>2. QED
    BY <1>2, <2>1, TalliesGrow
<1>6. SupplyFollows(u, n, k)
  BY <1>2, SupplyGrows
<1>7. BackedFollows(u, Done(n, k)) /\ TokensFollow(u, Done(n, k))
  BY <1>2, BackedGrows, TokensGrow
<1>8. QED
  BY <1>3, <1>4, <1>5, <1>6, <1>7 DEF Tells

LEMMA StoreTells ==
  ASSUME ChainLinked
  PROVE  Tells(db, Len(chain), Size(Len(chain)))
<1> DEFINE R == Telltales
<1>1. FromGenesis(R)
  BY TellsAtGenesis, SoundShapes DEF FromGenesis, Telltales
<1>2. ForLooks(R)
  <2> SUFFICES ASSUME NEW r, NEW s, NEW n \in Nat, NEW k \in Nat,
                      <<s, n, k>> \in R, Sound(r), Same(r, s)
               PROVE  <<r, n, k>> \in R
    BY DEF ForLooks
  <2>1. Tells(s, n, k) /\ r \in Shapes
    BY SoundShapes DEF Telltales
  <2>2. Tells(r, n, k)
    BY <2>1, TellsTheSame
  <2>3. QED
    BY <2>1, <2>2 DEF Telltales
<1>3. ForCoinbase(R)
  <2> SUFFICES ASSUME NEW s, NEW n \in 1 .. Len(chain),
                      <<s, n - 1, Size(n - 1)>> \in R, Sound(s)
               PROVE  <<ApplyCoinbase(s, n, FeesIn(n)), n, 0>> \in R
    BY DEF ForCoinbase
  <2> DEFINE u == ApplyCoinbase(s, n, FeesIn(n))
             m == n - 1
             j == Size(m)
             P == Done(m, j)
  <2>1. Tells(s, m, j)
    BY DEF Telltales
  <2>2. CoinbaseStep(u, s, n, P)
    BY CoinbaseSteps
  <2> HIDE DEF u
  <2>3. Tells(u, n, 0)
    <3>1. m = n - 1 /\ j = Size(m) /\ P = Done(m, j)
      OBVIOUS
    <3> HIDE DEF P, m, j
    <3>2. QED
      BY <2>1, <2>2, <3>1, TellsOfCoinbase
  <2>4. QED
    BY <2>2, <2>3 DEF Telltales, CoinbaseStep, u
<1>4. ForTx(R)
  <2> SUFFICES ASSUME NEW s, NEW n \in 1 .. Len(chain), NEW k \in 1 .. Size(n),
                      <<s, n, k - 1>> \in R, Sound(s), TxAt(n, k) \in Ordinary,
                      Valid(s, TxAt(n, k), n)
               PROVE  <<Apply(s, TxAt(n, k), n), n, k>> \in R
    BY DEF ForTx
  <2> DEFINE t == TxAt(n, k)
             u == Apply(s, t, n)
             P == Done(n, k - 1)
             x == <<n, k>>
  <2>1. Tells(s, n, k - 1) /\ Valid(s, t, n) /\ t = TxAt(n, k) /\ u = Apply(s, t, n)
    BY DEF Telltales
  <2>2. TxStep(u, s, n, k, x, t, P) /\ x = <<n, k>>
    BY TxSteps
  <2> HIDE DEF u, P, t, x
  <2>3. Tells(u, n, k)
    BY <2>1, <2>2, TellsOfTx
  <2>4. QED
    BY <2>2, <2>3 DEF Telltales, TxStep, u, t
<1>5. <<db, Len(chain), Size(Len(chain))>> \in Telltales
  <2> HIDE DEF R
  <2>1. PICK S : S = Telltales
    OBVIOUS
  <2>2. FromGenesis(S) /\ ForLooks(S) /\ ForCoinbase(S) /\ ForTx(S)
    BY <1>1, <1>2, <1>3, <1>4, <2>1 DEF R
  <2>3. <<After(Len(chain)), Len(chain), Size(Len(chain))>> \in S
    <3>1. Len(chain) \in 0 .. Len(chain)
      BY DEF ChainLinked, LedgerInv, Types
    <3>2. QED
      BY <2>2, <3>1, ChainInduction
  <2>4. After(Len(chain)) = db
    BY DEF After
  <2>5. QED
    BY <2>1, <2>3, <2>4
<1>6. QED
  BY <1>5 DEF Telltales

LEMMA ChainTold ==
  ASSUME ChainLinked
  PROVE  /\ KeysFollow(db, Places) /\ HistoryFollows(db, Places, Len(chain))
         /\ TalliesFollow(db, Places) /\ SupplyFollows(db, Len(chain), Size(Len(chain)))
         /\ BackedFollows(db, Places) /\ TokensFollow(db, Places)
         /\ Sent(Places) = InChain
BY StoreTells, DoneFacts DEF Tells, Sent, InChain

(* A key signs once in the chain; the bits, counts, pages and nonces of     *)
(* every address are those of the transactions that it signed.              *)
THEOREM KeysStayMatched == Spec => []KeysMatchChain
<1>1. ChainLinked => KeysMatchChain
  <2> SUFFICES ASSUME ChainLinked PROVE KeysMatchChain
    OBVIOUS
  <2>1. KeysFollow(db, Places)
    BY ChainTold
  <2>2. \A x, y \in Places :
          Signer(At(x)) = Signer(At(y)) /\ Tx[At(x)].key = Tx[At(y)].key => x = y
    BY <2>1 DEF KeysFollow, OneKeyEach
  <2>3. ASSUME NEW a \in Accounts
        PROVE  LET signed == {t \in InChain : Signer(t) = a}
                   used == {Tx[t].key : t \in signed}
                   full == {p \in 1 .. Pages(KeyCount[a]) :
                              \A k \in 0 .. KeyCount[a] - 1 : Page(k) = p => k \in used}
               IN  /\ db.keys[a].bits = used
                   /\ {db.nonce[a], db.keys[a].count} = {Cardinality(signed)}
                   /\ 1 .. db.keys[a].full \subseteq full
                   /\ db.keys[a].full + 1 \notin full
    <3> DEFINE signed == {t \in InChain : Signer(t) = a}
               used == {Tx[t].key : t \in signed}
               full == {p \in 1 .. Pages(KeyCount[a]) :
                          \A k \in 0 .. KeyCount[a] - 1 : Page(k) = p => k \in used}
               f == db.keys[a].full
    <3>1. signed = SignedBy(Places, a)
      BY DEF SignedBy, InChain
    <3>2. Numbered(db, a, signed)
      BY <2>1, <3>1 DEF KeysFollow
    <3>3. /\ db.keys[a].bits = used
          /\ db.nonce[a] = Cardinality(signed) /\ db.keys[a].count = Cardinality(signed)
      BY <3>2 DEF Numbered
    <3>4. GoodKeys(db.keys[a], KeyCount[a]) /\ KeyCount[a] \in Nat
      BY ChainAssumption DEF ChainLinked, LedgerInv, Stored, Sound, Good
    <3> HIDE DEF signed, used
    <3>5. Pages(KeyCount[a]) \in Nat /\ f \in 0 .. Pages(KeyCount[a])
      BY <3>4, PagesType DEF GoodKeys
    <3>6. \A k \in 0 .. KeyCount[a] - 1 : Page(k) \in Int
      BY PageSize DEF Page
    <3>7. 1 .. f \subseteq full
      BY <3>3, <3>4, <3>5, <3>6 DEF GoodKeys
    <3>8. f + 1 \notin full
      BY <3>3, <3>4, <3>5 DEF GoodKeys
    <3> HIDE DEF full, f
    <3>9. {db.nonce[a], db.keys[a].count} = {Cardinality(signed)}
      BY <3>3
    <3>10. QED
      BY <3>3, <3>7, <3>8, <3>9 DEF full, f, signed, used
  <2>4. QED
    BY <2>2, <2>3 DEF KeysMatchChain
<1>2. QED
  BY <1>1, ChainStaysLinked, PTL

(* The list of an address shows transactions of the main chain only, and    *)
(* all that it sent or signed.                                              *)
THEOREM HistoryStaysTrue == Spec => []HistoryMatchesChain
<1>1. ChainLinked => HistoryMatchesChain
  <2> SUFFICES ASSUME ChainLinked PROVE HistoryMatchesChain
    OBVIOUS
  <2>1. HistoryFollows(db, Places, Len(chain))
    BY ChainTold
  <2>2. Sent(Places) = InChain
    BY DEF Sent, InChain
  <2>3. Minted(Len(chain)) = {Coinbase[i] : i \in DOMAIN chain}
    <3>1. chain \in Seq(Seq(EntrySet))
      BY DEF ChainLinked, LedgerInv, Types
    <3>2. DOMAIN chain = 1 .. Len(chain)
      BY <3>1
    <3>3. QED
      BY <3>2 DEF Minted
  <2>4. QED
    BY <2>1, <2>2, <2>3 DEF HistoryFollows, ListedIn, HistoryMatchesChain
<1>2. QED
  BY <1>1, ChainStaysLinked, PTL

(* A stored tally is what the votes in the chain add up to, each signatory  *)
(* by its last word, and nothing is paid below the threshold.               *)
THEOREM VotesStayTallied == Spec => []VotesTallied
<1>1. ChainLinked => VotesTallied
  <2> SUFFICES ASSUME ChainLinked PROVE VotesTallied
    OBVIOUS
  <2>1. TalliesFollow(db, Places)
    BY ChainTold
  <2>2. Sent(Places) = InChain
    BY DEF Sent, InChain
  <2>3. \A p, a : LastIn(Places, p, a) = LastVote(p, a)
    <3>1. \A p, a : VotesIn(Places, p, a) = Votes(p, a)
      BY DEF VotesIn, Votes
    <3>2. \A p, a : LastVote(p, a) = LatestOf(Votes(p, a))
      BY DEF LastVote, LatestOf
    <3>3. QED
      BY <3>1, <3>2 DEF LastIn
  <2>4. ASSUME NEW p \in Spends
        PROVE  LET stats == db.votes[p]
               IN  /\ stats.live <=> p \in InChain
                   /\ \A a \in Accounts : stats.last[a] = LastVote(p, a)
                   /\ stats.voted =
                        {a \in Accounts : LastVote(p, a) # NoTx /\ ~ Tx[LastVote(p, a)].unvote}
                   /\ stats.live =>
                        stats.weight = SumOf([a \in stats.voted |-> Tx[Creation(p)].weights[a]])
                   /\ stats.executed => stats.weight >= Tx[Creation(p)].threshold
    <3> DEFINE x == db.votes[p]
    <3>1. /\ x.live <=> p \in InChain
          /\ \A a \in Accounts : x.last[a] = LastVote(p, a)
          /\ TallyOf(x, p)
      BY <2>1, <2>2, <2>3 DEF TalliesFollow, AllTallied
    <3> HIDE DEF x
    <3>2. x.voted = {a \in Accounts : LastVote(p, a) # NoTx /\ ~ Tx[LastVote(p, a)].unvote}
      BY <3>1 DEF TallyOf
    <3>3. x.live => x.weight = SumOf([a \in x.voted |-> Tx[Creation(p)].weights[a]])
      BY <3>1 DEF TallyOf, WeightOf
    <3>4. x.executed => x.weight >= Tx[Creation(p)].threshold
      BY <3>1 DEF TallyOf
    <3>5. QED
      BY <3>1, <3>2, <3>3, <3>4 DEF x
  <2>5. QED
    BY <2>4 DEF VotesTallied
<1>2. QED
  BY <1>1, ChainStaysLinked, PTL

(* No coin appears or is lost, through every block added and removed.       *)
THEOREM SupplyStaysKept == Spec => []SupplyKept
<1>1. ChainLinked => SupplyKept
  <2> SUFFICES ASSUME ChainLinked PROVE SupplyKept
    OBVIOUS
  <2>1. Len(chain) \in Nat
    BY DEF ChainLinked, LedgerInv, Types
  <2> DEFINE n == Len(chain) + 1
  <2>2. n \in 1 .. Len(chain) + 1 /\ n - 1 = Len(chain)
    BY <2>1
  <2> HIDE DEF n
  <2>3. Pending(Len(chain), Size(Len(chain))) = 0
    BY <2>2, NothingPends
  <2>4. SumOf(GenesisState.balance) \in Int
    <3>1. GenesisState.balance \in [Addresses -> Int] /\ IsFiniteSet(Addresses)
      BY GenesisGood, AddressesFinite DEF Good, IsShape
    <3>2. QED
      BY <3>1, SumFacts DEF SumOf
  <2>5. QED
    BY <2>3, <2>4, ChainTold DEF SupplyFollows, SupplyKept
<1>2. QED
  BY <1>1, ChainStaysLinked, PTL

(* A wallet holds what the chain sent it less the spends executed from it,  *)
(* each paid once.                                                          *)
THEOREM WalletsStayBacked == Spec => []WalletsBacked
<1>1. ChainLinked => WalletsBacked
  <2> SUFFICES ASSUME ChainLinked, NEW w \in Wallets
               PROVE  LET executed == {p \in Spends : db.votes[p].executed}
                          out == {p \in executed : Tx[p].wallet = w}
                      IN  db.balance[w] = PaidTo(w, OfKind("transfer") \cap InChain)
                                            + PaidTo(w, executed) - SumOf([p \in out |-> Total(p)])
    BY DEF WalletsBacked
  <2>1. db.balance[w] = Held(w, Transfers(Places), Executed(db))
    BY ChainTold DEF BackedFollows
  <2>2. Transfers(Places) = OfKind("transfer") \cap InChain
    BY ChainTold DEF Transfers
  <2>3. QED
    BY <2>1, <2>2 DEF Held, OutOf, Executed
<1>2. QED
  BY <1>1, ChainStaysLinked, PTL

(* All of a token that the chain created is held, and an address has a      *)
(* record of it exactly when its list names the token, once.                *)
THEOREM TokensStayKept == Spec => []TokensKept
<1>1. ChainLinked => TokensKept
  <2> SUFFICES ASSUME ChainLinked, NEW k \in Tokens
               PROVE  /\ SumOf([a \in Accounts |-> db.tokens[a][k].balance]) =
                           IF k \in InChain THEN SumOf(Tx[k].pays) ELSE 0
                      /\ \A a \in Accounts :
                           LET named == {i \in DOMAIN db.log["tokens"][a] :
                                           db.log["tokens"][a][i] = k}
                           IN  Cardinality(named) =
                                 IF db.tokens[a][k].origin # NoTx THEN 1 ELSE 0
    BY DEF TokensKept
  <2>1. TokenFollows(db, Places, k) /\ Sent(Places) = InChain
    BY ChainTold DEF TokensFollow
  <2>2. QED
    BY <2>1 DEF TokenFollows, Records, Naming
<1>2. QED
  BY <1>1, ChainStaysLinked, PTL

-----------------------------------------------------------------------------
(* Numbers that never fall below zero                                       *)

(* What holds of a state on the way to the end of block n: the coinbase     *)
(* address has the rewards still to come, and nothing is negative.          *)
Fair(s, n) ==
  /\ s.balance[Mint] >= (MaxHeight - n) * Reward
  /\ \A a \in Addresses : s.balance[a] >= 0
  /\ \A a \in Accounts \cup {Mint} : s.nonce[a] >= 0
  /\ \A a \in Accounts : s.keys[a].count >= 0
  /\ \A a \in Accounts : \A k \in Tokens : s.tokens[a][k].balance >= 0
  /\ AllTallied(s)

LEMMA FairAlike ==
  ASSUME NEW r, NEW s, NEW n, Same(r, s), Fair(s, n)
  PROVE  Fair(r, n)
BY DEF Fair, Same, SameKeys, SameRest, AllTallied

LEMMA FairStarts == Fair(GenesisState, 0)
<1>1. /\ MaxHeight \in Nat /\ Reward \in Nat
      /\ InitialBalance \in [Accounts \cup {Mint} -> Nat]
      /\ InitialBalance[Mint] >= MaxHeight * Reward
  BY ChainAssumption, EmissionAssumption
<1>2. \A a \in Addresses :
        GenesisState.balance[a] = IF a \in Wallets THEN 0 ELSE InitialBalance[a]
  BY DEF GenesisState
<1>3. GenesisState.balance[Mint] >= (MaxHeight - 0) * Reward
  <2>1. GenesisState.balance[Mint] = InitialBalance[Mint]
    BY <1>2, AddressAssumption DEF Addresses
  <2>2. MaxHeight - 0 = MaxHeight
    BY <1>1
  <2>3. QED
    BY <1>1, <2>1, <2>2
<1>4. \A a \in Addresses : GenesisState.balance[a] >= 0
  <2> SUFFICES ASSUME NEW a \in Addresses PROVE GenesisState.balance[a] >= 0
    OBVIOUS
  <2>1. CASE a \in Wallets
    BY <1>2, <2>1
  <2>2. CASE a \notin Wallets
    <3>1. a \in Accounts \cup {Mint}
      BY <2>2 DEF Addresses
    <3>2. InitialBalance[a] \in Nat /\ GenesisState.balance[a] = InitialBalance[a]
      BY <1>1, <1>2, <2>2, <3>1
    <3>3. QED
      BY <3>2
  <2>3. QED
    BY <2>1, <2>2
<1>5. \A a \in Accounts \cup {Mint} : GenesisState.nonce[a] >= 0
  BY DEF GenesisState
<1>6. \A a \in Accounts : GenesisState.keys[a].count >= 0
  BY DEF GenesisState, NoKeys
<1>7. \A a \in Accounts : \A k \in Tokens : GenesisState.tokens[a][k].balance >= 0
  BY DEF GenesisState, NoToken
<1>8. AllTallied(GenesisState)
  <2>1. \A p \in Spends : GenesisState.votes[p] = NoVotes
    BY DEF GenesisState
  <2>2. ASSUME NEW p \in Spends PROVE TallyOf(NoVotes, p)
    BY DEF TallyOf, NoVotes
  <2>3. QED
    BY <2>1, <2>2 DEF AllTallied
<1>9. QED
  BY <1>3, <1>4, <1>5, <1>6, <1>7, <1>8 DEF Fair

LEMMA FairMinted ==
  ASSUME NEW s, Good(s), NEW n \in 1 .. MaxHeight, NEW fees \in Nat, Fair(s, n - 1)
  PROVE  Fair(ApplyCoinbase(s, n, fees), n)
<1> DEFINE u == ApplyCoinbase(s, n, fees)
           to == Tx[Coinbase[n]].to
           f == Coins(to, Reward + fees)
           g == Coins(Mint, Reward)
           b == Increase(s.balance, f)
<1>1. CoinbaseDone(u, s, n, fees)
  BY CoinbaseApplied DEF Good, IsShape
<1>2. /\ s.balance \in [Addresses -> Int] /\ s.nonce \in [Accounts \cup {Mint} -> Int]
      /\ Reward \in Nat /\ MaxHeight \in Nat /\ n \in Nat
      /\ to \in Accounts /\ to \in Addresses /\ Mint \in Addresses /\ to # Mint
  BY ChainAssumption, TxAssumption, AddressAssumption DEF Good, IsShape, OfKind, Addresses
<1> HIDE DEF u, to
<1>3. u.balance = Decrease(b, g) /\ u.nonce = [s.nonce EXCEPT ![Mint] = @ + 1] /\ u.keys = s.keys
      /\ u.tokens = s.tokens /\ u.votes = s.votes
  BY <1>1 DEF CoinbaseDone, SameRest, to
<1>4. \A a \in Addresses :
        b[a] = IF a = to THEN s.balance[a] + (Reward + fees) ELSE s.balance[a]
  BY DEF Increase, Coins
<1>5. \A a \in Addresses : Decrease(b, g)[a] = IF a = Mint THEN b[a] - Reward ELSE b[a]
  BY DEF Decrease, Coins
<1> HIDE DEF b, g, f
<1>6. /\ u.balance[Mint] = s.balance[Mint] - Reward
      /\ \A a \in Addresses \ {Mint} : u.balance[a] >= s.balance[a]
  BY <1>2, <1>3, <1>4, <1>5
<1>7. (MaxHeight - (n - 1)) * Reward = (MaxHeight - n) * Reward + Reward
      /\ (MaxHeight - n) * Reward \in Nat
  <2>1. PICK d \in Nat : d = MaxHeight - n /\ MaxHeight - (n - 1) = d + 1
    BY <1>2
  <2>2. (d + 1) * Reward = d * Reward + Reward /\ d * Reward \in Nat
    BY <1>2
  <2>3. QED
    BY <2>1, <2>2
<1>8. u.balance[Mint] >= (MaxHeight - n) * Reward /\ u.balance[Mint] >= 0
  <2>1. PICK d \in Nat : d = (MaxHeight - n) * Reward
    BY <1>7
  <2>2. s.balance[Mint] >= d + Reward
    BY <1>7, <2>1 DEF Fair
  <2>3. s.balance[Mint] \in Int
    BY <1>2
  <2>4. QED
    BY <1>2, <1>6, <2>1, <2>2, <2>3
<1>9. \A a \in Addresses : u.balance[a] >= 0
  BY <1>2, <1>3, <1>4, <1>5, <1>8 DEF Fair
<1>10. \A a \in Accounts \cup {Mint} : u.nonce[a] >= 0
  BY <1>2, <1>3 DEF Fair
<1>11. QED
  BY <1>3, <1>8, <1>9, <1>10 DEF Fair, AllTallied, u

(* Payments take from an address what it has, and give to others.           *)
LEMMA FairBalances ==
  ASSUME NEW s, Good(s), NEW t \in Ordinary, NEW n, Valid(s, t, n), NEW u, Spending(u, s, t),
         \A a \in Addresses : s.balance[a] >= 0
  PROVE  /\ \A a \in Addresses : u.balance[a] >= 0
         /\ u.balance[Mint] >= s.balance[Mint]
<1>1. /\ s.balance \in [Addresses -> Int] /\ Mint \in Addresses /\ From(t) # Mint
      /\ From(t) \in Accounts /\ From(t) \in Addresses
      /\ Tx[t].fee \in Nat /\ s.balance[From(t)] >= Tx[t].fee
  BY ValidFacts, TxFacts, AddressAssumption DEF Good, IsShape, Addresses
<1>2. ASSUME NEW p \in OfKind("transfer") \cup Spends
      PROVE  Total(p) \in Nat /\ \A a : Part(Tx[p].pays, a) \in Nat
  BY <1>2, PaysFacts DEF Total, Part, Payees
<1>3. CASE Paying(u.balance, s.balance, t)
  <2>1. t \in OfKind("transfer") /\ s.balance[From(t)] >= Total(t) + Tx[t].fee
    BY <1>3, ValidFacts DEF Paying, ValidTransfer, Total
  <2>2. Total(t) \in Nat /\ \A a : Part(Tx[t].pays, a) \in Nat
    BY <1>2, <2>1
  <2>3. \A a \in Addresses :
          u.balance[a] = s.balance[a] - (IF a = From(t) THEN Total(t) + Tx[t].fee ELSE 0)
                           + Part(Tx[t].pays, a)
    BY <1>3 DEF Paying
  <2>4. QED
    BY <1>1, <2>1, <2>2, <2>3
<1>4. CASE Charging(u.balance, s.balance, t)
  BY <1>1, <1>4 DEF Charging
<1>5. CASE /\ Executing(u.balance, s.balance, t)
           /\ Tx[t].spend \in Spends \ Executed(s)
  <2> DEFINE p == Tx[t].spend
             w == Tx[p].wallet
  <2>1. p \in Spends /\ w \in Wallets /\ w \in Addresses
    BY <1>5, FormAssumption DEF Addresses
  <2>2. w # Mint /\ w # From(t)
    BY <1>1, <2>1, AddressAssumption
  <2>3. Total(p) \in Nat /\ \A a : Part(Tx[p].pays, a) \in Nat
    BY SMTT(60), <1>2, <2>1
  <2>4. /\ Total(p) <= s.balance[w]
        /\ \A a \in Addresses :
             u.balance[a] = s.balance[a] - (IF a = From(t) THEN Tx[t].fee ELSE 0)
                              - (IF a = w THEN Total(p) ELSE 0) + Part(Tx[p].pays, a)
    BY <1>5 DEF Executing
  <2> HIDE DEF p, w
  <2>5. QED
    BY <1>1, <2>1, <2>2, <2>3, <2>4
<1>6. QED
  BY <1>3, <1>4, <1>5 DEF Spending

LEMMA FairTokens ==
  ASSUME NEW s, Good(s), NEW t \in Ordinary, NEW n, Valid(s, t, n), NEW u, TokensStep(u, s, t),
         \A a \in Accounts : \A k \in Tokens : s.tokens[a][k].balance >= 0
  PROVE  \A a \in Accounts : \A k \in Tokens : u.tokens[a][k].balance >= 0
<1>1. s.tokens \in TokenTables
  BY DEF Good, IsShape, TokenTables
<1>2. CASE u.tokens = s.tokens
  BY <1>2
<1>3. CASE t \in Tokens /\ u.tokens = Made(s.tokens, t)
  <2>1. \A a \in Accounts : \A k \in Tokens :
          u.tokens[a][k] = IF k = t /\ a \in Payees(t)
                           THEN [balance |-> Tx[t].pays[a], origin |-> t] ELSE s.tokens[a][k]
    BY <1>1, <1>3, MadeTokens
  <2>2. \A a \in Payees(t) : Tx[t].pays[a] \in Nat
    BY <1>3, FormAssumption
  <2>3. ASSUME NEW a \in Accounts, NEW k \in Tokens PROVE u.tokens[a][k].balance >= 0
    <3>1. CASE k = t /\ a \in Payees(t)
      <4>1. u.tokens[a][k] = [balance |-> Tx[t].pays[a], origin |-> t]
        BY <2>1, <3>1
      <4>2. u.tokens[a][k].balance = Tx[t].pays[a]
        BY <4>1
      <4>3. QED
        BY <2>2, <3>1, <4>2
    <3>2. CASE ~ (k = t /\ a \in Payees(t))
      BY <2>1, <3>2
    <3>3. QED
      BY <3>1, <3>2
  <2>4. QED
    BY <2>3
<1>4. CASE /\ t \in OfKind("transfer_token")
           /\ u.tokens = Named(Moved(s.tokens, t, 1), Tx[t].token,
                               Holding(s.tokens, t, NoTx), t)
  <2> DEFINE k == Tx[t].token
             A == Holding(s.tokens, t, NoTx)
  <2>1. k \in Tokens
    BY <1>4, FormAssumption
  <2>2. TokensMoved(u.tokens, s.tokens, t, A, k)
    <3>1. k = Tx[t].token /\ u.tokens = Named(Moved(s.tokens, t, 1), k, A, t)
      BY <1>4
    <3> HIDE DEF k, A
    <3>2. QED
      BY <1>1, <1>4, <3>1, MovedTokens
  <2>3. s.tokens[From(t)][k].balance >= SumOf(Tx[t].pays)
    BY <1>4, ValidFacts DEF ValidTransferToken
  <2>4. SumOf(Tx[t].pays) \in Nat /\ \A a : Part(Tx[t].pays, a) \in Nat
    BY <1>4, PaysFacts DEF Part, Payees
  <2>5. \A a \in Accounts : s.tokens[a][k].balance \in Int
    BY <1>1, <2>1 DEF TokenTables, TokenStates
  <2>6. \A a \in Accounts : u.tokens[a][k].balance = s.tokens[a][k].balance + Gain(t, a)
    BY <2>2 DEF TokensMoved
  <2>7. \A a \in Accounts : \A j \in Tokens \ {k} : u.tokens[a][j] = s.tokens[a][j]
    BY <2>2 DEF TokensMoved
  <2> HIDE DEF k
  <2>8. ASSUME NEW a \in Accounts PROVE u.tokens[a][k].balance >= 0
    <3>1. Gain(t, a) = Part(Tx[t].pays, a) - (IF a = From(t) THEN SumOf(Tx[t].pays) ELSE 0)
      BY DEF Gain
    <3>2. s.tokens[a][k].balance >= 0
      BY <2>1
    <3>3. PICK i \in Nat, x \in Int, y \in Int, z \in Nat :
            /\ i = SumOf(Tx[t].pays) /\ x = s.tokens[a][k].balance
            /\ y = u.tokens[a][k].balance /\ z = Part(Tx[t].pays, a)
      BY SMTT(60), <2>4, <2>5, <2>6, <3>1
    <3>4. y = x + z - (IF a = From(t) THEN i ELSE 0) /\ (a = From(t) => x >= i) /\ x >= 0
      BY <2>3, <2>6, <3>1, <3>2, <3>3
    <3>5. QED
      BY <3>3, <3>4
  <2>9. QED
    BY <2>7, <2>8
<1>5. QED
  BY <1>2, <1>3, <1>4 DEF TokensStep, TokensLeft

LEMMA FairTx ==
  ASSUME NEW s, Good(s), NEW t \in Ordinary, NEW n \in Nat, Valid(s, t, n), Fair(s, n)
  PROVE  Fair(Apply(s, t, n), n)
<1> DEFINE u == Apply(s, t, n)
<1>1. Effect(u, s, t, n) /\ Harmless(u, s, t)
  BY ApplyDoes, ApplyHarmless, ValidFacts
<1>2. AllTallied(u)
  <2>1. Tallied(u, s, t)
    <3> HIDE DEF u
    <3>1. QED
      BY <1>1, StaysTallied DEF Fair
  <2>2. QED
    BY <2>1 DEF Tallied
<1> HIDE DEF u
<1>3. Spending(u, s, t) /\ TokensStep(u, s, t)
  BY <1>1, AllSpending, TokenSteps
<1>4. /\ \A a \in Addresses : u.balance[a] >= 0
      /\ u.balance[Mint] >= s.balance[Mint]
  BY <1>3, FairBalances DEF Fair
<1>5. \A a \in Accounts : \A k \in Tokens : u.tokens[a][k].balance >= 0
  BY SMTT(60), <1>3, FairTokens DEF Fair
<1>6. /\ s.nonce \in [Accounts \cup {Mint} -> Int] /\ s.keys \in [Accounts -> KeyStates]
      /\ s.balance \in [Addresses -> Int] /\ u.balance \in [Addresses -> Int]
      /\ Signer(t) \in Accounts /\ Mint \in Addresses
  BY SMTT(60), <1>1, TxFacts DEF Good, IsShape, Harmless, Addresses
<1>7. \A a \in Accounts \cup {Mint} : u.nonce[a] >= 0
  BY <1>1, <1>6 DEF Harmless, Signed, Fair
<1>8. \A a \in Accounts : u.keys[a].count >= 0
  <2> DEFINE a == Signer(t)
             b == s.keys[a]
             c == SetKey(b, Tx[t].key, KeyCount[a])
  <2>1. u.keys = [s.keys EXCEPT ![a] = c]
    BY <1>1 DEF Harmless, Signed
  <2>2. c.count = b.count + 1
    <3>1. IsKeys(b)
      BY <1>6 DEF KeyStates, IsKeys
    <3> HIDE DEF b, a
    <3>2. QED
      BY <3>1, SetKeyFields
  <2>3. b.count \in Int /\ b.count >= 0
    BY <1>6 DEF KeyStates, Fair
  <2> HIDE DEF c, b
  <2>4. QED
    BY SMTT(60), <1>6, <2>1, <2>2, <2>3 DEF Fair, b
<1>9. u.balance[Mint] >= (MaxHeight - n) * Reward
  <2>1. PICK x \in Int, y \in Int, z \in Int :
          x = s.balance[Mint] /\ y = u.balance[Mint] /\ z = (MaxHeight - n) * Reward
    BY <1>6, ChainAssumption
  <2>2. QED
    BY <1>4, <2>1 DEF Fair
<1>10. QED
  BY <1>2, <1>4, <1>5, <1>7, <1>8, <1>9 DEF Fair, u

LEMMA FairTrace ==
  ASSUME NEW s, Good(s), NEW n \in 1 .. MaxHeight, NEW fees \in Nat, Fair(s, n - 1),
         NEW b, Len(b) \in Nat, NEW st, Trace(st, s, n, b, fees)
  PROVE  /\ \A i \in 0 .. Len(b) : Fair(st[i], n)
         /\ \A i \in 1 .. Len(b) : b[i].nonce \in Nat
<1> DEFINE L == Len(b)
           T == {i \in Nat : i <= L => Fair(st[i], n)}
<1>1. /\ st[0] = ApplyCoinbase(s, n, fees)
      /\ \A i \in 1 .. L : /\ b[i].tx \in Ordinary
                           /\ Valid(st[i - 1], b[i].tx, n)
                           /\ b[i] = Entry(st[i - 1], b[i].tx)
                           /\ st[i] = Apply(st[i - 1], b[i].tx, n)
      /\ \A i \in 0 .. L : Good(st[i])
      /\ n \in Nat
  BY ChainAssumption DEF Trace
<1>2. 0 \in T
  BY <1>1, FairMinted
<1>3. ASSUME NEW i \in Nat, i \in T PROVE i + 1 \in T
  <2>1. SUFFICES ASSUME i + 1 <= L PROVE Fair(st[i + 1], n)
    OBVIOUS
  <2> DEFINE j == i + 1
  <2>2. j \in 1 .. L /\ j - 1 = i /\ i \in 0 .. L
    BY <2>1
  <2>3. Fair(st[i], n)
    BY <1>3, <2>2
  <2> HIDE DEF j
  <2>4. Fair(st[j], n)
    BY <1>1, <2>2, <2>3, FairTx
  <2>5. QED
    BY <2>4 DEF j
<1>4. \A i \in Nat : i \in T
  <2> HIDE DEF T
  <2>1. QED
    BY <1>2, <1>3, Induction
<1>5. \A i \in 0 .. L : Fair(st[i], n)
  BY <1>4
<1>6. ASSUME NEW i \in 1 .. L PROVE b[i].nonce \in Nat
  <2> DEFINE s1 == st[i - 1]
             t == b[i].tx
  <2>1. i - 1 \in 0 .. L
    OBVIOUS
  <2>2. Fair(s1, n) /\ Good(s1) /\ t \in Ordinary /\ b[i] = Entry(s1, t)
    BY <1>1, <1>5, <2>1
  <2> HIDE DEF s1, t
  <2>3. Signer(t) \in Accounts /\ s1.nonce[Signer(t)] \in Int /\ s1.nonce[Signer(t)] >= 0
    BY <2>2, TxFacts DEF Good, IsShape, Fair
  <2>4. Entry(s1, t).nonce = s1.nonce[Signer(t)] + 1
    BY DEF Entry
  <2>5. QED
    BY <2>2, <2>3, <2>4
<1>7. QED
  BY <1>5, <1>6

LEMMA FairAlong ==
  ASSUME ChainLinked
  PROVE  \A n \in 0 .. Len(chain) : Fair(After(n), n)
<1> DEFINE R == {z \in Shapes \X Nat \X Nat : Fair(z[1], z[2])}
<1>1. FromGenesis(R)
  BY FairStarts, FairAlike, SoundShapes DEF FromGenesis
<1>2. ForLooks(R)
  BY FairAlike, SoundShapes DEF ForLooks
<1>3. ForCoinbase(R)
  <2> SUFFICES ASSUME NEW s, NEW n \in 1 .. Len(chain),
                      <<s, n - 1, Size(n - 1)>> \in R, Sound(s)
               PROVE  <<ApplyCoinbase(s, n, FeesIn(n)), n, 0>> \in R
    BY DEF ForCoinbase
  <2> DEFINE u == ApplyCoinbase(s, n, FeesIn(n))
  <2>1. Fair(s, n - 1)
    OBVIOUS
  <2>2. u \in Shapes /\ n \in Nat
    BY CoinbaseSteps DEF CoinbaseStep
  <2>3. Fair(u, n)
    BY <2>1, PlaceFacts, FairMinted DEF Sound
  <2> HIDE DEF u
  <2>4. <<u, n, 0>> \in R
    BY <2>2, <2>3
  <2>5. QED
    BY <2>4 DEF u
<1>4. ForTx(R)
  <2> SUFFICES ASSUME NEW s, NEW n \in 1 .. Len(chain), NEW k \in 1 .. Size(n),
                      <<s, n, k - 1>> \in R, Sound(s), TxAt(n, k) \in Ordinary,
                      Valid(s, TxAt(n, k), n)
               PROVE  <<Apply(s, TxAt(n, k), n), n, k>> \in R
    BY DEF ForTx
  <2> DEFINE u == Apply(s, TxAt(n, k), n)
  <2>1. Fair(s, n)
    OBVIOUS
  <2>2. u \in Shapes /\ n \in Nat /\ k \in Nat
    BY TxSteps DEF TxStep
  <2>3. Fair(u, n)
    BY <2>1, <2>2, FairTx DEF Sound
  <2> HIDE DEF u
  <2>4. <<u, n, k>> \in R
    BY <2>2, <2>3
  <2>5. QED
    BY <2>4 DEF u
<1>5. \A n \in 0 .. Len(chain) : <<After(n), n, Size(n)>> \in R
  <2> HIDE DEF R
  <2>1. PICK S : S = R
    OBVIOUS
  <2>2. FromGenesis(S) /\ ForLooks(S) /\ ForCoinbase(S) /\ ForTx(S)
    BY <1>1, <1>2, <1>3, <1>4, <2>1
  <2>3. \A n \in 0 .. Len(chain) : <<After(n), n, Size(n)>> \in S
    BY <2>2, ChainInduction
  <2>4. QED
    BY <2>1, <2>3
<1>6. QED
  BY <1>5

LEMMA TallyWeight ==
  ASSUME NEW s, Good(s), AllTallied(s), NEW p \in Spends
  PROVE  s.votes[p].weight \in Nat
<1> DEFINE x == s.votes[p]
           c == Creation(p)
           f == [a \in x.voted |-> Tx[c].weights[a]]
<1>1. TallyOf(x, p) /\ Tx[p].wallet \in Wallets
  BY FormAssumption DEF AllTallied
<1>2. CASE ~ x.live
  BY <1>1, <1>2 DEF TallyOf
<1>3. CASE x.live
  <2>1. \E d \in Creations : Tx[d].wallet = Tx[p].wallet
    BY <1>3 DEF Good
  <2>2. /\ IsFiniteSet(Signatories(c))
        /\ \A a \in Signatories(c) : Tx[c].weights[a] \in Nat \ {0}
    <3>1. c = CreationOf(Tx[p].wallet)
      BY SMTT(60) DEF Creation
    <3> HIDE DEF c
    <3>2. QED
      BY <2>1, <3>1, CreationFacts
  <2>3. x.voted \subseteq Signatories(c) /\ x.weight = SumOf(f)
    BY <1>1, <1>3 DEF TallyOf, WeightOf
  <2>4. IsFiniteSet(x.voted) /\ f \in [x.voted -> Nat]
    BY <2>2, <2>3, FS_Subset
  <2> HIDE DEF f, x, c
  <2>5. SumFunction(f) \in Nat
    BY <2>4, SumOfNaturals
  <2>6. QED
    BY <2>3, <2>5 DEF SumOf, x
<1>4. QED
  BY <1>2, <1>3

LEMMA FairStates ==
  ASSUME NEW s, Good(s), NEW n, Fair(s, n)
  PROVE  s \in LedgerStates
<1> DEFINE K == [bits : SUBSET Nat, count : Nat, full : Nat]
           O == [balance : Nat, origin : Txs \cup {NoTx}]
           V == [live : BOOLEAN, voted : SUBSET Accounts,
                 last : [Accounts -> Txs \cup {NoTx}], weight : Nat, executed : BOOLEAN]
<1>1. s \in Shapes /\ IsShape(s)
  BY ShapesFacts DEF Good
<1>2. s.nonce \in [Accounts \cup {Mint} -> Nat]
  BY <1>1 DEF IsShape, Fair
<1>3. s.keys \in [Accounts -> K]
  <2> SUFFICES ASSUME NEW a \in Accounts PROVE s.keys[a] \in K
    BY <1>1 DEF IsShape
  <2>1. s.keys[a] \in KeyStates /\ s.keys[a].full \in Nat /\ s.keys[a].count >= 0
    <3>1. GoodKeys(s.keys[a], KeyCount[a]) /\ s.keys[a].count >= 0
      BY DEF Good, Fair
    <3>2. Pages(KeyCount[a]) \in Nat
      BY PagesType, ChainAssumption
    <3>3. QED
      BY <3>1, <3>2 DEF GoodKeys
  <2>2. QED
    BY <2>1 DEF KeyStates
<1>4. s.tokens \in [Accounts -> [Tokens -> O]]
  <2>1. \A a \in Accounts : \A k \in Tokens : s.tokens[a][k] \in O
    BY <1>1 DEF IsShape, TokenStates, Fair
  <2> HIDE DEF O
  <2>2. QED
    BY <1>1, <2>1 DEF IsShape
<1>5. s.votes \in [Spends -> V]
  <2> SUFFICES ASSUME NEW p \in Spends PROVE s.votes[p] \in V
    BY <1>1 DEF IsShape
  <2>1. s.votes[p] \in VoteStates /\ s.votes[p].weight \in Nat
    BY <1>1, TallyWeight DEF IsShape, Fair
  <2>2. QED
    BY <2>1 DEF VoteStates
<1> HIDE DEF K, O, V
<1>6. s = [balance |-> s.balance, nonce |-> s.nonce, keys |-> s.keys, log |-> s.log,
           slaves |-> s.slaves, lattice |-> s.lattice, tokens |-> s.tokens,
           wallets |-> s.wallets, votes |-> s.votes, raised |-> s.raised]
  BY <1>1 DEF Shapes
<1>7. LedgerStates =
        [balance : [Addresses -> Int], nonce : [Accounts \cup {Mint} -> Nat],
         keys : [Accounts -> K], log : Lists,
         slaves : SUBSET (Accounts \X Accounts \X {0, 1}),
         lattice : SUBSET {<<Tx[t].from, Tx[t].keys>> : t \in OfKind("lattice")},
         tokens : [Accounts -> [Tokens -> O]], wallets : SUBSET Wallets,
         votes : [Spends -> V], raised : BOOLEAN]
  BY DEF LedgerStates, Lists, Elements, K, O, V
<1>8. QED
  BY <1>1, <1>2, <1>3, <1>4, <1>5, <1>6, <1>7 DEF IsShape

LEMMA NumberedEntries ==
  ASSUME NEW b \in Seq(EntrySet), \A i \in 1 .. Len(b) : b[i].nonce \in Nat
  PROVE  b \in Seq(Entries)
<1>1. \A e \in EntrySet : e.nonce \in Nat => e \in Entries
  BY DEF EntrySet, Entries, Ordinary
<1>2. \A i \in 1 .. Len(b) : b[i] \in EntrySet
  OBVIOUS
<1>3. QED
  BY <1>1, <1>2

(* What the container holds during a block, and the block's entries.        *)
LEMMA ContainerFair ==
  ASSUME ChainLinked
  PROVE  /\ sc \in LedgerStates
         /\ block \in Seq(Entries)
         /\ \A n \in 1 .. Len(chain) : chain[n] \in Seq(Entries)
<1>1. /\ LedgerInv /\ Types /\ Stored /\ Len(chain) \in Nat /\ Len(chain) <= MaxHeight
      /\ chain \in Seq(Seq(EntrySet)) /\ block \in Seq(EntrySet) /\ todo \in Seq(Ordinary)
      /\ Len(saved) = Len(chain) /\ MaxHeight \in Nat
  BY ChainAssumption DEF ChainLinked, LedgerInv, Types
<1>2. \A n \in 0 .. Len(chain) : Fair(After(n), n)
  BY FairAlong
<1>3. Good(db) /\ Fair(db, Len(chain))
  <2>1. After(Len(chain)) = db
    BY DEF After
  <2>2. QED
    BY <1>1, <1>2, <2>1 DEF Stored, Sound
<1>4. ASSUME NEW n \in 1 .. Len(chain)
      PROVE  /\ n \in 1 .. MaxHeight /\ Good(saved[n]) /\ Fair(saved[n], n - 1)
             /\ FeesIn(n) \in Nat /\ chain[n] \in Seq(EntrySet) /\ Len(chain[n]) \in Nat
  <2>1. n - 1 \in 0 .. Len(chain) /\ After(n - 1) = saved[n]
    BY <1>1 DEF After
  <2>2. QED
    BY SMTT(60), <1>1, <1>2, <2>1, PlaceFacts DEF Stored, Sound
<1>5. ASSUME NEW n \in 1 .. Len(chain)
      PROVE  chain[n] \in Seq(Entries)
  <2>1. PICK st : Trace(st, saved[n], n, chain[n], FeesIn(n))
    BY <1>1 DEF Stored, Leads, FeesIn
  <2> DEFINE b == chain[n]
  <2>2. b \in Seq(EntrySet) /\ Len(b) \in Nat
    BY <1>4
  <2>3. \A i \in 1 .. Len(b) : b[i].nonce \in Nat
    BY <1>4, <2>1, <2>2, FairTrace
  <2> HIDE DEF b
  <2>4. b \in Seq(Entries)
    BY <2>2, <2>3, NumberedEntries
  <2>5. QED
    BY <2>4 DEF b
<1>6. CASE phase = "idle"
  <2>1. sc = db /\ block = <<>>
    BY <1>1, <1>6 DEF LedgerInv, Resting
  <2>2. QED
    BY <1>3, <1>5, <2>1, FairStates
<1>7. CASE phase = "apply"
  <2>1. PICK st : \E prog : Running(st, prog)
    BY <1>1, <1>7 DEF LedgerInv, Applying
  <2>2. PICK prog : Running(st, prog)
    BY <2>1
  <2> DEFINE m == Len(chain) + 1
  <2>3. m \in 1 .. MaxHeight /\ m - 1 = Len(chain)
    BY <1>1, <1>7 DEF LedgerInv, Applying
  <2>4. /\ Trace(st, db, m, block, FeesOf(prog)) /\ FeesOf(prog) \in Nat
        /\ sc = st[Len(block)] /\ Len(block) \in Nat
    BY <1>1, <2>2, FeesFacts DEF Running
  <2> HIDE DEF m
  <2>5. /\ \A i \in 0 .. Len(block) : Fair(st[i], m) /\ Good(st[i])
        /\ \A i \in 1 .. Len(block) : block[i].nonce \in Nat
    BY ZenonT(60), <1>3, <2>3, <2>4, FairTrace DEF Trace
  <2>6. Fair(sc, m) /\ Good(sc)
    BY <2>4, <2>5
  <2>7. QED
    BY <1>1, <1>5, <2>5, <2>6, FairStates, NumberedEntries
<1>8. CASE phase = "revert"
  <2>1. chain # <<>> /\ IsShape(sc) /\ \E st : Undoing(st)
    BY <1>1, <1>8 DEF LedgerInv, Reverting
  <2>2. PICK st : Undoing(st)
    BY <2>1
  <2> DEFINE m == Len(chain)
             b == chain[m]
  <2>3. m \in 1 .. Len(chain)
    BY <1>1, <2>1
  <2>4. /\ Len(block) <= Len(b) /\ \A i \in 1 .. Len(block) : block[i] = b[i]
        /\ Trace(st, saved[m], m, b, FeesIn(m)) /\ Same(sc, st[Len(block)])
        /\ Len(block) \in Nat
    BY <1>1, <2>2 DEF Undoing, FeesIn
  <2>5. /\ m \in 1 .. MaxHeight /\ Good(saved[m]) /\ Fair(saved[m], m - 1)
        /\ FeesIn(m) \in Nat /\ b \in Seq(EntrySet) /\ Len(b) \in Nat
    BY <1>4, <2>3
  <2> HIDE DEF m, b
  <2>6. /\ \A i \in 0 .. Len(b) : Fair(st[i], m) /\ Good(st[i])
        /\ \A i \in 1 .. Len(b) : b[i].nonce \in Nat
    <3>1. PICK s, c, n, fees : s = saved[m] /\ c = b /\ n = m /\ fees = FeesIn(m)
      OBVIOUS
    <3>2. /\ \A i \in 0 .. Len(c) : Fair(st[i], n)
          /\ \A i \in 1 .. Len(c) : c[i].nonce \in Nat
      BY <2>4, <2>5, <3>1, FairTrace
    <3>3. \A i \in 0 .. Len(c) : Good(st[i])
      BY <2>4, <3>1 DEF Trace
    <3>4. QED
      BY <3>1, <3>2, <3>3
  <2>7. Len(block) \in 0 .. Len(b)
    BY <2>4, <2>5
  <2>8. Fair(sc, m) /\ Good(sc)
    BY <2>1, <2>4, <2>6, <2>7, FairAlike, SameIsGood
  <2>9. \A i \in 1 .. Len(block) : block[i].nonce \in Nat
    BY <2>4, <2>5, <2>6
  <2>10. QED
    BY <1>1, <1>5, <2>8, <2>9, FairStates, NumberedEntries
<1>9. QED
  BY <1>1, <1>6, <1>7, <1>8 DEF Types

LEMMA RevertsCounted == Spec => [](reverts \in 0 .. MaxReverts)
<1>1. Init => reverts \in 0 .. MaxReverts
  BY ChainAssumption DEF Init
<1>2. reverts \in 0 .. MaxReverts /\ [Next]_vars => (reverts \in 0 .. MaxReverts)'
  BY ChainAssumption
     DEF Next, vars, BeginBlock, ApplyTx, RejectBlock, CommitBlock, BeginRevert, RevertTx,
         RevertFails, CommitRevert
<1>3. QED
  BY <1>1, <1>2, PTL DEF Spec

(* No balance, nonce, weight or amount of tokens is ever negative, in the   *)
(* store, in a saved state, and in the container in the middle of a block,  *)
(* and the store holds nothing of a list that raised.                       *)
THEOREM LedgerTypeCorrect == Spec => []TypeOK
<1>1. ChainLinked /\ reverts \in 0 .. MaxReverts => TypeOK
  <2> SUFFICES ASSUME ChainLinked, reverts \in 0 .. MaxReverts PROVE TypeOK
    OBVIOUS
  <2>1. /\ LedgerInv /\ Types /\ Stored /\ Len(chain) \in Nat
        /\ Len(saved) = Len(chain) /\ saved \in Seq(Shapes)
    BY DEF ChainLinked, LedgerInv, Types
  <2>2. \A n \in 0 .. Len(chain) : Fair(After(n), n)
    BY FairAlong
  <2>3. Good(db) /\ Fair(db, Len(chain)) /\ db.raised = FALSE
    <3>1. After(Len(chain)) = db
      BY DEF After
    <3>2. QED
      BY <2>1, <2>2, <3>1 DEF Stored, Sound
  <2>4. db \in LedgerStates /\ \A a \in Addresses : db.balance[a] >= 0
    BY <2>3, FairStates DEF Fair
  <2>5. saved \in Seq(LedgerStates)
    <3>1. ASSUME NEW n \in 1 .. Len(chain) PROVE saved[n] \in LedgerStates
      <4>1. n - 1 \in 0 .. Len(chain) /\ After(n - 1) = saved[n]
        BY <2>1 DEF After
      <4>2. QED
        BY <2>1, <2>2, <4>1, FairStates DEF Stored, Sound
    <3>2. QED
      BY <2>1, <3>1
  <2>6. chain \in Seq(Seq(Entries))
    <3>1. PICK S, T : S = Seq(EntrySet) /\ T = Seq(Entries)
      OBVIOUS
    <3>2. chain \in Seq(S) /\ \A n \in 1 .. Len(chain) : chain[n] \in T
      BY <2>1, <3>1, ContainerFair DEF Types
    <3>3. chain \in Seq(T)
      BY <3>2
    <3>4. QED
      BY <3>1, <3>3
  <2>7. todo \in Seq(Txs)
    BY <2>1 DEF Types, Ordinary
  <2>8. QED
    BY <2>1, <2>3, <2>4, <2>5, <2>6, <2>7, ContainerFair DEF TypeOK, Types
<1>2. QED
  BY <1>1, ChainStaysLinked, RevertsCounted, PTL

-----------------------------------------------------------------------------
(* How the lists end                                                        *)

(* What the lists l of the addresses A must show for e to be taken off.     *)
Ends(L, l, A, e) == \A a \in A : EndsWith(L[l][a], e)

Apart(l, A, m, B) == l # m \/ A \cap B = {}

Alike(R, M, l, A) == \A a \in A : R[l][a] = M[l][a]

LEMMA ListFacts ==
  ASSUME NEW q \in Seq(Elements), NEW e \in Elements
  PROVE  /\ Append(q, e) \in Seq(Elements) /\ Append(q, e) # <<>>
         /\ EndsWith(Append(q, e), e)
         /\ SubSeq(Append(q, e), 1, Len(Append(q, e)) - 1) = q
<1>1. /\ Append(q, e) \in Seq(Elements) /\ Len(Append(q, e)) = Len(q) + 1
      /\ Append(q, e)[Len(q) + 1] = e /\ Len(q) \in Nat
      /\ \A i \in 1 .. Len(q) : Append(q, e)[i] = q[i]
  OBVIOUS
<1> DEFINE r == Append(q, e)
<1> HIDE DEF r
<1>2. r \in Seq(Elements) /\ Len(r) = Len(q) + 1 /\ r[Len(q) + 1] = e /\ Len(q) \in Nat
      /\ \A i \in 1 .. Len(q) : r[i] = q[i]
  BY <1>1 DEF r
<1>3. r # <<>> /\ EndsWith(r, e)
  BY <1>2 DEF EndsWith
<1>4. SubSeq(r, 1, Len(r) - 1) = q
  <2> DEFINE f == SubSeq(r, 1, Len(r) - 1)
  <2>1. f \in Seq(Elements) /\ Len(f) = Len(q) /\ \A i \in 1 .. Len(q) : f[i] = q[i]
    BY <1>2
  <2> HIDE DEF f
  <2>2. f = q
    BY <2>1, SeqEqual
  <2>3. QED
    BY <2>2 DEF f
<1>5. QED
  BY <1>2, <1>3, <1>4 DEF r

LEMMA LongerPage ==
  ASSUME NEW L \in Lists, NEW l \in Logs, NEW A, NEW e \in Elements
  PROVE  /\ Longer(L, l, A, e) \in Lists
         /\ \A m \in Logs, a \in Addresses :
              Longer(L, l, A, e)[m][a] = IF m = l /\ a \in A THEN Append(L[m][a], e) ELSE L[m][a]
BY DEF Longer, Lists

LEMMA ShorterPage ==
  ASSUME NEW L \in Lists, NEW l \in Logs, NEW A
  PROVE  /\ Shorter(L, l, A) \in Lists
         /\ \A m \in Logs, a \in Addresses :
              Shorter(L, l, A)[m][a] = IF m = l /\ a \in A /\ L[m][a] # <<>>
                                       THEN SubSeq(L[m][a], 1, Len(L[m][a]) - 1) ELSE L[m][a]
<1>1. \A r \in Seq(Elements) : r # <<>> => SubSeq(r, 1, Len(r) - 1) \in Seq(Elements)
  OBVIOUS
<1>2. QED
  BY <1>1 DEF Shorter, Lists

(* Pushing on other lists, or the same element, leaves the end.             *)
LEMMA EndsLonger ==
  ASSUME NEW L \in Lists, NEW l \in Logs, NEW A \in SUBSET Addresses, NEW e \in Elements,
         NEW m \in Logs, NEW B, NEW f \in Elements
  PROVE  /\ Longer(L, m, B, f) \in Lists
         /\ Ends(Longer(L, l, A, e), l, A, e)
         /\ Ends(L, l, A, e) /\ (Apart(l, A, m, B) \/ e = f) => Ends(Longer(L, m, B, f), l, A, e)
<1>1. Longer(L, m, B, f) \in Lists
  BY LongerPage
<1>2. ASSUME NEW a \in A
      PROVE  EndsWith(Longer(L, l, A, e)[l][a], e)
  <2>1. a \in Addresses /\ L[l][a] \in Seq(Elements)
    BY DEF Lists
  <2>2. Longer(L, l, A, e)[l][a] = Append(L[l][a], e)
    <3>1. PICK M : M = Longer(L, l, A, e)
      OBVIOUS
    <3>2. \A x \in Logs, b \in Addresses :
            M[x][b] = IF x = l /\ b \in A THEN Append(L[x][b], e) ELSE L[x][b]
      BY <3>1, LongerPage
    <3>3. M[l][a] = Append(L[l][a], e)
      BY <2>1, <3>2
    <3>4. QED
      BY <3>1, <3>3
  <2>3. QED
    BY <2>1, <2>2, ListFacts
<1>3. ASSUME Ends(L, l, A, e), Apart(l, A, m, B) \/ e = f, NEW a \in A
      PROVE  EndsWith(Longer(L, m, B, f)[l][a], e)
  <2>1. a \in Addresses /\ L[l][a] \in Seq(Elements) /\ EndsWith(L[l][a], e)
    BY <1>3 DEF Lists, Ends
  <2>2. Longer(L, m, B, f)[l][a] = IF l = m /\ a \in B THEN Append(L[l][a], f) ELSE L[l][a]
    BY <2>1, LongerPage
  <2>3. CASE l = m /\ a \in B
    <3>1. e = f
      BY <1>3, <2>3 DEF Apart
    <3>2. QED
      BY <2>1, <2>2, <2>3, <3>1, ListFacts
  <2>4. CASE ~ (l = m /\ a \in B)
    BY <2>1, <2>2, <2>4
  <2>5. QED
    BY <2>3, <2>4
<1>4. QED
  BY <1>1, <1>2, <1>3 DEF Ends

(* So does taking from other lists.                                         *)
LEMMA EndsShorter ==
  ASSUME NEW L \in Lists, NEW l \in Logs, NEW A \in SUBSET Addresses, NEW e,
         NEW m \in Logs, NEW B, Ends(L, l, A, e), Apart(l, A, m, B)
  PROVE  Shorter(L, m, B) \in Lists /\ Ends(Shorter(L, m, B), l, A, e)
<1>1. ASSUME NEW a \in A
      PROVE  Shorter(L, m, B)[l][a] = L[l][a]
  <2>1. a \in Addresses /\ ~ (l = m /\ a \in B)
    BY DEF Apart
  <2>2. QED
    BY <2>1, ShorterPage
<1>2. QED
  BY <1>1, ShorterPage DEF Ends

(* Elements that are on top of their lists can be taken off one by one.     *)
Runs2(R, l1, A1, e1, l2, A2, e2) ==
  Ends(R, l1, A1, e1) /\ Ends(Shorter(R, l1, A1), l2, A2, e2)

Runs3(R, l1, A1, e1, l2, A2, e2, l3, A3, e3) ==
  Ends(R, l1, A1, e1) /\ Runs2(Shorter(R, l1, A1), l2, A2, e2, l3, A3, e3)

Runs4(R, l1, A1, e1, l2, A2, e2, l3, A3, e3, l4, A4, e4) ==
  Ends(R, l1, A1, e1) /\ Runs3(Shorter(R, l1, A1), l2, A2, e2, l3, A3, e3, l4, A4, e4)

LEMMA Ready2 ==
  ASSUME NEW R \in Lists,
         NEW l1 \in Logs, NEW A1 \in SUBSET Addresses, NEW e1, Ends(R, l1, A1, e1),
         NEW l2 \in Logs, NEW A2 \in SUBSET Addresses, NEW e2, Ends(R, l2, A2, e2),
         Apart(l2, A2, l1, A1)
  PROVE  Runs2(R, l1, A1, e1, l2, A2, e2)
BY EndsShorter DEF Runs2

LEMMA Ready3 ==
  ASSUME NEW R \in Lists,
         NEW l1 \in Logs, NEW A1 \in SUBSET Addresses, NEW e1, Ends(R, l1, A1, e1),
         NEW l2 \in Logs, NEW A2 \in SUBSET Addresses, NEW e2, Ends(R, l2, A2, e2),
         NEW l3 \in Logs, NEW A3 \in SUBSET Addresses, NEW e3, Ends(R, l3, A3, e3),
         Apart(l2, A2, l1, A1), Apart(l3, A3, l1, A1), Apart(l3, A3, l2, A2)
  PROVE  Runs3(R, l1, A1, e1, l2, A2, e2, l3, A3, e3)
<1>1. PICK Q \in Lists : Q = Shorter(R, l1, A1)
  BY ShorterPage
<1>2. Ends(Q, l2, A2, e2) /\ Ends(Q, l3, A3, e3)
  BY <1>1, EndsShorter
<1>3. Runs2(Q, l2, A2, e2, l3, A3, e3)
  BY <1>2, Ready2
<1>4. QED
  BY <1>1, <1>3 DEF Runs3

LEMMA Ready4 ==
  ASSUME NEW R \in Lists,
         NEW l1 \in Logs, NEW A1 \in SUBSET Addresses, NEW e1, Ends(R, l1, A1, e1),
         NEW l2 \in Logs, NEW A2 \in SUBSET Addresses, NEW e2, Ends(R, l2, A2, e2),
         NEW l3 \in Logs, NEW A3 \in SUBSET Addresses, NEW e3, Ends(R, l3, A3, e3),
         NEW l4 \in Logs, NEW A4 \in SUBSET Addresses, NEW e4, Ends(R, l4, A4, e4),
         Apart(l2, A2, l1, A1), Apart(l3, A3, l1, A1), Apart(l4, A4, l1, A1),
         Apart(l3, A3, l2, A2), Apart(l4, A4, l2, A2), Apart(l4, A4, l3, A3)
  PROVE  Runs4(R, l1, A1, e1, l2, A2, e2, l3, A3, e3, l4, A4, e4)
<1>1. PICK Q \in Lists : Q = Shorter(R, l1, A1)
  BY ShorterPage
<1>2. Ends(Q, l2, A2, e2) /\ Ends(Q, l3, A3, e3) /\ Ends(Q, l4, A4, e4)
  BY <1>1, EndsShorter
<1>3. Runs3(Q, l2, A2, e2, l3, A3, e3, l4, A4, e4)
  BY <1>2, Ready3
<1>4. QED
  BY <1>1, <1>3 DEF Runs4

(* A container that takes nothing unexpected does not raise.                *)
Quiet(s) == IsState(s) /\ s.raised = FALSE

LEMMA QuietTaken ==
  ASSUME NEW s, Quiet(s), NEW l, NEW A, NEW e, Ends(s.log, l, A, e)
  PROVE  Quiet(RemoveFrom(s, l, A, e)) /\ RemoveFrom(s, l, A, e).log = Shorter(s.log, l, A)
<1>1. RemoveFrom(s, l, A, e).raised = (s.raised \/ \E a \in A : ~ EndsWith(s.log[l][a], e))
  BY RemoveRaises DEF Quiet
<1>2. ~ \E a \in A : ~ EndsWith(s.log[l][a], e)
  BY DEF Ends
<1>3. IsState(RemoveFrom(s, l, A, e)) /\ RemoveFrom(s, l, A, e).log = Shorter(s.log, l, A)
  BY RemoveFacts DEF Quiet
<1>4. QED
  BY <1>1, <1>2, <1>3 DEF Quiet

LEMMA QuietMoved ==
  ASSUME NEW s, Quiet(s), NEW pays
  PROVE  /\ Quiet(Give(s, pays)) /\ Give(s, pays).log = s.log
         /\ Quiet(Take(s, pays)) /\ Take(s, pays).log = s.log
BY GiveFacts, TakeFacts DEF Quiet

LEMMA QuietRefund ==
  ASSUME NEW s, Quiet(s), NEW t, Ends(s.log, "tx", {From(t)}, t)
  PROVE  Quiet(Refund(s, t)) /\ Refund(s, t).log = Shorter(s.log, "tx", {From(t)})
BY QuietMoved, QuietTaken DEF Refund

LEMMA QuietSigned ==
  ASSUME NEW s, Quiet(s), NEW t, Ends(s.log, "tx", OnlySigner(t), t)
  PROVE  RevertPK(s, t).raised = FALSE
<1> DEFINE i == RemoveFrom(s, "tx", OnlySigner(t), t)
           a == Signer(t)
           r == [i EXCEPT !.nonce[a] = @ - 1, !.keys[a] = UnsetKey(@, Tx[t].key)]
<1>1. Quiet(i)
  BY QuietTaken
<1>2. RevertPK(s, t) = r
  BY DEF RevertPK
<1> HIDE DEF i, a
<1>3. r.raised = i.raised
  BY <1>1 DEF Quiet, IsState, Fields
<1>4. QED
  BY <1>1, <1>2, <1>3 DEF Quiet

(* What the container shows before the transaction that led from s to u is  *)
(* undone.                                                                  *)
Before(r, u, s) ==
  /\ Good(s) /\ s.wallets \subseteq u.wallets
  /\ IsShape(r) /\ r.raised = FALSE /\ Same(r, u)

Seen(s, l, A) == l # "tx" \/ A \cap Wallets \subseteq s.wallets

LEMMA EndsSeen ==
  ASSUME NEW r, NEW u, NEW s, Before(r, u, s), NEW l \in Logs,
         NEW A \in SUBSET Addresses, NEW e, Ends(u.log, l, A, e),
         NEW B \in SUBSET A, Seen(s, l, B)
  PROVE  Ends(r.log, l, B, e)
<1>1. ASSUME NEW a \in B
      PROVE  r.log[l][a] = u.log[l][a]
  <2>1. a \in Addresses /\ Shown(u.wallets, l, a)
    BY DEF Before, Seen, Shown
  <2>2. QED
    BY <2>1 DEF Before, Same
<1>2. QED
  BY <1>1 DEF Ends

(* Four lists got an element each, and are to lose it, seen ones alone.     *)
Stack4(r, u, s, l1, A1, B1, e1, l2, A2, B2, e2, l3, A3, B3, e3, l4, A4, B4, e4) ==
  /\ Before(r, u, s)
  /\ l1 \in Logs /\ A1 \in SUBSET Addresses /\ e1 \in Elements
  /\ l2 \in Logs /\ A2 \in SUBSET Addresses /\ e2 \in Elements
  /\ l3 \in Logs /\ A3 \in SUBSET Addresses /\ e3 \in Elements
  /\ l4 \in Logs /\ A4 \in SUBSET Addresses /\ e4 \in Elements
  /\ B1 \in SUBSET A1 /\ B2 \in SUBSET A2 /\ B3 \in SUBSET A3 /\ B4 \in SUBSET A4
  /\ Seen(s, l1, B1) /\ Seen(s, l2, B2) /\ Seen(s, l3, B3) /\ Seen(s, l4, B4)
  /\ Apart(l1, A1, l2, A2) /\ Apart(l1, A1, l3, A3) /\ Apart(l1, A1, l4, A4)
  /\ Apart(l2, A2, l3, A3) /\ Apart(l2, A2, l4, A4) /\ Apart(l3, A3, l4, A4)
  /\ u.log = Longer(Longer(Longer(Longer(s.log, l1, A1, e1), l2, A2, e2), l3, A3, e3),
                    l4, A4, e4)

Stack3(r, u, s, l1, A1, B1, e1, l2, A2, B2, e2, l3, A3, B3, e3) ==
  /\ Before(r, u, s)
  /\ l1 \in Logs /\ A1 \in SUBSET Addresses /\ e1 \in Elements
  /\ l2 \in Logs /\ A2 \in SUBSET Addresses /\ e2 \in Elements
  /\ l3 \in Logs /\ A3 \in SUBSET Addresses /\ e3 \in Elements
  /\ B1 \in SUBSET A1 /\ B2 \in SUBSET A2 /\ B3 \in SUBSET A3
  /\ Seen(s, l1, B1) /\ Seen(s, l2, B2) /\ Seen(s, l3, B3)
  /\ Apart(l1, A1, l2, A2) /\ Apart(l1, A1, l3, A3) /\ Apart(l2, A2, l3, A3)
  /\ u.log = Longer(Longer(Longer(s.log, l1, A1, e1), l2, A2, e2), l3, A3, e3)

LEMMA ApartFacts ==
  ASSUME NEW l, NEW A, NEW m, NEW B, Apart(l, A, m, B), NEW C \in SUBSET A, NEW D \in SUBSET B
  PROVE  Apart(m, B, l, A) /\ Apart(m, D, l, C)
BY DEF Apart

LEMMA Stack4Runs ==
  ASSUME NEW r, NEW u, NEW s, NEW l1, NEW A1, NEW B1, NEW e1, NEW l2, NEW A2, NEW B2, NEW e2,
         NEW l3, NEW A3, NEW B3, NEW e3, NEW l4, NEW A4, NEW B4, NEW e4,
         Stack4(r, u, s, l1, A1, B1, e1, l2, A2, B2, e2, l3, A3, B3, e3, l4, A4, B4, e4)
  PROVE  Runs4(r.log, l1, B1, e1, l2, B2, e2, l3, B3, e3, l4, B4, e4)
<1>1. /\ Before(r, u, s)
      /\ l1 \in Logs /\ A1 \in SUBSET Addresses /\ e1 \in Elements
      /\ l2 \in Logs /\ A2 \in SUBSET Addresses /\ e2 \in Elements
      /\ l3 \in Logs /\ A3 \in SUBSET Addresses /\ e3 \in Elements
      /\ l4 \in Logs /\ A4 \in SUBSET Addresses /\ e4 \in Elements
      /\ B1 \in SUBSET A1 /\ B2 \in SUBSET A2 /\ B3 \in SUBSET A3 /\ B4 \in SUBSET A4
      /\ Seen(s, l1, B1) /\ Seen(s, l2, B2) /\ Seen(s, l3, B3) /\ Seen(s, l4, B4)
  BY DEF Stack4
<1>2. /\ Apart(l1, A1, l2, A2) /\ Apart(l1, A1, l3, A3) /\ Apart(l1, A1, l4, A4)
      /\ Apart(l2, A2, l3, A3) /\ Apart(l2, A2, l4, A4) /\ Apart(l3, A3, l4, A4)
      /\ u.log = Longer(Longer(Longer(Longer(s.log, l1, A1, e1), l2, A2, e2), l3, A3, e3),
                        l4, A4, e4)
  BY DEF Stack4
<1>3. PICK L0 \in Lists : L0 = s.log
  BY <1>1 DEF Before, Good, IsShape
<1>4. PICK L1 : L1 = Longer(L0, l1, A1, e1)
  OBVIOUS
<1>5. L1 \in Lists /\ Ends(L1, l1, A1, e1)
  BY <1>1, <1>4, EndsLonger
<1>6. PICK L2 : L2 = Longer(L1, l2, A2, e2)
  OBVIOUS
<1>7. L2 \in Lists /\ Ends(L2, l2, A2, e2) /\ Ends(L2, l1, A1, e1)
  BY <1>1, <1>2, <1>5, <1>6, EndsLonger
<1>8. PICK L3 : L3 = Longer(L2, l3, A3, e3)
  OBVIOUS
<1>9. L3 \in Lists /\ Ends(L3, l3, A3, e3) /\ Ends(L3, l2, A2, e2) /\ Ends(L3, l1, A1, e1)
  BY <1>1, <1>2, <1>7, <1>8, EndsLonger
<1>10. PICK L4 : L4 = Longer(L3, l4, A4, e4)
  OBVIOUS
<1>11. Ends(L4, l4, A4, e4) /\ Ends(L4, l3, A3, e3) /\ Ends(L4, l2, A2, e2)
       /\ Ends(L4, l1, A1, e1)
  BY <1>1, <1>2, <1>9, <1>10, EndsLonger
<1>12. u.log = L4
  BY <1>2, <1>3, <1>4, <1>6, <1>8, <1>10
<1>13. Ends(r.log, l1, B1, e1) /\ Ends(r.log, l2, B2, e2) /\ Ends(r.log, l3, B3, e3)
       /\ Ends(r.log, l4, B4, e4)
  BY <1>1, <1>11, <1>12, EndsSeen
<1>14. PICK R \in Lists : R = r.log
  BY <1>1 DEF Before, IsShape
<1>15. /\ Apart(l2, B2, l1, B1) /\ Apart(l3, B3, l1, B1) /\ Apart(l4, B4, l1, B1)
       /\ Apart(l3, B3, l2, B2) /\ Apart(l4, B4, l2, B2) /\ Apart(l4, B4, l3, B3)
  BY <1>1, <1>2, ApartFacts
<1>16. B1 \in SUBSET Addresses /\ B2 \in SUBSET Addresses /\ B3 \in SUBSET Addresses
       /\ B4 \in SUBSET Addresses
  BY <1>1
<1>17. Runs4(R, l1, B1, e1, l2, B2, e2, l3, B3, e3, l4, B4, e4)
  BY <1>1, <1>13, <1>14, <1>15, <1>16, Ready4
<1>18. QED
  BY <1>14, <1>17

LEMMA Stack3Runs ==
  ASSUME NEW r, NEW u, NEW s, NEW l1, NEW A1, NEW B1, NEW e1, NEW l2, NEW A2, NEW B2, NEW e2,
         NEW l3, NEW A3, NEW B3, NEW e3,
         Stack3(r, u, s, l1, A1, B1, e1, l2, A2, B2, e2, l3, A3, B3, e3)
  PROVE  Runs3(r.log, l1, B1, e1, l2, B2, e2, l3, B3, e3)
<1>1. /\ Before(r, u, s)
      /\ l1 \in Logs /\ A1 \in SUBSET Addresses /\ e1 \in Elements
      /\ l2 \in Logs /\ A2 \in SUBSET Addresses /\ e2 \in Elements
      /\ l3 \in Logs /\ A3 \in SUBSET Addresses /\ e3 \in Elements
      /\ B1 \in SUBSET A1 /\ B2 \in SUBSET A2 /\ B3 \in SUBSET A3
      /\ Seen(s, l1, B1) /\ Seen(s, l2, B2) /\ Seen(s, l3, B3)
  BY DEF Stack3
<1>2. /\ Apart(l1, A1, l2, A2) /\ Apart(l1, A1, l3, A3) /\ Apart(l2, A2, l3, A3)
      /\ u.log = Longer(Longer(Longer(s.log, l1, A1, e1), l2, A2, e2), l3, A3, e3)
  BY DEF Stack3
<1>3. PICK L0 \in Lists : L0 = s.log
  BY <1>1 DEF Before, Good, IsShape
<1>4. PICK L1 : L1 = Longer(L0, l1, A1, e1)
  OBVIOUS
<1>5. L1 \in Lists /\ Ends(L1, l1, A1, e1)
  BY <1>1, <1>4, EndsLonger
<1>6. PICK L2 : L2 = Longer(L1, l2, A2, e2)
  OBVIOUS
<1>7. L2 \in Lists /\ Ends(L2, l2, A2, e2) /\ Ends(L2, l1, A1, e1)
  BY <1>1, <1>2, <1>5, <1>6, EndsLonger
<1>8. PICK L3 : L3 = Longer(L2, l3, A3, e3)
  OBVIOUS
<1>9. L3 \in Lists /\ Ends(L3, l3, A3, e3) /\ Ends(L3, l2, A2, e2) /\ Ends(L3, l1, A1, e1)
  BY <1>1, <1>2, <1>7, <1>8, EndsLonger
<1>10. u.log = L3
  BY <1>2, <1>3, <1>4, <1>6, <1>8
<1>11. Ends(r.log, l1, B1, e1) /\ Ends(r.log, l2, B2, e2) /\ Ends(r.log, l3, B3, e3)
  BY <1>1, <1>9, <1>10, EndsSeen
<1>12. PICK R \in Lists : R = r.log
  BY <1>1 DEF Before, IsShape
<1>13. Apart(l2, B2, l1, B1) /\ Apart(l3, B3, l1, B1) /\ Apart(l3, B3, l2, B2)
  BY <1>1, <1>2, ApartFacts
<1>14. B1 \in SUBSET Addresses /\ B2 \in SUBSET Addresses /\ B3 \in SUBSET Addresses
  BY <1>1
<1>15. Runs3(R, l1, B1, e1, l2, B2, e2, l3, B3, e3)
  BY <1>1, <1>11, <1>12, <1>13, <1>14, Ready3
<1>16. QED
  BY <1>12, <1>15

(* The parties of a transaction.                                            *)
LEMMA PartyFacts ==
  ASSUME NEW t \in Ordinary, NEW A
  PROVE  /\ {From(t)} \in SUBSET Accounts /\ OnlySigner(t) \in SUBSET Accounts
         /\ {From(t)} \in SUBSET Addresses /\ OnlySigner(t) \in SUBSET Addresses
         /\ {From(t)} \cap OnlySigner(t) = {}
         /\ {From(t)} \cap OthersIn(t, A) = {} /\ OthersIn(t, A) \cap OnlySigner(t) = {}
         /\ OthersIn(t, A) \subseteq A
         /\ Accounts \subseteq Addresses /\ Wallets \subseteq Addresses
         /\ t \in Elements /\ "tx" \in Logs /\ "inbox" \in Logs /\ "lattice" \in Logs
         /\ "slaves" \in Logs /\ "tokens" \in Logs /\ "wallets" \in Logs /\ "spends" \in Logs
BY TxFacts DEF OnlySigner, OthersIn, Addresses, Logs

LEMMA AccountsSeen ==
  ASSUME NEW s, NEW l, NEW A \in SUBSET Accounts
  PROVE  Seen(s, l, A)
BY AddressAssumption DEF Seen

LEMMA TransferQuiet ==
  ASSUME NEW r, NEW u, NEW s, Before(r, u, s), NEW t \in Ordinary, TransferDone(u, s, t)
  PROVE  RevertTransfer(r, t).raised = FALSE
<1> DEFINE F == {From(t)}
           O == OthersIn(t, Payees(t))
           S == OnlySigner(t)
           r1 == RemoveFrom(Give(r, TransferTotal(t)), "tx", F, t)
           r2 == RemoveFrom(Take(r1, Tx[t].pays), "tx", O, t)
<1>1. Payees(t) \subseteq Accounts \cup Wallets /\ Payees(t) \cap Wallets \subseteq s.wallets
  BY FormAssumption DEF TransferDone, ValidTransfer
<1>2. /\ t \in Elements /\ "tx" \in Logs
      /\ F \in SUBSET Addresses /\ O \in SUBSET Addresses /\ S \in SUBSET Addresses
      /\ F \in SUBSET F /\ O \in SUBSET O /\ S \in SUBSET S
      /\ Seen(s, "tx", F) /\ Seen(s, "tx", S)
      /\ Apart("tx", F, "tx", O) /\ Apart("tx", F, "tx", S) /\ Apart("tx", O, "tx", S)
  BY <1>1, PartyFacts, AccountsSeen DEF Apart
<1>3. Seen(s, "tx", O)
  BY <1>1, PartyFacts DEF Seen
<1>4. u.log = Longer(Longer(Longer(s.log, "tx", F, t), "tx", O, t), "tx", S, t)
  BY DEF TransferDone
<1>5. RevertTransfer(r, t) = RevertPK(r2, t)
  BY DEF RevertTransfer, TransferTotal
<1> HIDE DEF F, O, S, r1, r2
<1>6. Stack3(r, u, s, "tx", F, F, t, "tx", O, O, t, "tx", S, S, t)
  BY <1>2, <1>3, <1>4 DEF Stack3
<1>7. Runs3(r.log, "tx", F, t, "tx", O, t, "tx", S, t)
  BY <1>6, Stack3Runs
<1>8. Quiet(r) /\ Quiet(Give(r, TransferTotal(t))) /\ Give(r, TransferTotal(t)).log = r.log
  BY QuietMoved DEF Before, IsShape, Quiet
<1>9. Quiet(r1) /\ r1.log = Shorter(r.log, "tx", F)
  BY <1>7, <1>8, QuietTaken DEF Runs3, r1
<1>10. Quiet(Take(r1, Tx[t].pays)) /\ Take(r1, Tx[t].pays).log = r1.log
  BY <1>9, QuietMoved
<1>11. Quiet(r2) /\ r2.log = Shorter(r1.log, "tx", O)
  BY <1>7, <1>9, <1>10, QuietTaken DEF Runs3, Runs2, r2
<1>12. Ends(r2.log, "tx", S, t)
  BY <1>7, <1>9, <1>11 DEF Runs3, Runs2
<1>13. QED
  BY <1>5, <1>11, <1>12, QuietSigned DEF S

LEMMA MessageQuiet ==
  ASSUME NEW r, NEW u, NEW s, Before(r, u, s), NEW t \in Ordinary, MessageDone(u, s, t)
  PROVE  RevertMessage(r, t).raised = FALSE
<1> DEFINE F == {From(t)}
           O == OthersIn(t, Tx[t].to)
           S == OnlySigner(t)
           r1 == Refund(r, t)
           r2 == RemoveFrom(r1, "tx", O, t)
           r3 == RemoveFrom(r2, "inbox", O, t)
<1>1. O \in SUBSET Accounts
  BY FormAssumption DEF MessageDone, OthersIn
<1>2. /\ t \in Elements /\ "tx" \in Logs /\ "inbox" \in Logs
      /\ F \in SUBSET Addresses /\ O \in SUBSET Addresses /\ S \in SUBSET Addresses
      /\ F \in SUBSET F /\ O \in SUBSET O /\ S \in SUBSET S
      /\ Seen(s, "tx", F) /\ Seen(s, "tx", O) /\ Seen(s, "inbox", O) /\ Seen(s, "tx", S)
      /\ Apart("tx", F, "tx", O) /\ Apart("tx", F, "inbox", O) /\ Apart("tx", F, "tx", S)
      /\ Apart("tx", O, "inbox", O) /\ Apart("tx", O, "tx", S) /\ Apart("inbox", O, "tx", S)
  BY <1>1, PartyFacts, AccountsSeen DEF Apart
<1>3. u.log = Longer(Longer(Longer(Longer(s.log, "tx", F, t), "tx", O, t), "inbox", O, t),
                     "tx", S, t)
  BY DEF MessageDone
<1>4. RevertMessage(r, t) = RevertPK(r3, t)
  BY DEF RevertMessage
<1> HIDE DEF F, O, S, r1, r2, r3
<1>5. Stack4(r, u, s, "tx", F, F, t, "tx", O, O, t, "inbox", O, O, t, "tx", S, S, t)
  BY <1>2, <1>3 DEF Stack4
<1>6. Runs4(r.log, "tx", F, t, "tx", O, t, "inbox", O, t, "tx", S, t)
  BY <1>5, Stack4Runs
<1>7. Quiet(r1) /\ r1.log = Shorter(r.log, "tx", F)
  BY <1>6, QuietRefund DEF Runs4, Before, IsShape, Quiet, r1, F
<1>8. Quiet(r2) /\ r2.log = Shorter(r1.log, "tx", O)
  BY <1>6, <1>7, QuietTaken DEF Runs4, Runs3, r2
<1>9. Quiet(r3) /\ r3.log = Shorter(r2.log, "inbox", O)
  BY <1>6, <1>7, <1>8, QuietTaken DEF Runs4, Runs3, Runs2, r3
<1>10. Ends(r3.log, "tx", S, t)
  BY <1>6, <1>7, <1>8, <1>9 DEF Runs4, Runs3, Runs2
<1>11. QED
  BY <1>4, <1>9, <1>10, QuietSigned DEF S

(* Lattice keys and slaves: up to what leaves the lists alone.              *)
LEMMA NotedQuiet ==
  ASSUME NEW r, NEW u, NEW s, Before(r, u, s), NEW t \in Ordinary,
         NEW l \in {"lattice", "slaves"}, NotedDone(u, s, t, l)
  PROVE  LET z == RemoveFrom(Refund(r, t), l, {From(t)}, t)
         IN  Quiet(z) /\ Ends(z.log, "tx", OnlySigner(t), t)
<1> DEFINE F == {From(t)}
           S == OnlySigner(t)
           r1 == Refund(r, t)
           r2 == RemoveFrom(r1, l, F, t)
<1>1. /\ t \in Elements /\ "tx" \in Logs /\ l \in Logs
      /\ F \in SUBSET Addresses /\ S \in SUBSET Addresses
      /\ F \in SUBSET F /\ S \in SUBSET S
      /\ Seen(s, "tx", F) /\ Seen(s, l, F) /\ Seen(s, "tx", S)
      /\ Apart("tx", F, l, F) /\ Apart("tx", F, "tx", S) /\ Apart(l, F, "tx", S)
  BY PartyFacts, AccountsSeen DEF Apart
<1>2. u.log = Longer(Longer(Longer(s.log, "tx", F, t), l, F, t), "tx", S, t)
  BY DEF NotedDone
<1> HIDE DEF F, S, r1, r2
<1>3. Stack3(r, u, s, "tx", F, F, t, l, F, F, t, "tx", S, S, t)
  BY <1>1, <1>2 DEF Stack3
<1>4. Runs3(r.log, "tx", F, t, l, F, t, "tx", S, t)
  BY <1>3, Stack3Runs
<1>5. Quiet(r1) /\ r1.log = Shorter(r.log, "tx", F)
  BY <1>4, QuietRefund DEF Runs3, Before, IsShape, Quiet, r1, F
<1>6. Quiet(r2) /\ r2.log = Shorter(r1.log, l, F)
  BY <1>4, <1>5, QuietTaken DEF Runs3, Runs2, r2
<1>7. Ends(r2.log, "tx", S, t)
  BY <1>4, <1>5, <1>6 DEF Runs3, Runs2
<1>8. QED
  BY <1>6, <1>7 DEF r2, r1, F, S

LEMMA LatticeQuiet ==
  ASSUME NEW r, NEW u, NEW s, Before(r, u, s), NEW t \in Ordinary,
         NotedDone(u, s, t, "lattice")
  PROVE  RevertLattice(r, t).raised = FALSE
<1> DEFINE z == RemoveFrom(Refund(r, t), "lattice", {From(t)}, t)
           K == z.lattice \ {<<From(t), Tx[t].keys>>}
           d == [z EXCEPT !.lattice = K]
<1>1. Quiet(z) /\ Ends(z.log, "tx", OnlySigner(t), t)
  BY NotedQuiet
<1>2. RevertLattice(r, t) = RevertPK(d, t)
  BY DEF RevertLattice
<1> HIDE DEF z, K
<1>3. IsState(d) /\ d.raised = z.raised /\ d.log = z.log
  BY <1>1 DEF Quiet, IsState, Fields
<1> HIDE DEF d
<1>4. QED
  BY <1>1, <1>2, <1>3, QuietSigned DEF Quiet

LEMMA SlaveQuiet ==
  ASSUME NEW r, NEW u, NEW s, Before(r, u, s), NEW t \in Ordinary,
         NotedDone(u, s, t, "slaves")
  PROVE  RevertSlave(r, t).raised = FALSE
<1> DEFINE z == RemoveFrom(Refund(r, t), "slaves", {From(t)}, t)
           K == z.slaves \ SlavesOf(t)
           d == [z EXCEPT !.slaves = K]
<1>1. Quiet(z) /\ Ends(z.log, "tx", OnlySigner(t), t)
  BY NotedQuiet
<1>2. RevertSlave(r, t) = RevertPK(d, t)
  BY DEF RevertSlave
<1> HIDE DEF z, K
<1>3. IsState(d) /\ d.raised = z.raised /\ d.log = z.log
  BY <1>1 DEF Quiet, IsState, Fields
<1> HIDE DEF d
<1>4. QED
  BY <1>1, <1>2, <1>3, QuietSigned DEF Quiet

LEMMA TokenQuiet ==
  ASSUME NEW r, NEW u, NEW s, Before(r, u, s), NEW t \in Ordinary, TokenDone(u, s, t)
  PROVE  RevertToken(r, t).raised = FALSE
<1> DEFINE A == TokenParties(t)
           P == Payees(t)
           r1 == RemoveFrom(r, "tx", A, t)
           r2 == RemoveFrom(r1, "tokens", P, t)
           d == Give(r2, Fee(t))
           x == Signer(t)
           T == Unmade(d.tokens, t)
           z == [d EXCEPT !.tokens = T, !.nonce[x] = @ - 1, !.keys[x] = UnsetKey(@, Tx[t].key)]
<1>1. P \in SUBSET Accounts /\ A \in SUBSET Accounts
  BY FormAssumption, TxFacts DEF TokenDone, TokenParties
<1>2. /\ t \in Elements /\ "tx" \in Logs /\ "tokens" \in Logs
      /\ P \in SUBSET Addresses /\ A \in SUBSET Addresses
      /\ A \in SUBSET A /\ P \in SUBSET P
      /\ Seen(s, "tx", A) /\ Seen(s, "tokens", P)
      /\ Apart("tx", A, "tokens", P) /\ Apart("tokens", P, "tx", A)
  BY <1>1, PartyFacts, AccountsSeen DEF Apart
<1>3. u.log = Longer(Longer(s.log, "tx", A, t), "tokens", P, t)
  BY DEF TokenDone
<1>4. RevertToken(r, t) = z
  BY Zenon DEF RevertToken, Unmade
<1> HIDE DEF A, P, r1, r2, d, x, T
<1>5. PICK L0 \in Lists : L0 = s.log
  BY DEF Before, Good, IsShape
<1>6. PICK L1 : L1 = Longer(L0, "tx", A, t)
  OBVIOUS
<1>7. L1 \in Lists /\ Ends(L1, "tx", A, t)
  BY <1>2, <1>6, EndsLonger
<1>8. PICK L2 : L2 = Longer(L1, "tokens", P, t)
  OBVIOUS
<1>9. Ends(L2, "tokens", P, t) /\ Ends(L2, "tx", A, t)
  BY <1>2, <1>7, <1>8, EndsLonger
<1>10. Ends(r.log, "tx", A, t) /\ Ends(r.log, "tokens", P, t)
  BY <1>2, <1>3, <1>5, <1>6, <1>8, <1>9, EndsSeen
<1>11. PICK R \in Lists : R = r.log
  BY DEF Before, IsShape
<1>12. Runs2(R, "tx", A, t, "tokens", P, t)
  BY <1>2, <1>10, <1>11, Ready2
<1>13. Quiet(r1) /\ r1.log = Shorter(r.log, "tx", A)
  BY <1>10, QuietTaken DEF Before, IsShape, Quiet, r1
<1>14. Quiet(r2)
  BY <1>11, <1>12, <1>13, QuietTaken DEF Runs2, r2
<1>15. Quiet(d)
  BY <1>14, QuietMoved DEF d
<1>16. z.raised = d.raised
  BY <1>15 DEF Quiet, IsState, Fields
<1>17. QED
  BY <1>4, <1>15, <1>16 DEF Quiet

LEMMA CreateQuiet ==
  ASSUME NEW r, NEW u, NEW s, Before(r, u, s), NEW c \in Ordinary, CreateDone(u, s, c)
  PROVE  RevertMultiSigCreate(r, c).raised = FALSE
<1> DEFINE w == Tx[c].wallet
           F == {From(c)}
           G == Signatories(c)
           O == OthersIn(c, G)
           W == {w} \cup O
           S == OnlySigner(c)
           r1 == Refund(r, c)
           r2 == RemoveFrom(r1, "tx", O, c)
           r3 == RemoveFrom(r2, "wallets", G, w)
           K == r3.wallets \ {w}
           B == [r3.balance EXCEPT ![w] = 0]
           d == [r3 EXCEPT !.wallets = K, !.balance = B]
<1>1. w \in Wallets /\ G \in SUBSET Accounts /\ O \in SUBSET Accounts
  BY FormAssumption DEF CreateDone, Signatories, OthersIn
<1>2. /\ c \in Elements /\ w \in Elements /\ "tx" \in Logs /\ "wallets" \in Logs
      /\ F \in SUBSET Addresses /\ W \in SUBSET Addresses /\ G \in SUBSET Addresses
      /\ S \in SUBSET Addresses
      /\ F \in SUBSET F /\ O \in SUBSET W /\ G \in SUBSET G /\ S \in SUBSET S
      /\ Seen(s, "tx", F) /\ Seen(s, "tx", O) /\ Seen(s, "wallets", G) /\ Seen(s, "tx", S)
  BY <1>1, PartyFacts, AccountsSeen DEF Elements
<1>3. /\ Apart("tx", F, "tx", W) /\ Apart("tx", F, "wallets", G) /\ Apart("tx", F, "tx", S)
      /\ Apart("tx", W, "wallets", G) /\ Apart("tx", W, "tx", S) /\ Apart("wallets", G, "tx", S)
  <2>1. F \subseteq Accounts /\ S \subseteq Accounts /\ F \cap O = {} /\ O \cap S = {}
        /\ F \cap S = {}
    BY PartyFacts
  <2>2. w \notin Accounts
    BY <1>1, AddressAssumption
  <2>3. QED
    BY <2>1, <2>2 DEF Apart
<1>4. u.log = Longer(Longer(Longer(Longer(s.log, "tx", F, c), "tx", W, c), "wallets", G, w),
                     "tx", S, c)
  BY DEF CreateDone
<1>5. RevertMultiSigCreate(r, c) = RevertPK([r3 EXCEPT !.wallets = @ \ {w}, !.balance[w] = 0], c)
  BY DEF RevertMultiSigCreate
<1> HIDE DEF w, F, G, O, W, S, r1, r2, r3
<1>6. Stack4(r, u, s, "tx", F, F, c, "tx", W, O, c, "wallets", G, G, w, "tx", S, S, c)
  BY <1>2, <1>3, <1>4 DEF Stack4
<1>7. Runs4(r.log, "tx", F, c, "tx", O, c, "wallets", G, w, "tx", S, c)
  BY <1>6, Stack4Runs
<1>8. Quiet(r1) /\ r1.log = Shorter(r.log, "tx", F)
  BY <1>7, QuietRefund DEF Runs4, Before, IsShape, Quiet, r1, F
<1>9. Quiet(r2) /\ r2.log = Shorter(r1.log, "tx", O)
  BY <1>7, <1>8, QuietTaken DEF Runs4, Runs3, r2
<1>10. Quiet(r3) /\ r3.log = Shorter(r2.log, "wallets", G)
  BY <1>7, <1>8, <1>9, QuietTaken DEF Runs4, Runs3, Runs2, r3
<1>11. Ends(r3.log, "tx", S, c)
  BY <1>7, <1>8, <1>9, <1>10 DEF Runs4, Runs3, Runs2
<1>12. d = [r3 EXCEPT !.wallets = @ \ {w}, !.balance[w] = 0]
  BY <1>10 DEF Quiet, IsState, Fields
<1> HIDE DEF K, B
<1>13. IsState(d) /\ d.raised = r3.raised /\ d.log = r3.log
  BY <1>10 DEF Quiet, IsState, Fields
<1> HIDE DEF d
<1>14. RevertMultiSigCreate(r, c) = RevertPK(d, c)
  BY <1>5, <1>12
<1>15. QED
  BY <1>10, <1>11, <1>13, <1>14, QuietSigned DEF Quiet, S

LEMMA SpendQuiet ==
  ASSUME NEW r, NEW u, NEW s, Before(r, u, s), NEW p \in Ordinary, SpendDone(u, s, p),
         NEW n, ValidMultiSigSpend(s, p, n)
  PROVE  RevertMultiSigSpend(r, p).raised = FALSE
<1> DEFINE w == Tx[p].wallet
           F == {From(p)}
           G == Signatories(Creation(p)) \cup {w}
           W == {w}
           S == OnlySigner(p)
           r1 == Refund(r, p)
           r2 == RemoveFrom(r1, "spends", G, p)
           r3 == RemoveFrom(r2, "tx", W, p)
           V == [r3.votes EXCEPT ![p] = NoVotes]
           d == [r3 EXCEPT !.votes = V]
<1>1. w \in Wallets /\ w \in s.wallets /\ Signatories(Creation(p)) \subseteq Accounts
  <2>1. w \in Wallets /\ w \in s.wallets
    BY FormAssumption DEF SpendDone, ValidMultiSigSpend
  <2>2. \E c \in Creations : Tx[c].wallet = w
    BY <2>1 DEF Before, Good
  <2>3. Signatories(CreationOf(w)) \subseteq Accounts
    BY <2>2, CreationFacts
  <2>4. QED
    BY <2>1, <2>3 DEF Creation
<1>2. /\ p \in Elements /\ "tx" \in Logs /\ "spends" \in Logs
      /\ F \in SUBSET Addresses /\ W \in SUBSET Addresses /\ G \in SUBSET Addresses
      /\ S \in SUBSET Addresses
      /\ F \in SUBSET F /\ W \in SUBSET W /\ G \in SUBSET G /\ S \in SUBSET S
      /\ Seen(s, "tx", F) /\ Seen(s, "tx", S) /\ Seen(s, "tx", W) /\ Seen(s, "spends", G)
  BY <1>1, PartyFacts, AccountsSeen DEF Seen
<1>3. /\ Apart("tx", F, "spends", G) /\ Apart("tx", F, "tx", W) /\ Apart("tx", F, "tx", S)
      /\ Apart("spends", G, "tx", W) /\ Apart("spends", G, "tx", S) /\ Apart("tx", W, "tx", S)
  <2>1. F \subseteq Accounts /\ S \subseteq Accounts /\ F \cap S = {}
    BY PartyFacts
  <2>2. w \notin Accounts
    BY <1>1, AddressAssumption
  <2>3. QED
    BY <2>1, <2>2 DEF Apart
<1>4. u.log = Longer(Longer(Longer(Longer(s.log, "tx", F, p), "spends", G, p), "tx", W, p),
                     "tx", S, p)
  BY DEF SpendDone
<1>5. RevertMultiSigSpend(r, p) = RevertPK(d, p)
  BY DEF RevertMultiSigSpend
<1> HIDE DEF w, F, G, W, S, r1, r2, r3, V
<1>6. Stack4(r, u, s, "tx", F, F, p, "spends", G, G, p, "tx", W, W, p, "tx", S, S, p)
  BY <1>2, <1>3, <1>4 DEF Stack4
<1>7. Runs4(r.log, "tx", F, p, "spends", G, p, "tx", W, p, "tx", S, p)
  BY <1>6, Stack4Runs
<1>8. Quiet(r1) /\ r1.log = Shorter(r.log, "tx", F)
  BY <1>7, QuietRefund DEF Runs4, Before, IsShape, Quiet, r1, F
<1>9. Quiet(r2) /\ r2.log = Shorter(r1.log, "spends", G)
  BY <1>7, <1>8, QuietTaken DEF Runs4, Runs3, r2
<1>10. Quiet(r3) /\ r3.log = Shorter(r2.log, "tx", W)
  BY <1>7, <1>8, <1>9, QuietTaken DEF Runs4, Runs3, Runs2, r3
<1>11. Ends(r3.log, "tx", S, p)
  BY <1>7, <1>8, <1>9, <1>10 DEF Runs4, Runs3, Runs2
<1>12. IsState(d) /\ d.raised = r3.raised /\ d.log = r3.log
  BY <1>10 DEF Quiet, IsState, Fields
<1> HIDE DEF d
<1>13. QED
  BY <1>5, <1>10, <1>11, <1>12, QuietSigned DEF Quiet, S

LEMMA AlikeSeen ==
  ASSUME NEW r, NEW u, NEW s, Before(r, u, s), NEW l \in Logs,
         NEW B \in SUBSET Addresses, Seen(s, l, B)
  PROVE  Alike(r.log, u.log, l, B)
<1>1. ASSUME NEW a \in B
      PROVE  r.log[l][a] = u.log[l][a]
  <2>1. a \in Addresses /\ Shown(u.wallets, l, a)
    BY DEF Before, Seen, Shown
  <2>2. QED
    BY <2>1 DEF Before, Same
<1>2. QED
  BY <1>1 DEF Alike

LEMMA AlikeShorter ==
  ASSUME NEW R \in Lists, NEW M, NEW l \in Logs, NEW B \in SUBSET Addresses, Alike(R, M, l, B),
         NEW m \in Logs, NEW A, Apart(l, B, m, A)
  PROVE  Shorter(R, m, A) \in Lists /\ Alike(Shorter(R, m, A), M, l, B)
<1>1. ASSUME NEW a \in B
      PROVE  Shorter(R, m, A)[l][a] = R[l][a]
  <2>1. a \in Addresses /\ ~ (l = m /\ a \in A)
    BY DEF Apart
  <2>2. QED
    BY <2>1, ShorterPage
<1>2. QED
  BY <1>1, ShorterPage DEF Alike

(* What was pushed twice can be taken off twice.                            *)
LEMMA EndsTwice ==
  ASSUME NEW L \in Lists, NEW R \in Lists, NEW l \in Logs, NEW A \in SUBSET Addresses,
         NEW B \in SUBSET Addresses, NEW e \in Elements,
         NEW K, K = Longer(L, l, A, e), NEW M, M = Longer(K, l, B, e), Alike(R, M, l, B)
  PROVE  Shorter(R, l, A) \in Lists /\ Ends(Shorter(R, l, A), l, B, e)
<1>1. K \in Lists /\ M \in Lists
  BY LongerPage
<1>2. PICK Q \in Lists : Q = Shorter(R, l, A)
  BY ShorterPage
<1>3. ASSUME NEW a \in B
      PROVE  EndsWith(Q[l][a], e)
  <2>1. a \in Addresses /\ L[l][a] \in Seq(Elements) /\ K[l][a] \in Seq(Elements)
    BY <1>1 DEF Lists
  <2>2. R[l][a] = Append(K[l][a], e)
    <3>1. \A x \in Logs, b \in Addresses :
            M[x][b] = IF x = l /\ b \in B THEN Append(K[x][b], e) ELSE K[x][b]
      BY <1>1, LongerPage
    <3>2. M[l][a] = Append(K[l][a], e)
      BY <2>1, <3>1
    <3>3. QED
      BY <3>2 DEF Alike
  <2>3. Q[l][a] = IF a \in A /\ R[l][a] # <<>>
                  THEN SubSeq(R[l][a], 1, Len(R[l][a]) - 1) ELSE R[l][a]
    BY <1>2, <2>1, ShorterPage
  <2>4. CASE a \in A
    <3>1. \A x \in Logs, b \in Addresses :
            K[x][b] = IF x = l /\ b \in A THEN Append(L[x][b], e) ELSE L[x][b]
      BY LongerPage
    <3>2. K[l][a] = Append(L[l][a], e)
      BY <2>1, <2>4, <3>1
    <3>3. Q[l][a] = K[l][a]
      BY <2>1, <2>2, <2>3, <2>4, ListFacts
    <3>4. QED
      BY <2>1, <3>2, <3>3, ListFacts
  <2>5. CASE a \notin A
    BY <2>1, <2>2, <2>3, <2>5, ListFacts
  <2>6. QED
    BY <2>4, <2>5
<1>4. QED
  BY <1>2, <1>3 DEF Ends

(* What is pushed on top and taken off leaves the end below.                *)
LEMMA EndsBelow ==
  ASSUME NEW L \in Lists, NEW R \in Lists, NEW l \in Logs, NEW A \in SUBSET Addresses,
         NEW B \in SUBSET Addresses, NEW e \in Elements, NEW f \in Elements,
         Ends(L, l, B, e), NEW M, M = Longer(L, l, A, f), Alike(R, M, l, B)
  PROVE  Shorter(R, l, A) \in Lists /\ Ends(Shorter(R, l, A), l, B, e)
<1>1. PICK Q \in Lists : Q = Shorter(R, l, A)
  BY ShorterPage
<1>2. ASSUME NEW a \in B
      PROVE  EndsWith(Q[l][a], e)
  <2>1. a \in Addresses /\ L[l][a] \in Seq(Elements) /\ EndsWith(L[l][a], e)
    BY DEF Lists, Ends
  <2>2. R[l][a] = IF a \in A THEN Append(L[l][a], f) ELSE L[l][a]
    <3>1. M[l][a] = IF a \in A THEN Append(L[l][a], f) ELSE L[l][a]
      BY <2>1, LongerPage
    <3>2. QED
      BY <3>1 DEF Alike
  <2>3. Q[l][a] = IF a \in A /\ R[l][a] # <<>>
                  THEN SubSeq(R[l][a], 1, Len(R[l][a]) - 1) ELSE R[l][a]
    BY <1>1, <2>1, ShorterPage
  <2>4. Q[l][a] = L[l][a]
    BY <2>1, <2>2, <2>3, ListFacts
  <2>5. QED
    BY <2>1, <2>4
<1>3. QED
  BY <1>1, <1>2 DEF Ends

(* The payees whose record t made are those that had none.                  *)
LEMMA HoldingAgain ==
  ASSUME NEW s, Good(s), NEW t \in OfKind("transfer_token"), KeyUnused(s, t),
         NEW T, T = Named(Moved(s.tokens, t, 1), Tx[t].token, Holding(s.tokens, t, NoTx), t)
  PROVE  Holding(T, t, t) = Holding(s.tokens, t, NoTx)
<1>1. t \in Ordinary /\ Tx[t].token \in Tokens
  BY FormAssumption DEF OfKind, Ordinary
<1>2. \A a \in Accounts : s.tokens[a][Tx[t].token].origin # t
  BY <1>1 DEF Good, Untouched
<1>3. s.tokens \in [Accounts -> [Tokens -> TokenStates]]
  BY DEF Good, IsShape
<1> DEFINE X == Named(Moved(s.tokens, t, 1), Tx[t].token, Holding(s.tokens, t, NoTx), t)
<1>4. Holding(X, t, t) = Holding(s.tokens, t, NoTx)
  BY <1>2, <1>3, MovedUndone
<1>5. QED
  BY <1>4

LEMMA TransferTokenQuiet ==
  ASSUME NEW r, NEW u, NEW s, Before(r, u, s), NEW t \in Ordinary, KeyUnused(s, t),
         TransferTokenDone(u, s, t)
  PROVE  RevertTransferToken(r, t).raised = FALSE
<1> DEFINE k == Tx[t].token
           N == Holding(s.tokens, t, NoTx)
           O == Holding(r.tokens, t, t)
           F == {From(t)}
           A == Payees(t) \ {From(t)}
           S == OnlySigner(t)
           m == SetOrigin(MoveTokens(r, t, -1), k, O, NoTx)
           r1 == RemoveFrom(m, "tokens", O, k)
           r2 == RemoveFrom(r1, "tx", A, t)
           r3 == Refund(r2, t)
<1>1. /\ t \in OfKind("transfer_token") /\ u.tokens = Named(Moved(s.tokens, t, 1), k, N, t)
      /\ u.log = Longer(Longer(Longer(Longer(s.log, "tx", F, t), "tokens", N, k), "tx", A, t),
                        "tx", S, t)
  BY DEF TransferTokenDone
<1>2. Payees(t) \subseteq Accounts /\ k \in Tokens /\ k \in Elements
  BY <1>1, FormAssumption DEF Tokens, OfKind, Elements
<1>3. /\ t \in Elements /\ "tx" \in Logs /\ "tokens" \in Logs
      /\ F \in SUBSET Addresses /\ A \in SUBSET Addresses /\ N \in SUBSET Addresses
      /\ S \in SUBSET Addresses
      /\ F \in SUBSET F /\ A \in SUBSET A /\ N \in SUBSET N
      /\ Seen(s, "tx", F) /\ Seen(s, "tx", A) /\ Seen(s, "tokens", N) /\ Seen(s, "tx", S)
      /\ Apart("tx", A, "tokens", N) /\ Apart("tx", F, "tokens", N)
      /\ Apart("tx", S, "tokens", N) /\ Apart("tokens", N, "tx", A) /\ Apart("tokens", N, "tx", S)
      /\ Apart("tx", F, "tx", A) /\ Apart("tx", S, "tx", F)
  <2>1. F \in SUBSET Accounts /\ A \in SUBSET Accounts /\ N \in SUBSET Accounts
        /\ S \in SUBSET Accounts
    BY <1>2, PartyFacts DEF Holding
  <2>2. QED
    BY <2>1, PartyFacts, AccountsSeen DEF Apart
<1>4. O = N
  <2>1. r.tokens = u.tokens
    BY DEF Before, Same, SameRest
  <2>2. Holding(r.tokens, t, t) = Holding(s.tokens, t, NoTx)
    BY <1>1, <2>1, HoldingAgain DEF Before
  <2>3. QED
    BY <2>2
<1>5. RevertTransferToken(r, t) = RevertPK(r3, t)
  BY DEF RevertTransferToken, Holding
<1>6. Quiet(m) /\ m.log = r.log
  BY MoveFacts DEF Before, IsShape, Quiet
<1> HIDE DEF k, N, O, F, A, S, m, r1, r2, r3
<1>7. PICK L0 \in Lists : L0 = s.log
  BY DEF Before, Good, IsShape
<1>8. PICK L1 \in Lists : L1 = Longer(L0, "tx", F, t)
  BY <1>3, LongerPage
<1>9. PICK L2 \in Lists : L2 = Longer(L1, "tokens", N, k)
  BY <1>2, <1>3, LongerPage
<1>10. PICK L3 \in Lists : L3 = Longer(L2, "tx", A, t)
  BY <1>3, LongerPage
<1>11. PICK M \in Lists : M = Longer(L3, "tx", S, t)
  BY <1>3, LongerPage
<1>12. u.log = M
  BY <1>1, <1>7, <1>8, <1>9, <1>10, <1>11
<1>13. Ends(L1, "tx", F, t) /\ Ends(L2, "tx", F, t) /\ Ends(L2, "tokens", N, k)
  BY <1>2, <1>3, <1>7, <1>8, <1>9, EndsLonger
<1>14. Ends(L3, "tx", F, t) /\ Ends(L3, "tx", A, t) /\ Ends(L3, "tokens", N, k)
  BY <1>2, <1>3, <1>10, <1>13, EndsLonger
<1>15. Ends(M, "tx", F, t) /\ Ends(M, "tx", A, t) /\ Ends(M, "tokens", N, k)
  BY <1>2, <1>3, <1>11, <1>14, EndsLonger
<1>16. Ends(r.log, "tx", F, t) /\ Ends(r.log, "tx", A, t) /\ Ends(r.log, "tokens", N, k)
  BY <1>3, <1>12, <1>15, EndsSeen
<1>17. PICK R \in Lists : R = r.log
  BY DEF Before, IsShape
<1>18. Alike(R, M, "tx", S)
  BY <1>3, <1>12, <1>17, AlikeSeen
<1>19. PICK Q1 \in Lists : Q1 = Shorter(R, "tokens", N)
  BY <1>3, ShorterPage
<1>20. Ends(Q1, "tx", F, t) /\ Ends(Q1, "tx", A, t) /\ Alike(Q1, M, "tx", S)
  BY <1>3, <1>16, <1>17, <1>18, <1>19, EndsShorter, AlikeShorter
<1>21. PICK Q2 \in Lists : Q2 = Shorter(Q1, "tx", A)
  BY <1>3, ShorterPage
<1>22. Ends(Q2, "tx", F, t) /\ Ends(Q2, "tx", S, t)
  BY <1>3, <1>10, <1>11, <1>20, <1>21, EndsShorter, EndsTwice
<1>23. Ends(Shorter(Q2, "tx", F), "tx", S, t)
  BY <1>3, <1>22, EndsShorter
<1>24. Quiet(r1) /\ r1.log = Q1
  BY <1>4, <1>6, <1>16, <1>17, <1>19, QuietTaken DEF r1
<1>25. Quiet(r2) /\ r2.log = Q2
  BY <1>20, <1>21, <1>24, QuietTaken DEF r2
<1>26. Quiet(r3) /\ r3.log = Shorter(Q2, "tx", F)
  BY <1>22, <1>25, QuietRefund DEF r3, F
<1>27. QED
  BY <1>5, <1>23, <1>26, QuietSigned DEF S

(* A vote left its word in the tally, and the payment if it made one.       *)
VoteKnown(y, x, v, n) ==
  /\ n <= Tx[Tx[v].spend].expiry
  /\ From(v) \in Signatories(Creation(Tx[v].spend))
  /\ Tx[v].unvote <=> From(v) \notin y.voted
  /\ y.last[From(v)] = v
  /\ y.executed <=> x
  /\ x => y.weight >= Tx[Creation(Tx[v].spend)].threshold

LEMMA VoteTold ==
  ASSUME NEW u, NEW s, Good(s), NEW v \in Ordinary, NEW n, VoteCast(u, s, v, n)
  PROVE  VoteKnown(u.votes[Tx[v].spend], Executes(s, v, n), v, n)
<1> DEFINE p == Tx[v].spend
           x == Executes(s, v, n)
           C == Counted(s.votes, v)
           D == SetExecuted(C, p, TRUE)
           old == s.votes[p]
           wt == Weight(v)
           for == ~ Tx[v].unvote
<1>1. /\ v \in OfKind("multi_sig_vote") /\ ValidMultiSigVote(s, v, n)
      /\ VoteDone(u, s, v, n)
  BY DEF VoteCast
<1>2. p \in Spends /\ Tx[v].unvote \in BOOLEAN /\ wt \in Int
  BY <1>1, VoteFacts
<1>3. /\ ~ old.executed /\ n <= Tx[p].expiry
      /\ From(v) \in Signatories(Creation(p)) /\ (Tx[v].unvote <=> From(v) \in old.voted)
  BY <1>1 DEF ValidMultiSigVote
<1>4. x => u.votes = D
  BY <1>1 DEF VoteDone
<1>5. ~ x => u.votes = C
  BY <1>1 DEF VoteDone
<1>6. x => C[p].weight >= Tx[Creation(p)].threshold
  BY DEF Executes
<1>7. old \in VoteStates /\ From(v) \in Accounts /\ v \in Txs \cup {NoTx}
      /\ s.votes \in [Spends -> VoteStates]
  BY <1>2, TxFacts DEF Good, IsShape
<1>8. C[p] = Tally(old, From(v), wt, for, v) /\ C \in [Spends -> VoteStates]
  <2>1. C = [s.votes EXCEPT ![p] = Tally(s.votes[p], From(v), wt, for, v)]
    BY DEF Counted, Recount
  <2>2. TallyDone(Tally(old, From(v), wt, for, v), old, From(v), wt, for, v)
    <3> HIDE DEF old, wt, for
    <3>1. QED
      BY SMTT(60), <1>2, <1>7, TallyEffect
  <2>3. Tally(old, From(v), wt, for, v) \in VoteStates
    BY <2>2 DEF TallyDone
  <2> HIDE DEF C, wt, for, p
  <2>4. QED
    BY <1>2, <1>7, <2>1, <2>3
<1> HIDE DEF C, wt, for, p, old, D
<1>9. TallyDone(C[p], old, From(v), wt, for, v)
  BY <1>2, <1>7, <1>8, TallyEffect
<1>10. /\ C[p].executed = old.executed /\ C[p].last[From(v)] = v
       /\ Tx[v].unvote <=> From(v) \notin C[p].voted
  <2>1. /\ C[p].executed = old.executed /\ C[p].last = [old.last EXCEPT ![From(v)] = v]
        /\ for => C[p].voted = old.voted \cup {From(v)}
        /\ ~ for => C[p].voted = old.voted \ {From(v)}
    BY <1>9 DEF TallyDone
  <2>2. old.last \in [Accounts -> Txs \cup {NoTx}]
    BY <1>7 DEF VoteStates
  <2>3. QED
    BY <1>2, <1>7, <2>1, <2>2 DEF for
<1>11. /\ D[p].voted = C[p].voted /\ D[p].last = C[p].last /\ D[p].weight = C[p].weight
       /\ D[p].executed = TRUE
  BY <1>2, <1>8, ExecutedFacts DEF D
<1>12. CASE x
  <2>1. u.votes[p] = D[p]
    BY <1>4, <1>12
  <2>2. QED
    BY <1>3, <1>6, <1>10, <1>11, <1>12, <2>1 DEF VoteKnown, p
<1>13. CASE ~ x
  <2>1. u.votes[p] = C[p]
    BY <1>5, <1>13
  <2>2. QED
    BY <1>3, <1>10, <1>13, <2>1 DEF VoteKnown, p
<1>14. QED
  BY <1>12, <1>13

LEMMA QuietUnexecuted ==
  ASSUME NEW r, Quiet(r), NEW p, NEW n, Withdrawable(r, p, n),
         Ends(r.log, "tx", OthersIn(p, Payees(p)), p)
  PROVE  /\ Quiet(Unexecute(r, p, n))
         /\ Unexecute(r, p, n).log = Shorter(r.log, "tx", OthersIn(p, Payees(p)))
<1> DEFINE b == Take(Give(r, Coins(Tx[p].wallet, Total(p))), Tx[p].pays)
           i == RemoveFrom(b, "tx", OthersIn(p, Payees(p)), p)
           V == [i.votes EXCEPT ![p].executed = FALSE]
           d == [i EXCEPT !.votes = V]
<1>1. Unexecute(r, p, n) = d
  BY DEF Unexecute, Withdrawable
<1>2. Quiet(b) /\ b.log = r.log
  BY QuietMoved
<1> HIDE DEF b
<1>3. Quiet(i) /\ i.log = Shorter(r.log, "tx", OthersIn(p, Payees(p)))
  BY <1>2, QuietTaken
<1> HIDE DEF i, V
<1>4. IsState(d) /\ d.raised = i.raised /\ d.log = i.log
  BY <1>3 DEF Quiet, IsState, Fields
<1>5. QED
  BY <1>1, <1>3, <1>4 DEF Quiet

(* Taking back a vote, from what its payment's undoing leaves.              *)
LEMMA QuietUncounted ==
  ASSUME NEW r, NEW e, NEW v, e.tx = v, NEW n, NEW d, d = Unexecute(r, Tx[v].spend, n),
         Quiet(d), Ends(d.log, "tx", {From(v)}, v),
         Ends(Shorter(d.log, "tx", {From(v)}), "tx", OnlySigner(v), v)
  PROVE  RevertMultiSigVote(r, e, n).raised = FALSE
<1> DEFINE p == Tx[v].spend
           V == Recount(d.votes, p, From(v), Weight(v), Tx[v].unvote, e.prev)
           c == [d EXCEPT !.votes = V]
           z == Refund(c, v)
<1>1. RevertMultiSigVote(r, e, n) = RevertPK(z, v)
  <2>1. c = [d EXCEPT !.votes[p] = Tally(@, From(v), Weight(v), Tx[v].unvote, e.prev)]
    BY Zenon DEF Recount
  <2>2. QED
    BY <2>1, e.tx = v, d = Unexecute(r, Tx[v].spend, n) DEF RevertMultiSigVote
<1> HIDE DEF V
<1>2. Quiet(c) /\ c.log = d.log
  BY DEF Quiet, IsState, Fields
<1> HIDE DEF c
<1>3. Quiet(z) /\ z.log = Shorter(d.log, "tx", {From(v)})
  BY <1>2, QuietRefund
<1> HIDE DEF z
<1>4. QED
  BY ZenonT(60), <1>1, <1>3, QuietSigned

LEMMA VoteQuiet ==
  ASSUME NEW r, NEW u, NEW s, Before(r, u, s), NEW v \in Ordinary, NEW n,
         VoteCast(u, s, v, n), ~ PaysOwnSigner(v), NEW e, e.tx = v
  PROVE  RevertMultiSigVote(r, e, n).raised = FALSE
<1> DEFINE p == Tx[v].spend
           x == Executes(s, v, n)
           F == {From(v)}
           A == OthersIn(p, Payees(p))
           S == OnlySigner(v)
           d == Unexecute(r, p, n)
<1>1. /\ v \in OfKind("multi_sig_vote") /\ ValidMultiSigVote(s, v, n)
      /\ VoteDone(u, s, v, n)
  BY DEF VoteCast
<1>2. /\ p \in Spends /\ p \in Ordinary /\ Payees(p) \subseteq Accounts \cup Wallets
      /\ Payees(p) \cap Wallets \subseteq s.wallets
  <2>1. p \in Spends /\ p \in Ordinary
    BY <1>1, VoteFacts DEF Before
  <2>2. s.votes[p].live
    BY <1>1 DEF ValidMultiSigVote
  <2>3. QED
    BY <2>1, <2>2, FormAssumption DEF Before, Good
<1>3. /\ v \in Elements /\ p \in Elements /\ "tx" \in Logs
      /\ F \in SUBSET Addresses /\ A \in SUBSET Addresses /\ S \in SUBSET Addresses
      /\ F \in SUBSET F /\ A \in SUBSET A /\ S \in SUBSET S
      /\ Seen(s, "tx", F) /\ Seen(s, "tx", S)
      /\ Apart("tx", F, "tx", S) /\ Apart("tx", S, "tx", F)
  BY <1>2, PartyFacts, AccountsSeen, TxFacts DEF Apart
<1>4. Seen(s, "tx", A)
  BY <1>2, PartyFacts DEF Seen
<1>5. Apart("tx", A, "tx", S) /\ Apart("tx", S, "tx", A)
  <2>1. Signer(v) = From(v) \/ Signer(v) \notin Payees(p)
    BY <1>1 DEF PaysOwnSigner, OfKind, Payees
  <2>2. A \cap S = {}
    BY <2>1 DEF OthersIn, OnlySigner
  <2>3. QED
    BY <2>2 DEF Apart
<1>6. VoteKnown(r.votes[p], x, v, n)
  <2>1. r.votes = u.votes
    BY DEF Before, Same, SameRest
  <2>2. QED
    BY <2>1, VoteTold DEF Before
<1>7. /\ x => u.log = Longer(Longer(Longer(s.log, "tx", F, v), "tx", A, p), "tx", S, v)
      /\ ~ x => u.log = Longer(Longer(s.log, "tx", F, v), "tx", S, v)
  BY <1>1 DEF VoteDone
<1>8. Quiet(r)
  BY DEF Before, IsShape, Quiet
<1>9. PICK L0 \in Lists : L0 = s.log
  BY DEF Before, Good, IsShape
<1>10. PICK R \in Lists : R = r.log
  BY DEF Before, IsShape
<1> HIDE DEF x, F, A, S, d
<1>11. PICK L1 \in Lists : L1 = Longer(L0, "tx", F, v)
  BY <1>3, LongerPage
<1>12. Ends(L1, "tx", F, v)
  BY <1>3, <1>9, <1>11, EndsLonger
<1>13. CASE x
  <2>1. PICK L2 \in Lists : L2 = Longer(L1, "tx", A, p)
    BY <1>3, LongerPage
  <2>2. PICK M \in Lists : M = Longer(L2, "tx", S, v)
    BY <1>3, LongerPage
  <2>3. u.log = M
    BY <1>7, <1>9, <1>11, <1>13, <2>1, <2>2
  <2>4. Ends(L2, "tx", A, p)
    BY <1>3, <1>11, <2>1, EndsLonger
  <2>5. Ends(M, "tx", A, p) /\ Ends(M, "tx", S, v)
    BY <1>3, <1>5, <2>1, <2>2, <2>4, EndsLonger
  <2>6. Ends(R, "tx", A, p) /\ Ends(R, "tx", S, v)
    BY <1>3, <1>4, <1>10, <2>3, <2>5, EndsSeen
  <2>7. Alike(R, L2, "tx", F)
    <3>1. Alike(R, M, "tx", F)
      BY <1>3, <1>10, <2>3, AlikeSeen
    <3>2. ASSUME NEW a \in F
          PROVE  M["tx"][a] = L2["tx"][a]
      <4>1. a \in Addresses /\ a \notin S
        BY <1>3 DEF Apart
      <4>2. QED
        BY <1>3, <2>2, <4>1, LongerPage
    <3>3. QED
      BY <3>1, <3>2 DEF Alike
  <2>8. PICK Q \in Lists : Q = Shorter(R, "tx", A)
    BY <1>3, ShorterPage
  <2>9. Ends(Q, "tx", F, v)
    BY <1>3, <1>11, <1>12, <2>1, <2>7, <2>8, EndsBelow
  <2>10. Ends(Q, "tx", S, v)
    BY <1>3, <1>5, <2>6, <2>8, EndsShorter
  <2>11. Ends(Shorter(Q, "tx", F), "tx", S, v)
    BY <1>3, <2>10, EndsShorter
  <2>12. Withdrawable(r, p, n)
    BY <1>6, <1>13 DEF VoteKnown, Withdrawable
  <2>13. Quiet(d) /\ d.log = Q
    BY <1>8, <1>10, <2>6, <2>8, <2>12, QuietUnexecuted DEF d, A
  <2>14. QED
    BY <2>9, <2>11, <2>13, QuietUncounted, e.tx = v DEF d, F, S
<1>14. CASE ~ x
  <2>1. PICK M \in Lists : M = Longer(L1, "tx", S, v)
    BY <1>3, LongerPage
  <2>2. u.log = M
    BY <1>7, <1>9, <1>11, <1>14, <2>1
  <2>3. Ends(M, "tx", F, v) /\ Ends(M, "tx", S, v)
    BY <1>3, <1>11, <1>12, <2>1, EndsLonger
  <2>4. Ends(R, "tx", F, v) /\ Ends(R, "tx", S, v)
    BY <1>3, <1>10, <2>2, <2>3, EndsSeen
  <2>5. Ends(Shorter(R, "tx", F), "tx", S, v)
    BY <1>3, <2>4, EndsShorter
  <2>6. ~ r.votes[p].executed
    BY <1>6, <1>14 DEF VoteKnown
  <2>7. d = r
    BY <2>6 DEF d, Unexecute
  <2>8. QED
    BY <1>8, <1>10, <2>4, <2>5, <2>7, QuietUncounted, e.tx = v DEF d, F, S
<1>15. QED
  BY <1>13, <1>14

(* No list refuses to give back what a transaction put on it.               *)
LEMMA RevertQuiet ==
  ASSUME NEW s, Good(s), NEW t \in Ordinary, NEW n, Valid(s, t, n),
         NEW u, u = Apply(s, t, n), NEW r, Before(r, u, s),
         NEW e, e = Entry(s, t), ~ PaysOwnSigner(t)
  PROVE  Revert(r, e, n).raised = FALSE
<1>1. e.tx = t
  BY DEF Entry
<1>2. KeyUnused(s, t)
  BY ValidFacts
<1>3. Effect(u, s, t, n)
  BY ApplyDoes
<1>4. CASE TransferDone(u, s, t)
  <2>1. Revert(r, e, n) = RevertTransfer(r, t)
    BY <1>1, <1>4 DEF TransferDone, OfKind, Revert
  <2>2. QED
    BY <1>4, <2>1, TransferQuiet
<1>5. CASE MessageDone(u, s, t)
  <2>1. Revert(r, e, n) = RevertMessage(r, t)
    BY <1>1, <1>5 DEF MessageDone, OfKind, Revert
  <2>2. QED
    BY <1>5, <2>1, MessageQuiet
<1>6. CASE t \in OfKind("lattice") /\ NotedDone(u, s, t, "lattice")
  <2>1. Revert(r, e, n) = RevertLattice(r, t)
    BY <1>1, <1>6 DEF OfKind, Revert
  <2>2. QED
    BY <1>6, <2>1, LatticeQuiet
<1>7. CASE t \in OfKind("slave") /\ NotedDone(u, s, t, "slaves")
  <2>1. Revert(r, e, n) = RevertSlave(r, t)
    BY <1>1, <1>7 DEF OfKind, Revert
  <2>2. QED
    BY <1>7, <2>1, SlaveQuiet
<1>8. CASE TokenDone(u, s, t)
  <2>1. Revert(r, e, n) = RevertToken(r, t)
    BY <1>1, <1>8 DEF TokenDone, Tokens, OfKind, Revert
  <2>2. QED
    BY <1>8, <2>1, TokenQuiet
<1>9. CASE TransferTokenDone(u, s, t)
  <2>1. Revert(r, e, n) = RevertTransferToken(r, t)
    BY <1>1, <1>9 DEF TransferTokenDone, OfKind, Revert
  <2>2. QED
    BY <1>2, <1>9, <2>1, TransferTokenQuiet
<1>10. CASE CreateDone(u, s, t)
  <2>1. Revert(r, e, n) = RevertMultiSigCreate(r, t)
    BY <1>1, <1>10 DEF CreateDone, Creations, OfKind, Revert
  <2>2. QED
    BY <1>10, <2>1, CreateQuiet
<1>11. CASE SpendDone(u, s, t)
  <2>1. Revert(r, e, n) = RevertMultiSigSpend(r, t) /\ ValidMultiSigSpend(s, t, n)
    BY <1>1, <1>11, ValidFacts DEF SpendDone, Spends, OfKind, Revert
  <2>2. QED
    BY <1>11, <2>1, SpendQuiet
<1>12. CASE VoteCast(u, s, t, n)
  <2>1. Revert(r, e, n) = RevertMultiSigVote(r, e, n)
    <3>1. Tx[t].kind = "multi_sig_vote"
      BY <1>12 DEF VoteCast, OfKind
    <3>2. QED
      BY <1>1, <3>1 DEF Revert
  <2>2. RevertMultiSigVote(r, e, n).raised = FALSE
    <3>1. Before(r, u, s) /\ VoteCast(u, s, t, n) /\ ~ PaysOwnSigner(t) /\ e.tx = t
      BY <1>1, <1>12
    <3>2. QED
      BY ZenonT(60), <3>1, VoteQuiet
  <2>3. QED
    BY <2>1, <2>2
<1>13. QED
  BY <1>3, <1>4, <1>5, <1>6, <1>7, <1>8, <1>9, <1>10, <1>11, <1>12 DEF Effect

(* The checks of revert_state_changes pass for the transaction that was     *)
(* applied last.                                                            *)
LEMMA CanRevertLast ==
  ASSUME NEW s, Good(s), NEW t \in Ordinary, NEW n, Valid(s, t, n),
         NEW u, u = Apply(s, t, n), NEW r, IsShape(r), r.raised = FALSE, Same(r, u),
         NEW e, e = Entry(s, t), ~ PaysOwnSigner(t)
  PROVE  CanRevert(r, e, n)
<1> DEFINE a == Signer(t)
           k == Tx[t].key
<1>1. e.tx = t /\ e.nonce = s.nonce[a] + 1
  BY DEF Entry
<1>2. Harmless(u, s, t)
  BY ApplyHarmless
<1>3. Signed(u, s, t) /\ s.wallets \subseteq u.wallets
  BY <1>2 DEF Harmless
<1>4. Before(r, u, s)
  BY <1>3 DEF Before
<1>5. Revert(r, e, n).raised = FALSE
  BY <1>4, RevertQuiet
<1>6. a \in Accounts /\ KeyFree(s.keys[a], k)
  BY TxFacts DEF Valid, Authorised
<1>7. r.nonce = u.nonce /\ r.keys = u.keys /\ r.votes = u.votes
  BY DEF Same, SameKeys, SameRest
<1>8. e.nonce = r.nonce[a]
  <2>1. s.nonce \in [Accounts \cup {Mint} -> Int]
    BY DEF Good, IsShape
  <2>2. u.nonce = [s.nonce EXCEPT ![a] = @ + 1]
    BY <1>3 DEF Signed
  <2> HIDE DEF a
  <2>3. QED
    BY <1>1, <1>6, <1>7, <2>1, <2>2
<1>9. KeyTaken(r.keys[a], k)
  <2>1. s.keys \in [Accounts -> KeyStates] /\ GoodKeys(s.keys[a], KeyCount[a])
    BY <1>6 DEF Good, IsShape
  <2>2. KeyCount[a] \in Nat /\ k \in 0 .. KeyCount[a] - 1 /\ k \notin s.keys[a].bits
    BY <1>6, TxFacts DEF KeyFree
  <2>3. SetKey(s.keys[a], k, KeyCount[a]).bits = s.keys[a].bits \cup {k}
    BY <2>1, <2>2, KeyFacts
  <2>4. u.keys = [s.keys EXCEPT ![a] = SetKey(@, k, KeyCount[a])]
    BY <1>3 DEF Signed
  <2> HIDE DEF a, k
  <2>5. r.keys[a] = SetKey(s.keys[a], k, KeyCount[a])
    BY <1>6, <1>7, <2>1, <2>4
  <2>6. QED
    BY <1>6, <2>3, <2>5 DEF KeyTaken, KeyFree
<1>10. ASSUME Tx[t].kind = "multi_sig_vote"
       PROVE  CanRevertVote(r, e, n)
  <2>1. VoteCast(u, s, t, n)
    <3>1. t \in OfKind("multi_sig_vote") /\ u = ApplyMultiSigVote(s, t, n)
          /\ ValidMultiSigVote(s, t, n)
      BY <1>10, ValidFacts DEF OfKind, Ordinary, Apply
    <3>2. VoteDone(ApplyMultiSigVote(s, t, n), s, t, n)
      BY VoteApplied DEF Good, IsShape
    <3>3. QED
      BY <3>1, <3>2 DEF VoteCast
  <2>2. VoteKnown(u.votes[Tx[t].spend], Executes(s, t, n), t, n)
    BY <2>1, VoteTold
  <2>3. QED
    BY <1>1, <1>7, <2>2 DEF VoteKnown, CanRevertVote
<1>11. QED
  BY <1>1, <1>5, <1>8, <1>9, <1>10 DEF CanRevert

(* A block of the main chain can be removed again, unless it holds a vote   *)
(* whose signing slave the spend it votes for pays: every check of          *)
(* revert_state_changes passes, and every list ends with what is taken off. *)
THEOREM RevertsFailOnlyForPaidSlaves == Spec => []RevertFailsOnlyForPaidSlave
<1>1. LedgerInv => RevertFailsOnlyForPaidSlave
  <2> SUFFICES ASSUME LedgerInv, phase = "revert", block # <<>>,
                      ~ PaysOwnSigner(block[Len(block)].tx)
               PROVE  CanRevert(sc, block[Len(block)], Len(chain))
    BY DEF RevertFailsOnlyForPaidSlave
  <2> DEFINE L == Len(chain)
             k == Len(block)
             e == block[k]
             t == e.tx
             b == chain[L]
  <2>1. Types /\ IsShape(sc) /\ sc.raised = FALSE
    BY DEF LedgerInv, Reverting
  <2>2. PICK st : Undoing(st)
    BY DEF LedgerInv, Reverting
  <2>3. /\ k <= Len(b) /\ \A i \in 1 .. k : block[i] = b[i]
        /\ Trace(st, saved[L], L, b, FeesOf(TxsOf(b)))
        /\ Same(sc, st[k])
    BY <2>2 DEF Undoing
  <2>4. block \in Seq(EntrySet) /\ k \in Nat \ {0}
    BY <2>1 DEF Types
  <2>5. b \in Seq(EntrySet)
    <3>1. chain \in Seq(Seq(EntrySet)) /\ chain # <<>>
      BY <2>1 DEF Types, LedgerInv, Reverting
    <3>2. QED
      BY <3>1
  <2> HIDE DEF b, L
  <2>6. k \in 1 .. Len(b) /\ k - 1 \in 0 .. Len(b) /\ e = b[k]
    BY <2>3, <2>4, <2>5
  <2> HIDE DEF e, k
  <2>7. PICK s : s = st[k - 1]
    OBVIOUS
  <2>8. PICK u : u = Apply(s, t, L)
    OBVIOUS
  <2>9. /\ Good(s) /\ t \in Ordinary /\ Valid(s, t, L) /\ e = Entry(s, t) /\ Same(sc, u)
    BY <2>3, <2>6, <2>7, <2>8 DEF Trace
  <2>10. ~ PaysOwnSigner(t)
    BY DEF e, k
  <2> HIDE DEF t
  <2>11. CanRevert(sc, e, L)
    BY <2>1, <2>8, <2>9, <2>10, CanRevertLast
  <2>12. QED
    BY <2>11 DEF e, k, L
<1>2. QED
  BY <1>1, LedgerInvariant, PTL

-----------------------------------------------------------------------------
(* Looking for a key                                                        *)

LEMMA LessMultiple ==
  ASSUME NEW m \in Nat \ {0}, NEW i \in Int, NEW j \in Int
  PROVE  /\ i * m \in Int /\ j * m \in Int
         /\ i * m < j * m => i < j
         /\ i < j => (i + 1) * m <= j * m /\ (i + 1) * m = i * m + m
<1>1. /\ i * m \in Int /\ j * m \in Int /\ m \in Int /\ m > 0
      /\ (i + 1) * m = i * m + m
  OBVIOUS
<1>2. ASSUME NEW x \in Int, NEW y \in Int, x <= y
      PROVE  x * m <= y * m
  <2>1. PICK d \in Nat : y = x + d
    <3>1. y - x \in Nat /\ y = x + (y - x)
      BY <1>2
    <3>2. QED
      BY <3>1
  <2>2. y * m = x * m + d * m
    BY <1>1, <2>1
  <2>3. d * m \in Nat /\ x * m \in Int
    BY <1>1
  <2>4. QED
    BY <2>2, <2>3
<1>3. ~ (i < j) => j * m <= i * m
  BY <1>2
<1>4. i < j => (i + 1) * m <= j * m
  <2>1. i < j => i + 1 <= j
    OBVIOUS
  <2>2. QED
    BY <1>2, <2>1
<1>5. QED
  BY <1>1, <1>3, <1>4

LEMMA Divided ==
  ASSUME NEW m \in Nat \ {0}, NEW q \in Nat, NEW r \in 0 .. m - 1, NEW i, i = q * m + r
  PROVE  i \in Nat /\ i \div m = q /\ i % m = r
<1>1. q * m \in Nat /\ i \in Nat
  OBVIOUS
<1> DEFINE d == i \div m
           e == i % m
<1>2. d \in Nat /\ e \in 0 .. m - 1 /\ i = d * m + e
  BY <1>1
<1> HIDE DEF d, e
<1>3. /\ d * m < (q + 1) * m /\ q * m < (d + 1) * m
      /\ d * m \in Nat
  BY <1>1, <1>2
<1>4. d < q + 1 /\ q < d + 1
  <2>1. q + 1 \in Int /\ d + 1 \in Int
    BY <1>2
  <2>2. QED
    BY <1>2, <1>3, <2>1, LessMultiple
<1>5. d = q
  BY <1>2, <1>4
<1>6. e = r
  BY <1>1, <1>2, <1>5
<1>7. QED
  BY <1>1, <1>5, <1>6 DEF d, e

LEMMA Quotients ==
  ASSUME NEW m \in Nat \ {0}, NEW i \in Nat
  PROVE  \E q \in Nat, r \in 0 .. m - 1 : i = q * m + r /\ i \div m = q
<1> DEFINE d == i \div m
           e == i % m
<1>1. d \in Nat /\ e \in 0 .. m - 1 /\ i = d * m + e
  OBVIOUS
<1> HIDE DEF d, e
<1>2. i \div m = d
  BY DEF d
<1>3. QED
  BY <1>1, <1>2

LEMMA LeastIs ==
  ASSUME NEW S, S \subseteq Int, NEW x \in S, \A y \in S : x <= y
  PROVE  Min(S) = x
<1>1. \A z \in S : (\A y \in S : z <= y) => z = x
  OBVIOUS
<1>2. QED
  BY <1>1 DEF Min

(* What the proof needs to know of the sizes: c is the number of bytes of a *)
(* page.                                                                    *)
PageOf(c) ==
  /\ c \in Nat \ {0} /\ KeysPerByte \in Nat \ {0} /\ KeysPerPage \in Nat \ {0}
  /\ KeysPerByte > 1
  /\ KeysPerPage = c * KeysPerByte /\ c < KeysPerPage
  /\ KeysPerPage \div KeysPerByte = c

LEMMA BytesOfPage == \E c \in Nat : PageOf(c)
<1>1. PICK c \in 1 .. KeysPerPage : KeysPerPage = c * KeysPerByte
  BY PageAssumption
<1>2. KeysPerPage \in Nat \ {0} /\ KeysPerByte \in Nat \ {0} /\ KeysPerByte > 1
  BY PageSize, PageAssumption, SearchAssumption
<1>3. c \in Nat \ {0} /\ c \in Nat
  BY <1>2
<1>4. c < KeysPerPage
  <2>1. 1 * c < KeysPerByte * c
    <3>1. (1 + 1) * c <= KeysPerByte * c /\ (1 + 1) * c = c + c
      BY <1>2, <1>3, LessMultiple
    <3>2. QED
      BY <1>2, <1>3, <3>1
  <2>2. QED
    BY <1>1, <1>2, <1>3, <2>1
<1>5. KeysPerPage \div KeysPerByte = c
  <2>1. 0 \in 0 .. KeysPerByte - 1 /\ KeysPerPage = c * KeysPerByte + 0
    BY <1>1, <1>2, <1>3
  <2>2. QED
    BY <1>2, <1>3, <2>1, Divided
<1>6. QED
  BY <1>1, <1>2, <1>3, <1>4, <1>5 DEF PageOf

(* The keys that the search reads at byte r of page j + 1.                  *)
ByteKeys(j, r) ==
  KeysPerByte * r + j * KeysPerPage .. KeysPerByte * r + j * KeysPerPage + KeysPerByte - 1

LEMMA ByteFacts ==
  ASSUME NEW c, PageOf(c), NEW j \in Nat, NEW r \in 0 .. KeysPerPage - 1,
         NEW i, i = j * KeysPerPage + r, NEW b, NEW start
  PROVE  /\ i \in Nat
         /\ BeyondPage(i) <=> r >= c
         /\ FreeInByte(b, i, start) = {k \in ByteKeys(j, r) : k \notin b.bits /\ k >= start}
<1>1. /\ KeysPerPage \in Nat \ {0} /\ KeysPerPage \div KeysPerByte = c
      /\ KeysPerByte \in Nat \ {0} /\ c \in Nat
  BY DEF PageOf
<1>2. i \in Nat /\ i \div KeysPerPage = j /\ i % KeysPerPage = r
  BY <1>1, Divided
<1>3. BeyondPage(i) <=> r >= c
  BY <1>1, <1>2 DEF BeyondPage
<1>4. FreeInByte(b, i, start) = {k \in ByteKeys(j, r) : k \notin b.bits /\ k >= start}
  BY <1>2, Zenon DEF FreeInByte, ByteKeys
<1>5. QED
  BY <1>2, <1>3, <1>4

(* The bytes of the search.                                                 *)
Searched(b, n, start) == FirstByte(b, start) .. (n \div KeysPerByte) - 1

Stops(b, i, start) == BeyondPage(i) \/ FreeInByte(b, i, start) # {}

LEMMA StopsAt ==
  ASSUME NEW b, NEW n, NEW start, b.full # Pages(n),
         NEW x \in Searched(b, n, start), Searched(b, n, start) \subseteq Int,
         Stops(b, x, start),
         \A i \in Searched(b, n, start) : i < x => ~ Stops(b, i, start)
  PROVE  FindUnused(b, n, start) = IF BeyondPage(x) THEN Raises ELSE Min(FreeInByte(b, x, start))
<1> DEFINE S == {i \in Searched(b, n, start) : Stops(b, i, start)}
<1>1. S \subseteq Int /\ x \in S /\ \A i \in S : x <= i
  <2>1. \A i \in S : i \in Int /\ x \in Int /\ ~ (i < x)
    OBVIOUS
  <2>2. QED
    BY <2>1
<1>2. S # {}
  BY <1>1
<1>3. Min(S) = x
  <2> HIDE DEF S
  <2>1. QED
    BY <1>1, LeastIs
<1>4. FindUnused(b, n, start) = IF b.full = Pages(n) \/ S = {} THEN NoKey
                                ELSE IF BeyondPage(Min(S)) THEN Raises
                                ELSE Min(FreeInByte(b, Min(S), start))
  BY Zenon DEF FindUnused, Searched, Stops
<1> HIDE DEF S
<1>5. QED
  BY <1>2, <1>3, <1>4

LEMMA StopsNowhere ==
  ASSUME NEW b, NEW n, NEW start,
         b.full = Pages(n) \/ \A i \in Searched(b, n, start) : ~ Stops(b, i, start)
  PROVE  FindUnused(b, n, start) = NoKey
<1> DEFINE S == {i \in Searched(b, n, start) : Stops(b, i, start)}
<1>1. b.full = Pages(n) \/ S = {}
  OBVIOUS
<1>2. FindUnused(b, n, start) = IF b.full = Pages(n) \/ S = {} THEN NoKey
                                ELSE IF BeyondPage(Min(S)) THEN Raises
                                ELSE Min(FreeInByte(b, Min(S), start))
  BY Zenon DEF FindUnused, Searched, Stops
<1> HIDE DEF S
<1>3. QED
  BY <1>1, <1>2

LEMMA GreatestIs ==
  ASSUME NEW S, S \subseteq Int, NEW x \in S, \A y \in S : y <= x
  PROVE  Max(S) = x
<1>1. \A z \in S : (\A y \in S : z >= y) => z = x
  OBVIOUS
<1>2. \A y \in S : x >= y
  OBVIOUS
<1>3. QED
  BY <1>1, <1>2 DEF Max

(* An address with n keys, whose search is told about.                      *)
Searchable(b, n) ==
  /\ n \in Nat \ {0} /\ GoodKeys(b, n)
  /\ \A k \in b.bits : Readable(k)
  /\ \E i \in 1 .. n : n = i * KeysPerByte
  /\ n > KeysPerPage * KeysPerByte => \E i \in 1 .. n : n = i * (KeysPerPage * KeysPerByte)

Fit(b, n, start) == {k \in 0 .. n - 1 : k \notin b.bits /\ start <= k /\ k < KeysPerPage}

Answers(b, n, start, found) ==
  IF Fit(b, n, start) # {}
  THEN found \in Fit(b, n, start) /\ \A k \in Fit(b, n, start) : found <= k
  ELSE found = IF n > KeysPerPage THEN Raises ELSE NoKey

(* The bytes from the first one of page m + 1 on.                           *)
LEMMA SearchFrom ==
  ASSUME NEW c, PageOf(c), NEW t \in Nat, NEW n, n = t * KeysPerByte, NEW b, NEW start,
         NEW m \in Nat, m = Max({b.full, start \div KeysPerPage})
  PROVE  Searched(b, n, start) = m * c .. t - 1
<1>1. /\ KeysPerPage \in Nat \ {0} /\ KeysPerByte \in Nat \ {0} /\ c \in Nat
      /\ KeysPerPage = c * KeysPerByte /\ 0 \in 0 .. KeysPerByte - 1
  BY DEF PageOf
<1>2. n \div KeysPerByte = t
  <2>1. n = t * KeysPerByte + 0
    BY <1>1
  <2>2. QED
    BY <1>1, <2>1, Divided
<1>3. (m * KeysPerPage) \div KeysPerByte = m * c
  <2> DEFINE q == m * c
  <2>1. q \in Nat /\ m * KeysPerPage = q * KeysPerByte + 0
    BY <1>1
  <2> HIDE DEF q
  <2>2. (m * KeysPerPage) \div KeysPerByte = q
    BY <1>1, <2>1, Divided
  <2>3. QED
    BY <2>2 DEF q
<1>4. QED
  BY <1>2, <1>3, Zenon DEF Searched, FirstByte

(* Nothing marks the first page: the search begins there.                   *)
LEMMA FirstPageSearched ==
  ASSUME NEW c, PageOf(c), NEW b, NEW n, Searchable(b, n), NEW start \in 0 .. n - 1,
         b.full # Pages(n), b.full = 0, start \div KeysPerPage = 0
  PROVE  Answers(b, n, start, FindUnused(b, n, start))
<1>1. /\ KeysPerPage \in Nat \ {0} /\ KeysPerByte \in Nat \ {0} /\ c \in Nat \ {0}
      /\ KeysPerPage = c * KeysPerByte /\ c < KeysPerPage
  BY DEF PageOf
<1>2. PICK t \in 1 .. n : n = t * KeysPerByte
  BY DEF Searchable
<1>3. n \in Nat /\ t \in Nat /\ start \in Nat
  BY DEF Searchable
<1>4. Searched(b, n, start) = 0 .. t - 1
  <2> DEFINE S == {b.full, start \div KeysPerPage}
  <2>1. S \subseteq Int /\ 0 \in S /\ \A y \in S : y <= 0
    OBVIOUS
  <2>2. Max(S) = 0
    <3> HIDE DEF S
    <3>1. QED
      BY <2>1, GreatestIs
  <2>3. 0 \in Nat /\ 0 * c = 0
    BY <1>1
  <2>4. Searched(b, n, start) = 0 * c .. t - 1
    BY <1>2, <1>3, <2>2, <2>3, SearchFrom
  <2>5. QED
    BY <2>3, <2>4
<1> DEFINE F == Fit(b, n, start)
           free(r) == FreeInByte(b, r, start)
<1>5. F \subseteq Nat
  BY DEF Fit
<1>6. ASSUME NEW r \in 0 .. c
      PROVE  /\ BeyondPage(r) <=> r >= c
             /\ free(r) = {k \in ByteKeys(0, r) : k \notin b.bits /\ k >= start}
             /\ ByteKeys(0, r) = r * KeysPerByte .. r * KeysPerByte + KeysPerByte - 1
             /\ r * KeysPerByte \in Nat
  <2>1. r \in 0 .. KeysPerPage - 1 /\ r = 0 * KeysPerPage + r
    BY <1>1
  <2>2. 0 \in Nat
    OBVIOUS
  <2>3. /\ BeyondPage(r) <=> r >= c
        /\ free(r) = {k \in ByteKeys(0, r) : k \notin b.bits /\ k >= start}
    BY <2>1, <2>2, ByteFacts
  <2>4. KeysPerByte * r = r * KeysPerByte /\ 0 * KeysPerPage = 0 /\ r * KeysPerByte \in Nat
    BY <1>1
  <2>5. ByteKeys(0, r) = r * KeysPerByte .. r * KeysPerByte + KeysPerByte - 1
    BY <1>1, <2>4 DEF ByteKeys
  <2>6. QED
    BY <2>3, <2>4, <2>5
<1>7. ASSUME NEW r \in 0 .. c - 1, r < t
      PROVE  free(r) \subseteq F
  <2>1. /\ r * KeysPerByte + KeysPerByte <= c * KeysPerByte
        /\ r * KeysPerByte + KeysPerByte <= t * KeysPerByte
    <3>1. r \in Int /\ c \in Int /\ t \in Int /\ r < c
      BY <1>1, <1>3
    <3>2. QED
      BY <1>1, <1>7, <3>1, LessMultiple
  <2>2. r * KeysPerByte \in Nat /\ free(r) =
           {k \in r * KeysPerByte .. r * KeysPerByte + KeysPerByte - 1 :
              k \notin b.bits /\ k >= start}
    <3>1. r \in 0 .. c
      BY <1>1
    <3>2. QED
      BY <1>6, <3>1
  <2> DEFINE x == r * KeysPerByte
  <2> HIDE DEF x, free
  <2>3. /\ x + KeysPerByte <= KeysPerPage /\ x + KeysPerByte <= n /\ x \in Nat
        /\ free(r) = {k \in x .. x + KeysPerByte - 1 : k \notin b.bits /\ k >= start}
    BY <1>1, <1>2, <2>1, <2>2 DEF x
  <2>4. QED
    BY <1>1, <1>3, <2>3 DEF Fit
<1>8. CASE F # {}
  <2> HIDE DEF F
  <2>1. PICK k \in F : \A i \in F : k <= i
    BY <1>5, <1>8, Least
  <2>2. k \in Nat /\ k < n /\ k < KeysPerPage /\ k \notin b.bits /\ start <= k
    BY <1>3, <2>1 DEF F, Fit
  <2>3. PICK r \in Nat, e \in 0 .. KeysPerByte - 1 : k = r * KeysPerByte + e
                                                    /\ k \div KeysPerByte = r
    BY <1>1, <2>2, Quotients
  <2>4. r * KeysPerByte \in Nat
    BY <1>1, <2>3
  <2>5. r < c /\ r < t
    <3>1. r * KeysPerByte < c * KeysPerByte /\ r * KeysPerByte < t * KeysPerByte
      BY <1>1, <1>2, <2>2, <2>3, <2>4
    <3>2. QED
      BY <1>1, <1>3, <3>1, LessMultiple
  <2>6. k \in free(r) /\ free(r) \subseteq F /\ ~ BeyondPage(r)
    <3>1. r \in 0 .. c /\ r \in 0 .. c - 1
      BY <1>1, <2>5
    <3>2. /\ BeyondPage(r) <=> r >= c
          /\ free(r) = {i \in ByteKeys(0, r) : i \notin b.bits /\ i >= start}
          /\ ByteKeys(0, r) = r * KeysPerByte .. r * KeysPerByte + KeysPerByte - 1
      BY <1>6, <3>1
    <3>3. k \in ByteKeys(0, r)
      <4>1. PICK x \in Nat : x = r * KeysPerByte
        BY <2>4
      <4>2. k = x + e /\ ByteKeys(0, r) = x .. x + KeysPerByte - 1
        BY <2>3, <3>2, <4>1
      <4>3. QED
        BY <1>1, <4>2
    <3>4. free(r) \subseteq F
      BY <1>7, <2>5, <3>1
    <3>5. ~ BeyondPage(r)
      BY <1>1, <2>5, <3>2
    <3> HIDE DEF free
    <3>6. QED
      BY <1>3, <2>2, <3>2, <3>3, <3>4, <3>5
  <2>7. ASSUME NEW i \in 0 .. t - 1, i < r
        PROVE  ~ Stops(b, i, start)
    <3>1. i \in 0 .. c /\ i \in 0 .. c - 1 /\ i < t /\ i \in Int
      BY <1>1, <2>5, <2>7
    <3>2. /\ ~ BeyondPage(i) /\ i * KeysPerByte \in Nat
          /\ free(i) \subseteq i * KeysPerByte .. i * KeysPerByte + KeysPerByte - 1
      <4>1. /\ BeyondPage(i) <=> i >= c
            /\ i * KeysPerByte \in Nat
            /\ free(i) = {y \in ByteKeys(0, i) : y \notin b.bits /\ y >= start}
            /\ ByteKeys(0, i) = i * KeysPerByte .. i * KeysPerByte + KeysPerByte - 1
        BY <1>6, <3>1
      <4> HIDE DEF free
      <4>2. QED
        BY <1>1, <3>1, <4>1
    <3>3. free(i) \subseteq F
      BY <1>7, <3>1
    <3>4. i * KeysPerByte + KeysPerByte <= r * KeysPerByte
      BY <1>1, <2>7, <3>1, LessMultiple
    <3> HIDE DEF free
    <3>5. free(i) = {}
      <4>1. ASSUME NEW y \in free(i) PROVE FALSE
        <5>1. k <= y
          BY <2>1, <3>3, <4>1
        <5>2. y \in Nat /\ y <= i * KeysPerByte + KeysPerByte - 1
          BY <1>1, <1>5, <3>2, <3>3, <4>1 DEF F
        <5>3. QED
          BY <1>1, <2>2, <2>3, <2>4, <3>2, <3>4, <5>1, <5>2
      <4>2. QED
        BY <4>1
    <3>6. QED
      BY <3>2, <3>5 DEF Stops, free
  <2>8. FindUnused(b, n, start) = Min(free(r))
    <3>1. r \in Searched(b, n, start) /\ Searched(b, n, start) \subseteq Int
      BY <1>3, <1>4, <2>5
    <3>2. Stops(b, r, start)
      BY <2>6 DEF Stops
    <3>3. \A i \in Searched(b, n, start) : i < r => ~ Stops(b, i, start)
      BY <1>4, <2>7
    <3>4. QED
      BY <2>6, <3>1, <3>2, <3>3, StopsAt
  <2>9. Min(free(r)) = k
    <3> HIDE DEF free
    <3>1. free(r) \subseteq Int /\ k \in free(r) /\ \A y \in free(r) : k <= y
      BY <1>5, <2>1, <2>6 DEF F
    <3>2. QED
      BY <3>1, LeastIs
  <2>10. QED
    BY <1>8, <2>1, <2>8, <2>9 DEF Answers, F
<1>9. CASE F = {} /\ n > KeysPerPage
  <2>1. c < t
    <3>1. c * KeysPerByte < t * KeysPerByte
      BY <1>1, <1>2, <1>9
    <3>2. QED
      BY <1>1, <1>3, <3>1, LessMultiple
  <2>2. c \in 0 .. c /\ c \in 0 .. t - 1
    BY <1>1, <2>1
  <2>3. BeyondPage(c) /\ Stops(b, c, start)
    <3>1. BeyondPage(c)
      BY <1>1, <1>6, <2>2
    <3>2. QED
      BY <3>1 DEF Stops
  <2>4. ASSUME NEW i \in 0 .. t - 1, i < c
        PROVE  ~ Stops(b, i, start)
    <3>1. i \in 0 .. c /\ i \in 0 .. c - 1 /\ i < t
      BY <1>1, <2>4
    <3>2. ~ BeyondPage(i)
      BY <1>1, <1>6, <2>4, <3>1
    <3>3. free(i) = {}
      BY <1>7, <1>9, <3>1
    <3>4. QED
      BY <3>2, <3>3 DEF Stops
  <2>5. FindUnused(b, n, start) = Raises
    <3>1. c \in Searched(b, n, start) /\ Searched(b, n, start) \subseteq Int
      BY <1>3, <1>4, <2>2
    <3>2. \A i \in Searched(b, n, start) : i < c => ~ Stops(b, i, start)
      BY <1>4, <2>4
    <3>3. QED
      BY <2>3, <3>1, <3>2, StopsAt
  <2>6. QED
    BY <1>9, <2>5 DEF Answers
<1>10. CASE F = {} /\ ~ (n > KeysPerPage)
  <2>1. ~ (c < t)
    <3>1. c < t => c * KeysPerByte + KeysPerByte <= t * KeysPerByte
      BY <1>1, <1>3, LessMultiple
    <3>2. c * KeysPerByte \in Nat
      BY <1>1
    <3>3. QED
      BY <1>1, <1>2, <1>3, <1>10, <3>1, <3>2
  <2>2. ASSUME NEW i \in 0 .. t - 1
        PROVE  ~ Stops(b, i, start)
    <3>1. i \in 0 .. c /\ i \in 0 .. c - 1 /\ i < t /\ ~ (i >= c)
      BY <1>1, <1>3, <2>1
    <3>2. ~ BeyondPage(i)
      BY <1>6, <3>1
    <3>3. free(i) = {}
      BY <1>7, <1>10, <3>1
    <3>4. QED
      BY <3>2, <3>3 DEF Stops
  <2>3. FindUnused(b, n, start) = NoKey
    BY <1>4, <2>2, StopsNowhere
  <2>4. QED
    BY <1>10, <2>3 DEF Answers
<1>11. QED
  BY <1>8, <1>9, <1>10

LEMMA PageIs ==
  ASSUME NEW k \in Nat
  PROVE  \E q \in Nat, r \in 0 .. KeysPerPage - 1 : /\ k = q * KeysPerPage + r
                                                    /\ k \div KeysPerPage = q
                                                    /\ Page(k) = q + 1
BY PageSize, Quotients DEF Page

(* Pages marked as used, or the number asked for, are beyond the first: the *)
(* search begins at a byte that no page has, or comes to one.               *)
LEMMA LaterPageSearched ==
  ASSUME NEW c, PageOf(c), NEW b, NEW n, Searchable(b, n), NEW start \in 0 .. n - 1,
         b.full # Pages(n), NEW m \in Nat \ {0}, m = Max({b.full, start \div KeysPerPage}),
         n > m * KeysPerPage, b.full = m => m = 1,
         b.full # m => start >= m * KeysPerPage
  PROVE  FindUnused(b, n, start) = Raises
<1>1. /\ KeysPerPage \in Nat \ {0} /\ KeysPerByte \in Nat \ {0} /\ c \in Nat \ {0}
      /\ KeysPerByte > 1
      /\ KeysPerPage = c * KeysPerByte /\ c < KeysPerPage
  BY DEF PageOf
<1>2. PICK t \in 1 .. n : n = t * KeysPerByte
  BY DEF Searchable
<1>3. n \in Nat /\ t \in Nat /\ start \in Nat /\ m \in Nat
  BY DEF Searchable
<1>4. Searched(b, n, start) = m * c .. t - 1 /\ Searched(b, n, start) \subseteq Int
  <2>1. Searched(b, n, start) = m * c .. t - 1
    BY <1>2, <1>3, SearchFrom
  <2>2. QED
    BY <1>1, <1>3, <2>1
<1>5. m * c \in Nat /\ m * KeysPerPage = (m * c) * KeysPerByte
  BY <1>1, <1>3
<1>6. m * c < t
  <2> DEFINE x == m * c
  <2>1. x * KeysPerByte < t * KeysPerByte /\ x \in Int
    BY <1>2, <1>5
  <2> HIDE DEF x
  <2>2. x < t
    BY <1>1, <1>3, <2>1, LessMultiple
  <2>3. QED
    BY <2>2 DEF x
<1>7. PICK j \in Nat, r \in 0 .. KeysPerByte - 1 : m = j * KeysPerByte + r
                                                  /\ m \div KeysPerByte = j
  BY <1>1, <1>3, Quotients
<1>8. m * c = j * KeysPerPage + r * c /\ r * c \in Nat /\ j * KeysPerPage \in Nat
  BY <1>1, <1>7
<1>9. CASE r # 0
  <2>1. c <= r * c /\ r * c <= KeysPerPage - 1
    <3>1. /\ (0 + 1) * c <= r * c /\ (0 + 1) * c = 0 * c + c /\ 0 * c = 0
      BY <1>1, <1>7, <1>9, LessMultiple
    <3>2. (r + 1) * c <= KeysPerByte * c /\ (r + 1) * c = r * c + c
      BY <1>1, <1>7, LessMultiple
    <3>3. KeysPerByte * c = KeysPerPage
      BY <1>1
    <3>4. QED
      BY <1>1, <1>8, <3>1, <3>2, <3>3
  <2>2. BeyondPage(m * c)
    <3> DEFINE y == r * c
               x == m * c
    <3>1. y \in 0 .. KeysPerPage - 1 /\ y >= c /\ x = j * KeysPerPage + y
      BY <1>1, <1>8, <2>1
    <3> HIDE DEF x, y
    <3>2. BeyondPage(x) <=> y >= c
      BY <3>1, ByteFacts
    <3>3. QED
      BY <3>1, <3>2 DEF x
  <2> DEFINE x == m * c
  <2>3. /\ x \in x .. t - 1 /\ BeyondPage(x) /\ x \in Nat
        /\ Searched(b, n, start) = x .. t - 1
    BY <1>3, <1>4, <1>5, <1>6, <2>2
  <2> HIDE DEF x
  <2>4. Stops(b, x, start) /\ x \in Searched(b, n, start)
        /\ \A i \in Searched(b, n, start) : i < x => ~ Stops(b, i, start)
    BY <1>3, <2>3 DEF Stops
  <2>5. QED
    BY <1>4, <2>3, <2>4, StopsAt
<1>10. CASE r = 0
  <2>1. j >= 1 /\ m = j * KeysPerByte /\ r * c = 0
    BY <1>1, <1>3, <1>7, <1>10
  <2>2. m >= 2 /\ m >= j + 1
    <3>1. j * 2 <= j * KeysPerByte
      <4>1. \A i \in Nat : j * (i + 2) = j * 2 + j * i /\ j * i \in Nat
        OBVIOUS
      <4>2. KeysPerByte - 2 \in Nat /\ KeysPerByte = (KeysPerByte - 2) + 2
        BY <1>1
      <4>3. j * KeysPerByte = j * 2 + j * (KeysPerByte - 2) /\ j * (KeysPerByte - 2) \in Nat
        BY <4>1, <4>2
      <4>4. QED
        BY <4>3
    <3>2. QED
      BY <2>1, <3>1
  <2>3. start >= m * KeysPerPage
    BY <1>3, <2>2
  <2>4. (j + 1) * KeysPerPage <= m * KeysPerPage
    <3>1. j + 1 = m \/ j + 1 < m
      BY <1>3, <2>2
    <3>2. j + 1 < m => (j + 1) * KeysPerPage <= m * KeysPerPage
      <4> DEFINE i == j + 1
      <4>1. i \in Int
        OBVIOUS
      <4> HIDE DEF i
      <4>2. i < m => (i + 1) * KeysPerPage <= m * KeysPerPage
                     /\ (i + 1) * KeysPerPage = i * KeysPerPage + KeysPerPage
                     /\ i * KeysPerPage \in Int
        BY <1>1, <1>3, <4>1, LessMultiple
      <4>3. i < m => i * KeysPerPage <= m * KeysPerPage
        <5> HIDE <1>3
        <5>1. m * KeysPerPage \in Nat
          BY <1>1
        <5>2. QED
          BY <1>1, <4>2, <5>1
      <4>4. QED
        BY <4>3 DEF i
    <3>3. (j + 1) * KeysPerPage \in Nat
      BY <1>1
    <3>4. QED
      BY <3>1, <3>2, <3>3
  <2> DEFINE s == j * KeysPerPage
             x == s + c
  <2>5. /\ s \in Nat /\ x \in Nat /\ m * c = s
        /\ (j + 1) * KeysPerPage = s + KeysPerPage
        /\ s + KeysPerPage <= start
    <3>1. (j + 1) * KeysPerPage = s + KeysPerPage
      BY <1>1
    <3>2. m * KeysPerPage \in Nat
      BY <1>1, <1>3
    <3>3. s \in Nat /\ x \in Nat /\ m * c = s
      BY <1>1, <1>8, <2>1
    <3>4. QED
      BY <1>1, <1>3, <2>3, <2>4, <3>1, <3>2, <3>3
  <2>6. x < t
    <3> DEFINE q == KeysPerPage * KeysPerByte
    <3>1. q \in Nat \ {0}
      BY <1>1
    <3>2. m * KeysPerPage = j * q
      BY <1>1, <2>1
    <3>3. q <= j * q
      <4> HIDE DEF q
      <4>1. (0 + 1) * q <= j * q /\ (0 + 1) * q = 0 * q + q /\ 0 * q = 0
        BY <2>1, <3>1, LessMultiple
      <4>2. QED
        BY <3>1, <4>1
    <3>4. n > q /\ n > j * q
      <4> HIDE DEF q
      <4>1. j * q \in Nat
        BY <3>1
      <4>2. QED
        BY <1>3, <3>1, <3>2, <3>3, <4>1
    <3>5. PICK v \in 1 .. n : n = v * q
      BY <3>4 DEF Searchable
    <3>6. j + 1 <= v
      <4> HIDE DEF q
      <4>1. v \in Int /\ j * q < v * q
        BY <1>3, <3>4, <3>5
      <4>2. j < v
        BY <3>1, <4>1, LessMultiple
      <4>3. QED
        BY <4>1, <4>2
    <3>7. t = v * KeysPerPage
      <4> DEFINE w == v * KeysPerPage
      <4>1. w \in Nat /\ w * KeysPerByte = t * KeysPerByte
        BY <1>1, <1>2, <1>3, <3>5
      <4> HIDE DEF w
      <4>2. ~ (w < t) /\ ~ (t < w)
        <5>1. \A i, k \in Nat : i < k => i * KeysPerByte < k * KeysPerByte
          <6> SUFFICES ASSUME NEW i \in Nat, NEW k \in Nat, i < k
                       PROVE  i * KeysPerByte < k * KeysPerByte
            OBVIOUS
          <6>1. i * KeysPerByte + KeysPerByte <= k * KeysPerByte /\ i * KeysPerByte \in Int
                /\ k * KeysPerByte \in Int
            BY <1>1, LessMultiple
          <6>2. QED
            BY <1>1, <6>1
        <5>2. t * KeysPerByte \in Nat
          BY <1>2, <1>3
        <5>3. QED
          BY <1>3, <4>1, <5>1, <5>2
      <4>3. w = t
        BY <1>3, <4>1, <4>2
      <4>4. QED
        BY <4>3 DEF w
    <3>8. s + KeysPerPage <= v * KeysPerPage
      <4>1. v \in Int /\ j < v
        BY <1>3, <3>6
      <4>2. QED
        BY <1>1, <4>1, LessMultiple
    <3>9. QED
      BY <1>1, <1>3, <2>5, <3>7, <3>8
  <2> HIDE DEF s
  <2>7. ASSUME NEW e \in 0 .. c
        PROVE  /\ BeyondPage(s + e) <=> e >= c
               /\ e < c => FreeInByte(b, s + e, start) = {}
    <3>1. e \in 0 .. KeysPerPage - 1
      BY <1>1
    <3> DEFINE i == s + e
    <3>2. i = j * KeysPerPage + e
      BY DEF s
    <3> HIDE DEF i
    <3>3. /\ BeyondPage(i) <=> e >= c
          /\ FreeInByte(b, i, start) = {k \in ByteKeys(j, e) : k \notin b.bits /\ k >= start}
      BY <3>1, <3>2, ByteFacts
    <3>4. ASSUME e < c
          PROVE  FreeInByte(b, i, start) = {}
      <4>1. e * KeysPerByte + KeysPerByte <= c * KeysPerByte /\ e * KeysPerByte \in Nat
        BY <1>1, <3>4, LessMultiple
      <4>2. ByteKeys(j, e) = e * KeysPerByte + s .. e * KeysPerByte + s + KeysPerByte - 1
        <5>1. KeysPerByte * e = e * KeysPerByte
          BY <1>1
        <5>2. QED
          BY <5>1 DEF ByteKeys, s
      <4> DEFINE y == e * KeysPerByte
      <4>3. /\ y \in Nat /\ y + KeysPerByte <= KeysPerPage
            /\ ByteKeys(j, e) = y + s .. y + s + KeysPerByte - 1
        BY <1>1, <4>1, <4>2
      <4> HIDE DEF y
      <4>4. \A k \in ByteKeys(j, e) : k < start
        BY <1>1, <1>3, <2>5, <4>3
      <4>5. \A k \in ByteKeys(j, e) : k \in Int
        BY <1>1, <2>5, <4>3
      <4>6. QED
        BY <1>3, <3>3, <4>4, <4>5
    <3>5. QED
      BY <3>3, <3>4 DEF i
  <2>8. BeyondPage(x) /\ x \in s .. t - 1
    <3>1. c \in 0 .. c /\ c >= c
      BY <1>1
    <3>2. QED
      BY <1>1, <1>3, <2>5, <2>6, <2>7, <3>1
  <2>9. ASSUME NEW i \in s .. t - 1, i < x
        PROVE  ~ Stops(b, i, start)
    <3>1. i - s \in 0 .. c /\ i - s < c /\ ~ (i - s >= c) /\ s + (i - s) = i
      BY <1>1, <1>3, <2>5, <2>9
    <3>2. QED
      BY <2>7, <3>1 DEF Stops
  <2> HIDE DEF x
  <2>10. /\ Stops(b, x, start) /\ x \in Searched(b, n, start)
         /\ \A i \in Searched(b, n, start) : i < x => ~ Stops(b, i, start)
    BY <1>4, <2>5, <2>8, <2>9 DEF Stops
  <2>11. QED
    BY <1>4, <2>8, <2>10, StopsAt
<1>11. QED
  BY <1>9, <1>10

LEMMA SearchAnswers ==
  ASSUME NEW b, NEW n, Searchable(b, n), NEW start \in 0 .. n - 1
  PROVE  Answers(b, n, start, FindUnused(b, n, start))
<1>1. PICK c \in Nat : PageOf(c)
  BY BytesOfPage
<1>2. /\ KeysPerPage \in Nat \ {0} /\ n \in Nat \ {0} /\ start \in Nat
      /\ b.full \in 0 .. Pages(n) /\ Pages(n) \in Nat
      /\ \A k \in 0 .. n - 1 : Page(k) <= b.full => k \in b.bits
      /\ b.full < Pages(n) => \E k \in 0 .. n - 1 : Page(k) = b.full + 1
      /\ \A k \in b.bits : k < KeysPerPage
  BY PageSize, PagesType DEF Searchable, GoodKeys, Readable
<1>3. KeysPerPage < n => b.full <= 1
  <2> SUFFICES ASSUME KeysPerPage < n, ~ (b.full <= 1)
               PROVE  FALSE
    OBVIOUS
  <2>1. KeysPerPage \in 0 .. n - 1 /\ KeysPerPage \in Nat
    BY <1>2
  <2>2. Page(KeysPerPage) = 2
    <3>1. 0 \in 0 .. KeysPerPage - 1 /\ KeysPerPage = 1 * KeysPerPage + 0 /\ 1 \in Nat
      BY <1>2
    <3>2. KeysPerPage \div KeysPerPage = 1
      BY <1>2, <3>1, Divided
    <3>3. QED
      BY <3>2 DEF Page
  <2>3. KeysPerPage \in b.bits
    BY <1>2, <2>1, <2>2
  <2>4. QED
    BY <1>2, <2>3
<1>4. n <= KeysPerPage => Pages(n) <= 1
  <2> SUFFICES ASSUME n <= KeysPerPage, ~ (Pages(n) <= 1)
               PROVE  FALSE
    BY <1>2
  <2>1. n + KeysPerPage - 1 \in Nat
    BY <1>2
  <2>2. PICK q \in Nat, r \in 0 .. KeysPerPage - 1 :
          /\ n + KeysPerPage - 1 = q * KeysPerPage + r
          /\ (n + KeysPerPage - 1) \div KeysPerPage = q
    BY <1>2, <2>1, Quotients
  <2>3. 2 <= q
    BY <1>2, <2>2 DEF Pages
  <2>4. KeysPerPage + KeysPerPage <= q * KeysPerPage
    <3>1. /\ (1 + 1) * KeysPerPage <= q * KeysPerPage
          /\ (1 + 1) * KeysPerPage = 1 * KeysPerPage + KeysPerPage
          /\ q * KeysPerPage \in Int
      BY <1>2, <2>3, LessMultiple
    <3>2. QED
      BY <1>2, <3>1
  <2>5. q * KeysPerPage \in Nat
    BY <1>2, <2>2
  <2>6. QED
    BY <1>2, <2>2, <2>4, <2>5
<1>5. ASSUME NEW k \in 0 .. n - 1, k < KeysPerPage
      PROVE  Page(k) = 1
  <2>1. k \in Nat
    BY <1>2
  <2>2. k = 0 * KeysPerPage + k /\ k \in 0 .. KeysPerPage - 1 /\ 0 \in Nat
    BY <1>2, <1>5, <2>1
  <2>3. k \div KeysPerPage = 0
    BY <1>2, <2>2, Divided
  <2>4. QED
    BY <2>3 DEF Page
<1>6. b.full >= 1 => Fit(b, n, start) = {}
  BY <1>2, <1>5 DEF Fit
<1>7. CASE b.full = Pages(n)
  <2>1. FindUnused(b, n, start) = NoKey
    BY <1>7, StopsNowhere
  <2>2. Pages(n) >= 1
    <3>1. 0 \in 0 .. n - 1
      BY <1>2
    <3>2. Page(0) \in 1 .. Pages(n)
      BY <1>2, <3>1, PageFacts
    <3>3. QED
      BY <1>2, <3>2
  <2>3. ~ (n > KeysPerPage)
    <3> SUFFICES ASSUME n > KeysPerPage
                 PROVE  FALSE
      OBVIOUS
    <3>1. KeysPerPage \in 0 .. n - 1
      BY <1>2
    <3>2. Page(KeysPerPage) \in 1 .. Pages(n)
      BY <1>2, <3>1, PageFacts
    <3>3. KeysPerPage \in b.bits
      BY <1>2, <1>7, <3>1, <3>2
    <3>4. QED
      BY <1>2, <3>3
  <2>4. QED
    BY <1>2, <1>6, <1>7, <2>1, <2>2, <2>3 DEF Answers
<1>8. CASE b.full # Pages(n)
  <2>1. PICK s \in Nat, e \in 0 .. KeysPerPage - 1 :
          start = s * KeysPerPage + e /\ start \div KeysPerPage = s
    BY <1>2, Quotients
  <2>2. s * KeysPerPage \in Nat
    BY <1>2, <2>1
  <2>3. CASE b.full = 0 /\ s = 0
    BY <1>1, <1>8, <2>1, <2>3, FirstPageSearched
  <2>4. CASE ~ (b.full = 0 /\ s = 0)
    <3>1. PICK k \in 0 .. n - 1 : Page(k) = b.full + 1
      BY <1>2, <1>8
    <3>2. n > b.full * KeysPerPage
      <4>1. k \in Nat
        BY <1>2, <3>1
      <4>2. PICK q \in Nat, r \in 0 .. KeysPerPage - 1 : /\ k = q * KeysPerPage + r
                                                         /\ k \div KeysPerPage = q
                                                         /\ Page(k) = q + 1
        BY <4>1, PageIs
      <4>3. q = b.full
        BY <1>2, <3>1, <4>2
      <4>4. q * KeysPerPage \in Nat
        BY <1>2, <4>2
      <4>5. n > q * KeysPerPage
        BY <1>2, <4>1, <4>2, <4>4
      <4>6. QED
        BY <4>3, <4>5
    <3>3. n > s * KeysPerPage
      BY <1>2, <2>1, <2>2
    <3> DEFINE S == {b.full, start \div KeysPerPage}
               m == IF b.full >= s THEN b.full ELSE s
    <3>4. m \in Nat \ {0} /\ m = Max(S)
      <4>1. S \subseteq Int /\ m \in S /\ (\A y \in S : y <= m) /\ m \in Nat \ {0}
        BY <1>2, <2>1, <2>4
      <4> HIDE DEF S, m
      <4>2. QED
        BY <4>1, GreatestIs
    <3>5. n > m * KeysPerPage
      BY <3>2, <3>3
    <3>6. n > KeysPerPage
      <4> HIDE DEF m
      <4>1. /\ (0 + 1) * KeysPerPage <= m * KeysPerPage
            /\ (0 + 1) * KeysPerPage = 0 * KeysPerPage + KeysPerPage
            /\ 0 * KeysPerPage = 0 /\ m * KeysPerPage \in Int
        BY <1>2, <3>4, LessMultiple
      <4>2. QED
        BY <1>2, <3>5, <4>1
    <3>7. (b.full = m => m = 1) /\ (b.full # m => start >= m * KeysPerPage)
      <4>1. b.full # m => m = s
        OBVIOUS
      <4>2. start >= s * KeysPerPage
        BY <1>2, <2>1, <2>2
      <4>3. b.full = m => m = 1
        <5> HIDE DEF m
        <5>1. QED
          BY <1>2, <1>3, <3>4, <3>6
      <4> HIDE DEF m
      <4>4. QED
        BY <4>1, <4>2, <4>3
    <3>8. FindUnused(b, n, start) = Raises
      <4>1. PICK i : i = m
        OBVIOUS
      <4>2. /\ i \in Nat \ {0} /\ i = Max({b.full, start \div KeysPerPage})
            /\ n > i * KeysPerPage /\ (b.full = i => i = 1)
            /\ (b.full # i => start >= i * KeysPerPage)
        <5> HIDE DEF m
        <5>1. QED
          BY <3>4, <3>5, <3>7, <4>1
      <4>3. QED
        BY <1>1, <1>8, <4>2, LaterPageSearched
    <3>9. Fit(b, n, start) = {}
      <4>1. CASE b.full >= 1
        BY <1>6, <4>1
      <4>2. CASE ~ (b.full >= 1)
        <5>1. s \in Nat \ {0}
          <6>1. b.full = 0
            BY <1>2, <4>2
          <6>2. QED
            BY <2>4, <6>1
        <5>2. /\ (0 + 1) * KeysPerPage <= s * KeysPerPage
              /\ (0 + 1) * KeysPerPage = 0 * KeysPerPage + KeysPerPage
              /\ 0 * KeysPerPage = 0
          BY <1>2, <5>1, LessMultiple
        <5>3. start >= KeysPerPage
          BY <1>2, <2>1, <2>2, <5>2
        <5>4. QED
          BY <1>2, <5>3 DEF Fit
      <4>3. QED
        BY <4>1, <4>2
    <3>10. QED
      BY <3>6, <3>8, <3>9 DEF Answers
  <2>5. QED
    BY <2>3, <2>4
<1>9. QED
  BY <1>7, <1>8

-----------------------------------------------------------------------------
(* Only keys of the first page are ever used                                *)

OnlyReadable(s) == \A a \in Accounts : \A k \in s.keys[a].bits : Readable(k)

LEMMA ReadableGrow ==
  ASSUME NEW s, Good(s), NEW t \in Ordinary, NEW n, Valid(s, t, n), OnlyReadable(s)
  PROVE  OnlyReadable(Apply(s, t, n))
<1> DEFINE u == Apply(s, t, n)
           g == Signer(t)
<1>1. /\ Signed(u, s, t) /\ g \in Accounts
  BY ApplyHarmless, TxFacts DEF Harmless
<1>2. Readable(Tx[t].key)
  BY DEF Valid, Authorised, KeyFree
<1>3. s.keys \in [Accounts -> KeyStates]
  BY DEF Good, IsShape
<1> HIDE DEF u
<1>4. /\ \A a \in Accounts : a # g => u.keys[a] = s.keys[a]
      /\ u.keys[g] = SetKey(s.keys[g], Tx[t].key, KeyCount[g])
  BY <1>1, <1>3 DEF Signed
<1>5. u.keys[g].bits = s.keys[g].bits \cup {Tx[t].key}
  <2>1. IsKeys(s.keys[g])
    BY <1>1, <1>3 DEF IsKeys, KeyStates
  <2>2. QED
    BY <1>4, <2>1, SetKeyFields
<1>6. OnlyReadable(u)
  BY <1>1, <1>2, <1>4, <1>5 DEF OnlyReadable
<1>7. QED
  BY <1>6 DEF u

LEMMA StoreReadable ==
  ASSUME ChainLinked
  PROVE  OnlyReadable(db)
<1> DEFINE R == {z \in Shapes \X Nat \X Nat : OnlyReadable(z[1])}
<1>1. FromGenesis(R)
  <2> SUFFICES ASSUME NEW s, Sound(s), Same(s, GenesisState)
               PROVE  <<s, 0, 0>> \in R
    BY DEF FromGenesis
  <2>1. s \in Shapes /\ \A a \in Accounts : s.keys[a] = NoKeys
    BY SoundShapes, GenesisFields
  <2>2. OnlyReadable(s)
    BY <2>1 DEF OnlyReadable, NoKeys
  <2>3. QED
    BY <2>1, <2>2
<1>2. ForLooks(R)
  <2> SUFFICES ASSUME NEW r, NEW s, NEW n \in Nat, NEW k \in Nat,
                      <<s, n, k>> \in R, Sound(r), Same(r, s)
               PROVE  <<r, n, k>> \in R
    BY DEF ForLooks
  <2>1. OnlyReadable(s) /\ r.keys = s.keys /\ r \in Shapes
    BY SoundShapes DEF Same, SameKeys
  <2>2. OnlyReadable(r)
    BY <2>1 DEF OnlyReadable
  <2>3. QED
    BY <2>1, <2>2
<1>3. ForCoinbase(R)
  <2> SUFFICES ASSUME NEW s, NEW n \in 1 .. Len(chain),
                      <<s, n - 1, Size(n - 1)>> \in R, Sound(s)
               PROVE  <<ApplyCoinbase(s, n, FeesIn(n)), n, 0>> \in R
    BY DEF ForCoinbase
  <2> DEFINE u == ApplyCoinbase(s, n, FeesIn(n))
  <2>1. OnlyReadable(s)
    OBVIOUS
  <2>2. u \in Shapes /\ n \in Nat /\ CoinbaseDone(u, s, n, FeesIn(n))
    BY CoinbaseSteps DEF CoinbaseStep
  <2> HIDE DEF u
  <2>3. OnlyReadable(u)
    BY <2>1, <2>2 DEF CoinbaseDone, OnlyReadable
  <2>4. <<u, n, 0>> \in R
    BY <2>2, <2>3
  <2>5. QED
    BY <2>4 DEF u
<1>4. ForTx(R)
  <2> SUFFICES ASSUME NEW s, NEW n \in 1 .. Len(chain), NEW k \in 1 .. Size(n),
                      <<s, n, k - 1>> \in R, Sound(s), TxAt(n, k) \in Ordinary,
                      Valid(s, TxAt(n, k), n)
               PROVE  <<Apply(s, TxAt(n, k), n), n, k>> \in R
    BY DEF ForTx
  <2> DEFINE u == Apply(s, TxAt(n, k), n)
  <2>1. OnlyReadable(s) /\ Good(s)
    BY SoundShapes
  <2>2. u \in Shapes /\ n \in Nat /\ k \in Nat
    BY TxSteps DEF TxStep
  <2>3. OnlyReadable(u)
    BY <2>1, ReadableGrow
  <2> HIDE DEF u
  <2>4. <<u, n, k>> \in R
    BY <2>2, <2>3
  <2>5. QED
    BY <2>4 DEF u
<1>5. <<After(Len(chain)), Len(chain), Size(Len(chain))>> \in R
  <2> HIDE DEF R
  <2>1. PICK S : S = R
    OBVIOUS
  <2>2. FromGenesis(S) /\ ForLooks(S) /\ ForCoinbase(S) /\ ForTx(S)
    BY <1>1, <1>2, <1>3, <1>4, <2>1
  <2>3. Len(chain) \in 0 .. Len(chain)
    BY DEF ChainLinked, LedgerInv, Types
  <2>4. <<After(Len(chain)), Len(chain), Size(Len(chain))>> \in S
    BY <2>2, <2>3, ChainInduction
  <2>5. QED
    BY <2>1, <2>4
<1>6. QED
  BY <1>5 DEF After

(* The search of get_unused_ots_index answers with the least free key that  *)
(* can be read, from the number asked for on, whatever the address has      *)
(* signed and whatever pages are marked; and, when there is none, that      *)
(* there is none, or not at all if the address has a second page.           *)
THEOREM SearchStaysFree == Spec => []SearchFindsFree
<1>1. ChainLinked => SearchFindsFree
  <2> SUFFICES ASSUME ChainLinked PROVE SearchFindsFree
    OBVIOUS
  <2>1. OnlyReadable(db) /\ \A a \in Accounts : GoodKeys(db.keys[a], KeyCount[a])
    BY StoreReadable DEF ChainLinked, LedgerInv, Stored, Sound, Good
  <2>2. ASSUME NEW a \in Accounts, NEW start \in 0 .. KeyCount[a] - 1
        PROVE  LET found == FindUnused(db.keys[a], KeyCount[a], start)
                   fit == {k \in FreeKeys(a) : start <= k /\ k < KeysPerPage}
               IN  IF fit # {} THEN found \in fit /\ \A k \in fit : found <= k
                   ELSE found = IF KeyCount[a] > KeysPerPage THEN Raises ELSE NoKey
    <3>1. PICK b : b = db.keys[a]
      OBVIOUS
    <3>2. PICK n : n = KeyCount[a]
      OBVIOUS
    <3>3. Searchable(b, n)
      <4>1. GoodKeys(b, n) /\ \A k \in b.bits : Readable(k)
        BY <2>1, <3>1, <3>2 DEF OnlyReadable
      <4>2. n \in Nat \ {0}
        BY <3>2, ChainAssumption
      <4>3. /\ \E i \in 1 .. n : n = i * KeysPerByte
            /\ n > KeysPerPage * KeysPerByte
                 => \E i \in 1 .. n : n = i * (KeysPerPage * KeysPerByte)
        BY <3>2, SearchAssumption
      <4>4. QED
        BY <4>1, <4>2, <4>3 DEF Searchable
    <3>4. start \in 0 .. n - 1
      BY <3>2
    <3>5. Answers(b, n, start, FindUnused(b, n, start))
      BY <3>3, <3>4, SearchAnswers
    <3>6. Fit(b, n, start) = {k \in FreeKeys(a) : start <= k /\ k < KeysPerPage}
      BY <3>1, <3>2 DEF Fit, FreeKeys
    <3> DEFINE found == FindUnused(db.keys[a], KeyCount[a], start)
               fit == {k \in FreeKeys(a) : start <= k /\ k < KeysPerPage}
    <3>7. found = FindUnused(b, n, start) /\ fit = Fit(b, n, start)
      BY <3>1, <3>2, <3>6
    <3> HIDE DEF found, fit
    <3>8. IF fit # {} THEN found \in fit /\ \A k \in fit : found <= k
          ELSE found = IF n > KeysPerPage THEN Raises ELSE NoKey
      BY <3>5, <3>7 DEF Answers
    <3>9. QED
      BY <3>2, <3>8 DEF found, fit
  <2>3. QED
    BY <2>2 DEF SearchFindsFree
<1>2. QED
  BY <1>1, ChainStaysLinked, PTL

=============================================================================
