------------------------- MODULE WalletDaemonProofs -------------------------
(* Proofs about WalletDaemon, for any number of addresses, passphrases,     *)
(* keys, transactions and trees in the cache.                               *)
EXTENDS WalletDaemon, DataLemmas, FiniteSetTheorems

Item  == [addr : Address, index : Nat, key : Pass \cup {None}]
Trees == [addr : Address, index : Nat]

WalletTyped ==
  /\ items \in Seq(Item) /\ file \in Seq(Item)
  /\ passphrase \in Pass \cup {None}
  /\ trees \in [Position \X (Pass \cup {None}) -> Trees \cup {None}]
  /\ sending \in [asked : Address, addr : Address, key : Nat] \cup {None}
  /\ pushed \in Seq(Address \X Nat)
  /\ IsFiniteSet(used)

HistoryTyped == unchecked \in BOOLEAN /\ stray \in BOOLEAN /\ stale \in BOOLEAN

NoTwice(s) == \A i, j \in DOMAIN s : s[i].addr = s[j].addr => i = j

(* The keys that have signed, or whose signature waits to be pushed.       *)
Signed ==
  ToSet(pushed) \cup (IF sending = None THEN {} ELSE {<<sending.addr, sending.key>>})

Within(s, K) == \A i \in DOMAIN s : s[i].addr \in K

(* The index of an item is beyond every key of its address that signed,     *)
(* unless the address was added again.                                     *)
Below(s, keys, again) ==
  \A i \in DOMAIN s : \A x \in keys :
    x[1] = s[i].addr => x[1] \in again \/ x[2] < s[i].index

Sound(s) == Within(s, known) /\ Below(s, Signed, reseeded)

Fresh ==
  sending # None /\ sending.addr \notin reseeded =>
    <<sending.addr, sending.key>> \notin ToSet(pushed)

SignedOnce ==
  \/ stale
  \/ /\ Sound(items) /\ Sound(file)
     /\ \A x \in Signed : x[1] \in known
     /\ Fresh /\ KeysSignOnce

Uniform(s) == \A i, j \in DOMAIN s : s[i].key = s[j].key

(* A passphrase that was tried opens the whole wallet.                     *)
KeyedOnce ==
  \/ stray
  \/ /\ Uniform(items) /\ Uniform(file)
     /\ passphrase # None /\ ~ unchecked => \A i \in DOMAIN items : items[i].key = passphrase

WalletInv ==
  /\ WalletTyped /\ HistoryTyped
  /\ NoTwice(items) /\ NoTwice(file)
  /\ SignedOnce /\ KeyedOnce

-----------------------------------------------------------------------------
(* Positions, keys and trees *)

LEMMA AtFacts ==
  ASSUME NEW a, Holds(a)
  PROVE  At(a) \in DOMAIN items /\ items[At(a)].addr = a
BY DEF Holds, At

(* Every item has a position, as no address is in the wallet twice.        *)
LEMMA PositionFacts ==
  ASSUME items \in Seq(Item), NoTwice(items)
  PROVE  DOMAIN items \subseteq Position
<1> DEFINE f == [i \in 1 .. Len(items) |-> items[i].addr]
<1>1. DOMAIN items = 1 .. Len(items) /\ Len(items) \in Nat
  OBVIOUS
<1>2. f \in [1 .. Len(items) -> Address]
  <2>1. \A i \in 1 .. Len(items) : items[i] \in Item
    BY <1>1
  <2>2. QED
    BY <2>1 DEF Item
<1>3. f \in Injection(1 .. Len(items), Address)
  BY <1>1, <1>2 DEF Injection, IsInjective, NoTwice
<1>4. Cardinality(1 .. Len(items)) <= Cardinality(Address)
  BY <1>3, WalletAssumption, FS_Injection
<1>5. Cardinality(1 .. Len(items)) = Len(items)
  BY SMTT(60), <1>1, FS_Interval
<1>6. Cardinality(Address) \in Nat
  BY WalletAssumption, FS_CardinalityType
<1>7. QED
  BY <1>1, <1>4, <1>5, <1>6 DEF Position

LEMMA TreeFacts ==
  ASSUME WalletTyped, NoTwice(items), NEW i \in DOMAIN items, HasTree(i)
  PROVE  TreeAt(i) \in Trees
<1>1. <<i, passphrase>> \in Position \X (Pass \cup {None})
  BY PositionFacts DEF WalletTyped
<1>2. trees[<<i, passphrase>>] \in Trees \cup {None}
  BY <1>1 DEF WalletTyped
<1>3. items[i] \in Item
  BY DEF WalletTyped
<1>4. [addr |-> items[i].addr, index |-> items[i].index] \in Trees
  BY <1>3 DEF Item, Trees
<1>5. QED
  BY <1>2, <1>4, Zenon DEF TreeAt

LEMMA CacheFacts ==
  ASSUME WalletTyped, NEW i, NEW t \in Trees, Cache(i, t)
  PROVE  trees' \in [Position \X (Pass \cup {None}) -> Trees \cup {None}]
BY DEF WalletTyped, Cache

(* The chain has used finitely many keys, so the node finds one it has not. *)
LEMMA NextUnusedFacts ==
  ASSUME WalletTyped, NEW a, NEW k \in Nat
  PROVE  NextUnused(a, k) \in Nat /\ NextUnused(a, k) >= k
<1> DEFINE n == Cardinality(used)
           J == {j \in k .. k + n : <<a, j>> \notin used}
           f == [j \in k .. k + n |-> <<a, j>>]
<1>1. n \in Nat /\ IsFiniteSet(used)
  BY FS_CardinalityType DEF WalletTyped
<1>2. Cardinality(k .. k + n) = n + 1 /\ IsFiniteSet(k .. k + n)
  BY SMTT(60), <1>1, FS_Interval
<1>3. J # {}
  <2>1. SUFFICES ASSUME J = {}  PROVE FALSE
    OBVIOUS
  <2>2. f \in [k .. k + n -> used]
    BY <2>1
  <2>3. n < Cardinality(k .. k + n)
    BY <1>1, <1>2
  <2>4. \E x, y \in k .. k + n : x # y /\ f[x] = f[y]
    BY ZenonT(60), <1>1, <1>2, <2>2, <2>3, FS_PigeonHole
  <2>5. QED
    BY <2>4
<1>4. J \subseteq Nat
  BY <1>1
<1>5. \E x \in J : \A y \in J : x <= y
  BY <1>3, <1>4, Least
<1>6. NextUnused(a, k) \in J
  BY <1>5 DEF NextUnused, Min
<1>7. QED
  BY <1>1, <1>6

-----------------------------------------------------------------------------
(* What the wallet holds and what its file holds *)

LEMMA SaveKeeps ==
  ASSUME WalletTyped, NoTwice(file), NEW s \in Seq(Item), NoTwice(s), Save(s)
  PROVE  /\ items' = s /\ file' \in {file, s}
         /\ items' \in Seq(Item) /\ file' \in Seq(Item)
         /\ NoTwice(items') /\ NoTwice(file')
         /\ ~ Partially(s) => file' = s
BY DEF Save, WalletTyped

(* New keys for the items' contents, and nothing else.                     *)
Rekeyed(s) ==
  /\ s \in Seq(Item) /\ DOMAIN s = DOMAIN items
  /\ \A i \in DOMAIN items : s[i].addr = items[i].addr /\ s[i].index = items[i].index

LEMMA RekeyedFacts ==
  ASSUME NEW s, Rekeyed(s)
  PROVE  /\ NoTwice(items) => NoTwice(s)
         /\ Sound(items) => Sound(s)
BY DEF Rekeyed, NoTwice, Sound, Within, Below

LEMMA EncryptFacts ==
  ASSUME WalletTyped, NEW p \in Pass
  PROVE  /\ Rekeyed(EncryptWith(p))
         /\ \A i \in DOMAIN EncryptWith(p) : EncryptWith(p)[i].key = p
<1>1. /\ Len(items) \in Nat /\ DOMAIN items = 1 .. Len(items)
      /\ \A i \in DOMAIN items : items[i] \in Item
  BY DEF WalletTyped
<1>2. \A i \in DOMAIN items :
        /\ [items[i] EXCEPT !.key = p] \in Item
        /\ [items[i] EXCEPT !.key = p].addr = items[i].addr
        /\ [items[i] EXCEPT !.key = p].index = items[i].index
        /\ [items[i] EXCEPT !.key = p].key = p
  BY <1>1 DEF Item
<1>3. EncryptWith(p) = [i \in 1 .. Len(items) |-> [items[i] EXCEPT !.key = p]]
  BY <1>1 DEF EncryptWith
<1>4. EncryptWith(p) \in Seq(Item)
  BY <1>1, <1>2, <1>3
<1>5. QED
  BY ZenonT(60), <1>1, <1>2, <1>3, <1>4 DEF Rekeyed

LEMMA OpenedFacts ==
  ASSUME WalletTyped, NEW p \in Pass
  PROVE  Rekeyed(Opened(p))
<1> DEFINE o(i) == IF \A j \in 1 .. i : items[j].key = p
                   THEN [items[i] EXCEPT !.key = None] ELSE items[i]
<1>1. /\ Len(items) \in Nat /\ DOMAIN items = 1 .. Len(items)
      /\ \A i \in DOMAIN items : items[i] \in Item
  BY DEF WalletTyped
<1>2. \A i \in DOMAIN items :
        /\ o(i) \in Item
        /\ o(i).addr = items[i].addr
        /\ o(i).index = items[i].index
  BY <1>1 DEF Item
<1>3. Opened(p) = [i \in 1 .. Len(items) |-> o(i)]
  BY <1>1 DEF Opened
<1> HIDE DEF o
<1>4. Opened(p) \in Seq(Item)
  BY <1>1, <1>2, <1>3
<1>5. QED
  BY <1>1, <1>2, <1>3, <1>4 DEF Rekeyed

(* A wallet of one key is left as it was by a passphrase that does not      *)
(* open it.                                                                *)
LEMMA OpenedUniform ==
  ASSUME WalletTyped, NEW p \in Pass, Uniform(items),
         NEW i \in DOMAIN items, items[i].key # p
  PROVE  \A j \in DOMAIN items : Opened(p)[j] = items[j]
<1>1. Len(items) \in Nat /\ DOMAIN items = 1 .. Len(items)
  BY DEF WalletTyped
<1>2. ASSUME NEW j \in DOMAIN items  PROVE ~ \A k \in 1 .. j : items[k].key = p
  <2>1. 1 \in 1 .. j /\ 1 \in DOMAIN items
    BY <1>1
  <2>2. items[1].key # p
    BY <2>1 DEF Uniform
  <2>3. QED
    BY <2>1, <2>2
<1>3. QED
  BY <1>2 DEF Opened

-----------------------------------------------------------------------------
(* Steps that leave the contents of the wallet alone *)

LEMMA SignedFacts ==
  ASSUME WalletTyped
  PROVE  /\ Signed \subseteq Address \X Nat
         /\ ToSet(pushed) \subseteq Signed
         /\ sending = None => Signed = ToSet(pushed)
         /\ sending # None => Signed = ToSet(pushed) \cup {<<sending.addr, sending.key>>}
<1>1. ToSet(pushed) \subseteq Address \X Nat
  BY ElementFacts DEF WalletTyped
<1>2. sending # None => <<sending.addr, sending.key>> \in Address \X Nat
  BY DEF WalletTyped
<1>3. QED
  BY <1>1, <1>2 DEF Signed

(* The items under other keys, and anything about the passphrase held.     *)
LEMMA RekeyKeeps ==
  ASSUME WalletInv, NEW s, Rekeyed(s), items' = s, file' \in {file, s},
         UNCHANGED <<sending, pushed, known, reseeded, stale, stray>>,
         trees' \in [Position \X (Pass \cup {None}) -> Trees \cup {None}],
         IsFiniteSet(used'),
         passphrase' \in Pass \cup {None}, unchecked' \in BOOLEAN,
         \/ stray
         \/ /\ Uniform(s)
            /\ passphrase' # None /\ ~ unchecked' =>
                 \A i \in DOMAIN s : s[i].key = passphrase'
  PROVE  WalletInv'
<1>1. s \in Seq(Item) /\ NoTwice(s) /\ (Sound(items) => Sound(s))
  BY RekeyedFacts DEF WalletInv, Rekeyed
<1>2. WalletTyped' /\ HistoryTyped'
  BY <1>1 DEF WalletInv, WalletTyped, HistoryTyped
<1>3. NoTwice(items)' /\ NoTwice(file)'
  BY <1>1 DEF WalletInv, NoTwice
<1>4. Signed' = Signed
  BY DEF Signed
<1>5. SignedOnce'
  <2>1. CASE stale
    BY <2>1 DEF SignedOnce
  <2>2. CASE ~ stale
    <3>1. /\ Sound(s) /\ Sound(file) /\ \A x \in Signed : x[1] \in known
          /\ Fresh /\ KeysSignOnce
      BY <1>1, <2>2 DEF WalletInv, SignedOnce
    <3>2. Sound(items)' /\ Sound(file)'
      BY <1>4, <3>1 DEF Sound, Within, Below
    <3>3. Fresh' /\ KeysSignOnce'
      BY <3>1 DEF Fresh, KeysSignOnce
    <3>4. QED
      BY <1>4, <3>1, <3>2, <3>3 DEF SignedOnce
  <2>3. QED
    BY <2>1, <2>2
<1>6. KeyedOnce'
  <2>1. CASE stray
    BY <2>1 DEF KeyedOnce
  <2>2. CASE ~ stray
    <3>1. Uniform(file) /\ Uniform(s)
      BY <2>2 DEF WalletInv, KeyedOnce
    <3>2. Uniform(file)' /\ Uniform(items)'
      BY <3>1 DEF Uniform
    <3>3. passphrase' # None /\ ~ unchecked' => \A i \in DOMAIN items' : items'[i].key = passphrase'
      BY <2>2
    <3>4. QED
      BY <3>2, <3>3 DEF KeyedOnce
  <2>3. QED
    BY <2>1, <2>2
<1>7. QED
  BY <1>2, <1>3, <1>5, <1>6 DEF WalletInv

LEMMA QuietKeeps ==
  ASSUME WalletInv, UNCHANGED <<items, file, sending, pushed, known, reseeded, stale, stray>>,
         trees' \in [Position \X (Pass \cup {None}) -> Trees \cup {None}],
         IsFiniteSet(used'),
         passphrase' \in Pass \cup {None}, unchecked' \in BOOLEAN,
         \/ stray
         \/ passphrase' # None /\ ~ unchecked' =>
              \A i \in DOMAIN items : items[i].key = passphrase'
  PROVE  WalletInv'
<1>1. Rekeyed(items)
  BY DEF Rekeyed, WalletInv, WalletTyped
<1>2. stray \/ Uniform(items)
  BY DEF WalletInv, KeyedOnce
<1>3. QED
  BY <1>1, <1>2, RekeyKeeps

LEMMA ReadingKeeps ==
  ASSUME WalletInv,
         \/ \E a \in Address : GetRecoverySeeds(a)
         \/ \E a \in Address : \E n \in 0 .. MaxKey - 1 : RelayRefused(a, n)
         \/ LockWallet
         \/ \E k \in ToSet(pushed) : Confirm(k)
         \/ UNCHANGED vars
  PROVE  WalletInv'
<1> DEFINE Forest == [Position \X (Pass \cup {None}) -> Trees \cup {None}]
<1>1. /\ trees \in Forest /\ IsFiniteSet(used)
      /\ passphrase \in Pass \cup {None} /\ unchecked \in BOOLEAN
      /\ stray \/ (passphrase # None /\ ~ unchecked =>
                     \A i \in DOMAIN items : items[i].key = passphrase)
  BY DEF WalletInv, WalletTyped, HistoryTyped, KeyedOnce
<1>2. ASSUME NEW a \in Address, GetRecoverySeeds(a)  PROVE WalletInv'
  <2>1. /\ UNCHANGED <<walletVars, passphrase, sending, nodeVars, histVars>>
        /\ Holds(a) /\ HasTree(At(a)) /\ Cache(At(a), TreeAt(At(a)))
    BY <1>2 DEF GetRecoverySeeds
  <2>2. trees' \in Forest
    BY <2>1, AtFacts, TreeFacts, CacheFacts DEF WalletInv
  <2>3. QED
    BY <1>1, <2>1, <2>2, QuietKeeps DEF walletVars, nodeVars, histVars
<1>3. ASSUME NEW a \in Address, NEW n \in 0 .. MaxKey - 1, RelayRefused(a, n)
      PROVE  WalletInv'
  <2> DEFINE t == TreeAt(At(a))
             u == IF n < t.index THEN t ELSE [t EXCEPT !.index = n]
  <2>1. /\ UNCHANGED <<walletVars, passphrase, sending, nodeVars, histVars>>
        /\ Holds(a) /\ HasTree(At(a)) /\ Cache(At(a), u)
    BY <1>3 DEF RelayRefused
  <2>2. t \in Trees /\ n \in Nat
    BY <2>1, AtFacts, TreeFacts, WalletAssumption DEF WalletInv
  <2>3. u \in Trees
    <3> HIDE DEF t
    <3>1. [t EXCEPT !.index = n] \in Trees
      BY <2>2 DEF Trees
    <3>2. QED
      BY <2>2, <3>1
  <2>4. trees' \in Forest
    BY <2>1, <2>3, CacheFacts DEF WalletInv
  <2>5. QED
    BY <1>1, <2>1, <2>4, QuietKeeps DEF walletVars, nodeVars, histVars
<1>4. CASE LockWallet
  BY <1>1, <1>4, QuietKeeps DEF LockWallet, walletVars, nodeVars
<1>5. ASSUME NEW k \in ToSet(pushed), Confirm(k)  PROVE WalletInv'
  <2>1. IsFiniteSet(used')
    BY <1>1, <1>5, FS_AddElement DEF Confirm
  <2>2. QED
    BY <1>1, <1>5, <2>1, QuietKeeps DEF Confirm, walletVars, histVars
<1>6. CASE UNCHANGED vars
  BY <1>1, <1>6, QuietKeeps DEF vars
<1>7. QED
  BY <1>2, <1>3, <1>4, <1>5, <1>6

-----------------------------------------------------------------------------
(* Passphrases *)

LEMMA UnlockKeeps ==
  ASSUME WalletInv, NEW p \in Pass, UnlockWallet(p)
  PROVE  WalletInv'
<1>1. /\ items # <<>> /\ passphrase' = p
      /\ unchecked' = (Partially(items) \/ items[1].key # p)
      /\ UNCHANGED <<walletVars, trees, sending, nodeVars, known, stray, stale, reseeded>>
  BY DEF UnlockWallet, IsEncrypted
<1>2. unchecked' \in BOOLEAN
  BY <1>1, TruthValue
<1>3. 1 \in DOMAIN items
  BY <1>1 DEF WalletInv, WalletTyped
<1>4. stray \/ (~ unchecked' => \A i \in DOMAIN items : items[i].key = p)
  <2>1. SUFFICES ASSUME ~ stray, ~ unchecked'
                 PROVE  \A i \in DOMAIN items : items[i].key = p
    OBVIOUS
  <2>2. items[1].key = p
    BY <1>1, <2>1
  <2>3. Uniform(items)
    BY <2>1 DEF WalletInv, KeyedOnce
  <2>4. QED
    BY <1>3, <2>2, <2>3 DEF Uniform
<1>5. /\ trees' \in [Position \X (Pass \cup {None}) -> Trees \cup {None}]
      /\ IsFiniteSet(used')
      /\ UNCHANGED <<items, file, sending, pushed, known, reseeded, stale, stray>>
  BY <1>1 DEF WalletInv, WalletTyped, walletVars, nodeVars
<1>6. QED
  BY <1>1, <1>2, <1>4, <1>5, QuietKeeps

LEMMA EncryptKeeps ==
  ASSUME WalletInv, NEW p \in Pass, EncryptWallet(p)
  PROVE  WalletInv'
<1> DEFINE s == EncryptWith(p)
<1>1. /\ items # <<>> /\ ~ IsEncrypted
      /\ Save(s)
      /\ UNCHANGED <<passphrase, trees, sending, nodeVars, histVars>>
  BY DEF EncryptWallet
<1>2. Rekeyed(s) /\ \A i \in DOMAIN s : s[i].key = p
  BY EncryptFacts DEF WalletInv
<1>3. items' = s /\ file' \in {file, s}
  BY <1>1 DEF Save
<1> HIDE DEF s
<1>4. Uniform(s)
  BY <1>2 DEF Uniform
<1>5. stray \/ ~ (passphrase # None /\ ~ unchecked)
  <2>1. 1 \in DOMAIN items /\ items[1].key = None
    BY <1>1 DEF WalletInv, WalletTyped, IsEncrypted
  <2>2. QED
    BY <2>1 DEF WalletInv, KeyedOnce
<1>6. /\ trees' \in [Position \X (Pass \cup {None}) -> Trees \cup {None}]
      /\ IsFiniteSet(used')
      /\ passphrase' \in Pass \cup {None} /\ unchecked' \in BOOLEAN
      /\ UNCHANGED <<passphrase, unchecked, sending, pushed, known, reseeded, stale, stray>>
  BY <1>1 DEF WalletInv, WalletTyped, HistoryTyped, nodeVars, histVars
<1>7. QED
  BY <1>2, <1>3, <1>4, <1>5, <1>6, RekeyKeeps

LEMMA ChangePassphraseKeeps ==
  ASSUME WalletInv, NEW o \in Pass, NEW n \in Pass, ChangePassphrase(o, n)
  PROVE  WalletInv'
<1>1. UNCHANGED <<trees, sending, nodeVars, known, stray, stale, reseeded>>
  BY DEF ChangePassphrase
<1>2. /\ trees' \in [Position \X (Pass \cup {None}) -> Trees \cup {None}]
      /\ IsFiniteSet(used')
      /\ UNCHANGED <<sending, pushed, known, reseeded, stale, stray>>
  BY <1>1 DEF WalletInv, WalletTyped, nodeVars
<1>3. CASE Save(EncryptWith(n)) /\ passphrase' = None /\ unchecked' = FALSE
  <2>1. Rekeyed(EncryptWith(n)) /\ Uniform(EncryptWith(n))
    BY EncryptFacts DEF WalletInv, Uniform
  <2>2. items' = EncryptWith(n) /\ file' \in {file, EncryptWith(n)}
    BY <1>3 DEF Save
  <2>3. QED
    BY <1>2, <1>3, <2>1, <2>2, RekeyKeeps
<1>4. CASE /\ \E i \in DOMAIN items : items[i].key # o
           /\ items' = Opened(o)
           /\ passphrase' = o /\ unchecked' = TRUE /\ UNCHANGED file
  <2>1. Rekeyed(Opened(o))
    BY OpenedFacts DEF WalletInv
  <2>2. stray \/ Uniform(Opened(o))
    <3>1. SUFFICES ASSUME ~ stray  PROVE Uniform(Opened(o))
      OBVIOUS
    <3>2. Uniform(items)
      BY <3>1 DEF WalletInv, KeyedOnce
    <3>3. \A j \in DOMAIN items : Opened(o)[j] = items[j]
      BY <1>4, <3>2, OpenedUniform DEF WalletInv
    <3>4. DOMAIN Opened(o) = DOMAIN items
      BY <2>1 DEF Rekeyed
    <3>5. QED
      BY <3>2, <3>3, <3>4 DEF Uniform
  <2>3. QED
    BY <1>2, <1>4, <2>1, <2>2, RekeyKeeps
<1>5. CASE passphrase' = o /\ unchecked' = TRUE /\ UNCHANGED walletVars
  BY <1>2, <1>5, QuietKeeps DEF walletVars
<1>6. QED
  BY <1>3, <1>4, <1>5 DEF ChangePassphrase

-----------------------------------------------------------------------------
(* Addresses *)

(* A new item at the end, and the first key of a new address may sign.      *)
LEMMA AddKeeps ==
  ASSUME WalletInv, NEW a \in Address, NEW n \in Nat, Idle, AddItem(a, n),
         known' = known \cup {a},
         UNCHANGED <<passphrase, trees, nodeVars, unchecked, stale>>,
         \/ reseeded' = reseeded \cup {a} /\ UNCHANGED sending
         \/ /\ a \notin known /\ UNCHANGED reseeded
            /\ \/ UNCHANGED sending
               \/ /\ sending' = [asked |-> a, addr |-> a, key |-> 0]
                  /\ file' = items' /\ n > 0
  PROVE  WalletInv'
<1> DEFINE new == [addr |-> a, index |-> n, key |-> passphrase]
           s == Append(items, new)
<1>1. /\ ~ Holds(a) /\ Authenticated /\ Save(s) /\ sending = None
      /\ stray' = (stray \/ unchecked)
  BY DEF AddItem, Idle
<1>2. new \in Item /\ items \in Seq(Item)
  BY DEF Item, WalletInv, WalletTyped
<1>3. new.addr = a /\ new.index = n /\ new.key = passphrase
  OBVIOUS
<1> HIDE DEF new
<1>4. /\ s \in Seq(Item) /\ Len(s) = Len(items) + 1 /\ Len(items) \in Nat
      /\ DOMAIN items = 1 .. Len(items) /\ DOMAIN s = 1 .. Len(s)
      /\ \A i \in DOMAIN items : s[i] = items[i]
      /\ s[Len(items) + 1] = new
  BY <1>2, AppendElements
<1> HIDE DEF s
<1>5. \A i \in DOMAIN s :
        \/ i \in DOMAIN items /\ s[i] = items[i]
        \/ i = Len(items) + 1 /\ s[i] = new
  BY <1>4
<1>6. \A i \in DOMAIN items : items[i].addr # a
  BY <1>1 DEF Holds
<1>7. NoTwice(s)
  BY <1>3, <1>5, <1>6 DEF NoTwice, WalletInv
<1>8. /\ items' = s /\ file' \in {file, s}
      /\ items' \in Seq(Item) /\ file' \in Seq(Item)
      /\ NoTwice(items') /\ NoTwice(file')
  BY <1>1, <1>4, <1>7, SaveKeeps DEF WalletInv
<1>9. WalletTyped'
  <2>1. sending' \in [asked : Address, addr : Address, key : Nat] \cup {None}
    BY DEF WalletInv, WalletTyped
  <2>2. QED
    BY <1>8, <2>1 DEF WalletInv, WalletTyped, nodeVars
<1>10. HistoryTyped'
  <2>1. stray' \in BOOLEAN
    BY <1>1, TruthValue
  <2>2. QED
    BY <2>1 DEF WalletInv, HistoryTyped
<1>11. NoTwice(items)' /\ NoTwice(file)'
  BY <1>8 DEF NoTwice
<1>12. SignedOnce'
  <2>1. CASE stale
    BY <2>1 DEF SignedOnce
  <2>2. CASE ~ stale
    <3>1. /\ Sound(items) /\ Sound(file) /\ \A x \in Signed : x[1] \in known
          /\ KeysSignOnce
      BY <2>2 DEF WalletInv, SignedOnce
    <3>2. Signed = ToSet(pushed) /\ Signed \subseteq Address \X Nat
      BY <1>1, SignedFacts DEF WalletInv
    <3>3. CASE UNCHANGED sending
      <4>1. Signed' = Signed
        BY <3>3 DEF Signed, nodeVars
      <4>2. a \notin known \/ a \in reseeded'
        BY <3>3
      <4>3. reseeded \subseteq reseeded' /\ known \subseteq known' /\ a \in known'
        OBVIOUS
      <4>4. \A x \in Signed : x[1] = a => x[1] \in reseeded'
        BY <3>1, <4>2
      <4>5. Within(s, known') /\ Below(s, Signed, reseeded')
        BY <1>3, <1>5, <3>1, <4>3, <4>4 DEF Sound, Within, Below
      <4>6. Within(file, known') /\ Below(file, Signed, reseeded')
        BY <3>1, <4>3 DEF Sound, Within, Below
      <4>7. Sound(items)' /\ Sound(file)'
        BY <1>8, <4>1, <4>5, <4>6 DEF Sound, Within, Below
      <4>8. Fresh'
        BY <1>1, <3>3 DEF Fresh
      <4>9. KeysSignOnce'
        BY <3>1, <4>3 DEF KeysSignOnce, nodeVars
      <4>10. \A x \in Signed' : x[1] \in known'
        BY <3>1, <4>1, <4>3
      <4>11. QED
        BY <4>7, <4>8, <4>9, <4>10 DEF SignedOnce
    <3>4. CASE /\ a \notin known /\ UNCHANGED reseeded
               /\ sending' = [asked |-> a, addr |-> a, key |-> 0]
               /\ file' = items' /\ n > 0
      <4>1. Signed' \subseteq Signed \cup {<<a, 0>>}
        BY <3>2, <3>4 DEF Signed, nodeVars
      <4>2. \A x \in Signed : x[1] # a
        BY <3>1, <3>4
      <4>3. Within(s, known')
        BY <1>3, <1>5, <3>1 DEF Sound, Within
      <4>4. Below(s, Signed \cup {<<a, 0>>}, reseeded)
        BY <1>3, <1>5, <1>6, <3>1, <3>4, <4>2 DEF Sound, Below
      <4>5. Sound(items)' /\ Sound(file)'
        BY <1>8, <3>4, <4>1, <4>3, <4>4 DEF Sound, Within, Below
      <4>6. Fresh'
        <5>1. <<a, 0>> \notin ToSet(pushed)
          BY <3>2, <4>2
        <5>2. QED
          BY <3>4, <5>1 DEF Fresh, nodeVars
      <4>7. KeysSignOnce'
        BY <3>1, <3>4 DEF KeysSignOnce, nodeVars
      <4>8. \A x \in Signed' : x[1] \in known'
        BY <3>1, <4>1
      <4>9. QED
        BY <4>5, <4>6, <4>7, <4>8 DEF SignedOnce
    <3>5. QED
      BY <3>3, <3>4
  <2>3. QED
    BY <2>1, <2>2
<1>13. KeyedOnce'
  <2>1. CASE stray \/ unchecked
    BY <1>1, <2>1 DEF KeyedOnce
  <2>2. CASE ~ stray /\ ~ unchecked
    <3>1. /\ Uniform(items) /\ Uniform(file)
          /\ passphrase # None => \A i \in DOMAIN items : items[i].key = passphrase
      BY <2>2 DEF WalletInv, KeyedOnce
    <3>2. \A i \in DOMAIN items : items[i].key = passphrase
      <4>1. CASE passphrase # None
        BY <3>1, <4>1
      <4>2. CASE passphrase = None
        <5>1. items = <<>> \/ items[1].key = None
          BY <1>1, <4>2 DEF Authenticated, IsEncrypted
        <5>2. \A i \in DOMAIN items : 1 \in DOMAIN items
          BY <1>4
        <5>3. CASE items[1].key = None
          BY <3>1, <4>2, <5>2, <5>3 DEF Uniform
        <5>4. QED
          BY <5>1, <5>3
      <4>3. QED
        BY <4>1, <4>2
    <3>3. \A i \in DOMAIN s : s[i].key = passphrase
      BY <1>3, <1>5, <3>2
    <3>4. Uniform(s)
      BY <3>3 DEF Uniform
    <3>5. Uniform(items)' /\ Uniform(file)'
      BY <1>8, <3>1, <3>4 DEF Uniform
    <3>6. \A i \in DOMAIN items' : items'[i].key = passphrase'
      BY <1>8, <3>3
    <3>7. QED
      BY <3>5, <3>6 DEF KeyedOnce
  <2>3. QED
    BY <2>1, <2>2
<1>14. QED
  BY <1>9, <1>10, <1>11, <1>12, <1>13 DEF WalletInv

LEMMA AddressKeeps ==
  ASSUME WalletInv, NEW a \in Address,
         AddNewAddress(a) \/ AddNewAddressWithSlaves(a) \/ AddAddressFromSeed(a)
  PROVE  WalletInv'
<1>1. CASE AddNewAddress(a)
  BY <1>1, AddKeeps DEF AddNewAddress
<1>2. CASE AddNewAddressWithSlaves(a)
  <2>1. \/ UNCHANGED sending
        \/ file' = items' /\ sending' = [asked |-> a, addr |-> a, key |-> 0]
    BY <1>2 DEF AddNewAddressWithSlaves, Idle
  <2>2. QED
    BY <1>2, <2>1, AddKeeps DEF AddNewAddressWithSlaves
<1>3. CASE AddAddressFromSeed(a)
  <2>1. known' = known \cup {a}
    BY <1>3 DEF AddAddressFromSeed
  <2>2. QED
    BY <1>3, <2>1, AddKeeps DEF AddAddressFromSeed
<1>4. QED
  BY <1>1, <1>2, <1>3

LEMMA RemoveKeeps ==
  ASSUME WalletInv, NEW a \in Address, RemoveAddress(a)
  PROVE  WalletInv'
<1> DEFINE k == At(a)
           s == RemoveAt(items, k)
<1>1. /\ Holds(a) /\ Save(s)
      /\ UNCHANGED <<passphrase, trees, sending, nodeVars, histVars>>
  BY DEF RemoveAddress
<1>2. k \in DOMAIN items /\ items \in Seq(Item)
  BY <1>1, AtFacts DEF WalletInv, WalletTyped
<1> HIDE DEF k
<1>3. /\ s \in Seq(Item) /\ Len(s) = Len(items) - 1
      /\ \A i \in DOMAIN s : s[i] = IF i < k THEN items[i] ELSE items[i + 1]
  BY <1>2, RemoveAtFacts
<1> HIDE DEF s
<1> DEFINE old(i) == IF i < k THEN i ELSE i + 1
<1>4. \A i \in DOMAIN s : old(i) \in DOMAIN items /\ s[i] = items[old(i)]
  BY <1>2, <1>3
<1>5. \A i, j \in DOMAIN s : old(i) = old(j) => i = j
  BY <1>2, <1>3
<1> HIDE DEF old
<1>6. NoTwice(s)
  BY <1>4, <1>5 DEF NoTwice, WalletInv
<1>7. Sound(items) => Sound(s)
  BY <1>4 DEF Sound, Within, Below
<1>8. Uniform(items) => Uniform(s)
  BY <1>4 DEF Uniform
<1>9. /\ items' = s /\ file' \in {file, s}
      /\ items' \in Seq(Item) /\ file' \in Seq(Item)
      /\ NoTwice(items') /\ NoTwice(file')
  BY <1>1, <1>3, <1>6, SaveKeeps DEF WalletInv
<1>10. WalletTyped' /\ HistoryTyped'
  BY <1>1, <1>9 DEF WalletInv, WalletTyped, HistoryTyped, nodeVars, histVars
<1>11. NoTwice(items)' /\ NoTwice(file)'
  BY <1>9 DEF NoTwice
<1>12. SignedOnce'
  <2>1. CASE stale
    BY <1>1, <2>1 DEF SignedOnce, histVars
  <2>2. CASE ~ stale
    <3>1. /\ Sound(s) /\ Sound(file) /\ \A x \in Signed : x[1] \in known
          /\ Fresh /\ KeysSignOnce
      BY <1>7, <2>2 DEF WalletInv, SignedOnce
    <3>2. Signed' = Signed /\ UNCHANGED <<sending, pushed, known, reseeded, stale>>
      BY <1>1 DEF Signed, nodeVars, histVars
    <3>3. Sound(items)' /\ Sound(file)'
      BY <1>9, <3>1, <3>2 DEF Sound, Within, Below
    <3>4. Fresh' /\ KeysSignOnce'
      BY <3>1, <3>2 DEF Fresh, KeysSignOnce
    <3>5. QED
      BY <3>1, <3>2, <3>3, <3>4 DEF SignedOnce
  <2>3. QED
    BY <2>1, <2>2
<1>13. KeyedOnce'
  <2>1. CASE stray
    BY <1>1, <2>1 DEF KeyedOnce, histVars
  <2>2. CASE ~ stray
    <3>1. /\ Uniform(s) /\ Uniform(file)
          /\ passphrase # None /\ ~ unchecked => \A i \in DOMAIN items : items[i].key = passphrase
      BY <1>8, <2>2 DEF WalletInv, KeyedOnce
    <3>2. passphrase' # None /\ ~ unchecked' => \A i \in DOMAIN items' : items'[i].key = passphrase'
      BY <1>1, <1>4, <1>9, <3>1 DEF histVars
    <3>3. Uniform(items)' /\ Uniform(file)'
      BY <1>9, <3>1 DEF Uniform
    <3>4. QED
      BY <3>2, <3>3 DEF KeyedOnce
  <2>3. QED
    BY <2>1, <2>2
<1>14. QED
  BY <1>10, <1>11, <1>12, <1>13 DEF WalletInv

-----------------------------------------------------------------------------
(* Signing *)

(* The next index of one item moves on beyond the key k that signs.        *)
LEMMA MovedFacts ==
  ASSUME WalletTyped, NEW i \in DOMAIN items, NEW m \in Nat
  PROVE  /\ Moved(i, m) \in Seq(Item) /\ DOMAIN Moved(i, m) = DOMAIN items
         /\ Moved(i, m)[i].index = m
         /\ \A j \in DOMAIN items :
              /\ Moved(i, m)[j].addr = items[j].addr
              /\ Moved(i, m)[j].key = items[j].key
              /\ j # i => Moved(i, m)[j].index = items[j].index
<1>1. /\ Len(items) \in Nat /\ DOMAIN items = 1 .. Len(items)
      /\ \A j \in DOMAIN items : items[j] \in Item
  BY DEF WalletTyped
<1>2. Moved(i, m) = [j \in 1 .. Len(items) |->
                       IF j = i THEN [items[i] EXCEPT !.index = m] ELSE items[j]]
  BY <1>1 DEF Moved
<1>3. /\ [items[i] EXCEPT !.index = m] \in Item
      /\ [items[i] EXCEPT !.index = m].addr = items[i].addr
      /\ [items[i] EXCEPT !.index = m].key = items[i].key
      /\ [items[i] EXCEPT !.index = m].index = m
  BY <1>1 DEF Item
<1>4. Moved(i, m) \in Seq(Item)
  BY <1>1, <1>2, <1>3
<1>5. QED
  BY <1>1, <1>2, <1>3, <1>4

LEMMA RelayKeeps ==
  ASSUME WalletInv, NEW a \in Address, NEW n \in 0 .. MaxKey - 1, Relay(a, n)
  PROVE  WalletInv'
<1> DEFINE i == At(a)
           t == TreeAt(i)
           k == NextUnused(a, IF n > 0 THEN n ELSE t.index)
           s == Moved(i, k + 1)
<1>1. /\ sending = None /\ Holds(a) /\ HasTree(i)
      /\ n > 0 => n >= t.index /\ k = n
      /\ Cache(i, [t EXCEPT !.index = k + 1])
      /\ Save(s)
      /\ sending' = IF Partially(items') THEN None
                    ELSE [asked |-> a, addr |-> t.addr, key |-> k]
      /\ stale' = (stale \/ t.addr # a \/ t.index < items[i].index)
      /\ UNCHANGED <<passphrase, nodeVars, known, unchecked, stray, reseeded>>
  BY DEF Relay, Idle
<1>2. i \in DOMAIN items /\ items[i].addr = a
  BY <1>1, AtFacts
<1>3. t \in Trees
  BY <1>1, <1>2, TreeFacts DEF WalletInv
<1>4. t.index \in Nat /\ t.addr \in Address /\ n \in Nat
  BY <1>3, WalletAssumption DEF Trees
<1> HIDE DEF t, i
<1>5. k \in Nat /\ k >= t.index
  <2>1. (IF n > 0 THEN n ELSE t.index) \in Nat
    BY <1>4
  <2>2. k \in Nat /\ k >= (IF n > 0 THEN n ELSE t.index)
    BY <2>1, NextUnusedFacts DEF WalletInv
  <2> HIDE DEF k
  <2>3. QED
    BY <1>1, <1>4, <2>2
<1> HIDE DEF k
<1>6. /\ s \in Seq(Item) /\ DOMAIN s = DOMAIN items
      /\ s[i].index = k + 1
      /\ \A j \in DOMAIN items :
           /\ s[j].addr = items[j].addr /\ s[j].key = items[j].key
           /\ j # i => s[j].index = items[j].index
  BY <1>2, <1>5, MovedFacts DEF WalletInv
<1> HIDE DEF s
<1>7. NoTwice(s)
  BY <1>6 DEF WalletInv, NoTwice
<1>8. /\ items' = s /\ file' \in {file, s}
      /\ items' \in Seq(Item) /\ file' \in Seq(Item)
      /\ NoTwice(items') /\ NoTwice(file')
      /\ ~ Partially(s) => file' = s
  BY <1>1, <1>6, <1>7, SaveKeeps DEF WalletInv
<1>9. \/ sending' = None
      \/ /\ sending' = [asked |-> a, addr |-> t.addr, key |-> k]
         /\ file' = s
  BY <1>1, <1>8
<1>10. WalletTyped'
  <2>1. [t EXCEPT !.index = k + 1] \in Trees
    BY <1>3, <1>5 DEF Trees
  <2>2. trees' \in [Position \X (Pass \cup {None}) -> Trees \cup {None}]
    BY <1>1, <2>1, CacheFacts DEF WalletInv
  <2>3. sending' \in [asked : Address, addr : Address, key : Nat] \cup {None}
    <3>1. [asked |-> a, addr |-> t.addr, key |-> k] \in [asked : Address, addr : Address, key : Nat]
      BY <1>4, <1>5
    <3>2. QED
      BY <1>9, <3>1, Zenon
  <2>4. QED
    BY <1>1, <1>8, <2>2, <2>3 DEF WalletInv, WalletTyped, nodeVars
<1>11. HistoryTyped'
  <2>1. stale' \in BOOLEAN
    BY <1>1, TruthValue
  <2>2. QED
    BY <1>1, <2>1 DEF WalletInv, HistoryTyped
<1>12. NoTwice(items)' /\ NoTwice(file)'
  BY <1>8 DEF NoTwice
<1>13. SignedOnce'
  <2>1. CASE stale \/ t.addr # a \/ t.index < items[i].index
    BY <1>1, <2>1 DEF SignedOnce
  <2>2. CASE ~ (stale \/ t.addr # a \/ t.index < items[i].index)
    <3>1. /\ Sound(items) /\ Sound(file) /\ \A x \in Signed : x[1] \in known
          /\ KeysSignOnce
      BY <2>2 DEF WalletInv, SignedOnce
    <3>2. Signed = ToSet(pushed) /\ Signed \subseteq Address \X Nat
      BY <1>1, SignedFacts DEF WalletInv
    <3>3. items[i].index \in Nat /\ a \in known
      <4>1. items[i] \in Item
        BY <1>2 DEF WalletInv, WalletTyped
      <4>2. QED
        BY <1>2, <3>1, <4>1 DEF Sound, Within, Item
    <3>4. k >= items[i].index /\ t.addr = a
      BY <1>4, <1>5, <2>2, <3>3
    <3>5. \A x \in Signed : x[1] = a => x[1] \in reseeded \/ x[2] < k
      BY <1>2, <1>5, <3>1, <3>2, <3>3, <3>4 DEF Sound, Below
    <3>6. Signed' \subseteq Signed \cup {<<a, k>>}
      BY <1>1, <1>9, <3>2, <3>4 DEF Signed, nodeVars
    <3>7. Within(s, known)
      BY <1>6, <3>1 DEF Sound, Within
    <3>8. Below(s, Signed, reseeded)
      <4>1. ASSUME NEW j \in DOMAIN s, NEW x \in Signed, x[1] = s[j].addr, x[1] \notin reseeded
            PROVE  x[2] < s[j].index
        <5>1. CASE j = i
          BY <1>2, <1>5, <1>6, <3>2, <3>5, <4>1, <5>1
        <5>2. CASE j # i
          BY <1>6, <3>1, <4>1, <5>2 DEF Sound, Below
        <5>3. QED
          BY <5>1, <5>2
      <4>2. QED
        BY <4>1 DEF Below
    <3>9. Below(s, {<<a, k>>}, reseeded)
      <4>1. \A j \in DOMAIN s : s[j].addr = a => j = i
        BY <1>2, <1>6 DEF WalletInv, NoTwice
      <4>2. QED
        BY <1>5, <1>6, <4>1 DEF Below
    <3>10. Below(s, Signed \cup {<<a, k>>}, reseeded)
      BY <3>8, <3>9 DEF Below
    <3>11. Sound(items)'
      BY <1>1, <1>8, <3>6, <3>7, <3>10 DEF Sound, Within, Below
    <3>12. Sound(file)'
      <4>1. CASE file' = s
        BY <1>1, <3>6, <3>7, <3>10, <4>1 DEF Sound, Within, Below
      <4>2. CASE file' = file /\ sending' = None
        <5>1. Signed' = Signed
          BY <1>1, <3>2, <4>2 DEF Signed, nodeVars
        <5>2. QED
          BY <1>1, <3>1, <4>2, <5>1 DEF Sound, Within, Below
      <4>3. QED
        BY <1>8, <1>9, <4>1, <4>2
    <3>13. Fresh'
      <4>1. a \notin reseeded => <<a, k>> \notin ToSet(pushed)
        BY <1>5, <3>2, <3>5
      <4>2. QED
        BY <1>1, <1>9, <3>4, <4>1 DEF Fresh, nodeVars
    <3>14. KeysSignOnce'
      BY <1>1, <2>2, <3>1 DEF KeysSignOnce, nodeVars
    <3>15. \A x \in Signed' : x[1] \in known'
      BY <1>1, <3>1, <3>3, <3>6
    <3>16. QED
      BY <3>11, <3>12, <3>13, <3>14, <3>15 DEF SignedOnce
  <2>3. QED
    BY <2>1, <2>2
<1>14. KeyedOnce'
  <2>1. CASE stray
    BY <1>1, <2>1 DEF KeyedOnce
  <2>2. CASE ~ stray
    <3>1. /\ Uniform(items) /\ Uniform(file)
          /\ passphrase # None /\ ~ unchecked => \A j \in DOMAIN items : items[j].key = passphrase
      BY <2>2 DEF WalletInv, KeyedOnce
    <3>2. Uniform(items)' /\ Uniform(file)'
      BY <1>6, <1>8, <3>1 DEF Uniform
    <3>3. passphrase' # None /\ ~ unchecked' => \A j \in DOMAIN items' : items'[j].key = passphrase'
      BY <1>1, <1>6, <1>8, <3>1
    <3>4. QED
      BY <3>2, <3>3 DEF KeyedOnce
  <2>3. QED
    BY <2>1, <2>2
<1>15. QED
  BY <1>10, <1>11, <1>12, <1>13, <1>14 DEF WalletInv

LEMMA PushKeeps ==
  ASSUME WalletInv, Push
  PROVE  WalletInv'
<1> DEFINE e == <<sending.addr, sending.key>>
<1>1. /\ sending # None /\ sending' = None /\ pushed' = Append(pushed, e)
      /\ UNCHANGED <<walletVars, passphrase, trees, used, histVars>>
  BY DEF Push
<1>2. e \in Address \X Nat /\ pushed \in Seq(Address \X Nat) /\ e[1] = sending.addr
  BY <1>1 DEF WalletInv, WalletTyped
<1>3. Signed = ToSet(pushed) \cup {e}
  BY <1>1, SignedFacts DEF WalletInv
<1> HIDE DEF e
<1>4. /\ pushed' \in Seq(Address \X Nat) /\ Len(pushed') = Len(pushed) + 1
      /\ \A m \in DOMAIN pushed : pushed'[m] = pushed[m]
      /\ pushed'[Len(pushed) + 1] = e
      /\ ToSet(pushed') = ToSet(pushed) \cup {e}
  BY <1>1, <1>2, AppendElements
<1>5. Signed' = Signed
  BY <1>1, <1>3, <1>4 DEF Signed
<1>6. WalletTyped' /\ HistoryTyped'
  BY <1>1, <1>4 DEF WalletInv, WalletTyped, HistoryTyped, walletVars, histVars
<1>7. NoTwice(items)' /\ NoTwice(file)' /\ KeyedOnce'
  BY <1>1 DEF WalletInv, NoTwice, KeyedOnce, Uniform, walletVars, histVars
<1>8. SignedOnce'
  <2>1. CASE stale
    BY <1>1, <2>1 DEF SignedOnce, histVars
  <2>2. CASE ~ stale
    <3>1. /\ Sound(items) /\ Sound(file) /\ \A x \in Signed : x[1] \in known
          /\ Fresh /\ KeysSignOnce
      BY <2>2 DEF WalletInv, SignedOnce
    <3>2. Sound(items)' /\ Sound(file)' /\ \A x \in Signed' : x[1] \in known'
      BY <1>1, <1>5, <3>1 DEF Sound, Within, Below, walletVars, histVars
    <3>3. Fresh'
      BY <1>1 DEF Fresh
    <3>4. e[1] \in reseeded \/ \A m \in DOMAIN pushed : pushed[m] # e
      <4>1. \A m \in DOMAIN pushed : pushed[m] \in ToSet(pushed)
        BY <1>2, ElementFacts
      <4>2. QED
        BY <1>1, <1>2, <3>1, <4>1 DEF Fresh, e
    <3>5. KeysSignOnce'
      <4>1. \A m \in DOMAIN pushed' : m \in DOMAIN pushed \/ m = Len(pushed) + 1
        BY <1>2, <1>4
      <4>2. ASSUME NEW i \in DOMAIN pushed', NEW j \in DOMAIN pushed',
                   i # j, pushed'[i] = pushed'[j]
            PROVE  pushed'[i][1] \in reseeded
        <5>1. CASE i \in DOMAIN pushed /\ j \in DOMAIN pushed
          BY <1>4, <2>2, <3>1, <4>2, <5>1 DEF KeysSignOnce
        <5>2. CASE i = Len(pushed) + 1 \/ j = Len(pushed) + 1
          BY <1>4, <3>4, <4>1, <4>2, <5>2
        <5>3. QED
          BY <4>1, <5>1, <5>2
      <4>3. QED
        BY <1>1, <4>2 DEF KeysSignOnce, histVars
    <3>6. QED
      BY <3>2, <3>3, <3>5 DEF SignedOnce
  <2>3. QED
    BY <2>1, <2>2
<1>9. QED
  BY <1>6, <1>7, <1>8 DEF WalletInv

(* Memory is lost, with what was signed and not yet pushed.                *)
LEMMA RestartKeeps ==
  ASSUME WalletInv, Restart
  PROVE  WalletInv'
<1>1. /\ items' = file /\ passphrase' = None /\ unchecked' = FALSE /\ sending' = None
      /\ trees' = [x \in DOMAIN trees |-> None]
      /\ UNCHANGED <<file, nodeVars, known, stray, stale, reseeded>>
  BY DEF Restart
<1>2. WalletTyped' /\ HistoryTyped'
  BY <1>1 DEF WalletInv, WalletTyped, HistoryTyped, nodeVars
<1>3. NoTwice(items)' /\ NoTwice(file)'
  BY <1>1 DEF WalletInv, NoTwice
<1>4. KeyedOnce'
  BY <1>1 DEF WalletInv, KeyedOnce, Uniform
<1>5. Signed' \subseteq Signed
  BY <1>1 DEF Signed, nodeVars
<1>6. SignedOnce'
  <2>1. CASE stale
    BY <1>1, <2>1 DEF SignedOnce
  <2>2. CASE ~ stale
    <3>1. Sound(file) /\ KeysSignOnce /\ \A x \in Signed : x[1] \in known
      BY <2>2 DEF WalletInv, SignedOnce
    <3>2. Sound(items)' /\ Sound(file)' /\ \A x \in Signed' : x[1] \in known'
      BY <1>1, <1>5, <3>1 DEF Sound, Within, Below
    <3>3. Fresh' /\ KeysSignOnce'
      BY <1>1, <3>1 DEF Fresh, KeysSignOnce, nodeVars
    <3>4. QED
      BY <3>2, <3>3 DEF SignedOnce
  <2>3. QED
    BY <2>1, <2>2
<1>7. QED
  BY <1>2, <1>3, <1>4, <1>6 DEF WalletInv

-----------------------------------------------------------------------------
(* The specification *)

LEMMA WalletInit ==
  ASSUME Init
  PROVE  WalletInv
<1>1. /\ items = <<>> /\ file = <<>> /\ passphrase = None /\ sending = None /\ pushed = <<>>
      /\ trees = [x \in Position \X (Pass \cup {None}) |-> None] /\ used = {}
      /\ unchecked = FALSE /\ stray = FALSE /\ stale = FALSE
  BY DEF Init
<1>2. WalletTyped /\ HistoryTyped
  <2>1. trees \in [Position \X (Pass \cup {None}) -> Trees \cup {None}]
    BY <1>1
  <2>2. IsFiniteSet(used)
    BY <1>1, FS_EmptySet
  <2>3. items \in Seq(Item) /\ file \in Seq(Item) /\ pushed \in Seq(Address \X Nat)
    BY <1>1
  <2>4. QED
    BY <1>1, <2>1, <2>2, <2>3 DEF WalletTyped, HistoryTyped
<1>3. NoTwice(items) /\ NoTwice(file) /\ KeyedOnce
  BY <1>1 DEF NoTwice, KeyedOnce, Uniform
<1>4. ToSet(pushed) = {} /\ Signed = {}
  BY <1>1 DEF ToSet, Signed
<1>5. SignedOnce
  BY <1>1, <1>4 DEF SignedOnce, Sound, Within, Below, Fresh, KeysSignOnce
<1>6. QED
  BY <1>2, <1>3, <1>5 DEF WalletInv

LEMMA WalletNext ==
  ASSUME WalletInv, [Next]_vars
  PROVE  WalletInv'
<1>1. ASSUME NEW a \in Address,
             \/ AddNewAddress(a) \/ AddNewAddressWithSlaves(a) \/ AddAddressFromSeed(a)
             \/ RemoveAddress(a) \/ GetRecoverySeeds(a)
             \/ \E n \in 0 .. MaxKey - 1 : Relay(a, n) \/ RelayRefused(a, n)
      PROVE  WalletInv'
  BY <1>1, AddressKeeps, RemoveKeeps, ReadingKeeps, RelayKeeps
<1>2. ASSUME NEW p \in Pass, EncryptWallet(p) \/ UnlockWallet(p)
      PROVE  WalletInv'
  BY <1>2, EncryptKeeps, UnlockKeeps
<1>3. ASSUME NEW o \in Pass, NEW n \in Pass, ChangePassphrase(o, n)
      PROVE  WalletInv'
  BY <1>3, ChangePassphraseKeeps
<1>4. CASE LockWallet \/ (\E k \in ToSet(pushed) : Confirm(k)) \/ UNCHANGED vars
  BY <1>4, ReadingKeeps
<1>5. CASE Push \/ Restart
  BY <1>5, PushKeeps, RestartKeeps
<1>6. QED
  BY <1>1, <1>2, <1>3, <1>4, <1>5 DEF Next

(* The inductive invariant of the wallet: the next key of every item, in    *)
(* memory and in the file, is beyond all that has signed for its address,   *)
(* and a passphrase that was tried opens every item.                       *)
THEOREM WalletInvariant == Spec => []WalletInv
<1>1. Init => WalletInv
  BY WalletInit
<1>2. WalletInv /\ [Next]_vars => WalletInv'
  BY WalletNext
<1>3. QED
  BY <1>1, <1>2, PTL DEF Spec

(* A one-time key signs one transaction, over any number of restarts,       *)
(* removals, passphrases and requests for keys of any number, but for the   *)
(* two exceptions that the history names.                                  *)
THEOREM KeysSignOnlyOnce == Spec => []KeysSignOnce
<1>1. WalletInv => KeysSignOnce
  BY DEF WalletInv, SignedOnce, KeysSignOnce
<1>2. QED
  BY <1>1, WalletInvariant, PTL

(* The file is encrypted with one passphrase or not at all, unless an       *)
(* address was added under a passphrase that a failed request left.         *)
THEOREM FileStaysKeyedAlike == Spec => []KeyedAlike
<1>1. WalletInv => KeyedAlike
  BY DEF WalletInv, KeyedOnce, Uniform, KeyedAlike
<1>2. QED
  BY <1>1, WalletInvariant, PTL

=============================================================================
