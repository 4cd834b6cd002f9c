---------------------------- MODULE WalletDaemon ----------------------------
(* The wallet daemon: the wallet file and its copy in memory, the           *)
(* passphrase it holds, the cache of key trees by position and passphrase,  *)
(* and the transactions it signs.  One thread serves the requests; a        *)
(* request that raises leaves behind what it had changed.  The groups of    *)
(* slaves and their one-time keys are not modelled.                         *)
EXTENDS Integers, Sequences, SequencesExt, FiniteSetsExt

CONSTANTS
  Address, Pass,
  MaxKey,    \* bound: one-time keys of an address
  MaxPushed, \* bound: transactions pushed
  MaxTrees,  \* bound: trees in the cache, which holds 20
  None

ASSUME WalletAssumption ==
  /\ IsFiniteSet(Address) /\ None \notin Address \cup Pass
  /\ MaxKey \in Nat \ {0} /\ {MaxPushed, MaxTrees} \subseteq Nat

VARIABLES
  items,       \* _address_items: address, next index, passphrase it is encrypted with
  passphrase,  \* _passphrase
  file,        \* what the wallet file holds
  trees,       \* get_xmss_by_index's cache
  sending,     \* signed and saved, not yet pushed
  pushed,      \* the keys of the transactions pushed, in order
  used,        \* keys used in the chain
  known,       \* history: addresses generated
  unchecked,   \* history: the passphrase held was left by a failed request
  stray,       \* history: an address was added under such a passphrase
  stale,       \* history: a tree was used that the wallet no longer backs
  reseeded     \* history: addresses added again from their seeds

histVars   == <<known, unchecked, stray, stale, reseeded>>
nodeVars   == <<pushed, used>>
walletVars == <<items, file>>
vars == <<items, passphrase, file, trees, sending, pushed, used, known, unchecked,
          stray, stale, reseeded>>

Position == 1 .. Cardinality(Address)

Init ==
  /\ items = <<>> /\ file = <<>> /\ passphrase = None
  /\ trees = [s \in Position \X (Pass \cup {None}) |-> None]
  /\ sending = None /\ pushed = <<>> /\ used = {}
  /\ known = {} /\ reseeded = {}
  /\ unchecked = FALSE /\ stray = FALSE /\ stale = FALSE

Idle == sending = None

-----------------------------------------------------------------------------
(* The wallet.  What is encrypted with one passphrase does not decode under *)
(* another, nor does what is not encrypted.                                 *)

Encrypted(s) == s # <<>> /\ \A i \in DOMAIN s : s[i].key # None
Partially(s) == ~ Encrypted(s) /\ \E i \in DOMAIN s : s[i].key # None
IsEncrypted  == items # <<>> /\ items[1].key # None

(* Memory has changed to s when save refuses a wallet encrypted in part.   *)
Save(s) ==
  /\ items' = s
  /\ file' = IF Partially(s) THEN file ELSE s

Holds(a) == \E i \in DOMAIN items : items[i].addr = a
At(a)    == CHOOSE i \in DOMAIN items : items[i].addr = a

Authenticated == passphrase # None \/ ~ IsEncrypted

-----------------------------------------------------------------------------
(* Addresses *)

(* The new item is encrypted with the passphrase held, if any.             *)
AddItem(a, index) ==
  /\ Authenticated /\ ~ Holds(a)
  /\ Save(Append(items, [addr |-> a, index |-> index, key |-> passphrase]))
  /\ stray' = (stray \/ unchecked)

AddNewAddress(a) ==
  /\ Idle /\ a \notin known
  /\ AddItem(a, 0)
  /\ known' = known \cup {a}
  /\ UNCHANGED <<passphrase, trees, sending, nodeVars, unchecked, stale, reseeded>>

(* add_new_address_with_slaves: the first key of the address signs for its  *)
(* slaves; nothing is sent if the wallet cannot be saved.                  *)
AddNewAddressWithSlaves(a) ==
  /\ Idle /\ a \notin known /\ Len(pushed) < MaxPushed
  /\ AddItem(a, 1)
  /\ known' = known \cup {a}
  /\ sending' = IF file' = items' THEN [asked |-> a, addr |-> a, key |-> 0] ELSE None
  /\ UNCHANGED <<passphrase, trees, nodeVars, unchecked, stale, reseeded>>

AddAddressFromSeed(a) ==
  /\ Idle /\ a \in known
  /\ AddItem(a, 0)
  /\ reseeded' = reseeded \cup {a}
  /\ UNCHANGED <<passphrase, trees, sending, nodeVars, known, unchecked, stale>>

(* Wallet.remove writes the file itself; verify_wallet cannot read an       *)
(* encrypted item of a wallet that is not encrypted as a whole.            *)
RemoveAddress(a) ==
  /\ Idle /\ Authenticated /\ Holds(a)
  /\ Save(RemoveAt(items, At(a)))
  /\ UNCHANGED <<passphrase, trees, sending, nodeVars, histVars>>

-----------------------------------------------------------------------------
(* Passphrases *)

EncryptWith(p) == [i \in DOMAIN items |-> [items[i] EXCEPT !.key = p]]

EncryptWallet(p) ==
  /\ Idle /\ items # <<>> /\ ~ IsEncrypted /\ ~ Partially(items)
  /\ Save(EncryptWith(p))
  /\ UNCHANGED <<passphrase, trees, sending, nodeVars, histVars>>

LockWallet ==
  /\ Idle /\ IsEncrypted
  /\ passphrase' = None /\ unchecked' = FALSE
  /\ UNCHANGED <<walletVars, trees, sending, nodeVars, known, stray, stale, reseeded>>

(* The passphrase is taken first and tried on the first item afterwards.   *)
UnlockWallet(p) ==
  /\ Idle /\ IsEncrypted
  /\ passphrase' = p
  /\ unchecked' = (Partially(items) \/ items[1].key # p)
  /\ UNCHANGED <<walletVars, trees, sending, nodeVars, known, stray, stale, reseeded>>

(* change_passphrase: the items are decrypted one by one up to the first    *)
(* that does not open; then encrypted again, saved, and the wallet locked.  *)
Opened(p) ==
  [i \in DOMAIN items |->
     IF \A j \in 1 .. i : items[j].key = p THEN [items[i] EXCEPT !.key = None] ELSE items[i]]

ChangePassphrase_KeepsNoLock(o, n) ==
  /\ Idle /\ o # n
  /\ \/ /\ Encrypted(items) /\ \A i \in DOMAIN items : items[i].key = o
        /\ Save(EncryptWith(n))
        /\ passphrase' = o /\ unchecked' = FALSE
     \/ /\ Encrypted(items) /\ \E i \in DOMAIN items : items[i].key # o
        /\ items' = Opened(o)
        /\ passphrase' = o /\ unchecked' = TRUE
        /\ UNCHANGED file
     \/ /\ ~ Encrypted(items)
        /\ passphrase' = o /\ unchecked' = TRUE
        /\ UNCHANGED walletVars
  /\ UNCHANGED <<trees, sending, nodeVars, known, stray, stale, reseeded>>

ChangePassphrase(o, n) ==
  /\ Idle /\ o # n
  /\ \/ /\ Encrypted(items) /\ \A i \in DOMAIN items : items[i].key = o
        /\ Save(EncryptWith(n))
        /\ passphrase' = None /\ unchecked' = FALSE
     \/ /\ Encrypted(items) /\ \E i \in DOMAIN items : items[i].key # o
        /\ items' = Opened(o)
        /\ passphrase' = o /\ unchecked' = TRUE
        /\ UNCHANGED file
     \/ /\ ~ Encrypted(items)
        /\ passphrase' = o /\ unchecked' = TRUE
        /\ UNCHANGED walletVars
  /\ UNCHANGED <<trees, sending, nodeVars, known, stray, stale, reseeded>>

-----------------------------------------------------------------------------
(* Signing *)

(* get_xmss_by_index: a tree in the cache is taken whatever the wallet      *)
(* holds at that position by now; else the item must open.                  *)
HasTree(i) ==
  \/ trees[<<i, passphrase>>] # None
  \/ /\ items[i].key = passphrase
     /\ Cardinality({s \in DOMAIN trees : trees[s] # None}) < MaxTrees
TreeAt(i) ==
  IF trees[<<i, passphrase>>] # None THEN trees[<<i, passphrase>>]
  ELSE [addr |-> items[i].addr, index |-> items[i].index]
Cache(i, t) == trees' = [trees EXCEPT ![<<i, passphrase>>] = t]

(* The node's answer: the first key of a from k on that the chain has not   *)
(* used; transactions that wait in a pool do not count.                    *)
NextUnused(a, k) == Min({j \in k .. k + Cardinality(used) : <<a, j>> \notin used})

Moved_TreeOnly(i, k) == items

Moved(i, k) == [items EXCEPT ![i].index = k]

GetRecoverySeeds(a) ==
  /\ Idle /\ Authenticated /\ Holds(a) /\ HasTree(At(a))
  /\ Cache(At(a), TreeAt(At(a)))
  /\ UNCHANGED <<walletVars, passphrase, sending, nodeVars, histVars>>

(* A request for key n (0: any) whose tree is at a later key, or whose key  *)
(* the chain has used, fails; the tree stays at n in the second case.      *)
RelayRefused(a, n) ==
  /\ Idle /\ Authenticated /\ Holds(a) /\ HasTree(At(a))
  /\ LET i == At(a)
         t == TreeAt(i)
     IN /\ n > 0
        /\ n < t.index \/ NextUnused(a, n) # n
        /\ Cache(i, IF n < t.index THEN t ELSE [t EXCEPT !.index = n])
  /\ UNCHANGED <<walletVars, passphrase, sending, nodeVars, histVars>>

(* relay_*_txn up to the save before the push: the key is the next of the   *)
(* tree that the node finds unused for the address named.                  *)
Relay(a, n) ==
  /\ Idle /\ Authenticated /\ Holds(a) /\ HasTree(At(a))
  /\ Len(pushed) < MaxPushed
  /\ LET i == At(a)
         t == TreeAt(i)
         k == NextUnused(a, IF n > 0 THEN n ELSE t.index)
     IN /\ n > 0 => n >= t.index /\ k = n
        /\ k < MaxKey
        /\ Cache(i, [t EXCEPT !.index = k + 1])
        /\ Save(Moved(i, k + 1))
        /\ sending' = IF Partially(items') THEN None
                      ELSE [asked |-> a, addr |-> t.addr, key |-> k]
        /\ stale' = (stale \/ t.addr # a \/ t.index < items[i].index)
  /\ UNCHANGED <<passphrase, nodeVars, known, unchecked, stray, reseeded>>

Push ==
  /\ sending # None
  /\ pushed' = Append(pushed, <<sending.addr, sending.key>>)
  /\ sending' = None
  /\ UNCHANGED <<walletVars, passphrase, trees, used, histVars>>

(* A block with a transaction of the wallet.                               *)
Confirm(k) ==
  /\ used' = used \cup {k} /\ k \notin used
  /\ UNCHANGED <<walletVars, passphrase, trees, sending, pushed, histVars>>

Restart ==
  /\ items' = file /\ passphrase' = None /\ unchecked' = FALSE
  /\ trees' = [s \in DOMAIN trees |-> None]
  /\ sending' = None
  /\ UNCHANGED <<file, nodeVars, known, stray, stale, reseeded>>

Next ==
  \/ \E a \in Address :
       \/ AddNewAddress(a) \/ AddNewAddressWithSlaves(a) \/ AddAddressFromSeed(a)
       \/ RemoveAddress(a) \/ GetRecoverySeeds(a)
       \/ \E n \in 0 .. MaxKey - 1 : Relay(a, n) \/ RelayRefused(a, n)
  \/ \E p \in Pass : EncryptWallet(p) \/ UnlockWallet(p)
  \/ LockWallet
  \/ \E o, n \in Pass : ChangePassphrase(o, n)
  \/ Push \/ Restart
  \/ \E k \in ToSet(pushed) : Confirm(k)

Spec == Init /\ [][Next]_vars

-----------------------------------------------------------------------------
(* A one-time key signs one transaction, across restarts between the save   *)
(* and the push, passphrases and removals.  It is reused only when the      *)
(* cache answers with a tree that the wallet no longer backs, or when the   *)
(* address was added again from its seed, which starts at its first key.    *)
KeysSignOnce ==
  \A i, j \in DOMAIN pushed :
    i # j /\ pushed[i] = pushed[j] => stale \/ pushed[i][1] \in reseeded

(* The file is encrypted with one passphrase, or not at all, unless an      *)
(* address was added under a passphrase that a failed request had left.    *)
KeyedAlike ==
  stray \/ \A i, j \in DOMAIN file : file[i].key = file[j].key

(* A transaction is signed by the address the request names: the tree of a  *)
(* position is that of the item the wallet has there.                       *)
SignerIsNamed == sending # None => sending.addr = sending.asked

=============================================================================
