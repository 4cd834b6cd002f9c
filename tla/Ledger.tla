------------------------------- MODULE Ledger -------------------------------
(***************************************************************************)
(* The account state: what a block's transactions do to it when the block  *)
(* joins the main chain and how they are taken back when fork recovery     *)
(* removes the block (ChainManager._apply_state_changes and                *)
(* revert_state_changes, txs/*, VoteStats).                                *)
(*                                                                         *)
(* Both work on a StateContainer, a copy of the part of the state that the *)
(* block touches, and one batch writes it back.  Here `sc' is the          *)
(* container and `db' the store.                                           *)
(*                                                                         *)
(* A transaction names a payee once, with the whole amount it receives.    *)
(* The lists of an account (PaginatedData) fit on a page.                  *)
(***************************************************************************)
EXTENDS Sequences, FiniteSets, Functions, OtsKeys

CONSTANTS
  Accounts,    \* ordinary addresses
  Wallets,     \* multi-sig addresses
  Mint,        \* coinbase_address: it holds the coins not yet issued
  NoTx,
  Txs,         \* transaction hashes
  Tx,          \* the transactions, a function on Txs
  Coinbase,    \* the coinbase transaction of each block number
  Candidates,  \* sets of blocks that may be on offer together: sequences of
               \* other transactions
  KeyCount,    \* one-time keys of an address: 2 to the height of its tree
  Reward,      \* block_reward
  InitialBalance,
  MaxHeight,   \* bound on the length of the chain
  MaxReverts   \* bound on the number of blocks removed

Addresses == Accounts \cup Wallets \cup {Mint}

Kinds == {"coinbase", "transfer", "message", "lattice", "slave", "token",
          "transfer_token", "multi_sig_create", "multi_sig_spend", "multi_sig_vote"}

OfKind(k) == {t \in Txs : Tx[t].kind = k}

Creations == OfKind("multi_sig_create")
Spends    == OfKind("multi_sig_spend")
Tokens    == OfKind("token")

(* signer is the address of the public key, from the account it acts for.  *)
ASSUME TxAssumption ==
  /\ NoTx \notin Txs
  /\ \A t \in Txs : Tx[t].kind \in Kinds
  /\ \A t \in Txs \ OfKind("coinbase") :
       /\ Tx[t].from \in Accounts
       /\ Tx[t].signer \in Accounts
       /\ Tx[t].key \in 0 .. KeyCount[Tx[t].signer] - 1
       /\ Tx[t].fee \in Nat
  /\ \A t \in OfKind("coinbase") : Tx[t].to \in Accounts

(* An address shows what it is: ordinary, multi-sig, or the one of mint.    *)
ASSUME AddressAssumption ==
  /\ IsFiniteSet(Accounts) /\ IsFiniteSet(Wallets)
  /\ Accounts \cap Wallets = {}
  /\ Mint \notin Accounts \cup Wallets

Payees(t) == DOMAIN Tx[t].pays

(* What the form of each kind of transaction must be (_validate_custom,    *)
(* address_is_valid).  A wallet's address is made from its creation's hash. *)
ASSUME FormAssumption ==
  /\ \A t \in OfKind("transfer") \cup Spends \cup Tokens \cup OfKind("transfer_token") :
       Tx[t].pays \in [Payees(t) -> Nat \ {0}]
  /\ \A t \in OfKind("transfer") \cup Spends : Payees(t) \subseteq Accounts \cup Wallets
  /\ \A t \in Tokens : Payees(t) \subseteq Accounts /\ Tx[t].owner \in Accounts
  /\ \A t \in OfKind("transfer_token") : Payees(t) \subseteq Accounts /\ Tx[t].token \in Tokens
  /\ \A t \in OfKind("message") : Tx[t].to \subseteq Accounts
  /\ \A t \in OfKind("slave") :
       /\ DOMAIN Tx[t].slaves \subseteq Accounts
       /\ Tx[t].slaves \in [DOMAIN Tx[t].slaves -> {0, 1}]
  /\ \A t \in Creations :
       /\ Tx[t].wallet \in Wallets
       /\ DOMAIN Tx[t].weights \subseteq Accounts
       /\ Tx[t].weights \in [DOMAIN Tx[t].weights -> Nat \ {0}]
       /\ Tx[t].threshold \in Nat
  /\ \A t, u \in Creations : Tx[t].wallet = Tx[u].wallet => t = u
  /\ \A t \in Spends : Tx[t].wallet \in Wallets /\ Tx[t].expiry \in Nat
  /\ \A t \in OfKind("multi_sig_vote") : Tx[t].spend \in Spends /\ Tx[t].unvote \in BOOLEAN

ASSUME ChainAssumption ==
  /\ MaxHeight \in Nat
  /\ MaxReverts \in Nat
  /\ Reward \in Nat
  /\ Coinbase \in [1 .. MaxHeight -> OfKind("coinbase")]
  /\ \A B \in Candidates : B \subseteq Seq(Txs \ OfKind("coinbase"))
  /\ KeyCount \in [Accounts -> Nat \ {0}]
  /\ InitialBalance \in [Accounts \cup {Mint} -> Nat]

(* The rewards of a chain are parts of what the coinbase address holds at   *)
(* genesis (block_reward, remaining_emission).                              *)
ASSUME EmissionAssumption == InitialBalance[Mint] >= MaxHeight * Reward

(* Bytes, pages and trees of keys have powers of two, and no tree has fewer *)
(* keys than a byte: a larger one of them is a multiple of a smaller.       *)
ASSUME SearchAssumption ==
  /\ KeysPerByte > 1
  /\ \A a \in Accounts :
       /\ \E i \in 1 .. KeyCount[a] : KeyCount[a] = i * KeysPerByte
       /\ KeyCount[a] > KeysPerPage * KeysPerByte
            => \E i \in 1 .. KeyCount[a] : KeyCount[a] = i * (KeysPerPage * KeysPerByte)

VARIABLES
  db,      \* the account state in the store
  offered, \* the blocks on offer, the same in all of a behaviour
  chain,   \* the blocks of the main chain above the genesis block
  saved,   \* history: the state each of them was applied on
  reverts, \* history: blocks removed so far
  sc,      \* the StateContainer
  phase,   \* "idle", "apply" or "revert"
  todo,    \* transactions of the running block not yet applied
  block    \* its transactions that are in sc

vars == <<db, offered, chain, saved, reverts, sc, phase, todo, block>>

Logs == {"tx", "inbox", "lattice", "slaves", "tokens", "wallets", "spends"}

NoVotes ==
  [live |-> FALSE, voted |-> {}, last |-> [a \in Accounts |-> NoTx],
   weight |-> 0, executed |-> FALSE]

NoToken == [balance |-> 0, origin |-> NoTx]

(* raised: PaginatedData.remove has met another element than it expects.   *)
GenesisState ==
  [balance |-> [a \in Addresses |-> IF a \in Wallets THEN 0 ELSE InitialBalance[a]],
   nonce   |-> [a \in Accounts \cup {Mint} |-> 0],
   keys    |-> [a \in Accounts |-> NoKeys],
   log     |-> [l \in Logs |-> [a \in Addresses |-> <<>>]],
   slaves  |-> {},
   lattice |-> {},
   tokens  |-> [a \in Accounts |-> [t \in Tokens |-> NoToken]],
   wallets |-> {},
   votes   |-> [t \in Spends |-> NoVotes],
   raised  |-> FALSE]

-----------------------------------------------------------------------------
(* Operations on the container.                                            *)

Give(s, pays) ==
  [s EXCEPT !.balance =
     [a \in Addresses |-> IF a \in DOMAIN pays THEN @[a] + pays[a] ELSE @[a]]]

Take(s, pays) ==
  [s EXCEPT !.balance =
     [a \in Addresses |-> IF a \in DOMAIN pays THEN @[a] - pays[a] ELSE @[a]]]

Coins(a, amount) == [x \in {a} |-> amount]

SumOf(f) == SumFunction(f)

InsertInto(s, l, A, e) ==
  [s EXCEPT !.log[l] =
     [a \in Addresses |-> IF a \in A THEN Append(@[a], e) ELSE @[a]]]

EndsWith(q, e) == q # <<>> /\ q[Len(q)] = e

RemoveFrom_Oldest(s, l, A, e) ==
  [s EXCEPT !.log[l] =
     [a \in Addresses |-> IF a \in A /\ @[a] # <<>> THEN Tail(@[a]) ELSE @[a]]]

RemoveFrom(s, l, A, e) ==
  [s EXCEPT !.log[l] =
              [a \in Addresses |->
                 IF a \in A /\ @[a] # <<>> THEN SubSeq(@[a], 1, Len(@[a]) - 1) ELSE @[a]],
            !.raised = @ \/ \E a \in A : ~ EndsWith(s.log[l][a], e)]

From(t)   == Tx[t].from
Signer(t) == Tx[t].signer
Fee(t)    == Coins(From(t), Tx[t].fee)

OnlySigner(t) == {Signer(t)} \ {From(t)}
OthersIn(t, A) == A \ {From(t), Signer(t)}

(* The part every kind but the token creation ends with.                   *)
ApplyPK(s, t) ==
  [InsertInto(s, "tx", OnlySigner(t), t)
     EXCEPT !.nonce[Signer(t)] = @ + 1,
            !.keys[Signer(t)] = SetKey(@, Tx[t].key, KeyCount[Signer(t)])]

RevertPK(s, t) ==
  [RemoveFrom(s, "tx", OnlySigner(t), t)
     EXCEPT !.nonce[Signer(t)] = @ - 1,
            !.keys[Signer(t)] = UnsetKey(@, Tx[t].key)]

-----------------------------------------------------------------------------
(* Coinbase: n is the block's number, fees those of its transactions.      *)

ApplyCoinbase_MintsFees(s, n, fees) ==
  LET c == Coinbase[n]
      paid == Give(s, Coins(Tx[c].to, Reward + fees))
      taken == Take(InsertInto(paid, "tx", {Tx[c].to}, c), Coins(Mint, Reward + fees))
  IN  [InsertInto(taken, "tx", {Mint}, c) EXCEPT !.nonce[Mint] = @ + 1]

ApplyCoinbase(s, n, fees) ==
  LET c == Coinbase[n]
      paid == Give(s, Coins(Tx[c].to, Reward + fees))
      taken == Take(InsertInto(paid, "tx", {Tx[c].to}, c), Coins(Mint, Reward))
  IN  [InsertInto(taken, "tx", {Mint}, c) EXCEPT !.nonce[Mint] = @ + 1]

RevertCoinbase(s, n, fees) ==
  LET c == Coinbase[n]
      taken == Take(s, Coins(Tx[c].to, Reward + fees))
      paid == Give(RemoveFrom(taken, "tx", {Tx[c].to}, c), Coins(Mint, Reward))
  IN  [RemoveFrom(paid, "tx", {Mint}, c) EXCEPT !.nonce[Mint] = @ - 1]

-----------------------------------------------------------------------------
(* Transfer                                                                *)

ValidTransfer(s, t) ==
  /\ Payees(t) \cap Wallets \subseteq s.wallets
  /\ s.balance[From(t)] >= SumOf(Tx[t].pays) + Tx[t].fee

ApplyTransfer(s, t) ==
  LET total == Coins(From(t), SumOf(Tx[t].pays) + Tx[t].fee)
      sent == InsertInto(Take(s, total), "tx", {From(t)}, t)
  IN  ApplyPK(InsertInto(Give(sent, Tx[t].pays), "tx", OthersIn(t, Payees(t)), t), t)

RevertTransfer(s, t) ==
  LET total == Coins(From(t), SumOf(Tx[t].pays) + Tx[t].fee)
      back == RemoveFrom(Give(s, total), "tx", {From(t)}, t)
  IN  RevertPK(RemoveFrom(Take(back, Tx[t].pays), "tx", OthersIn(t, Payees(t)), t), t)

(* Message, lattice keys and slaves: the fee and an entry for the sender.  *)
Charge(s, t) == InsertInto(Take(s, Fee(t)), "tx", {From(t)}, t)
Refund(s, t) == RemoveFrom(Give(s, Fee(t)), "tx", {From(t)}, t)

ApplyMessage(s, t) ==
  LET told == OthersIn(t, Tx[t].to)
  IN  ApplyPK(InsertInto(InsertInto(Charge(s, t), "tx", told, t), "inbox", told, t), t)

RevertMessage(s, t) ==
  LET told == OthersIn(t, Tx[t].to)
  IN  RevertPK(RemoveFrom(RemoveFrom(Refund(s, t), "tx", told, t), "inbox", told, t), t)

ValidLattice(s, t) == <<From(t), Tx[t].keys>> \notin s.lattice

ApplyLattice(s, t) ==
  ApplyPK([InsertInto(Charge(s, t), "lattice", {From(t)}, t)
             EXCEPT !.lattice = @ \cup {<<From(t), Tx[t].keys>>}], t)

RevertLattice(s, t) ==
  RevertPK([RemoveFrom(Refund(s, t), "lattice", {From(t)}, t)
              EXCEPT !.lattice = @ \ {<<From(t), Tx[t].keys>>}], t)

SlavesOf(t) == {<<From(t), a, Tx[t].slaves[a]>> : a \in DOMAIN Tx[t].slaves}

ValidSlave(s, t) ==
  \A a \in DOMAIN Tx[t].slaves, access \in {0, 1} : <<From(t), a, access>> \notin s.slaves

ApplySlave(s, t) ==
  ApplyPK([InsertInto(Charge(s, t), "slaves", {From(t)}, t)
             EXCEPT !.slaves = @ \cup SlavesOf(t)], t)

RevertSlave(s, t) ==
  RevertPK([RemoveFrom(Refund(s, t), "slaves", {From(t)}, t)
              EXCEPT !.slaves = @ \ SlavesOf(t)], t)

-----------------------------------------------------------------------------
(* Tokens.  A record exists when its origin is the transaction that made   *)
(* it.  The token creation logs itself once for each address concerned.    *)

TokenParties(t) == Payees(t) \cup {Tx[t].owner, From(t), Signer(t)}

ApplyToken(s, t) ==
  LET logged == InsertInto(InsertInto(s, "tx", TokenParties(t), t), "tokens", Payees(t), t)
  IN  [Take(logged, Fee(t))
         EXCEPT !.tokens = [a \in Accounts |->
                              IF a \in Payees(t)
                              THEN [@[a] EXCEPT ![t] = [balance |-> Tx[t].pays[a], origin |-> t]]
                              ELSE @[a]],
                !.nonce[Signer(t)] = @ + 1,
                !.keys[Signer(t)] = SetKey(@, Tx[t].key, KeyCount[Signer(t)])]

RevertToken(s, t) ==
  LET logged == RemoveFrom(RemoveFrom(s, "tx", TokenParties(t), t), "tokens", Payees(t), t)
  IN  [Give(logged, Fee(t))
         EXCEPT !.tokens = [a \in Accounts |->
                              IF a \in Payees(t)
                              THEN [@[a] EXCEPT ![t] = NoToken]
                              ELSE @[a]],
                !.nonce[Signer(t)] = @ - 1,
                !.keys[Signer(t)] = UnsetKey(@, Tx[t].key)]

ValidTransferToken(s, t) ==
  LET r == s.tokens[From(t)][Tx[t].token]
  IN  r.origin # NoTx /\ r.balance >= SumOf(Tx[t].pays)

(* sign is 1 to pay, -1 to take back.                                      *)
MoveTokens(s, t, sign) ==
  [s EXCEPT !.tokens =
     [a \in Accounts |->
        [s.tokens[a] EXCEPT ![Tx[t].token].balance =
           @ + (IF a \in Payees(t) THEN sign * Tx[t].pays[a] ELSE 0)
             - (IF a = From(t) THEN sign * SumOf(Tx[t].pays) ELSE 0)]]]

SetOrigin(s, k, A, t) ==
  [s EXCEPT !.tokens =
     [a \in Accounts |-> IF a \in A THEN [@[a] EXCEPT ![k].origin = t] ELSE @[a]]]

ApplyTransferToken(s, t) ==
  LET k == Tx[t].token
      new == {a \in Payees(t) : s.tokens[a][k].origin = NoTx}
      moved == SetOrigin(MoveTokens(Charge(s, t), t, 1), k, new, t)
  IN  ApplyPK(InsertInto(InsertInto(moved, "tokens", new, k),
                     "tx", Payees(t) \ {From(t)}, t), t)

RevertTransferToken_KeepsRecord(s, t) ==
  LET k == Tx[t].token
      new == {a \in Payees(t) : s.tokens[a][k].origin = t}
      moved == MoveTokens(s, t, -1)
      unlogged == RemoveFrom(RemoveFrom(moved, "tokens", new, k),
                         "tx", Payees(t) \ {From(t)}, t)
  IN  RevertPK(Refund(unlogged, t), t)

RevertTransferToken(s, t) ==
  LET k == Tx[t].token
      new == {a \in Payees(t) : s.tokens[a][k].origin = t}
      moved == SetOrigin(MoveTokens(s, t, -1), k, new, NoTx)
      unlogged == RemoveFrom(RemoveFrom(moved, "tokens", new, k),
                         "tx", Payees(t) \ {From(t)}, t)
  IN  RevertPK(Refund(unlogged, t), t)

-----------------------------------------------------------------------------
(* Multi-sig wallets.  Reverting the creation removes the wallet's state   *)
(* but leaves the page that lists its transactions.                        *)

Signatories(c) == DOMAIN Tx[c].weights

ApplyMultiSigCreate(s, c) ==
  LET w == Tx[c].wallet
      logged == InsertInto(InsertInto(Charge(s, c), "tx", {w} \cup OthersIn(c, Signatories(c)), c),
                       "wallets", Signatories(c), w)
  IN  ApplyPK([logged EXCEPT !.wallets = @ \cup {w}, !.balance[w] = 0], c)

RevertMultiSigCreate(s, c) ==
  LET w == Tx[c].wallet
      unlogged == RemoveFrom(RemoveFrom(Refund(s, c), "tx", OthersIn(c, Signatories(c)), c),
                         "wallets", Signatories(c), w)
  IN  RevertPK([unlogged EXCEPT !.wallets = @ \ {w}, !.balance[w] = 0], c)

CreationOf(w) == CHOOSE c \in Creations : Tx[c].wallet = w
Creation(p)   == CreationOf(Tx[p].wallet)
Total(p)      == SumOf(Tx[p].pays)

(* The state of a payee that is a wallet is loaded, which raises when there *)
(* is none (get_state_mainchain).                                           *)
ValidMultiSigSpend(s, p, n) ==
  /\ Tx[p].wallet \in s.wallets
  /\ Payees(p) \cap Wallets \subseteq s.wallets
  /\ s.balance[Tx[p].wallet] >= Total(p)
  /\ Tx[p].expiry > n
  /\ From(p) \in Signatories(Creation(p))

ApplyMultiSigSpend(s, p) ==
  LET w == Tx[p].wallet
      told == Signatories(Creation(p)) \cup {w}
      logged == InsertInto(InsertInto(Charge(s, p), "spends", told, p), "tx", {w}, p)
  IN  ApplyPK([logged EXCEPT !.votes[p] = [NoVotes EXCEPT !.live = TRUE]], p)

RevertMultiSigSpend_KeepsVotes(s, p) ==
  LET w == Tx[p].wallet
      told == Signatories(Creation(p)) \cup {w}
  IN  RevertPK(RemoveFrom(RemoveFrom(Refund(s, p), "spends", told, p), "tx", {w}, p), p)

RevertMultiSigSpend(s, p) ==
  LET w == Tx[p].wallet
      told == Signatories(Creation(p)) \cup {w}
      unlogged == RemoveFrom(RemoveFrom(Refund(s, p), "spends", told, p), "tx", {w}, p)
  IN  RevertPK([unlogged EXCEPT !.votes[p] = NoVotes], p)

(* VoteStats.apply and revert: the payment itself.                         *)
Executable(s, p, n) ==
  /\ ~ s.votes[p].executed
  /\ s.votes[p].weight >= Tx[Creation(p)].threshold
  /\ n <= Tx[p].expiry
  /\ Total(p) <= s.balance[Tx[p].wallet]

Execute_Overdraws(s, p, n) ==
  LET paid == Give(Take(s, Coins(Tx[p].wallet, Total(p))), Tx[p].pays)
      logged == InsertInto(paid, "tx", OthersIn(p, Payees(p)), p)
  IN  IF ~ s.votes[p].executed /\ s.votes[p].weight >= Tx[Creation(p)].threshold
      THEN [logged EXCEPT !.votes[p].executed = TRUE] ELSE s

Execute(s, p, n) ==
  LET paid == Give(Take(s, Coins(Tx[p].wallet, Total(p))), Tx[p].pays)
      logged == InsertInto(paid, "tx", OthersIn(p, Payees(p)), p)
  IN  IF Executable(s, p, n) THEN [logged EXCEPT !.votes[p].executed = TRUE] ELSE s

Unexecute_AnyPayee(s, p, n) ==
  LET back == Take(Give(s, Coins(Tx[p].wallet, Total(p))), Tx[p].pays)
  IN  IF s.votes[p].executed
      THEN [RemoveFrom(back, "tx", Payees(p), p) EXCEPT !.votes[p].executed = FALSE] ELSE s

Unexecute(s, p, n) ==
  LET back == Take(Give(s, Coins(Tx[p].wallet, Total(p))), Tx[p].pays)
      unlogged == RemoveFrom(back, "tx", OthersIn(p, Payees(p)), p)
  IN  IF /\ s.votes[p].executed
         /\ s.votes[p].weight >= Tx[Creation(p)].threshold
         /\ n <= Tx[p].expiry
      THEN [unlogged EXCEPT !.votes[p].executed = FALSE] ELSE s

Weight(v) == Tx[Creation(Tx[v].spend)].weights[From(v)]

(* A vote, or its withdrawal, must change what the signatory last said.    *)
ValidMultiSigVote(s, v, n) ==
  LET stats == s.votes[Tx[v].spend]
  IN  /\ stats.live
      /\ ~ stats.executed
      /\ n <= Tx[Tx[v].spend].expiry
      /\ From(v) \in Signatories(Creation(Tx[v].spend))
      /\ Tx[v].unvote <=> From(v) \in stats.voted

Tally(stats, a, weight, for, last) ==
  [stats EXCEPT !.last[a] = last,
                !.weight = IF for THEN @ + weight ELSE @ - weight,
                !.voted = IF for THEN @ \cup {a} ELSE @ \ {a}]

ApplyMultiSigVote(s, v, n) ==
  LET p == Tx[v].spend
      counted == [Charge(s, v) EXCEPT !.votes[p] = Tally(@, From(v), Weight(v), ~ Tx[v].unvote, v)]
  IN  ApplyPK(Execute(counted, p, n), v)

(* e is the vote as the block holds it: prev is the signatory's vote       *)
(* before this one.                                                        *)
CanRevertVote(s, e, n) ==
  LET stats == s.votes[Tx[e.tx].spend]
  IN  /\ n <= Tx[Tx[e.tx].spend].expiry
      /\ From(e.tx) \in Signatories(Creation(Tx[e.tx].spend))
      /\ Tx[e.tx].unvote <=> From(e.tx) \notin stats.voted
      /\ stats.last[From(e.tx)] = e.tx

RevertMultiSigVote_KeepsPayment(s, e, n) ==
  LET v == e.tx
      p == Tx[v].spend
      uncounted == [s EXCEPT !.votes[p] = Tally(@, From(v), Weight(v), Tx[v].unvote, e.prev)]
  IN  RevertPK(Refund(uncounted, v), v)

RevertMultiSigVote_ForgetsPrev(s, e, n) ==
  LET v == e.tx
      p == Tx[v].spend
      uncounted == [Unexecute(s, p, n)
                      EXCEPT !.votes[p] = Tally(@, From(v), Weight(v), Tx[v].unvote, NoTx)]
  IN  RevertPK(Refund(uncounted, v), v)

RevertMultiSigVote(s, e, n) ==
  LET v == e.tx
      p == Tx[v].spend
      uncounted == [Unexecute(s, p, n)
                      EXCEPT !.votes[p] = Tally(@, From(v), Weight(v), Tx[v].unvote, e.prev)]
  IN  RevertPK(Refund(uncounted, v), v)

-----------------------------------------------------------------------------
(* One transaction.                                                        *)

(* validate_all, for a transaction numbered by the miner.                  *)
Authorised(s, t) ==
  /\ From(t) = Signer(t) \/ <<From(t), Signer(t), 0>> \in s.slaves
  /\ KeyFree(s.keys[Signer(t)], Tx[t].key)

Valid(s, t, n) ==
  /\ Authorised(s, t)
  /\ s.balance[From(t)] >= Tx[t].fee
  /\ CASE Tx[t].kind = "transfer"        -> ValidTransfer(s, t)
       [] Tx[t].kind = "lattice"         -> ValidLattice(s, t)
       [] Tx[t].kind = "slave"           -> ValidSlave(s, t)
       [] Tx[t].kind = "transfer_token"  -> ValidTransferToken(s, t)
       [] Tx[t].kind = "multi_sig_spend" -> ValidMultiSigSpend(s, t, n)
       [] Tx[t].kind = "multi_sig_vote"  -> ValidMultiSigVote(s, t, n)
       [] OTHER -> TRUE

Apply(s, t, n) ==
  CASE Tx[t].kind = "transfer"         -> ApplyTransfer(s, t)
    [] Tx[t].kind = "message"          -> ApplyMessage(s, t)
    [] Tx[t].kind = "lattice"          -> ApplyLattice(s, t)
    [] Tx[t].kind = "slave"            -> ApplySlave(s, t)
    [] Tx[t].kind = "token"            -> ApplyToken(s, t)
    [] Tx[t].kind = "transfer_token"   -> ApplyTransferToken(s, t)
    [] Tx[t].kind = "multi_sig_create" -> ApplyMultiSigCreate(s, t)
    [] Tx[t].kind = "multi_sig_spend"  -> ApplyMultiSigSpend(s, t)
    [] Tx[t].kind = "multi_sig_vote"   -> ApplyMultiSigVote(s, t, n)

Revert(s, e, n) ==
  LET t == e.tx
  IN CASE Tx[t].kind = "transfer"         -> RevertTransfer(s, t)
       [] Tx[t].kind = "message"          -> RevertMessage(s, t)
       [] Tx[t].kind = "lattice"          -> RevertLattice(s, t)
       [] Tx[t].kind = "slave"            -> RevertSlave(s, t)
       [] Tx[t].kind = "token"            -> RevertToken(s, t)
       [] Tx[t].kind = "transfer_token"   -> RevertTransferToken(s, t)
       [] Tx[t].kind = "multi_sig_create" -> RevertMultiSigCreate(s, t)
       [] Tx[t].kind = "multi_sig_spend"  -> RevertMultiSigSpend(s, t)
       [] Tx[t].kind = "multi_sig_vote"   -> RevertMultiSigVote(s, e, n)

(* A transaction as a block holds it: with the nonce, and for a vote the   *)
(* previous vote, that applying it gave.                                   *)
Entry(s, t) ==
  [tx    |-> t,
   nonce |-> s.nonce[Signer(t)] + 1,
   prev  |-> IF Tx[t].kind = "multi_sig_vote"
             THEN s.votes[Tx[t].spend].last[From(t)] ELSE NoTx]

(* revert_state_changes goes on after this transaction.                    *)
CanRevert(s, e, n) ==
  /\ e.nonce = s.nonce[Signer(e.tx)]
  /\ KeyTaken(s.keys[Signer(e.tx)], Tx[e.tx].key)
  /\ Tx[e.tx].kind = "multi_sig_vote" => CanRevertVote(s, e, n)
  /\ ~ Revert(s, e, n).raised

-----------------------------------------------------------------------------
(* Blocks.  The genesis block has number 0.                                *)

Init ==
  /\ db = GenesisState
  /\ offered \in Candidates
  /\ chain = <<>>
  /\ saved = <<>>
  /\ reverts = 0
  /\ sc = GenesisState
  /\ phase = "idle"
  /\ todo = <<>>
  /\ block = <<>>

NextNumber == Len(chain) + 1

FeesOf(txs) == SumOf([i \in DOMAIN txs |-> Tx[txs[i]].fee])

TxsOf(b) == [i \in DOMAIN b |-> b[i].tx]

(* The coinbase comes first.                                               *)
BeginBlock(b) ==
  /\ phase = "idle"
  /\ Len(chain) < MaxHeight
  /\ sc' = ApplyCoinbase(db, NextNumber, FeesOf(b))
  /\ phase' = "apply"
  /\ todo' = b
  /\ block' = <<>>
  /\ UNCHANGED <<db, offered, chain, saved, reverts>>

ApplyTx ==
  /\ phase = "apply"
  /\ todo # <<>>
  /\ Valid(sc, Head(todo), NextNumber)
  /\ sc' = Apply(sc, Head(todo), NextNumber)
  /\ todo' = Tail(todo)
  /\ block' = Append(block, Entry(sc, Head(todo)))
  /\ UNCHANGED <<db, offered, chain, saved, reverts, phase>>

(* The container and the batch are dropped.                                *)
RejectBlock ==
  /\ phase = "apply"
  /\ todo # <<>>
  /\ ~ Valid(sc, Head(todo), NextNumber)
  /\ sc' = db
  /\ phase' = "idle"
  /\ todo' = <<>>
  /\ block' = <<>>
  /\ UNCHANGED <<db, offered, chain, saved, reverts>>

CommitBlock ==
  /\ phase = "apply"
  /\ todo = <<>>
  /\ db' = sc
  /\ chain' = Append(chain, block)
  /\ saved' = Append(saved, db)
  /\ phase' = "idle"
  /\ block' = <<>>
  /\ UNCHANGED <<offered, reverts, sc, todo>>

BeginRevert ==
  /\ phase = "idle"
  /\ chain # <<>>
  /\ reverts < MaxReverts
  /\ phase' = "revert"
  /\ block' = chain[Len(chain)]
  /\ reverts' = reverts + 1
  /\ UNCHANGED <<db, offered, chain, saved, sc, todo>>

RevertTx ==
  /\ phase = "revert"
  /\ block # <<>>
  /\ CanRevert(sc, block[Len(block)], Len(chain))
  /\ sc' = Revert(sc, block[Len(block)], Len(chain))
  /\ block' = SubSeq(block, 1, Len(block) - 1)
  /\ UNCHANGED <<db, offered, chain, saved, reverts, phase, todo>>

(* A check fails or a list raises: nothing is written.                     *)
RevertFails ==
  /\ phase = "revert"
  /\ block # <<>>
  /\ ~ CanRevert(sc, block[Len(block)], Len(chain))
  /\ sc' = db
  /\ phase' = "idle"
  /\ block' = <<>>
  /\ UNCHANGED <<db, offered, chain, saved, reverts, todo>>

(* The slaves named in the container were read from the store, so the      *)
(* check that the store has them passes.                                   *)
CommitRevert ==
  /\ phase = "revert"
  /\ block = <<>>
  /\ sc' = RevertCoinbase(sc, Len(chain), FeesOf(TxsOf(chain[Len(chain)])))
  /\ db' = sc'
  /\ chain' = SubSeq(chain, 1, Len(chain) - 1)
  /\ saved' = SubSeq(saved, 1, Len(saved) - 1)
  /\ phase' = "idle"
  /\ UNCHANGED <<offered, reverts, todo, block>>

Next ==
  \/ \E b \in offered : BeginBlock(b)
  \/ ApplyTx
  \/ RejectBlock
  \/ CommitBlock
  \/ BeginRevert
  \/ RevertTx
  \/ RevertFails
  \/ CommitRevert

Spec == Init /\ [][Next]_vars

-----------------------------------------------------------------------------
(* Properties                                                              *)

Entries == [tx : Txs, nonce : Nat, prev : Txs \cup {NoTx}]

LedgerStates ==
  [balance : [Addresses -> Int],
   nonce   : [Accounts \cup {Mint} -> Nat],
   keys    : [Accounts -> [bits : SUBSET Nat, count : Nat, full : Nat]],
   log     : [Logs -> [Addresses -> Seq(Txs \cup Wallets)]],
   slaves  : SUBSET (Accounts \X Accounts \X {0, 1}),
   lattice : SUBSET {<<Tx[t].from, Tx[t].keys>> : t \in OfKind("lattice")},
   tokens  : [Accounts -> [Tokens -> [balance : Nat, origin : Txs \cup {NoTx}]]],
   wallets : SUBSET Wallets,
   votes   : [Spends -> [live : BOOLEAN, voted : SUBSET Accounts,
                         last : [Accounts -> Txs \cup {NoTx}],
                         weight : Nat, executed : BOOLEAN]],
   raised  : BOOLEAN]

(* The store never holds a negative balance, nonce, weight or amount of    *)
(* tokens, whatever blocks were added and removed, nor the half done work  *)
(* of a container that raised.                                             *)
TypeOK ==
  /\ db \in LedgerStates
  /\ offered \in Candidates
  /\ \A a \in Addresses : db.balance[a] >= 0
  /\ ~ db.raised
  /\ chain \in Seq(Seq(Entries))
  /\ Len(chain) <= MaxHeight
  /\ saved \in Seq(LedgerStates)
  /\ Len(saved) = Len(chain)
  /\ sc \in LedgerStates
  /\ reverts \in 0 .. MaxReverts
  /\ phase \in {"idle", "apply", "revert"}
  /\ todo \in Seq(Txs)
  /\ block \in Seq(Entries)

Places == UNION {{i} \X DOMAIN chain[i] : i \in DOMAIN chain}
At(x)  == chain[x[1]][x[2]].tx
InChain == {At(x) : x \in Places}

(* The transactions that a removed wallet's page still lists are not       *)
(* visible through the wallet.                                             *)
Visible(s) ==
  [s EXCEPT !.log["tx"] =
     [a \in Addresses |-> IF a \in Wallets \ s.wallets THEN <<>> ELSE @[a]]]

(* Removing a block gives back exactly the account state it was applied on *)
(* (revert_state_changes undoes _apply_state_changes), through any         *)
(* sequence of blocks added and removed: balances, nonces, keys, every     *)
(* list, slaves, lattice keys, tokens, wallets and votes.                  *)
RevertRestores ==
  [][Len(chain') < Len(chain) => Visible(db') = Visible(saved[Len(saved)])]_vars

(* No coin appears or is lost: fees go to the miner, rewards come out of   *)
(* the coinbase address, and a multi-sig payment out of its wallet.        *)
SupplyKept == SumOf(db.balance) = SumOf(GenesisState.balance)

(* A signing key (OTS index) is used once in the chain, the bitfield marks *)
(* exactly the keys the chain used, the nonce and the count number them,    *)
(* and the used page is the last of the pages from the first on that have   *)
(* no key left, through every block added and removed.                     *)
KeysMatchChain ==
  /\ \A x, y \in Places :
       /\ Signer(At(x)) = Signer(At(y))
       /\ Tx[At(x)].key = Tx[At(y)].key
       => x = y
  /\ \A a \in Accounts :
       LET signed == {t \in InChain : Signer(t) = a}
           used == {Tx[t].key : t \in signed}
           full == {p \in 1 .. Pages(KeyCount[a]) :
                      \A k \in 0 .. KeyCount[a] - 1 : Page(k) = p => k \in used}
       IN  /\ db.keys[a].bits = used
           /\ {db.nonce[a], db.keys[a].count} = {Cardinality(signed)}
           /\ 1 .. db.keys[a].full \subseteq full
           /\ db.keys[a].full + 1 \notin full

FreeKeys(a) == (0 .. KeyCount[a] - 1) \ db.keys[a].bits

(* The search for a key to sign with answers with the least free key from  *)
(* the number asked for on, or that there is none, whatever pages are       *)
(* marked as used; but when no such key is on the first page, an address    *)
(* with further pages gets an exception.                                   *)
SearchFindsFree ==
  \A a \in Accounts : \A start \in 0 .. KeyCount[a] - 1 :
    LET found == FindUnused(db.keys[a], KeyCount[a], start)
        fit == {k \in FreeKeys(a) : start <= k /\ k < KeysPerPage}
    IN  IF fit # {} THEN found \in fit /\ \A k \in fit : found <= k
        ELSE found = IF KeyCount[a] > KeysPerPage THEN Raises ELSE NoKey

(* What the documentation of get_unused_ots_index says: it finds an unused *)
(* key.                                                                    *)
FindsUnusedKey ==
  \A a \in Accounts :
    FreeKeys(a) # {} => FindUnused(db.keys[a], KeyCount[a], 0) \in FreeKeys(a)

Votes(p, a) ==
  {x \in Places : /\ Tx[At(x)].kind = "multi_sig_vote"
                  /\ Tx[At(x)].spend = p
                  /\ From(At(x)) = a}

Later(x, y) == x[1] > y[1] \/ (x[1] = y[1] /\ x[2] > y[2])

LastVote(p, a) ==
  IF Votes(p, a) = {} THEN NoTx
  ELSE At(CHOOSE x \in Votes(p, a) : \A y \in Votes(p, a) : x = y \/ Later(x, y))

(* The stored tally of a spend is what the votes in the chain say: each    *)
(* signatory's last word, the sum of the weights in favour, and no payment *)
(* without the threshold.                                                  *)
VotesTallied ==
  \A p \in Spends :
    LET stats == db.votes[p]
    IN  /\ stats.live <=> p \in InChain
        /\ \A a \in Accounts : stats.last[a] = LastVote(p, a)
        /\ stats.voted = {a \in Accounts : LastVote(p, a) # NoTx /\ ~ Tx[LastVote(p, a)].unvote}
        /\ stats.live => stats.weight = SumOf([a \in stats.voted |-> Tx[Creation(p)].weights[a]])
        /\ stats.executed => stats.weight >= Tx[Creation(p)].threshold

PaidTo(w, T) ==
  LET paying == {t \in T : w \in Payees(t)}
  IN  SumOf([t \in paying |-> Tx[t].pays[w]])

(* A wallet holds what transfers and other wallets' spends sent it, less   *)
(* the spends executed from it, each paid once however often it was voted  *)
(* for, withdrawn, reverted and voted again.                               *)
WalletsBacked ==
  \A w \in Wallets :
    LET executed == {p \in Spends : db.votes[p].executed}
        out == {p \in executed : Tx[p].wallet = w}
    IN  db.balance[w] = PaidTo(w, OfKind("transfer") \cap InChain) + PaidTo(w, executed)
                          - SumOf([p \in out |-> Total(p)])

(* All of a token that was created is held by someone, and an address has  *)
(* a record of it exactly when its list of tokens names it once.           *)
TokensKept ==
  \A k \in Tokens :
    /\ SumOf([a \in Accounts |-> db.tokens[a][k].balance]) =
         IF k \in InChain THEN SumOf(Tx[k].pays) ELSE 0
    /\ \A a \in Accounts :
         LET named == {i \in DOMAIN db.log["tokens"][a] : db.log["tokens"][a][i] = k}
         IN  Cardinality(named) = IF db.tokens[a][k].origin # NoTx THEN 1 ELSE 0

(* Every entry of an account's list of transactions is a transaction of    *)
(* the main chain, and every transaction is listed by its sender.          *)
HistoryMatchesChain ==
  \A a \in Accounts :
    LET listed == {db.log["tx"][a][i] : i \in DOMAIN db.log["tx"][a]}
    IN  /\ listed \subseteq InChain \cup {Coinbase[i] : i \in DOMAIN chain}
        /\ \A t \in InChain : From(t) = a \/ Signer(t) = a => t \in listed

(* A vote cast through a slave that the spend itself pays.                 *)
PaysOwnSigner(t) ==
  /\ Tx[t].kind = "multi_sig_vote"
  /\ Signer(t) # From(t)
  /\ Signer(t) \in DOMAIN Tx[Tx[t].spend].pays

(* A block of the main chain can be removed again, unless it holds a vote  *)
(* whose signing slave is paid by the spend that the vote executes.        *)
RevertFailsOnlyForPaidSlave ==
  phase = "revert" /\ block # <<>> =>
    LET e == block[Len(block)]
    IN  CanRevert(sc, e, Len(chain)) \/ PaysOwnSigner(e.tx)

(* The exception "Unexpected value into storage" is never raised: a list   *)
(* ends with the element that the revert takes away.                       *)
NothingUnexpectedStored ==
  phase = "revert" /\ block # <<>> => ~ Revert(sc, block[Len(block)], Len(chain)).raised

=============================================================================
