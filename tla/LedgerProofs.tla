---------------------------- MODULE LedgerProofs ----------------------------
(***************************************************************************)
(* Removing blocks gives back the account state they were applied on.      *)
(*                                                                         *)
(* The proof has three layers.  For every kind of transaction, what        *)
(* applying and reverting it does to the fields of a container (the        *)
(* ...Applied and ...Reverted lemmas), that the second undoes the first on *)
(* a state that is `Good' (...Undone), and that a valid one leaves a good  *)
(* state (...Kept).  Then the same for any transaction (UndoStep,          *)
(* ApplyKept) and for a block's coinbase.  Last, the invariant of the      *)
(* specification: each block of the chain has a trace of good states that  *)
(* leads from the state saved with it to the next one's, and what the      *)
(* container holds while a block is undone looks like a state of its trace.*)
(***************************************************************************)
EXTENDS Ledger, DataLemmas

(* What a list holds: transactions, and wallets by their address.           *)
Elements == Txs \cup Wallets

Lists == [Logs -> [Addresses -> Seq(Elements)]]

KeyStates == [bits : SUBSET Nat, count : Int, full : Int]
TokenStates == [balance : Int, origin : Txs \cup {NoTx}]
VoteStates ==
  [live : BOOLEAN, voted : SUBSET Accounts, last : [Accounts -> Txs \cup {NoTx}],
   weight : Int, executed : BOOLEAN]

(* The states before any bound on their numbers is known.                   *)
Shapes ==
  [balance : [Addresses -> Int],
   nonce   : [Accounts \cup {Mint} -> Int],
   keys    : [Accounts -> KeyStates],
   log     : Lists,
   slaves  : SUBSET (Accounts \X Accounts \X {0, 1}),
   lattice : SUBSET {<<Tx[t].from, Tx[t].keys>> : t \in OfKind("lattice")},
   tokens  : [Accounts -> [Tokens -> TokenStates]],
   wallets : SUBSET Wallets,
   votes   : [Spends -> VoteStates],
   raised  : BOOLEAN]

(* A record with the fields of a state.                                     *)
Fields ==
  {"balance", "nonce", "keys", "log", "slaves", "lattice", "tokens", "wallets", "votes",
   "raised"}

IsState(s) == DOMAIN s = Fields /\ s = [f \in DOMAIN s |-> s[f]]

SameRest(r, s) ==
  /\ r.slaves = s.slaves
  /\ r.lattice = s.lattice
  /\ r.tokens = s.tokens
  /\ r.wallets = s.wallets
  /\ r.votes = s.votes

SameKeys(r, s) == r.nonce = s.nonce /\ r.keys = s.keys

(* The balances and the lists that the operations give.                     *)
Increase(b, pays) == [a \in Addresses |-> IF a \in DOMAIN pays THEN b[a] + pays[a] ELSE b[a]]
Decrease(b, pays) == [a \in Addresses |-> IF a \in DOMAIN pays THEN b[a] - pays[a] ELSE b[a]]

Longer(L, l, A, e) ==
  [L EXCEPT ![l] = [a \in Addresses |-> IF a \in A THEN Append(@[a], e) ELSE @[a]]]

Shorter(L, l, A) ==
  [L EXCEPT ![l] = [a \in Addresses |-> IF a \in A /\ @[a] # <<>>
                                        THEN SubSeq(@[a], 1, Len(@[a]) - 1) ELSE @[a]]]

LEMMA GiveFacts ==
  ASSUME NEW s, IsState(s), NEW pays
  PROVE  LET r == Give(s, pays) IN
         /\ IsState(r) /\ SameRest(r, s) /\ SameKeys(r, s)
         /\ r.balance = Increase(s.balance, pays)
         /\ r.log = s.log
         /\ r.raised = s.raised
BY DEF Give, IsState, Fields, SameRest, SameKeys, Increase

LEMMA InsertFacts ==
  ASSUME NEW s, IsState(s), NEW l, NEW A, NEW e
  PROVE  LET r == InsertInto(s, l, A, e) IN
         /\ IsState(r) /\ SameRest(r, s) /\ SameKeys(r, s)
         /\ r.balance = s.balance
         /\ r.log = Longer(s.log, l, A, e)
         /\ r.raised = s.raised
<1> DEFINE L == Longer(s.log, l, A, e)
           r == [s EXCEPT !.log = L]
<1>1. InsertInto(s, l, A, e) = r
  BY DEF InsertInto, Longer
<1> HIDE DEF L
<1>2. /\ IsState(r) /\ SameRest(r, s) /\ SameKeys(r, s)
      /\ r.balance = s.balance
      /\ r.log = L
      /\ r.raised = s.raised
  BY DEF IsState, Fields, SameRest, SameKeys
<1>3. QED
  BY <1>1, <1>2 DEF L

LEMMA TakeFacts ==
  ASSUME NEW s, IsState(s), NEW pays
  PROVE  LET r == Take(s, pays) IN
         /\ IsState(r) /\ SameRest(r, s) /\ SameKeys(r, s)
         /\ r.balance = Decrease(s.balance, pays)
         /\ r.log = s.log
         /\ r.raised = s.raised
BY DEF Take, IsState, Fields, SameRest, SameKeys, Decrease

LEMMA RemoveRaises ==
  ASSUME NEW s, IsState(s), NEW l, NEW A, NEW e
  PROVE  LET x == s.raised \/ \E a \in A : ~ EndsWith(s.log[l][a], e)
         IN  /\ RemoveFrom(s, l, A, e).raised = x
             /\ x \in BOOLEAN
<1> DEFINE x == s.raised \/ \E a \in A : ~ EndsWith(s.log[l][a], e)
           L == Shorter(s.log, l, A)
           r == [s EXCEPT !.log = L, !.raised = x]
<1>1. RemoveFrom(s, l, A, e) = r
  BY Zenon DEF RemoveFrom, Shorter
<1>2. x \in BOOLEAN
  BY TruthValue
<1> HIDE DEF x, L
<1>3. r.raised = x
  BY DEF IsState, Fields
<1>4. QED
  BY <1>1, <1>2, <1>3 DEF x

LEMMA RemoveFacts ==
  ASSUME NEW s, IsState(s), NEW l, NEW A, NEW e
  PROVE  LET r == RemoveFrom(s, l, A, e) IN
         /\ IsState(r) /\ SameRest(r, s) /\ SameKeys(r, s)
         /\ r.balance = s.balance
         /\ r.log = Shorter(s.log, l, A)
         /\ r.raised \in BOOLEAN
<1> DEFINE x == s.raised \/ \E a \in A : ~ EndsWith(s.log[l][a], e)
           L == Shorter(s.log, l, A)
           r == [s EXCEPT !.log = L, !.raised = x]
<1>1. RemoveFrom(s, l, A, e) = r
  BY Zenon DEF RemoveFrom, Shorter
<1> HIDE DEF x, L
<1>2. /\ IsState(r) /\ SameRest(r, s) /\ SameKeys(r, s)
      /\ r.balance = s.balance
      /\ r.log = L
  BY DEF IsState, Fields, SameRest, SameKeys
<1>3. QED
  BY ZenonT(60), <1>1, <1>2, RemoveRaises DEF L

Signed(r, s, t) ==
  /\ r.nonce = [s.nonce EXCEPT ![Signer(t)] = @ + 1]
  /\ r.keys = [s.keys EXCEPT ![Signer(t)] = SetKey(@, Tx[t].key, KeyCount[Signer(t)])]

Unsigned(r, s, t) ==
  /\ r.nonce = [s.nonce EXCEPT ![Signer(t)] = @ - 1]
  /\ r.keys = [s.keys EXCEPT ![Signer(t)] = UnsetKey(@, Tx[t].key)]

(* The part that every kind ends with, for a container u whose keys are     *)
(* still those of s.                                                        *)
LEMMA ApplyPKFacts ==
  ASSUME NEW s, NEW u, IsState(u), SameKeys(u, s), NEW t
  PROVE  LET r == ApplyPK(u, t) IN
         /\ IsState(r) /\ SameRest(r, u) /\ Signed(r, s, t)
         /\ r.balance = u.balance
         /\ r.log = Longer(u.log, "tx", OnlySigner(t), t)
         /\ r.raised = u.raised
<1> DEFINE i == InsertInto(u, "tx", OnlySigner(t), t)
           a == Signer(t)
           N == [i.nonce EXCEPT ![a] = @ + 1]
           K == [i.keys EXCEPT ![a] = SetKey(@, Tx[t].key, KeyCount[a])]
           r == [i EXCEPT !.nonce = N, !.keys = K]
<1>1. /\ IsState(i) /\ SameRest(i, u) /\ SameKeys(i, u)
      /\ i.balance = u.balance
      /\ i.log = Longer(u.log, "tx", OnlySigner(t), t)
      /\ i.raised = u.raised
  BY InsertFacts
<1> HIDE DEF i, a
<1>2. r = [i EXCEPT !.nonce[a] = @ + 1, !.keys[a] = SetKey(@, Tx[t].key, KeyCount[a])]
  BY <1>1 DEF IsState, Fields
<1> HIDE DEF N, K
<1>3. /\ IsState(r) /\ SameRest(r, i)
      /\ r.balance = i.balance
      /\ r.log = i.log
      /\ r.raised = i.raised
      /\ r.nonce = N
      /\ r.keys = K
  BY <1>1 DEF IsState, Fields, SameRest
<1>4. ApplyPK(u, t) = r
  BY <1>2 DEF ApplyPK, i, a
<1>5. QED
  BY <1>1, <1>3, <1>4 DEF SameRest, SameKeys, Signed, N, K, a

LEMMA RevertPKFacts ==
  ASSUME NEW s, NEW u, IsState(u), SameKeys(u, s), NEW t
  PROVE  LET r == RevertPK(u, t) IN
         /\ IsState(r) /\ SameRest(r, u) /\ Unsigned(r, s, t)
         /\ r.balance = u.balance
         /\ r.log = Shorter(u.log, "tx", OnlySigner(t))
         /\ r.raised \in BOOLEAN
<1> DEFINE i == RemoveFrom(u, "tx", OnlySigner(t), t)
           a == Signer(t)
           N == [i.nonce EXCEPT ![a] = @ - 1]
           K == [i.keys EXCEPT ![a] = UnsetKey(@, Tx[t].key)]
           r == [i EXCEPT !.nonce = N, !.keys = K]
<1>1. /\ IsState(i) /\ SameRest(i, u) /\ SameKeys(i, u)
      /\ i.balance = u.balance
      /\ i.log = Shorter(u.log, "tx", OnlySigner(t))
      /\ i.raised \in BOOLEAN
  BY RemoveFacts
<1> HIDE DEF i, a
<1>2. r = [i EXCEPT !.nonce[a] = @ - 1, !.keys[a] = UnsetKey(@, Tx[t].key)]
  BY <1>1 DEF IsState, Fields
<1> HIDE DEF N, K
<1>3. /\ IsState(r) /\ SameRest(r, i)
      /\ r.balance = i.balance
      /\ r.log = i.log
      /\ r.raised = i.raised
      /\ r.nonce = N
      /\ r.keys = K
  BY <1>1 DEF IsState, Fields, SameRest
<1>4. RevertPK(u, t) = r
  BY <1>2 DEF RevertPK, i, a
<1>5. QED
  BY <1>1, <1>3, <1>4 DEF SameRest, SameKeys, Unsigned, N, K, a

LEMMA ChargeFacts ==
  ASSUME NEW s, IsState(s), NEW t
  PROVE  LET r == Charge(s, t) IN
         /\ IsState(r) /\ SameRest(r, s) /\ SameKeys(r, s)
         /\ r.balance = Decrease(s.balance, Fee(t))
         /\ r.log = Longer(s.log, "tx", {From(t)}, t)
         /\ r.raised = s.raised
BY TakeFacts, InsertFacts DEF Charge, SameRest, SameKeys

LEMMA RefundFacts ==
  ASSUME NEW s, IsState(s), NEW t
  PROVE  LET r == Refund(s, t) IN
         /\ IsState(r) /\ SameRest(r, s) /\ SameKeys(r, s)
         /\ r.balance = Increase(s.balance, Fee(t))
         /\ r.log = Shorter(s.log, "tx", {From(t)})
         /\ r.raised \in BOOLEAN
BY GiveFacts, RemoveFacts DEF Refund, SameRest, SameKeys

-----------------------------------------------------------------------------
(* What each kind of transaction does, field by field                       *)

TransferTotal(t) == Coins(From(t), SumOf(Tx[t].pays) + Tx[t].fee)

LEMMA TransferApplied ==
  ASSUME NEW s, IsState(s), NEW t
  PROVE  LET r == ApplyTransfer(s, t) IN
         /\ IsState(r) /\ SameRest(r, s) /\ Signed(r, s, t)
         /\ r.balance = Increase(Decrease(s.balance, TransferTotal(t)), Tx[t].pays)
         /\ r.log = Longer(Longer(Longer(s.log, "tx", {From(t)}, t),
                          "tx", OthersIn(t, Payees(t)), t), "tx", OnlySigner(t), t)
         /\ r.raised = s.raised
<1> DEFINE s1 == InsertInto(Take(s, TransferTotal(t)), "tx", {From(t)}, t)
           s2 == InsertInto(Give(s1, Tx[t].pays), "tx", OthersIn(t, Payees(t)), t)
<1>1. /\ IsState(s1) /\ SameRest(s1, s) /\ SameKeys(s1, s)
      /\ s1.balance = Decrease(s.balance, TransferTotal(t))
      /\ s1.log = Longer(s.log, "tx", {From(t)}, t)
      /\ s1.raised = s.raised
  BY TakeFacts, InsertFacts DEF SameRest, SameKeys
<1>2. /\ IsState(s2) /\ SameRest(s2, s1) /\ SameKeys(s2, s1)
      /\ s2.balance = Increase(s1.balance, Tx[t].pays)
      /\ s2.log = Longer(s1.log, "tx", OthersIn(t, Payees(t)), t)
      /\ s2.raised = s1.raised
  BY <1>1, GiveFacts, InsertFacts DEF SameRest, SameKeys
<1>3. ApplyTransfer(s, t) = ApplyPK(s2, t)
  BY DEF ApplyTransfer, TransferTotal
<1> HIDE DEF s1, s2
<1>4. SameKeys(s2, s)
  BY <1>1, <1>2 DEF SameKeys
<1>5. QED
  BY <1>1, <1>2, <1>3, <1>4, ApplyPKFacts DEF SameRest

LEMMA TransferReverted ==
  ASSUME NEW s, IsState(s), NEW t
  PROVE  LET r == RevertTransfer(s, t) IN
         /\ IsState(r) /\ SameRest(r, s) /\ Unsigned(r, s, t)
         /\ r.balance = Decrease(Increase(s.balance, TransferTotal(t)), Tx[t].pays)
         /\ r.log = Shorter(Shorter(Shorter(s.log, "tx", {From(t)}), "tx", OthersIn(t, Payees(t))),
                           "tx", OnlySigner(t))
         /\ r.raised \in BOOLEAN
<1> DEFINE s1 == RemoveFrom(Give(s, TransferTotal(t)), "tx", {From(t)}, t)
           s2 == RemoveFrom(Take(s1, Tx[t].pays), "tx", OthersIn(t, Payees(t)), t)
<1>1. /\ IsState(s1) /\ SameRest(s1, s) /\ SameKeys(s1, s)
      /\ s1.balance = Increase(s.balance, TransferTotal(t))
      /\ s1.log = Shorter(s.log, "tx", {From(t)})
  BY GiveFacts, RemoveFacts DEF SameRest, SameKeys
<1>2. /\ IsState(s2) /\ SameRest(s2, s1) /\ SameKeys(s2, s1)
      /\ s2.balance = Decrease(s1.balance, Tx[t].pays)
      /\ s2.log = Shorter(s1.log, "tx", OthersIn(t, Payees(t)))
  BY <1>1, TakeFacts, RemoveFacts DEF SameRest, SameKeys
<1>3. RevertTransfer(s, t) = RevertPK(s2, t)
  BY DEF RevertTransfer, TransferTotal
<1> HIDE DEF s1, s2
<1>5. SameKeys(s2, s)
  BY <1>1, <1>2 DEF SameKeys
<1>4. QED
  BY <1>1, <1>2, <1>3, <1>5, RevertPKFacts DEF SameRest

LEMMA MessageApplied ==
  ASSUME NEW s, IsState(s), NEW t
  PROVE  LET r == ApplyMessage(s, t)
             told == OthersIn(t, Tx[t].to)
         IN  /\ IsState(r) /\ Signed(r, s, t)
             /\ SameRest(r, s)
             /\ r.balance = Decrease(s.balance, Fee(t))
             /\ r.log = Longer(Longer(Longer(Longer(s.log, "tx", {From(t)}, t),
                          "tx", told, t), "inbox", told, t), "tx", OnlySigner(t), t)
             /\ r.raised = s.raised
<1> DEFINE told == OthersIn(t, Tx[t].to)
           s0 == Charge(s, t)
           s1 == InsertInto(s0, "tx", told, t)
           s2 == InsertInto(s1, "inbox", told, t)
           u == s2
<1>1. ApplyMessage(s, t) = ApplyPK(u, t)
  BY DEF ApplyMessage
<1>2. /\ IsState(s0) /\ SameRest(s0, s) /\ SameKeys(s0, s)
      /\ s0.balance = Decrease(s.balance, Fee(t))
      /\ s0.log = Longer(s.log, "tx", {From(t)}, t)
      /\ s0.raised = s.raised
  BY ChargeFacts
<1> HIDE DEF s0
<1>3. /\ IsState(s1) /\ SameRest(s1, s) /\ SameKeys(s1, s)
      /\ s1.balance = Decrease(s.balance, Fee(t))
      /\ s1.log = Longer(Longer(s.log, "tx", {From(t)}, t), "tx", told, t)
      /\ s1.raised = s.raised
  BY <1>2, InsertFacts DEF SameRest, SameKeys
<1> HIDE DEF s1
<1>4. /\ IsState(s2) /\ SameRest(s2, s) /\ SameKeys(s2, s)
      /\ s2.balance = Decrease(s.balance, Fee(t))
      /\ s2.log = Longer(Longer(Longer(s.log, "tx", {From(t)}, t), "tx", told, t),
                    "inbox", told, t)
      /\ s2.raised = s.raised
  BY <1>3, InsertFacts DEF SameRest, SameKeys
<1> HIDE DEF s2
<1>5. QED
  BY <1>4, <1>1, ApplyPKFacts DEF SameRest

LEMMA MessageReverted ==
  ASSUME NEW s, IsState(s), NEW t
  PROVE  LET r == RevertMessage(s, t)
             told == OthersIn(t, Tx[t].to)
         IN  /\ IsState(r) /\ Unsigned(r, s, t)
             /\ SameRest(r, s)
             /\ r.balance = Increase(s.balance, Fee(t))
             /\ r.log = Shorter(Shorter(Shorter(Shorter(s.log, "tx", {From(t)}),
                          "tx", told), "inbox", told), "tx", OnlySigner(t))
             /\ r.raised \in BOOLEAN
<1> DEFINE told == OthersIn(t, Tx[t].to)
           s0 == Refund(s, t)
           s1 == RemoveFrom(s0, "tx", told, t)
           s2 == RemoveFrom(s1, "inbox", told, t)
           u == s2
<1>1. RevertMessage(s, t) = RevertPK(u, t)
  BY DEF RevertMessage
<1>2. /\ IsState(s0) /\ SameRest(s0, s) /\ SameKeys(s0, s)
      /\ s0.balance = Increase(s.balance, Fee(t))
      /\ s0.log = Shorter(s.log, "tx", {From(t)})
      /\ s0.raised \in BOOLEAN
  BY RefundFacts
<1> HIDE DEF s0
<1>3. /\ IsState(s1) /\ SameRest(s1, s) /\ SameKeys(s1, s)
      /\ s1.balance = Increase(s.balance, Fee(t))
      /\ s1.log = Shorter(Shorter(s.log, "tx", {From(t)}), "tx", told)
      /\ s1.raised \in BOOLEAN
  BY <1>2, RemoveFacts DEF SameRest, SameKeys
<1> HIDE DEF s1
<1>4. /\ IsState(s2) /\ SameRest(s2, s) /\ SameKeys(s2, s)
      /\ s2.balance = Increase(s.balance, Fee(t))
      /\ s2.log = Shorter(Shorter(Shorter(s.log, "tx", {From(t)}), "tx", told),
                    "inbox", told)
      /\ s2.raised \in BOOLEAN
  BY <1>3, RemoveFacts DEF SameRest, SameKeys
<1> HIDE DEF s2
<1>5. QED
  BY <1>4, <1>1, RevertPKFacts DEF SameRest

LEMMA LatticeApplied ==
  ASSUME NEW s, IsState(s), NEW t
  PROVE  LET r == ApplyLattice(s, t)
         IN  /\ IsState(r) /\ Signed(r, s, t)
             /\ r.slaves = s.slaves
             /\ r.lattice = s.lattice \cup {<<From(t), Tx[t].keys>>}
             /\ r.tokens = s.tokens
             /\ r.wallets = s.wallets
             /\ r.votes = s.votes
             /\ r.balance = Decrease(s.balance, Fee(t))
             /\ r.log = Longer(Longer(Longer(s.log, "tx", {From(t)}, t),
                          "lattice", {From(t)}, t), "tx", OnlySigner(t), t)
             /\ r.raised = s.raised
<1> DEFINE s0 == Charge(s, t)
           s1 == InsertInto(s0, "lattice", {From(t)}, t)
           u == [s1 EXCEPT !.lattice = @ \cup {<<From(t), Tx[t].keys>>}]
<1>1. ApplyLattice(s, t) = ApplyPK(u, t)
  BY DEF ApplyLattice
<1>2. /\ IsState(s0) /\ SameRest(s0, s) /\ SameKeys(s0, s)
      /\ s0.balance = Decrease(s.balance, Fee(t))
      /\ s0.log = Longer(s.log, "tx", {From(t)}, t)
      /\ s0.raised = s.raised
  BY ChargeFacts
<1> HIDE DEF s0
<1>3. /\ IsState(s1) /\ SameRest(s1, s) /\ SameKeys(s1, s)
      /\ s1.balance = Decrease(s.balance, Fee(t))
      /\ s1.log = Longer(Longer(s.log, "tx", {From(t)}, t), "lattice", {From(t)}, t)
      /\ s1.raised = s.raised
  BY <1>2, InsertFacts DEF SameRest, SameKeys
<1> HIDE DEF s1
<1>4. /\ IsState(u) /\ SameKeys(u, s)
      /\ u.slaves = s.slaves
      /\ u.lattice = s.lattice \cup {<<From(t), Tx[t].keys>>}
      /\ u.tokens = s.tokens
      /\ u.wallets = s.wallets
      /\ u.votes = s.votes
      /\ u.balance = Decrease(s.balance, Fee(t))
      /\ u.log = s1.log
      /\ u.raised = s1.raised
  BY <1>3 DEF IsState, Fields, SameKeys, SameRest
<1> HIDE DEF u
<1>5. QED
  BY <1>3, <1>1, <1>4, ApplyPKFacts DEF SameRest

LEMMA LatticeReverted ==
  ASSUME NEW s, IsState(s), NEW t
  PROVE  LET r == RevertLattice(s, t)
         IN  /\ IsState(r) /\ Unsigned(r, s, t)
             /\ r.slaves = s.slaves
             /\ r.lattice = s.lattice \ {<<From(t), Tx[t].keys>>}
             /\ r.tokens = s.tokens
             /\ r.wallets = s.wallets
             /\ r.votes = s.votes
             /\ r.balance = Increase(s.balance, Fee(t))
             /\ r.log = Shorter(Shorter(Shorter(s.log, "tx", {From(t)}),
                          "lattice", {From(t)}), "tx", OnlySigner(t))
             /\ r.raised \in BOOLEAN
<1> DEFINE s0 == Refund(s, t)
           s1 == RemoveFrom(s0, "lattice", {From(t)}, t)
           u == [s1 EXCEPT !.lattice = @ \ {<<From(t), Tx[t].keys>>}]
<1>1. RevertLattice(s, t) = RevertPK(u, t)
  BY DEF RevertLattice
<1>2. /\ IsState(s0) /\ SameRest(s0, s) /\ SameKeys(s0, s)
      /\ s0.balance = Increase(s.balance, Fee(t))
      /\ s0.log = Shorter(s.log, "tx", {From(t)})
      /\ s0.raised \in BOOLEAN
  BY RefundFacts
<1> HIDE DEF s0
<1>3. /\ IsState(s1) /\ SameRest(s1, s) /\ SameKeys(s1, s)
      /\ s1.balance = Increase(s.balance, Fee(t))
      /\ s1.log = Shorter(Shorter(s.log, "tx", {From(t)}), "lattice", {From(t)})
      /\ s1.raised \in BOOLEAN
  BY <1>2, RemoveFacts DEF SameRest, SameKeys
<1> HIDE DEF s1
<1>4. /\ IsState(u) /\ SameKeys(u, s)
      /\ u.slaves = s.slaves
      /\ u.lattice = s.lattice \ {<<From(t), Tx[t].keys>>}
      /\ u.tokens = s.tokens
      /\ u.wallets = s.wallets
      /\ u.votes = s.votes
      /\ u.balance = Increase(s.balance, Fee(t))
      /\ u.log = s1.log
      /\ u.raised = s1.raised
  BY <1>3 DEF IsState, Fields, SameKeys, SameRest
<1> HIDE DEF u
<1>5. QED
  BY <1>3, <1>1, <1>4, RevertPKFacts DEF SameRest

LEMMA SlaveApplied ==
  ASSUME NEW s, IsState(s), NEW t
  PROVE  LET r == ApplySlave(s, t)
         IN  /\ IsState(r) /\ Signed(r, s, t)
             /\ r.slaves = s.slaves \cup SlavesOf(t)
             /\ r.lattice = s.lattice
             /\ r.tokens = s.tokens
             /\ r.wallets = s.wallets
             /\ r.votes = s.votes
             /\ r.balance = Decrease(s.balance, Fee(t))
             /\ r.log = Longer(Longer(Longer(s.log, "tx", {From(t)}, t),
                          "slaves", {From(t)}, t), "tx", OnlySigner(t), t)
             /\ r.raised = s.raised
<1> DEFINE s0 == Charge(s, t)
           s1 == InsertInto(s0, "slaves", {From(t)}, t)
           u == [s1 EXCEPT !.slaves = @ \cup SlavesOf(t)]
<1>1. ApplySlave(s, t) = ApplyPK(u, t)
  BY DEF ApplySlave
<1>2. /\ IsState(s0) /\ SameRest(s0, s) /\ SameKeys(s0, s)
      /\ s0.balance = Decrease(s.balance, Fee(t))
      /\ s0.log = Longer(s.log, "tx", {From(t)}, t)
      /\ s0.raised = s.raised
  BY ChargeFacts
<1> HIDE DEF s0
<1>3. /\ IsState(s1) /\ SameRest(s1, s) /\ SameKeys(s1, s)
      /\ s1.balance = Decrease(s.balance, Fee(t))
      /\ s1.log = Longer(Longer(s.log, "tx", {From(t)}, t), "slaves", {From(t)}, t)
      /\ s1.raised = s.raised
  BY <1>2, InsertFacts DEF SameRest, SameKeys
<1> HIDE DEF s1
<1>4. /\ IsState(u) /\ SameKeys(u, s)
      /\ u.slaves = s.slaves \cup SlavesOf(t)
      /\ u.lattice = s.lattice
      /\ u.tokens = s.tokens
      /\ u.wallets = s.wallets
      /\ u.votes = s.votes
      /\ u.balance = Decrease(s.balance, Fee(t))
      /\ u.log = s1.log
      /\ u.raised = s1.raised
  BY <1>3 DEF IsState, Fields, SameKeys, SameRest
<1> HIDE DEF u
<1>5. QED
  BY <1>3, <1>1, <1>4, ApplyPKFacts DEF SameRest

LEMMA SlaveReverted ==
  ASSUME NEW s, IsState(s), NEW t
  PROVE  LET r == RevertSlave(s, t)
         IN  /\ IsState(r) /\ Unsigned(r, s, t)
             /\ r.slaves = s.slaves \ SlavesOf(t)
             /\ r.lattice = s.lattice
             /\ r.tokens = s.tokens
             /\ r.wallets = s.wallets
             /\ r.votes = s.votes
             /\ r.balance = Increase(s.balance, Fee(t))
             /\ r.log = Shorter(Shorter(Shorter(s.log, "tx", {From(t)}),
                          "slaves", {From(t)}), "tx", OnlySigner(t))
             /\ r.raised \in BOOLEAN
<1> DEFINE s0 == Refund(s, t)
           s1 == RemoveFrom(s0, "slaves", {From(t)}, t)
           u == [s1 EXCEPT !.slaves = @ \ SlavesOf(t)]
<1>1. RevertSlave(s, t) = RevertPK(u, t)
  BY DEF RevertSlave
<1>2. /\ IsState(s0) /\ SameRest(s0, s) /\ SameKeys(s0, s)
      /\ s0.balance = Increase(s.balance, Fee(t))
      /\ s0.log = Shorter(s.log, "tx", {From(t)})
      /\ s0.raised \in BOOLEAN
  BY RefundFacts
<1> HIDE DEF s0
<1>3. /\ IsState(s1) /\ SameRest(s1, s) /\ SameKeys(s1, s)
      /\ s1.balance = Increase(s.balance, Fee(t))
      /\ s1.log = Shorter(Shorter(s.log, "tx", {From(t)}), "slaves", {From(t)})
      /\ s1.raised \in BOOLEAN
  BY <1>2, RemoveFacts DEF SameRest, SameKeys
<1> HIDE DEF s1
<1>4. /\ IsState(u) /\ SameKeys(u, s)
      /\ u.slaves = s.slaves \ SlavesOf(t)
      /\ u.lattice = s.lattice
      /\ u.tokens = s.tokens
      /\ u.wallets = s.wallets
      /\ u.votes = s.votes
      /\ u.balance = Increase(s.balance, Fee(t))
      /\ u.log = s1.log
      /\ u.raised = s1.raised
  BY <1>3 DEF IsState, Fields, SameKeys, SameRest
<1> HIDE DEF u
<1>5. QED
  BY <1>3, <1>1, <1>4, RevertPKFacts DEF SameRest

LEMMA SpendApplied ==
  ASSUME NEW s, IsState(s), NEW p
  PROVE  LET r == ApplyMultiSigSpend(s, p)
             w == Tx[p].wallet
             told == Signatories(Creation(p)) \cup {w}
         IN  /\ IsState(r) /\ Signed(r, s, p)
             /\ r.slaves = s.slaves
             /\ r.lattice = s.lattice
             /\ r.tokens = s.tokens
             /\ r.wallets = s.wallets
             /\ r.votes = [s.votes EXCEPT ![p] = [NoVotes EXCEPT !.live = TRUE]]
             /\ r.balance = Decrease(s.balance, Fee(p))
             /\ r.log = Longer(Longer(Longer(Longer(s.log, "tx", {From(p)}, p),
                          "spends", told, p), "tx", {w}, p), "tx", OnlySigner(p), p)
             /\ r.raised = s.raised
<1> DEFINE w == Tx[p].wallet
           told == Signatories(Creation(p)) \cup {w}
           s0 == Charge(s, p)
           s1 == InsertInto(s0, "spends", told, p)
           s2 == InsertInto(s1, "tx", {w}, p)
           u == [s2 EXCEPT !.votes[p] = [NoVotes EXCEPT !.live = TRUE]]
<1>1. ApplyMultiSigSpend(s, p) = ApplyPK(u, p)
  BY DEF ApplyMultiSigSpend
<1>2. /\ IsState(s0) /\ SameRest(s0, s) /\ SameKeys(s0, s)
      /\ s0.balance = Decrease(s.balance, Fee(p))
      /\ s0.log = Longer(s.log, "tx", {From(p)}, p)
      /\ s0.raised = s.raised
  BY ChargeFacts
<1> HIDE DEF s0
<1>3. /\ IsState(s1) /\ SameRest(s1, s) /\ SameKeys(s1, s)
      /\ s1.balance = Decrease(s.balance, Fee(p))
      /\ s1.log = Longer(Longer(s.log, "tx", {From(p)}, p), "spends", told, p)
      /\ s1.raised = s.raised
  BY <1>2, InsertFacts DEF SameRest, SameKeys
<1> HIDE DEF s1
<1>4. /\ IsState(s2) /\ SameRest(s2, s) /\ SameKeys(s2, s)
      /\ s2.balance = Decrease(s.balance, Fee(p))
      /\ s2.log = Longer(Longer(Longer(s.log, "tx", {From(p)}, p), "spends", told, p),
                    "tx", {w}, p)
      /\ s2.raised = s.raised
  BY <1>3, InsertFacts DEF SameRest, SameKeys
<1> HIDE DEF s2
<1>5. /\ IsState(u) /\ SameKeys(u, s)
      /\ u.slaves = s.slaves
      /\ u.lattice = s.lattice
      /\ u.tokens = s.tokens
      /\ u.wallets = s.wallets
      /\ u.votes = [s.votes EXCEPT ![p] = [NoVotes EXCEPT !.live = TRUE]]
      /\ u.balance = Decrease(s.balance, Fee(p))
      /\ u.log = s2.log
      /\ u.raised = s2.raised
  BY <1>4 DEF IsState, Fields, SameKeys, SameRest
<1> HIDE DEF u
<1>6. QED
  BY <1>4, <1>1, <1>5, ApplyPKFacts DEF SameRest

LEMMA SpendReverted ==
  ASSUME NEW s, IsState(s), NEW p
  PROVE  LET r == RevertMultiSigSpend(s, p)
             w == Tx[p].wallet
             told == Signatories(Creation(p)) \cup {w}
         IN  /\ IsState(r) /\ Unsigned(r, s, p)
             /\ r.slaves = s.slaves
             /\ r.lattice = s.lattice
             /\ r.tokens = s.tokens
             /\ r.wallets = s.wallets
             /\ r.votes = [s.votes EXCEPT ![p] = NoVotes]
             /\ r.balance = Increase(s.balance, Fee(p))
             /\ r.log = Shorter(Shorter(Shorter(Shorter(s.log, "tx", {From(p)}),
                          "spends", told), "tx", {w}), "tx", OnlySigner(p))
             /\ r.raised \in BOOLEAN
<1> DEFINE w == Tx[p].wallet
           told == Signatories(Creation(p)) \cup {w}
           s0 == Refund(s, p)
           s1 == RemoveFrom(s0, "spends", told, p)
           s2 == RemoveFrom(s1, "tx", {w}, p)
           u == [s2 EXCEPT !.votes[p] = NoVotes]
<1>1. RevertMultiSigSpend(s, p) = RevertPK(u, p)
  BY DEF RevertMultiSigSpend
<1>2. /\ IsState(s0) /\ SameRest(s0, s) /\ SameKeys(s0, s)
      /\ s0.balance = Increase(s.balance, Fee(p))
      /\ s0.log = Shorter(s.log, "tx", {From(p)})
      /\ s0.raised \in BOOLEAN
  BY RefundFacts
<1> HIDE DEF s0
<1>3. /\ IsState(s1) /\ SameRest(s1, s) /\ SameKeys(s1, s)
      /\ s1.balance = Increase(s.balance, Fee(p))
      /\ s1.log = Shorter(Shorter(s.log, "tx", {From(p)}), "spends", told)
      /\ s1.raised \in BOOLEAN
  BY <1>2, RemoveFacts DEF SameRest, SameKeys
<1> HIDE DEF s1
<1>4. /\ IsState(s2) /\ SameRest(s2, s) /\ SameKeys(s2, s)
      /\ s2.balance = Increase(s.balance, Fee(p))
      /\ s2.log = Shorter(Shorter(Shorter(s.log, "tx", {From(p)}), "spends", told),
                    "tx", {w})
      /\ s2.raised \in BOOLEAN
  BY <1>3, RemoveFacts DEF SameRest, SameKeys
<1> HIDE DEF s2
<1>5. /\ IsState(u) /\ SameKeys(u, s)
      /\ u.slaves = s.slaves
      /\ u.lattice = s.lattice
      /\ u.tokens = s.tokens
      /\ u.wallets = s.wallets
      /\ u.votes = [s.votes EXCEPT ![p] = NoVotes]
      /\ u.balance = Increase(s.balance, Fee(p))
      /\ u.log = s2.log
      /\ u.raised = s2.raised
  BY <1>4 DEF IsState, Fields, SameKeys, SameRest
<1> HIDE DEF u
<1>6. QED
  BY <1>4, <1>1, <1>5, RevertPKFacts DEF SameRest

LEMMA CreateApplied ==
  ASSUME NEW s, IsState(s), NEW c
  PROVE  LET r == ApplyMultiSigCreate(s, c)
             w == Tx[c].wallet
         IN  /\ IsState(r) /\ Signed(r, s, c)
             /\ r.slaves = s.slaves
             /\ r.lattice = s.lattice
             /\ r.tokens = s.tokens
             /\ r.wallets = s.wallets \cup {w}
             /\ r.votes = s.votes
             /\ r.balance = [Decrease(s.balance, Fee(c)) EXCEPT ![w] = 0]
             /\ r.log = Longer(Longer(Longer(Longer(s.log, "tx", {From(c)}, c),
                          "tx", {w} \cup OthersIn(c, Signatories(c)), c),
                          "wallets", Signatories(c), w), "tx", OnlySigner(c), c)
             /\ r.raised = s.raised
<1> DEFINE w == Tx[c].wallet
           s0 == Charge(s, c)
           s1 == InsertInto(s0, "tx", {w} \cup OthersIn(c, Signatories(c)), c)
           s2 == InsertInto(s1, "wallets", Signatories(c), w)
           u == [s2 EXCEPT !.wallets = @ \cup {w}, !.balance[w] = 0]
<1>1. ApplyMultiSigCreate(s, c) = ApplyPK(u, c)
  BY DEF ApplyMultiSigCreate
<1>2. /\ IsState(s0) /\ SameRest(s0, s) /\ SameKeys(s0, s)
      /\ s0.balance = Decrease(s.balance, Fee(c))
      /\ s0.log = Longer(s.log, "tx", {From(c)}, c)
      /\ s0.raised = s.raised
  BY ChargeFacts
<1> HIDE DEF s0
<1>3. /\ IsState(s1) /\ SameRest(s1, s) /\ SameKeys(s1, s)
      /\ s1.balance = Decrease(s.balance, Fee(c))
      /\ s1.log = Longer(Longer(s.log, "tx", {From(c)}, c),
                    "tx", {w} \cup OthersIn(c, Signatories(c)), c)
      /\ s1.raised = s.raised
  BY <1>2, InsertFacts DEF SameRest, SameKeys
<1> HIDE DEF s1
<1>4. /\ IsState(s2) /\ SameRest(s2, s) /\ SameKeys(s2, s)
      /\ s2.balance = Decrease(s.balance, Fee(c))
      /\ s2.log = Longer(Longer(Longer(s.log, "tx", {From(c)}, c),
                    "tx", {w} \cup OthersIn(c, Signatories(c)), c),
                          "wallets", Signatories(c), w)
      /\ s2.raised = s.raised
  BY <1>3, InsertFacts DEF SameRest, SameKeys
<1> HIDE DEF s2
<1>5. /\ IsState(u) /\ SameKeys(u, s)
      /\ u.slaves = s.slaves
      /\ u.lattice = s.lattice
      /\ u.tokens = s.tokens
      /\ u.wallets = s.wallets \cup {w}
      /\ u.votes = s.votes
      /\ u.balance = [Decrease(s.balance, Fee(c)) EXCEPT ![w] = 0]
      /\ u.log = s2.log
      /\ u.raised = s2.raised
  BY <1>4 DEF IsState, Fields, SameKeys, SameRest
<1> HIDE DEF u
<1>6. QED
  BY <1>4, <1>1, <1>5, ApplyPKFacts DEF SameRest

LEMMA CreateReverted ==
  ASSUME NEW s, IsState(s), NEW c
  PROVE  LET r == RevertMultiSigCreate(s, c)
             w == Tx[c].wallet
         IN  /\ IsState(r) /\ Unsigned(r, s, c)
             /\ r.slaves = s.slaves
             /\ r.lattice = s.lattice
             /\ r.tokens = s.tokens
             /\ r.wallets = s.wallets \ {w}
             /\ r.votes = s.votes
             /\ r.balance = [Increase(s.balance, Fee(c)) EXCEPT ![w] = 0]
             /\ r.log = Shorter(Shorter(Shorter(Shorter(s.log, "tx", {From(c)}),
                          "tx", OthersIn(c, Signatories(c))), "wallets", Signatories(c)),
                          "tx", OnlySigner(c))
             /\ r.raised \in BOOLEAN
<1> DEFINE w == Tx[c].wallet
           s0 == Refund(s, c)
           s1 == RemoveFrom(s0, "tx", OthersIn(c, Signatories(c)), c)
           s2 == RemoveFrom(s1, "wallets", Signatories(c), w)
           u == [s2 EXCEPT !.wallets = @ \ {w}, !.balance[w] = 0]
<1>1. RevertMultiSigCreate(s, c) = RevertPK(u, c)
  BY DEF RevertMultiSigCreate
<1>2. /\ IsState(s0) /\ SameRest(s0, s) /\ SameKeys(s0, s)
      /\ s0.balance = Increase(s.balance, Fee(c))
      /\ s0.log = Shorter(s.log, "tx", {From(c)})
      /\ s0.raised \in BOOLEAN
  BY RefundFacts
<1> HIDE DEF s0
<1>3. /\ IsState(s1) /\ SameRest(s1, s) /\ SameKeys(s1, s)
      /\ s1.balance = Increase(s.balance, Fee(c))
      /\ s1.log = Shorter(Shorter(s.log, "tx", {From(c)}),
                    "tx", OthersIn(c, Signatories(c)))
      /\ s1.raised \in BOOLEAN
  BY <1>2, RemoveFacts DEF SameRest, SameKeys
<1> HIDE DEF s1
<1>4. /\ IsState(s2) /\ SameRest(s2, s) /\ SameKeys(s2, s)
      /\ s2.balance = Increase(s.balance, Fee(c))
      /\ s2.log = Shorter(Shorter(Shorter(s.log, "tx", {From(c)}),
                    "tx", OthersIn(c, Signatories(c))), "wallets", Signatories(c))
      /\ s2.raised \in BOOLEAN
  BY <1>3, RemoveFacts DEF SameRest, SameKeys
<1> HIDE DEF s2
<1>5. /\ IsState(u) /\ SameKeys(u, s)
      /\ u.slaves = s.slaves
      /\ u.lattice = s.lattice
      /\ u.tokens = s.tokens
      /\ u.wallets = s.wallets \ {w}
      /\ u.votes = s.votes
      /\ u.balance = [Increase(s.balance, Fee(c)) EXCEPT ![w] = 0]
      /\ u.log = s2.log
      /\ u.raised = s2.raised
  BY <1>4 DEF IsState, Fields, SameKeys, SameRest
<1> HIDE DEF u
<1>6. QED
  BY <1>4, <1>1, <1>5, RevertPKFacts DEF SameRest

(* The token records after each operation on them.                          *)
Made(T, t) ==
  [a \in Accounts |-> IF a \in Payees(t)
                      THEN [T[a] EXCEPT ![t] = [balance |-> Tx[t].pays[a], origin |-> t]]
                      ELSE T[a]]

Unmade(T, t) ==
  [a \in Accounts |-> IF a \in Payees(t) THEN [T[a] EXCEPT ![t] = NoToken] ELSE T[a]]

Moved(T, t, sign) ==
  [a \in Accounts |->
     [T[a] EXCEPT ![Tx[t].token].balance =
        @ + (IF a \in Payees(t) THEN sign * Tx[t].pays[a] ELSE 0)
          - (IF a = From(t) THEN sign * SumOf(Tx[t].pays) ELSE 0)]]

Named(T, k, A, t) ==
  [a \in Accounts |-> IF a \in A THEN [T[a] EXCEPT ![k].origin = t] ELSE T[a]]

(* The payees whose record of the token that t transfers has the origin o.  *)
Holding(T, t, o) == {a \in Payees(t) : T[a][Tx[t].token].origin = o}

LEMMA TokenApplied ==
  ASSUME NEW s, IsState(s), NEW t
  PROVE  LET r == ApplyToken(s, t)
         IN  /\ IsState(r) /\ Signed(r, s, t)
             /\ r.slaves = s.slaves /\ r.lattice = s.lattice /\ r.wallets = s.wallets
             /\ r.votes = s.votes
             /\ r.tokens = Made(s.tokens, t)
             /\ r.balance = Decrease(s.balance, Fee(t))
             /\ r.log = Longer(Longer(s.log, "tx", TokenParties(t), t), "tokens", Payees(t), t)
             /\ r.raised = s.raised
<1> DEFINE s1 == InsertInto(InsertInto(s, "tx", TokenParties(t), t), "tokens", Payees(t), t)
           u == Take(s1, Fee(t))
           x == Signer(t)
           T == Made(u.tokens, t)
           N == [u.nonce EXCEPT ![x] = @ + 1]
           K == [u.keys EXCEPT ![x] = SetKey(@, Tx[t].key, KeyCount[x])]
           r == [u EXCEPT !.tokens = T, !.nonce = N, !.keys = K]
<1>1. /\ IsState(s1) /\ SameRest(s1, s) /\ SameKeys(s1, s)
      /\ s1.balance = s.balance
      /\ s1.log = Longer(Longer(s.log, "tx", TokenParties(t), t), "tokens", Payees(t), t)
      /\ s1.raised = s.raised
  BY InsertFacts DEF SameRest, SameKeys
<1> HIDE DEF s1
<1>2. /\ IsState(u) /\ SameRest(u, s) /\ SameKeys(u, s)
      /\ u.balance = Decrease(s.balance, Fee(t))
      /\ u.log = Longer(Longer(s.log, "tx", TokenParties(t), t), "tokens", Payees(t), t)
      /\ u.raised = s.raised
  BY <1>1, TakeFacts DEF SameRest, SameKeys
<1>3. ApplyToken(s, t) = [u EXCEPT !.tokens = T, !.nonce[x] = @ + 1,
                                   !.keys[x] = SetKey(@, Tx[t].key, KeyCount[x])]
  BY Zenon DEF ApplyToken, s1, Made
<1> HIDE DEF u, x, T
<1>4. r = [u EXCEPT !.tokens = T, !.nonce[x] = @ + 1,
                    !.keys[x] = SetKey(@, Tx[t].key, KeyCount[x])]
  BY <1>2 DEF IsState, Fields
<1> HIDE DEF N, K
<1>5. /\ IsState(r)
      /\ r.slaves = u.slaves /\ r.lattice = u.lattice /\ r.wallets = u.wallets
      /\ r.votes = u.votes /\ r.tokens = T
      /\ r.balance = u.balance /\ r.log = u.log /\ r.raised = u.raised
      /\ r.nonce = N /\ r.keys = K
  BY <1>2 DEF IsState, Fields
<1> HIDE DEF r
<1>6. T = Made(s.tokens, t) /\ N = [s.nonce EXCEPT ![x] = @ + 1]
  BY <1>2 DEF SameRest, SameKeys, T, N
<1>7. K = [s.keys EXCEPT ![x] = SetKey(@, Tx[t].key, KeyCount[x])]
  BY <1>2 DEF SameKeys, K
<1>8. Signed(r, s, t)
  BY <1>5, <1>6, <1>7 DEF Signed, x
<1>9. QED
  BY <1>2, <1>3, <1>4, <1>5, <1>6, <1>8 DEF SameRest

LEMMA TokenReverted ==
  ASSUME NEW s, IsState(s), NEW t
  PROVE  LET r == RevertToken(s, t)
         IN  /\ IsState(r) /\ Unsigned(r, s, t)
             /\ r.slaves = s.slaves /\ r.lattice = s.lattice /\ r.wallets = s.wallets
             /\ r.votes = s.votes
             /\ r.tokens = Unmade(s.tokens, t)
             /\ r.balance = Increase(s.balance, Fee(t))
             /\ r.log = Shorter(Shorter(s.log, "tx", TokenParties(t)), "tokens", Payees(t))
             /\ r.raised \in BOOLEAN
<1> DEFINE s1 == RemoveFrom(RemoveFrom(s, "tx", TokenParties(t), t), "tokens", Payees(t), t)
           u == Give(s1, Fee(t))
           x == Signer(t)
           T == Unmade(u.tokens, t)
           N == [u.nonce EXCEPT ![x] = @ - 1]
           K == [u.keys EXCEPT ![x] = UnsetKey(@, Tx[t].key)]
           r == [u EXCEPT !.tokens = T, !.nonce = N, !.keys = K]
<1>1. /\ IsState(s1) /\ SameRest(s1, s) /\ SameKeys(s1, s)
      /\ s1.balance = s.balance
      /\ s1.log = Shorter(Shorter(s.log, "tx", TokenParties(t)), "tokens", Payees(t))
      /\ s1.raised \in BOOLEAN
  BY RemoveFacts DEF SameRest, SameKeys
<1> HIDE DEF s1
<1>2. /\ IsState(u) /\ SameRest(u, s) /\ SameKeys(u, s)
      /\ u.balance = Increase(s.balance, Fee(t))
      /\ u.log = Shorter(Shorter(s.log, "tx", TokenParties(t)), "tokens", Payees(t))
      /\ u.raised \in BOOLEAN
  BY <1>1, GiveFacts DEF SameRest, SameKeys
<1>3. RevertToken(s, t) = [u EXCEPT !.tokens = T, !.nonce[x] = @ - 1,
                                    !.keys[x] = UnsetKey(@, Tx[t].key)]
  BY Zenon DEF RevertToken, s1, Unmade
<1> HIDE DEF u, x, T
<1>4. r = [u EXCEPT !.tokens = T, !.nonce[x] = @ - 1, !.keys[x] = UnsetKey(@, Tx[t].key)]
  BY <1>2 DEF IsState, Fields
<1> HIDE DEF N, K
<1>5. /\ IsState(r)
      /\ r.slaves = u.slaves /\ r.lattice = u.lattice /\ r.wallets = u.wallets
      /\ r.votes = u.votes /\ r.tokens = T
      /\ r.balance = u.balance /\ r.log = u.log /\ r.raised = u.raised
      /\ r.nonce = N /\ r.keys = K
  BY <1>2 DEF IsState, Fields
<1> HIDE DEF r
<1>6. T = Unmade(s.tokens, t) /\ N = [s.nonce EXCEPT ![x] = @ - 1]
  BY <1>2 DEF SameRest, SameKeys, T, N
<1>7. K = [s.keys EXCEPT ![x] = UnsetKey(@, Tx[t].key)]
  BY <1>2 DEF SameKeys, K
<1>8. Unsigned(r, s, t)
  BY <1>5, <1>6, <1>7 DEF Unsigned, x
<1>9. QED
  BY <1>2, <1>3, <1>4, <1>5, <1>6, <1>8 DEF SameRest

LEMMA MoveFacts ==
  ASSUME NEW s, IsState(s), NEW t, NEW sign, NEW k, NEW A, NEW o
  PROVE  LET u == MoveTokens(s, t, sign)
             r == SetOrigin(u, k, A, o)
         IN  /\ IsState(r) /\ SameKeys(r, s)
             /\ r.slaves = s.slaves /\ r.lattice = s.lattice /\ r.wallets = s.wallets
             /\ r.votes = s.votes
             /\ r.tokens = Named(Moved(s.tokens, t, sign), k, A, o)
             /\ r.balance = s.balance
             /\ r.log = s.log
             /\ r.raised = s.raised
<1> DEFINE M == Moved(s.tokens, t, sign)
           u == [s EXCEPT !.tokens = M]
           T == Named(u.tokens, k, A, o)
           r == [u EXCEPT !.tokens = T]
<1>1. MoveTokens(s, t, sign) = u
  BY Zenon DEF MoveTokens, Moved
<1>2. SetOrigin(u, k, A, o) = r
  BY Zenon DEF SetOrigin, Named
<1> HIDE DEF M, T
<1>3. /\ IsState(u) /\ IsState(r) /\ SameKeys(r, s)
      /\ r.slaves = s.slaves /\ r.lattice = s.lattice /\ r.wallets = s.wallets
      /\ r.votes = s.votes
      /\ u.tokens = M
      /\ r.tokens = T
      /\ r.balance = s.balance
      /\ r.log = s.log
      /\ r.raised = s.raised
  BY DEF IsState, Fields, SameKeys
<1>4. QED
  BY <1>1, <1>2, <1>3 DEF M, T

LEMMA TransferTokenApplied ==
  ASSUME NEW s, IsState(s), NEW t
  PROVE  LET r == ApplyTransferToken(s, t)
             k == Tx[t].token
             new == Holding(s.tokens, t, NoTx)
         IN  /\ IsState(r) /\ Signed(r, s, t)
             /\ r.slaves = s.slaves /\ r.lattice = s.lattice /\ r.wallets = s.wallets
             /\ r.votes = s.votes
             /\ r.tokens = Named(Moved(s.tokens, t, 1), k, new, t)
             /\ r.balance = Decrease(s.balance, Fee(t))
             /\ r.log = Longer(Longer(Longer(Longer(s.log, "tx", {From(t)}, t),
                                             "tokens", new, k),
                                      "tx", Payees(t) \ {From(t)}, t),
                               "tx", OnlySigner(t), t)
             /\ r.raised = s.raised
<1> DEFINE k == Tx[t].token
           new == Holding(s.tokens, t, NoTx)
           c == Charge(s, t)
           m == SetOrigin(MoveTokens(c, t, 1), k, new, t)
           u == InsertInto(InsertInto(m, "tokens", new, k), "tx", Payees(t) \ {From(t)}, t)
<1>1. ApplyTransferToken(s, t) = ApplyPK(u, t)
  BY DEF ApplyTransferToken, Holding
<1> HIDE DEF new
<1>2. /\ IsState(c) /\ SameRest(c, s) /\ SameKeys(c, s)
      /\ c.balance = Decrease(s.balance, Fee(t))
      /\ c.log = Longer(s.log, "tx", {From(t)}, t)
      /\ c.raised = s.raised
  BY ChargeFacts
<1> HIDE DEF c
<1>3. /\ IsState(m) /\ SameKeys(m, c)
      /\ m.slaves = c.slaves /\ m.lattice = c.lattice /\ m.wallets = c.wallets
      /\ m.votes = c.votes
      /\ m.tokens = Named(Moved(c.tokens, t, 1), k, new, t)
      /\ m.balance = c.balance
      /\ m.log = c.log
      /\ m.raised = c.raised
  BY <1>2, MoveFacts
<1> HIDE DEF m
<1>4. /\ IsState(u) /\ SameRest(u, m) /\ SameKeys(u, m)
      /\ u.balance = m.balance
      /\ u.log = Longer(Longer(m.log, "tokens", new, k), "tx", Payees(t) \ {From(t)}, t)
      /\ u.raised = m.raised
  BY <1>3, InsertFacts DEF SameRest, SameKeys
<1> HIDE DEF u
<1>5. SameKeys(u, s)
  BY <1>2, <1>3, <1>4 DEF SameKeys
<1> HIDE DEF k
<1>6. QED
  BY <1>1, <1>2, <1>3, <1>4, <1>5, ApplyPKFacts DEF SameRest, new, k

LEMMA TransferTokenReverted ==
  ASSUME NEW s, IsState(s), NEW t
  PROVE  LET r == RevertTransferToken(s, t)
             k == Tx[t].token
             new == Holding(s.tokens, t, t)
         IN  /\ IsState(r) /\ Unsigned(r, s, t)
             /\ r.slaves = s.slaves /\ r.lattice = s.lattice /\ r.wallets = s.wallets
             /\ r.votes = s.votes
             /\ r.tokens = Named(Moved(s.tokens, t, -1), k, new, NoTx)
             /\ r.balance = Increase(s.balance, Fee(t))
             /\ r.log = Shorter(Shorter(Shorter(Shorter(s.log, "tokens", new),
                                                "tx", Payees(t) \ {From(t)}),
                                        "tx", {From(t)}),
                                "tx", OnlySigner(t))
             /\ r.raised \in BOOLEAN
<1> DEFINE k == Tx[t].token
           new == Holding(s.tokens, t, t)
           m == SetOrigin(MoveTokens(s, t, -1), k, new, NoTx)
           v == RemoveFrom(RemoveFrom(m, "tokens", new, k), "tx", Payees(t) \ {From(t)}, t)
           u == Refund(v, t)
<1>1. RevertTransferToken(s, t) = RevertPK(u, t)
  BY DEF RevertTransferToken, Holding
<1> HIDE DEF new
<1>2. /\ IsState(m) /\ SameKeys(m, s)
      /\ m.slaves = s.slaves /\ m.lattice = s.lattice /\ m.wallets = s.wallets
      /\ m.votes = s.votes
      /\ m.tokens = Named(Moved(s.tokens, t, -1), k, new, NoTx)
      /\ m.balance = s.balance
      /\ m.log = s.log
  BY MoveFacts
<1> HIDE DEF m
<1>3. /\ IsState(v) /\ SameRest(v, m) /\ SameKeys(v, m)
      /\ v.balance = m.balance
      /\ v.log = Shorter(Shorter(m.log, "tokens", new), "tx", Payees(t) \ {From(t)})
  BY <1>2, RemoveFacts DEF SameRest, SameKeys
<1> HIDE DEF v
<1>4. /\ IsState(u) /\ SameRest(u, v) /\ SameKeys(u, v)
      /\ u.balance = Increase(v.balance, Fee(t))
      /\ u.log = Shorter(v.log, "tx", {From(t)})
  BY <1>3, RefundFacts
<1> HIDE DEF u
<1>5. SameKeys(u, s)
  BY <1>2, <1>3, <1>4 DEF SameKeys
<1> HIDE DEF k
<1>6. QED
  BY <1>1, <1>2, <1>3, <1>4, <1>5, RevertPKFacts DEF SameRest, new, k

(* The tallies of the spends with a's voice about p, or p's payment, changed.*)
Recount(V, p, a, weight, for, t) == [V EXCEPT ![p] = Tally(@, a, weight, for, t)]

SetExecuted(V, p, b) == [V EXCEPT ![p].executed = b]

(* The payment of a spend.                                                  *)
Paid(b, p) == Increase(Decrease(b, Coins(Tx[p].wallet, Total(p))), Tx[p].pays)
Unpaid(b, p) == Decrease(Increase(b, Coins(Tx[p].wallet, Total(p))), Tx[p].pays)

LEMMA ExecuteFacts ==
  ASSUME NEW s, IsState(s), NEW p, NEW n
  PROVE  LET r == Execute(s, p, n)
             x == Executable(s, p, n)
         IN  /\ IsState(r) /\ SameKeys(r, s)
             /\ r.slaves = s.slaves /\ r.lattice = s.lattice /\ r.wallets = s.wallets
             /\ r.tokens = s.tokens
             /\ r.votes = IF x THEN SetExecuted(s.votes, p, TRUE) ELSE s.votes
             /\ r.balance = IF x THEN Paid(s.balance, p) ELSE s.balance
             /\ r.log = IF x THEN Longer(s.log, "tx", OthersIn(p, Payees(p)), p) ELSE s.log
             /\ r.raised = s.raised
<1> DEFINE u == InsertInto(Give(Take(s, Coins(Tx[p].wallet, Total(p))), Tx[p].pays),
                           "tx", OthersIn(p, Payees(p)), p)
           r == [u EXCEPT !.votes[p].executed = TRUE]
<1>1. Execute(s, p, n) = IF Executable(s, p, n) THEN r ELSE s
  BY DEF Execute
<1>2. /\ IsState(u) /\ SameRest(u, s) /\ SameKeys(u, s)
      /\ u.balance = Paid(s.balance, p)
      /\ u.log = Longer(s.log, "tx", OthersIn(p, Payees(p)), p)
      /\ u.raised = s.raised
  BY TakeFacts, GiveFacts, InsertFacts DEF SameRest, SameKeys, Paid
<1> HIDE DEF u
<1>3. /\ IsState(r) /\ SameKeys(r, u)
      /\ r.slaves = u.slaves /\ r.lattice = u.lattice /\ r.wallets = u.wallets
      /\ r.tokens = u.tokens
      /\ r.votes = [u.votes EXCEPT ![p].executed = TRUE]
      /\ r.balance = u.balance
      /\ r.log = u.log
      /\ r.raised = u.raised
  BY <1>2 DEF IsState, Fields, SameKeys
<1> HIDE DEF r
<1>4. SameKeys(r, s) /\ SameKeys(s, s)
  BY <1>2, <1>3 DEF SameKeys
<1>5. QED
  BY <1>1, <1>2, <1>3, <1>4 DEF SameRest, SetExecuted

(* A spend was executed with the threshold reached and in time.             *)
Withdrawable(s, p, n) ==
  /\ s.votes[p].executed
  /\ s.votes[p].weight >= Tx[Creation(p)].threshold
  /\ n <= Tx[p].expiry

LEMMA UnexecuteFacts ==
  ASSUME NEW s, IsState(s), NEW p, NEW n
  PROVE  LET r == Unexecute(s, p, n)
             x == Withdrawable(s, p, n)
         IN  /\ IsState(r) /\ SameKeys(r, s)
             /\ r.slaves = s.slaves /\ r.lattice = s.lattice /\ r.wallets = s.wallets
             /\ r.tokens = s.tokens
             /\ r.votes = IF x THEN SetExecuted(s.votes, p, FALSE) ELSE s.votes
             /\ r.balance = IF x THEN Unpaid(s.balance, p) ELSE s.balance
             /\ r.log = IF x THEN Shorter(s.log, "tx", OthersIn(p, Payees(p))) ELSE s.log
<1> DEFINE u == RemoveFrom(Take(Give(s, Coins(Tx[p].wallet, Total(p))), Tx[p].pays),
                           "tx", OthersIn(p, Payees(p)), p)
           r == [u EXCEPT !.votes[p].executed = FALSE]
<1>1. Unexecute(s, p, n) = IF Withdrawable(s, p, n) THEN r ELSE s
  BY DEF Unexecute, Withdrawable
<1>2. /\ IsState(u) /\ SameRest(u, s) /\ SameKeys(u, s)
      /\ u.balance = Unpaid(s.balance, p)
      /\ u.log = Shorter(s.log, "tx", OthersIn(p, Payees(p)))
  BY TakeFacts, GiveFacts, RemoveFacts DEF SameRest, SameKeys, Unpaid
<1> HIDE DEF u
<1>3. /\ IsState(r) /\ SameKeys(r, u)
      /\ r.slaves = u.slaves /\ r.lattice = u.lattice /\ r.wallets = u.wallets
      /\ r.tokens = u.tokens
      /\ r.votes = [u.votes EXCEPT ![p].executed = FALSE]
      /\ r.balance = u.balance
      /\ r.log = u.log
  BY <1>2 DEF IsState, Fields, SameKeys
<1> HIDE DEF r
<1>4. SameKeys(r, s) /\ SameKeys(s, s)
  BY <1>2, <1>3 DEF SameKeys
<1>5. QED
  BY <1>1, <1>2, <1>3, <1>4 DEF SameRest, SetExecuted

(* The tallies of the spends once the vote v is counted.                    *)
Counted(V, v) == Recount(V, Tx[v].spend, From(v), Weight(v), ~ Tx[v].unvote, v)

(* The vote v executes its spend.                                           *)
Executes(s, v, n) ==
  LET p == Tx[v].spend
  IN  /\ ~ Counted(s.votes, v)[p].executed
      /\ Counted(s.votes, v)[p].weight >= Tx[Creation(p)].threshold
      /\ n <= Tx[p].expiry
      /\ Total(p) <= Decrease(s.balance, Fee(v))[Tx[p].wallet]

(* What applying a vote leads to.                                           *)
VoteDone(r, s, v, n) ==
  LET p == Tx[v].spend
      x == Executes(s, v, n)
      V == Counted(s.votes, v)
      b == Decrease(s.balance, Fee(v))
      L == Longer(s.log, "tx", {From(v)}, v)
  IN  /\ IsState(r) /\ Signed(r, s, v)
      /\ r.slaves = s.slaves /\ r.lattice = s.lattice /\ r.wallets = s.wallets
      /\ r.tokens = s.tokens
      /\ x => /\ r.votes = SetExecuted(V, p, TRUE)
              /\ r.balance = Paid(b, p)
              /\ r.log = Longer(Longer(L, "tx", OthersIn(p, Payees(p)), p),
                                "tx", OnlySigner(v), v)
      /\ ~ x => /\ r.votes = V
                /\ r.balance = b
                /\ r.log = Longer(L, "tx", OnlySigner(v), v)
      /\ r.raised = s.raised

LEMMA VoteApplied ==
  ASSUME NEW s, IsState(s), NEW v, NEW n
  PROVE  VoteDone(ApplyMultiSigVote(s, v, n), s, v, n)
<1> DEFINE p == Tx[v].spend
           V == Counted(s.votes, v)
           c == Charge(s, v)
           d == [c EXCEPT !.votes = V]
           u == Execute(d, p, n)
<1>1. /\ IsState(c) /\ SameRest(c, s) /\ SameKeys(c, s)
      /\ c.balance = Decrease(s.balance, Fee(v))
      /\ c.log = Longer(s.log, "tx", {From(v)}, v)
      /\ c.raised = s.raised
  BY ChargeFacts
<1>2. ApplyMultiSigVote(s, v, n) = ApplyPK(u, v)
  <2>1. c.votes = s.votes
    BY <1>1 DEF SameRest
  <2> HIDE DEF c
  <2>2. d = [c EXCEPT !.votes[p] = Tally(@, From(v), Weight(v), ~ Tx[v].unvote, v)]
    BY <2>1 DEF Counted, Recount
  <2>3. QED
    BY <2>2 DEF ApplyMultiSigVote, c
<1> HIDE DEF c, V
<1>3. /\ IsState(d) /\ SameKeys(d, c)
      /\ d.slaves = c.slaves /\ d.lattice = c.lattice /\ d.wallets = c.wallets
      /\ d.tokens = c.tokens
      /\ d.votes = V
      /\ d.balance = c.balance
      /\ d.log = c.log
      /\ d.raised = c.raised
  BY <1>1 DEF IsState, Fields, SameKeys
<1> HIDE DEF d
<1>4. Executable(d, p, n) <=> Executes(s, v, n)
  BY <1>1, <1>3 DEF Executable, Executes, V
<1>5. LET x == Executes(s, v, n)
      IN  /\ IsState(u) /\ SameKeys(u, d)
          /\ u.slaves = d.slaves /\ u.lattice = d.lattice /\ u.wallets = d.wallets
          /\ u.tokens = d.tokens
          /\ u.votes = IF x THEN SetExecuted(d.votes, p, TRUE) ELSE d.votes
          /\ u.balance = IF x THEN Paid(d.balance, p) ELSE d.balance
          /\ u.log = IF x THEN Longer(d.log, "tx", OthersIn(p, Payees(p)), p) ELSE d.log
          /\ u.raised = d.raised
  <2>1. CASE Executable(d, p, n)
    BY <1>3, <1>4, <2>1, ExecuteFacts
  <2>2. CASE ~ Executable(d, p, n)
    <3>1. u = d
      BY <2>2 DEF Execute
    <3>2. QED
      BY <1>3, <1>4, <2>2, <3>1 DEF SameKeys
  <2>3. QED
    BY <2>1, <2>2
<1> HIDE DEF u
<1>6. SameKeys(u, s)
  BY <1>1, <1>3, <1>5 DEF SameKeys
<1> HIDE DEF p
<1>7. LET r == ApplyPK(u, v)
      IN  /\ IsState(r) /\ SameRest(r, u) /\ Signed(r, s, v)
          /\ r.balance = u.balance
          /\ r.log = Longer(u.log, "tx", OnlySigner(v), v)
          /\ r.raised = u.raised
  BY <1>5, <1>6, ApplyPKFacts
<1>8. QED
  BY ZenonT(60), <1>1, <1>2, <1>3, <1>5, <1>7 DEF VoteDone, SameRest, p, V

(* And what taking it back leads to.                                        *)
VoteUndid(r, s, v, prev, n) ==
  LET p == Tx[v].spend
      x == Withdrawable(s, p, n)
  IN  /\ IsState(r) /\ Unsigned(r, s, v)
      /\ r.slaves = s.slaves /\ r.lattice = s.lattice /\ r.wallets = s.wallets
      /\ r.tokens = s.tokens
      /\ x => /\ r.votes = Recount(SetExecuted(s.votes, p, FALSE),
                                   p, From(v), Weight(v), Tx[v].unvote, prev)
              /\ r.balance = Increase(Unpaid(s.balance, p), Fee(v))
              /\ r.log = Shorter(Shorter(Shorter(s.log, "tx", OthersIn(p, Payees(p))),
                                         "tx", {From(v)}),
                                 "tx", OnlySigner(v))
      /\ ~ x => /\ r.votes = Recount(s.votes, p, From(v), Weight(v), Tx[v].unvote, prev)
                /\ r.balance = Increase(s.balance, Fee(v))
                /\ r.log = Shorter(Shorter(s.log, "tx", {From(v)}), "tx", OnlySigner(v))
      /\ r.raised \in BOOLEAN

LEMMA VoteReverted ==
  ASSUME NEW s, IsState(s), NEW v, NEW e, e.tx = v, NEW n
  PROVE  VoteUndid(RevertMultiSigVote(s, e, n), s, v, e.prev, n)
<1> DEFINE p == Tx[v].spend
           x == Withdrawable(s, p, n)
           W == IF x THEN SetExecuted(s.votes, p, FALSE) ELSE s.votes
           d == Unexecute(s, p, n)
           V == Recount(d.votes, p, From(v), Weight(v), Tx[v].unvote, e.prev)
           c == [d EXCEPT !.votes = V]
           u == Refund(c, v)
<1>1. /\ IsState(d) /\ SameKeys(d, s)
      /\ d.slaves = s.slaves /\ d.lattice = s.lattice /\ d.wallets = s.wallets
      /\ d.tokens = s.tokens
      /\ d.votes = W
      /\ d.balance = IF x THEN Unpaid(s.balance, p) ELSE s.balance
      /\ d.log = IF x THEN Shorter(s.log, "tx", OthersIn(p, Payees(p))) ELSE s.log
  <2> HIDE DEF p, V, c, u
  <2>1. CASE x
    BY <2>1, UnexecuteFacts
  <2>2. CASE ~ x
    BY ZenonT(60), <2>2, UnexecuteFacts
  <2>3. QED
    BY <2>1, <2>2
<1>2. RevertMultiSigVote(s, e, n) = RevertPK(u, v)
  <2>1. c = [d EXCEPT !.votes[p] = Tally(@, From(v), Weight(v), Tx[v].unvote, e.prev)]
    BY Zenon DEF Recount
  <2>2. QED
    BY <2>1, e.tx = v DEF RevertMultiSigVote
<1> HIDE DEF d, W
<1>3. V = Recount(W, p, From(v), Weight(v), Tx[v].unvote, e.prev)
  BY <1>1
<1> HIDE DEF V
<1>4. /\ IsState(c) /\ SameKeys(c, d)
      /\ c.slaves = d.slaves /\ c.lattice = d.lattice /\ c.wallets = d.wallets
      /\ c.tokens = d.tokens
      /\ c.votes = V
      /\ c.balance = d.balance
      /\ c.log = d.log
  BY <1>1 DEF IsState, Fields, SameKeys
<1> HIDE DEF c
<1>5. /\ IsState(u) /\ SameRest(u, c) /\ SameKeys(u, c)
      /\ u.balance = Increase(c.balance, Fee(v))
      /\ u.log = Shorter(c.log, "tx", {From(v)})
  BY <1>4, RefundFacts
<1> HIDE DEF u
<1>6. SameKeys(u, s)
  BY <1>1, <1>4, <1>5 DEF SameKeys
<1>7. LET r == RevertPK(u, v)
      IN  /\ IsState(r) /\ SameRest(r, u) /\ Unsigned(r, s, v)
          /\ r.balance = u.balance
          /\ r.log = Shorter(u.log, "tx", OnlySigner(v))
          /\ r.raised \in BOOLEAN
  BY <1>5, <1>6, RevertPKFacts
<1> HIDE DEF p, x
<1>8. QED
  BY ZenonT(60), <1>1, <1>2, <1>3, <1>4, <1>5, <1>7 DEF VoteUndid, SameRest, W, p, x

(* What a block's coinbase does.                                            *)
CoinbaseDone(r, s, n, fees) ==
  LET c == Coinbase[n]
  IN  /\ IsState(r) /\ SameRest(r, s) /\ r.keys = s.keys
      /\ r.nonce = [s.nonce EXCEPT ![Mint] = @ + 1]
      /\ r.balance = Decrease(Increase(s.balance, Coins(Tx[c].to, Reward + fees)),
                              Coins(Mint, Reward))
      /\ r.log = Longer(Longer(s.log, "tx", {Tx[c].to}, c), "tx", {Mint}, c)
      /\ r.raised = s.raised

LEMMA CoinbaseApplied ==
  ASSUME NEW s, IsState(s), NEW n, NEW fees
  PROVE  CoinbaseDone(ApplyCoinbase(s, n, fees), s, n, fees)
<1> DEFINE c == Coinbase[n]
           paid == Give(s, Coins(Tx[c].to, Reward + fees))
           taken == Take(InsertInto(paid, "tx", {Tx[c].to}, c), Coins(Mint, Reward))
           u == InsertInto(taken, "tx", {Mint}, c)
           N == [u.nonce EXCEPT ![Mint] = @ + 1]
           r == [u EXCEPT !.nonce = N]
<1>1. /\ IsState(u) /\ SameRest(u, s) /\ SameKeys(u, s)
      /\ u.balance = Decrease(Increase(s.balance, Coins(Tx[c].to, Reward + fees)),
                              Coins(Mint, Reward))
      /\ u.log = Longer(Longer(s.log, "tx", {Tx[c].to}, c), "tx", {Mint}, c)
      /\ u.raised = s.raised
  BY GiveFacts, TakeFacts, InsertFacts DEF SameRest, SameKeys
<1>2. ApplyCoinbase(s, n, fees) = r
  BY Zenon DEF ApplyCoinbase
<1> HIDE DEF u, N
<1>3. /\ IsState(r) /\ SameRest(r, u) /\ r.keys = u.keys /\ r.nonce = N
      /\ r.balance = u.balance /\ r.log = u.log /\ r.raised = u.raised
  BY <1>1 DEF IsState, Fields, SameRest
<1> HIDE DEF r
<1>4. N = [s.nonce EXCEPT ![Mint] = @ + 1]
  BY <1>1 DEF SameKeys, N
<1>5. QED
  BY <1>1, <1>2, <1>3, <1>4 DEF CoinbaseDone, SameRest, SameKeys

LEMMA CoinbaseReverted ==
  ASSUME NEW s, IsState(s), NEW n, NEW fees
  PROVE  LET r == RevertCoinbase(s, n, fees)
             c == Coinbase[n]
         IN  /\ IsState(r) /\ SameRest(r, s) /\ r.keys = s.keys
             /\ r.nonce = [s.nonce EXCEPT ![Mint] = @ - 1]
             /\ r.balance = Increase(Decrease(s.balance, Coins(Tx[c].to, Reward + fees)),
                                     Coins(Mint, Reward))
             /\ r.log = Shorter(Shorter(s.log, "tx", {Tx[c].to}), "tx", {Mint})
             /\ r.raised \in BOOLEAN
             /\ r.raised => \/ s.raised
                            \/ ~ EndsWith(s.log["tx"][Tx[c].to], c)
                            \/ ~ EndsWith(Shorter(s.log, "tx", {Tx[c].to})["tx"][Mint], c)
<1> DEFINE c == Coinbase[n]
           taken == Take(s, Coins(Tx[c].to, Reward + fees))
           one == RemoveFrom(taken, "tx", {Tx[c].to}, c)
           paid == Give(one, Coins(Mint, Reward))
           u == RemoveFrom(paid, "tx", {Mint}, c)
           N == [u.nonce EXCEPT ![Mint] = @ - 1]
           r == [u EXCEPT !.nonce = N]
<1>1. RevertCoinbase(s, n, fees) = r
  BY Zenon DEF RevertCoinbase
<1>2. /\ IsState(taken) /\ SameRest(taken, s) /\ SameKeys(taken, s)
      /\ taken.balance = Decrease(s.balance, Coins(Tx[c].to, Reward + fees))
      /\ taken.log = s.log
      /\ taken.raised = s.raised
  BY TakeFacts
<1> HIDE DEF taken
<1>3. /\ IsState(one) /\ SameRest(one, taken) /\ SameKeys(one, taken)
      /\ one.balance = taken.balance
      /\ one.log = Shorter(taken.log, "tx", {Tx[c].to})
  BY <1>2, RemoveFacts
<1>4. one.raised => s.raised \/ ~ EndsWith(s.log["tx"][Tx[c].to], c)
  BY <1>2, RemoveRaises
<1> HIDE DEF one
<1>5. /\ IsState(paid) /\ SameRest(paid, one) /\ SameKeys(paid, one)
      /\ paid.balance = Increase(one.balance, Coins(Mint, Reward))
      /\ paid.log = one.log
      /\ paid.raised = one.raised
  BY <1>3, GiveFacts
<1> HIDE DEF paid
<1>6. /\ IsState(u) /\ SameRest(u, paid) /\ SameKeys(u, paid)
      /\ u.balance = paid.balance
      /\ u.log = Shorter(paid.log, "tx", {Mint})
      /\ u.raised \in BOOLEAN
  BY <1>5, RemoveFacts
<1>7. u.raised => paid.raised \/ ~ EndsWith(paid.log["tx"][Mint], c)
  BY <1>5, RemoveRaises
<1> HIDE DEF u, N
<1>8. /\ IsState(r) /\ SameRest(r, u) /\ r.keys = u.keys /\ r.nonce = N
      /\ r.balance = u.balance /\ r.log = u.log /\ r.raised = u.raised
  BY <1>6 DEF IsState, Fields, SameRest
<1> HIDE DEF r
<1>9. u.nonce = s.nonce /\ u.keys = s.keys /\ SameRest(u, s)
  BY <1>2, <1>3, <1>5, <1>6 DEF SameKeys, SameRest
<1>10. N = [s.nonce EXCEPT ![Mint] = @ - 1]
  BY <1>9 DEF N
<1>11. SameRest(r, s)
  BY <1>8, <1>9 DEF SameRest
<1>12. r.raised => \/ s.raised
                  \/ ~ EndsWith(s.log["tx"][Tx[c].to], c)
                  \/ ~ EndsWith(Shorter(s.log, "tx", {Tx[c].to})["tx"][Mint], c)
  BY <1>2, <1>3, <1>4, <1>5, <1>7, <1>8
<1>13. QED
  BY <1>1, <1>2, <1>3, <1>5, <1>6, <1>8, <1>9, <1>10, <1>11, <1>12

-----------------------------------------------------------------------------
(* What the operations on balances and lists do at one address              *)

Amounts(pays) == pays \in [DOMAIN pays -> Int]

LEMMA BalanceFacts ==
  ASSUME NEW b \in [Addresses -> Int], NEW pays, Amounts(pays)
  PROVE  /\ Increase(b, pays) \in [Addresses -> Int]
         /\ Decrease(b, pays) \in [Addresses -> Int]
         /\ \A a \in Addresses : /\ Part(pays, a) \in Int
                                 /\ Increase(b, pays)[a] = b[a] + Part(pays, a)
                                 /\ Decrease(b, pays)[a] = b[a] - Part(pays, a)
BY DEF Amounts, Increase, Decrease, Part

LEMMA CoinsFacts ==
  ASSUME NEW a, NEW n \in Int
  PROVE  /\ Amounts(Coins(a, n))
         /\ \A x : Part(Coins(a, n), x) = IF x = a THEN n ELSE 0
BY DEF Amounts, Coins, Part

(* Whatever was taken and given can be given back and taken.                *)
LEMMA BalanceUndone ==
  ASSUME NEW b \in [Addresses -> Int], NEW p, Amounts(p), NEW q, Amounts(q)
  PROVE  /\ Increase(Decrease(b, p), p) = b
         /\ Decrease(Increase(Increase(Decrease(b, p), q), p), q) = b
         /\ Increase(Decrease(Decrease(Increase(b, p), q), p), q) = b
<1>1. /\ Increase(Decrease(b, p), p) \in [Addresses -> Int]
      /\ \A a \in Addresses : Increase(Decrease(b, p), p)[a] = b[a]
  BY BalanceFacts
<1>2. Decrease(Increase(Increase(Decrease(b, p), q), p), q) = b
  <2> DEFINE b1 == Decrease(b, p)
             b2 == Increase(b1, q)
             b3 == Increase(b2, p)
             b4 == Decrease(b3, q)
  <2>1. b1 \in [Addresses -> Int] /\ \A a \in Addresses : b1[a] = b[a] - Part(p, a)
    BY BalanceFacts
  <2> HIDE DEF b1
  <2>2. b2 \in [Addresses -> Int] /\ \A a \in Addresses : b2[a] = b1[a] + Part(q, a)
    BY <2>1, BalanceFacts
  <2> HIDE DEF b2
  <2>3. b3 \in [Addresses -> Int] /\ \A a \in Addresses : b3[a] = b2[a] + Part(p, a)
    BY <2>2, BalanceFacts
  <2> HIDE DEF b3
  <2>4. b4 \in [Addresses -> Int] /\ \A a \in Addresses : b4[a] = b3[a] - Part(q, a)
    BY <2>3, BalanceFacts
  <2> HIDE DEF b4
  <2>5. \A a \in Addresses : b4[a] = b[a]
    <3>1. \A a \in Addresses : Part(p, a) \in Int /\ Part(q, a) \in Int
      BY BalanceFacts
    <3>2. QED
      BY <2>1, <2>2, <2>3, <2>4, <3>1
  <2>6. b4 = b
    BY <2>4, <2>5
  <2>7. QED
    BY <2>6 DEF b1, b2, b3, b4
<1>3. Increase(Decrease(Decrease(Increase(b, p), q), p), q) = b
  <2> DEFINE b1 == Increase(b, p)
             b2 == Decrease(b1, q)
             b3 == Decrease(b2, p)
             b4 == Increase(b3, q)
  <2>1. b1 \in [Addresses -> Int] /\ \A a \in Addresses : b1[a] = b[a] + Part(p, a)
    BY BalanceFacts
  <2> HIDE DEF b1
  <2>2. b2 \in [Addresses -> Int] /\ \A a \in Addresses : b2[a] = b1[a] - Part(q, a)
    BY <2>1, BalanceFacts
  <2> HIDE DEF b2
  <2>3. b3 \in [Addresses -> Int] /\ \A a \in Addresses : b3[a] = b2[a] - Part(p, a)
    BY <2>2, BalanceFacts
  <2> HIDE DEF b3
  <2>4. b4 \in [Addresses -> Int] /\ \A a \in Addresses : b4[a] = b3[a] + Part(q, a)
    BY <2>3, BalanceFacts
  <2> HIDE DEF b4
  <2>5. \A a \in Addresses : b4[a] = b[a]
    <3>1. \A a \in Addresses : Part(p, a) \in Int /\ Part(q, a) \in Int
      BY BalanceFacts
    <3>2. QED
      BY <2>1, <2>2, <2>3, <2>4, <3>1
  <2>6. b4 = b
    BY <2>4, <2>5
  <2>7. QED
    BY <2>6 DEF b1, b2, b3, b4
<1>4. QED
  BY <1>1, <1>2, <1>3

(* How often the list m of the address a is concerned.                      *)
Hit(m, a, l, A) == IF m = l /\ a \in A THEN 1 ELSE 0

(* The list q with k elements more.                                         *)
Pushed(q, r, k) ==
  /\ q \in Seq(Elements)
  /\ r \in Seq(Elements)
  /\ k \in Nat
  /\ Len(r) = Len(q) + k
  /\ \A i \in 1 .. Len(q) : r[i] = q[i]

LEMMA PushedNone ==
  ASSUME NEW q \in Seq(Elements)
  PROVE  Pushed(q, q, 0)
BY DEF Pushed

LEMMA PushedAll ==
  ASSUME NEW q, NEW r, Pushed(q, r, 0)
  PROVE  r = q
<1>1. Len(r) = Len(q) /\ Len(q) \in Nat /\ \A i \in 1 .. Len(q) : r[i] = q[i]
  BY DEF Pushed
<1>2. q \in Seq(Elements) /\ r \in Seq(Elements)
  BY DEF Pushed
<1>3. QED
  BY <1>1, <1>2, SeqEqual

LEMMA LongerPushes ==
  ASSUME NEW L \in Lists, NEW l \in Logs, NEW A, NEW e \in Elements,
         NEW m \in Logs, NEW a \in Addresses, NEW q, NEW k, Pushed(q, L[m][a], k)
  PROVE  /\ Longer(L, l, A, e) \in Lists
         /\ Pushed(q, Longer(L, l, A, e)[m][a], k + Hit(m, a, l, A))
<1>1. Longer(L, l, A, e) \in Lists
  BY DEF Longer, Lists
<1>2. Longer(L, l, A, e)[m][a] = IF m = l /\ a \in A THEN Append(L[m][a], e) ELSE L[m][a]
  BY DEF Longer, Lists
<1>3. CASE m = l /\ a \in A
  <2> DEFINE r == L[m][a]
  <2>1. r \in Seq(Elements) /\ q \in Seq(Elements) /\ k \in Nat /\ Len(r) = Len(q) + k
        /\ \A i \in 1 .. Len(q) : r[i] = q[i]
    BY DEF Pushed
  <2> HIDE DEF r
  <2>2. /\ Append(r, e) \in Seq(Elements)
        /\ Len(Append(r, e)) = Len(r) + 1
        /\ \A i \in 1 .. Len(r) : Append(r, e)[i] = r[i]
    BY <2>1
  <2>3. Pushed(q, Append(r, e), k + 1)
    BY <2>1, <2>2 DEF Pushed
  <2>4. QED
    BY <1>1, <1>2, <1>3, <2>3 DEF Hit, r
<1>4. CASE ~ (m = l /\ a \in A)
  <2>1. k + Hit(m, a, l, A) = k
    BY <1>4 DEF Hit, Pushed
  <2>2. QED
    BY <1>1, <1>2, <1>4, <2>1
<1>5. QED
  BY <1>3, <1>4

LEMMA ShorterPops ==
  ASSUME NEW L \in Lists, NEW l \in Logs, NEW A, NEW m \in Logs, NEW a \in Addresses,
         NEW q, NEW k, NEW j \in Nat, Pushed(q, L[m][a], k), k = j + Hit(m, a, l, A)
  PROVE  /\ Shorter(L, l, A) \in Lists
         /\ Pushed(q, Shorter(L, l, A)[m][a], j)
<1>1. Shorter(L, l, A) \in Lists
  <2>1. \A r \in Seq(Elements) : r # <<>> => SubSeq(r, 1, Len(r) - 1) \in Seq(Elements)
    OBVIOUS
  <2>2. QED
    BY <2>1 DEF Shorter, Lists
<1>2. Shorter(L, l, A)[m][a] = IF m = l /\ a \in A /\ L[m][a] # <<>>
                               THEN SubSeq(L[m][a], 1, Len(L[m][a]) - 1) ELSE L[m][a]
  BY DEF Shorter, Lists
<1>3. CASE m = l /\ a \in A
  <2> DEFINE r == L[m][a]
             f == SubSeq(r, 1, Len(r) - 1)
  <2>1. r \in Seq(Elements) /\ q \in Seq(Elements) /\ k = j + 1 /\ Len(r) = Len(q) + k
        /\ \A i \in 1 .. Len(q) : r[i] = q[i]
    BY <1>3 DEF Pushed, Hit
  <2> HIDE DEF r
  <2>2. Len(r) \in Nat /\ Len(q) \in Nat /\ Len(r) >= 1 /\ r # <<>>
    BY <2>1
  <2>3. /\ f \in Seq(Elements)
        /\ Len(f) = Len(r) - 1
        /\ \A i \in 1 .. Len(r) - 1 : f[i] = r[i]
    BY <2>1, <2>2
  <2> HIDE DEF f
  <2>4. Pushed(q, f, j)
    BY <2>1, <2>2, <2>3 DEF Pushed
  <2>5. QED
    BY <1>1, <1>2, <1>3, <2>2, <2>4 DEF r, f
<1>4. CASE ~ (m = l /\ a \in A)
  <2>1. k = j
    BY <1>4 DEF Hit
  <2>2. QED
    BY <1>1, <1>2, <1>4, <2>1
<1>5. QED
  BY <1>3, <1>4

(* As many elements taken from a list as were put on it, in any order of    *)
(* the logs, give back the list.                                            *)
Matched2(L, R, m, a, l1, A1, e1, k1, B1, l2, A2, e2, k2, B2) ==
  /\ L \in Lists /\ R \in Lists /\ m \in Logs /\ a \in Addresses
  /\ l1 \in Logs /\ e1 \in Elements /\ k1 \in Logs
  /\ l2 \in Logs /\ e2 \in Elements /\ k2 \in Logs
  /\ R[m][a] = Longer(Longer(L, l1, A1, e1), l2, A2, e2)[m][a]
  /\ Hit(m, a, l1, A1) + Hit(m, a, l2, A2)
       = Hit(m, a, k1, B1) + Hit(m, a, k2, B2)

LEMMA Undone2 ==
  ASSUME NEW L, NEW R, NEW m, NEW a,
         NEW l1, NEW A1, NEW e1, NEW k1, NEW B1,
         NEW l2, NEW A2, NEW e2, NEW k2, NEW B2,
         Matched2(L, R, m, a, l1, A1, e1, k1, B1, l2, A2, e2, k2, B2)
  PROVE  /\ Shorter(Shorter(R, k1, B1), k2, B2) \in Lists
         /\ Shorter(Shorter(R, k1, B1), k2, B2)[m][a] = L[m][a]
<1> USE DEF Matched2
<1> DEFINE q == L[m][a]
           L1 == Longer(L, l1, A1, e1)
           L2 == Longer(L1, l2, A2, e2)
           R1 == Shorter(R, k1, B1)
           R2 == Shorter(R1, k2, B2)
           h1 == Hit(m, a, l1, A1)
           g1 == Hit(m, a, k1, B1)
           h2 == Hit(m, a, l2, A2)
           g2 == Hit(m, a, k2, B2)
<1>1. h1 \in Nat /\ g1 \in Nat /\ h2 \in Nat /\ g2 \in Nat
  BY DEF Hit
<1>2. q \in Seq(Elements) /\ Pushed(q, L[m][a], 0)
  BY PushedNone DEF Lists
<1> HIDE DEF q
<1>3. L1 \in Lists /\ Pushed(q, L1[m][a], 0 + h1)
  BY <1>2, LongerPushes
<1> HIDE DEF L1
<1>4. L2 \in Lists /\ Pushed(q, L2[m][a], 0 + h1 + h2)
  BY <1>3, LongerPushes
<1> HIDE DEF L2
<1> HIDE DEF h1, h2, g1, g2
<1>5. 0 + h1 + h2 = g1 + g2
  BY <1>1 DEF h1, g1, h2, g2
<1>6. Pushed(q, R[m][a], g1 + g2)
  BY <1>4, <1>5 DEF L1, L2
<1>7. R1 \in Lists /\ Pushed(q, R1[m][a], g2)
  <2>1. g2 \in Nat /\ g1 + g2 = (g2) + Hit(m, a, k1, B1)
    BY <1>1 DEF g1
  <2>2. QED
    BY <1>6, <2>1, ShorterPops
<1> HIDE DEF R1
<1>8. R2 \in Lists /\ Pushed(q, R2[m][a], 0)
  <2>1. 0 \in Nat /\ g2 = (0) + Hit(m, a, k2, B2)
    BY <1>1 DEF g2
  <2>2. QED
    BY ZenonT(60), <1>7, <2>1, ShorterPops
<1> HIDE DEF R2
<1>9. QED
  BY <1>8, PushedAll DEF q, R1, R2

Matched3(L, R, m, a, l1, A1, e1, k1, B1, l2, A2, e2, k2, B2, l3, A3, e3, k3, B3) ==
  /\ L \in Lists /\ R \in Lists /\ m \in Logs /\ a \in Addresses
  /\ l1 \in Logs /\ e1 \in Elements /\ k1 \in Logs
  /\ l2 \in Logs /\ e2 \in Elements /\ k2 \in Logs
  /\ l3 \in Logs /\ e3 \in Elements /\ k3 \in Logs
  /\ R[m][a] = Longer(Longer(Longer(L, l1, A1, e1), l2, A2, e2), l3, A3, e3)[m][a]
  /\ Hit(m, a, l1, A1) + Hit(m, a, l2, A2) + Hit(m, a, l3, A3)
       = Hit(m, a, k1, B1) + Hit(m, a, k2, B2) + Hit(m, a, k3, B3)

LEMMA Undone3 ==
  ASSUME NEW L, NEW R, NEW m, NEW a,
         NEW l1, NEW A1, NEW e1, NEW k1, NEW B1,
         NEW l2, NEW A2, NEW e2, NEW k2, NEW B2,
         NEW l3, NEW A3, NEW e3, NEW k3, NEW B3,
         Matched3(L, R, m, a, l1, A1, e1, k1, B1, l2, A2, e2, k2, B2, l3, A3, e3, k3, B3)
  PROVE  /\ Shorter(Shorter(Shorter(R, k1, B1), k2, B2), k3, B3) \in Lists
         /\ Shorter(Shorter(Shorter(R, k1, B1), k2, B2), k3, B3)[m][a] = L[m][a]
<1> USE DEF Matched3
<1> DEFINE q == L[m][a]
           L1 == Longer(L, l1, A1, e1)
           L2 == Longer(L1, l2, A2, e2)
           L3 == Longer(L2, l3, A3, e3)
           R1 == Shorter(R, k1, B1)
           R2 == Shorter(R1, k2, B2)
           R3 == Shorter(R2, k3, B3)
           h1 == Hit(m, a, l1, A1)
           g1 == Hit(m, a, k1, B1)
           h2 == Hit(m, a, l2, A2)
           g2 == Hit(m, a, k2, B2)
           h3 == Hit(m, a, l3, A3)
           g3 == Hit(m, a, k3, B3)
<1>1. h1 \in Nat /\ g1 \in Nat /\ h2 \in Nat /\ g2 \in Nat /\ h3 \in Nat /\ g3 \in Nat
  BY DEF Hit
<1>2. q \in Seq(Elements) /\ Pushed(q, L[m][a], 0)
  BY PushedNone DEF Lists
<1> HIDE DEF q
<1>3. L1 \in Lists /\ Pushed(q, L1[m][a], 0 + h1)
  BY <1>2, LongerPushes
<1> HIDE DEF L1
<1>4. L2 \in Lists /\ Pushed(q, L2[m][a], 0 + h1 + h2)
  BY <1>3, LongerPushes
<1> HIDE DEF L2
<1>5. L3 \in Lists /\ Pushed(q, L3[m][a], 0 + h1 + h2 + h3)
  BY <1>4, LongerPushes
<1> HIDE DEF L3
<1> HIDE DEF h1, h2, h3, g1, g2, g3
<1>6. 0 + h1 + h2 + h3 = g1 + g2 + g3
  BY <1>1 DEF h1, g1, h2, g2, h3, g3
<1>7. Pushed(q, R[m][a], g1 + g2 + g3)
  BY <1>5, <1>6 DEF L1, L2, L3
<1>8. R1 \in Lists /\ Pushed(q, R1[m][a], g2 + g3)
  <2>1. g2 + g3 \in Nat /\ g1 + g2 + g3 = (g2 + g3) + Hit(m, a, k1, B1)
    BY <1>1 DEF g1
  <2>2. QED
    BY <1>7, <2>1, ShorterPops
<1> HIDE DEF R1
<1>9. R2 \in Lists /\ Pushed(q, R2[m][a], g3)
  <2>1. g3 \in Nat /\ g2 + g3 = (g3) + Hit(m, a, k2, B2)
    BY <1>1 DEF g2
  <2>2. QED
    BY <1>8, <2>1, ShorterPops
<1> HIDE DEF R2
<1>10. R3 \in Lists /\ Pushed(q, R3[m][a], 0)
  <2>1. 0 \in Nat /\ g3 = (0) + Hit(m, a, k3, B3)
    BY <1>1 DEF g3
  <2>2. QED
    BY <1>9, <2>1, ShorterPops
<1> HIDE DEF R3
<1>11. QED
  BY <1>10, PushedAll DEF q, R1, R2, R3

Matched4(L, R, m, a, l1, A1, e1, k1, B1, l2, A2, e2, k2, B2,
         l3, A3, e3, k3, B3, l4, A4, e4, k4, B4) ==
  /\ L \in Lists /\ R \in Lists /\ m \in Logs /\ a \in Addresses
  /\ l1 \in Logs /\ e1 \in Elements /\ k1 \in Logs
  /\ l2 \in Logs /\ e2 \in Elements /\ k2 \in Logs
  /\ l3 \in Logs /\ e3 \in Elements /\ k3 \in Logs
  /\ l4 \in Logs /\ e4 \in Elements /\ k4 \in Logs
  /\ R[m][a] = Longer(Longer(Longer(Longer(L, l1, A1, e1), l2, A2, e2),
                      l3, A3, e3), l4, A4, e4)[m][a]
  /\ Hit(m, a, l1, A1) + Hit(m, a, l2, A2) + Hit(m, a, l3, A3) + Hit(m, a, l4, A4)
       = Hit(m, a, k1, B1) + Hit(m, a, k2, B2) + Hit(m, a, k3, B3) + Hit(m, a, k4, B4)

LEMMA Undone4 ==
  ASSUME NEW L, NEW R, NEW m, NEW a,
         NEW l1, NEW A1, NEW e1, NEW k1, NEW B1,
         NEW l2, NEW A2, NEW e2, NEW k2, NEW B2,
         NEW l3, NEW A3, NEW e3, NEW k3, NEW B3,
         NEW l4, NEW A4, NEW e4, NEW k4, NEW B4,
         Matched4(L, R, m, a, l1, A1, e1, k1, B1, l2, A2, e2, k2, B2,
                  l3, A3, e3, k3, B3, l4, A4, e4, k4, B4)
  PROVE  /\ Shorter(Shorter(Shorter(Shorter(R, k1, B1), k2, B2), k3, B3), k4, B4) \in Lists
         /\ Shorter(Shorter(Shorter(Shorter(R, k1, B1), k2, B2), k3, B3), k4, B4)[m][a] = L[m][a]
<1> USE DEF Matched4
<1> DEFINE q == L[m][a]
           L1 == Longer(L, l1, A1, e1)
           L2 == Longer(L1, l2, A2, e2)
           L3 == Longer(L2, l3, A3, e3)
           L4 == Longer(L3, l4, A4, e4)
           R1 == Shorter(R, k1, B1)
           R2 == Shorter(R1, k2, B2)
           R3 == Shorter(R2, k3, B3)
           R4 == Shorter(R3, k4, B4)
           h1 == Hit(m, a, l1, A1)
           g1 == Hit(m, a, k1, B1)
           h2 == Hit(m, a, l2, A2)
           g2 == Hit(m, a, k2, B2)
           h3 == Hit(m, a, l3, A3)
           g3 == Hit(m, a, k3, B3)
           h4 == Hit(m, a, l4, A4)
           g4 == Hit(m, a, k4, B4)
<1>1. /\ h1 \in Nat /\ h2 \in Nat /\ h3 \in Nat /\ h4 \in Nat
      /\ g1 \in Nat /\ g2 \in Nat /\ g3 \in Nat /\ g4 \in Nat
  BY DEF Hit
<1>2. q \in Seq(Elements) /\ Pushed(q, L[m][a], 0)
  BY PushedNone DEF Lists
<1> HIDE DEF q
<1>3. L1 \in Lists /\ Pushed(q, L1[m][a], 0 + h1)
  BY <1>2, LongerPushes
<1> HIDE DEF L1
<1>4. L2 \in Lists /\ Pushed(q, L2[m][a], 0 + h1 + h2)
  BY <1>3, LongerPushes
<1> HIDE DEF L2
<1>5. L3 \in Lists /\ Pushed(q, L3[m][a], 0 + h1 + h2 + h3)
  BY <1>4, LongerPushes
<1> HIDE DEF L3
<1>6. L4 \in Lists /\ Pushed(q, L4[m][a], 0 + h1 + h2 + h3 + h4)
  BY <1>5, LongerPushes
<1> HIDE DEF L4
<1> HIDE DEF h1, h2, h3, h4, g1, g2, g3, g4
<1>7. 0 + h1 + h2 + h3 + h4 = g1 + g2 + g3 + g4
  BY <1>1 DEF h1, g1, h2, g2, h3, g3, h4, g4
<1>8. Pushed(q, R[m][a], g1 + g2 + g3 + g4)
  BY <1>6, <1>7 DEF L1, L2, L3, L4
<1>9. R1 \in Lists /\ Pushed(q, R1[m][a], g2 + g3 + g4)
  <2>1. g2 + g3 + g4 \in Nat /\ g1 + g2 + g3 + g4 = (g2 + g3 + g4) + Hit(m, a, k1, B1)
    BY <1>1 DEF g1
  <2>2. QED
    BY <1>8, <2>1, ShorterPops
<1> HIDE DEF R1
<1>10. R2 \in Lists /\ Pushed(q, R2[m][a], g3 + g4)
  <2>1. g3 + g4 \in Nat /\ g2 + g3 + g4 = (g3 + g4) + Hit(m, a, k2, B2)
    BY <1>1 DEF g2
  <2>2. QED
    BY <1>9, <2>1, ShorterPops
<1> HIDE DEF R2
<1>11. R3 \in Lists /\ Pushed(q, R3[m][a], g4)
  <2>1. g4 \in Nat /\ g3 + g4 = (g4) + Hit(m, a, k3, B3)
    BY <1>1 DEF g3
  <2>2. QED
    BY <1>10, <2>1, ShorterPops
<1> HIDE DEF R3
<1>12. R4 \in Lists /\ Pushed(q, R4[m][a], 0)
  <2>1. 0 \in Nat /\ g4 = (0) + Hit(m, a, k4, B4)
    BY <1>1 DEF g4
  <2>2. QED
    BY <1>11, <2>1, ShorterPops
<1> HIDE DEF R4
<1>13. QED
  BY <1>12, PushedAll DEF q, R1, R2, R3, R4

-----------------------------------------------------------------------------
(* One-time keys                                                            *)

LEMMA PageSize == KeysPerPage \in Nat \ {0}
<1>1. PICK bytes \in 1 .. KeysPerPage : KeysPerPage = bytes * KeysPerByte
  BY PageAssumption
<1>2. bytes \in Nat \ {0}
  OBVIOUS
<1>3. KeysPerByte \in Nat \ {0}
  BY PageAssumption
<1>4. \A i, j \in Nat \ {0} : i * j \in Nat \ {0}
  OBVIOUS
<1>5. QED
  BY <1>1, <1>2, <1>3, <1>4

(* The page of a key is the one that holds it.                              *)
LEMMA PageFacts ==
  ASSUME NEW n \in Nat, NEW k \in 0 .. n - 1
  PROVE  /\ Page(k) \in 1 .. Pages(n)
         /\ Pages(n) \in Nat
         /\ \A q \in Nat \ {0} : k \in KeysOf(q, n) <=> Page(k) = q
<1>1. KeysPerPage \in Nat \ {0}
  BY PageSize
<1>2. /\ k \div KeysPerPage \in Nat
      /\ (k \div KeysPerPage) * KeysPerPage <= k
      /\ k < (k \div KeysPerPage) * KeysPerPage + KeysPerPage
  BY <1>1
<1>3. /\ (n + KeysPerPage - 1) \div KeysPerPage \in Nat
      /\ n + KeysPerPage - 1 < ((n + KeysPerPage - 1) \div KeysPerPage) * KeysPerPage + KeysPerPage
  BY <1>1
<1> DEFINE d == k \div KeysPerPage
           e == (n + KeysPerPage - 1) \div KeysPerPage
<1> HIDE DEF d, e
<1>4. /\ d \in Nat /\ e \in Nat
      /\ d * KeysPerPage <= k /\ k < d * KeysPerPage + KeysPerPage
      /\ n <= e * KeysPerPage
  BY <1>1, <1>2, <1>3 DEF d, e
<1>5. \A i, j \in Nat : i * KeysPerPage < j * KeysPerPage => i < j
  <2>1. \A i, j \in Nat : j <= i => j * KeysPerPage <= i * KeysPerPage
    BY <1>1
  <2>2. \A i \in Nat : i * KeysPerPage \in Nat
    BY <1>1
  <2>3. QED
    BY <2>1, <2>2
<1>6. d < e
  <2>1. d * KeysPerPage < e * KeysPerPage
    <3>1. d * KeysPerPage \in Nat /\ e * KeysPerPage \in Nat
      BY <1>1, <1>4
    <3>2. QED
      BY <1>4, <3>1
  <2>2. QED
    BY <1>4, <1>5, <2>1
<1>7. ASSUME NEW q \in Nat \ {0}
      PROVE  k \in KeysOf(q, n) <=> d + 1 = q
  <2>1. k \in KeysOf(q, n) <=> (q - 1) * KeysPerPage <= k /\ k <= q * KeysPerPage - 1
    BY <1>1 DEF KeysOf
  <2> DEFINE i == q - 1
  <2>2. i \in Nat /\ q = i + 1 /\ q * KeysPerPage = i * KeysPerPage + KeysPerPage
    BY <1>1
  <2> HIDE DEF i
  <2>3. /\ i * KeysPerPage \in Nat /\ d * KeysPerPage \in Nat
        /\ (d + 1) * KeysPerPage = d * KeysPerPage + KeysPerPage
        /\ (i + 1) * KeysPerPage = i * KeysPerPage + KeysPerPage
    BY <1>1, <1>4, <2>2
  <2>4. q - 1 = i
    BY <2>2
  <2>5. k \in KeysOf(q, n) <=> i * KeysPerPage <= k /\ k < i * KeysPerPage + KeysPerPage
    BY <1>1, <2>1, <2>2, <2>3, <2>4
  <2>6. ASSUME i * KeysPerPage <= k, k < i * KeysPerPage + KeysPerPage
        PROVE  i = d
    <3>1. i * KeysPerPage < (d + 1) * KeysPerPage /\ d * KeysPerPage < (i + 1) * KeysPerPage
      BY <1>1, <1>4, <2>3, <2>6
    <3>2. i < d + 1 /\ d < i + 1
      BY <1>4, <1>5, <2>2, <3>1
    <3>3. QED
      BY <1>4, <2>2, <3>2
  <2>7. QED
    BY <1>4, <2>2, <2>5, <2>6
<1>8. QED
  BY <1>4, <1>6, <1>7 DEF Page, Pages, d, e

(* What the code keeps of an address's n keys: the pages up to full have no *)
(* free key, and the next page has one.                                     *)
GoodKeys(b, n) ==
  /\ b \in KeyStates
  /\ b.full \in 0 .. Pages(n)
  /\ \A k \in 0 .. n - 1 : Page(k) <= b.full => k \in b.bits
  /\ b.full < Pages(n) => \E k \in 0 .. n - 1 : Page(k) = b.full + 1 /\ k \notin b.bits

LEMMA PagesType ==
  ASSUME NEW n \in Nat
  PROVE  Pages(n) \in Nat
<1>1. KeysPerPage \in Nat \ {0}
  BY PageSize
<1>2. (n + KeysPerPage - 1) \div KeysPerPage \in Nat
  BY <1>1
<1>3. QED
  BY <1>2 DEF Pages

(* The page counter after the key k was set.                                *)
LEMMA UsedPageFacts ==
  ASSUME NEW n \in Nat, NEW k \in 0 .. n - 1, NEW b, b \in KeyStates,
         b.full = Page(k) - 1
  PROVE  LET p == Page(k)
             u == UsedPage(b, p, n)
         IN  /\ u \in p - 1 .. Pages(n)
             /\ \A q \in p .. u : KeysOf(q, n) \subseteq b.bits
             /\ u < Pages(n) => \E i \in KeysOf(u + 1, n) : i \notin b.bits
<1> DEFINE p == Page(k)
           M == {p - 1} \cup {m \in p .. Pages(n) : \A q \in p .. m : KeysOf(q, n) \subseteq b.bits}
<1>1. p \in 1 .. Pages(n) /\ Pages(n) \in Nat
  BY PageFacts
<1>2. UsedPage(b, p, n) = Max(M)
  BY <1>1 DEF UsedPage
<1> HIDE DEF p
<1>3. M \subseteq Nat /\ M # {} /\ \A i \in M : i <= Pages(n) /\ p - 1 <= i
  BY <1>1
<1>4. PICK x \in M : \A j \in M : j <= x
  <2> HIDE DEF M
  <2>1. QED
    BY <1>1, <1>3, Greatest
<1> DEFINE u == Max(M)
<1>5. u \in M /\ \A j \in M : j <= u
  <2>1. \E y \in M : \A j \in M : y >= j
    <3> HIDE DEF M
    <3>1. QED
      BY <1>3, <1>4
  <2> HIDE DEF M
  <2>2. u \in M /\ \A j \in M : u >= j
    BY <2>1, Zenon DEF Max
  <2>3. QED
    BY <1>3, <2>2
<1>6. u \in Nat /\ u <= Pages(n) /\ p - 1 <= u
  <2> HIDE DEF M, u
  <2>1. QED
    BY <1>3, <1>5
<1> HIDE DEF u
<1>7. \A q \in p .. u : KeysOf(q, n) \subseteq b.bits
  BY <1>1, <1>5, <1>6
<1>8. ASSUME u < Pages(n)
      PROVE  \E i \in KeysOf(u + 1, n) : i \notin b.bits
  <2>1. u + 1 \notin M
    <3>1. ASSUME u + 1 \in M
          PROVE  FALSE
      <4>1. u + 1 <= u
        BY <1>5, <3>1
      <4>2. QED
        BY <1>6, <4>1
    <3>2. QED
      BY <3>1
  <2>2. u + 1 \in p .. Pages(n)
    BY <1>1, <1>6, <1>8
  <2>3. PICK q \in p .. u + 1 : ~ (KeysOf(q, n) \subseteq b.bits)
    BY <2>1, <2>2
  <2>4. q = u + 1
    BY <1>1, <1>6, <1>7, <2>3
  <2>5. QED
    BY <2>3, <2>4
<1>9. QED
  BY <1>1, <1>2, <1>6, <1>7, <1>8 DEF u, p

IsKeys(b) == DOMAIN b = {"bits", "count", "full"} /\ b = [f \in DOMAIN b |-> b[f]]

LEMMA SameKeyStates ==
  ASSUME NEW b, NEW c, IsKeys(b), IsKeys(c),
         c.bits = b.bits, c.count = b.count, c.full = b.full
  PROVE  c = b
BY DEF IsKeys

(* The bit and the count of the key k, before the page counter follows.     *)
Marked(b, k) == [b EXCEPT !.bits = @ \cup {k}, !.count = @ + 1]

LEMMA SetKeyFields ==
  ASSUME NEW b, IsKeys(b), NEW k, NEW n
  PROVE  LET set == Marked(b, k)
             c == SetKey(b, k, n)
         IN  /\ IsKeys(set) /\ IsKeys(c)
             /\ set.bits = b.bits \cup {k} /\ set.count = b.count + 1 /\ set.full = b.full
             /\ c.bits = b.bits \cup {k} /\ c.count = b.count + 1
             /\ c.full = UsedPage(set, Page(k), n)
<1> DEFINE set == Marked(b, k)
           f == UsedPage(set, Page(k), n)
           c == [set EXCEPT !.full = f]
<1>1. /\ IsKeys(set)
      /\ set.bits = b.bits \cup {k} /\ set.count = b.count + 1 /\ set.full = b.full
  BY DEF IsKeys, Marked
<1>2. SetKey(b, k, n) = c
  BY DEF SetKey, Marked
<1> HIDE DEF set, f
<1>3. IsKeys(c) /\ c.bits = set.bits /\ c.count = set.count /\ c.full = f
  BY <1>1 DEF IsKeys
<1>4. QED
  BY <1>1, <1>2, <1>3 DEF f, set

LEMMA UnsetKeyFields ==
  ASSUME NEW b, IsKeys(b), NEW k
  PROVE  LET c == UnsetKey(b, k)
         IN  /\ IsKeys(c)
             /\ c.bits = b.bits \ {k} /\ c.count = b.count - 1
             /\ c.full = IF b.full >= Page(k) THEN Page(k) - 1 ELSE b.full
<1> DEFINE f == IF b.full >= Page(k) THEN Page(k) - 1 ELSE b.full
           c == [b EXCEPT !.bits = @ \ {k}, !.count = @ - 1, !.full = f]
<1>1. UnsetKey(b, k) = c
  BY DEF UnsetKey
<1> HIDE DEF f
<1>2. IsKeys(c) /\ c.bits = b.bits \ {k} /\ c.count = b.count - 1 /\ c.full = f
  BY DEF IsKeys
<1>3. QED
  BY <1>1, <1>2 DEF f

(* Setting a free key keeps the pages right, and unsetting it gives back    *)
(* what was there.                                                          *)
LEMMA KeyFacts ==
  ASSUME NEW n \in Nat, NEW k \in 0 .. n - 1, NEW b, GoodKeys(b, n), k \notin b.bits
  PROVE  LET c == SetKey(b, k, n)
         IN  /\ GoodKeys(c, n)
             /\ c.bits = b.bits \cup {k}
             /\ c.count = b.count + 1
             /\ UnsetKey(c, k) = b
<1> DEFINE p == Page(k)
           set == Marked(b, k)
           f == UsedPage(set, p, n)
           c == SetKey(b, k, n)
<1>1. /\ IsKeys(b)
      /\ b.bits \in SUBSET Nat /\ b.count \in Int /\ b.full \in 0 .. Pages(n)
  BY DEF GoodKeys, KeyStates, IsKeys
<1>2. /\ IsKeys(set) /\ IsKeys(c)
      /\ set.bits = b.bits \cup {k} /\ set.count = b.count + 1 /\ set.full = b.full
      /\ c.bits = b.bits \cup {k} /\ c.count = b.count + 1 /\ c.full = f
  BY <1>1, SetKeyFields
<1> HIDE DEF set, c
<1>3. IsKeys(UnsetKey(c, k)) /\ UnsetKey(c, k).bits = c.bits \ {k}
      /\ UnsetKey(c, k).count = c.count - 1
      /\ UnsetKey(c, k).full = IF c.full >= p THEN p - 1 ELSE c.full
  BY <1>2, UnsetKeyFields
<1>9. UnsetKey(c, k).bits = b.bits /\ UnsetKey(c, k).count = b.count
  BY <1>1, <1>2, <1>3
<1>10. set \in KeyStates
  <2>1. set = [bits |-> set.bits, count |-> set.count, full |-> set.full]
    BY <1>2 DEF IsKeys
  <2>2. QED
    BY <1>1, <1>2, <2>1, PagesType DEF KeyStates
<1>11. ASSUME f \in Int
       PROVE  c \in KeyStates
  <2>1. c = [bits |-> c.bits, count |-> c.count, full |-> c.full]
    BY <1>2 DEF IsKeys
  <2>2. QED
    BY <1>1, <1>2, <1>11, <2>1 DEF KeyStates
<1>4. p \in 1 .. Pages(n) /\ Pages(n) \in Nat
  BY PageFacts
<1>5. b.full < p
  BY <1>1, <1>4 DEF GoodKeys
<1>6. CASE b.full # p - 1
  <2>1. f = b.full
    BY <1>2, <1>6 DEF UsedPage
  <2> HIDE DEF f
  <2>2. c \in KeyStates /\ c.full = b.full /\ c.bits = b.bits \cup {k}
    BY <1>1, <1>2, <1>11, <2>1
  <2>3. \A i \in 0 .. n - 1 : Page(i) <= c.full => i \in c.bits
    BY <2>2 DEF GoodKeys
  <2>4. ASSUME c.full < Pages(n)
        PROVE  \E i \in 0 .. n - 1 : Page(i) = c.full + 1 /\ i \notin c.bits
    <3>1. PICK i \in 0 .. n - 1 : Page(i) = b.full + 1 /\ i \notin b.bits
      BY <2>2, <2>4 DEF GoodKeys
    <3>2. i # k
      BY <1>1, <1>4, <1>6, <3>1
    <3>3. QED
      BY <2>2, <3>1, <3>2
  <2>5. GoodKeys(c, n)
    BY <1>1, <2>2, <2>3, <2>4 DEF GoodKeys
  <2>6. UnsetKey(c, k).full = b.full
    BY <1>1, <1>3, <1>4, <1>5, <2>2
  <2>7. UnsetKey(c, k) = b
    BY <1>1, <1>3, <1>9, <2>6, SameKeyStates
  <2>8. QED
    BY <1>2, <2>5, <2>7 DEF c
<1>7. CASE b.full = p - 1
  <2>1. /\ f \in p - 1 .. Pages(n)
        /\ \A q \in p .. f : KeysOf(q, n) \subseteq set.bits
        /\ f < Pages(n) => \E i \in KeysOf(f + 1, n) : i \notin set.bits
    <3>1. set.full = Page(k) - 1
      BY <1>2, <1>7
    <3>2. QED
      BY <1>10, <3>1, UsedPageFacts
  <2> HIDE DEF f
  <2>2. c \in KeyStates /\ c.full = f /\ c.bits = b.bits \cup {k} /\ c.full \in 0 .. Pages(n)
    BY <1>2, <1>4, <1>11, <2>1
  <2>3. ASSUME NEW i \in 0 .. n - 1, Page(i) <= c.full
        PROVE  i \in c.bits
    <3>1. Page(i) \in 1 .. Pages(n) /\ i \in KeysOf(Page(i), n)
      BY PageFacts
    <3>2. CASE Page(i) <= b.full
      BY <2>2, <3>2 DEF GoodKeys
    <3>3. CASE Page(i) > b.full
      <4>1. Page(i) \in p .. f
        BY <1>1, <1>4, <1>7, <2>1, <2>2, <2>3, <3>1, <3>3
      <4>2. QED
        BY <1>2, <2>1, <2>2, <3>1, <4>1
    <3>4. QED
      BY <1>1, <3>1, <3>2, <3>3
  <2>4. ASSUME c.full < Pages(n)
        PROVE  \E i \in 0 .. n - 1 : Page(i) = c.full + 1 /\ i \notin c.bits
    <3>1. PICK i \in KeysOf(f + 1, n) : i \notin set.bits
      BY <2>1, <2>2, <2>4
    <3>2. f + 1 \in Nat \ {0} /\ (f + 1) - 1 = f
      BY <1>4, <2>1
    <3>3. i \in 0 .. n - 1
      <4>1. KeysPerPage \in Nat \ {0} /\ f \in Nat
        BY <1>4, <2>1, PageSize
      <4>2. f * KeysPerPage \in Nat
        BY <4>1
      <4>3. i \in Int /\ i >= f * KeysPerPage /\ i < n
        BY <3>1, <3>2, <4>1, <4>2 DEF KeysOf
      <4>4. QED
        BY <4>2, <4>3
    <3>4. Page(i) = f + 1
      BY <3>1, <3>2, <3>3, PageFacts
    <3>5. QED
      BY <1>2, <2>2, <3>1, <3>3, <3>4
  <2>5. GoodKeys(c, n)
    BY <2>2, <2>3, <2>4 DEF GoodKeys
  <2>6. UnsetKey(c, k).full = b.full
    BY <1>1, <1>3, <1>4, <1>7, <2>1, <2>2
  <2>7. UnsetKey(c, k) = b
    BY <1>1, <1>3, <1>9, <2>6, SameKeyStates
  <2>8. QED
    BY <1>2, <2>5, <2>7 DEF c
<1>8. QED
  BY <1>6, <1>7

-----------------------------------------------------------------------------
(* States                                                                   *)

IsShape(s) ==
  /\ IsState(s)
  /\ s.balance \in [Addresses -> Int]
  /\ s.nonce \in [Accounts \cup {Mint} -> Int]
  /\ s.keys \in [Accounts -> KeyStates]
  /\ s.log \in Lists
  /\ s.slaves \subseteq Accounts \X Accounts \X {0, 1}
  /\ s.lattice \subseteq {<<Tx[t].from, Tx[t].keys>> : t \in OfKind("lattice")}
  /\ s.tokens \in [Accounts -> [Tokens -> TokenStates]]
  /\ s.wallets \subseteq Wallets
  /\ s.votes \in [Spends -> VoteStates]
  /\ s.raised \in BOOLEAN

(* Transactions other than a block's coinbase.                              *)
Ordinary == Txs \ OfKind("coinbase")

(* A state that holds nothing of a transaction yet.                         *)
Untouched(s, t) ==
  /\ t \in Creations => Tx[t].wallet \notin s.wallets
  /\ t \in Spends => s.votes[t] = NoVotes
  /\ t \in Tokens => \A a \in Accounts : s.tokens[a][t] = NoToken
  /\ \A a \in Accounts, k \in Tokens : s.tokens[a][k].origin # t

KeyUnused(s, t) == Tx[t].key \notin s.keys[Signer(t)].bits

(* What undoing a block relies on: a transaction whose key is not used left *)
(* no trace, a wallet is there when its creation was applied and holds      *)
(* nothing before, and a spend goes from such a wallet to such wallets.     *)
Good(s) ==
  /\ IsShape(s)
  /\ \A a \in Accounts : GoodKeys(s.keys[a], KeyCount[a])
  /\ \A t \in Ordinary : KeyUnused(s, t) => Untouched(s, t)
  /\ \A w \in Wallets \ s.wallets : s.balance[w] = 0
  /\ \A w \in s.wallets : \E c \in Creations : Tx[c].wallet = w
  /\ \A p \in Spends : s.votes[p].live => /\ Tx[p].wallet \in s.wallets
                                          /\ Payees(p) \cap Wallets \subseteq s.wallets

(* A removed wallet's page still lists its transactions; nobody sees it.    *)
Shown(W, m, a) == ~ (m = "tx" /\ a \in Wallets \ W)

(* Equal for everyone who looks.                                            *)
Same(r, s) ==
  /\ r.balance = s.balance
  /\ SameKeys(r, s)
  /\ SameRest(r, s)
  /\ \A m \in Logs, a \in Addresses : Shown(s.wallets, m, a) => r.log[m][a] = s.log[m][a]

LEMMA SameIsEquivalence ==
  ASSUME NEW r, NEW s, NEW u, Same(r, s)
  PROVE  Same(s, r) /\ (Same(s, u) => Same(r, u))
<1>1. r.wallets = s.wallets
  BY DEF Same, SameRest
<1>2. Same(s, r)
  BY <1>1 DEF Same, SameRest, SameKeys
<1>3. ASSUME Same(s, u)
      PROVE  Same(r, u)
  BY <1>1, <1>3 DEF Same, SameRest, SameKeys
<1>4. QED
  BY <1>2, <1>3

LEMMA SameIsGood ==
  ASSUME NEW r, NEW s, Same(r, s), Good(s), IsShape(r)
  PROVE  Good(r)
BY DEF Good, Same, SameRest, SameKeys, KeyUnused, Untouched

LEMMA TxFacts ==
  ASSUME NEW t \in Ordinary
  PROVE  /\ t \in Txs /\ t \in Elements
         /\ From(t) \in Accounts /\ Signer(t) \in Accounts
         /\ From(t) \in Addresses /\ Signer(t) \in Addresses
         /\ Tx[t].fee \in Nat
         /\ KeyCount[Signer(t)] \in Nat \ {0}
         /\ Tx[t].key \in 0 .. KeyCount[Signer(t)] - 1
         /\ Amounts(Fee(t))
BY TxAssumption, ChainAssumption, CoinsFacts DEF Ordinary, From, Signer, Fee, Addresses, Elements

LEMMA AddressesFinite == IsFiniteSet(Addresses) /\ IsFiniteSet(Accounts) /\ IsFiniteSet(Wallets)
<1>1. IsFiniteSet(Accounts \cup Wallets)
  BY AddressAssumption, FS_Union
<1>2. IsFiniteSet({Mint})
  BY FS_Singleton
<1>3. IsFiniteSet((Accounts \cup Wallets) \cup {Mint})
  BY <1>1, <1>2, FS_Union
<1>4. QED
  BY <1>3, AddressAssumption DEF Addresses

(* What a transaction pays.                                                 *)
LEMMA PaysFacts ==
  ASSUME NEW t \in OfKind("transfer") \cup Spends \cup Tokens \cup OfKind("transfer_token")
  PROVE  /\ Tx[t].pays \in [Payees(t) -> Nat \ {0}]
         /\ Payees(t) \subseteq Addresses
         /\ IsFiniteSet(Payees(t))
         /\ Amounts(Tx[t].pays)
         /\ SumOf(Tx[t].pays) \in Nat
<1>1. Tx[t].pays \in [Payees(t) -> Nat \ {0}] /\ Payees(t) \subseteq Addresses
  BY FormAssumption DEF Addresses
<1>2. IsFiniteSet(Payees(t))
  BY <1>1, AddressesFinite, FS_Subset
<1>3. Tx[t].pays \in [Payees(t) -> Nat]
  BY <1>1
<1>4. SumFunction(Tx[t].pays) \in Nat
  <2> HIDE DEF Payees
  <2>1. QED
    BY <1>2, <1>3, SumOfNaturals
<1>5. Amounts(Tx[t].pays)
  BY <1>1 DEF Amounts, Payees
<1>6. QED
  BY <1>1, <1>2, <1>4, <1>5 DEF SumOf

(* The nonce and the key of a transaction that is taken back.               *)
LEMMA SignatureUndone ==
  ASSUME NEW s, Good(s), NEW t \in Ordinary, KeyUnused(s, t),
         NEW u, Signed(u, s, t), NEW r, SameKeys(r, u), NEW v, Unsigned(v, r, t)
  PROVE  SameKeys(v, s)
<1> DEFINE a == Signer(t)
           c == SetKey(s.keys[a], Tx[t].key, KeyCount[a])
<1>1. /\ a \in Accounts
      /\ s.nonce \in [Accounts \cup {Mint} -> Int]
      /\ s.keys \in [Accounts -> KeyStates]
      /\ UnsetKey(c, Tx[t].key) = s.keys[a]
  BY TxFacts, KeyFacts DEF Good, IsShape, KeyUnused
<1>2. /\ r.nonce = [s.nonce EXCEPT ![a] = @ + 1]
      /\ r.keys = [s.keys EXCEPT ![a] = c]
  BY DEF SameKeys, Signed
<1>3. /\ v.nonce = [r.nonce EXCEPT ![a] = @ - 1]
      /\ v.keys = [r.keys EXCEPT ![a] = UnsetKey(@, Tx[t].key)]
  BY DEF Unsigned
<1> HIDE DEF a, c
<1>4. v.nonce = s.nonce
  <2>1. v.nonce = [s.nonce EXCEPT ![a] = s.nonce[a] + 1 - 1]
    BY <1>1, <1>2, <1>3
  <2>2. QED
    BY <1>1, <2>1
<1>5. v.keys = s.keys
  BY <1>1, <1>2, <1>3
<1>6. QED
  BY <1>4, <1>5 DEF SameKeys

(* Undoing what was done to the token records.                              *)
LEMMA MadeUndone ==
  ASSUME NEW T \in [Accounts -> [Tokens -> TokenStates]], NEW t \in Tokens,
         \A a \in Accounts : T[a][t] = NoToken
  PROVE  Unmade(Made(T, t), t) = T
<1> DEFINE M == Made(T, t)
           U == Unmade(M, t)
<1>1. ASSUME NEW a \in Accounts
      PROVE  U[a] = T[a]
  <2>1. T[a] \in [Tokens -> TokenStates]
    OBVIOUS
  <2>2. CASE a \in Payees(t)
    <3> DEFINE z == [balance |-> Tx[t].pays[a], origin |-> t]
    <3>1. M[a] = [T[a] EXCEPT ![t] = z]
      BY <2>2 DEF Made
    <3> HIDE DEF z, M
    <3>2. U[a] = [M[a] EXCEPT ![t] = NoToken]
      BY <2>2 DEF Unmade
    <3>3. QED
      BY <2>1, <3>1, <3>2
  <2>3. CASE a \notin Payees(t)
    BY <2>3 DEF Made, Unmade
  <2>4. QED
    BY <2>2, <2>3
<1>2. U = [a \in Accounts |-> U[a]]
  BY DEF Unmade
<1> HIDE DEF U
<1>3. U = T
  BY <1>1, <1>2
<1>4. QED
  BY <1>3 DEF U

(* The change of a's balance of the token that t transfers, up to the sign. *)
Moving(t, a) ==
  (IF a \in Payees(t) THEN Tx[t].pays[a] ELSE 0) - (IF a = From(t) THEN SumOf(Tx[t].pays) ELSE 0)

LEMMA MovedFacts ==
  ASSUME NEW T \in [Accounts -> [Tokens -> TokenStates]], NEW t \in OfKind("transfer_token"),
         NEW sign \in {1, -1}, NEW A, NEW o \in Txs \cup {NoTx}
  PROVE  LET k == Tx[t].token
             R == Named(Moved(T, t, sign), k, A, o)
         IN  /\ R \in [Accounts -> [Tokens -> TokenStates]]
             /\ \A a \in Accounts : Moving(t, a) \in Int
             /\ \A a \in Accounts :
                  /\ R[a][k].balance = T[a][k].balance + sign * Moving(t, a)
                  /\ R[a][k].origin = IF a \in A THEN o ELSE T[a][k].origin
             /\ \A a \in Accounts, j \in Tokens : j # k => R[a][j] = T[a][j]
<1> DEFINE k == Tx[t].token
           M == Moved(T, t, sign)
           R == Named(M, k, A, o)
<1>1. k \in Tokens
  BY FormAssumption
<1>2. \A a \in Accounts : a \in Payees(t) => Tx[t].pays[a] \in Int
  BY PaysFacts
<1>3. SumOf(Tx[t].pays) \in Int
  BY PaysFacts
<1> HIDE DEF k
<1>4. ASSUME NEW a \in Accounts
      PROVE  /\ Moving(t, a) \in Int
             /\ R[a] \in [Tokens -> TokenStates]
             /\ R[a][k].balance = T[a][k].balance + sign * Moving(t, a)
             /\ R[a][k].origin = IF a \in A THEN o ELSE T[a][k].origin
             /\ \A j \in Tokens : j # k => R[a][j] = T[a][j]
  <2> DEFINE x == IF a \in Payees(t) THEN Tx[t].pays[a] ELSE 0
             y == IF a = From(t) THEN SumOf(Tx[t].pays) ELSE 0
             xs == IF a \in Payees(t) THEN sign * Tx[t].pays[a] ELSE 0
             ys == IF a = From(t) THEN sign * SumOf(Tx[t].pays) ELSE 0
             f == T[a]
             b == f[k].balance + xs - ys
             g == [f EXCEPT ![k].balance = b]
  <2>1. x \in Int /\ y \in Int /\ xs = sign * x /\ ys = sign * y /\ Moving(t, a) = x - y
    BY <1>2, <1>3 DEF Moving
  <2>2. M[a] = g
    BY DEF Moved, k
  <2>3. f \in [Tokens -> TokenStates] /\ f[k] \in TokenStates /\ f[k].balance \in Int
        /\ f[k].origin \in Txs \cup {NoTx}
    BY <1>1 DEF TokenStates
  <2> HIDE DEF x, y, xs, ys
  <2>4. b = f[k].balance + sign * Moving(t, a) /\ b \in Int /\ Moving(t, a) \in Int
    BY <2>1, <2>3
  <2> HIDE DEF f, b
  <2>5. /\ g \in [Tokens -> TokenStates]
        /\ g[k].balance = b /\ g[k].origin = f[k].origin
        /\ \A j \in Tokens : j # k => g[j] = f[j]
    BY <1>1, <2>3, <2>4 DEF TokenStates
  <2> HIDE DEF g
  <2>6. R[a] = IF a \in A THEN [M[a] EXCEPT ![k].origin = o] ELSE M[a]
    BY DEF Named
  <2> HIDE DEF M
  <2>7. /\ R[a] \in [Tokens -> TokenStates]
        /\ R[a][k].balance = g[k].balance
        /\ R[a][k].origin = IF a \in A THEN o ELSE g[k].origin
        /\ \A j \in Tokens : j # k => R[a][j] = g[j]
    <3>1. CASE a \in A
      <4>1. R[a] = [g EXCEPT ![k].origin = o]
        BY <2>2, <2>6, <3>1
      <4>2. QED
        BY <1>1, <2>5, <3>1, <4>1 DEF TokenStates
    <3>2. CASE a \notin A
      BY <2>2, <2>5, <2>6, <3>2
    <3>3. QED
      BY <3>1, <3>2
  <2>8. QED
    BY <2>4, <2>5, <2>7 DEF f
<1>5. R = [a \in Accounts |-> R[a]]
  BY DEF Named
<1> HIDE DEF R
<1>6. R \in [Accounts -> [Tokens -> TokenStates]]
  BY <1>4, <1>5
<1>7. QED
  BY <1>4, <1>6 DEF R, k

LEMMA SameTokenState ==
  ASSUME NEW x \in TokenStates, NEW y \in TokenStates, x.balance = y.balance, x.origin = y.origin
  PROVE  x = y
BY DEF TokenStates

LEMMA MovedUndone ==
  ASSUME NEW T \in [Accounts -> [Tokens -> TokenStates]], NEW t \in OfKind("transfer_token"),
         NEW A, A = Holding(T, t, NoTx),
         \A a \in Accounts : T[a][Tx[t].token].origin # t
  PROVE  LET k == Tx[t].token
             R == Named(Moved(T, t, 1), k, A, t)
         IN  /\ Holding(R, t, t) = A
             /\ Named(Moved(R, t, -1), k, A, NoTx) = T
<1> DEFINE k == Tx[t].token
           R == Named(Moved(T, t, 1), k, A, t)
           Q == Named(Moved(R, t, -1), k, A, NoTx)
<1>1. k \in Tokens /\ Payees(t) \subseteq Accounts /\ t \in Txs
  BY FormAssumption DEF OfKind
<1> HIDE DEF k
<1>2. /\ R \in [Accounts -> [Tokens -> TokenStates]]
      /\ \A a \in Accounts :
           /\ Moving(t, a) \in Int
           /\ R[a][k].balance = T[a][k].balance + 1 * Moving(t, a)
           /\ R[a][k].origin = IF a \in A THEN t ELSE T[a][k].origin
      /\ \A a \in Accounts, j \in Tokens : j # k => R[a][j] = T[a][j]
  BY <1>1, MovedFacts DEF k
<1> HIDE DEF R
<1>3. /\ Q \in [Accounts -> [Tokens -> TokenStates]]
      /\ \A a \in Accounts :
           /\ Q[a][k].balance = R[a][k].balance + (-1) * Moving(t, a)
           /\ Q[a][k].origin = IF a \in A THEN NoTx ELSE R[a][k].origin
      /\ \A a \in Accounts, j \in Tokens : j # k => Q[a][j] = R[a][j]
  BY <1>1, <1>2, MovedFacts DEF k
<1> HIDE DEF Q
<1>4. ASSUME NEW a \in Accounts, NEW j \in Tokens
      PROVE  Q[a][j] = T[a][j]
  <2>1. CASE j # k
    BY <1>2, <1>3, <2>1
  <2>2. CASE j = k
    <3>1. T[a][k] \in TokenStates /\ Q[a][k] \in TokenStates /\ Moving(t, a) \in Int
      BY <1>1, <1>2, <1>3
    <3>2. Q[a][k].balance = T[a][k].balance
      <4>1. T[a][k].balance \in Int
        BY <3>1 DEF TokenStates
      <4>2. QED
        BY <1>2, <1>3, <3>1, <4>1
    <3>3. a \in A => T[a][k].origin = NoTx
      BY DEF k, Holding
    <3>4. Q[a][k].origin = T[a][k].origin
      BY <1>2, <1>3, <3>3
    <3>5. Q[a][k] = T[a][k]
      BY <3>1, <3>2, <3>4, SameTokenState
    <3>6. QED
      BY <2>2, <3>5
  <2>3. QED
    BY <2>1, <2>2
<1>5. Q = T
  <2>1. \A a \in Accounts : Q[a] = T[a]
    <3>1. \A a \in Accounts : Q[a] \in [Tokens -> TokenStates] /\ T[a] \in [Tokens -> TokenStates]
      BY <1>3
    <3>2. QED
      BY <1>4, <3>1
  <2>2. QED
    BY <1>3, <2>1
<1>6. Holding(R, t, t) = A
  BY <1>1, <1>2 DEF k, Holding
<1>7. QED
  BY <1>5, <1>6 DEF Q, R, k

-----------------------------------------------------------------------------
(* Taking back what was just applied, kind by kind: r is a container that    *)
(* looks like the one the transaction left.                                 *)

LEMMA ShapeAgain ==
  ASSUME NEW s, IsShape(s), NEW v, IsState(v), Same(v, s), v.log \in Lists,
         v.raised \in BOOLEAN
  PROVE  IsShape(v)
BY DEF IsShape, Same, SameKeys, SameRest

LEMMA TransferUndone ==
  ASSUME NEW s, Good(s), NEW t \in OfKind("transfer"), KeyUnused(s, t),
         NEW r, IsShape(r), Same(r, ApplyTransfer(s, t))
  PROVE  LET v == RevertTransfer(r, t) IN Same(v, s) /\ IsShape(v)
<1> DEFINE u == ApplyTransfer(s, t)
           v == RevertTransfer(r, t)
           p == TransferTotal(t)
           q == Tx[t].pays
           A == OthersIn(t, Payees(t))
<1>1. /\ t \in Ordinary
      /\ IsShape(s) /\ IsState(s) /\ IsState(r) /\ s.log \in Lists /\ r.log \in Lists
      /\ s.balance \in [Addresses -> Int]
  BY DEF Good, IsShape, OfKind, Ordinary, Spends, Creations, Tokens
<1>2. /\ Amounts(p) /\ Amounts(q)
  BY <1>1, TxFacts, PaysFacts, CoinsFacts DEF TransferTotal
<1>3. /\ Signed(u, s, t)
      /\ SameRest(u, s)
      /\ u.balance = Increase(Decrease(s.balance, p), q)
      /\ u.log = Longer(Longer(Longer(s.log, "tx", {From(t)}, t), "tx", A, t),
                      "tx", OnlySigner(t), t)
  BY <1>1, TransferApplied
<1>4. /\ IsState(v) /\ Unsigned(v, r, t)
      /\ SameRest(v, r)
      /\ v.balance = Decrease(Increase(r.balance, p), q)
      /\ v.log = Shorter(Shorter(Shorter(r.log, "tx", {From(t)}), "tx", A),
                      "tx", OnlySigner(t))
      /\ v.raised \in BOOLEAN
  BY <1>1, TransferReverted
<1> HIDE DEF u, v
<1>5. /\ r.balance = u.balance /\ SameKeys(r, u)
      /\ r.slaves = u.slaves /\ r.lattice = u.lattice /\ r.tokens = u.tokens
      /\ r.wallets = u.wallets /\ r.votes = u.votes
      /\ \A m \in Logs, a \in Addresses : Shown(u.wallets, m, a) => r.log[m][a] = u.log[m][a]
  BY DEF Same, SameRest, u
<1> HIDE DEF p, q, A
<1>6. v.balance = s.balance
  BY <1>1, <1>2, <1>3, <1>4, <1>5, BalanceUndone
<1>7. SameKeys(v, s)
  BY <1>1, <1>3, <1>4, <1>5, SignatureUndone
<1>8. SameRest(v, s)
  BY <1>3, <1>4, <1>5 DEF SameRest
<1>9. ASSUME NEW m \in Logs, NEW a \in Addresses, Shown(s.wallets, m, a)
      PROVE  v.log \in Lists /\ v.log[m][a] = s.log[m][a]
  <2>1. r.log[m][a] = u.log[m][a]
    BY <1>3, <1>5, <1>9 DEF SameRest
  <2>2. "tx" \in Logs
    BY DEF Logs
  <2>3. t \in Elements
    BY <1>1, <1>2, TxFacts
  <2>4. Matched3(s.log, r.log, m, a,
                 "tx", {From(t)}, t, "tx", {From(t)},
                 "tx", A, t, "tx", A,
                 "tx", OnlySigner(t), t, "tx", OnlySigner(t))
    BY <1>1, <1>3, <2>1, <2>2, <2>3 DEF Matched3
  <2>5. QED
    BY <1>4, <2>4, Undone3
<1>10. v.log \in Lists
  <2>1. "inbox" \in Logs /\ Mint \in Addresses /\ Shown(s.wallets, "inbox", Mint)
    BY DEF Logs, Addresses, Shown
  <2>2. QED
    BY <1>9, <2>1
<1>11. Same(v, s)
  BY <1>6, <1>7, <1>8, <1>9 DEF Same
<1>12. QED
  BY <1>1, <1>4, <1>10, <1>11, ShapeAgain DEF v

LEMMA MessageUndone ==
  ASSUME NEW s, Good(s), NEW t \in OfKind("message"), KeyUnused(s, t),
         NEW r, IsShape(r), Same(r, ApplyMessage(s, t))
  PROVE  LET v == RevertMessage(r, t) IN Same(v, s) /\ IsShape(v)
<1> DEFINE u == ApplyMessage(s, t)
           v == RevertMessage(r, t)
           p == Fee(t)
           A == OthersIn(t, Tx[t].to)
<1>1. /\ t \in Ordinary
      /\ IsShape(s) /\ IsState(s) /\ IsState(r) /\ s.log \in Lists /\ r.log \in Lists
      /\ s.balance \in [Addresses -> Int]
  BY DEF Good, IsShape, OfKind, Ordinary, Spends, Creations, Tokens
<1>2. /\ Amounts(p)
  BY <1>1, TxFacts
<1>3. /\ Signed(u, s, t)
      /\ SameRest(u, s)
      /\ u.balance = Decrease(s.balance, p)
      /\ u.log = Longer(Longer(Longer(Longer(s.log, "tx", {From(t)}, t), "tx", A, t),
                      "inbox", A, t), "tx", OnlySigner(t), t)
  BY <1>1, MessageApplied
<1>4. /\ IsState(v) /\ Unsigned(v, r, t)
      /\ SameRest(v, r)
      /\ v.balance = Increase(r.balance, p)
      /\ v.log = Shorter(Shorter(Shorter(Shorter(r.log, "tx", {From(t)}), "tx", A),
                      "inbox", A), "tx", OnlySigner(t))
      /\ v.raised \in BOOLEAN
  BY <1>1, MessageReverted
<1> HIDE DEF u, v
<1>5. /\ r.balance = u.balance /\ SameKeys(r, u)
      /\ r.slaves = u.slaves /\ r.lattice = u.lattice /\ r.tokens = u.tokens
      /\ r.wallets = u.wallets /\ r.votes = u.votes
      /\ \A m \in Logs, a \in Addresses : Shown(u.wallets, m, a) => r.log[m][a] = u.log[m][a]
  BY DEF Same, SameRest, u
<1> HIDE DEF p, A
<1>6. v.balance = s.balance
  <2>1. v.balance = Increase(Decrease(s.balance, p), p)
    BY <1>3, <1>4, <1>5
  <2>2. QED
    BY <1>1, <1>2, <2>1, BalanceUndone
<1>7. SameKeys(v, s)
  BY <1>1, <1>3, <1>4, <1>5, SignatureUndone
<1>8. SameRest(v, s)
  BY <1>3, <1>4, <1>5 DEF SameRest
<1>9. ASSUME NEW m \in Logs, NEW a \in Addresses, Shown(s.wallets, m, a)
      PROVE  v.log \in Lists /\ v.log[m][a] = s.log[m][a]
  <2>1. r.log[m][a] = u.log[m][a]
    BY <1>3, <1>5, <1>9 DEF SameRest
  <2>2. "inbox" \in Logs /\ "tx" \in Logs
    BY DEF Logs
  <2>3. t \in Elements
    BY <1>1, <1>2, TxFacts
  <2>4. Matched4(s.log, r.log, m, a,
                 "tx", {From(t)}, t, "tx", {From(t)},
                 "tx", A, t, "tx", A,
                 "inbox", A, t, "inbox", A,
                 "tx", OnlySigner(t), t, "tx", OnlySigner(t))
    BY <1>1, <1>3, <2>1, <2>2, <2>3 DEF Matched4
  <2>5. QED
    BY <1>4, <2>4, Undone4
<1>10. v.log \in Lists
  <2>1. "inbox" \in Logs /\ Mint \in Addresses /\ Shown(s.wallets, "inbox", Mint)
    BY DEF Logs, Addresses, Shown
  <2>2. QED
    BY <1>9, <2>1
<1>11. Same(v, s)
  BY <1>6, <1>7, <1>8, <1>9 DEF Same
<1>12. QED
  BY <1>1, <1>4, <1>10, <1>11, ShapeAgain DEF v

LEMMA LatticeUndone ==
  ASSUME NEW s, Good(s), NEW t \in OfKind("lattice"), KeyUnused(s, t),
         ValidLattice(s, t),
         NEW r, IsShape(r), Same(r, ApplyLattice(s, t))
  PROVE  LET v == RevertLattice(r, t) IN Same(v, s) /\ IsShape(v)
<1> DEFINE u == ApplyLattice(s, t)
           v == RevertLattice(r, t)
           p == Fee(t)
           x == <<From(t), Tx[t].keys>>
<1>1. /\ t \in Ordinary
      /\ IsShape(s) /\ IsState(s) /\ IsState(r) /\ s.log \in Lists /\ r.log \in Lists
      /\ s.balance \in [Addresses -> Int]
  BY DEF Good, IsShape, OfKind, Ordinary, Spends, Creations, Tokens
<1>2. /\ Amounts(p)
  BY <1>1, TxFacts
<1>3. /\ Signed(u, s, t)
      /\ u.slaves = s.slaves /\ u.lattice = s.lattice \cup {x}
      /\ u.tokens = s.tokens /\ u.wallets = s.wallets
      /\ u.votes = s.votes
      /\ u.balance = Decrease(s.balance, p)
      /\ u.log = Longer(Longer(Longer(s.log, "tx", {From(t)}, t), "lattice", {From(t)}, t),
                      "tx", OnlySigner(t), t)
  BY ZenonT(60), <1>1, LatticeApplied
<1>4. /\ IsState(v) /\ Unsigned(v, r, t)
      /\ v.slaves = r.slaves /\ v.lattice = r.lattice \ {x}
      /\ v.tokens = r.tokens /\ v.wallets = r.wallets
      /\ v.votes = r.votes
      /\ v.balance = Increase(r.balance, p)
      /\ v.log = Shorter(Shorter(Shorter(r.log, "tx", {From(t)}), "lattice", {From(t)}),
                      "tx", OnlySigner(t))
      /\ v.raised \in BOOLEAN
  BY ZenonT(60), <1>1, LatticeReverted
<1> HIDE DEF u, v
<1>5. /\ r.balance = u.balance /\ SameKeys(r, u)
      /\ r.slaves = u.slaves /\ r.lattice = u.lattice /\ r.tokens = u.tokens
      /\ r.wallets = u.wallets /\ r.votes = u.votes
      /\ \A m \in Logs, a \in Addresses : Shown(u.wallets, m, a) => r.log[m][a] = u.log[m][a]
  BY DEF Same, SameRest, u
<1> HIDE DEF p
<1>6. v.balance = s.balance
  <2>1. v.balance = Increase(Decrease(s.balance, p), p)
    BY <1>3, <1>4, <1>5
  <2>2. QED
    BY <1>1, <1>2, <2>1, BalanceUndone
<1>7. SameKeys(v, s)
  BY <1>1, <1>3, <1>4, <1>5, SignatureUndone
<1>8. SameRest(v, s)
  <2>1. x \notin s.lattice
    BY DEF ValidLattice
  <2>2. v.lattice = s.lattice
    BY <1>3, <1>4, <1>5, <2>1
  <2>3. QED
    BY <1>3, <1>4, <1>5, <2>2 DEF SameRest
<1>9. ASSUME NEW m \in Logs, NEW a \in Addresses, Shown(s.wallets, m, a)
      PROVE  v.log \in Lists /\ v.log[m][a] = s.log[m][a]
  <2>1. r.log[m][a] = u.log[m][a]
    BY <1>3, <1>5, <1>9 DEF SameRest
  <2>2. "lattice" \in Logs /\ "tx" \in Logs
    BY DEF Logs
  <2>3. t \in Elements
    BY <1>1, <1>2, TxFacts
  <2>4. Matched3(s.log, r.log, m, a,
                 "tx", {From(t)}, t, "tx", {From(t)},
                 "lattice", {From(t)}, t, "lattice", {From(t)},
                 "tx", OnlySigner(t), t, "tx", OnlySigner(t))
    BY <1>1, <1>3, <2>1, <2>2, <2>3 DEF Matched3
  <2>5. QED
    BY <1>4, <2>4, Undone3
<1>10. v.log \in Lists
  <2>1. "inbox" \in Logs /\ Mint \in Addresses /\ Shown(s.wallets, "inbox", Mint)
    BY DEF Logs, Addresses, Shown
  <2>2. QED
    BY <1>9, <2>1
<1>11. Same(v, s)
  BY <1>6, <1>7, <1>8, <1>9 DEF Same
<1>12. QED
  BY <1>1, <1>4, <1>10, <1>11, ShapeAgain DEF v

LEMMA SlaveUndone ==
  ASSUME NEW s, Good(s), NEW t \in OfKind("slave"), KeyUnused(s, t),
         ValidSlave(s, t),
         NEW r, IsShape(r), Same(r, ApplySlave(s, t))
  PROVE  LET v == RevertSlave(r, t) IN Same(v, s) /\ IsShape(v)
<1> DEFINE u == ApplySlave(s, t)
           v == RevertSlave(r, t)
           p == Fee(t)
           X == SlavesOf(t)
<1>1. /\ t \in Ordinary
      /\ IsShape(s) /\ IsState(s) /\ IsState(r) /\ s.log \in Lists /\ r.log \in Lists
      /\ s.balance \in [Addresses -> Int]
  BY DEF Good, IsShape, OfKind, Ordinary, Spends, Creations, Tokens
<1>2. /\ Amounts(p)
  BY <1>1, TxFacts
<1>3. /\ Signed(u, s, t)
      /\ u.slaves = s.slaves \cup X /\ u.lattice = s.lattice
      /\ u.tokens = s.tokens /\ u.wallets = s.wallets
      /\ u.votes = s.votes
      /\ u.balance = Decrease(s.balance, p)
      /\ u.log = Longer(Longer(Longer(s.log, "tx", {From(t)}, t), "slaves", {From(t)}, t),
                      "tx", OnlySigner(t), t)
  BY <1>1, SlaveApplied
<1>4. /\ IsState(v) /\ Unsigned(v, r, t)
      /\ v.slaves = r.slaves \ X /\ v.lattice = r.lattice
      /\ v.tokens = r.tokens /\ v.wallets = r.wallets
      /\ v.votes = r.votes
      /\ v.balance = Increase(r.balance, p)
      /\ v.log = Shorter(Shorter(Shorter(r.log, "tx", {From(t)}), "slaves", {From(t)}),
                      "tx", OnlySigner(t))
      /\ v.raised \in BOOLEAN
  BY SMTT(60), <1>1, SlaveReverted
<1> HIDE DEF u, v
<1>5. /\ r.balance = u.balance /\ SameKeys(r, u)
      /\ r.slaves = u.slaves /\ r.lattice = u.lattice /\ r.tokens = u.tokens
      /\ r.wallets = u.wallets /\ r.votes = u.votes
      /\ \A m \in Logs, a \in Addresses : Shown(u.wallets, m, a) => r.log[m][a] = u.log[m][a]
  BY DEF Same, SameRest, u
<1> HIDE DEF p
<1>6. v.balance = s.balance
  <2>1. v.balance = Increase(Decrease(s.balance, p), p)
    BY <1>3, <1>4, <1>5
  <2>2. QED
    BY <1>1, <1>2, <2>1, BalanceUndone
<1>7. SameKeys(v, s)
  BY <1>1, <1>3, <1>4, <1>5, SignatureUndone
<1>8. SameRest(v, s)
  <2>1. X \cap s.slaves = {}
    <3>1. \A a \in DOMAIN Tx[t].slaves : Tx[t].slaves[a] \in {0, 1}
      BY FormAssumption
    <3>2. QED
      BY <3>1 DEF ValidSlave, SlavesOf
  <2>2. v.slaves = s.slaves
    BY <1>3, <1>4, <1>5, <2>1
  <2>3. QED
    BY <1>3, <1>4, <1>5, <2>2 DEF SameRest
<1>9. ASSUME NEW m \in Logs, NEW a \in Addresses, Shown(s.wallets, m, a)
      PROVE  v.log \in Lists /\ v.log[m][a] = s.log[m][a]
  <2>1. r.log[m][a] = u.log[m][a]
    BY <1>3, <1>5, <1>9 DEF SameRest
  <2>2. "slaves" \in Logs /\ "tx" \in Logs
    BY DEF Logs
  <2>3. t \in Elements
    BY <1>1, <1>2, TxFacts
  <2>4. Matched3(s.log, r.log, m, a,
                 "tx", {From(t)}, t, "tx", {From(t)},
                 "slaves", {From(t)}, t, "slaves", {From(t)},
                 "tx", OnlySigner(t), t, "tx", OnlySigner(t))
    BY <1>1, <1>3, <2>1, <2>2, <2>3 DEF Matched3
  <2>5. QED
    BY <1>4, <2>4, Undone3
<1>10. v.log \in Lists
  <2>1. "inbox" \in Logs /\ Mint \in Addresses /\ Shown(s.wallets, "inbox", Mint)
    BY DEF Logs, Addresses, Shown
  <2>2. QED
    BY <1>9, <2>1
<1>11. Same(v, s)
  BY <1>6, <1>7, <1>8, <1>9 DEF Same
<1>12. QED
  BY <1>1, <1>4, <1>10, <1>11, ShapeAgain DEF v

LEMMA TokenUndone ==
  ASSUME NEW s, Good(s), NEW t \in Tokens, KeyUnused(s, t),
         NEW r, IsShape(r), Same(r, ApplyToken(s, t))
  PROVE  LET v == RevertToken(r, t) IN Same(v, s) /\ IsShape(v)
<1> DEFINE u == ApplyToken(s, t)
           v == RevertToken(r, t)
           p == Fee(t)
           A == TokenParties(t)
           B == Payees(t)
<1>1. /\ t \in Ordinary
      /\ IsShape(s) /\ IsState(s) /\ IsState(r) /\ s.log \in Lists /\ r.log \in Lists
      /\ s.balance \in [Addresses -> Int]
  BY DEF Good, IsShape, OfKind, Ordinary, Spends, Creations, Tokens
<1>2. /\ Amounts(p)
  BY <1>1, TxFacts
<1>3. /\ Signed(u, s, t)
      /\ u.slaves = s.slaves /\ u.lattice = s.lattice
      /\ u.tokens = Made(s.tokens, t) /\ u.wallets = s.wallets
      /\ u.votes = s.votes
      /\ u.balance = Decrease(s.balance, p)
      /\ u.log = Longer(Longer(s.log, "tx", A, t), "tokens", B, t)
  BY <1>1, TokenApplied
<1>4. /\ IsState(v) /\ Unsigned(v, r, t)
      /\ v.slaves = r.slaves /\ v.lattice = r.lattice
      /\ v.tokens = Unmade(r.tokens, t) /\ v.wallets = r.wallets
      /\ v.votes = r.votes
      /\ v.balance = Increase(r.balance, p)
      /\ v.log = Shorter(Shorter(r.log, "tx", A), "tokens", B)
      /\ v.raised \in BOOLEAN
  BY <1>1, TokenReverted
<1> HIDE DEF u, v
<1>5. /\ r.balance = u.balance /\ SameKeys(r, u)
      /\ r.slaves = u.slaves /\ r.lattice = u.lattice /\ r.tokens = u.tokens
      /\ r.wallets = u.wallets /\ r.votes = u.votes
      /\ \A m \in Logs, a \in Addresses : Shown(u.wallets, m, a) => r.log[m][a] = u.log[m][a]
  BY DEF Same, SameRest, u
<1> HIDE DEF p, A, B
<1>6. v.balance = s.balance
  <2>1. v.balance = Increase(Decrease(s.balance, p), p)
    BY <1>3, <1>4, <1>5
  <2>2. QED
    BY <1>1, <1>2, <2>1, BalanceUndone
<1>7. SameKeys(v, s)
  BY <1>1, <1>3, <1>4, <1>5, SignatureUndone
<1>8. SameRest(v, s)
  <2>1. \A a \in Accounts : s.tokens[a][t] = NoToken
    BY <1>1 DEF Good, Untouched
  <2>2. v.tokens = Unmade(Made(s.tokens, t), t)
    BY <1>3, <1>4, <1>5
  <2>3. v.tokens = s.tokens
    BY <1>1, <2>1, <2>2, MadeUndone DEF IsShape
  <2>4. QED
    BY <1>3, <1>4, <1>5, <2>3 DEF SameRest
<1>9. ASSUME NEW m \in Logs, NEW a \in Addresses, Shown(s.wallets, m, a)
      PROVE  v.log \in Lists /\ v.log[m][a] = s.log[m][a]
  <2>1. r.log[m][a] = u.log[m][a]
    BY <1>3, <1>5, <1>9 DEF SameRest
  <2>2. "tokens" \in Logs /\ "tx" \in Logs
    BY DEF Logs
  <2>3. t \in Elements
    BY <1>1, <1>2, TxFacts
  <2>4. Matched2(s.log, r.log, m, a, "tx", A, t, "tx", A, "tokens", B, t, "tokens", B)
    BY <1>1, <1>3, <2>1, <2>2, <2>3 DEF Matched2
  <2>5. QED
    BY <1>4, <2>4, Undone2
<1>10. v.log \in Lists
  <2>1. "inbox" \in Logs /\ Mint \in Addresses /\ Shown(s.wallets, "inbox", Mint)
    BY DEF Logs, Addresses, Shown
  <2>2. QED
    BY <1>9, <2>1
<1>11. Same(v, s)
  BY <1>6, <1>7, <1>8, <1>9 DEF Same
<1>12. QED
  BY <1>1, <1>4, <1>10, <1>11, ShapeAgain DEF v

LEMMA TransferTokenUndone ==
  ASSUME NEW s, Good(s), NEW t \in OfKind("transfer_token"), KeyUnused(s, t),
         NEW r, IsShape(r), Same(r, ApplyTransferToken(s, t))
  PROVE  LET v == RevertTransferToken(r, t) IN Same(v, s) /\ IsShape(v)
<1> DEFINE u == ApplyTransferToken(s, t)
           v == RevertTransferToken(r, t)
           p == Fee(t)
           k == Tx[t].token
           N == Holding(s.tokens, t, NoTx)
           O == Holding(r.tokens, t, t)
           A == Payees(t) \ {From(t)}
<1>1. /\ t \in Ordinary
      /\ IsShape(s) /\ IsState(s) /\ IsState(r) /\ s.log \in Lists /\ r.log \in Lists
      /\ s.balance \in [Addresses -> Int]
  BY DEF Good, IsShape, OfKind, Ordinary, Spends, Creations, Tokens
<1>2. /\ Amounts(p)
      /\ k \in Tokens /\ k \in Elements
  BY <1>1, TxFacts, FormAssumption DEF Tokens, OfKind, Elements
<1>3. /\ Signed(u, s, t)
      /\ u.slaves = s.slaves /\ u.lattice = s.lattice
      /\ u.tokens = Named(Moved(s.tokens, t, 1), k, N, t) /\ u.wallets = s.wallets
      /\ u.votes = s.votes
      /\ u.balance = Decrease(s.balance, p)
      /\ u.log = Longer(Longer(Longer(Longer(s.log, "tx", {From(t)}, t), "tokens", N, k),
                      "tx", A, t), "tx", OnlySigner(t), t)
  BY <1>1, TransferTokenApplied
<1>4. /\ IsState(v) /\ Unsigned(v, r, t)
      /\ v.slaves = r.slaves /\ v.lattice = r.lattice
      /\ v.tokens = Named(Moved(r.tokens, t, -1), k, O, NoTx) /\ v.wallets = r.wallets
      /\ v.votes = r.votes
      /\ v.balance = Increase(r.balance, p)
      /\ v.log = Shorter(Shorter(Shorter(Shorter(r.log, "tokens", O), "tx", A),
                      "tx", {From(t)}), "tx", OnlySigner(t))
      /\ v.raised \in BOOLEAN
  BY <1>1, TransferTokenReverted
<1> HIDE DEF u, v
<1>5. /\ r.balance = u.balance /\ SameKeys(r, u)
      /\ r.slaves = u.slaves /\ r.lattice = u.lattice /\ r.tokens = u.tokens
      /\ r.wallets = u.wallets /\ r.votes = u.votes
      /\ \A m \in Logs, a \in Addresses : Shown(u.wallets, m, a) => r.log[m][a] = u.log[m][a]
  BY DEF Same, SameRest, u
<1> HIDE DEF p, A
<1>6. v.balance = s.balance
  <2>1. v.balance = Increase(Decrease(s.balance, p), p)
    BY <1>3, <1>4, <1>5
  <2>2. QED
    BY <1>1, <1>2, <2>1, BalanceUndone
<1>7. SameKeys(v, s)
  BY <1>1, <1>3, <1>4, <1>5, SignatureUndone
<1>8. SameRest(v, s) /\ O = N
  <2>1. \A a \in Accounts : s.tokens[a][k].origin # t
    BY <1>1, <1>2 DEF Good, Untouched
  <2>2. s.tokens \in [Accounts -> [Tokens -> TokenStates]]
    BY <1>1 DEF IsShape
  <2>3. r.tokens = Named(Moved(s.tokens, t, 1), k, N, t)
    BY <1>3, <1>5
  <2>4. O = N /\ Named(Moved(r.tokens, t, -1), k, N, NoTx) = s.tokens
    <3> DEFINE X == Named(Moved(s.tokens, t, 1), Tx[t].token, N, t)
    <3>1. /\ Holding(X, t, t) = N
          /\ Named(Moved(X, t, -1), Tx[t].token, N, NoTx) = s.tokens
      BY <2>1, <2>2, MovedUndone
    <3>2. QED
      BY <2>3, <3>1
  <2>5. v.tokens = s.tokens
    BY <1>4, <2>4
  <2>6. QED
    BY <1>3, <1>4, <1>5, <2>4, <2>5 DEF SameRest
<1> HIDE DEF k, N, O
<1>9. ASSUME NEW m \in Logs, NEW a \in Addresses, Shown(s.wallets, m, a)
      PROVE  v.log \in Lists /\ v.log[m][a] = s.log[m][a]
  <2>1. r.log[m][a] = u.log[m][a]
    BY <1>3, <1>5, <1>9 DEF SameRest
  <2>2. "tokens" \in Logs /\ "tx" \in Logs
    BY DEF Logs
  <2>3. k \in Elements /\ t \in Elements
    BY <1>1, <1>2, TxFacts
  <2>0. /\ Hit(m, a, "tx", {From(t)}) \in Int /\ Hit(m, a, "tokens", N) \in Int
        /\ Hit(m, a, "tx", A) \in Int /\ Hit(m, a, "tx", OnlySigner(t)) \in Int
        /\ O = N
    BY <1>8 DEF Hit
  <2>4. Matched4(s.log, r.log, m, a,
                 "tx", {From(t)}, t, "tokens", O,
                 "tokens", N, k, "tx", A,
                 "tx", A, t, "tx", {From(t)},
                 "tx", OnlySigner(t), t, "tx", OnlySigner(t))
    BY <1>1, <1>3, <2>1, <2>2, <2>3, <2>0 DEF Matched4
  <2>5. QED
    BY <1>4, <2>4, Undone4
<1>10. v.log \in Lists
  <2>1. "inbox" \in Logs /\ Mint \in Addresses /\ Shown(s.wallets, "inbox", Mint)
    BY DEF Logs, Addresses, Shown
  <2>2. QED
    BY <1>9, <2>1
<1>11. Same(v, s)
  BY <1>6, <1>7, <1>8, <1>9 DEF Same
<1>12. QED
  BY <1>1, <1>4, <1>10, <1>11, ShapeAgain DEF v

LEMMA CreateUndone ==
  ASSUME NEW s, Good(s), NEW c \in Creations, KeyUnused(s, c),
         NEW r, IsShape(r), Same(r, ApplyMultiSigCreate(s, c))
  PROVE  LET v == RevertMultiSigCreate(r, c) IN Same(v, s) /\ IsShape(v)
<1> DEFINE u == ApplyMultiSigCreate(s, c)
           v == RevertMultiSigCreate(r, c)
           p == Fee(c)
           w == Tx[c].wallet
           A == OthersIn(c, Signatories(c))
           S == Signatories(c)
<1>1. /\ c \in Ordinary
      /\ IsShape(s) /\ IsState(s) /\ IsState(r) /\ s.log \in Lists /\ r.log \in Lists
      /\ s.balance \in [Addresses -> Int]
  BY DEF Good, IsShape, OfKind, Ordinary, Spends, Creations, Tokens
<1>2. /\ Amounts(p)
      /\ w \in Wallets /\ w \in Elements /\ w \in Addresses
      /\ w \notin s.wallets /\ s.balance[w] = 0
  BY <1>1, TxFacts, FormAssumption DEF Elements, Addresses, Good, Untouched
<1>3. /\ Signed(u, s, c)
      /\ u.slaves = s.slaves /\ u.lattice = s.lattice
      /\ u.tokens = s.tokens /\ u.wallets = s.wallets \cup {w}
      /\ u.votes = s.votes
      /\ u.balance = [Decrease(s.balance, p) EXCEPT ![w] = 0]
      /\ u.log = Longer(Longer(Longer(Longer(s.log, "tx", {From(c)}, c),
                      "tx", {w} \cup A, c), "wallets", S, w), "tx", OnlySigner(c), c)
  BY ZenonT(60), <1>1, CreateApplied
<1>4. /\ IsState(v) /\ Unsigned(v, r, c)
      /\ v.slaves = r.slaves /\ v.lattice = r.lattice
      /\ v.tokens = r.tokens /\ v.wallets = r.wallets \ {w}
      /\ v.votes = r.votes
      /\ v.balance = [Increase(r.balance, p) EXCEPT ![w] = 0]
      /\ v.log = Shorter(Shorter(Shorter(Shorter(r.log, "tx", {From(c)}), "tx", A),
                      "wallets", S), "tx", OnlySigner(c))
      /\ v.raised \in BOOLEAN
  BY SMTT(60), <1>1, CreateReverted
<1> HIDE DEF u, v
<1>5. /\ r.balance = u.balance /\ SameKeys(r, u)
      /\ r.slaves = u.slaves /\ r.lattice = u.lattice /\ r.tokens = u.tokens
      /\ r.wallets = u.wallets /\ r.votes = u.votes
      /\ \A m \in Logs, a \in Addresses : Shown(u.wallets, m, a) => r.log[m][a] = u.log[m][a]
  BY DEF Same, SameRest, u
<1> HIDE DEF p, w, A, S
<1>6. v.balance = s.balance
  <2> DEFINE b == Decrease(s.balance, p)
             d == [b EXCEPT ![w] = 0]
             i == Increase(d, p)
  <2>1. /\ b \in [Addresses -> Int]
        /\ \A a \in Addresses : Part(p, a) \in Int
        /\ \A a \in Addresses : b[a] = s.balance[a] - Part(p, a)
    BY <1>1, <1>2, BalanceFacts
  <2>2. r.balance = d
    BY <1>3, <1>5
  <2> HIDE DEF b
  <2>3. d \in [Addresses -> Int] /\ \A a \in Addresses : a # w => d[a] = b[a]
    <3>1. /\ b \in [Addresses -> Int] /\ DOMAIN d = Addresses
          /\ \A a \in Addresses : d[a] = IF a = w THEN 0 ELSE b[a]
      BY <2>1
    <3>2. d = [a \in Addresses |-> d[a]]
      BY <2>1
    <3>3. \A a \in Addresses : d[a] \in Int
      BY <3>1
    <3>4. QED
      BY <3>1, <3>2, <3>3
  <2> HIDE DEF d
  <2>4. i \in [Addresses -> Int] /\ \A a \in Addresses : i[a] = d[a] + Part(p, a)
    BY <1>2, <2>3, BalanceFacts
  <2>5. v.balance = [i EXCEPT ![w] = 0]
    BY <1>4, <2>2
  <2> HIDE DEF i
  <2>6. \A a \in Addresses : a # w => i[a] = s.balance[a]
    BY <1>1, <2>1, <2>3, <2>4
  <2>7. v.balance \in [Addresses -> Int] /\ \A a \in Addresses : v.balance[a] = s.balance[a]
    BY <1>2, <2>4, <2>5, <2>6
  <2>8. QED
    BY <1>1, <2>7
<1>7. SameKeys(v, s)
  BY <1>1, <1>3, <1>4, <1>5, SignatureUndone
<1>8. SameRest(v, s)
  <2>1. v.wallets = s.wallets
    BY <1>2, <1>3, <1>4, <1>5
  <2>2. QED
    BY <1>3, <1>4, <1>5, <2>1 DEF SameRest
<1>9. ASSUME NEW m \in Logs, NEW a \in Addresses, Shown(s.wallets, m, a)
      PROVE  v.log \in Lists /\ v.log[m][a] = s.log[m][a]
  <2>1. r.log[m][a] = u.log[m][a]
    BY <1>3, <1>5, <1>9 DEF Shown
  <2>2. "tx" \in Logs /\ "wallets" \in Logs
    BY DEF Logs
  <2>3. c \in Elements /\ w \in Elements
    BY <1>1, <1>2, TxFacts
  <2>0. /\ Hit(m, a, "tx", {From(c)}) \in Int /\ Hit(m, a, "wallets", S) \in Int
        /\ Hit(m, a, "tx", A) \in Int /\ Hit(m, a, "tx", OnlySigner(c)) \in Int
        /\ Hit(m, a, "tx", {w} \cup A) = Hit(m, a, "tx", A)
    BY <1>2, <1>9 DEF Hit, Shown
  <2>4. Matched4(s.log, r.log, m, a,
                 "tx", {From(c)}, c, "tx", {From(c)},
                 "tx", {w} \cup A, c, "tx", A,
                 "wallets", S, w, "wallets", S,
                 "tx", OnlySigner(c), c, "tx", OnlySigner(c))
    BY <1>1, <1>3, <2>1, <2>2, <2>3, <2>0 DEF Matched4
  <2>5. QED
    BY <1>4, <2>4, Undone4
<1>10. v.log \in Lists
  <2>1. "inbox" \in Logs /\ Mint \in Addresses /\ Shown(s.wallets, "inbox", Mint)
    BY DEF Logs, Addresses, Shown
  <2>2. QED
    BY <1>9, <2>1
<1>11. Same(v, s)
  BY <1>6, <1>7, <1>8, <1>9 DEF Same
<1>12. QED
  BY <1>1, <1>4, <1>10, <1>11, ShapeAgain DEF v

LEMMA SpendUndone ==
  ASSUME NEW s, Good(s), NEW p \in Spends, KeyUnused(s, p),
         NEW r, IsShape(r), Same(r, ApplyMultiSigSpend(s, p))
  PROVE  LET v == RevertMultiSigSpend(r, p) IN Same(v, s) /\ IsShape(v)
<1> DEFINE u == ApplyMultiSigSpend(s, p)
           v == RevertMultiSigSpend(r, p)
           f == Fee(p)
           w == Tx[p].wallet
           A == Signatories(Creation(p)) \cup {w}
           x == [NoVotes EXCEPT !.live = TRUE]
<1>1. /\ p \in Ordinary
      /\ IsShape(s) /\ IsState(s) /\ IsState(r) /\ s.log \in Lists /\ r.log \in Lists
      /\ s.balance \in [Addresses -> Int]
  BY DEF Good, IsShape, OfKind, Ordinary, Spends, Creations, Tokens
<1>2. /\ Amounts(f)
  BY <1>1, TxFacts
<1>3. /\ Signed(u, s, p)
      /\ u.slaves = s.slaves /\ u.lattice = s.lattice
      /\ u.tokens = s.tokens /\ u.wallets = s.wallets
      /\ u.votes = [s.votes EXCEPT ![p] = x]
      /\ u.balance = Decrease(s.balance, f)
      /\ u.log = Longer(Longer(Longer(Longer(s.log, "tx", {From(p)}, p), "spends", A, p),
                      "tx", {w}, p), "tx", OnlySigner(p), p)
  BY ZenonT(60), <1>1, SpendApplied
<1>4. /\ IsState(v) /\ Unsigned(v, r, p)
      /\ v.slaves = r.slaves /\ v.lattice = r.lattice
      /\ v.tokens = r.tokens /\ v.wallets = r.wallets
      /\ v.votes = [r.votes EXCEPT ![p] = NoVotes]
      /\ v.balance = Increase(r.balance, f)
      /\ v.log = Shorter(Shorter(Shorter(Shorter(r.log, "tx", {From(p)}), "spends", A),
                      "tx", {w}), "tx", OnlySigner(p))
      /\ v.raised \in BOOLEAN
  BY ZenonT(60), <1>1, SpendReverted
<1> HIDE DEF u, v
<1>5. /\ r.balance = u.balance /\ SameKeys(r, u)
      /\ r.slaves = u.slaves /\ r.lattice = u.lattice /\ r.tokens = u.tokens
      /\ r.wallets = u.wallets /\ r.votes = u.votes
      /\ \A m \in Logs, a \in Addresses : Shown(u.wallets, m, a) => r.log[m][a] = u.log[m][a]
  BY DEF Same, SameRest, u
<1> HIDE DEF f, w, A, x
<1>6. v.balance = s.balance
  <2>1. v.balance = Increase(Decrease(s.balance, f), f)
    BY <1>3, <1>4, <1>5
  <2>2. QED
    BY <1>1, <1>2, <2>1, BalanceUndone
<1>7. SameKeys(v, s)
  BY <1>1, <1>3, <1>4, <1>5, SignatureUndone
<1>8. SameRest(v, s)
  <2>1. s.votes[p] = NoVotes /\ s.votes \in [Spends -> VoteStates]
    BY <1>1 DEF Good, Untouched, IsShape
  <2>2. v.votes = [[s.votes EXCEPT ![p] = x] EXCEPT ![p] = NoVotes]
    BY <1>3, <1>4, <1>5
  <2>3. v.votes = s.votes
    BY <2>1, <2>2
  <2>4. QED
    BY <1>3, <1>4, <1>5, <2>3 DEF SameRest
<1>9. ASSUME NEW m \in Logs, NEW a \in Addresses, Shown(s.wallets, m, a)
      PROVE  v.log \in Lists /\ v.log[m][a] = s.log[m][a]
  <2>1. r.log[m][a] = u.log[m][a]
    BY <1>3, <1>5, <1>9 DEF SameRest
  <2>2. "spends" \in Logs /\ "tx" \in Logs
    BY DEF Logs
  <2>3. p \in Elements
    BY <1>1, <1>2, TxFacts
  <2>4. Matched4(s.log, r.log, m, a,
                 "tx", {From(p)}, p, "tx", {From(p)},
                 "spends", A, p, "spends", A,
                 "tx", {w}, p, "tx", {w},
                 "tx", OnlySigner(p), p, "tx", OnlySigner(p))
    BY <1>1, <1>3, <2>1, <2>2, <2>3 DEF Matched4
  <2>5. QED
    BY <1>4, <2>4, Undone4
<1>10. v.log \in Lists
  <2>1. "inbox" \in Logs /\ Mint \in Addresses /\ Shown(s.wallets, "inbox", Mint)
    BY DEF Logs, Addresses, Shown
  <2>2. QED
    BY <1>9, <2>1
<1>11. Same(v, s)
  BY <1>6, <1>7, <1>8, <1>9 DEF Same
<1>12. QED
  BY <1>1, <1>4, <1>10, <1>11, ShapeAgain DEF v

(* The tally of a vote and its undoing.                                     *)
LEMMA SameVoteState ==
  ASSUME NEW x \in VoteStates, NEW y \in VoteStates,
         x.live = y.live, x.voted = y.voted, x.last = y.last, x.weight = y.weight,
         x.executed = y.executed
  PROVE  x = y
BY DEF VoteStates

LEMMA TallyFacts ==
  ASSUME NEW x \in VoteStates, NEW a \in Accounts, NEW wt \in Int, NEW for,
         NEW t \in Txs \cup {NoTx}
  PROVE  LET y == Tally(x, a, wt, for, t)
         IN  /\ y \in VoteStates
             /\ y.live = x.live /\ y.executed = x.executed
             /\ y.last = [x.last EXCEPT ![a] = t]
             /\ for => y.weight = x.weight + wt /\ y.voted = x.voted \cup {a}
             /\ ~ for => y.weight = x.weight - wt /\ y.voted = x.voted \ {a}
<1> DEFINE l == [x.last EXCEPT ![a] = t]
           w == IF for THEN x.weight + wt ELSE x.weight - wt
           A == IF for THEN x.voted \cup {a} ELSE x.voted \ {a}
           y == [x EXCEPT !.last = l, !.weight = w, !.voted = A]
<1>1. /\ x.last \in [Accounts -> Txs \cup {NoTx}] /\ x.weight \in Int
      /\ x.voted \subseteq Accounts
  BY DEF VoteStates
<1>2. Tally(x, a, wt, for, t) = y
  BY DEF Tally, VoteStates
<1>3. l \in [Accounts -> Txs \cup {NoTx}] /\ w \in Int /\ A \subseteq Accounts
  BY <1>1
<1> HIDE DEF l, w, A
<1>4. /\ y \in VoteStates /\ y.live = x.live /\ y.executed = x.executed
      /\ y.last = l /\ y.weight = w /\ y.voted = A
  BY <1>3 DEF VoteStates
<1>5. QED
  BY <1>2, <1>4 DEF l, w, A

LEMMA ExecutedFacts ==
  ASSUME NEW V \in [Spends -> VoteStates], NEW p \in Spends, NEW b \in BOOLEAN
  PROVE  LET W == SetExecuted(V, p, b)
         IN  /\ W \in [Spends -> VoteStates]
             /\ \A q \in Spends : q # p => W[q] = V[q]
             /\ W[p].live = V[p].live /\ W[p].voted = V[p].voted /\ W[p].last = V[p].last
             /\ W[p].weight = V[p].weight /\ W[p].executed = b
<1> DEFINE x == [V[p] EXCEPT !.executed = b]
           W == [V EXCEPT ![p] = x]
<1>1. SetExecuted(V, p, b) = W
  BY DEF SetExecuted
<1>2. V[p] \in VoteStates
  OBVIOUS
<1>3. /\ x \in VoteStates
      /\ x.live = V[p].live /\ x.voted = V[p].voted /\ x.last = V[p].last
      /\ x.weight = V[p].weight /\ x.executed = b
  BY <1>2 DEF VoteStates
<1> HIDE DEF x
<1>4. QED
  BY <1>1, <1>3

(* The word of a about the spend p changes the tally.                       *)
Countable(V, p, a, wt, for, against, t) ==
  /\ V \in [Spends -> VoteStates] /\ p \in Spends /\ a \in Accounts
  /\ wt \in Int /\ t \in Txs \cup {NoTx}
  /\ (for <=> ~ against)
  /\ (for <=> a \notin V[p].voted)
  /\ ~ V[p].executed

(* With or without a payment in between, the opposite word gives it back.   *)
Uncounts(V, p, a, wt, for, against, t) ==
  LET C == Recount(V, p, a, wt, for, t)
      D == SetExecuted(C, p, TRUE)
      E == SetExecuted(D, p, FALSE)
  IN  /\ C \in [Spends -> VoteStates] /\ D \in [Spends -> VoteStates]
      /\ ~ C[p].executed /\ D[p].executed /\ D[p].weight = C[p].weight
      /\ Recount(C, p, a, wt, against, V[p].last[a]) = V
      /\ Recount(E, p, a, wt, against, V[p].last[a]) = V

LEMMA CountedUndone ==
  ASSUME NEW V, NEW p, NEW a, NEW wt, NEW for, NEW against, NEW t,
         Countable(V, p, a, wt, for, against, t)
  PROVE  Uncounts(V, p, a, wt, for, against, t)
<1> DEFINE y == Tally(V[p], a, wt, for, t)
           C == Recount(V, p, a, wt, for, t)
           D == SetExecuted(C, p, TRUE)
           E == SetExecuted(D, p, FALSE)
           back == V[p].last[a]
<1>0. /\ V \in [Spends -> VoteStates] /\ p \in Spends /\ a \in Accounts
      /\ wt \in Int /\ t \in Txs \cup {NoTx}
      /\ (for <=> ~ against)
      /\ (for <=> a \notin V[p].voted)
      /\ ~ V[p].executed
  BY DEF Countable
<1>1. /\ V[p] \in VoteStates /\ V[p].last \in [Accounts -> Txs \cup {NoTx}]
      /\ V[p].voted \subseteq Accounts /\ V[p].weight \in Int /\ V[p].executed \in BOOLEAN
      /\ back \in Txs \cup {NoTx}
  BY <1>0 DEF VoteStates
<1>2. /\ y \in VoteStates
      /\ y.live = V[p].live /\ y.executed = V[p].executed
      /\ y.last = [V[p].last EXCEPT ![a] = t]
      /\ for => y.weight = V[p].weight + wt /\ y.voted = V[p].voted \cup {a}
      /\ ~ for => y.weight = V[p].weight - wt /\ y.voted = V[p].voted \ {a}
  BY <1>0, <1>1, TallyFacts
<1> HIDE DEF y
<1>3. C \in [Spends -> VoteStates] /\ C[p] = y /\ \A q \in Spends : q # p => C[q] = V[q]
  <2>1. C = [V EXCEPT ![p] = y]
    BY DEF y, Recount
  <2>2. QED
    BY <1>0, <1>2, <2>1
<1> HIDE DEF C
<1>4. /\ D \in [Spends -> VoteStates] /\ \A q \in Spends : q # p => D[q] = C[q]
      /\ D[p].live = C[p].live /\ D[p].voted = C[p].voted /\ D[p].last = C[p].last
      /\ D[p].weight = C[p].weight /\ D[p].executed
  BY ZenonT(60), <1>0, <1>3, ExecutedFacts
<1> HIDE DEF D
<1>5. /\ E \in [Spends -> VoteStates] /\ \A q \in Spends : q # p => E[q] = D[q]
      /\ E[p].live = D[p].live /\ E[p].voted = D[p].voted /\ E[p].last = D[p].last
      /\ E[p].weight = D[p].weight /\ E[p].executed = FALSE
  BY <1>0, <1>4, ExecutedFacts
<1> HIDE DEF E
<1>6. E = C
  <2>1. y.executed = FALSE
    BY <1>0, <1>1, <1>2
  <2>2. E[p] = C[p]
    <3>1. E[p] \in VoteStates /\ C[p] \in VoteStates
      BY <1>0, <1>3, <1>5
    <3>2. C[p].executed = FALSE
      BY <1>0, <1>3, <2>1
    <3>3. QED
      BY ZenonT(60), <1>0, <1>4, <1>5, <3>1, <3>2, SameVoteState
  <2>3. \A q \in Spends : E[q] = C[q]
    BY <1>0, <1>4, <1>5, <2>2
  <2>4. QED
    BY <1>0, <1>3, <1>5, <2>3
<1>7. Recount(C, p, a, wt, against, back) = V
  <2> DEFINE z == Tally(y, a, wt, against, back)
  <2>1. /\ z \in VoteStates
        /\ z.live = y.live /\ z.executed = y.executed
        /\ z.last = [y.last EXCEPT ![a] = back]
        /\ against => z.weight = y.weight + wt /\ z.voted = y.voted \cup {a}
        /\ ~ against => z.weight = y.weight - wt /\ z.voted = y.voted \ {a}
    BY <1>0, <1>1, <1>2, TallyFacts
  <2> HIDE DEF z
  <2>2. z.last = V[p].last
    BY <1>0, <1>1, <1>2, <2>1
  <2>3. z.weight = V[p].weight
    BY <1>0, <1>1, <1>2, <2>1
  <2>4. z.voted = V[p].voted
    <3>1. CASE for
      <4>1. a \notin V[p].voted /\ y.voted = V[p].voted \cup {a} /\ z.voted = y.voted \ {a}
        BY <1>0, <1>2, <2>1, <3>1
      <4>2. QED
        BY <1>0, <4>1
    <3>2. CASE ~ for
      <4>1. a \in V[p].voted /\ y.voted = V[p].voted \ {a} /\ z.voted = y.voted \cup {a}
        BY <1>0, <1>2, <2>1, <3>2
      <4>2. QED
        BY <1>0, <4>1
    <3>3. QED
      BY <1>0, <3>1, <3>2
  <2>5. z = V[p]
    BY <1>0, <1>1, <1>2, <2>1, <2>2, <2>3, <2>4, SameVoteState
  <2>6. [C EXCEPT ![p] = z] = V
    BY <1>0, <1>3, <2>5
  <2>7. QED
    BY <1>0, <1>3, <2>6 DEF z, Recount
<1>8. QED
  BY <1>0, <1>1, <1>2, <1>3, <1>4, <1>6, <1>7 DEF Uncounts, C, D, E

LEMMA CreationFacts ==
  ASSUME NEW w, \E c \in Creations : Tx[c].wallet = w
  PROVE  /\ CreationOf(w) \in Creations /\ Tx[CreationOf(w)].wallet = w
         /\ \A c \in Creations : Tx[c].wallet = w => c = CreationOf(w)
         /\ Signatories(CreationOf(w)) \subseteq Accounts
         /\ IsFiniteSet(Signatories(CreationOf(w)))
         /\ \A a \in Signatories(CreationOf(w)) : Tx[CreationOf(w)].weights[a] \in Nat \ {0}
<1>1. CreationOf(w) \in Creations /\ Tx[CreationOf(w)].wallet = w
  BY DEF CreationOf
<1> HIDE DEF CreationOf
<1> DEFINE d == CreationOf(w)
<1> HIDE DEF d
<1>2. /\ d \in Creations /\ Tx[d].wallet = w
      /\ DOMAIN Tx[d].weights \subseteq Accounts
      /\ Tx[d].weights \in [DOMAIN Tx[d].weights -> Nat \ {0}]
      /\ \A c \in Creations : Tx[c].wallet = w => c = d
  BY <1>1, FormAssumption DEF d
<1>3. IsFiniteSet(DOMAIN Tx[d].weights)
  BY SMTT(60), <1>2, AddressesFinite, FS_Subset
<1>4. QED
  BY <1>2, <1>3 DEF d, Signatories

LEMMA VoteFacts ==
  ASSUME NEW s, Good(s), NEW v \in OfKind("multi_sig_vote"), NEW n, ValidMultiSigVote(s, v, n)
  PROVE  LET p == Tx[v].spend
         IN  /\ p \in Spends /\ p \in Ordinary /\ Tx[v].unvote \in BOOLEAN
             /\ Tx[p].wallet \in s.wallets
             /\ Creation(p) \in Creations
             /\ Weight(v) \in Nat \ {0}
<1>1. Tx[v].spend \in Spends /\ Tx[v].unvote \in BOOLEAN
  BY FormAssumption
<1>2. Tx[Tx[v].spend].wallet \in s.wallets
  BY <1>1 DEF Good, ValidMultiSigVote
<1>3. /\ CreationOf(Tx[Tx[v].spend].wallet) \in Creations
      /\ \A a \in Signatories(CreationOf(Tx[Tx[v].spend].wallet)) :
           Tx[CreationOf(Tx[Tx[v].spend].wallet)].weights[a] \in Nat \ {0}
  BY <1>2, CreationFacts DEF Good
<1>4. Tx[v].spend \in Ordinary
  BY <1>1 DEF Spends, OfKind, Ordinary
<1>5. QED
  BY <1>1, <1>2, <1>3, <1>4 DEF Creation, Weight, ValidMultiSigVote

LEMMA VoteUndone ==
  ASSUME NEW s, Good(s), NEW v \in OfKind("multi_sig_vote"), KeyUnused(s, v),
         NEW n, ValidMultiSigVote(s, v, n),
         NEW r, IsShape(r), Same(r, ApplyMultiSigVote(s, v, n)),
         NEW e, e.tx = v, e.prev = s.votes[Tx[v].spend].last[From(v)]
  PROVE  LET z == RevertMultiSigVote(r, e, n) IN Same(z, s) /\ IsShape(z)
<1> DEFINE u == ApplyMultiSigVote(s, v, n)
           z == RevertMultiSigVote(r, e, n)
           p == Tx[v].spend
           f == Fee(v)
           A == OthersIn(p, Payees(p))
           x == Executes(s, v, n)
           C == Counted(s.votes, v)
           D == SetExecuted(C, p, TRUE)
           b == Decrease(s.balance, f)
           L == Longer(s.log, "tx", {From(v)}, v)
<1>1. /\ v \in Ordinary
      /\ IsShape(s) /\ IsState(s) /\ IsState(r) /\ s.log \in Lists /\ r.log \in Lists
      /\ s.balance \in [Addresses -> Int] /\ s.votes \in [Spends -> VoteStates]
  BY DEF Good, IsShape, OfKind, Ordinary
<1>2. /\ p \in Spends /\ p \in Elements /\ Weight(v) \in Int
      /\ From(v) \in Accounts /\ v \in Txs
      /\ Amounts(f) /\ Amounts(Coins(Tx[p].wallet, Total(p))) /\ Amounts(Tx[p].pays)
  <2>1. p \in Spends /\ p \in Ordinary /\ Weight(v) \in Nat \ {0}
    BY VoteFacts
  <2>2. SumOf(Tx[p].pays) \in Nat /\ Amounts(Tx[p].pays)
    BY <2>1, PaysFacts
  <2>3. Amounts(Coins(Tx[p].wallet, Total(p)))
    BY <2>2, CoinsFacts DEF Total
  <2>4. QED
    BY <1>1, <2>1, <2>2, <2>3, TxFacts
<1>3. /\ IsState(u) /\ Signed(u, s, v)
      /\ u.slaves = s.slaves /\ u.lattice = s.lattice /\ u.wallets = s.wallets
      /\ u.tokens = s.tokens
      /\ x => /\ u.votes = D
              /\ u.balance = Paid(b, p)
              /\ u.log = Longer(Longer(L, "tx", A, p), "tx", OnlySigner(v), v)
      /\ ~ x => /\ u.votes = C
                /\ u.balance = b
                /\ u.log = Longer(L, "tx", OnlySigner(v), v)
  <2>1. IsState(s)
    BY <1>1
  <2>2. VoteDone(u, s, v, n)
    BY <2>1, VoteApplied
  <2> HIDE DEF u
  <2>3. QED
    BY <2>2 DEF VoteDone
<1>4. LET y == Withdrawable(r, p, n)
      IN  /\ IsState(z) /\ Unsigned(z, r, v)
          /\ z.slaves = r.slaves /\ z.lattice = r.lattice /\ z.wallets = r.wallets
          /\ z.tokens = r.tokens
          /\ y => /\ z.votes = Recount(SetExecuted(r.votes, p, FALSE),
                                       p, From(v), Weight(v), Tx[v].unvote, e.prev)
                  /\ z.balance = Increase(Unpaid(r.balance, p), f)
                  /\ z.log = Shorter(Shorter(Shorter(r.log, "tx", A), "tx", {From(v)}),
                                     "tx", OnlySigner(v))
          /\ ~ y => /\ z.votes = Recount(r.votes, p, From(v), Weight(v), Tx[v].unvote, e.prev)
                    /\ z.balance = Increase(r.balance, f)
                    /\ z.log = Shorter(Shorter(r.log, "tx", {From(v)}), "tx", OnlySigner(v))
          /\ z.raised \in BOOLEAN
  <2>1. IsState(r) /\ e.tx = v
    BY <1>1
  <2>2. VoteUndid(z, r, v, e.prev, n)
    BY <2>1, VoteReverted
  <2> HIDE DEF z
  <2>3. QED
    BY <2>2 DEF VoteUndid
<1> HIDE DEF u, z
<1>5. /\ r.balance = u.balance /\ SameKeys(r, u)
      /\ r.slaves = u.slaves /\ r.lattice = u.lattice /\ r.tokens = u.tokens
      /\ r.wallets = u.wallets /\ r.votes = u.votes
      /\ \A m \in Logs, a \in Addresses : Shown(u.wallets, m, a) => r.log[m][a] = u.log[m][a]
  BY DEF Same, SameRest, u
<1>6. LET E == SetExecuted(D, p, FALSE)
      IN  /\ C \in [Spends -> VoteStates] /\ D \in [Spends -> VoteStates]
          /\ ~ C[p].executed /\ D[p].executed /\ D[p].weight = C[p].weight
          /\ Recount(C, p, From(v), Weight(v), Tx[v].unvote, e.prev) = s.votes
          /\ Recount(E, p, From(v), Weight(v), Tx[v].unvote, e.prev) = s.votes
  <2>1. ~ s.votes[p].executed /\ (Tx[v].unvote <=> From(v) \in s.votes[p].voted)
    BY DEF ValidMultiSigVote
  <2>2. e.prev = s.votes[p].last[From(v)]
    OBVIOUS
  <2>3. C = Recount(s.votes, p, From(v), Weight(v), ~ Tx[v].unvote, v)
    BY DEF Counted
  <2>4. v \in Txs \cup {NoTx} /\ (~ Tx[v].unvote <=> ~ (From(v) \in s.votes[p].voted))
        /\ (~ Tx[v].unvote <=> ~ Tx[v].unvote)
    BY <1>2, <2>1
  <2> DEFINE back == s.votes[p].last[From(v)]
             wt == Weight(v)
             for == ~ Tx[v].unvote
  <2> HIDE DEF p, C, D, wt, for
  <2>5. /\ C = Recount(s.votes, p, From(v), wt, for, v)
        /\ (for <=> ~ Tx[v].unvote) /\ (for <=> From(v) \notin s.votes[p].voted)
        /\ wt \in Int
    BY <1>2, <2>3, <2>4 DEF for, wt
  <2>8. Countable(s.votes, p, From(v), wt, for, Tx[v].unvote, v)
    BY <1>1, <1>2, <2>1, <2>4, <2>5 DEF Countable
  <2>6. Uncounts(s.votes, p, From(v), wt, for, Tx[v].unvote, v)
    BY <2>8, CountedUndone
  <2>7. QED
    BY <2>2, <2>5, <2>6 DEF Uncounts, D, wt
<1>7. x => /\ ~ C[p].executed
           /\ C[p].weight >= Tx[Creation(p)].threshold
           /\ n <= Tx[p].expiry
  BY DEF Executes
<1>8. /\ s.log \in Lists /\ r.log \in Lists
      /\ "tx" \in Logs /\ v \in Elements /\ p \in Elements
  BY <1>1, <1>2, TxFacts DEF Logs
<1> HIDE DEF p, f, A, C, D, b
<1>9. SameKeys(z, s)
  BY <1>1, <1>3, <1>4, <1>5, SignatureUndone
<1>10. ASSUME NEW m \in Logs, NEW a \in Addresses, Shown(s.wallets, m, a)
       PROVE  r.log[m][a] = u.log[m][a]
  BY <1>3, <1>5, <1>10
<1>11. ASSUME x
       PROVE  /\ z.balance = s.balance /\ SameRest(z, s)
              /\ \A m \in Logs, a \in Addresses :
                   Shown(s.wallets, m, a) => z.log \in Lists /\ z.log[m][a] = s.log[m][a]
  <2>1. u.votes = D /\ u.balance = Paid(b, p)
        /\ u.log = Longer(Longer(L, "tx", A, p), "tx", OnlySigner(v), v)
    BY <1>3, <1>11
  <2>2. Withdrawable(r, p, n)
    BY <1>5, <1>6, <1>7, <1>11, <2>1 DEF Withdrawable
  <2>3. z.votes = Recount(SetExecuted(D, p, FALSE), p, From(v), Weight(v), Tx[v].unvote, e.prev)
        /\ z.balance = Increase(Unpaid(Paid(b, p), p), f)
        /\ z.log = Shorter(Shorter(Shorter(r.log, "tx", A), "tx", {From(v)}),
                           "tx", OnlySigner(v))
    BY <1>4, <1>5, <2>1, <2>2
  <2>4. SameRest(z, s)
    BY <1>3, <1>4, <1>5, <1>6, <2>3 DEF SameRest
  <2>5. z.balance = s.balance
    <3>1. b \in [Addresses -> Int]
      BY <1>1, <1>2, BalanceFacts DEF b
    <3>2. Unpaid(Paid(b, p), p) = b
      BY <1>2, <3>1, BalanceUndone DEF Unpaid, Paid
    <3>3. QED
      BY <1>1, <1>2, <2>3, <3>2, BalanceUndone DEF b
  <2>6. ASSUME NEW m \in Logs, NEW a \in Addresses, Shown(s.wallets, m, a)
        PROVE  z.log \in Lists /\ z.log[m][a] = s.log[m][a]
    <3>1. r.log[m][a] = Longer(Longer(L, "tx", A, p), "tx", OnlySigner(v), v)[m][a]
      BY <1>10, <2>1, <2>6
    <3>2. /\ Hit(m, a, "tx", {From(v)}) \in Int /\ Hit(m, a, "tx", A) \in Int
          /\ Hit(m, a, "tx", OnlySigner(v)) \in Int
      BY DEF Hit
    <3>3. Matched3(s.log, r.log, m, a, "tx", {From(v)}, v, "tx", A,
                   "tx", A, p, "tx", {From(v)},
                   "tx", OnlySigner(v), v, "tx", OnlySigner(v))
      BY <1>8, <3>1, <3>2 DEF Matched3
    <3>4. QED
      BY <2>3, <3>3, Undone3
  <2>7. QED
    BY <2>4, <2>5, <2>6
<1>12. ASSUME ~ x
       PROVE  /\ z.balance = s.balance /\ SameRest(z, s)
              /\ \A m \in Logs, a \in Addresses :
                   Shown(s.wallets, m, a) => z.log \in Lists /\ z.log[m][a] = s.log[m][a]
  <2>1. u.votes = C /\ u.balance = b
        /\ u.log = Longer(L, "tx", OnlySigner(v), v)
    BY <1>3, <1>12
  <2>2. ~ Withdrawable(r, p, n)
    BY <1>5, <1>6, <2>1 DEF Withdrawable
  <2>3. z.votes = Recount(C, p, From(v), Weight(v), Tx[v].unvote, e.prev)
        /\ z.balance = Increase(b, f)
        /\ z.log = Shorter(Shorter(r.log, "tx", {From(v)}), "tx", OnlySigner(v))
    BY <1>4, <1>5, <2>1, <2>2
  <2>4. SameRest(z, s)
    BY <1>3, <1>4, <1>5, <1>6, <2>3 DEF SameRest
  <2>5. z.balance = s.balance
    BY <1>1, <1>2, <2>3, BalanceUndone DEF b
  <2>6. ASSUME NEW m \in Logs, NEW a \in Addresses, Shown(s.wallets, m, a)
        PROVE  z.log \in Lists /\ z.log[m][a] = s.log[m][a]
    <3>1. r.log[m][a] = Longer(L, "tx", OnlySigner(v), v)[m][a]
      BY <1>10, <2>1, <2>6
    <3>2. Matched2(s.log, r.log, m, a, "tx", {From(v)}, v, "tx", {From(v)},
                   "tx", OnlySigner(v), v, "tx", OnlySigner(v))
      BY <1>8, <3>1 DEF Matched2
    <3>3. QED
      BY <2>3, <3>2, Undone2
  <2>7. QED
    BY <2>4, <2>5, <2>6
<1>13. QED
  <2>1. /\ z.balance = s.balance /\ SameRest(z, s)
        /\ \A m \in Logs, a \in Addresses :
             Shown(s.wallets, m, a) => z.log \in Lists /\ z.log[m][a] = s.log[m][a]
    BY <1>11, <1>12
  <2>2. "inbox" \in Logs /\ Mint \in Addresses /\ Shown(s.wallets, "inbox", Mint)
    BY DEF Logs, Addresses, Shown
  <2>3. z.log \in Lists
    BY <2>1, <2>2
  <2>4. Same(z, s)
    BY <1>9, <2>1 DEF Same
  <2>5. QED
    BY <1>1, <1>4, <2>3, <2>4, ShapeAgain DEF z


(* A block's first step and its undoing.                                    *)
LEMMA CoinbaseUndone ==
  ASSUME NEW s, Good(s), NEW n \in 1 .. MaxHeight, NEW fees \in Nat,
         NEW r, IsShape(r), Same(r, ApplyCoinbase(s, n, fees)), ~ r.raised
  PROVE  LET v == RevertCoinbase(r, n, fees) IN Same(v, s) /\ IsShape(v) /\ v.raised = FALSE
<1> DEFINE u == ApplyCoinbase(s, n, fees)
           v == RevertCoinbase(r, n, fees)
           c == Coinbase[n]
           to == Tx[c].to
           p == Coins(to, Reward + fees)
           q == Coins(Mint, Reward)
<1>1. /\ IsShape(s) /\ IsState(s) /\ IsState(r) /\ s.log \in Lists /\ r.log \in Lists
      /\ s.balance \in [Addresses -> Int]
      /\ s.nonce \in [Accounts \cup {Mint} -> Int]
  BY DEF Good, IsShape
<1>2. /\ c \in Elements /\ to \in Accounts /\ to # Mint
      /\ to \in Addresses /\ Mint \in Addresses
      /\ Reward \in Nat /\ Amounts(p) /\ Amounts(q)
  BY TxAssumption, ChainAssumption, AddressAssumption, CoinsFacts
  DEF OfKind, Elements, Addresses
<1>3. /\ SameRest(u, s) /\ u.keys = s.keys
      /\ u.nonce = [s.nonce EXCEPT ![Mint] = @ + 1]
      /\ u.balance = Decrease(Increase(s.balance, p), q)
      /\ u.log = Longer(Longer(s.log, "tx", {to}, c), "tx", {Mint}, c)
  <2>1. IsState(s)
    BY <1>1
  <2>2. CoinbaseDone(u, s, n, fees)
    BY <2>1, CoinbaseApplied
  <2> HIDE DEF u
  <2>3. QED
    BY <2>2 DEF CoinbaseDone
<1>4. /\ IsState(v) /\ SameRest(v, r) /\ v.keys = r.keys
      /\ v.nonce = [r.nonce EXCEPT ![Mint] = @ - 1]
      /\ v.balance = Increase(Decrease(r.balance, p), q)
      /\ v.log = Shorter(Shorter(r.log, "tx", {to}), "tx", {Mint})
      /\ v.raised \in BOOLEAN
      /\ v.raised => \/ r.raised
                     \/ ~ EndsWith(r.log["tx"][to], c)
                     \/ ~ EndsWith(Shorter(r.log, "tx", {to})["tx"][Mint], c)
  BY <1>1, CoinbaseReverted
<1> HIDE DEF u, v
<1>5. /\ r.balance = u.balance /\ SameKeys(r, u)
      /\ r.slaves = u.slaves /\ r.lattice = u.lattice /\ r.tokens = u.tokens
      /\ r.wallets = u.wallets /\ r.votes = u.votes
      /\ \A m \in Logs, a \in Addresses : Shown(u.wallets, m, a) => r.log[m][a] = u.log[m][a]
  BY DEF Same, SameRest, u
<1> HIDE DEF p, q, c, to
<1>6. v.balance = s.balance
  <2>1. v.balance = Increase(Decrease(Decrease(Increase(s.balance, p), q), p), q)
    BY <1>3, <1>4, <1>5
  <2>2. QED
    BY <1>1, <1>2, <2>1, BalanceUndone
<1>7. SameKeys(v, s)
  <2>1. v.keys = s.keys
    BY <1>3, <1>4, <1>5 DEF SameKeys
  <2>2. v.nonce = [[s.nonce EXCEPT ![Mint] = @ + 1] EXCEPT ![Mint] = @ - 1]
    BY <1>3, <1>4, <1>5 DEF SameKeys
  <2>3. v.nonce = s.nonce
    BY <1>1, <2>2
  <2>4. QED
    BY <2>1, <2>3 DEF SameKeys
<1>8. SameRest(v, s)
  BY <1>3, <1>4, <1>5 DEF SameRest
<1>9. ASSUME NEW m \in Logs, NEW a \in Addresses, Shown(s.wallets, m, a)
      PROVE  r.log[m][a] = u.log[m][a] /\ v.log \in Lists /\ v.log[m][a] = s.log[m][a]
  <2>1. r.log[m][a] = u.log[m][a]
    BY <1>3, <1>5, <1>9 DEF SameRest
  <2>2. "tx" \in Logs
    BY DEF Logs
  <2>3. Matched2(s.log, r.log, m, a, "tx", {to}, c, "tx", {to}, "tx", {Mint}, c, "tx", {Mint})
    BY <1>1, <1>2, <1>3, <2>1, <2>2 DEF Matched2
  <2>4. QED
    BY <1>4, <2>1, <2>3, Undone2
<1>10. "tx" \in Logs /\ Shown(s.wallets, "tx", Mint) /\ Shown(s.wallets, "tx", to)
  BY <1>2, AddressAssumption DEF Logs, Shown
<1>11. v.log \in Lists
  BY <1>2, <1>9, <1>10
<1>12. Same(v, s)
  BY <1>6, <1>7, <1>8, <1>9 DEF Same
<1>13. ~ v.raised
  <2> DEFINE q1 == s.log["tx"][to]
             q2 == s.log["tx"][Mint]
  <2>1. q1 \in Seq(Elements) /\ q2 \in Seq(Elements)
    BY <1>1, <1>2, <1>10 DEF Lists
  <2>2. r.log["tx"][to] = Append(q1, c) /\ r.log["tx"][Mint] = Append(q2, c)
    <3>1. r.log["tx"][to] = u.log["tx"][to] /\ r.log["tx"][Mint] = u.log["tx"][Mint]
      BY SMTT(60), <1>2, <1>9, <1>10
    <3>2. u.log["tx"][to] = Append(q1, c) /\ u.log["tx"][Mint] = Append(q2, c)
      BY <1>1, <1>2, <1>3, <1>10 DEF Longer, Lists
    <3>3. QED
      BY <3>1, <3>2
  <2>3. Shorter(r.log, "tx", {to})["tx"][Mint] = r.log["tx"][Mint]
    BY <1>1, <1>2, <1>10 DEF Shorter, Lists
  <2> HIDE DEF q1, q2
  <2>4. EndsWith(Append(q1, c), c) /\ EndsWith(Append(q2, c), c)
    BY <1>2, <2>1 DEF EndsWith
  <2>5. QED
    BY <1>4, <2>2, <2>3, <2>4
<1>14. v.raised = FALSE
  BY <1>4, <1>13
<1>15. QED
  BY <1>1, <1>4, <1>11, <1>12, <1>14, ShapeAgain DEF v

(* What a valid transaction brings, by kind.                                *)
LEMMA ValidFacts ==
  ASSUME NEW s, NEW t \in Ordinary, NEW n, Valid(s, t, n)
  PROVE  /\ KeyUnused(s, t)
         /\ s.balance[From(t)] >= Tx[t].fee
         /\ Tx[t].kind \in Kinds \ {"coinbase"}
         /\ t \in OfKind("transfer") => ValidTransfer(s, t)
         /\ t \in OfKind("lattice") => ValidLattice(s, t)
         /\ t \in OfKind("slave") => ValidSlave(s, t)
         /\ t \in OfKind("transfer_token") => ValidTransferToken(s, t)
         /\ t \in Spends => ValidMultiSigSpend(s, t, n)
         /\ t \in OfKind("multi_sig_vote") => ValidMultiSigVote(s, t, n)
<1>1. KeyUnused(s, t) /\ s.balance[From(t)] >= Tx[t].fee
  BY DEF Valid, Authorised, KeyFree, KeyUnused
<1>2. Tx[t].kind \in Kinds \ {"coinbase"}
  BY TxAssumption DEF Ordinary, OfKind
<1>3. /\ Tx[t].kind = "transfer" => ValidTransfer(s, t)
      /\ Tx[t].kind = "lattice" => ValidLattice(s, t)
      /\ Tx[t].kind = "slave" => ValidSlave(s, t)
      /\ Tx[t].kind = "transfer_token" => ValidTransferToken(s, t)
      /\ Tx[t].kind = "multi_sig_spend" => ValidMultiSigSpend(s, t, n)
      /\ Tx[t].kind = "multi_sig_vote" => ValidMultiSigVote(s, t, n)
  BY DEF Valid
<1>4. QED
  BY <1>1, <1>2, <1>3 DEF OfKind, Spends

(* Undoing the transaction that was applied last gives back the state       *)
(* before it.                                                               *)
LEMMA UndoStep ==
  ASSUME NEW s, Good(s), NEW t \in Ordinary, NEW n, Valid(s, t, n),
         NEW r, IsShape(r), Same(r, Apply(s, t, n)),
         NEW e, e = Entry(s, t)
  PROVE  Same(Revert(r, e, n), s) /\ IsShape(Revert(r, e, n))
<1> DEFINE k == Tx[t].kind
<1>1. /\ KeyUnused(s, t) /\ k \in Kinds \ {"coinbase"} /\ t \in Txs /\ e.tx = t
      /\ k = "multi_sig_vote" => e.prev = s.votes[Tx[t].spend].last[From(t)]
  BY ValidFacts DEF Entry, Ordinary
<1>2. CASE k = "transfer"
  <2>1. t \in OfKind("transfer") /\ Apply(s, t, n) = ApplyTransfer(s, t)
        /\ Revert(r, e, n) = RevertTransfer(r, t)
    BY <1>1, <1>2 DEF OfKind, Apply, Revert
  <2>2. QED
    BY <1>1, <2>1, TransferUndone
<1>3. CASE k = "message"
  <2>1. t \in OfKind("message") /\ Apply(s, t, n) = ApplyMessage(s, t)
        /\ Revert(r, e, n) = RevertMessage(r, t)
    BY <1>1, <1>3 DEF OfKind, Apply, Revert
  <2>2. QED
    BY <1>1, <2>1, MessageUndone
<1>4. CASE k = "lattice"
  <2>1. t \in OfKind("lattice") /\ Apply(s, t, n) = ApplyLattice(s, t)
        /\ Revert(r, e, n) = RevertLattice(r, t)
    BY <1>1, <1>4 DEF OfKind, Apply, Revert
  <2>2. ValidLattice(s, t)
    BY <2>1, ValidFacts
  <2>3. QED
    BY <1>1, <2>1, <2>2, LatticeUndone
<1>5. CASE k = "slave"
  <2>1. t \in OfKind("slave") /\ Apply(s, t, n) = ApplySlave(s, t)
        /\ Revert(r, e, n) = RevertSlave(r, t)
    BY <1>1, <1>5 DEF OfKind, Apply, Revert
  <2>2. ValidSlave(s, t)
    BY <2>1, ValidFacts
  <2>3. QED
    BY <1>1, <2>1, <2>2, SlaveUndone
<1>6. CASE k = "token"
  <2>1. t \in Tokens /\ Apply(s, t, n) = ApplyToken(s, t)
        /\ Revert(r, e, n) = RevertToken(r, t)
    BY <1>1, <1>6 DEF OfKind, Tokens, Apply, Revert
  <2>2. QED
    BY <1>1, <2>1, TokenUndone
<1>7. CASE k = "transfer_token"
  <2>1. t \in OfKind("transfer_token") /\ Apply(s, t, n) = ApplyTransferToken(s, t)
        /\ Revert(r, e, n) = RevertTransferToken(r, t)
    BY <1>1, <1>7 DEF OfKind, Apply, Revert
  <2>2. QED
    BY <1>1, <2>1, TransferTokenUndone
<1>8. CASE k = "multi_sig_create"
  <2>1. t \in Creations /\ Apply(s, t, n) = ApplyMultiSigCreate(s, t)
        /\ Revert(r, e, n) = RevertMultiSigCreate(r, t)
    BY <1>1, <1>8 DEF OfKind, Creations, Apply, Revert
  <2>2. QED
    BY <1>1, <2>1, CreateUndone
<1>9. CASE k = "multi_sig_spend"
  <2>1. t \in Spends /\ Apply(s, t, n) = ApplyMultiSigSpend(s, t)
        /\ Revert(r, e, n) = RevertMultiSigSpend(r, t)
    BY <1>1, <1>9 DEF OfKind, Spends, Apply, Revert
  <2>2. QED
    BY <1>1, <2>1, SpendUndone
<1>10. CASE k = "multi_sig_vote"
  <2>1. t \in OfKind("multi_sig_vote") /\ Apply(s, t, n) = ApplyMultiSigVote(s, t, n)
        /\ Revert(r, e, n) = RevertMultiSigVote(r, e, n)
    BY <1>1, <1>10 DEF OfKind, Apply, Revert
  <2>2. ValidMultiSigVote(s, t, n)
    BY <2>1, ValidFacts
  <2>3. QED
    BY <1>1, <1>10, <2>1, <2>2, VoteUndone
<1>11. QED
  BY <1>1, <1>2, <1>3, <1>4, <1>5, <1>6, <1>7, <1>8, <1>9, <1>10 DEF Kinds

-----------------------------------------------------------------------------
(* A valid transaction leaves a state that the next can rely on.            *)

LEMMA LongerType ==
  ASSUME NEW L \in Lists, NEW l \in Logs, NEW A, NEW e \in Elements
  PROVE  Longer(L, l, A, e) \in Lists
BY DEF Longer, Lists

Harmless(u, s, t) ==
  /\ IsState(u) /\ Signed(u, s, t)
  /\ u.balance \in [Addresses -> Int]
  /\ u.log \in Lists
  /\ u.slaves \subseteq Accounts \X Accounts \X {0, 1}
  /\ u.lattice \subseteq {<<Tx[x].from, Tx[x].keys>> : x \in OfKind("lattice")}
  /\ u.tokens \in [Accounts -> [Tokens -> TokenStates]]
  /\ u.votes \in [Spends -> VoteStates]
  /\ u.raised = s.raised
  /\ \/ u.wallets = s.wallets
     \/ t \in Creations /\ u.wallets = s.wallets \cup {Tx[t].wallet}
  /\ \A w \in Wallets \ u.wallets : u.balance[w] = s.balance[w]
  /\ \A p \in Spends :
       /\ p # t => u.votes[p] = s.votes[p] \/ s.votes[p].live
       /\ u.votes[p].live => \/ s.votes[p].live
                             \/ /\ Tx[p].wallet \in s.wallets
                                /\ Payees(p) \cap Wallets \subseteq s.wallets
  /\ \A a \in Accounts, k \in Tokens :
       /\ k # t => \/ u.tokens[a][k] = s.tokens[a][k]
                   \/ \E b \in Accounts : s.tokens[b][k] # NoToken
       /\ u.tokens[a][k].origin \in {t, s.tokens[a][k].origin}

LEMMA KeysAgain ==
  ASSUME NEW s, Good(s), NEW t \in Ordinary, KeyUnused(s, t), NEW u, Signed(u, s, t)
  PROVE  /\ u.nonce \in [Accounts \cup {Mint} -> Int]
         /\ u.keys \in [Accounts -> KeyStates]
         /\ \A a \in Accounts : GoodKeys(u.keys[a], KeyCount[a])
         /\ \A x \in Ordinary : KeyUnused(u, x) => KeyUnused(s, x) /\ x # t
<1> DEFINE a == Signer(t)
           c == SetKey(s.keys[a], Tx[t].key, KeyCount[a])
<1>1. /\ a \in Accounts
      /\ s.nonce \in [Accounts \cup {Mint} -> Int]
      /\ s.keys \in [Accounts -> KeyStates]
      /\ \A i \in Accounts : GoodKeys(s.keys[i], KeyCount[i])
  BY TxFacts DEF Good, IsShape
<1>2. GoodKeys(c, KeyCount[a]) /\ c.bits = s.keys[a].bits \cup {Tx[t].key}
  BY <1>1, TxFacts, KeyFacts DEF KeyUnused
<1>3. u.nonce = [s.nonce EXCEPT ![a] = @ + 1] /\ u.keys = [s.keys EXCEPT ![a] = c]
  BY DEF Signed
<1> HIDE DEF a, c
<1>4. c \in KeyStates
  BY <1>2 DEF GoodKeys
<1>5. /\ u.nonce \in [Accounts \cup {Mint} -> Int]
      /\ u.keys \in [Accounts -> KeyStates]
      /\ \A i \in Accounts : u.keys[i] = IF i = a THEN c ELSE s.keys[i]
  BY <1>1, <1>3, <1>4
<1>6. \A i \in Accounts : GoodKeys(u.keys[i], KeyCount[i])
  BY <1>1, <1>2, <1>5
<1>7. ASSUME NEW x \in Ordinary, KeyUnused(u, x)
      PROVE  KeyUnused(s, x) /\ x # t
  <2>1. Signer(x) \in Accounts /\ Tx[x].key \notin u.keys[Signer(x)].bits
    BY <1>7, TxFacts DEF KeyUnused
  <2>2. CASE Signer(x) = a
    <3>1. Tx[x].key \notin s.keys[a].bits \cup {Tx[t].key}
      BY <1>2, <1>5, <2>1, <2>2
    <3>2. QED
      BY <2>2, <3>1 DEF KeyUnused
  <2>3. CASE Signer(x) # a
    BY <1>5, <2>1, <2>3 DEF KeyUnused, a
  <2>4. QED
    BY <2>2, <2>3
<1>8. QED
  BY <1>5, <1>6, <1>7

LEMMA GoodAgain ==
  ASSUME NEW s, Good(s), NEW t \in Ordinary, KeyUnused(s, t), NEW u, Harmless(u, s, t)
  PROVE  Good(u) /\ u.raised = s.raised
<1>1. /\ u.nonce \in [Accounts \cup {Mint} -> Int]
      /\ u.keys \in [Accounts -> KeyStates]
      /\ \A a \in Accounts : GoodKeys(u.keys[a], KeyCount[a])
      /\ \A x \in Ordinary : KeyUnused(u, x) => KeyUnused(s, x) /\ x # t
  BY KeysAgain DEF Harmless
<1>2. /\ s.wallets \subseteq u.wallets /\ u.wallets \subseteq Wallets
      /\ \A w \in u.wallets : \E c \in Creations : Tx[c].wallet = w
      /\ \A w \in u.wallets \ s.wallets : t \in Creations /\ w = Tx[t].wallet
  BY FormAssumption DEF Harmless, Good, IsShape
<1>3. IsShape(u)
  <2>1. u.raised \in BOOLEAN
    BY DEF Harmless, Good, IsShape
  <2>2. QED
    BY <1>1, <1>2, <2>1 DEF Harmless, IsShape
<1>4. ASSUME NEW x \in Ordinary, KeyUnused(u, x)
      PROVE  Untouched(u, x)
  <2>1. Untouched(s, x) /\ x # t
    BY <1>1, <1>4 DEF Good
  <2>2. x \in Creations => Tx[x].wallet \notin u.wallets
    BY <1>2, <2>1, FormAssumption DEF Untouched
  <2>3. x \in Spends => u.votes[x] = NoVotes
    BY <2>1 DEF Untouched, Harmless, NoVotes
  <2>4. x \in Tokens => \A a \in Accounts : u.tokens[a][x] = NoToken
    BY SMTT(60), <2>1 DEF Untouched, Harmless
  <2>5. \A a \in Accounts, k \in Tokens : u.tokens[a][k].origin # x
    BY SMTT(60), <2>1 DEF Untouched, Harmless
  <2>6. QED
    BY <2>2, <2>3, <2>4, <2>5 DEF Untouched
<1>5. \A w \in Wallets \ u.wallets : u.balance[w] = 0
  BY <1>2 DEF Harmless, Good
<1>6. \A p \in Spends : u.votes[p].live => /\ Tx[p].wallet \in u.wallets
                                           /\ Payees(p) \cap Wallets \subseteq u.wallets
  BY <1>2 DEF Harmless, Good
<1>7. u.raised = s.raised
  BY DEF Harmless
<1>8. QED
  BY <1>1, <1>2, <1>3, <1>4, <1>5, <1>6, <1>7 DEF Good

LEMMA NewVotes == NoVotes \in VoteStates /\ [NoVotes EXCEPT !.live = TRUE] \in VoteStates
<1> DEFINE l == [a \in Accounts |-> NoTx]
           v == [live |-> FALSE, voted |-> {}, last |-> l, weight |-> 0, executed |-> FALSE]
           x == [v EXCEPT !.live = TRUE]
<1>1. l \in [Accounts -> Txs \cup {NoTx}]
  OBVIOUS
<1>2. NoVotes = v
  BY DEF NoVotes
<1> HIDE DEF l
<1>3. v \in VoteStates
  BY <1>1 DEF VoteStates
<1> HIDE DEF v
<1>4. x \in VoteStates
  BY <1>3 DEF VoteStates
<1>5. QED
  BY <1>2, <1>3, <1>4

(* Nothing but the records of t has changed.                                *)
OnlyNew(M, T, t) ==
  /\ M \in [Accounts -> [Tokens -> TokenStates]]
  /\ \A a \in Accounts, k \in Tokens :
       /\ k # t => M[a][k] = T[a][k]
       /\ M[a][k].origin \in {t, T[a][k].origin}

LEMMA MadeFacts ==
  ASSUME NEW T \in [Accounts -> [Tokens -> TokenStates]], NEW t \in Tokens
  PROVE  OnlyNew(Made(T, t), T, t)
<1> DEFINE z(a) == [balance |-> Tx[t].pays[a], origin |-> t]
<1>1. /\ \A a \in Accounts : a \in Payees(t) => Tx[t].pays[a] \in Int
      /\ t \in Txs
  BY PaysFacts DEF Tokens, OfKind
<1>2. \A a \in Accounts : a \in Payees(t) => z(a) \in TokenStates /\ z(a).origin = t
  BY <1>1 DEF TokenStates
<1>3. \A a \in Accounts :
        Made(T, t)[a] = IF a \in Payees(t) THEN [T[a] EXCEPT ![t] = z(a)] ELSE T[a]
  BY DEF Made
<1>4. Made(T, t) = [a \in Accounts |-> Made(T, t)[a]]
  BY DEF Made
<1> HIDE DEF z
<1>5. \A a \in Accounts : Made(T, t)[a] \in [Tokens -> TokenStates]
  BY <1>2, <1>3
<1>6. Made(T, t) \in [Accounts -> [Tokens -> TokenStates]]
  BY <1>4, <1>5
<1>7. \A a \in Accounts, k \in Tokens : Made(T, t)[a][k] =
        IF k = t /\ a \in Payees(t) THEN z(a) ELSE T[a][k]
  BY <1>2, <1>3
<1>8. QED
  BY <1>2, <1>6, <1>7 DEF OnlyNew

LEMMA TransferKept ==
  ASSUME NEW s, Good(s), NEW t \in OfKind("transfer"), KeyUnused(s, t),
         ValidTransfer(s, t)
  PROVE  Harmless(ApplyTransfer(s, t), s, t)
<1> DEFINE u == ApplyTransfer(s, t)
           p == TransferTotal(t)
           q == Tx[t].pays
           A == OthersIn(t, Payees(t))
<1>1. /\ t \in Ordinary
      /\ IsShape(s) /\ IsState(s) /\ s.log \in Lists
      /\ s.balance \in [Addresses -> Int]
  BY DEF Good, IsShape, OfKind, Ordinary, Spends, Creations, Tokens
<1>2. /\ Amounts(p) /\ Amounts(q)
  BY <1>1, TxFacts, PaysFacts, CoinsFacts DEF TransferTotal
<1>3. /\ IsState(u) /\ Signed(u, s, t)
      /\ SameRest(u, s)
      /\ u.balance = Increase(Decrease(s.balance, p), q)
      /\ u.log = Longer(Longer(Longer(s.log, "tx", {From(t)}, t), "tx", A, t),
                      "tx", OnlySigner(t), t)
      /\ u.raised = s.raised
  BY <1>1, TransferApplied
<1> HIDE DEF u
<1>4. u.log \in Lists
  <2>1. "tx" \in Logs
    BY DEF Logs
  <2>2. t \in Elements
    BY <1>1, <1>2, TxFacts
  <2> HIDE DEF p, q, A
  <2>3. Longer(s.log, "tx", {From(t)}, t) \in Lists
    BY <1>1, <2>1, <2>2, LongerType
  <2>4. Longer(Longer(s.log, "tx", {From(t)}, t), "tx", A, t) \in Lists
    BY <1>1, <2>1, <2>2, <2>3, LongerType
  <2>5. Longer(Longer(Longer(s.log, "tx", {From(t)}, t), "tx", A, t),
              "tx", OnlySigner(t), t) \in Lists
    BY <1>1, <2>1, <2>2, <2>4, LongerType
  <2>6. QED
    BY <1>3, <2>5
<1>5. /\ u.balance \in [Addresses -> Int]
      /\ \A w \in Wallets \ s.wallets : u.balance[w] = s.balance[w]
  <2> DEFINE b == Decrease(s.balance, p)
  <2>1. b \in [Addresses -> Int] /\ \A a \in Addresses : b[a] = s.balance[a] - Part(p, a)
    BY <1>1, <1>2, BalanceFacts
  <2>2. /\ u.balance \in [Addresses -> Int]
        /\ \A a \in Addresses : u.balance[a] = b[a] + Part(q, a)
    <3>1. u.balance = Increase(b, q)
      BY <1>3
    <3> HIDE DEF b
    <3>2. QED
      BY <1>2, <2>1, <3>1, BalanceFacts
  <2> HIDE DEF b
  <2>3. \A w \in Wallets : w \in Addresses /\ w # From(t) /\ s.balance[w] \in Int
    BY <1>1, AddressAssumption, TxFacts DEF Addresses
  <2>4. \A w \in Wallets : Part(p, w) = 0
    <3>1. SumOf(Tx[t].pays) + Tx[t].fee \in Int
      BY <1>1, PaysFacts, TxFacts
    <3>2. QED
      BY <2>3, <3>1, CoinsFacts DEF TransferTotal
  <2>5. \A w \in Wallets \ s.wallets : Part(q, w) = 0
    BY DEF ValidTransfer, Part, Payees
  <2>6. QED
    BY <2>1, <2>2, <2>3, <2>4, <2>5
<1>6. /\ u.votes = s.votes /\ u.tokens = s.tokens /\ u.wallets = s.wallets
      /\ u.slaves = s.slaves /\ u.lattice = s.lattice
  BY <1>3 DEF SameRest
<1>7. QED
  BY <1>1, <1>3, <1>4, <1>5, <1>6 DEF Harmless, u, IsShape, SameRest

LEMMA MessageKept ==
  ASSUME NEW s, Good(s), NEW t \in OfKind("message"), KeyUnused(s, t)
  PROVE  Harmless(ApplyMessage(s, t), s, t)
<1> DEFINE u == ApplyMessage(s, t)
           p == Fee(t)
           A == OthersIn(t, Tx[t].to)
<1>1. /\ t \in Ordinary
      /\ IsShape(s) /\ IsState(s) /\ s.log \in Lists
      /\ s.balance \in [Addresses -> Int]
  BY DEF Good, IsShape, OfKind, Ordinary, Spends, Creations, Tokens
<1>2. /\ Amounts(p)
  BY <1>1, TxFacts
<1>3. /\ IsState(u) /\ Signed(u, s, t)
      /\ SameRest(u, s)
      /\ u.balance = Decrease(s.balance, p)
      /\ u.log = Longer(Longer(Longer(Longer(s.log, "tx", {From(t)}, t), "tx", A, t),
                      "inbox", A, t), "tx", OnlySigner(t), t)
      /\ u.raised = s.raised
  BY <1>1, MessageApplied
<1> HIDE DEF u
<1>4. u.log \in Lists
  <2>1. "inbox" \in Logs /\ "tx" \in Logs
    BY DEF Logs
  <2>2. t \in Elements
    BY <1>1, <1>2, TxFacts
  <2> HIDE DEF p, A
  <2>3. Longer(s.log, "tx", {From(t)}, t) \in Lists
    BY <1>1, <2>1, <2>2, LongerType
  <2>4. Longer(Longer(s.log, "tx", {From(t)}, t), "tx", A, t) \in Lists
    BY <1>1, <2>1, <2>2, <2>3, LongerType
  <2>5. Longer(Longer(Longer(s.log, "tx", {From(t)}, t), "tx", A, t), "inbox", A, t) \in Lists
    BY <1>1, <2>1, <2>2, <2>4, LongerType
  <2>6. Longer(Longer(Longer(Longer(s.log, "tx", {From(t)}, t), "tx", A, t),
              "inbox", A, t), "tx", OnlySigner(t), t) \in Lists
    BY <1>1, <2>1, <2>2, <2>5, LongerType
  <2>7. QED
    BY <1>3, <2>6
<1>5. /\ u.balance \in [Addresses -> Int]
      /\ \A w \in Wallets : u.balance[w] = s.balance[w]
  <2>1. /\ u.balance \in [Addresses -> Int]
        /\ \A a \in Addresses : u.balance[a] = s.balance[a] - Part(p, a)
    BY <1>1, <1>2, <1>3, BalanceFacts
  <2>2. \A w \in Wallets : w \in Addresses /\ w # From(t) /\ s.balance[w] \in Int
    BY <1>1, AddressAssumption, TxFacts DEF Addresses
  <2>3. \A w \in Wallets : Part(p, w) = 0
    BY <1>1, <2>2, TxFacts, CoinsFacts DEF Fee
  <2>4. QED
    BY <2>1, <2>2, <2>3
<1>6. /\ u.votes = s.votes /\ u.tokens = s.tokens /\ u.wallets = s.wallets
      /\ u.slaves = s.slaves /\ u.lattice = s.lattice
  BY <1>3 DEF SameRest
<1>7. QED
  BY <1>1, <1>3, <1>4, <1>5, <1>6 DEF Harmless, u, IsShape, SameRest

LEMMA LatticeKept ==
  ASSUME NEW s, Good(s), NEW t \in OfKind("lattice"), KeyUnused(s, t)
  PROVE  Harmless(ApplyLattice(s, t), s, t)
<1> DEFINE u == ApplyLattice(s, t)
           p == Fee(t)
           x == <<From(t), Tx[t].keys>>
<1>1. /\ t \in Ordinary
      /\ IsShape(s) /\ IsState(s) /\ s.log \in Lists
      /\ s.balance \in [Addresses -> Int]
  BY DEF Good, IsShape, OfKind, Ordinary, Spends, Creations, Tokens
<1>2. /\ Amounts(p)
  BY <1>1, TxFacts
<1>3. /\ IsState(u) /\ Signed(u, s, t)
      /\ u.slaves = s.slaves /\ u.lattice = s.lattice \cup {x}
      /\ u.tokens = s.tokens /\ u.wallets = s.wallets
      /\ u.votes = s.votes
      /\ u.balance = Decrease(s.balance, p)
      /\ u.log = Longer(Longer(Longer(s.log, "tx", {From(t)}, t), "lattice", {From(t)}, t),
                      "tx", OnlySigner(t), t)
      /\ u.raised = s.raised
  BY ZenonT(60), <1>1, LatticeApplied
<1> HIDE DEF u
<1>4. u.log \in Lists
  <2>1. "lattice" \in Logs /\ "tx" \in Logs
    BY DEF Logs
  <2>2. t \in Elements
    BY <1>1, <1>2, TxFacts
  <2> HIDE DEF p, x
  <2>3. Longer(s.log, "tx", {From(t)}, t) \in Lists
    BY <1>1, <2>1, <2>2, LongerType
  <2>4. Longer(Longer(s.log, "tx", {From(t)}, t), "lattice", {From(t)}, t) \in Lists
    BY <1>1, <2>1, <2>2, <2>3, LongerType
  <2>5. Longer(Longer(Longer(s.log, "tx", {From(t)}, t), "lattice", {From(t)}, t),
              "tx", OnlySigner(t), t) \in Lists
    BY <1>1, <2>1, <2>2, <2>4, LongerType
  <2>6. QED
    BY <1>3, <2>5
<1>5. /\ u.balance \in [Addresses -> Int]
      /\ \A w \in Wallets : u.balance[w] = s.balance[w]
  <2>1. /\ u.balance \in [Addresses -> Int]
        /\ \A a \in Addresses : u.balance[a] = s.balance[a] - Part(p, a)
    BY <1>1, <1>2, <1>3, BalanceFacts
  <2>2. \A w \in Wallets : w \in Addresses /\ w # From(t) /\ s.balance[w] \in Int
    BY <1>1, AddressAssumption, TxFacts DEF Addresses
  <2>3. \A w \in Wallets : Part(p, w) = 0
    BY <1>1, <2>2, TxFacts, CoinsFacts DEF Fee
  <2>4. QED
    BY <2>1, <2>2, <2>3
<1>6. /\ u.votes = s.votes /\ u.tokens = s.tokens /\ u.wallets = s.wallets
      /\ u.slaves = s.slaves
      /\ u.lattice \subseteq {<<Tx[y].from, Tx[y].keys>> : y \in OfKind("lattice")}
  BY <1>1, <1>3 DEF IsShape, From
<1>7. QED
  BY <1>1, <1>3, <1>4, <1>5, <1>6 DEF Harmless, u, IsShape

LEMMA SlaveKept ==
  ASSUME NEW s, Good(s), NEW t \in OfKind("slave"), KeyUnused(s, t)
  PROVE  Harmless(ApplySlave(s, t), s, t)
<1> DEFINE u == ApplySlave(s, t)
           p == Fee(t)
           X == SlavesOf(t)
<1>1. /\ t \in Ordinary
      /\ IsShape(s) /\ IsState(s) /\ s.log \in Lists
      /\ s.balance \in [Addresses -> Int]
  BY DEF Good, IsShape, OfKind, Ordinary, Spends, Creations, Tokens
<1>2. /\ Amounts(p)
  BY <1>1, TxFacts
<1>3. /\ IsState(u) /\ Signed(u, s, t)
      /\ u.slaves = s.slaves \cup X /\ u.lattice = s.lattice
      /\ u.tokens = s.tokens /\ u.wallets = s.wallets
      /\ u.votes = s.votes
      /\ u.balance = Decrease(s.balance, p)
      /\ u.log = Longer(Longer(Longer(s.log, "tx", {From(t)}, t), "slaves", {From(t)}, t),
                      "tx", OnlySigner(t), t)
      /\ u.raised = s.raised
  BY <1>1, SlaveApplied
<1> HIDE DEF u
<1>4. u.log \in Lists
  <2>1. "slaves" \in Logs /\ "tx" \in Logs
    BY DEF Logs
  <2>2. t \in Elements
    BY <1>1, <1>2, TxFacts
  <2> HIDE DEF p, X
  <2>3. Longer(s.log, "tx", {From(t)}, t) \in Lists
    BY <1>1, <2>1, <2>2, LongerType
  <2>4. Longer(Longer(s.log, "tx", {From(t)}, t), "slaves", {From(t)}, t) \in Lists
    BY <1>1, <2>1, <2>2, <2>3, LongerType
  <2>5. Longer(Longer(Longer(s.log, "tx", {From(t)}, t), "slaves", {From(t)}, t),
              "tx", OnlySigner(t), t) \in Lists
    BY <1>1, <2>1, <2>2, <2>4, LongerType
  <2>6. QED
    BY <1>3, <2>5
<1>5. /\ u.balance \in [Addresses -> Int]
      /\ \A w \in Wallets : u.balance[w] = s.balance[w]
  <2>1. /\ u.balance \in [Addresses -> Int]
        /\ \A a \in Addresses : u.balance[a] = s.balance[a] - Part(p, a)
    BY <1>1, <1>2, <1>3, BalanceFacts
  <2>2. \A w \in Wallets : w \in Addresses /\ w # From(t) /\ s.balance[w] \in Int
    BY <1>1, AddressAssumption, TxFacts DEF Addresses
  <2>3. \A w \in Wallets : Part(p, w) = 0
    BY <1>1, <2>2, TxFacts, CoinsFacts DEF Fee
  <2>4. QED
    BY <2>1, <2>2, <2>3
<1>6. /\ u.votes = s.votes /\ u.tokens = s.tokens /\ u.wallets = s.wallets
      /\ u.slaves \subseteq Accounts \X Accounts \X {0, 1} /\ u.lattice = s.lattice
  <2>1. X \subseteq Accounts \X Accounts \X {0, 1}
    BY <1>1, FormAssumption, TxFacts DEF SlavesOf
  <2>2. QED
    BY <1>1, <1>3, <2>1 DEF IsShape
<1>7. QED
  BY <1>1, <1>3, <1>4, <1>5, <1>6 DEF Harmless, u, IsShape

LEMMA TokenKept ==
  ASSUME NEW s, Good(s), NEW t \in Tokens, KeyUnused(s, t)
  PROVE  Harmless(ApplyToken(s, t), s, t)
<1> DEFINE u == ApplyToken(s, t)
           p == Fee(t)
           A == TokenParties(t)
           B == Payees(t)
<1>1. /\ t \in Ordinary
      /\ IsShape(s) /\ IsState(s) /\ s.log \in Lists
      /\ s.balance \in [Addresses -> Int]
  BY DEF Good, IsShape, OfKind, Ordinary, Spends, Creations, Tokens
<1>2. /\ Amounts(p)
  BY <1>1, TxFacts
<1>3. /\ IsState(u) /\ Signed(u, s, t)
      /\ u.slaves = s.slaves /\ u.lattice = s.lattice
      /\ u.tokens = Made(s.tokens, t) /\ u.wallets = s.wallets
      /\ u.votes = s.votes
      /\ u.balance = Decrease(s.balance, p)
      /\ u.log = Longer(Longer(s.log, "tx", A, t), "tokens", B, t)
      /\ u.raised = s.raised
  BY <1>1, TokenApplied
<1> HIDE DEF u
<1>4. u.log \in Lists
  <2>1. "tokens" \in Logs /\ "tx" \in Logs
    BY DEF Logs
  <2>2. t \in Elements
    BY <1>1, <1>2, TxFacts
  <2> HIDE DEF p, A, B
  <2>3. Longer(s.log, "tx", A, t) \in Lists
    BY <1>1, <2>1, <2>2, LongerType
  <2>4. Longer(Longer(s.log, "tx", A, t), "tokens", B, t) \in Lists
    BY <1>1, <2>1, <2>2, <2>3, LongerType
  <2>5. QED
    BY <1>3, <2>4
<1>5. /\ u.balance \in [Addresses -> Int]
      /\ \A w \in Wallets : u.balance[w] = s.balance[w]
  <2>1. /\ u.balance \in [Addresses -> Int]
        /\ \A a \in Addresses : u.balance[a] = s.balance[a] - Part(p, a)
    BY <1>1, <1>2, <1>3, BalanceFacts
  <2>2. \A w \in Wallets : w \in Addresses /\ w # From(t) /\ s.balance[w] \in Int
    BY <1>1, AddressAssumption, TxFacts DEF Addresses
  <2>3. \A w \in Wallets : Part(p, w) = 0
    BY <1>1, <2>2, TxFacts, CoinsFacts DEF Fee
  <2>4. QED
    BY <2>1, <2>2, <2>3
<1>6. /\ u.votes = s.votes /\ u.wallets = s.wallets
      /\ u.slaves = s.slaves /\ u.lattice = s.lattice
      /\ u.tokens \in [Accounts -> [Tokens -> TokenStates]]
      /\ \A a \in Accounts, k \in Tokens :
           /\ k # t => u.tokens[a][k] = s.tokens[a][k]
           /\ u.tokens[a][k].origin \in {t, s.tokens[a][k].origin}
  <2>1. s.tokens \in [Accounts -> [Tokens -> TokenStates]]
    BY <1>1 DEF IsShape
  <2>2. OnlyNew(u.tokens, s.tokens, t)
    BY SMTT(60), <1>3, <2>1, MadeFacts
  <2>3. QED
    BY <1>3, <2>2 DEF OnlyNew
<1>7. QED
  BY <1>1, <1>3, <1>4, <1>5, <1>6 DEF Harmless, u, IsShape

LEMMA TransferTokenKept ==
  ASSUME NEW s, Good(s), NEW t \in OfKind("transfer_token"), KeyUnused(s, t),
         ValidTransferToken(s, t)
  PROVE  Harmless(ApplyTransferToken(s, t), s, t)
<1> DEFINE u == ApplyTransferToken(s, t)
           p == Fee(t)
           k == Tx[t].token
           N == Holding(s.tokens, t, NoTx)
           A == Payees(t) \ {From(t)}
<1>1. /\ t \in Ordinary
      /\ IsShape(s) /\ IsState(s) /\ s.log \in Lists
      /\ s.balance \in [Addresses -> Int]
  BY DEF Good, IsShape, OfKind, Ordinary, Spends, Creations, Tokens
<1>2. /\ Amounts(p)
      /\ k \in Tokens /\ k \in Elements
  BY <1>1, TxFacts, FormAssumption DEF Tokens, OfKind, Elements
<1>3. /\ IsState(u) /\ Signed(u, s, t)
      /\ u.slaves = s.slaves /\ u.lattice = s.lattice
      /\ u.tokens = Named(Moved(s.tokens, t, 1), k, N, t) /\ u.wallets = s.wallets
      /\ u.votes = s.votes
      /\ u.balance = Decrease(s.balance, p)
      /\ u.log = Longer(Longer(Longer(Longer(s.log, "tx", {From(t)}, t), "tokens", N, k),
                      "tx", A, t), "tx", OnlySigner(t), t)
      /\ u.raised = s.raised
  BY <1>1, TransferTokenApplied
<1> HIDE DEF u
<1>4. u.log \in Lists
  <2>1. "tokens" \in Logs /\ "tx" \in Logs
    BY DEF Logs
  <2>2. k \in Elements /\ t \in Elements
    BY <1>1, <1>2, TxFacts
  <2> HIDE DEF p, k, N, A
  <2>3. Longer(s.log, "tx", {From(t)}, t) \in Lists
    BY <1>1, <2>1, <2>2, LongerType
  <2>4. Longer(Longer(s.log, "tx", {From(t)}, t), "tokens", N, k) \in Lists
    BY <1>1, <2>1, <2>2, <2>3, LongerType
  <2>5. Longer(Longer(Longer(s.log, "tx", {From(t)}, t), "tokens", N, k), "tx", A, t) \in Lists
    BY <1>1, <2>1, <2>2, <2>4, LongerType
  <2>6. Longer(Longer(Longer(Longer(s.log, "tx", {From(t)}, t), "tokens", N, k),
              "tx", A, t), "tx", OnlySigner(t), t) \in Lists
    BY <1>1, <2>1, <2>2, <2>5, LongerType
  <2>7. QED
    BY <1>3, <2>6
<1>5. /\ u.balance \in [Addresses -> Int]
      /\ \A w \in Wallets : u.balance[w] = s.balance[w]
  <2>1. /\ u.balance \in [Addresses -> Int]
        /\ \A a \in Addresses : u.balance[a] = s.balance[a] - Part(p, a)
    BY <1>1, <1>2, <1>3, BalanceFacts
  <2>2. \A w \in Wallets : w \in Addresses /\ w # From(t) /\ s.balance[w] \in Int
    BY <1>1, AddressAssumption, TxFacts DEF Addresses
  <2>3. \A w \in Wallets : Part(p, w) = 0
    BY <1>1, <2>2, TxFacts, CoinsFacts DEF Fee
  <2>4. QED
    BY <2>1, <2>2, <2>3
<1>6. /\ u.votes = s.votes /\ u.wallets = s.wallets
      /\ u.slaves = s.slaves /\ u.lattice = s.lattice
      /\ u.tokens \in [Accounts -> [Tokens -> TokenStates]]
      /\ \A a \in Accounts, j \in Tokens :
           /\ \/ u.tokens[a][j] = s.tokens[a][j]
              \/ \E b \in Accounts : s.tokens[b][j] # NoToken
           /\ u.tokens[a][j].origin \in {t, s.tokens[a][j].origin}
  <2>1. s.tokens \in [Accounts -> [Tokens -> TokenStates]] /\ t \in Txs \cup {NoTx}
    BY <1>1 DEF IsShape, Ordinary
  <2>2. From(t) \in Accounts /\ s.tokens[From(t)][k] # NoToken
    BY <1>1, TxFacts DEF ValidTransferToken, NoToken
  <2>3. LET R == Named(Moved(s.tokens, t, 1), k, N, t)
        IN  /\ R \in [Accounts -> [Tokens -> TokenStates]]
            /\ \A a \in Accounts : R[a][k].origin = IF a \in N THEN t ELSE s.tokens[a][k].origin
            /\ \A a \in Accounts, j \in Tokens : j # k => R[a][j] = s.tokens[a][j]
    <3> HIDE DEF N
    <3>1. QED
      BY SMTT(60), <2>1, MovedFacts
  <2> HIDE DEF N, k
  <2>4. QED
    BY <1>3, <2>2, <2>3
<1>7. QED
  BY <1>1, <1>3, <1>4, <1>5, <1>6 DEF Harmless, u, IsShape

LEMMA CreateKept ==
  ASSUME NEW s, Good(s), NEW c \in Creations, KeyUnused(s, c)
  PROVE  Harmless(ApplyMultiSigCreate(s, c), s, c)
<1> DEFINE u == ApplyMultiSigCreate(s, c)
           p == Fee(c)
           w == Tx[c].wallet
           A == OthersIn(c, Signatories(c))
           S == Signatories(c)
<1>1. /\ c \in Ordinary
      /\ IsShape(s) /\ IsState(s) /\ s.log \in Lists
      /\ s.balance \in [Addresses -> Int]
  BY DEF Good, IsShape, OfKind, Ordinary, Spends, Creations, Tokens
<1>2. /\ Amounts(p)
      /\ w \in Wallets /\ w \in Elements /\ w \in Addresses
      /\ w \notin s.wallets /\ s.balance[w] = 0
  BY <1>1, TxFacts, FormAssumption DEF Elements, Addresses, Good, Untouched
<1>3. /\ IsState(u) /\ Signed(u, s, c)
      /\ u.slaves = s.slaves /\ u.lattice = s.lattice
      /\ u.tokens = s.tokens /\ u.wallets = s.wallets \cup {w}
      /\ u.votes = s.votes
      /\ u.balance = [Decrease(s.balance, p) EXCEPT ![w] = 0]
      /\ u.log = Longer(Longer(Longer(Longer(s.log, "tx", {From(c)}, c),
                      "tx", {w} \cup A, c), "wallets", S, w), "tx", OnlySigner(c), c)
      /\ u.raised = s.raised
  BY ZenonT(60), <1>1, CreateApplied
<1> HIDE DEF u
<1>4. u.log \in Lists
  <2>1. "tx" \in Logs /\ "wallets" \in Logs
    BY DEF Logs
  <2>2. c \in Elements /\ w \in Elements
    BY <1>1, <1>2, TxFacts
  <2> HIDE DEF p, w, A, S
  <2>3. Longer(s.log, "tx", {From(c)}, c) \in Lists
    BY <1>1, <2>1, <2>2, LongerType
  <2>4. Longer(Longer(s.log, "tx", {From(c)}, c), "tx", {w} \cup A, c) \in Lists
    BY <1>1, <2>1, <2>2, <2>3, LongerType
  <2>5. Longer(Longer(Longer(s.log, "tx", {From(c)}, c), "tx", {w} \cup A, c),
              "wallets", S, w) \in Lists
    BY <1>1, <2>1, <2>2, <2>4, LongerType
  <2>6. Longer(Longer(Longer(Longer(s.log, "tx", {From(c)}, c), "tx", {w} \cup A, c),
              "wallets", S, w), "tx", OnlySigner(c), c) \in Lists
    BY <1>1, <2>1, <2>2, <2>5, LongerType
  <2>7. QED
    BY <1>3, <2>6
<1>5. /\ u.balance \in [Addresses -> Int]
      /\ \A x \in Wallets : u.balance[x] = s.balance[x]
  <2> DEFINE b == Decrease(s.balance, p)
             d == [b EXCEPT ![w] = 0]
  <2>1. /\ b \in [Addresses -> Int]
        /\ \A a \in Addresses : b[a] = s.balance[a] - Part(p, a)
    BY <1>1, <1>2, BalanceFacts
  <2> HIDE DEF b
  <2>2. DOMAIN d = Addresses /\ \A a \in Addresses : d[a] = IF a = w THEN 0 ELSE b[a]
    BY <2>1
  <2>3. d = [a \in Addresses |-> d[a]]
    BY <2>1
  <2>4. \A x \in Wallets : x \in Addresses /\ x # From(c) /\ s.balance[x] \in Int
    BY <1>1, AddressAssumption, TxFacts DEF Addresses
  <2>5. \A x \in Wallets : Part(p, x) = 0
    BY <1>1, <2>4, TxFacts, CoinsFacts DEF Fee
  <2>6. u.balance = d
    BY <1>3 DEF b
  <2> HIDE DEF d, w
  <2>7. \A a \in Addresses : d[a] \in Int
    BY <2>1, <2>2
  <2>8. QED
    BY <1>2, <2>1, <2>2, <2>3, <2>4, <2>5, <2>6, <2>7
<1>6. /\ u.votes = s.votes /\ u.tokens = s.tokens /\ u.wallets = s.wallets \cup {Tx[c].wallet}
      /\ u.slaves = s.slaves /\ u.lattice = s.lattice
  BY <1>3
<1>7. QED
  BY <1>1, <1>3, <1>4, <1>5, <1>6 DEF Harmless, u, IsShape

LEMMA SpendKept ==
  ASSUME NEW s, Good(s), NEW p \in Spends, KeyUnused(s, p),
         NEW n,
         ValidMultiSigSpend(s, p, n)
  PROVE  Harmless(ApplyMultiSigSpend(s, p), s, p)
<1> DEFINE u == ApplyMultiSigSpend(s, p)
           f == Fee(p)
           w == Tx[p].wallet
           A == Signatories(Creation(p)) \cup {w}
           x == [NoVotes EXCEPT !.live = TRUE]
<1>1. /\ p \in Ordinary
      /\ IsShape(s) /\ IsState(s) /\ s.log \in Lists
      /\ s.balance \in [Addresses -> Int]
  BY DEF Good, IsShape, OfKind, Ordinary, Spends, Creations, Tokens
<1>2. /\ Amounts(f)
  BY <1>1, TxFacts
<1>3. /\ IsState(u) /\ Signed(u, s, p)
      /\ u.slaves = s.slaves /\ u.lattice = s.lattice
      /\ u.tokens = s.tokens /\ u.wallets = s.wallets
      /\ u.votes = [s.votes EXCEPT ![p] = x]
      /\ u.balance = Decrease(s.balance, f)
      /\ u.log = Longer(Longer(Longer(Longer(s.log, "tx", {From(p)}, p), "spends", A, p),
                      "tx", {w}, p), "tx", OnlySigner(p), p)
      /\ u.raised = s.raised
  BY ZenonT(60), <1>1, SpendApplied
<1> HIDE DEF u
<1>4. u.log \in Lists
  <2>1. "spends" \in Logs /\ "tx" \in Logs
    BY DEF Logs
  <2>2. p \in Elements
    BY <1>1, <1>2, TxFacts
  <2> HIDE DEF f, w, A, x
  <2>3. Longer(s.log, "tx", {From(p)}, p) \in Lists
    BY <1>1, <2>1, <2>2, LongerType
  <2>4. Longer(Longer(s.log, "tx", {From(p)}, p), "spends", A, p) \in Lists
    BY <1>1, <2>1, <2>2, <2>3, LongerType
  <2>5. Longer(Longer(Longer(s.log, "tx", {From(p)}, p), "spends", A, p), "tx", {w}, p) \in Lists
    BY <1>1, <2>1, <2>2, <2>4, LongerType
  <2>6. Longer(Longer(Longer(Longer(s.log, "tx", {From(p)}, p), "spends", A, p),
              "tx", {w}, p), "tx", OnlySigner(p), p) \in Lists
    BY <1>1, <2>1, <2>2, <2>5, LongerType
  <2>7. QED
    BY <1>3, <2>6
<1>5. /\ u.balance \in [Addresses -> Int]
      /\ \A y \in Wallets : u.balance[y] = s.balance[y]
  <2>1. /\ u.balance \in [Addresses -> Int]
        /\ \A a \in Addresses : u.balance[a] = s.balance[a] - Part(f, a)
    BY <1>1, <1>2, <1>3, BalanceFacts
  <2>2. \A y \in Wallets : y \in Addresses /\ y # From(p) /\ s.balance[y] \in Int
    BY <1>1, AddressAssumption, TxFacts DEF Addresses
  <2>3. \A y \in Wallets : Part(f, y) = 0
    BY <1>1, <2>2, TxFacts, CoinsFacts DEF Fee
  <2>4. QED
    BY <2>1, <2>2, <2>3
<1>6. /\ u.tokens = s.tokens /\ u.wallets = s.wallets
      /\ u.slaves = s.slaves /\ u.lattice = s.lattice
      /\ u.votes \in [Spends -> VoteStates]
      /\ \A j \in Spends :
           /\ j # p => u.votes[j] = s.votes[j]
           /\ u.votes[j].live => \/ s.votes[j].live
                                 \/ /\ Tx[j].wallet \in s.wallets
                                    /\ Payees(j) \cap Wallets \subseteq s.wallets
  <2>1. s.votes \in [Spends -> VoteStates]
    BY <1>1 DEF IsShape
  <2>2. x \in VoteStates
    BY NewVotes
  <2> HIDE DEF x
  <2>3. u.votes = [s.votes EXCEPT ![p] = x]
    BY <1>3
  <2>4. u.votes \in [Spends -> VoteStates] /\ \A j \in Spends : j # p => u.votes[j] = s.votes[j]
    BY <2>1, <2>2, <2>3
  <2>5. Tx[p].wallet \in s.wallets /\ Payees(p) \cap Wallets \subseteq s.wallets
    BY DEF ValidMultiSigSpend
  <2>6. QED
    BY <1>3, <2>4, <2>5
<1>7. QED
  BY <1>1, <1>3, <1>4, <1>5, <1>6 DEF Harmless, u, IsShape

LEMMA CountedElsewhere ==
  ASSUME NEW V \in [Spends -> VoteStates], NEW p \in Spends, NEW a \in Accounts,
         NEW wt \in Int, NEW for, NEW t \in Txs \cup {NoTx}
  PROVE  LET C == Recount(V, p, a, wt, for, t)
         IN  C \in [Spends -> VoteStates] /\ \A q \in Spends : q # p => C[q] = V[q]
<1> DEFINE y == Tally(V[p], a, wt, for, t)
           C == Recount(V, p, a, wt, for, t)
<1>1. V[p] \in VoteStates
  OBVIOUS
<1>2. y \in VoteStates
  BY <1>1, TallyFacts
<1>3. C = [V EXCEPT ![p] = y]
  BY DEF Recount
<1> HIDE DEF y, C
<1>4. C \in [Spends -> VoteStates] /\ \A q \in Spends : q # p => C[q] = V[q]
  BY <1>2, <1>3
<1>5. QED
  BY <1>4 DEF C

LEMMA VoteKept ==
  ASSUME NEW s, Good(s), NEW v \in OfKind("multi_sig_vote"), KeyUnused(s, v),
         NEW n, ValidMultiSigVote(s, v, n)
  PROVE  Harmless(ApplyMultiSigVote(s, v, n), s, v)
<1> DEFINE u == ApplyMultiSigVote(s, v, n)
           p == Tx[v].spend
           f == Fee(v)
           A == OthersIn(p, Payees(p))
           x == Executes(s, v, n)
           C == Counted(s.votes, v)
           D == SetExecuted(C, p, TRUE)
           b == Decrease(s.balance, f)
           L == Longer(s.log, "tx", {From(v)}, v)
           g == Coins(Tx[p].wallet, Total(p))
           h == Tx[p].pays
<1>1. /\ v \in Ordinary
      /\ IsShape(s) /\ IsState(s) /\ s.log \in Lists
      /\ s.balance \in [Addresses -> Int] /\ s.votes \in [Spends -> VoteStates]
  BY DEF Good, IsShape, OfKind, Ordinary
<1>2. /\ p \in Spends /\ p \in Elements /\ Weight(v) \in Int
      /\ From(v) \in Accounts /\ v \in Txs /\ v \in Elements
      /\ Amounts(f) /\ Amounts(g) /\ Amounts(h) /\ Total(p) \in Int /\ "tx" \in Logs
  <2>1. p \in Spends /\ p \in Ordinary /\ Weight(v) \in Nat \ {0}
    BY VoteFacts
  <2>2. SumOf(Tx[p].pays) \in Nat /\ Amounts(Tx[p].pays)
    BY <2>1, PaysFacts
  <2>3. Amounts(g) /\ Total(p) \in Int
    BY <2>2, CoinsFacts DEF Total
  <2>4. "tx" \in Logs
    BY DEF Logs
  <2>5. QED
    BY <1>1, <2>1, <2>2, <2>3, <2>4, TxFacts
<1>3. /\ IsState(u) /\ Signed(u, s, v)
      /\ u.slaves = s.slaves /\ u.lattice = s.lattice /\ u.wallets = s.wallets
      /\ u.tokens = s.tokens
      /\ x => /\ u.votes = D
              /\ u.balance = Paid(b, p)
              /\ u.log = Longer(Longer(L, "tx", A, p), "tx", OnlySigner(v), v)
      /\ ~ x => /\ u.votes = C
                /\ u.balance = b
                /\ u.log = Longer(L, "tx", OnlySigner(v), v)
      /\ u.raised = s.raised
  <2>1. IsState(s)
    BY <1>1
  <2>2. VoteDone(u, s, v, n)
    BY <2>1, VoteApplied
  <2> HIDE DEF u
  <2>3. QED
    BY <2>2 DEF VoteDone
<1>4. /\ s.votes[p].live
      /\ Tx[p].wallet \in s.wallets /\ Payees(p) \cap Wallets \subseteq s.wallets
  BY <1>2 DEF Good, ValidMultiSigVote
<1>5. /\ C \in [Spends -> VoteStates] /\ \A q \in Spends : q # p => C[q] = s.votes[q]
      /\ D \in [Spends -> VoteStates] /\ \A q \in Spends : q # p => D[q] = s.votes[q]
  <2>1. C \in [Spends -> VoteStates] /\ \A q \in Spends : q # p => C[q] = s.votes[q]
    <3> DEFINE for == ~ Tx[v].unvote
               wt == Weight(v)
    <3>1. C = Recount(s.votes, p, From(v), wt, for, v)
      BY DEF Counted
    <3>2. wt \in Int /\ v \in Txs \cup {NoTx}
      BY <1>2
    <3> HIDE DEF for, wt, C, p
    <3>3. QED
      BY <1>1, <1>2, <3>1, <3>2, CountedElsewhere
  <2> HIDE DEF C, p
  <2>2. D \in [Spends -> VoteStates] /\ \A q \in Spends : q # p => D[q] = C[q]
    BY ZenonT(60), <1>2, <2>1, ExecutedFacts
  <2>3. QED
    BY <2>1, <2>2
<1> HIDE DEF u, x, C, D, p, f, g, A
<1>6. u.votes \in [Spends -> VoteStates] /\ \A q \in Spends : q # p => u.votes[q] = s.votes[q]
  BY <1>3, <1>5
<1>7. u.log \in Lists
  <2>1. L \in Lists
    BY <1>1, <1>2, LongerType
  <2>2. Longer(L, "tx", A, p) \in Lists
    BY <1>2, <2>1, LongerType
  <2>3. /\ Longer(L, "tx", OnlySigner(v), v) \in Lists
        /\ Longer(Longer(L, "tx", A, p), "tx", OnlySigner(v), v) \in Lists
    BY <1>2, <2>1, <2>2, LongerType
  <2>4. QED
    BY <1>3, <2>3
<1>8. ASSUME NEW w \in Wallets \ s.wallets
      PROVE  /\ w \in Addresses
             /\ Part(f, w) = 0 /\ Part(g, w) = 0 /\ Part(h, w) = 0
  <2>1. w \in Addresses /\ w # From(v) /\ w # Tx[p].wallet /\ w \notin DOMAIN h
    BY <1>2, <1>4, AddressAssumption DEF Addresses, Payees
  <2>2. Part(f, w) = 0
    BY <1>1, <2>1, TxFacts, CoinsFacts DEF Fee, f
  <2>3. Part(g, w) = 0
    BY <1>2, <2>1, CoinsFacts DEF g
  <2>4. QED
    BY <2>1, <2>2, <2>3 DEF Part
<1>9. /\ b \in [Addresses -> Int]
      /\ \A w \in Wallets \ s.wallets : b[w] = s.balance[w]
  <2>1. b \in [Addresses -> Int] /\ \A a \in Addresses : b[a] = s.balance[a] - Part(f, a)
    BY <1>1, <1>2, BalanceFacts
  <2> HIDE DEF b
  <2>2. QED
    BY <1>1, <1>8, <2>1
<1> HIDE DEF b, h
<1>10. /\ Paid(b, p) \in [Addresses -> Int]
       /\ \A w \in Wallets \ s.wallets : Paid(b, p)[w] = s.balance[w]
  <2> DEFINE d == Decrease(b, g)
             i == Increase(d, h)
  <2>1. d \in [Addresses -> Int] /\ \A a \in Addresses : d[a] = b[a] - Part(g, a)
    BY <1>2, <1>9, BalanceFacts
  <2> HIDE DEF d
  <2>2. i \in [Addresses -> Int] /\ \A a \in Addresses : i[a] = d[a] + Part(h, a)
    BY <1>2, <2>1, BalanceFacts
  <2> HIDE DEF i
  <2>3. Paid(b, p) = i
    BY DEF Paid, i, d, g, h
  <2>4. QED
    BY <1>8, <1>9, <2>1, <2>2, <2>3
<1>11. /\ u.balance \in [Addresses -> Int]
       /\ \A w \in Wallets \ u.wallets : u.balance[w] = s.balance[w]
  BY <1>3, <1>9, <1>10
<1>12. \A q \in Spends :
         /\ q # v => u.votes[q] = s.votes[q] \/ s.votes[q].live
         /\ u.votes[q].live => s.votes[q].live
  BY <1>4, <1>6
<1>13. QED
  BY <1>1, <1>3, <1>6, <1>7, <1>11, <1>12 DEF Harmless, u, IsShape

LEMMA CoinbaseKept ==
  ASSUME NEW s, Good(s), NEW n \in 1 .. MaxHeight, NEW fees \in Nat
  PROVE  LET u == ApplyCoinbase(s, n, fees) IN Good(u) /\ u.raised = s.raised
<1> DEFINE u == ApplyCoinbase(s, n, fees)
           c == Coinbase[n]
           to == Tx[c].to
           p == Coins(to, Reward + fees)
           q == Coins(Mint, Reward)
<1>1. /\ IsShape(s) /\ IsState(s) /\ s.log \in Lists
      /\ s.balance \in [Addresses -> Int]
      /\ s.nonce \in [Accounts \cup {Mint} -> Int]
  BY DEF Good, IsShape
<1>2. /\ c \in Elements /\ to \in Accounts /\ "tx" \in Logs
      /\ Reward \in Nat /\ Amounts(p) /\ Amounts(q)
      /\ \A w \in Wallets : w \in Addresses /\ Part(p, w) = 0 /\ Part(q, w) = 0
  <2>1. c \in Elements /\ to \in Accounts /\ Reward \in Nat
    BY TxAssumption, ChainAssumption DEF OfKind, Elements
  <2>2. \A w \in Wallets : w \in Addresses /\ w # to /\ w # Mint
    BY <2>1, AddressAssumption DEF Addresses
  <2>3. Reward + fees \in Int /\ Reward \in Int
    BY <2>1
  <2> HIDE DEF to
  <2>4. Amounts(p) /\ Amounts(q)
    BY <2>3, CoinsFacts
  <2>5. \A w \in Wallets : Part(p, w) = 0 /\ Part(q, w) = 0
    BY <2>2, <2>3, CoinsFacts
  <2>6. "tx" \in Logs
    BY DEF Logs
  <2>7. QED
    BY <2>1, <2>2, <2>4, <2>5, <2>6
<1>3. /\ IsState(u) /\ SameRest(u, s) /\ u.keys = s.keys
      /\ u.nonce = [s.nonce EXCEPT ![Mint] = @ + 1]
      /\ u.balance = Decrease(Increase(s.balance, p), q)
      /\ u.log = Longer(Longer(s.log, "tx", {to}, c), "tx", {Mint}, c)
      /\ u.raised = s.raised
  <2>1. IsState(s)
    BY <1>1
  <2>2. CoinbaseDone(u, s, n, fees)
    BY <2>1, CoinbaseApplied
  <2> HIDE DEF u
  <2>3. QED
    BY <2>2 DEF CoinbaseDone
<1> HIDE DEF u, p, q, c, to
<1>4. /\ u.balance \in [Addresses -> Int]
      /\ \A w \in Wallets : u.balance[w] = s.balance[w]
  <2> DEFINE d == Increase(s.balance, p)
  <2>1. d \in [Addresses -> Int] /\ \A a \in Addresses : d[a] = s.balance[a] + Part(p, a)
    BY <1>1, <1>2, BalanceFacts
  <2>2. u.balance = Decrease(d, q)
    BY <1>3
  <2> HIDE DEF d
  <2>3. /\ u.balance \in [Addresses -> Int]
        /\ \A a \in Addresses : u.balance[a] = d[a] - Part(q, a)
    BY <1>2, <2>1, <2>2, BalanceFacts
  <2>4. QED
    BY <1>1, <1>2, <2>1, <2>3
<1>5. u.log \in Lists
  <2>1. Longer(s.log, "tx", {to}, c) \in Lists
    BY <1>1, <1>2, LongerType
  <2>2. QED
    BY <1>2, <1>3, <2>1, LongerType
<1>6. u.nonce \in [Accounts \cup {Mint} -> Int]
  BY <1>1, <1>3
<1>7. IsShape(u)
  BY <1>1, <1>3, <1>4, <1>5, <1>6 DEF IsShape, SameRest
<1>8. \A t \in Ordinary : KeyUnused(u, t) => Untouched(u, t)
  BY <1>3 DEF Good, KeyUnused, Untouched, SameRest
<1>9. QED
  BY <1>3, <1>4, <1>7, <1>8 DEF Good, SameRest, u

LEMMA GenesisGood == Good(GenesisState) /\ GenesisState.raised = FALSE
<1> DEFINE s == GenesisState
           b == [a \in Addresses |-> IF a \in Wallets THEN 0 ELSE InitialBalance[a]]
           k == [a \in Accounts |-> NoKeys]
           l == [m \in Logs |-> [a \in Addresses |-> <<>>]]
           r == [a \in Accounts |-> [t \in Tokens |-> NoToken]]
           v == [t \in Spends |-> NoVotes]
           N == [a \in Accounts \cup {Mint} |-> 0]
<1>1. /\ s = [balance |-> b, nonce |-> N, keys |-> k, log |-> l, slaves |-> {}, lattice |-> {},
              tokens |-> r, wallets |-> {}, votes |-> v, raised |-> FALSE]
  BY DEF GenesisState
<1>2. b \in [Addresses -> Int] /\ \A w \in Wallets : b[w] = 0
  BY ChainAssumption DEF Addresses
<1>3. N \in [Accounts \cup {Mint} -> Int]
  OBVIOUS
<1>4. /\ k \in [Accounts -> KeyStates] /\ \A a \in Accounts : GoodKeys(k[a], KeyCount[a])
  <2>1. NoKeys \in KeyStates /\ NoKeys.full = 0 /\ NoKeys.bits = {}
    BY DEF NoKeys, KeyStates
  <2>2. ASSUME NEW a \in Accounts
        PROVE  GoodKeys(NoKeys, KeyCount[a])
    <3> DEFINE n == KeyCount[a]
    <3>1. n \in Nat \ {0} /\ n \in Nat /\ 0 \in 0 .. n - 1
      BY ChainAssumption
    <3> HIDE DEF n
    <3>2. Pages(n) \in Nat /\ \A i \in 0 .. n - 1 : Page(i) \in 1 .. Pages(n)
      BY <3>1, PageFacts
    <3>3. Page(0) = 1
      BY PageSize DEF Page
    <3>4. \A i \in 0 .. n - 1 : ~ (Page(i) <= 0)
      BY <3>2
    <3>5. GoodKeys(NoKeys, n)
      BY <2>1, <3>1, <3>2, <3>3, <3>4 DEF GoodKeys
    <3>6. QED
      BY <3>5 DEF n
  <2>3. QED
    BY <2>1, <2>2
<1>5. l \in Lists
  BY DEF Lists
<1>6. r \in [Accounts -> [Tokens -> TokenStates]]
      /\ \A a \in Accounts, t \in Tokens : r[a][t] = NoToken
  BY DEF NoToken, TokenStates
<1>7. v \in [Spends -> VoteStates] /\ \A t \in Spends : v[t] = NoVotes /\ ~ v[t].live
  BY NewVotes DEF NoVotes
<1> HIDE DEF b, k, l, r, v, N
<1>8. /\ s.balance = b /\ s.nonce = N /\ s.keys = k /\ s.log = l /\ s.slaves = {}
      /\ s.lattice = {} /\ s.tokens = r /\ s.wallets = {} /\ s.votes = v /\ s.raised = FALSE
      /\ IsState(s)
  BY <1>1 DEF IsState, Fields
<1> HIDE DEF s
<1>9. IsShape(s)
  BY <1>2, <1>3, <1>4, <1>5, <1>6, <1>7, <1>8 DEF IsShape
<1>10. ASSUME NEW t \in Ordinary
       PROVE  Untouched(s, t)
  <2>1. t # NoTx
    BY TxFacts, TxAssumption
  <2>2. \A a \in Accounts, j \in Tokens : s.tokens[a][j].origin # t
    BY <1>6, <1>8, <2>1 DEF NoToken
  <2>3. QED
    BY <1>6, <1>7, <1>8, <2>2 DEF Untouched
<1>11. QED
  BY <1>2, <1>4, <1>7, <1>8, <1>9, <1>10 DEF Good, s

(* What a valid transaction does to a good state, whatever its kind.        *)
LEMMA ApplyHarmless ==
  ASSUME NEW s, Good(s), NEW t \in Ordinary, NEW n, Valid(s, t, n)
  PROVE  Harmless(Apply(s, t, n), s, t)
<1> DEFINE k == Tx[t].kind
           u == Apply(s, t, n)
<1>1. KeyUnused(s, t) /\ k \in Kinds \ {"coinbase"} /\ t \in Txs
  BY ValidFacts DEF Ordinary
<1>2. CASE k = "transfer"
  <2>1. t \in OfKind("transfer") /\ u = ApplyTransfer(s, t) /\ ValidTransfer(s, t)
    BY <1>1, <1>2, ValidFacts DEF OfKind, Apply
  <2>2. QED
    BY <1>1, <2>1, TransferKept
<1>3. CASE k = "message"
  <2>1. t \in OfKind("message") /\ u = ApplyMessage(s, t)
    BY <1>1, <1>3 DEF OfKind, Apply
  <2>2. QED
    BY <1>1, <2>1, MessageKept
<1>4. CASE k = "lattice"
  <2>1. t \in OfKind("lattice") /\ u = ApplyLattice(s, t)
    BY <1>1, <1>4 DEF OfKind, Apply
  <2>2. QED
    BY <1>1, <2>1, LatticeKept
<1>5. CASE k = "slave"
  <2>1. t \in OfKind("slave") /\ u = ApplySlave(s, t)
    BY <1>1, <1>5 DEF OfKind, Apply
  <2>2. QED
    BY <1>1, <2>1, SlaveKept
<1>6. CASE k = "token"
  <2>1. t \in Tokens /\ u = ApplyToken(s, t)
    BY <1>1, <1>6 DEF OfKind, Tokens, Apply
  <2>2. QED
    BY <1>1, <2>1, TokenKept
<1>7. CASE k = "transfer_token"
  <2>1. t \in OfKind("transfer_token") /\ u = ApplyTransferToken(s, t) /\ ValidTransferToken(s, t)
    BY <1>1, <1>7, ValidFacts DEF OfKind, Apply
  <2>2. QED
    BY <1>1, <2>1, TransferTokenKept
<1>8. CASE k = "multi_sig_create"
  <2>1. t \in Creations /\ u = ApplyMultiSigCreate(s, t)
    BY <1>1, <1>8 DEF OfKind, Creations, Apply
  <2>2. QED
    BY <1>1, <2>1, CreateKept
<1>9. CASE k = "multi_sig_spend"
  <2>1. t \in Spends /\ u = ApplyMultiSigSpend(s, t) /\ ValidMultiSigSpend(s, t, n)
    BY <1>1, <1>9, ValidFacts DEF OfKind, Spends, Apply
  <2>2. QED
    BY <1>1, <2>1, SpendKept
<1>10. CASE k = "multi_sig_vote"
  <2>1. t \in OfKind("multi_sig_vote") /\ u = ApplyMultiSigVote(s, t, n)
        /\ ValidMultiSigVote(s, t, n)
    BY <1>1, <1>10, ValidFacts DEF OfKind, Apply
  <2>2. QED
    BY <1>1, <2>1, VoteKept
<1>11. QED
  BY <1>1, <1>2, <1>3, <1>4, <1>5, <1>6, <1>7, <1>8, <1>9, <1>10 DEF Kinds

(* A valid transaction takes a good state to a good state.                  *)
LEMMA ApplyKept ==
  ASSUME NEW s, Good(s), NEW t \in Ordinary, NEW n, Valid(s, t, n)
  PROVE  Good(Apply(s, t, n)) /\ Apply(s, t, n).raised = s.raised
BY ApplyHarmless, ValidFacts, GoodAgain

-----------------------------------------------------------------------------
(* The invariant                                                            *)

EntrySet == [tx : Ordinary, nonce : Int, prev : Txs \cup {NoTx}]

(* st[i] is the state after the first i transactions of b, the block with   *)
(* the number n, were applied to s.                                         *)
Trace(st, s, n, b, fees) ==
  /\ st[0] = ApplyCoinbase(s, n, fees)
  /\ \A i \in 1 .. Len(b) :
       /\ b[i].tx \in Ordinary
       /\ Valid(st[i - 1], b[i].tx, n)
       /\ b[i] = Entry(st[i - 1], b[i].tx)
       /\ st[i] = Apply(st[i - 1], b[i].tx, n)
  /\ \A i \in 0 .. Len(b) : Good(st[i]) /\ st[i].raised = FALSE

(* The block n of the chain leads from s to what r looks like.              *)
Leads(s, n, b, r) == \E st : Trace(st, s, n, b, FeesOf(TxsOf(b))) /\ Same(r, st[Len(b)])

(* Stored states: nothing is left of a list that raised.                    *)
Sound(s) == Good(s) /\ s.raised = FALSE

After(i) == IF i = Len(chain) THEN db ELSE saved[i + 1]

Types ==
  /\ chain \in Seq(Seq(EntrySet)) /\ Len(chain) <= MaxHeight
  /\ saved \in Seq(Shapes) /\ Len(saved) = Len(chain)
  /\ block \in Seq(EntrySet)
  /\ todo \in Seq(Ordinary)
  /\ offered \in Candidates
  /\ phase \in {"idle", "apply", "revert"}

(* Every block leads from the state saved with it to the next one's.        *)
Stored ==
  /\ Sound(db)
  /\ \A i \in 1 .. Len(chain) : Sound(saved[i]) /\ Leads(saved[i], i, chain[i], After(i))

(* prog is the running block: block has been applied, todo has not.         *)
Running(st, prog) ==
  /\ prog \in Seq(Ordinary) /\ Len(prog) = Len(block) + Len(todo)
  /\ \A i \in 1 .. Len(block) : prog[i] = block[i].tx
  /\ \A i \in 1 .. Len(todo) : prog[Len(block) + i] = todo[i]
  /\ Trace(st, db, Len(chain) + 1, block, FeesOf(prog))
  /\ sc = st[Len(block)]

Applying == Len(chain) < MaxHeight /\ \E st, prog : Running(st, prog)

(* block is what is left to undo of the last block.                         *)
Undoing(st) ==
  LET b == chain[Len(chain)]
  IN  /\ Len(block) <= Len(b)
      /\ \A i \in 1 .. Len(block) : block[i] = b[i]
      /\ Trace(st, saved[Len(chain)], Len(chain), b, FeesOf(TxsOf(b)))
      /\ Same(sc, st[Len(block)])

Reverting ==
  /\ chain # <<>> /\ todo = <<>>
  /\ IsShape(sc) /\ sc.raised = FALSE
  /\ \E st : Undoing(st)

Resting == sc = db /\ block = <<>> /\ todo = <<>>

LedgerInv ==
  /\ Types
  /\ Stored
  /\ phase = "idle" => Resting
  /\ phase = "apply" => Applying
  /\ phase = "revert" => Reverting

LEMMA FeesFacts ==
  ASSUME NEW q \in Seq(Ordinary)
  PROVE  FeesOf(q) \in Nat
<1> DEFINE f == [i \in DOMAIN q |-> Tx[q[i]].fee]
<1>1. DOMAIN q = 1 .. Len(q) /\ IsFiniteSet(1 .. Len(q))
  BY FS_Interval
<1>2. f \in [DOMAIN q -> Nat]
  BY TxFacts
<1> HIDE DEF f
<1>3. SumFunction(f) \in Nat
  BY <1>1, <1>2, SumOfNaturals
<1>4. QED
  BY <1>3 DEF FeesOf, SumOf, f

LEMMA ShapesFacts ==
  ASSUME NEW s, IsShape(s)
  PROVE  s \in Shapes
<1>1. s = [f \in Fields |-> s[f]]
  BY DEF IsShape, IsState
<1>2. s = [balance |-> s.balance, nonce |-> s.nonce, keys |-> s.keys, log |-> s.log,
           slaves |-> s.slaves, lattice |-> s.lattice, tokens |-> s.tokens,
           wallets |-> s.wallets, votes |-> s.votes, raised |-> s.raised]
  BY <1>1 DEF Fields
<1> HIDE DEF Lists, KeyStates, TokenStates, VoteStates
<1>3. QED
  BY <1>2 DEF IsShape, Shapes

LEMMA EntryFacts ==
  ASSUME NEW s, Good(s), NEW t \in Ordinary
  PROVE  Entry(s, t) \in EntrySet /\ Entry(s, t).tx = t
<1> DEFINE k == s.nonce[Signer(t)] + 1
           p == IF Tx[t].kind = "multi_sig_vote"
                THEN s.votes[Tx[t].spend].last[From(t)] ELSE NoTx
<1>1. k \in Int
  BY TxFacts DEF Good, IsShape
<1>2. p \in Txs \cup {NoTx}
  <2>1. CASE Tx[t].kind = "multi_sig_vote"
    <3>1. Tx[t].spend \in Spends /\ From(t) \in Accounts
      BY <2>1, FormAssumption, TxFacts DEF OfKind
    <3>2. s.votes[Tx[t].spend] \in VoteStates
      BY <3>1 DEF Good, IsShape
    <3>3. s.votes[Tx[t].spend].last \in [Accounts -> Txs \cup {NoTx}]
      BY <3>2 DEF VoteStates
    <3>4. QED
      BY <2>1, <3>1, <3>3
  <2>2. CASE Tx[t].kind # "multi_sig_vote"
    BY <2>2
  <2>3. QED
    BY <2>1, <2>2
<1>3. Entry(s, t) = [tx |-> t, nonce |-> k, prev |-> p]
  BY DEF Entry
<1> HIDE DEF k, p
<1>4. QED
  BY <1>1, <1>2, <1>3 DEF EntrySet

LEMMA InitInv == Init => LedgerInv
<1> SUFFICES ASSUME Init PROVE LedgerInv
  OBVIOUS
<1>1. chain = <<>> /\ saved = <<>> /\ block = <<>> /\ todo = <<>>
      /\ sc = db /\ phase = "idle" /\ db = GenesisState /\ offered \in Candidates
  BY DEF Init
<1>2. Sound(db)
  BY <1>1, GenesisGood DEF Sound
<1>3. Types
  BY <1>1, ChainAssumption DEF Types
<1>4. QED
  BY <1>1, <1>2, <1>3 DEF LedgerInv, Stored, Resting

LEMMA BeginKept ==
  ASSUME LedgerInv, NEW b \in offered, BeginBlock(b)
  PROVE  LedgerInv'
<1> DEFINE n == Len(chain) + 1
           fees == FeesOf(b)
           u == ApplyCoinbase(db, n, fees)
           st == [i \in {0} |-> u]
<1>1. /\ phase = "idle" /\ Len(chain) < MaxHeight /\ phase' = "apply"
      /\ sc' = u /\ todo' = b /\ block' = <<>>
      /\ db' = db /\ offered' = offered /\ chain' = chain /\ saved' = saved
  BY DEF BeginBlock, NextNumber
<1>2. Types /\ Stored
  BY DEF LedgerInv
<1>3. b \in Seq(Ordinary)
  BY <1>2, ChainAssumption DEF Types, Ordinary
<1>4. fees \in Nat
  BY <1>3, FeesFacts
<1>5. n \in 1 .. MaxHeight /\ Good(db) /\ db.raised = FALSE
  BY <1>1, <1>2, ChainAssumption DEF Types, Stored, Sound
<1> HIDE DEF n, fees
<1>6. Good(u) /\ u.raised = FALSE
  BY <1>4, <1>5, CoinbaseKept
<1>7. Types' /\ Stored'
  BY <1>1, <1>2, <1>3 DEF Types, Stored, After
<1>8. Trace(st, db, n, <<>>, fees)
  <2>1. st[0] = ApplyCoinbase(db, n, fees)
    OBVIOUS
  <2> HIDE DEF u
  <2>2. \A i \in 0 .. Len(<<>>) : Good(st[i]) /\ st[i].raised = FALSE
    BY <1>6
  <2> HIDE DEF st
  <2>3. QED
    BY <2>1, <2>2 DEF Trace
<1>9. sc' = st[0]
  BY <1>1
<1> HIDE DEF st, u
<1>10. PICK z : Trace(z, db, n, <<>>, fees) /\ sc' = z[0]
  BY <1>8, <1>9
<1>11. Running(z, b)'
  <2>1. Len(block') = 0 /\ Len(b) = Len(block') + Len(todo')
    BY <1>1, <1>3
  <2>2. \A i \in 1 .. Len(todo') : b[Len(block') + i] = todo'[i]
    BY <1>1, <1>3, <2>1
  <2>3. QED
    BY <1>1, <1>3, <1>10, <2>1, <2>2 DEF Running, n, fees
<1>12. Applying'
  BY <1>1, <1>11 DEF Applying
<1>13. QED
  BY <1>1, <1>7, <1>12 DEF LedgerInv

(* The block b with the number n leads from s to v.                         *)
Reaches(s, n, b, fees, v) == \E st : Trace(st, s, n, b, fees) /\ st[Len(b)] = v

LEMMA TraceExtended ==
  ASSUME NEW st, NEW s, NEW n, NEW b \in Seq(EntrySet), NEW fees, Trace(st, s, n, b, fees),
         NEW t \in Ordinary, NEW r, r = st[Len(b)], Valid(r, t, n),
         NEW c, c = Append(b, Entry(r, t))
  PROVE  /\ c \in Seq(EntrySet)
         /\ Reaches(s, n, c, fees, Apply(r, t, n))
<1> DEFINE L == Len(b)
           e == Entry(r, t)
           v == Apply(r, t, n)
           u == [i \in 0 .. L + 1 |-> IF i <= L THEN st[i] ELSE v]
<1>1. L \in Nat
  OBVIOUS
<1>2. Good(r) /\ r.raised = FALSE
  BY <1>1 DEF Trace
<1>3. e \in EntrySet /\ e.tx = t
  BY <1>2, EntryFacts
<1>4. Good(v) /\ v.raised = FALSE
  BY <1>2, ApplyKept
<1> HIDE DEF e
<1>5. /\ c \in Seq(EntrySet) /\ Len(c) = L + 1 /\ c[L + 1] = e
      /\ \A i \in 1 .. L : c[i] = b[i]
  BY <1>3 DEF e
<1> HIDE DEF v
<1>6. /\ u[L + 1] = v /\ \A i \in 0 .. L : u[i] = st[i]
  BY <1>1
<1> HIDE DEF u
<1>7. /\ st[0] = ApplyCoinbase(s, n, fees)
      /\ \A i \in 1 .. L : /\ b[i].tx \in Ordinary
                           /\ Valid(st[i - 1], b[i].tx, n)
                           /\ b[i] = Entry(st[i - 1], b[i].tx)
                           /\ st[i] = Apply(st[i - 1], b[i].tx, n)
      /\ \A i \in 0 .. L : Good(st[i]) /\ st[i].raised = FALSE
  BY DEF Trace
<1> HIDE DEF L
<1>8. ASSUME NEW i \in 1 .. L + 1
      PROVE  /\ c[i].tx \in Ordinary
             /\ Valid(u[i - 1], c[i].tx, n)
             /\ c[i] = Entry(u[i - 1], c[i].tx)
             /\ u[i] = Apply(u[i - 1], c[i].tx, n)
  <2>1. CASE i = L + 1
    <3>1. u[i - 1] = r /\ c[i] = e /\ u[i] = v
      BY <1>1, <1>5, <1>6, <2>1
    <3>2. QED
      BY <1>3, <3>1 DEF e, v, L
  <2>2. CASE i # L + 1
    <3>1. i \in 1 .. L /\ i - 1 \in 0 .. L /\ i \in 0 .. L
      BY <1>1, <2>2
    <3>2. u[i - 1] = st[i - 1] /\ c[i] = b[i] /\ u[i] = st[i]
      BY <1>5, <1>6, <3>1
    <3>3. QED
      BY <1>7, <3>1, <3>2
  <2>3. QED
    BY <2>1, <2>2
<1>9. \A i \in 0 .. L + 1 : Good(u[i]) /\ u[i].raised = FALSE
  BY <1>1, <1>4, <1>6, <1>7
<1>10. u[0] = ApplyCoinbase(s, n, fees)
  BY <1>1, <1>6, <1>7
<1>11. Trace(u, s, n, c, fees)
  BY <1>5, <1>8, <1>9, <1>10 DEF Trace
<1>12. u[Len(c)] = v
  BY <1>5, <1>6
<1>13. QED
  BY <1>5, <1>11, <1>12 DEF v, Reaches

LEMMA ApplyTxKept ==
  ASSUME LedgerInv, ApplyTx
  PROVE  LedgerInv'
<1> DEFINE n == Len(chain) + 1
           t == Head(todo)
           v == Apply(sc, t, n)
           e == Entry(sc, t)
<1>1. /\ phase = "apply" /\ todo # <<>> /\ Valid(sc, t, n) /\ sc' = v
      /\ todo' = Tail(todo) /\ block' = Append(block, e) /\ phase' = phase
      /\ db' = db /\ offered' = offered /\ chain' = chain /\ saved' = saved
  BY DEF ApplyTx, NextNumber
<1>2. Types /\ Stored /\ Len(chain) < MaxHeight
  BY <1>1 DEF LedgerInv, Applying
<1>3. PICK st, prog : Running(st, prog)
  BY <1>1 DEF LedgerInv, Applying
<1>4. /\ block \in Seq(EntrySet) /\ todo \in Seq(Ordinary)
      /\ t \in Ordinary /\ Tail(todo) \in Seq(Ordinary)
      /\ Len(Tail(todo)) = Len(todo) - 1 /\ Len(todo) \in Nat \ {0}
      /\ \A i \in 1 .. Len(todo) - 1 : Tail(todo)[i] = todo[i + 1]
      /\ t = todo[1]
  BY <1>1, <1>2 DEF Types
<1>5. /\ prog \in Seq(Ordinary) /\ Len(prog) = Len(block) + Len(todo)
      /\ \A i \in 1 .. Len(block) : prog[i] = block[i].tx
      /\ \A i \in 1 .. Len(todo) : prog[Len(block) + i] = todo[i]
      /\ Trace(st, db, n, block, FeesOf(prog))
      /\ sc = st[Len(block)]
  BY <1>3 DEF Running
<1> HIDE DEF n, t
<1>6. /\ block' \in Seq(EntrySet)
      /\ Reaches(db, n, block', FeesOf(prog), v)
  <2>1. Trace(st, db, n, block, FeesOf(prog)) /\ sc = st[Len(block)] /\ Valid(sc, t, n)
        /\ block' = Append(block, Entry(sc, t))
    BY <1>1, <1>5
  <2>2. block \in Seq(EntrySet) /\ t \in Ordinary
    BY <1>4
  <2> HIDE DEF e
  <2>3. QED
    BY <2>1, <2>2, TraceExtended
<1>7. Good(sc)
  BY <1>4, <1>5 DEF Trace
<1>8. e.tx = t
  BY <1>4, <1>7, EntryFacts
<1> HIDE DEF e, v
<1>9. PICK u : Trace(u, db, n, block', FeesOf(prog)) /\ u[Len(block')] = sc'
  BY <1>1, <1>6 DEF Reaches
<1>10. Types' /\ Stored'
  BY <1>1, <1>2, <1>4, <1>6 DEF Types, Stored, After
<1>11. Running(u, prog)'
  <2>1. /\ Len(block') = Len(block) + 1 /\ block'[Len(block) + 1] = e
        /\ \A i \in 1 .. Len(block) : block'[i] = block[i]
        /\ Len(block) \in Nat
    <3>1. e \in EntrySet
      BY <1>4, <1>7, EntryFacts DEF e
    <3>2. QED
      BY <1>1, <1>4, <3>1
  <2>2. Len(prog) = Len(block') + Len(todo')
    BY <1>1, <1>4, <1>5, <2>1
  <2>3. \A i \in 1 .. Len(block') : prog[i] = block'[i].tx
    <3>1. prog[Len(block) + 1] = t
      BY <1>4, <1>5
    <3>2. QED
      BY <1>5, <1>8, <2>1, <3>1
  <2>4. \A i \in 1 .. Len(todo') : prog[Len(block') + i] = todo'[i]
    <3> SUFFICES ASSUME NEW i \in 1 .. Len(todo') PROVE prog[Len(block') + i] = todo'[i]
      OBVIOUS
    <3>1. i \in 1 .. Len(todo) - 1 /\ i + 1 \in 1 .. Len(todo) /\ todo'[i] = todo[i + 1]
      BY <1>1, <1>4
    <3>2. prog[Len(block) + (i + 1)] = todo[i + 1]
      BY <1>5, <3>1
    <3>3. Len(block') + i = Len(block) + (i + 1)
      BY <2>1, <3>1
    <3>4. QED
      BY <3>1, <3>2, <3>3
  <2>5. n = Len(chain') + 1
    BY <1>1 DEF n
  <2>6. QED
    BY <1>1, <1>5, <1>9, <2>2, <2>3, <2>4, <2>5 DEF Running
<1>12. Applying'
  BY <1>1, <1>2, <1>11 DEF Applying
<1>13. QED
  BY <1>1, <1>10, <1>12 DEF LedgerInv

LEMMA DroppedKept ==
  ASSUME LedgerInv, RejectBlock \/ RevertFails
  PROVE  LedgerInv'
<1>1. /\ sc' = db /\ phase' = "idle" /\ todo' = <<>> /\ block' = <<>>
      /\ db' = db /\ offered' = offered /\ chain' = chain /\ saved' = saved
  <2>1. RevertFails => phase = "revert" /\ todo' = todo
    BY DEF RevertFails
  <2>2. RevertFails => todo = <<>>
    BY <2>1 DEF LedgerInv, Reverting
  <2>3. QED
    BY <2>1, <2>2 DEF RejectBlock, RevertFails
<1>2. Types /\ Stored
  BY DEF LedgerInv
<1>3. Types' /\ Stored'
  BY <1>1, <1>2 DEF Types, Stored, After
<1>4. Resting'
  BY <1>1 DEF Resting
<1>5. QED
  BY <1>1, <1>3, <1>4 DEF LedgerInv

LEMMA CommitKept ==
  ASSUME LedgerInv, CommitBlock
  PROVE  LedgerInv'
<1> DEFINE L == Len(chain)
<1>1. /\ phase = "apply" /\ todo = <<>> /\ db' = sc /\ chain' = Append(chain, block)
      /\ saved' = Append(saved, db) /\ phase' = "idle" /\ block' = <<>>
      /\ offered' = offered /\ sc' = sc /\ todo' = todo
  BY DEF CommitBlock
<1>2. Types /\ Stored /\ L < MaxHeight
  BY <1>1 DEF LedgerInv, Applying
<1>3. PICK st, prog : Running(st, prog)
  BY <1>1 DEF LedgerInv, Applying
<1>4. /\ block \in Seq(EntrySet) /\ chain \in Seq(Seq(EntrySet)) /\ L \in Nat
      /\ saved \in Seq(Shapes) /\ Len(saved) = L
  BY <1>2 DEF Types
<1>5. /\ prog \in Seq(Ordinary) /\ Len(prog) = Len(block)
      /\ \A i \in 1 .. Len(block) : prog[i] = block[i].tx
      /\ Trace(st, db, L + 1, block, FeesOf(prog))
      /\ sc = st[Len(block)]
  BY <1>1, <1>3, <1>4 DEF Running
<1>6. prog = TxsOf(block)
  <2>1. DOMAIN prog = 1 .. Len(prog) /\ prog = [i \in DOMAIN prog |-> prog[i]]
    BY <1>5
  <2>2. DOMAIN block = 1 .. Len(block)
    BY <1>4
  <2>3. QED
    BY <1>5, <2>1, <2>2 DEF TxsOf
<1>7. Sound(sc)
  BY <1>4, <1>5 DEF Trace, Sound
<1>8. Leads(db, L + 1, block, sc)
  <2>1. Same(sc, st[Len(block)])
    BY <1>5 DEF Same, SameKeys, SameRest
  <2>2. QED
    BY <1>5, <1>6, <2>1 DEF Leads
<1>9. db \in Shapes
  BY <1>2, ShapesFacts DEF Stored, Sound, Good
<1>10. /\ chain' \in Seq(Seq(EntrySet)) /\ Len(chain') = L + 1 /\ chain'[L + 1] = block
       /\ \A i \in 1 .. L : chain'[i] = chain[i]
  BY <1>1, <1>4
<1>11. /\ saved' \in Seq(Shapes) /\ Len(saved') = L + 1 /\ saved'[L + 1] = db
       /\ \A i \in 1 .. L : saved'[i] = saved[i]
  BY <1>1, <1>4, <1>9
<1> HIDE DEF L
<1>12. Types'
  BY <1>1, <1>2, <1>4, <1>10, <1>11, ChainAssumption DEF Types
<1>13. ASSUME NEW i \in 1 .. L
       PROVE  After(i)' = After(i)
  <2>1. i # Len(chain') /\ After(i)' = saved'[i + 1]
    BY <1>4, <1>10 DEF After
  <2>2. CASE i = L
    <3>1. saved'[i + 1] = db /\ After(i) = db
      BY <1>11, <2>2 DEF After, L
    <3>2. QED
      BY <2>1, <3>1
  <2>3. CASE i # L
    <3>1. i + 1 \in 1 .. L
      BY <1>4, <2>3
    <3>2. saved'[i + 1] = saved[i + 1] /\ After(i) = saved[i + 1]
      BY <1>11, <2>3, <3>1 DEF After, L
    <3>3. QED
      BY <2>1, <3>2
  <2>4. QED
    BY <2>2, <2>3
<1>14. ASSUME NEW i, i = L + 1
       PROVE  After(i)' = sc
  BY <1>1, <1>10, <1>14 DEF After
<1>15. ASSUME NEW i \in 1 .. L + 1
       PROVE  Sound(saved'[i]) /\ Leads(saved'[i], i, chain'[i], After(i)')
  <2>1. CASE i = L + 1
    <3>1. Sound(db) /\ saved'[i] = db /\ chain'[i] = block /\ After(i)' = sc
      BY <1>2, <1>10, <1>11, <1>14, <2>1 DEF Stored
    <3>2. Leads(db, i, block, sc)
      BY <1>8, <2>1
    <3>3. QED
      BY <3>1, <3>2
  <2>2. CASE i # L + 1
    <3>1. i \in 1 .. L /\ i \in 1 .. Len(chain)
      BY <1>4, <2>2 DEF L
    <3>2. Sound(saved[i]) /\ Leads(saved[i], i, chain[i], After(i))
      BY <1>2, <3>1 DEF Stored
    <3>3. QED
      BY <1>10, <1>11, <1>13, <3>1, <3>2
  <2>3. QED
    BY <2>1, <2>2
<1>16. Stored'
  BY <1>1, <1>7, <1>10, <1>15 DEF Stored
<1>17. Resting'
  BY <1>1 DEF Resting
<1>18. QED
  BY <1>1, <1>12, <1>16, <1>17 DEF LedgerInv

LEMMA BeginRevertKept ==
  ASSUME LedgerInv, BeginRevert
  PROVE  LedgerInv'
<1> DEFINE L == Len(chain)
<1>1. /\ phase = "idle" /\ chain # <<>> /\ phase' = "revert" /\ block' = chain[L]
      /\ db' = db /\ offered' = offered /\ chain' = chain /\ saved' = saved
      /\ sc' = sc /\ todo' = todo
  BY DEF BeginRevert
<1>2. Types /\ Stored /\ sc = db /\ todo = <<>>
  BY <1>1 DEF LedgerInv, Resting
<1>3. L \in 1 .. L /\ chain[L] \in Seq(EntrySet)
  BY <1>1, <1>2 DEF Types
<1>4. PICK st : /\ Trace(st, saved[L], L, chain[L], FeesOf(TxsOf(chain[L])))
                /\ Same(db, st[Len(chain[L])])
  BY <1>2, <1>3 DEF Stored, Leads, After
<1>5. Types' /\ Stored'
  BY <1>1, <1>2, <1>3 DEF Types, Stored, After
<1>6. Undoing(st)'
  BY <1>1, <1>2, <1>3, <1>4 DEF Undoing
<1>7. IsShape(sc) /\ sc.raised = FALSE
  BY <1>2 DEF Stored, Sound, Good
<1>8. Reverting'
  BY <1>1, <1>2, <1>6, <1>7 DEF Reverting
<1>9. QED
  BY <1>1, <1>5, <1>8 DEF LedgerInv

LEMMA RevertTxKept ==
  ASSUME LedgerInv, RevertTx
  PROVE  LedgerInv'
<1> DEFINE L == Len(chain)
           k == Len(block)
           e == block[k]
           t == e.tx
           v == Revert(sc, e, L)
           b == chain[L]
<1>1. /\ phase = "revert" /\ block # <<>> /\ CanRevert(sc, e, L) /\ sc' = v
      /\ block' = SubSeq(block, 1, k - 1) /\ phase' = phase
      /\ db' = db /\ offered' = offered /\ chain' = chain /\ saved' = saved /\ todo' = todo
  BY DEF RevertTx
<1>2. /\ Types /\ Stored /\ chain # <<>> /\ todo = <<>>
      /\ IsShape(sc) /\ sc.raised = FALSE
  BY <1>1 DEF LedgerInv, Reverting
<1>3. PICK st : Undoing(st)
  BY <1>1 DEF LedgerInv, Reverting
<1>4. /\ k <= Len(b) /\ \A i \in 1 .. k : block[i] = b[i]
      /\ Trace(st, saved[L], L, b, FeesOf(TxsOf(b)))
      /\ Same(sc, st[k])
  BY <1>3 DEF Undoing
<1>5. /\ block \in Seq(EntrySet) /\ k \in Nat \ {0} /\ b \in Seq(EntrySet)
      /\ block' \in Seq(EntrySet) /\ Len(block') = k - 1
      /\ \A i \in 1 .. k - 1 : block'[i] = block[i]
  <2>1. block \in Seq(EntrySet) /\ k \in Nat \ {0}
    BY <1>1, <1>2 DEF Types
  <2>2. chain \in Seq(Seq(EntrySet)) /\ L \in 1 .. Len(chain)
    BY <1>2 DEF Types
  <2>3. b \in Seq(EntrySet)
    BY <2>2
  <2> HIDE DEF b, e, v
  <2>4. /\ SubSeq(block, 1, k - 1) \in Seq(EntrySet) /\ Len(SubSeq(block, 1, k - 1)) = k - 1
        /\ \A i \in 1 .. k - 1 : SubSeq(block, 1, k - 1)[i] = block[i]
    BY SMTT(60), <2>1
  <2>5. block' = SubSeq(block, 1, k - 1)
    BY <1>1
  <2> HIDE DEF k
  <2>6. QED
    BY <2>1, <2>3, <2>4, <2>5
<1>6. /\ k \in 1 .. Len(b) /\ k - 1 \in 0 .. Len(b) /\ e = b[k]
  BY <1>4, <1>5
<1> HIDE DEF e, b, v, k, L
<1>7. /\ Good(st[k - 1]) /\ t \in Ordinary /\ Valid(st[k - 1], t, L)
      /\ e = Entry(st[k - 1], t) /\ st[k] = Apply(st[k - 1], t, L)
  BY <1>4, <1>6 DEF Trace
<1>8. Same(v, st[k - 1]) /\ IsShape(v)
  <2>1. Same(sc, Apply(st[k - 1], t, L))
    BY <1>4, <1>7
  <2> DEFINE s == st[k - 1]
  <2>2. Good(s) /\ Valid(s, t, L) /\ Same(sc, Apply(s, t, L)) /\ e = Entry(s, t)
    BY <1>7, <2>1
  <2> HIDE DEF s
  <2>3. Same(Revert(sc, e, L), s) /\ IsShape(Revert(sc, e, L))
    <3> HIDE DEF t
    <3>1. QED
      BY <1>2, <1>7, <2>2, UndoStep
  <2>4. QED
    BY <2>3 DEF s, v
<1>9. v.raised = FALSE
  BY <1>1, <1>8 DEF CanRevert, v, IsShape
<1>10. Types' /\ Stored'
  BY <1>1, <1>2, <1>5 DEF Types, Stored, After
<1>11. Undoing(st)'
  <2>1. Len(block') <= Len(b) /\ \A i \in 1 .. Len(block') : block'[i] = b[i]
    BY <1>4, <1>5, <1>6
  <2>2. b' = b /\ L' = L
    BY <1>1 DEF b, L
  <2>3. Same(sc', st[Len(block')])
    BY <1>1, <1>5, <1>8
  <2>4. QED
    BY <1>1, <1>4, <2>1, <2>2, <2>3 DEF Undoing, b, L
<1>12. Reverting'
  BY <1>1, <1>2, <1>8, <1>9, <1>11 DEF Reverting
<1>13. QED
  BY <1>1, <1>10, <1>12 DEF LedgerInv

(* The state that removing the last block leaves.                           *)
LEMMA Restored ==
  ASSUME LedgerInv, CommitRevert
  PROVE  /\ chain # <<>> /\ todo = <<>>
         /\ Same(db', saved[Len(chain)]) /\ IsShape(db') /\ db'.raised = FALSE
<1> DEFINE L == Len(chain)
           b == chain[L]
           fees == FeesOf(TxsOf(b))
<1>1. phase = "revert" /\ block = <<>> /\ db' = RevertCoinbase(sc, L, fees)
  BY DEF CommitRevert
<1>2. /\ Types /\ Stored /\ chain # <<>> /\ todo = <<>>
      /\ IsShape(sc) /\ sc.raised = FALSE
  BY <1>1 DEF LedgerInv, Reverting
<1>3. PICK st : Undoing(st)
  BY <1>1 DEF LedgerInv, Reverting
<1>4. Trace(st, saved[L], L, b, fees) /\ Same(sc, st[0])
  BY <1>1, <1>3 DEF Undoing
<1>5. L \in 1 .. L /\ L \in 1 .. MaxHeight /\ b \in Seq(EntrySet)
  BY <1>2, ChainAssumption DEF Types
<1>6. fees \in Nat
  <2>1. TxsOf(b) \in Seq(Ordinary)
    <3>1. DOMAIN b = 1 .. Len(b) /\ \A i \in 1 .. Len(b) : b[i].tx \in Ordinary
      <4> HIDE DEF b
      <4>1. DOMAIN b = 1 .. Len(b) /\ \A i \in 1 .. Len(b) : b[i] \in EntrySet
        BY <1>5
      <4>2. \A x \in EntrySet : x.tx \in Ordinary
        BY DEF EntrySet
      <4>3. QED
        BY <4>1, <4>2
    <3>2. Len(b) \in Nat /\ TxsOf(b) \in [1 .. Len(b) -> Ordinary]
      BY <1>5, <3>1 DEF TxsOf
    <3>3. QED
      BY <3>2
  <2>2. QED
    BY <2>1, FeesFacts
<1>7. Good(saved[L])
  BY <1>2, <1>5 DEF Stored, Sound
<1>8. Same(sc, ApplyCoinbase(saved[L], L, fees))
  BY <1>4 DEF Trace
<1> DEFINE s == saved[L]
           r == sc
<1>9. Good(s) /\ Same(r, ApplyCoinbase(s, L, fees)) /\ IsShape(r) /\ ~ r.raised
  BY <1>2, <1>7, <1>8
<1> HIDE DEF s, r, fees, L
<1>10. LET v == RevertCoinbase(r, L, fees) IN Same(v, s) /\ IsShape(v) /\ v.raised = FALSE
  BY <1>5, <1>6, <1>9, CoinbaseUndone
<1>11. QED
  BY <1>1, <1>2, <1>10 DEF s, r, L

LEMMA CommitRevertKept ==
  ASSUME LedgerInv, CommitRevert
  PROVE  LedgerInv'
<1> DEFINE L == Len(chain)
<1>1. /\ phase = "revert" /\ block = <<>> /\ sc' = db' /\ phase' = "idle"
      /\ chain' = SubSeq(chain, 1, L - 1) /\ saved' = SubSeq(saved, 1, Len(saved) - 1)
      /\ offered' = offered /\ todo' = todo /\ block' = block
  BY DEF CommitRevert
<1>2. /\ chain # <<>> /\ todo = <<>>
      /\ Same(db', saved[L]) /\ IsShape(db') /\ db'.raised = FALSE
  BY Restored
<1>3. Types /\ Stored
  BY DEF LedgerInv
<1>4. L \in Nat \ {0} /\ L \in 1 .. L /\ Len(saved) = L
  BY <1>2, <1>3 DEF Types
<1>5. /\ chain' \in Seq(Seq(EntrySet)) /\ Len(chain') = L - 1
      /\ \A i \in 1 .. L - 1 : chain'[i] = chain[i]
  BY <1>1, <1>3, <1>4 DEF Types
<1>6. /\ saved' \in Seq(Shapes) /\ Len(saved') = L - 1
      /\ \A i \in 1 .. L - 1 : saved'[i] = saved[i]
  BY <1>1, <1>3, <1>4 DEF Types
<1>7. Types'
  BY <1>1, <1>2, <1>3, <1>4, <1>5, <1>6, ChainAssumption DEF Types
<1>8. Sound(db')
  BY <1>2, <1>3, <1>4, SameIsGood DEF Stored, Sound
<1>9. ASSUME NEW i \in 1 .. L - 1
      PROVE  Sound(saved'[i]) /\ Leads(saved'[i], i, chain'[i], After(i)')
  <2>1. i \in 1 .. L /\ i # L /\ i + 1 \in 1 .. L
    BY <1>4
  <2>2. Sound(saved[i]) /\ Leads(saved[i], i, chain[i], After(i)) /\ After(i) = saved[i + 1]
    BY <1>3, <2>1 DEF Stored, After
  <2>3. CASE i = L - 1
    <3>1. After(i)' = db' /\ i + 1 = L
      BY <1>4, <1>5, <2>3 DEF After
    <3>2. PICK st : /\ Trace(st, saved[i], i, chain[i], FeesOf(TxsOf(chain[i])))
                    /\ Same(saved[L], st[Len(chain[i])])
      BY <2>2, <3>1 DEF Leads
    <3>3. Same(db', st[Len(chain[i])])
      BY <1>2, <3>2, SameIsEquivalence
    <3>4. Leads(saved[i], i, chain[i], db')
      BY <3>2, <3>3 DEF Leads
    <3>5. QED
      BY <1>5, <1>6, <2>2, <3>1, <3>4
  <2>4. CASE i # L - 1
    <3>1. After(i)' = saved'[i + 1] /\ i + 1 \in 1 .. L - 1
      BY <1>4, <1>5, <2>4 DEF After
    <3>2. QED
      BY <1>5, <1>6, <2>2, <3>1
  <2>5. QED
    BY <2>3, <2>4
<1>10. Stored'
  BY <1>5, <1>8, <1>9 DEF Stored
<1>11. Resting'
  BY <1>1, <1>2 DEF Resting
<1>12. QED
  BY <1>1, <1>7, <1>10, <1>11 DEF LedgerInv

LEMMA LedgerStep == LedgerInv /\ [Next]_vars => LedgerInv'
<1> SUFFICES ASSUME LedgerInv, [Next]_vars PROVE LedgerInv'
  OBVIOUS
<1>1. CASE \E b \in offered : BeginBlock(b)
  BY <1>1, BeginKept
<1>2. CASE ApplyTx
  BY <1>2, ApplyTxKept
<1>3. CASE RejectBlock \/ RevertFails
  BY <1>3, DroppedKept
<1>4. CASE CommitBlock
  BY <1>4, CommitKept
<1>5. CASE BeginRevert
  BY <1>5, BeginRevertKept
<1>6. CASE RevertTx
  BY <1>6, RevertTxKept
<1>7. CASE CommitRevert
  BY <1>7, CommitRevertKept
<1>8. CASE UNCHANGED vars
  BY <1>8 DEF vars, LedgerInv, Types, Stored, After, Resting, Applying, Running, Reverting,
              Undoing
<1>9. QED
  BY <1>1, <1>2, <1>3, <1>4, <1>5, <1>6, <1>7, <1>8 DEF Next

(* Whatever blocks are added, rejected and removed, every block of the     *)
(* chain leads, transaction by valid transaction, from the state saved with *)
(* it to the next one's, and the store is sound (_apply_state_changes,      *)
(* revert_state_changes).                                                   *)
THEOREM LedgerInvariant == Spec => []LedgerInv
<1>1. QED
  BY InitInv, LedgerStep, PTL DEF Spec

LEMMA VisibleFacts ==
  ASSUME NEW r, NEW s, IsShape(r), IsShape(s), r.raised = s.raised, Same(r, s)
  PROVE  Visible(r) = Visible(s)
<1> DEFINE f(x) == [a \in Addresses |-> IF a \in Wallets \ x.wallets THEN <<>>
                                        ELSE x.log["tx"][a]]
           g(x) == [x.log EXCEPT !["tx"] = f(x)]
           h(x) == [x EXCEPT !.log = g(x)]
<1>1. Visible(r) = h(r) /\ Visible(s) = h(s)
  BY DEF Visible
<1>2. /\ IsState(r) /\ IsState(s) /\ r.log \in Lists /\ s.log \in Lists
  BY DEF IsShape
<1>3. /\ r.balance = s.balance /\ r.nonce = s.nonce /\ r.keys = s.keys
      /\ r.slaves = s.slaves /\ r.lattice = s.lattice /\ r.tokens = s.tokens
      /\ r.wallets = s.wallets /\ r.votes = s.votes /\ r.raised = s.raised
      /\ \A m \in Logs, a \in Addresses : Shown(s.wallets, m, a) => r.log[m][a] = s.log[m][a]
  BY DEF Same, SameKeys, SameRest
<1>4. f(r) = f(s)
  BY <1>3 DEF Shown, Logs
<1>5. \A m \in Logs \ {"tx"} : r.log[m] = s.log[m]
  <2> SUFFICES ASSUME NEW m \in Logs \ {"tx"} PROVE r.log[m] = s.log[m]
    OBVIOUS
  <2>1. r.log[m] \in [Addresses -> Seq(Elements)] /\ s.log[m] \in [Addresses -> Seq(Elements)]
    BY <1>2 DEF Lists
  <2>2. \A a \in Addresses : r.log[m][a] = s.log[m][a]
    BY <1>3 DEF Shown
  <2>3. QED
    BY <2>1, <2>2
<1>6. g(r) = g(s)
  <2> HIDE DEF f
  <2>1. DOMAIN r.log = Logs /\ DOMAIN s.log = Logs
    BY <1>2 DEF Lists
  <2>2. \A m \in Logs : g(r)[m] = g(s)[m]
    BY <1>4, <1>5, <2>1
  <2>3. g(r) = [m \in Logs |-> g(r)[m]] /\ g(s) = [m \in Logs |-> g(s)[m]]
    BY <2>1
  <2>4. QED
    BY <2>2, <2>3
<1> HIDE DEF g
<1>7. h(r) = h(s)
  <2>1. DOMAIN h(r) = Fields /\ h(r) = [i \in Fields |-> h(r)[i]]
    BY <1>2 DEF IsState
  <2>2. DOMAIN h(s) = Fields /\ h(s) = [i \in Fields |-> h(s)[i]]
    BY <1>2 DEF IsState
  <2>3. \A i \in Fields : h(r)[i] = h(s)[i]
    BY <1>2, <1>3, <1>6 DEF IsState, Fields
  <2>4. QED
    BY <2>1, <2>2, <2>3
<1>8. QED
  BY <1>1, <1>7

(* Removing a block leaves the account state that it was applied on, as far *)
(* as anybody can see, through any sequence of blocks added and removed     *)
(* (revert_state_changes undoes _apply_state_changes).                      *)
THEOREM RevertsRestore == Spec => RevertRestores
<1>1. LedgerInv /\ [Next]_vars
      => [Len(chain') < Len(chain) => Visible(db') = Visible(saved[Len(saved)])]_vars
  <2> SUFFICES ASSUME LedgerInv, Next, Len(chain') < Len(chain)
               PROVE  Visible(db') = Visible(saved[Len(saved)])
    OBVIOUS
  <2>1. chain \in Seq(Seq(EntrySet)) /\ Len(chain) \in Nat /\ Len(saved) = Len(chain)
    BY DEF LedgerInv, Types
  <2>2. CommitRevert
    <3>1. chain' # chain
      BY <2>1
    <3>2. ~ CommitBlock
      <4>1. SUFFICES ASSUME CommitBlock PROVE FALSE
        OBVIOUS
      <4>2. chain' = Append(chain, block) /\ block \in Seq(EntrySet)
        BY <4>1 DEF CommitBlock, LedgerInv, Types
      <4>3. Len(chain') = Len(chain) + 1
        BY <2>1, <4>2
      <4>4. QED
        BY <2>1, <4>3
    <3>3. QED
      BY <3>1, <3>2
      DEF Next, BeginBlock, ApplyTx, RejectBlock, BeginRevert, RevertTx, RevertFails
  <2>3. /\ chain # <<>> /\ Same(db', saved[Len(chain)]) /\ IsShape(db')
        /\ db'.raised = FALSE
    BY <2>2, Restored
  <2>4. Len(chain) \in 1 .. Len(chain)
    BY <2>1, <2>3
  <2>5. IsShape(saved[Len(chain)]) /\ saved[Len(chain)].raised = FALSE
    BY <2>4 DEF LedgerInv, Stored, Sound, Good
  <2>6. QED
    BY <2>1, <2>3, <2>5, VisibleFacts
<1>2. QED
  BY <1>1, LedgerInvariant, PTL DEF Spec, RevertRestores
=============================================================================
