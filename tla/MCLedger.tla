------------------------------ MODULE MCLedger ------------------------------
(* Two scenarios for TLC: a multi-sig wallet, and tokens with the other    *)
(* kinds of transaction.  A has two pages of one-time keys, B and S a part  *)
(* of one; the wallet scenario can use up the first page of A.             *)
EXTENDS Ledger, TLC

Base(kind, from, signer, key) ==
  [kind |-> kind, from |-> from, signer |-> signer, key |-> key, fee |-> 1]

Cb(n) == "cb" \o ToString(n)
Minted(miner) == [t \in {Cb(n) : n \in 1 .. MaxHeight} |-> [kind |-> "coinbase", to |-> miner]]
MCCoinbase == [n \in 1 .. MaxHeight |-> Cb(n)]

VoteTx(from, signer, key, spend, unvote) ==
  Base("multi_sig_vote", from, signer, key) @@ [spend |-> spend, unvote |-> unvote]

(* A and B sign for W; A's voice is enough, but W holds the coins for one  *)
(* spend at a time.  S is A's slave and a payee of sp.                     *)
WalletTx ==
  [sl |-> Base("slave", "A", "A", 0) @@ [slaves |-> ("S" :> 0)],
   cr |-> Base("multi_sig_create", "A", "A", 1)
            @@ [wallet |-> "W", weights |-> ("A" :> 2 @@ "B" :> 1), threshold |-> 2],
   fu |-> Base("transfer", "A", "A", 2) @@ [pays |-> ("W" :> 3)],
   f2 |-> Base("transfer", "B", "B", 0) @@ [pays |-> ("W" :> 3)],
   sp |-> Base("multi_sig_spend", "B", "B", 1)
            @@ [wallet |-> "W", pays |-> ("S" :> 2 @@ "B" :> 1), expiry |-> 6],
   s2 |-> Base("multi_sig_spend", "A", "A", 3)
            @@ [wallet |-> "W", pays |-> ("B" :> 1), expiry |-> 3],
   va |-> VoteTx("A", "A", 4, "sp", FALSE),
   ua |-> VoteTx("A", "A", 5, "sp", TRUE),
   vb |-> VoteTx("B", "B", 2, "sp", FALSE),
   vs |-> VoteTx("A", "S", 0, "sp", FALSE),
   v2 |-> VoteTx("A", "A", 6, "s2", FALSE),
   me |-> Base("message", "A", "A", 7) @@ [to |-> {}],
   m9 |-> Base("message", "A", "A", 8) @@ [to |-> {}]]

WalletCandidates ==
  {<<"sl", "cr", "fu">>, <<"f2">>, <<"sp", "s2">>, <<"va">>, <<"ua">>, <<"vb">>, <<"vs">>,
   <<"v2">>, <<"va", "ua">>, <<"me">>, <<"me", "m9">>}

(* A issues the token k and passes it on; S signs for A and for itself.    *)
TokenTx ==
  [sk |-> Base("slave", "A", "A", 0) @@ [slaves |-> ("S" :> 0 @@ "B" :> 1)],
   k  |-> Base("token", "A", "A", 1) @@ [owner |-> "B", pays |-> ("A" :> 3)],
   t1 |-> Base("transfer_token", "A", "S", 0) @@ [token |-> "k", pays |-> ("B" :> 1 @@ "S" :> 1)],
   t2 |-> Base("transfer_token", "A", "A", 2) @@ [token |-> "k", pays |-> ("B" :> 2 @@ "A" :> 1)],
   t3 |-> Base("transfer_token", "B", "B", 0) @@ [token |-> "k", pays |-> ("S" :> 2)],
   la |-> Base("lattice", "A", "A", 2) @@ [keys |-> "kyber"],
   m  |-> Base("message", "B", "B", 1) @@ [to |-> {"A"}],
   tr |-> Base("transfer", "A", "S", 1) @@ [pays |-> ("S" :> 2 @@ "B" :> 1)],
   x  |-> Base("message", "A", "B", 2) @@ [to |-> {}],
   w  |-> Base("transfer", "S", "S", 0) @@ [pays |-> ("B" :> 4)]]

TokenCandidates ==
  {<<"sk">>, <<"k", "t2">>, <<"k">>, <<"t1">>, <<"t2", "t3">>, <<"t3">>, <<"la", "m">>,
   <<"tr", "w">>, <<"tr">>, <<"x">>, <<"w">>}

MCCandidates == {WalletCandidates, TokenCandidates}

MCTx  == WalletTx @@ TokenTx @@ Minted("B")
MCTxs == DOMAIN MCTx

MCBalance  == "A" :> 20 @@ "B" :> 20 @@ "S" :> 3 @@ "mint" :> 50
MCKeyCount == "A" :> 16 @@ "B" :> 4 @@ "S" :> 2

=============================================================================
