----------------------------- MODULE MCTxRelay -----------------------------
(* Two transactions that spend the same one-time key, an honest peer and    *)
(* one that announces and may never answer.                                *)
EXTENDS TxRelay

MCFee == [t \in Tx |-> 1]
MCKey == [t \in Tx |-> "k"]

=============================================================================
