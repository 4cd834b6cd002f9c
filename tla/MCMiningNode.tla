---------------------------- MODULE MCMiningNode ----------------------------
(* Two blocks of peers above the genesis block b0: b1 on it and b2 above     *)
(* b1, early for most of the run.  The times are chosen so that a block      *)
(* mined on b1 is due just when b2, which may stand before it in the list,   *)
(* no longer is early.                                                      *)
EXTENDS MiningNode, TLC

CONSTANTS b0, b1, b2

MCBlock  == {b0, b1, b2}
MCParent == b1 :> b0 @@ b2 :> b1
MCNumber == b0 :> 0 @@ b1 :> 1 @@ b2 :> 2
MCTime   == b0 :> 0 @@ b1 :> 2 @@ b2 :> 5

=============================================================================
