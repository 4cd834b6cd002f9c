--------------------------- MODULE MCChainManager ---------------------------
(***************************************************************************)
(* Block trees on which TLC checks ChainManager.                           *)
(***************************************************************************)
EXTENDS ChainManager

CONSTANTS a1, a2, a3, a4, b1, b2, b3, b4, b5, c2, c3, d2, d3, x2, t1, t2, t3

(* A tree with four branches: a and b fork at the genesis block, c and d at *)
(* a1; x2 is a block over the size limit on top of b1.                      *)
MCParent ==
  [b \in Blocks \ {Genesis} |->
     CASE b \in {a1, b1} -> Genesis
       [] b \in {a2, c2, d2} -> a1
       [] b = a3 -> a2
       [] b = a4 -> a3
       [] b \in {b2, x2} -> b1
       [] b = b3 -> b2
       [] b = b4 -> b3
       [] b = b5 -> b4
       [] b = c3 -> c2
       [] b = d3 -> d2]

MCNumber ==
  [b \in Blocks |->
     CASE b = Genesis -> 0
       [] b \in {a1, b1} -> 1
       [] b \in {a2, b2, c2, d2, x2} -> 2
       [] b \in {a3, b3, c3, d3} -> 3
       [] b \in {a4, b4} -> 4
       [] b = b5 -> 5]

(* c3 and a4 are difficult: c3 makes c heavier than a without making it     *)
(* longer, a4 makes a heavier than either.                                  *)
MCDifficulty == [b \in Blocks |-> IF b \in {a4, c3} THEN 2 ELSE 1]

(* t1 is in a2 and in b3, t2 in a3, t3 in b2; t2 and t3 share a one-time    *)
(* key.                                                                     *)
MCTxsOf ==
  [b \in Blocks |->
     CASE b \in {a2, b3} -> {t1}
       [] b = a3 -> {t2}
       [] b = b2 -> {t3}
       [] OTHER -> {}]

MCSpends == [b \in Blocks |-> IF b \in {a3, b2} THEN {t2, t3} ELSE MCTxsOf[b]]
=============================================================================
