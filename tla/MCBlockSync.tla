---------------------------- MODULE MCBlockSync ----------------------------
(* Two branches from the genesis block, a1 a2 and b1 b2 b3, and a block x    *)
(* above a2 that is not valid.  Of the honest peers one is on each branch.  *)
EXTENDS BlockSync

MCParent ==
  [b \in Block \ {"g"} |->
     CASE b \in {"a1", "b1"} -> "g"
       [] b = "a2" -> "a1"
       [] b = "b2" -> "b1"
       [] b = "b3" -> "b2"
       [] b = "x" -> "a2"]

MCNumber ==
  [b \in Block |->
     CASE b = "g" -> 0 [] b \in {"a1", "b1"} -> 1 [] b \in {"a2", "b2"} -> 2 [] OTHER -> 3]

MCView == [p \in Honest |-> IF p = "late" THEN "b2" ELSE "a2"]

MCLists ==
  {[first |-> 0, hashes |-> <<"g", "b1", "b2", "b3">>],
   [first |-> 1, hashes |-> <<"a1", "a2", "x">>],
   [first |-> 0, hashes |-> <<"b1", "a1">>]}

=============================================================================
