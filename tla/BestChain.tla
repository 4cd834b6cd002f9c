------------------------------ MODULE BestChain ------------------------------
(***************************************************************************)
(* What the chain manager promises to the rest of the node: it learns of   *)
(* blocks whose parents it knows, and its head moves in one step, only to  *)
(* a known block of strictly greater cumulative difficulty.  Fork recovery,*)
(* with all its intermediate tips, is invisible at this level, and so is a *)
(* recovery that fails.  A recovery that ends with an exception breaks the *)
(* promise: from then on the head is some known block.                     *)
(***************************************************************************)
EXTENDS Naturals

CONSTANTS Blocks, Genesis, Parent, Difficulty

VARIABLES
  weight,   \* cumulative difficulty of the known blocks, 0 for the others
  head,
  broken    \* the promise about the head no longer holds

vars == <<weight, head, broken>>

Known(b) == weight[b] > 0

Init ==
  /\ weight = [b \in Blocks |-> IF b = Genesis THEN Difficulty[Genesis] ELSE 0]
  /\ head = Genesis
  /\ broken = FALSE

Learn(b) ==
  /\ ~Known(b)
  /\ Known(Parent[b])
  /\ weight' = [weight EXCEPT ![b] = weight[Parent[b]] + Difficulty[b]]

(* A new block leaves the head where it is, or becomes the head. *)
Keep(b) == Learn(b) /\ UNCHANGED <<head, broken>>

Extend(b) ==
  /\ Learn(b)
  /\ weight'[b] > weight[head]
  /\ head' = b
  /\ UNCHANGED broken

(* The head moves to a block already known. *)
Switch(b) ==
  /\ Known(b)
  /\ weight[b] > weight[head]
  /\ head' = b
  /\ UNCHANGED <<weight, broken>>

(* The promise breaks, or is broken: any known block may be the head.       *)
Wander ==
  /\ broken' = TRUE
  /\ UNCHANGED weight \/ \E b \in Blocks \ {Genesis} : Learn(b)
  /\ \E b \in Blocks : weight'[b] > 0 /\ head' = b

Next ==
  \/ \E b \in Blocks \ {Genesis} : Keep(b) \/ Extend(b) \/ Switch(b)
  \/ Wander

Spec == Init /\ [][Next]_vars
=============================================================================
