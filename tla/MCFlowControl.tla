--------------------------- MODULE MCFlowControl ---------------------------
(* The limit is small against the messages, so that a batch can be cut     *)
(* short, both sides can reach the limit and a read can end anywhere.      *)
EXTENDS FlowControl

MCKinds == {[size |-> 4, priority |-> 0], [size |-> 5, priority |-> 1]}
MCMaxSends == [e \in Side |-> IF e = "a" THEN 4 ELSE 2]

=============================================================================
