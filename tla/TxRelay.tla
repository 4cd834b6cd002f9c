------------------------------ MODULE TxRelay ------------------------------
(* The relay of transactions: MessageReceipt and TransactionPool composed   *)
(* by P2PTxManagement and the factory.  The reactor runs one handler, one   *)
(* timer or one step of a processor at a time; the service thread submits  *)
(* and the miner's thread adds blocks between any two steps.               *)
EXTENDS TransactionPool, MessageReceipt

CONSTANT Transfer  \* the transactions announced as plain transfers

ASSUME RelayAssumption == Hash = Tx /\ Transfer \subseteq Tx

vars == <<poolVars, receiptVars>>

TypeOK == PoolTypeOK /\ ReceiptTypeOK

Init == PoolInit /\ ReceiptInit

-----------------------------------------------------------------------------

(* handle_message_received: the announcement of a plain transfer, and of   *)
(* no other transaction, is dropped while the queue is full.               *)
HandleMessageReceived(p, h) ==
  /\ Idle
  /\ h \in Transfer => ~ PendingFull
  /\ Announced(p, h)
  /\ UNCHANGED poolVars

Timer(h) ==
  /\ Idle
  /\ TimedOut(h)
  /\ UNCHANGED poolVars

(* handle_tx and its eight siblings.                                       *)
HandleTx(p, t) ==
  /\ Idle
  /\ Answered(p, t)
  /\ IF IsRequested(t, p)
     THEN AddUnprocessed(t)
     ELSE UNCHANGED poolVars

ApiSubmit ==
  /\ ApiPush \/ ApiHash \/ ApiStart \/ ApiFlag
  /\ UNCHANGED receiptVars

PushTransaction(t) == ApiCheck(t) /\ UNCHANGED receiptVars

ProcessorStep ==
  \/ (ProcPop \/ ProcRaises \/ ProcEnd) /\ UNCHANGED receiptVars
  \/ ProcFinish /\ Broadcast(IF Passes(tick.tx) THEN <<tick.tx>> ELSE <<>>)

NewBlock(B) ==
  /\ BlockAdded(B)
  /\ LET q == Rebroadcast(RemoveInBlock(B), mined \cup B)
     IN Broadcast([i \in DOMAIN q |-> q[i].tx])

Next ==
  \/ \E p \in Peer, h \in Hash : HandleMessageReceived(p, h) \/ HandleTx(p, h)
  \/ \E h \in Hash : Timer(h)
  \/ \E t \in ApiTx : PushTransaction(t)
  \/ ApiSubmit
  \/ ProcessorStep
  \/ \E B \in Blocks : NewBlock(B)

Spec == Init /\ [][Next]_vars

-----------------------------------------------------------------------------
(* Every open request has asked a peer and has a timer running that will   *)
(* ask the next one or close it, whatever was evicted, announced again or  *)
(* answered meanwhile.                                                     *)
RequestsAreWatched ==
  \A i \in DOMAIN requested :
    requested[i].asked # <<>> /\ timers[requested[i].hash] > 0

(* The hash set, which the processors test, names only transactions that   *)
(* the heap holds, until a processor meets an empty heap or a missing hash. *)
HashedIsQueued == failed \/ \A t \in pendingHash : pending[t] > 0

Serving == processors > (IF tick.at = "ending" THEN 1 ELSE 0)

(* A queued transaction has a processor that will come to it, or a         *)
(* submission about to start one, but when the only processor ended by an  *)
(* exception, of its own or of a validation, or in the first window: then  *)
(* the queue waits for the next submission it has room for, a full one for *)
(* ever.  The flag is up without a processor, which no submission mends,   *)
(* only after the second window.                                           *)
NothingStranded ==
  raced \/ /\ pendingHash # {} => Serving \/ api.at = "hashed" \/ deserted
           /\ running => processors > 0

(* While an honest peer has still to answer, the node still accepts the     *)
(* answer: no other peer's silence or message, no timer and no submission  *)
(* of its own closes the request under it.  Only eviction does.            *)
AnswerIsAwaited ==
  \A a \in asks : IsRequested(a[2], a[1]) \/ a[2] \in evicted

=============================================================================
