--------------------------- MODULE TransactionPool ---------------------------
(* TransactionPool, TxnProcessor and P2PFactory.add_unprocessed_txn: the    *)
(* queue of submitted transactions, the processors that validate them on    *)
(* the reactor and the pool the miner reads.  No lock protects the queue:   *)
(* the reactor and the one thread of the public service both submit.  The   *)
(* reactor's own submission runs without a processor's step in between and  *)
(* is one action; that of the service thread is one action per access.      *)
(* TxRelay puts these actions together with the relay of messages.          *)
EXTENDS Naturals, FiniteSets, Sequences, SequencesExt

CONSTANTS
  Tx,              \* transactions, by hash
  NoTx,
  Fee,             \* Fee[t]: priority in the queue
  Key,             \* Key[t]: public key and one-time index that signs t
  Raising,         \* transactions whose validation raises on some states
  PendingSize,     \* pending_transaction_pool_size less its reserve
  PoolSize,        \* transaction_pool_size
  StaleThreshold,  \* stale_transaction_threshold
  MaxHeight,       \* bound: blocks added in a behaviour
  ApiTx,           \* what users of the public service submit
  MaxApi           \* bound: submissions of the service thread

ASSUME PoolAssumption ==
  /\ NoTx \notin Tx
  /\ Fee \in [Tx -> Nat]
  /\ DOMAIN Key = Tx
  /\ ApiTx \subseteq Tx /\ Raising \subseteq Tx
  /\ {PendingSize, PoolSize, StaleThreshold, MaxHeight, MaxApi} \subseteq Nat

VARIABLES
  pending,      \* pending_tx_pool: how many copies of t are in the heap
  pendingHash,  \* pending_tx_pool_hash
  pool,         \* transaction_pool
  running,      \* _txn_processor_running
  processors,   \* TxnProcessors not yet exhausted
  tick,         \* the processor's step the reactor is in
  api,          \* the service thread's submission
  mined,        \* transactions of the main chain
  height,
  failed,       \* history: a processor met an empty heap or a missing hash
  deserted,     \* history: since a submission last started a processor, the
                \* only one ended by an exception or in the first window
  raced         \* history: the flag changed hands in the second window

poolVars == <<pending, pendingHash, pool, running, processors, tick, api,
              mined, height, failed, deserted, raced>>

PoolEntries == [tx : Tx, block_number : 0 .. MaxHeight]

PoolTypeOK ==
  /\ pending \in [Tx -> Nat]
  /\ pendingHash \subseteq Tx
  /\ pool \in Seq(PoolEntries) /\ Len(pool) <= PoolSize
  /\ running \in BOOLEAN
  /\ processors \in Nat
  /\ tick \in [at : {"idle", "popped", "ending"}, tx : Tx \cup {NoTx}]
  /\ api \in [at : {"idle", "checked", "pushed", "hashed", "created"},
              tx : Tx \cup {NoTx}, done : 0 .. MaxApi]
  /\ mined \subseteq Tx
  /\ height \in 0 .. MaxHeight
  /\ failed \in BOOLEAN /\ deserted \in BOOLEAN /\ raced \in BOOLEAN

PoolInit ==
  /\ pending = [t \in Tx |-> 0]
  /\ pendingHash = {}
  /\ pool = <<>>
  /\ running = FALSE
  /\ processors = 0
  /\ tick = [at |-> "idle", tx |-> NoTx]
  /\ api = [at |-> "idle", tx |-> NoTx, done |-> 0]
  /\ mined = {}
  /\ height = 0
  /\ failed = FALSE
  /\ deserted = FALSE
  /\ raced = FALSE

Pooled(t)  == \E i \in DOMAIN pool : pool[i].tx = t
Queued     == {t \in Tx : pending[t] > 0}
QueueLen   == FoldFunctionOnSet(+, 0, pending, Tx)
PendingFull == QueueLen >= PendingSize

(* The state validates t: its one-time key is not used in the chain.       *)
Valid(t, chain) == \A u \in chain : Key[u] # Key[t]

-----------------------------------------------------------------------------
(* Submission.                                                             *)

(* What update_pending_tx_pool asks before it queues t.                    *)
Acceptable(t) == ~ PendingFull /\ ~ Pooled(t) /\ t \notin pendingHash

Start_Never == 0

Start == IF running THEN 0 ELSE 1

(* add_unprocessed_txn on the reactor.                                     *)
AddUnprocessed(t) ==
  /\ IF Acceptable(t)
     THEN /\ pending' = [pending EXCEPT ![t] = @ + 1]
          /\ pendingHash' = pendingHash \cup {t}
          /\ processors' = processors + Start
          /\ deserted' = (deserted /\ running)
          /\ running' = TRUE
     ELSE UNCHANGED <<pending, pendingHash, processors, running, deserted>>
  /\ UNCHANGED <<pool, tick, api, mined, height, failed, raced>>

(* PushTransaction, submit_send_tx and the same call on the service thread: *)
(* the tests, the heap, the hash, the flag, and the flag again.            *)
ApiCheck(t) ==
  /\ api.at = "idle" /\ api.done < MaxApi
  /\ Acceptable(t)
  /\ api' = [at |-> "checked", tx |-> t, done |-> api.done + 1]
  /\ UNCHANGED <<pending, pendingHash, pool, running, processors, tick, mined, height,
                 failed, deserted, raced>>

ApiPush ==
  /\ api.at = "checked"
  /\ pending' = [pending EXCEPT ![api.tx] = @ + 1]
  /\ api' = [api EXCEPT !.at = "pushed"]
  /\ UNCHANGED <<pendingHash, pool, running, processors, tick, mined, height, failed,
                 deserted, raced>>

ApiHash ==
  /\ api.at = "pushed"
  /\ pendingHash' = pendingHash \cup {api.tx}
  /\ api' = [api EXCEPT !.at = "hashed"]
  /\ UNCHANGED <<pending, pool, running, processors, tick, mined, height, failed,
                 deserted, raced>>

(* First window: the only processor has found the queue empty and has not  *)
(* yet cleared the flag.  It leaves the new transaction without one.       *)
ApiStart ==
  /\ api.at = "hashed"
  /\ IF running
     THEN /\ api' = [api EXCEPT !.at = "idle", !.tx = NoTx]
          /\ deserted' = (deserted \/ (tick.at = "ending" /\ processors = 1))
          /\ UNCHANGED processors
     ELSE /\ processors' = processors + 1
          /\ api' = [api EXCEPT !.at = "created"]
          /\ deserted' = FALSE
  /\ UNCHANGED <<pending, pendingHash, pool, running, tick, mined, height, failed, raced>>

ApiFlag ==
  /\ api.at = "created"
  /\ running' = TRUE
  /\ api' = [api EXCEPT !.at = "idle", !.tx = NoTx]
  /\ UNCHANGED <<pending, pendingHash, pool, processors, tick, mined, height, failed,
                 deserted, raced>>

-----------------------------------------------------------------------------
(* One __next__ of a processor per turn of the reactor.                    *)

Idle == tick.at = "idle"

First == {t \in Queued : \A u \in Queued : Fee[u] <= Fee[t]}

(* An exception ends the processor by its errback, whatever is queued.     *)
Raise ==
  /\ tick' = [at |-> "ending", tx |-> NoTx]
  /\ deserted' = (deserted \/ processors = 1)

Unhash_Nothing(t) == pendingHash

Unhash(t) == pendingHash \ {t}

(* get_pending_transaction tests the hashes, pops the heap and removes the *)
(* hash: an empty heap or a missing hash is an exception.                  *)
ProcPop ==
  /\ Idle /\ processors > 0
  /\ IF pendingHash = {}
     THEN /\ tick' = [at |-> "ending", tx |-> NoTx]
          /\ UNCHANGED <<pending, pendingHash, failed, deserted>>
     ELSE \/ /\ Queued = {}
             /\ Raise
             /\ failed' = TRUE
             /\ UNCHANGED <<pending, pendingHash>>
          \/ \E t \in First :
               /\ pending' = [pending EXCEPT ![t] = @ - 1]
               /\ pendingHash' = Unhash(t)
               /\ IF t \in pendingHash
                  THEN tick' = [at |-> "popped", tx |-> t] /\ UNCHANGED <<failed, deserted>>
                  ELSE Raise /\ failed' = TRUE
  /\ UNCHANGED <<pool, running, processors, api, mined, height, raced>>

KeyFreeInPool(t) ==
  \A i \in DOMAIN pool : pool[i].tx # t => Key[pool[i].tx] # Key[t]

Passes(t) == Valid(t, mined) /\ KeyFreeInPool(t)

(* validate_all, validate_transaction_pool and add_tx_to_pool, whose       *)
(* refusal by a full pool is ignored.  TxRelay broadcasts what passes.     *)
ProcFinish ==
  /\ tick.at = "popped"
  /\ pool' = IF Passes(tick.tx) /\ Len(pool) < PoolSize
             THEN Append(pool, [tx |-> tick.tx, block_number |-> height])
             ELSE pool
  /\ tick' = [at |-> "idle", tx |-> NoTx]
  /\ UNCHANGED <<pending, pendingHash, running, processors, api, mined, height, failed,
                 deserted, raced>>

(* validate_all raises, for a one-time index past the first page of keys   *)
(* or a wallet the chain has not seen: the transaction is lost and so is   *)
(* the processor, with the rest of the queue still in it.                  *)
ProcRaises ==
  /\ tick.at = "popped" /\ tick.tx \in Raising
  /\ Raise
  /\ UNCHANGED <<pending, pendingHash, pool, running, processors, api, mined, height,
                 failed, raced>>

(* reset_processor_flag.  Second window: the only processor is the one     *)
(* whose flag the service thread has not yet raised.                       *)
ProcEnd ==
  /\ tick.at = "ending"
  /\ processors' = processors - 1
  /\ running' = FALSE
  /\ tick' = [at |-> "idle", tx |-> NoTx]
  /\ raced' = (raced \/ (api.at = "created" /\ processors = 1))
  /\ UNCHANGED <<pending, pendingHash, pool, api, mined, height, failed, deserted>>

-----------------------------------------------------------------------------
(* A block reaches the main chain, from a peer or from the miner's thread. *)

(* The elements of q at the places in I, in their order.                   *)
Pick(q, I) ==
  LET f[i \in 0 .. Len(q)] ==
        IF i = 0 THEN <<>> ELSE IF i \in I THEN Append(f[i - 1], q[i]) ELSE f[i - 1]
  IN f[Len(q)]

(* remove_tx_in_block_from_pool takes out the first copy of each.          *)
RemoveInBlock(block) ==
  Pick(pool, {i \in DOMAIN pool : pool[i].tx \in block =>
                                   \E j \in 1 .. i - 1 : pool[j].tx = pool[i].tx})

Stale(e) == height + 1 > e.block_number + StaleThreshold

(* check_stale_txn on what remove_tx_in_block_from_pool leaves: a stale    *)
(* transaction is validated again, dropped or dated anew and broadcast.    *)
Kept(q, chain) == Pick(q, {i \in DOMAIN q : Stale(q[i]) => Valid(q[i].tx, chain)})
Rebroadcast(q, chain) == Pick(q, {i \in DOMAIN q : Stale(q[i]) /\ Valid(q[i].tx, chain)})
Renewed(q) ==
  [i \in DOMAIN q |-> IF Stale(q[i]) THEN [q[i] EXCEPT !.block_number = height + 1] ELSE q[i]]

Blocks ==
  {B \in SUBSET (Tx \ mined) :
     \A t \in B : Valid(t, mined) /\ \A u \in B \ {t} : Key[t] # Key[u]}

BlockAdded(B) ==
  /\ height < MaxHeight
  /\ mined' = mined \cup B
  /\ height' = height + 1
  /\ pool' = Renewed(Kept(RemoveInBlock(B), mined'))
  /\ UNCHANGED <<pending, pendingHash, running, processors, tick, api, failed, deserted,
                 raced>>

=============================================================================
