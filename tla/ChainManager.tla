---------------------------- MODULE ChainManager ----------------------------
(***************************************************************************)
(* The chain manager of a node: the block store, the main chain, the       *)
(* account state behind it and the fork recovery that moves the node from  *)
(* one branch to a heavier one (src/src/btq/core/ChainManager.py).         *)
(*                                                                         *)
(* The store is LevelDB.  One write_batch, or one put/delete outside a     *)
(* batch, is atomic and is one step of this module; the process can crash  *)
(* between any two of them and is then loaded again from the store.  Every *)
(* entry point holds the manager's RLock, so no second call interleaves    *)
(* with the steps of a recovery.                                           *)
(*                                                                         *)
(* The tree of blocks a node may be offered is a constant.  Whether a      *)
(* block's transactions can be applied on top of its own ancestors, and    *)
(* reverted again, depends on that chain only, hence the constant sets     *)
(* Applies and Reverts.  What does not succeed ends in a False or in an    *)
(* exception, which is the constant set Raises: a False is handled by      *)
(* _fork_recovery, an exception is caught neither there nor in load, and   *)
(* leaves the store as the last batch made it.                             *)
(***************************************************************************)
EXTENDS Naturals, FiniteSets, SequencesExt

CONSTANTS
  Blocks,       \* the blocks the node may be offered, with the genesis block
  Genesis,
  NoBlock,      \* the absent block: an empty field, a missing mapping
  Parent,       \* prev_headerhash, a function on Blocks \ {Genesis}
  Number,       \* block_number, a function on Blocks
  Difficulty,   \* block_difficulty, a function on Blocks
  SizeOK,       \* blocks within the size limit of their branch
  Applies,      \* blocks _apply_state_changes succeeds on
  Reverts,      \* blocks revert_state_changes succeeds on
  Raises,       \* blocks on which the two raise where they do not succeed
  Txs,          \* transactions other than coinbase
  TxsOf,        \* the transactions of a block
  Spends,       \* the transactions no longer valid once a block is applied
  PoolSize,     \* transaction_pool_size
  ReorgLimit,   \* config.dev.reorg_limit
  MaxCrashes    \* bound on the crashes of a behaviour

Heights == {Number[b] : b \in Blocks}

ASSUME TreeAssumption ==
  /\ Genesis \in Blocks
  /\ NoBlock \notin Blocks
  /\ Parent \in [Blocks \ {Genesis} -> Blocks]
  /\ Number \in [Blocks -> Nat]
  /\ Number[Genesis] = 0
  /\ \A b \in Blocks \ {Genesis} : Number[b] = Number[Parent[b]] + 1

ASSUME BlockAssumption ==
  /\ Difficulty \in [Blocks -> Nat \ {0}]
  /\ SizeOK \subseteq Blocks
  /\ Applies \subseteq Blocks
  /\ Reverts \subseteq Blocks
  /\ Raises  \subseteq Blocks

ASSUME TxAssumption ==
  /\ TxsOf  \in [Blocks -> SUBSET Txs]
  /\ Spends \in [Blocks -> SUBSET Txs]
  /\ \A b \in Blocks : TxsOf[b] \subseteq Spends[b]

ASSUME BoundAssumption ==
  /\ PoolSize   \in Nat
  /\ ReorgLimit \in Nat
  /\ MaxCrashes \in Nat

VARIABLES
  \* In the store
  blocks,      \* blocks (and their metadata) in the store
  cumdiff,     \* cumulative_difficulty of the block metadata; 0 when absent
  mainchain,   \* the block number mapping
  height,      \* the main chain height, key b'blockheight'
  ledger,      \* blocks whose changes are in the account state
  reorgLimit,  \* key b'reorg_limit'
  forkState,   \* key b'fork_state'
  \* In memory
  pc,          \* what the process is doing
  lastBlock,   \* _last_block
  hashPath,    \* the path collected by the running _get_fork_point
  removed,     \* old_hash_path: what this invocation restores on failure
  next,        \* index of the block add_chain adds next, 0 when none is left
  pool,        \* tx_pool.transaction_pool
  triggerMiner,
  loading,     \* the recovery that runs was started by load()
  \* History and bound
  raised,      \* an exception has ended a recovery
  crashes

stored   == <<blocks, cumdiff, mainchain, height, ledger, reorgLimit, forkState>>
memory   == <<pc, lastBlock, hashPath, removed, next, pool, triggerMiner, loading>>
chain    == <<mainchain, height, ledger, lastBlock>>
locals   == <<hashPath, removed, next>>
life     == <<loading, raised, crashes>>
vars     == <<stored, memory, raised, crashes>>

MaybeBlock == Blocks \cup {NoBlock}

NoFork == [initiator |-> NoBlock, point |-> NoBlock, newPath |-> <<>>, oldPath |-> <<>>]

(* A fork_state record is in the store: a recovery runs or was interrupted. *)
Recovering == forkState.initiator # NoBlock

(* Transactions the account state no longer admits. *)
Spent(applied) == UNION {Spends[b] : b \in applied}

Steps == {"Down", "Idle", "FindFork", "Rollback", "AddChain", "Undo", "Restore", "Astray"}

TypeOK ==
  /\ blocks       \in SUBSET Blocks
  /\ cumdiff      \in [Blocks -> Nat]
  /\ mainchain    \in [Heights -> MaybeBlock]
  /\ height       \in Heights
  /\ ledger       \in SUBSET Blocks
  /\ reorgLimit   \in Nat
  /\ forkState    \in [initiator : MaybeBlock, point : MaybeBlock,
                       newPath : Seq(Blocks), oldPath : Seq(Blocks)]
  /\ pc           \in Steps
  /\ lastBlock    \in MaybeBlock
  /\ hashPath     \in Seq(Blocks)
  /\ removed      \in Seq(Blocks)
  /\ next         \in Nat
  /\ pool         \in SUBSET Txs
  /\ triggerMiner \in BOOLEAN
  /\ loading      \in BOOLEAN
  /\ raised       \in BOOLEAN
  /\ crashes      \in Nat

(* A store in which load() has written the genesis block, and the node that *)
(* has just done so.                                                        *)
Init ==
  /\ blocks       = {Genesis}
  /\ cumdiff      = [b \in Blocks |-> IF b = Genesis THEN Difficulty[Genesis] ELSE 0]
  /\ mainchain    = [n \in Heights |-> IF n = 0 THEN Genesis ELSE NoBlock]
  /\ height       = 0
  /\ ledger       = {Genesis}
  /\ reorgLimit   = 0
  /\ forkState    = NoFork
  /\ pc           = "Idle"
  /\ lastBlock    = Genesis
  /\ hashPath     = <<>>
  /\ removed      = <<>>
  /\ next         = 0
  /\ pool         = {}
  /\ triggerMiner = FALSE
  /\ loading      = FALSE
  /\ raised       = FALSE
  /\ crashes      = 0

-----------------------------------------------------------------------------
(* Applying and reverting one block: the account state, the main chain and  *)
(* the transaction pool change together.                                    *)

(* Faulty variants, named <definition>_<fault>, stand beside the definitions *)
(* they vary; no specification uses them (see the README).                  *)

LimitAfter_Unclamped(n) == n - ReorgLimit

(* State.update_re_org_limit: the limit follows the height and never drops. *)
LimitAfter(n) ==
  IF n > ReorgLimit + reorgLimit THEN n - ReorgLimit ELSE reorgLimit

(* _apply_state_changes followed by _update_chainstate.  The block's own    *)
(* transactions leave the pool; with one-time keys beyond the tracked range *)
(* others that it invalidates may leave too.                                *)
ApplyBlock(b) ==
  /\ ledger'     = ledger \cup {b}
  /\ mainchain'  = [mainchain EXCEPT ![Number[b]] = b]
  /\ height'     = Number[b]
  /\ lastBlock'  = b
  /\ reorgLimit' = LimitAfter(Number[b])

LeavePool(b, mayLeave) ==
  \E gone \in SUBSET mayLeave :
    /\ TxsOf[b] \subseteq gone
    /\ pool' = pool \ gone

ReturnToPool_Dropped(b) == UNCHANGED pool

(* add_tx_from_block_to_pool stops at the first transaction that finds the  *)
(* pool full.                                                               *)
ReturnToPool(b) ==
  \E back \in SUBSET TxsOf[b] :
    /\ pool' = pool \cup back
    /\ back # {} => Cardinality(pool \cup back) <= PoolSize
    /\ back = TxsOf[b] \/ Cardinality(pool \cup back) >= PoolSize

RevertTip_KeepsMapping ==
  /\ ledger'    = ledger \ {lastBlock}
  /\ height'    = Number[lastBlock] - 1
  /\ lastBlock' = Parent[lastBlock]
  /\ ReturnToPool(lastBlock)
  /\ UNCHANGED mainchain

RevertTip_KeepsState ==
  /\ mainchain' = [mainchain EXCEPT ![Number[lastBlock]] = NoBlock]
  /\ height'    = Number[lastBlock] - 1
  /\ lastBlock' = Parent[lastBlock]
  /\ ReturnToPool(lastBlock)
  /\ UNCHANGED ledger

(* _remove_block_from_mainchain on the tip, and the assignment of           *)
(* _last_block after the batch is written.                                  *)
RevertTip ==
  /\ ledger'    = ledger \ {lastBlock}
  /\ mainchain' = [mainchain EXCEPT ![Number[lastBlock]] = NoBlock]
  /\ height'    = Number[lastBlock] - 1
  /\ lastBlock' = Parent[lastBlock]
  /\ ReturnToPool(lastBlock)

-----------------------------------------------------------------------------
(* add_block                                                                *)

(* The checks before anything is changed: Block.validate wants a known      *)
(* parent, add_block a number beyond the re-org limit and no duplicate.     *)
Admitted(b) ==
  /\ b \notin blocks
  /\ Parent[b] \in blocks
  /\ Number[b] > reorgLimit

(* _add_block_metadata *)
CumulativeDifficulty(b) == cumdiff[Parent[b]] + Difficulty[b]

Heavier_Longer(b)  == Number[b] > Number[lastBlock]
Heavier_OrEqual(b) == CumulativeDifficulty(b) >= cumdiff[lastBlock]

Heavier(b) == CumulativeDifficulty(b) > cumdiff[lastBlock]

StoreBlock(b) ==
  /\ blocks'  = blocks \cup {b}
  /\ cumdiff' = [cumdiff EXCEPT ![b] = CumulativeDifficulty(b)]

(* The block is too large, or extends the tip and does not apply, with a    *)
(* False or an exception: nothing reaches the store.                        *)
RefuseBlock(b) ==
  /\ pc = "Idle"
  /\ Admitted(b)
  /\ b \in SizeOK => Parent[b] = lastBlock /\ b \notin Applies
  /\ triggerMiner' = FALSE
  /\ UNCHANGED <<stored, pc, lastBlock, locals, pool, life>>

(* The block extends the tip; check_stale_txn then drops pool transactions  *)
(* that the new state no longer admits.                                     *)
ExtendTip(b) ==
  /\ pc = "Idle"
  /\ Admitted(b)
  /\ b \in SizeOK \cap Applies
  /\ Parent[b] = lastBlock
  /\ Heavier(b)
  /\ StoreBlock(b)
  /\ ApplyBlock(b)
  /\ LeavePool(b, Spent(ledger \cup {b}))
  /\ triggerMiner' = TRUE
  /\ UNCHANGED <<forkState, pc, locals, life>>

(* A block of a branch that is not heavier than the main chain is kept.     *)
StoreSideBlock(b) ==
  /\ pc = "Idle"
  /\ Admitted(b)
  /\ b \in SizeOK
  /\ Parent[b] # lastBlock
  /\ ~Heavier(b)
  /\ StoreBlock(b)
  /\ triggerMiner' = FALSE
  /\ UNCHANGED <<chain, reorgLimit, forkState, pc, locals, pool, life>>

(* A block that makes a branch heavier is stored in one batch with the      *)
(* record of the recovery it starts.                                        *)
StartRecovery(b) ==
  /\ pc = "Idle"
  /\ Admitted(b)
  /\ b \in SizeOK
  /\ Parent[b] # lastBlock
  /\ Heavier(b)
  /\ StoreBlock(b)
  /\ forkState' = [NoFork EXCEPT !.initiator = b]
  /\ pc'        = "FindFork"
  /\ hashPath'  = <<>>
  /\ triggerMiner' = FALSE
  /\ UNCHANGED <<chain, reorgLimit, removed, next, pool, life>>

(* A transaction is validated against the state and enters the pool.        *)
AddTransaction(t) ==
  /\ pc = "Idle"
  /\ t \notin pool \cup Spent(ledger)
  /\ Cardinality(pool) < PoolSize
  /\ pool' = pool \cup {t}
  /\ UNCHANGED <<stored, pc, lastBlock, locals, triggerMiner, life>>
-----------------------------------------------------------------------------
(* _fork_recovery                                                           *)

(* _get_fork_point walks from the initiator back to the main chain.         *)
Cursor ==
  IF hashPath = <<>> THEN forkState.initiator ELSE Parent[hashPath[Len(hashPath)]]

CollectHash ==
  /\ pc = "FindFork"
  /\ mainchain[Number[Cursor]] # Cursor
  /\ hashPath' = Append(hashPath, Cursor)
  /\ UNCHANGED <<stored, pc, lastBlock, removed, next, pool, triggerMiner, life>>

RecordForkPoint_LastHash ==
  /\ pc = "FindFork"
  /\ mainchain[Number[Cursor]] = Cursor
  /\ forkState' = [forkState EXCEPT !.point = hashPath[Len(hashPath)], !.newPath = hashPath]
  /\ pc'       = "Rollback"
  /\ hashPath' = <<>>
  /\ removed'  = <<>>
  /\ UNCHANGED <<blocks, cumdiff, chain, reorgLimit, next, pool, triggerMiner, life>>

RecordForkPoint ==
  /\ pc = "FindFork"
  /\ mainchain[Number[Cursor]] = Cursor
  /\ forkState' = [forkState EXCEPT !.point = Cursor, !.newPath = hashPath]
  /\ pc'       = "Rollback"
  /\ hashPath' = <<>>
  /\ removed'  = <<>>
  /\ UNCHANGED <<blocks, cumdiff, chain, reorgLimit, next, pool, triggerMiner, life>>

(* add_chain(path[-1::-1], ...): a path is kept as the code records it, tip *)
(* first, and added from its end.  The blocks above the tip remain to be    *)
(* added when the tip is on the path, all of them otherwise.                *)
Remaining(path, tip) ==
  IF tip \in ToSet(path)
    THEN (CHOOSE k \in DOMAIN path : path[k] = tip) - 1
    ELSE Len(path)

(* add_chain gives up at once when the tip is a block of the old main chain *)
(* that an interrupted recovery had restored.                               *)
Refused(path, tip) ==
  /\ tip \notin ToSet(path)
  /\ tip \in ToSet(forkState.oldPath)

BeginAddChain(tip) ==
  IF Refused(forkState.newPath, tip)
    THEN pc' = "Undo" /\ next' = 0
    ELSE pc' = "AddChain" /\ next' = Remaining(forkState.newPath, tip)

(* The loop of _rollback ends at the fork point, or where the tip is not    *)
(* the block its number maps to.                                            *)
AtForkPoint ==
  \/ lastBlock = forkState.point
  \/ mainchain[Number[lastBlock]] # lastBlock

RollbackTip ==
  /\ pc = "Rollback"
  /\ ~AtForkPoint
  /\ lastBlock \in Reverts
  /\ RevertTip
  /\ removed'   = Append(removed, lastBlock)
  /\ forkState' = [forkState EXCEPT !.oldPath = Append(@, lastBlock)]
  /\ UNCHANGED <<blocks, cumdiff, reorgLimit, pc, hashPath, next, triggerMiner, life>>

(* revert_state_changes returns False; the block that could not be removed  *)
(* is on old_hash_path already.                                             *)
RollbackFails ==
  /\ pc = "Rollback"
  /\ ~AtForkPoint
  /\ lastBlock \notin Reverts \cup Raises
  /\ removed' = Append(removed, lastBlock)
  /\ pc' = "Undo"
  /\ UNCHANGED <<stored, lastBlock, hashPath, next, pool, triggerMiner, life>>

EndRollback ==
  /\ pc = "Rollback"
  /\ AtForkPoint
  /\ BeginAddChain(lastBlock)
  /\ UNCHANGED <<stored, lastBlock, hashPath, removed, pool, triggerMiner, life>>

(* add_chain on the new branch, one batch for each block *)
AddNext ==
  /\ pc = "AddChain"
  /\ next > 0
  /\ forkState.newPath[next] \in Applies
  /\ ApplyBlock(forkState.newPath[next])
  /\ LeavePool(forkState.newPath[next], Spends[forkState.newPath[next]])
  /\ next' = next - 1
  /\ UNCHANGED <<blocks, cumdiff, forkState, pc, hashPath, removed, triggerMiner, life>>

AddFails_NoRestore ==
  /\ pc = "AddChain"
  /\ next > 0
  /\ forkState.newPath[next] \notin Applies \cup Raises
  /\ forkState' = NoFork
  /\ pc' = "Idle"
  /\ loading' = FALSE
  /\ UNCHANGED <<blocks, cumdiff, chain, reorgLimit, locals, pool, triggerMiner, raised, crashes>>

(* _apply_state_changes returns False.                                      *)
AddFails ==
  /\ pc = "AddChain"
  /\ next > 0
  /\ forkState.newPath[next] \notin Applies \cup Raises
  /\ pc' = "Undo"
  /\ UNCHANGED <<stored, lastBlock, locals, pool, triggerMiner, life>>

(* delete_fork_state is a write of its own after the last batch.            *)
FinishRecovery ==
  /\ pc = "AddChain"
  /\ next = 0
  /\ forkState' = NoFork
  /\ pc' = "Idle"
  /\ triggerMiner' = TRUE
  /\ loading' = FALSE
  /\ UNCHANGED <<blocks, cumdiff, chain, reorgLimit, locals, pool, raised, crashes>>

(* The failed recovery rolls back to the fork point, without recording it,  *)
(* and adds the old blocks again.                                           *)
UndoTip ==
  /\ pc = "Undo"
  /\ ~AtForkPoint
  /\ lastBlock \in Reverts
  /\ RevertTip
  /\ UNCHANGED <<blocks, cumdiff, reorgLimit, forkState, pc, locals, triggerMiner, life>>

EndUndo_Retries ==
  /\ pc = "Undo"
  /\ AtForkPoint \/ lastBlock \notin Reverts \cup Raises
  /\ BeginAddChain(lastBlock)
  /\ UNCHANGED <<stored, lastBlock, hashPath, removed, pool, triggerMiner, life>>

EndUndo ==
  /\ pc = "Undo"
  /\ AtForkPoint \/ lastBlock \notin Reverts \cup Raises
  /\ IF Refused(removed, lastBlock)
       THEN pc' = "Idle" /\ next' = 0 /\ loading' = FALSE
       ELSE pc' = "Restore" /\ next' = Remaining(removed, lastBlock) /\ UNCHANGED loading
  /\ UNCHANGED <<stored, lastBlock, hashPath, removed, pool, triggerMiner, raised, crashes>>

RestoreNext ==
  /\ pc = "Restore"
  /\ next > 0
  /\ removed[next] \in Applies
  /\ ApplyBlock(removed[next])
  /\ LeavePool(removed[next], Spends[removed[next]])
  /\ next' = next - 1
  /\ UNCHANGED <<blocks, cumdiff, forkState, pc, hashPath, removed, triggerMiner, life>>

EndRestore_KeepsRecord ==
  /\ pc = "Restore"
  /\ next > 0 => removed[next] \notin Applies \cup Raises
  /\ pc' = "Idle"
  /\ loading' = FALSE
  /\ UNCHANGED <<stored, lastBlock, locals, pool, triggerMiner, raised, crashes>>

(* _fork_recovery ignores what this second add_chain returns.               *)
EndRestore ==
  /\ pc = "Restore"
  /\ next > 0 => removed[next] \notin Applies \cup Raises
  /\ forkState' = IF next = 0 THEN NoFork ELSE forkState
  /\ pc' = "Idle"
  /\ loading' = FALSE
  /\ UNCHANGED <<blocks, cumdiff, chain, reorgLimit, locals, pool, triggerMiner, raised, crashes>>

(* The block that is applied or reverted next raises.                       *)
Raising ==
  \/ /\ pc \in {"Rollback", "Undo"}
     /\ ~AtForkPoint
     /\ lastBlock \in Raises \ Reverts
  \/ /\ pc = "AddChain"
     /\ next > 0
     /\ forkState.newPath[next] \in Raises \ Applies
  \/ /\ pc = "Restore"
     /\ next > 0
     /\ removed[next] \in Raises \ Applies

(* Neither add_chain, nor _rollback, nor _fork_recovery catches it: nothing *)
(* is undone or restored, the record stays.  Out of add_block the node goes *)
(* on with the tip it has reached; out of load the process ends.            *)
RecoveryRaises ==
  /\ Raising
  /\ raised'   = TRUE
  /\ loading'  = FALSE
  /\ hashPath' = <<>>
  /\ removed'  = <<>>
  /\ next'     = 0
  /\ IF loading
       THEN pc' = "Down" /\ lastBlock' = NoBlock /\ pool' = {}
       ELSE pc' = "Idle" /\ UNCHANGED <<lastBlock, pool>>
  /\ UNCHANGED <<stored, triggerMiner, crashes>>

RecoveryStep ==
  \/ CollectHash
  \/ RecordForkPoint
  \/ RollbackTip
  \/ RollbackFails
  \/ EndRollback
  \/ AddNext
  \/ AddFails
  \/ FinishRecovery
  \/ UndoTip
  \/ EndUndo
  \/ RestoreNext
  \/ EndRestore
  \/ RecoveryRaises

-----------------------------------------------------------------------------
(* Crash, and load() from the store                                         *)

Crash ==
  /\ pc \notin {"Down", "Astray"}
  /\ crashes < MaxCrashes
  /\ crashes'   = crashes + 1
  /\ pc'        = "Down"
  /\ lastBlock' = NoBlock
  /\ hashPath'  = <<>>
  /\ removed'   = <<>>
  /\ next'      = 0
  /\ pool'      = {}
  /\ triggerMiner' = FALSE
  /\ loading'  = FALSE
  /\ UNCHANGED <<stored, raised>>

StoredTip == mainchain[height]

(* rollback_done: the recorded old path reaches down to the fork point.     *)
RollbackDone ==
  /\ forkState.oldPath # <<>>
  /\ Parent[forkState.oldPath[Len(forkState.oldPath)]] = forkState.point

(* add_chain can tell from the tip how far the recovery had come.           *)
OnRecord(tip) ==
  \/ tip = forkState.point
  \/ tip \in ToSet(forkState.newPath) \cup ToSet(forkState.oldPath)

Load ==
  /\ pc = "Down"
  /\ ~Recovering
  /\ pc' = "Idle"
  /\ lastBlock' = StoredTip
  /\ UNCHANGED <<stored, locals, pool, triggerMiner, life>>

(* The interruption came before the fork point was recorded.                *)
LoadAndSearch ==
  /\ pc = "Down"
  /\ Recovering
  /\ forkState.point = NoBlock
  /\ pc' = "FindFork"
  /\ lastBlock' = StoredTip
  /\ loading'   = TRUE
  /\ UNCHANGED <<stored, locals, pool, triggerMiner, raised, crashes>>

(* It came during the rollback, which continues; only the blocks removed    *)
(* from here on are in old_hash_path.                                       *)
LoadAndRollback ==
  /\ pc = "Down"
  /\ Recovering
  /\ forkState.point # NoBlock
  /\ ~RollbackDone
  /\ pc' = "Rollback"
  /\ lastBlock' = StoredTip
  /\ loading'   = TRUE
  /\ UNCHANGED <<stored, locals, pool, triggerMiner, raised, crashes>>

(* It came later: the blocks of the new branch, or of the old one, that are *)
(* already there decide how add_chain goes on.                              *)
LoadAndAddChain ==
  /\ pc = "Down"
  /\ Recovering
  /\ forkState.point # NoBlock
  /\ RollbackDone
  /\ OnRecord(StoredTip)
  /\ lastBlock' = StoredTip
  /\ removed'   = forkState.oldPath
  /\ loading'   = TRUE
  /\ BeginAddChain(StoredTip)
  /\ UNCHANGED <<stored, hashPath, pool, triggerMiner, raised, crashes>>

(* The record was left by an exception and the chain has grown since:       *)
(* add_chain finds the tip on neither path and applies the new branch from  *)
(* its first block, on a tip that is not its parent.  What becomes of that, *)
(* Applies does not say: the model ends here.                               *)
LoadAstray ==
  /\ pc = "Down"
  /\ Recovering
  /\ forkState.point # NoBlock
  /\ RollbackDone
  /\ ~OnRecord(StoredTip)
  /\ pc' = "Astray"
  /\ lastBlock' = StoredTip
  /\ UNCHANGED <<stored, locals, pool, triggerMiner, life>>

Restart == Load \/ LoadAndSearch \/ LoadAndRollback \/ LoadAndAddChain \/ LoadAstray

-----------------------------------------------------------------------------
AddBlock(b) ==
  \/ RefuseBlock(b)
  \/ ExtendTip(b)
  \/ StoreSideBlock(b)
  \/ StartRecovery(b)

Next ==
  \/ \E b \in Blocks \ {Genesis} : AddBlock(b)
  \/ \E t \in Txs : AddTransaction(t)
  \/ RecoveryStep
  \/ Crash
  \/ Restart

Spec == Init /\ [][Next]_vars

(* A recovery runs to its end inside one call unless the process dies, and  *)
(* a dead node is started again.                                            *)
FairSpec == Spec /\ WF_vars(RecoveryStep) /\ WF_vars(Restart)

-----------------------------------------------------------------------------
(* Properties                                                               *)

(* At every crash point the mapping is exactly the ancestry of the tip that *)
(* load() would find, and a running node agrees with the store on that tip. *)
MainchainLinked ==
  /\ \A n \in Heights :
       IF n > height
         THEN mainchain[n] = NoBlock
         ELSE /\ mainchain[n] \in blocks
              /\ Number[mainchain[n]] = n
              /\ n > 0 => Parent[mainchain[n]] = mainchain[n - 1]
  /\ pc # "Down" => lastBlock = StoredTip

(* The account state holds the changes of the main chain, all of them and   *)
(* no others, whenever the process may die.                                 *)
LedgerIsMainchain ==
  ledger = {mainchain[n] : n \in {k \in Heights : k <= height}}

(* While a recovery is recorded, its fork point stays on the main chain and *)
(* the recorded new path is a branch that starts there and ends at the      *)
(* initiator, every block of it in the store, whatever has been removed,    *)
(* added or left half done since.                                           *)
Linked(path) == \A i \in 1 .. Len(path) - 1 : Parent[path[i]] = path[i + 1]

BranchFrom(point, path) ==
  /\ Linked(path)
  /\ path # <<>> => Parent[path[Len(path)]] = point

ForkRecordSound ==
  Recovering /\ forkState.point # NoBlock =>
    /\ mainchain[Number[forkState.point]] = forkState.point
    /\ BranchFrom(forkState.point, forkState.newPath)
    /\ forkState.newPath # <<>> => forkState.newPath[1] = forkState.initiator
    /\ ToSet(forkState.newPath) \subseteq blocks

(* Where blocks that applied can be reverted, a recovery is pending outside *)
(* a call for one reason only: a block of its new branch raises, so that    *)
(* add_chain could not come to delete_fork_state.  Whichever way a recovery *)
(* returns, finished, fallen back or resumed after a crash, its record is   *)
(* gone.                                                                    *)
BranchRaises == \E b \in ToSet(forkState.newPath) : b \in Raises \ Applies

NoPendingRecovery == pc = "Idle" /\ Recovering => BranchRaises

(* A block and its ancestors *)
Ancestry[b \in Blocks] ==
  IF b = Genesis THEN {b} ELSE {b} \cup Ancestry[Parent[b]]

(* An idle node whose recoveries have all returned, with no crash and no    *)
(* exception, follows the heaviest branch it can: no stored block whose     *)
(* branch applies, and that needs no unrevertable block removed, is heavier *)
(* than the tip.                                                            *)
TipIsHeaviest ==
  pc = "Idle" /\ ~raised =>
    \A b \in blocks :
      /\ Ancestry[b] \subseteq Applies \cup {Genesis}
      /\ ledger \ Ancestry[b] \subseteq Reverts
      => cumdiff[b] <= cumdiff[lastBlock]

(* While recovery takes blocks off the main chain and puts others in their  *)
(* place, each transaction taken off is in the pool again, or the new       *)
(* branch has spent it.  (The pool is not persisted and has a limit: a      *)
(* crash or a full pool loses it.  A recovery that fails can lose what the  *)
(* new branch's keys had driven out, but the blocks themselves return.)     *)
RemovedTxsKept ==
  pc \notin {"Down", "Astray", "Undo", "Restore"} =>
    \A i \in DOMAIN forkState.oldPath :
      TxsOf[forkState.oldPath[i]] \subseteq pool \cup Spent(ledger)

(* "Restores the old chain state": when a recovery that had removed blocks  *)
(* deletes its record or comes back to its caller, the tip is its initiator *)
(* or the tip it started from.  The one other way out is an exception: then *)
(* the chain stays as it was and the record is kept.                        *)
RestoresOldChain ==
  [][/\ Recovering
     /\ forkState.oldPath # <<>>
     /\ \/ forkState' = NoFork
        \/ pc \notin {"Idle", "Down"} /\ pc' = "Idle"
     => \/ lastBlock' \in {forkState.initiator, forkState.oldPath[1]}
        \/ Raising /\ raised' /\ UNCHANGED <<chain, forkState>>]_vars

(* A recovery that has begun is over some time, in this life of the process *)
(* or in a later one: the node is idle, with no record but that of a branch *)
(* that raises; or the recovery raises, in each load anew if it must; or    *)
(* its record is resumed on a tip that has grown since.                     *)
RecoveryEnds ==
  Recovering ~> \/ pc = "Idle" /\ (Recovering => BranchRaises)
                \/ Raising
                \/ pc = "Astray"

(* The refinement: the head is the stored tip, and during a recovery that   *)
(* has removed blocks the tip it started from.  An exception that ends a    *)
(* recovery breaks the promise.                                             *)
PromisedHead ==
  IF raised \/ forkState.oldPath = <<>> THEN StoredTip ELSE forkState.oldPath[1]

Best == INSTANCE BestChain WITH weight <- cumdiff, head <- PromisedHead, broken <- raised

RefinesBestChain == Best!Spec

-----------------------------------------------------------------------------
(* The inductive invariant behind MainchainLinked, LedgerIsMainchain,       *)
(* ForkRecordSound and NoPendingRecovery.  It holds of a node whose         *)
(* RevertSound is true: what could be applied can be reverted.              *)

RevertSound == Applies \subseteq Reverts

NonGenesis == Blocks \ {Genesis}

(* The store is closed under parents, and only applicable blocks ever reach *)
(* the main chain.                                                          *)
StoreClosed ==
  /\ Genesis \in blocks
  /\ \A b \in blocks \ {Genesis} : Parent[b] \in blocks
  /\ \A n \in Heights : n > 0 /\ n <= height => mainchain[n] \in Applies

PathsTyped ==
  /\ hashPath \in Seq(NonGenesis)
  /\ removed  \in Seq(NonGenesis)
  /\ forkState.newPath \in Seq(NonGenesis)
  /\ forkState.oldPath \in Seq(NonGenesis)

(* The record is absent, or names a stored initiator; the paths are empty   *)
(* until the fork point is known.                                           *)
RecordShape ==
  /\ ~Recovering => forkState = NoFork
  /\ Recovering => forkState.initiator \in blocks
  /\ forkState.point = NoBlock => forkState.newPath = <<>> /\ forkState.oldPath = <<>>

(* The old path lies above the fork point.  Either the stored tip is the    *)
(* block under its lowest one, or the path is complete and the tip is one   *)
(* that AddChain, Undo or Restore can have left, or one that has grown on   *)
(* it after an exception.                                                   *)
OldPathSound ==
  LET old == forkState.oldPath
  IN  old # <<>> =>
        /\ Linked(old)
        /\ \A i \in 1 .. Len(old) :
             /\ old[i] \in blocks \cap Applies
             /\ Number[old[i]] > Number[forkState.point]
        /\ \/ Parent[old[Len(old)]] = StoredTip
           \/ /\ RollbackDone
              /\ StoredTip \in ToSet(forkState.newPath) \cup ToSet(old)
           \/ RollbackDone /\ BranchRaises

(* What an exception leaves behind: the whole old path is off the chain.    *)
LeftBehind ==
  pc = "Idle" /\ Recovering =>
    /\ forkState.point # NoBlock
    /\ forkState.oldPath # <<>> => RollbackDone

(* What the running procedure knows about its local variables: they are     *)
(* lost in a crash.                                                         *)
NoLocals == pc = "Down" => hashPath = <<>> /\ removed = <<>>

Walking ==
  pc = "FindFork" =>
    /\ Recovering
    /\ forkState.point = NoBlock
    /\ Linked(hashPath)
    /\ hashPath # <<>> => hashPath[1] = forkState.initiator
    /\ ToSet(hashPath) \subseteq blocks

Tracing ==
  pc \in {"Rollback", "AddChain", "Undo", "Restore"} =>
    /\ forkState.point # NoBlock
    /\ ToSet(removed) \subseteq ToSet(forkState.oldPath)
    /\ IF pc = "Rollback"
         THEN /\ BranchFrom(StoredTip, removed)
              /\ BranchFrom(StoredTip, forkState.oldPath)
         ELSE /\ BranchFrom(forkState.point, removed)
              /\ forkState.oldPath # <<>> => RollbackDone

(* add_chain is about to put path[next] on the tip. *)
Adding(path) ==
  /\ next <= Len(path)
  /\ StoredTip = IF next = Len(path) THEN forkState.point ELSE path[next + 1]

ChainInv ==
  /\ TypeOK
  /\ StoreClosed
  /\ MainchainLinked
  /\ LedgerIsMainchain
  /\ NoPendingRecovery
  /\ LeftBehind
  /\ ForkRecordSound
  /\ PathsTyped
  /\ RecordShape
  /\ OldPathSound
  /\ NoLocals
  /\ Walking
  /\ Tracing
  /\ pc = "AddChain" => Adding(forkState.newPath)
  /\ pc = "Restore" => Adding(removed)
=============================================================================
