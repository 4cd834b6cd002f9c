# A formal model of the BTQ node

TLA+ modules, TLC configurations and TLAPS proofs about pyBTQ-core, the Python
node of the BTQ chain. All paths below are under `src/src/btq/` unless they
start otherwise; `CM` stands for `core/ChainManager.py`.

It models the chain manager with its fork recovery, the account state that
blocks change, the transaction pool with the relay of transactions, the
synchronisation of blocks, the flow control of a connection, the mining node and
the wallet daemon. TLC checks every property on small instances; the theorems of
section 4 state most of the same properties for every instance, and section 5 says what
is left to prove.

## 1. The system

A node is one process. A Twisted reactor thread runs the peer-to-peer network
and the proof-of-work node; gRPC thread pools serve three APIs; native threads
hash. All of them share one chain manager, one transaction pool and one
LevelDB store.

| Component | State | Operations | Talks to |
|---|---|---|---|
| **Chain manager** `CM`, `core/State.py`, `Block.py`, `BlockMetadata.py` | store: blocks, metadata, number mapping, height, `fork_state`, `reorg_limit`; memory: `_last_block`, `trigger_miner`, `current_difficulty` | `load`, `add_block`, `_add_block`, `_add_chain`, `_fork_recovery`, `_get_fork_point`, `_rollback` | ledger (apply, revert), pool, miner flag; called by POW node, sync and APIs under an RLock |
| **Ledger** `core/txs/*`, `VoteStats.py`, `StateContainer.py`, `PaginatedData.py`, `PaginatedBitfield.py`, `Indexer.py`, `OptimizedAddressState.py`, `MultiSigAddressState.py` | per address: balance, nonce, used keys, seven lists; slaves, lattice keys, tokens, wallets, vote tallies | `validate_all`, `apply`, `revert` of ten kinds of transaction; `_apply_state_changes`, `revert_state_changes` | the chain manager's batch |
| **Transaction pool** `core/TransactionPool.py`, `TransactionInfo.py`, `processors/TxnProcessor.py` | heap of pending transactions and its hash set, pool heap | queue, pop, validate, add, remove with a block, return from a block, stale check | reactor, API threads, chain manager, relay |
| **P2P factory and sync** `core/p2p/p2pfactory.py`, `p2pChainManager.py` | connections, sync target, requested number, timer, processor flag | announce and request, `compare_and_sync`, `peer_fetch_block`, `block_received` | chain manager, peer manager, receipts, POW node |
| **Message receipts and relay** `core/messagereceipt.py`, `p2p/p2pTxManagement.py` | announced and requested messages, both bounded | register, announce, request full message, answer | factory, pool |
| **Wire protocol** `core/p2p/p2pprotocol.py`, `OutgoingMessage.py` | buffers, `bytes_sent`, outgoing queue, rate counters | receive, acknowledge, send next | observers |
| **Peer manager** `core/p2p/p2pPeerManager.py`, `misc/expiring_set.py` | peer statuses, ban list with expiry | version, ping, ban, monitor | factory |
| **POW node and miner** `core/node.py`, `Miner.py`, `miners/*` | sync state, `future_blocks`, mining template | `pre_block_logic`, `process_future_blocks`, template, submit | chain manager, pool, factory |
| **One-time keys** `PaginatedBitfield.py`, `CM:1277-1309` | pages of a bitfield | set, unset, test, find a free key | ledger, APIs |
| **Wallet daemon** `daemon/walletd.py`, `daemon/helper/DaemonHelper.py` | wallet file, passphrase, cached key trees | add, remove, lock, unlock, change the passphrase, sign and relay | public API |
| **APIs, CLI** `services/`, `core/btqnode.py`, `cli.py` | none of their own | submit, query | chain manager, pool, miner |

What is hard about it:

* *Crashes.* Fork recovery is a sequence of batches; `fork_state` is written
  so that `load` can go on with a recovery after a crash.
* *Partial failure.* The third block of a better branch may not apply; a
  block of the old one may not be revertible; either may raise where nothing catches it.
* *Reversal.* `revert` is written by hand for every kind of transaction and must
  undo `apply` exactly, list by list, also for votes that made a payment.
* *Order.* Blocks of several branches, votes, answers and timers come in any order.
* *Threads.* The pool is shared without a lock; the chain manager and the
  miner have one each, and both are passed by in places.
* *Timers.* Requests, fetches and future blocks are carried on by timers that
  outlive what they were set for.
* *Limits.* Queues, buffers and counters are bounded and drop what is too much.

What makes each component correct:

* chain manager: the number mapping is the ancestry of the tip and the account
  state is that of the main chain, at every point where the process can die;
  the tip is the heaviest branch it can be; a failed recovery leaves the old
  chain; an interrupted one is completed; no transaction is lost; and all that a block
  which raises takes away from this is named;
* ledger: coins and tokens are conserved, keys are used once, tallies and
  wallets agree with the votes in the chain, and a block can be taken back
  without trace;
* pool: the heap and the hash set agree, a queued transaction is processed, a
  transaction is pooled once;
* sync and relay: every sync and every request ends, an honest peer is not
  banned, a message that some peer can give is got;
* wire protocol: sending never stops while the peer acknowledges;
* POW node: no block waits for ever in the list of future blocks, the native miner
  works for the node, a solution becomes a block;
* wallet daemon: a one-time key signs one transaction, with the tree of the address
  that is named, and the wallet file has one passphrase.

`PROJECT.json` lists every component, with the reason for each that is not
modelled, and the hazards at their lines, with the properties that cover them.

## 2. Modules

    BestChain <------ ChainManager <--- MCChainManager               (TLC)
      abstract,         detailed   ^
      refined by                   +--- ChainManagerProofs           (TLAPS)

    OtsKeys <--- Ledger <--- MCLedger                                (TLC)
                   ^ +------ LedgerProofs <--- LedgerChainProofs     (TLAPS)

    TransactionPool <--+
                       +-- TxRelay <--- MCTxRelay                    (TLC)
    MessageReceipt <---+      ^
                              +-------- P2PProofs                    (TLAPS)
                              v
                          FlowControl <--- MCFlowControl             (TLC)

    BlockSync <--- MCBlockSync, BlockSyncProofs
    MiningNode <--- MCMiningNode, MiningNodeProofs
    WalletDaemon <--- MCWalletDaemon, WalletDaemonProofs

    DataLemmas <--- every module of proofs

| Module | What it is |
|---|---|
| `BestChain` | What the chain manager promises: it learns blocks, and its head moves in one step, only to a known block of greater cumulative difficulty, until an exception breaks the promise. |
| `ChainManager` | The store, fork recovery step by step, crash and reload. |
| `Ledger` | What the transactions of a block do to the account state, and how they are taken back. |
| `OtsKeys` | The bitfield of an address's one-time keys and the search for a free one, as operators. |
| `TransactionPool` | The queue of submitted transactions, its processors and the pool, on two threads. |
| `MessageReceipt` | Announced, requested and held messages, with their timers. |
| `TxRelay` | The two composed: what a node does with transactions. |
| `BlockSync` | The synchronisation with one peer among peers that leave, move or lie. |
| `FlowControl` | Two ends of a connection that count bytes and acknowledge them. |
| `MiningNode` | Blocks, future blocks, template and native miner, on three threads. |
| `WalletDaemon` | Addresses, passphrases, wallet file, key trees and signatures. |
| `MC...` | Values for TLC. |
| `ChainManagerProofs` | The invariant of fork recovery with crashes, for every tree; and without crashes the refinement of `BestChain`, the choice of branch and the outcome of a recovery. |
| `LedgerProofs` | For every kind of transaction that reverting undoes applying, and from that that removing a block restores the state. |
| `LedgerChainProofs` | What the account state says of the chain: keys, lists, votes, coins, wallets and tokens. |
| `P2PProofs` | What connected nodes exchange: `TxRelay` and, in the second half, `FlowControl`. The two share no state, which is why the latter names its specification `FlowSpec`. |
| `BlockSyncProofs`, `MiningNodeProofs`, `WalletDaemonProofs` | The inductive invariant of each model and the safety properties that follow. |
| `DataLemmas` | Induction, functions defined by recursion, sequences and sums, stated so that the others can cite them. |

`ChainManager` and `Ledger` meet in two constants and a set. The chain manager knows of a block only
whether it `Applies` and `Reverts`, and where it does not whether it `Raises`, which depends on its
ancestors alone, and records in `ledger` the set of blocks whose changes are in the account state.
`Ledger` shows what `RevertSound` (what could be applied can be reverted) rests on, and the one
pattern for which it is false. The other models take the chain manager as `add_block` shows it to
them: a block is accepted or not, and the last block is the heaviest.

Definitions named `<definition>_<fault>` are faulty variants of the definition
they follow the name of. No specification uses them. Each stands for a
plausible mistake in the code; replacing the definition by its variant makes TLC
refute the property that `PROJECT.json` ("mutants") pairs it with, so that no
property is checked that the code could not break.

### 2.1 ChainManager

| Variable | Code |
|---|---|
| `blocks`, `cumdiff` | stored blocks; `cumulative_difficulty` of their metadata |
| `mainchain`, `height` | block number mapping, `b'blockheight'` |
| `ledger` | blocks whose changes are in the account state |
| `reorgLimit`, `forkState` | `b'reorg_limit'`, `b'fork_state'` |
| `pc` | where `_fork_recovery` is: finding the fork point, rolling back, adding the branch, undoing it, restoring; or `Astray`, see below |
| `lastBlock`, `pool`, `triggerMiner` | `_last_block`, `tx_pool`, `trigger_miner` |
| `hashPath`, `removed`, `next` | local variables of the running call, lost in a crash |
| `loading` | the recovery that runs was started by `load`, and not by `add_block` |
| `raised` | history: an exception has ended a recovery |
| `crashes` | bound |

One write batch, or one `put`/`delete` outside a batch, is one step. `Crash` may
happen between any two of them, at most `MaxCrashes` times; `Restart` is `load`,
which reads `fork_state` and resumes at the place the record shows. Every entry
point holds the manager's RLock, so nothing interleaves with a recovery but a crash.

| Action | Code |
|---|---|
| `RefuseBlock`, `ExtendTip`, `StoreSideBlock`, `StartRecovery` | the four outcomes of `add_block` and `_add_block` |
| `CollectHash`, `RecordForkPoint` | `_get_fork_point` |
| `RollbackTip`, `RollbackFails`, `EndRollback` | `_rollback` |
| `AddNext`, `AddFails`, `FinishRecovery` | `_add_chain`, end of `_fork_recovery` |
| `UndoTip`, `EndUndo`, `RestoreNext`, `EndRestore` | the second rollback and the restoration of the old chain |
| `RecoveryRaises` | an exception of `_apply_state_changes` or of a revert leaves `_fork_recovery` |
| `Crash`, `Load`, `LoadAndSearch`, `LoadAndRollback`, `LoadAndAddChain`, `LoadAstray` | process death and `load` |
| `AddTransaction` | a transaction enters the pool |

*Failures.* `_apply_state_changes` and `revert_state_changes` fail in two ways. They return
False, and `_fork_recovery` undoes the new branch and restores the old one (`AddFails`,
`RollbackFails`). Or they raise: `IndexError` at `core/PaginatedBitfield.py:32` for a one-time
key past the first page, `AttributeError` at `CM:1174` for a payee wallet that the chain has not
seen, "Unexpected value into storage" at `core/PaginatedData.py:49` in a revert. `add_chain`
(`CM:764`), `_rollback`, `_fork_recovery` and `load` (`CM:526`) catch nothing. The store
stays as the last batch made it: the tip on the fork point, or on part of the new branch or of the
old one, the record present, nothing undone or restored. A node that was in `add_block` goes on from there
and may grow; the next recovery overwrites the record, and otherwise the next `load` resumes it. One
that was in `load` dies, as `core/main.py` catches nothing either, and raises again each time
it is started. If the node has grown after the exception, the tip is on neither path of the
record: `add_chain` then starts with the first block of the new branch, on a tip that is not its
parent, which nothing in `_apply_state_changes` checks. Whether that
applies is not a matter of the block's own ancestors, so the model ends there (`LoadAstray`).
Blocks in `Raises` stand for all of these.

Abstractions: difficulty and validity of a block are constants (they depend on
its ancestors, not on the node); `check_stale_txn` is left out (it drops and
rebroadcasts pool entries only); transaction metadata follow the account state;
`load` finds a store with a genesis block. Not modelled: the first load,
migrations, the switch of the development configuration and the banned
address, an exception of `check_stale_txn` after a block is applied (section 6).

### 2.2 Ledger

| Variable | Code |
|---|---|
| `db` | account state in the store |
| `sc` | the `StateContainer` of the running block |
| `chain`, `block`, `todo` | blocks of the main chain, and the running block's transactions done and to do |
| `offered` | the blocks that peers and miners build in a behaviour: the scenario |
| `saved`, `reverts` | history, used by the properties and as a bound |

A state is a record: `balance`, `nonce`, `keys` (the one-time keys, see `OtsKeys`), `log` (the seven
`PaginatedData` lists of an address), `slaves`, `lattice`, `tokens`, `wallets`,
`votes`, and `raised`, set when `PaginatedData.remove` meets an element it does not
expect. Every kind of transaction has operators `Valid...`, `Apply...` and
`Revert...` from state to state, written from `_validate_extended`, `apply` and
`revert` of its class. A step is one transaction:

| Action | Code |
|---|---|
| `BeginBlock`, `ApplyTx`, `RejectBlock`, `CommitBlock` | `_apply_state_changes` |
| `BeginRevert`, `RevertTx`, `RevertFails`, `CommitRevert` | `revert_state_changes` |

`RejectBlock` and `RevertFails` drop the container: no batch is written. A
revert pops the lists in the code's order, which matters for votes: the payment
is undone before the vote's own entries.

`OtsKeys` has the operators on the keys of an address: `SetKey`, `UnsetKey`,
`KeyFree` and `KeyTaken` (the two uses of `ots_key_reuse`) and `FindUnused`
(`get_unused_ots_index`). The bits of all pages are one set of numbers; page and byte
are computed from them as the code does, so that its two mistakes show: `ots_key_reuse`
finds only the keys of the first page, and `FindUnused` reads a byte beyond its page.

Abstractions: a list fits on one page and its counter is its length; a transaction names a payee
once, with the whole amount; a block carries the nonces and the previous votes that an honest miner
sets (`Miner.create_block`); the wallets among the payees of a spend exist (a payee that is an
address of a wallet never created raises at `CM:1174` when the block's states are loaded: no batch
is written, so that the account state is untouched; what it does to a recovery is in
`ChainManager`). The state of a wallet is that of its creation transaction. A reverted creation
leaves the wallet's page of transactions behind, as in the code, so the properties compare states as
seen through existing wallets. Not modelled: signatures, formats, limits on sizes, banned addresses,
transaction and token metadata.

### 2.3 TransactionPool, MessageReceipt and TxRelay

| Variable | Code |
|---|---|
| `pending`, `pendingHash` | the heap `pending_tx_pool` and the set `pending_tx_pool_hash` |
| `pool` | `transaction_pool`, in order of arrival |
| `running`, `processors`, `tick` | `_txn_processor_running`, the `TxnProcessor`s not exhausted, the step of one of them that the reactor is in |
| `api` | where the service's thread is in `add_unprocessed_txn` |
| `mined`, `height` | the main chain |
| `hash_msg`, `requested`, `timers` | `_hash_msg`, `requested_hash`, the `callLater`s of `request_full_message` |
| `asks` | requests that an honest peer has yet to answer |
| `failed`, `deserted`, `raced` | history: a processor met an empty heap or a missing hash; since a submission last started a processor, the only one ended by an exception or in the first window of the flag; the flag changed hands in the second window |
| `evicted` | history: a request was dropped for room |

| Action | Code |
|---|---|
| `HandleMessageReceived`, `Timer` | `handle_message_received`, `request_full_message` when a peer announces and after ten seconds |
| `HandleTx` | `handle_tx` and the handlers of the other kinds, with `add_unprocessed_txn` |
| `PushTransaction`, `ApiSubmit` | the same on the service's thread, one step per access: tests, heap, hash, flag read, flag set |
| `ProcessorStep` | one `__next__` of a processor, its end by `StopIteration` or by an exception, `reset_processor_flag` and `reset_processor_flag_with_err` |
| `NewBlock` | `remove_tx_in_block_from_pool` and `check_stale_txn` |

The reactor runs one handler at a time, and no handler while it is in a processor's
step; the service's thread and the thread that adds a block run between any two steps.
A processor ends with an exception in two ways: the heap is empty or the popped hash is missing
(`ProcPop`), or `validate_all` raises (`ProcRaises`), which it may for the transactions in
`Raising`, on some states and not on others. Either way the errback clears the flag and the rest
of the queue waits for the next submission.

Abstractions: the chain accepts a transaction unless its one-time key is used; priorities are fees;
only transfers (`Transfer`, type TX) are dropped on announcement while the queue is full, all kinds
when they are queued; a peer that has left stays listed, as in the code, and is one that never
answers. Blocks and transactions share the table of requests; the model has transactions. Not
modelled: the return of transactions from removed blocks (in `ChainManager`), `block_params`, and
the rule for keys above `max_ots_tracking_index`.

### 2.4 BlockSync

`store`, `tip`, `limit` are the chain manager; `target`, `list`, `wanted`, `syncing`,
`timers` the fields `_target_channel`, `_target_node_header_hash`,
`_last_requested_block_number`, `_syncing_enabled` and the fetch timer; `connected`,
`banned`, `view` the peers; `asked` what honest peers have not answered; `from` is history.

| Action | Code |
|---|---|
| `HonestHeaderHashes`, `OtherHeaderHashes` | `compare_and_sync` with a list from an honest peer, or any list |
| `HonestPushBlock`, `OtherPushBlock` | `handle_push_block`, `block_received`, `peer_fetch_block` |
| `TimerFires` | `peer_fetch_block` after 100 seconds: the target is banned |
| `BlockArrives` | a block by broadcast or from the miner |
| `Disconnect`, `PeerReorganises` | a peer leaves, a peer's chain changes |

A list starts at the number that was asked for, `reorg_limit` below the height at that time, and
ends `2 * reorg_limit` above it. The weight of a chain is its length. A peer that comes back is
another peer. Not modelled: whom the node dials and the limits on the number of connections.

### 2.5 FlowControl

`out[e]` is one end: `queue` (`outgoing_queue`), `sent` (`bytes_sent`) and `wire`, what it has
written and the other end has not parsed. `NodeSends` is `send`, `DataReceived` a read of any number
of bytes with `_parse_buffer`, the handling of every message in it and the acknowledgement. The
queue is a heap whose keys are priority, whole second and an object that compares by priority again
(`core/OutgoingMessage.py`), so that messages of one priority may leave in any order: `Put` gives
all queues in which the new message stands at a `Place` its priority allows, and so does `PutBack`
for the message that did not fit the batch. This takes in more than the code does where the messages
are of different seconds. Acknowledgements have priority 0, as VE, PL, PONG, FB, PB, SYNC and
CHAINSTATE have, and go through the same queue and limit; a full queue (`OutgoingSize`) drops a
message. Each acknowledgement of a read is taken off `sent` by itself, and one that takes it below
zero closes the connection (`Overdrawn`). Not modelled: the rate limits of a minute, which delay a
message; messages that do not parse. `OutgoingMessage.is_expired` compares with the wrong sign and
is false at any age, so no message expires.

### 2.6 MiningNode

| Variable | Code |
|---|---|
| `store`, `tip`, `now` | the chain manager and the clock |
| `future`, `timers`, `loop` | `future_blocks`, the `callLater`s of `process_future_blocks`, where the reactor is in it |
| `template`, `native`, `toggler` | `Miner._mining_block`, the native miner with the blob it hashes, `miner_toggler` |
| `holder`, `restart` | who is in `pre_block_logic` between template and start; an unlocked `_mine_next` |
| `api` | where the service's thread is in `submit_mined_block` |
| `enabled`, `synced`, `suspended` | `mining_enabled`, `initialize_pow` done, `suspend_mining_timestamp` |
| `abandoned`, `replaced` | history |

| Action | Code |
|---|---|
| `PeerBlock`, `SyncBlock` | `pre_block_logic` for a block by broadcast; a block of the synchronisation |
| `FutureTimer`, `LoopBlock`, `LoopDelete` | `process_future_blocks`, one block of its copy of the keys at a time |
| `InitializePow`, `MonitorMiner`, `RestartRead`, `RestartStart`, `HeldStart` | `_mine_next` without the lock, and the start of the native miner |
| `NativeSolution`, `NativeSkip` | `handleEvent` on the native thread |
| `GetBlockToMine`, `Submit` | the mining service, one step per reading of `_mining_block` |
| `Tick`, `ResumeMining` | time |

A solution is good for the content it was found for; a `set_nonces` on another content makes a bad
one. No nonce is zero (section 6). `AlwaysRunning` is TRUE because `Miner.isRunning`
(`core/Miner.py:52`) returns the method of the native class and not its result. `MiningAssumption`
asks `Lead <= 2 * Drift + 2`: a block enters the list at most `Lead` seconds and at least `Drift` +
1 seconds before its time and has its timer one second after it, so under this bound a block is no
longer early when the timer of one behind it fires. The code has 30 and 15. Not modelled: the node
states before `synced` (they end in the same two calls), the broadcast of a block, a template that
cannot be built, difficulty.

A block whose parent is only in `future_blocks` passes the first test of
`Block.validate` (`core/Block.py:186`) and then raises, as the parent has no metadata: the
model refuses it.

### 2.7 WalletDaemon

`items` and `file` are the wallet in memory and on disk: per address its next key and the
passphrase it is encrypted with; `trees` is the cache of `get_xmss_by_index`, by position
and passphrase; `sending` a transaction signed and saved but not pushed; `pushed` and
`used` the keys that have signed. `unchecked`, `stray`, `stale`, `known`, `reseeded` are history.

| Action | Code |
|---|---|
| `AddNewAddress`, `AddNewAddressWithSlaves`, `AddAddressFromSeed`, `RemoveAddress` | the methods of the same names |
| `EncryptWallet`, `LockWallet`, `UnlockWallet`, `ChangePassphrase` | likewise; a request that raises leaves what it had changed |
| `GetRecoverySeeds`, `Relay`, `RelayRefused`, `Push` | `get_recovery_seeds`, `relay_*_txn` up to the save, the refusals, and the push |
| `Confirm`, `Restart` | a block with the transaction; the daemon is started again |

Assumptions: what is encrypted under one passphrase never opens under another; the native
tree refuses to go back to an earlier key; the file is written in one step (the code
truncates it and writes in place, so a crash in between loses the keys; nothing in it
promises otherwise). Not modelled: groups of slaves, the last key of a tree, files of version 0.

## 3. What TLC checks

### 3.1 Runs

| Run | Bounds | States | Properties |
|---|---|---|---|
| `chain_no_crash` | 15 blocks, 2 that raise, pool of 3, no crash | 34 612 | `TypeOK`, `MainchainLinked`, `TipIsHeaviest`, `RemovedTxsKept`, `RestoresOldChain`, `RefinesBestChain` |
| `chain_crash` | 13 blocks, 1 that raises, pool of 1, 3 crashes | 27 273 | `LedgerIsMainchain`, `ForkRecordSound`, `NoPendingRecovery`, `RecoveryEnds` |
| `chain_restore_interrupted` | 1 crash | | `RestoresOldChain` is violated |
| `ledger` | 13 and 10 transactions, height 6, 3 blocks removed, pages of 8 keys | 29 210 | `TypeOK`, `SupplyKept`, `VotesTallied`, `WalletsBacked`, `RevertFailsOnlyForPaidSlave`, `KeysMatchChain`, `SearchFindsFree`, `TokensKept`, `HistoryMatchesChain`, `RevertRestores` |
| `ledger_paid_slave` | as `ledger` | | `NothingUnexpectedStored` is violated |
| `ledger_key_search` | as `ledger` | | `FindsUnusedKey` is violated |
| `tx_relay` | 2 transactions, 2 peers, queues of 2, pool of 1 | 3 696 900 | `TypeOK`, `RequestsAreWatched`, `HashedIsQueued`, `NothingStranded`, `AnswerIsAwaited` |
| `block_sync` | 7 blocks, 3 peers | 56 976 | `TypeOK`, `SyncIsWatched`, `HonestBannedByAccident`, `FinishedSyncIsComplete`, `SyncEnds` |
| `flow_control` | 6 messages of 2 priorities, limit of 6 bytes | 55 182 | `BytesAccounted`, `LostOnlyForHugeMessage`, `QueueDrains` |
| `mining` | 2 blocks of peers, no mining after the first block mined, clock 0 to 4 | 1 292 203 | `TypeOK`, `FutureIsWatched`, `NativeWorksForNode`, `SolutionsCount`, `MinerRestarts` |
| `wallet_daemon` | 2 addresses, 2 passphrases, 2 keys each | 3 161 232 | `KeysSignOnce`, `KeyedAlike` |
| `wallet_signer` | as `wallet_daemon` | | `SignerIsNamed` is violated |

*The tree.* Branches `a` (4 blocks) and `b` (5) fork at genesis, `c` and `d` at `a1`. `a4` and `c3`
have difficulty 2, so that `c` is heavier than `a` without being longer. `x2` is over the size
limit; `b4` and `b5` do not apply and return False. In `chain_no_crash` `a4` raises when it is
applied, `c2` cannot be reverted and `d2` raises when it is reverted. In `chain_crash`, which leaves
out `d`, `c2` raises when it is applied: in `add_block`, with the node growing on the tip it is left
on, and in every `load` after a crash. Blocks may be offered in every order, more than once, and too
early. The tree gives recoveries of depth one to four from both sides, recoveries that fail at the
first, a middle or the last block, ties, and recoveries over recoveries. Deeper trees repeat the
same steps: a path is handled one block at a time. The pool of 1 makes returned transactions meet a
full pool. Three crashes are a crash, one in the recovery from it, and one more.

*The ledger.* A behaviour offers the blocks of one of two scenarios. *The wallet
scenario.* Two signatories of different weight, two spends from one
wallet that holds coins for one of them, votes withdrawn and cast again, a slave
that signs a vote and is a payee. A spend may reach its threshold without coins and be
executed by a later vote; votes and spends meet their expiry. One signatory has two pages
of keys and can use up the first; the others have part of a page. *The token
scenario.* A token reaches addresses with and without a record, the sender itself, and
a slave that signs; two transactions share a one-time key; blocks hold
transactions that are valid only together. Three removals are enough to take
back a block, put another in its place and take that back with the one below.

*The relay.* The two transactions spend one key, so that one makes the other invalid in the
pool and in the chain. One peer answers, one may not; an announcement is made up to twice
for each request and two timers of one hash may run, which is what an eviction and another
announcement need. The validation of one of the two may raise, and the other is a plain
transfer. Queues of 2 are full with both transactions, and the receipts evict at
2. One submission by the service's thread meets every step of a processor. One block
makes a transaction stale at once (`StaleThreshold` 0).

*Synchronisation.* Branches of two and three blocks from genesis, with a block above the
shorter that is not valid. The node begins one block up. The honest peers stand on different
branches and may move; the third sends any block and one of three lists: a good one, one with
the invalid block, one whose blocks do not follow each other. The limit of reorganisations of 1
passes a block while it is fetched.

*Flow control.* Messages of 4 bytes, of the priority of acknowledgements, and of 5, of the next,
against a limit of 6 for what is out and for the buffer, reads of up to 3 bytes: messages arrive in
pieces and together, a batch is cut short, both ends reach the limit, queues of 3 overflow, a buffer
overflows, and a block goes before an acknowledgement.

*Mining.* The second block of the peers is five seconds ahead, with `Lead` 4 and `Drift` 1 the
bound of the assumption is met with equality, and the list has room for two blocks: blocks
mined here come before and behind it and push it out. A spend expires at its height.

*Wallet.* Two addresses are needed for positions to shift, two passphrases for a wallet to be
keyed twice, two keys for one to be used again, two trees for a stale one beside a fresh one.
States in which both exceptions of the properties have come about are not explored further
(`SomethingLeft`): neither is ever taken back, and each makes its property true. Addresses and
passphrases are symmetric.

*Deadlock* is not checked: at a bound of time, height, messages or submissions nothing remains
to be done, and an idle node may wait forever.

*Fairness.* Safety is checked without any.

* `RecoveryEnds`: weak fairness of the steps of a recovery and of `Restart`. A recovery is one
  call that runs to its end under the lock, and a node that died is started again. Nothing is
  assumed about blocks arriving or crashes, nor that a step of a recovery succeeds: it may raise.
* `SyncEnds`: timers fire, and an honest peer answers while it is connected. Nothing is assumed
  of other peers, of connections or of blocks.
* `QueueDrains`: what has been written arrives, as TCP promises while the connection stands.
* `MinerRestarts`: the reactor goes on with what it has begun and calls its periodic timer, a
  thread that holds the lock releases it, a suspension (which is a time) ends. Nothing
  is assumed of blocks, of the pool or of solutions.

### 3.2 What the properties say

Chain manager:

* `MainchainLinked`, `LedgerIsMainchain`: the number mapping is the tip's
  ancestry and the account state is the main chain's, at every step of a
  recovery and in the store at every crash point.
* `TipIsHeaviest`, `RefinesBestChain`: branch choice, through all intermediate tips, in a node
  none of whose recoveries has raised. In the refinement the head is the tip that a running
  recovery started from, until it succeeds; an exception is the step that breaks the promise, and from
  then on the head is only known to be some stored block.
* `RestoresOldChain`: a recovery that had removed blocks and returns ends on its initiator or where
  it began; one that raises changes nothing more.
* `RemovedTxsKept`: while the old branch is taken off and the new one is added, a transaction of a
  removed block is in the pool, in the chain again, or made void by the chain. Nothing is claimed
  of a failed recovery on its way back, nor after a crash, when the pool is empty anyway.
* `ForkRecordSound`, `NoPendingRecovery`, `RecoveryEnds`: the record that a restart
  reads is right; between calls it is gone, unless a block of its new branch raises; and
  every recovery ends, or comes to a block that raises, in each `load` anew, or to a tip that has grown
  since an exception.

Ledger:

* `RevertRestores`: a removed block leaves the state it was applied on, in any
  sequence of blocks added, rejected and removed.
* `SupplyKept`, `TokensKept`, `WalletsBacked`: coins, tokens and the coins of wallets
  are conserved; a spend is paid once.
* `VotesTallied`: the stored tally is what the votes in the chain add up to.
* `KeysMatchChain`, `HistoryMatchesChain`: keys, their counts and pages, nonces and lists match
  the chain.
* `SearchFindsFree`: the search for a key gives the least free one asked for, wherever the
  pages stand, or raises: the latter just when none is left on the first of several pages.
* `RevertFailsOnlyForPaidSlave`: a block of the chain can be removed, but for one pattern.

Relay and pool:

* `RequestsAreWatched`: an open request has asked a peer and has a timer, through evictions,
  late timers and repeated announcements.
* `AnswerIsAwaited`: the answer an honest peer is about to give is taken, unless the request
  was evicted.
* `HashedIsQueued`, `NothingStranded`: the heap holds what the hash set names, until a processor meets
  an empty heap or a missing hash. A queued transaction has a processor, or a submission about
  to start one, unless the only processor since the last start ended by an exception, of its own or
  of `validate_all`, or in the first window of the flag: the queue then waits for the next submission,
  and a full queue for ever, as it takes none. The flag stays up without a processor, so that no
  submission starts one again, only after the second window.

Synchronisation:

* `SyncIsWatched`, `SyncEnds`: a synchronisation has one timer and ends.
* `FinishedSyncIsComplete`: if it ends without a ban, every block of the list is in the store.
* `HonestBannedByAccident`: an honest peer is banned in four cases only: its connection broke,
  its block came by another way first, it moved to another chain, the limit passed the block.

Flow control:

* `BytesAccounted`: what counts as sent is on the wire, in an acknowledgement, or leaked. Leaked
  bytes never come back.
* `QueueDrains`: a queue is emptied, but for three cases in which nothing is on the way: all that
  the sender counts has leaked; the other end holds the sender's acknowledgement, and all that it
  counts has leaked; or each end holds the acknowledgement that the other waits for. In the last one
  end may be below the limit: its block goes first, and its acknowledgement does not fit the batch.
* `LostOnlyForHugeMessage`: two ends with this code part only over a message that nearly
  fills the buffer.

Mining:

* `FutureIsWatched`: a block in the future list has a timer to come or a loop that takes it,
  unless a `KeyError` has ended a loop before it.
* `NativeWorksForNode`: the native miner works for the node's address, but for one window.
* `SolutionsCount`: a block found or submitted in time becomes the last block as it was hashed,
  unless a spend expires in it or a submission has mixed nonces into the template.
* `MinerRestarts`: after a solution, counted or skipped, there is work again.

Wallet daemon:

* `KeysSignOnce`: a key signs twice only through a stale tree or an address added from its seed.
* `KeyedAlike`: a file with two passphrases comes only from an address added under a passphrase
  that had just failed.

### 3.3 Findings

1. *An interrupted rollback is not restored* (`chain_restore_interrupted`). A node dies
   while rolling back, resumes after the restart, and the new branch fails. The code
   restores `old_hash_path`, which holds only the blocks removed since the restart; those
   removed before are in `fork_state.old_mainchain_hash_path` and are not used. The node
   stays on a prefix of its old chain, where `CM:804-806` says "Thus old chain state,
   must be retrieved" and "Restores the old chain state".
2. *A vote signed by a slave that the spend pays cannot be reverted*
   (`ledger_paid_slave`). `apply` enters the payment in the slave's list and then the
   vote; `revert` takes out the payment first, meets the vote and raises "Unexpected
   value into storage" (`core/PaginatedData.py:49`). A fork recovery across that block
   stops there, and so does every restart.

3. *The search for a one-time key does not leave the first page* (`ledger_key_search`). Once the
   first page of an address of a height above 13 is full, `get_unused_ots_index` raises, where
   `CM:1279` says that it "Finds the unused ots index above the given start_ots_index". Its range
   is in bytes and its page and index are divided as if it were in keys. A transaction signed
   with a key of a later page cannot be validated either (`core/PaginatedBitfield.py:30`).
4. *The wallet daemon signs with the tree of a removed address* (`wallet_signer`).
   `get_xmss_by_index` is cached by position (`daemon/helper/DaemonHelper.py:84`), and a
   removal shifts the positions; `DaemonHelper.py:87` says that it "Generates an XMSS tree based
   on the information contained in the wallet".

Less than findings, because nothing in the repository says otherwise; each is in the models,
and the property named allows for it and for nothing more:

* a block that raises when it is applied or reverted leaves the node on a prefix of a branch, with a
  record that every `load` resumes (`NoPendingRecovery`, `RestoresOldChain`, `RecoveryEnds`);
* the flag of the processor has two windows; a transaction popped before its hash is
  entered ends the processor, and so does a `validate_all` that raises
  (`core/processors/TxnProcessor.py:32`) (`NothingStranded`, `HashedIsQueued`);
* a block that arrives twice, or a peer that changes chain during a fetch, has an honest peer
  banned (`HonestBannedByAccident`);
* a read that ends with an acknowledgement leaks the bytes of the messages before it, and
  acknowledgements wait for the room they would make, behind blocks too, which have their
  priority (`core/p2p/p2pfactory.py:32-64`) (`BytesAccounted`, `QueueDrains`);
* `process_future_blocks` ends with a `KeyError` when another thread's block has pushed one out
  (`FutureIsWatched`); `_mine_next` outside the lock can start the native miner on the pool's
  template (`NativeWorksForNode`);
* `set_nonces` merges, so a nonce of zero does not overwrite another (`core/Block.py:98`), and the
  template is validated one block early (`core/Miner.py:143`) (`SolutionsCount`);
* `isRunning` is always true (`core/Miner.py:52`), so that only the toggler restarts the miner
  (`MinerRestarts`);
* `unlock_wallet` and `change_passphrase` keep a passphrase that turned out wrong
  (`daemon/walletd.py:880`) (`KeyedAlike`); a tree of an earlier passphrase comes back with its old
  index (`KeysSignOnce`);
* a wallet created again finds its old page of transactions (`RevertRestores`).

## 4. What is proved

The proofs hold for all values of the constants: any tree of blocks, any set of transactions
of any kinds, peers, sizes of queues and pages, weights, times. What each run shows on an
instance, the theorem shows for every one. All theorems are checked down to their leaves by
tlapm with Z3, Zenon and LS4; nothing is assumed but the named assumptions of the models and
the hypotheses listed here.

| Theorem | What it states | Module |
|---|---|---|
| `ChainInvariant`, `TypeCorrect`, `MainchainStaysLinked`, `LedgerStaysMainchain`, `ForkRecordStaysSound`, `NoRecoveryLeftPending` | `ChainInv`, `TypeOK`, `MainchainLinked`, `LedgerIsMainchain`, `ForkRecordSound`, `NoPendingRecovery` | `ChainManagerProofs` |
| `CalmInvariant`, `ImplementsBestChain`, `TipStaysHeaviest`, `OldChainIsRestored`, `RemovedTxsStayKept` | `CalmInv`, `RefinesBestChain`, `TipIsHeaviest`, `RestoresOldChain`, `RemovedTxsKept` | `ChainManagerProofs` |
| `LedgerInvariant`, `RevertsRestore` | `LedgerInv`, `RevertRestores` | `LedgerProofs` |
| `ChainStaysLinked`, `KeysStayMatched`, `HistoryStaysTrue`, `VotesStayTallied`, `SupplyStaysKept`, `WalletsStayBacked`, `TokensStayKept`, `LedgerTypeCorrect`, `RevertsFailOnlyForPaidSlaves`, `SearchStaysFree` | `ChainLinked`, `KeysMatchChain`, `HistoryMatchesChain`, `VotesTallied`, `SupplyKept`, `WalletsBacked`, `TokensKept`, `TypeOK`, `RevertFailsOnlyForPaidSlave`, `SearchFindsFree` | `LedgerChainProofs` |
| `RelayInvariant`, `RelayTypeCorrect`, `RequestsStayWatched`, `AnswersStayAwaited`, `HashedStaysQueued`, `NothingStaysStranded` | `RelayInv`, `TypeOK`, `RequestsAreWatched`, `AnswerIsAwaited`, `HashedIsQueued`, `NothingStranded` | `P2PProofs` |
| `FlowInvariant`, `EveryByteAccounted`, `LostOnlyForTheHuge` | `FlowInv`, `BytesAccounted`, `LostOnlyForHugeMessage` | `P2PProofs` |
| `SyncInvariant`, `SyncTypeCorrect`, `SyncStaysWatched`, `HonestBansAreAccidents`, `FinishedSyncsAreComplete` | `SyncInv`, `TypeOK`, `SyncIsWatched`, `HonestBannedByAccident`, `FinishedSyncIsComplete` | `BlockSyncProofs` |
| `MiningInvariant`, `MiningTypeCorrect`, `FutureStaysWatched`, `NativeKeepsWorkingForNode`, `SolutionInvariant`, `SolutionsAlwaysCount` | `MiningInv`, `TypeOK`, `FutureIsWatched`, `NativeWorksForNode`, `SolutionInv`, `SolutionsCount` | `MiningNodeProofs` |
| `WalletInvariant`, `KeysSignOnlyOnce`, `FileStaysKeyedAlike` | `WalletInv`, `KeysSignOnce`, `KeyedAlike` | `WalletDaemonProofs` |

### 4.1 The chain manager

*Hypotheses.* The named assumptions of `ChainManager` on its constants (numbers follow the tree,
difficulties are positive), and `RevertSound`: a block that could be applied can be reverted.
Without it the code can leave new blocks on top of which the old ones are put back, or a revert that
raises leaves a record whose new branch is sound; finding 2 is a case where it is false. Nothing is
assumed of what does not apply: it may return False or raise. The theorems from `CalmInvariant` on
are about a node that does not crash (`MaxCrashes = 0`): finding 1 shows that `RestoresOldChain`,
and with it the refinement, fails otherwise. `RemovedTxsStayKept` asks that the pool has room for
all transactions (`PoolSuffices`); a full pool drops what it is given back.

*Argument.* None of these properties is inductive. `ChainInv` adds what they rest on: the
store is closed under parents (`StoreClosed`); a record is absent or names a stored block
(`RecordShape`); the old path of a record is linked, lies above the fork point, and either
ends on the stored tip or is complete (`OldPathSound`); a record that an idle node has was left
by an exception, with the old path complete (`LeftBehind`); and what each step of the
procedure knows of its local variables (`Walking`, `Tracing`, `Adding`). The crash is where this
pays: locals are lost, so the record in the store must by itself say where the recovery
is, and `OldPathSound` is what `load` needs to resume. There is one lemma per action
(`RollbackTipKeeps`, `LoadAndRollbackKeeps`, ...) over lemmas for the effects that
several share (`ApplyKeepsChain`, `RevertKeepsChain`, `SameRecord`).

`CalmInv` adds what a node that never crashed knows besides. Some of it holds whatever happens
(`SettledInv`): the cumulative difficulty of a block is that of its parent and its own, and what the
locals of a recovery hold is what its record holds. The rest holds until a recovery raises
(`UnbrokenInv`): nothing stands on the head, and it is the heaviest block it can be (`Ranked`), so
that a recovery has something to remove (`Working`). `RestoresOldChain` and `RemovedTxsKept` rest on
the first part alone: an exception does not invalidate what they say of later recoveries. For
`TipIsHeaviest` and the refinement each step is shown to be one of `BestChain` or a stutter while
nothing has raised, `RecoveryRaises` to be the step `Wander` that breaks the promise, and what comes
after to move the head among stored blocks.

### 4.2 The ledger

*Hypotheses.* `TxAssumption`, `AddressAssumption`, `FormAssumption`, `ChainAssumption` and
`PageAssumption`, which are the forms that `_validate_custom` and the construction of addresses give
to transactions. `LedgerTypeCorrect` needs one more, `EmissionAssumption`: the coinbase address
holds at genesis what all rewards of a chain take, because each of them is a part of the emission
that remains. `SearchStaysFree` needs `SearchAssumption`: trees are made of whole bytes of keys, and
a tree of more than eight pages of whole groups of eight pages, as trees with a power of two of keys
are. Nothing bounds the number of transactions, accounts, payees, signatories, keys, blocks or
removals.

*Argument.* `RevertRestores` says nothing of the states a block went through, and the code keeps
none of them: `revert` must find its way back from the values it meets. `LedgerInv` therefore
asserts, for each block of the chain, a *trace*: the states between its transactions, each
obtained from the one before by a valid transaction whose nonce and previous vote are those
the block records; the first comes from the state saved with the block, the last looks
like the state saved with the next one. While a block is undone the container looks like the
state of the trace at which it has arrived. That needs the states to be `Good`: a transaction
whose one-time key is not used has left no trace (no wallet, votes, token record or origin),
the used page of every address is that of its bits, a wallet not created holds nothing, and a
live spend is from a wallet and to wallets that exist. It is where validity pays: the key
check of `validate_all` is what makes a transaction undone the only one that could have left
what is taken away. `Good` and the traces were checked by TLC on the instance of `ledger` first.

The lemmas have three layers: what each kind does to each field (`TransferApplied`,
`VoteReverted`, ...); that for a valid transaction on a good state the second undoes the first
(`UndoStep`) and leaves a good state (`ApplyKept`); and the steps of the specification
(`ApplyTxKept`, `RevertTxKept`, ...). A vote is the longest: it may withdraw another, pass the
threshold, execute a payment to accounts and wallets, and touches lists in an order that the
revert does not mirror. Where this matters, for a slave that the spend pays, the list raises,
and the theorem holds because a container that has raised is dropped (`RevertFails`).

Two states are the same when they agree in everything but the page of a removed
wallet, which `Visible` hides for the reason given in 2.2.

*From a block to the chain.* The properties that compare the account state with the whole chain
are not proved step by step: a removed block would have to be known to undo each of them. They
follow from the traces. The first block of the chain was applied on what looks like the genesis
state (`ChainStaysLinked`), so that the store is the end of one chain of coinbases and valid
transactions from there, whatever was removed on the way. `ChainInduction` says so once: a
relation between a state and a place in the chain that holds at genesis, survives a coinbase and a
valid transaction, and cannot tell apart states that look the same, holds of the store and the
end of the chain. The relation is `Tells`, in six parts:

* `KeysFollow`: bits, count and nonce are those of the transactions signed so far, and no key twice;
* `HistoryFollows`: a list holds only what was done so far, and all that the address sent or signed;
* `TalliesFollow`: votes are the last so far, weights their sum, an executed spend has its votes;
* `SupplyFollows`: between a coinbase and the end of its block the balances exceed the supply by the
  fees that the block's remaining transactions will pay, because the coinbase comes first;
* `BackedFollows`: a wallet has what was sent to it less what its executed spends paid;
* `TokensFollow`: balances add up, and a list names a token as often as the record exists.

Each part has a lemma for genesis, for the coinbase and for a transaction; the last rests on
`ApplyDoes`, which says of each kind which fields it changes and how. A removed block needs no
case at all.

`TypeOK` says of every number that it does not fall below zero, and of the container too, in the middle
of a block. `Fair` is the relation for it: nothing is negative, and the coinbase address has the rewards
still to come. `ChainInduction` gives it at every place of the chain; from there it is carried
along the trace of the block that is running (`FairAlong`), to the state at which the container is
or which it looks like.

`RevertFailsOnlyForPaidSlave` is what the chain manager takes as `RevertSound`, up to finding 2:
each transaction at the end of a block passes the checks of its revert. Three of them look at fields
(nonce, key, votes), and the trace answers those. The fourth is that every list which the revert
shortens ends with the element to be taken off (`Ends`). An applied transaction has put it there,
and then the lists must be taken in an order in which none covers the end of another; for a vote and
a token transfer that order is not the mirror of the one in which they grew, and the lemmas show for
each pair of steps that the lists or the addresses are apart, or the element is the same. The only
pair left is a slave that the executed spend pays.

`SearchFindsFree` needs two facts about the keys that sign. Their bits, count and first page not full
belong together (`GoodKeys`, in the invariant already). And only keys of the first page are ever used
(`OnlyReadable`, by `ChainInduction`), because `ots_key_reuse` raises for the others and nothing
signed with one is valid. The search then has three outcomes: it stops at a byte of the first page
which has a free key, the least one; it passes the last byte of that page and meets a byte
that no page has, where it raises; or it runs out of bytes.

### 4.3 Relay, flow control, synchronisation, mining and wallet

* `RelayInv`: the heap and its hash set, with the submission of the service's thread at each of its
  steps and the processor at each of its own (`PoolInv`, where `Scheduled` holds until the second
  window and carries through exceptions by the history `deserted`); each open request has a timer
  and has asked one of its listed peers, and a peer that owes an answer is listed still
  (`ReceiptInv`).
* `FlowInv`: what a side counts beyond its wire (`Debt`) is what has leaked and what the other
  side's messages acknowledge, in its queue and on its wire (`Owed`); and a buffer is shorter than
  the first message on the wire, since every whole one has been taken out. All that a side does with
  a message is `Becomes`: its debt goes down by what it was acknowledged and what it owes goes up by
  what it acknowledges, whatever it writes on the way and in whatever order its queue gives it: each
  of the states that `Handled` may give satisfies it (`PutSums`, `PutBackSums`). A read hence takes
  a number from one side's debt and gives it to what the other owes, or it leaks; and no
  acknowledgement is for more than what is owed, so that none closes the connection.
* `SyncInv`: the store is closed under parents, and a running synchronisation has all blocks of
  its list from the number it began at to below the number wanted (`Underway`); an honest target's
  list is a stretch of a valid chain whose block below the start the node has (`Rooted`), at most as
long as the code allows (`ChainFromFacts`). `HonestBannedByAccident` and `FinishedSyncIsComplete` are
  properties of steps and follow from it.
* `MiningInv`: the list of future blocks is in the order of its times and within the drift
  (`FutureList`), which is what makes the loop over a copy of its keys come to every
  block whose own timer found it still early; and whoever is about to start the native miner
  holds a template made for the node's address, or has been crossed (`MinerSound`).
  `MiningAssumption` (`Lead <= 2 * Drift + 2`) is used here: the code's 30 and 15 meet it.
* `SolutionInv`: no stored block is above the last one (`Tallest`); every template, in place or kept
  by a thread, has the number after its parent's and a later time, and carries nonces only after a
  submission has mixed them in (`Clean`); the native miner hashes the content of its work; and from
  each step of `submit_mined_block` to the next the template is the one submitted, unless it was
  replaced (`SubmissionSound`). `SolutionsAlwaysCount` has two hypotheses: `OwnBlocks`, a block
  mined here is none of the peers' blocks, and `Drift <= Lead` (15 and 30): a block that is not too
  early for `add_block` passes `validate`.
* `WalletInv`: no address is in the wallet or the file twice; unless a stale tree has signed, the next
  key of every item, in memory and in the file, is beyond every key that has signed for its address
  (`SignedOnce`); unless an address was added under a passphrase that had failed, all items have one
  passphrase, in memory and in the file, and one that was tried is it (`KeyedOnce`).

### 4.4 What is only model-checked

* *Liveness* (`RecoveryEnds`, `SyncEnds`, `QueueDrains`, `MinerRestarts`): fairness and ENABLED are
  beyond the prover.
* The findings: a run refutes the statement on an instance, so there is nothing to prove.

Every safety invariant and every action property that a passing run checks is stated by a theorem.

The prover's library cannot be used for induction over data, because its theorems take the
statement as an operator. `DataLemmas` goes around it: the statement is a *set* of naturals
(`Induction`, `UpTo`), whose least missing element `WFMin` gives; a function defined by
recursion over a tree or over finite sets exists and satisfies its equation
(`TreeRecursion`, `SumFacts`), and sums can be taken apart (`SumWithout`, `SumOfOne`,
`SumShift`). Balances that many payees share are treated with these.

## 5. Plan

What would be added next:

1. The groups of slaves of the wallet daemon.
2. The first load, the configuration switch, and a record resumed on a tip that has grown since
   an exception, added to `ChainManager`.
3. The rate limits of a minute in `FlowControl`, with a clock.

## 6. Not modelled

* *Known hazards outside the models.* The genesis block is written by single puts, and a crash among
  them makes the next load repeat those done (`CM:465`). The limit of reorganisations filters only
  the number of the block offered, so a side branch stored earlier below it is followed (`CM:827`).
  `config.dev` changes in memory before the batch that records the change (`CM:674`), and the banned
  address is written outside its batch (`CM:620`). A recovery record resumed on a tip that has grown
  since an exception applies blocks on a tip that is not their parent (`CM:758-764`, `LoadAstray`).
  When a block has extended the tip and `check_stale_txn` validates the stale transactions of the
  pool (`CM:657-664`), one of them can raise (`CM:1174`): the batch is then not written, and
  `_last_block` and the pool are ahead of the store until the node is restarted. `set_nonces` merges
  (`core/Block.py:98`), so that the zero of a second submission leaves the nonce of the first in the
  block; `MiningNode` has no zero nonces. A transaction that does not fit in a full pool is
  broadcast all the same (`core/processors/TxnProcessor.py`; in the model, not in a property). A
  full second page of keys: nothing can be validated on it. The wallet file is written in place
  (`daemon/helper/DaemonHelper.py:287`), and so is that of `core/Wallet.py`.
* *Peer manager.* The ban list is in `BlockSync`; statuses, pings and lists of known peers decide
  whom the node dials, and every model lets anyone be connected.
* *Difficulty, proof of work, signatures, hashing.* Native code and decimals; the models take their
  outcome as a constant or as ideal.
* *APIs and command line.* They keep no state; their threads are the second actors of `TxRelay` and
  `MiningNode`.
* *State migrations, configuration, queries for the explorer, logging, generated code.* One-off
  writes, constants, and records that no decision reads.
