----------------------------- MODULE MiningNode -----------------------------
(* The POW node: blocks enter through pre_block_logic or from the          *)
(* synchronisation, blocks of the near future wait in a list, and Miner     *)
(* keeps one template, which the native miner of the node and an external   *)
(* pool both work on.  Three threads run this code: the reactor, the native *)
(* thread that reports a solution and the one thread of the mining service. *)
(* An action is what a thread does without another seeing a part of it: all *)
(* it does under miner.lock up to the start of the native miner, or one     *)
(* access where it holds no lock.                                           *)
EXTENDS Integers, FiniteSets, Sequences, SequencesExt

CONSTANTS
  Block, Genesis,
  Parent, Number, Time,  \* of the peers' blocks
  Lead,        \* block_lead_timestamp
  Drift,       \* block_max_drift
  FutureSize,  \* max_future_blocks_length
  Expiring,    \* tips at which the pool holds a spend that the next block
               \* may not contain and that passes the template's checks
  NodeAddress, PoolAddress,
  AlwaysRunning, \* Miner.isRunning returns the method of the native class and
               \* not its result, and a method is true
  MaxTime, MaxMined,  \* bounds: the clock, blocks mined here before the last one
  None

ASSUME MiningAssumption ==
  /\ Genesis \in Block /\ Expiring \subseteq Block
  /\ Parent \in [Block \ {Genesis} -> Block]
  /\ Number \in [Block -> Nat] /\ Time \in [Block -> Nat]
  /\ {Lead, Drift, FutureSize, MaxTime, MaxMined} \subseteq Nat
  /\ AlwaysRunning \in BOOLEAN
  /\ Lead <= 2 * Drift + 2 /\ FutureSize > 0
  /\ None \notin {NodeAddress, PoolAddress, "reactor", "native", "api"}

VARIABLES
  now, store, tip,
  enabled,    \* mining_enabled
  synced,     \* initialize_pow has run
  suspended,  \* now < suspend_mining_timestamp
  future,     \* future_blocks, in order of insertion
  timers,     \* blocks for which process_future_blocks will be called
  loop,       \* the reactor in process_future_blocks
  template,   \* Miner._mining_block
  native,     \* the native miner and the template it works on
  toggler,    \* miner_toggler
  holder,     \* thread in pre_block_logic between its template and its start
  restart,    \* the reactor in an unlocked _mine_next
  api,        \* the service thread in submit_mined_block
  abandoned,  \* history: blocks left behind by a KeyError
  replaced    \* history: a new template came during the submission

chainVars    == <<store, tip>>
futureVars   == <<future, timers>>
templateVars == <<template, replaced>>
modeVars     == <<enabled, synced, suspended, now>>
vars == <<now, store, tip, enabled, synced, suspended, future, timers, loop,
          template, native, toggler, holder, restart, api, abandoned, replaced>>

Thread == {"reactor", "native", "api"}

(* Blocks mined here are records, the peers' blocks are constants.         *)
NumberOf(b) == IF b \in Block THEN Number[b] ELSE b.number
TimeOf(b)   == IF b \in Block THEN Time[b] ELSE b.time
ParentOf(b) == IF b \in Block THEN Parent[b] ELSE b.parent

(* What a nonce is found for: the mining blob without its nonces.          *)
Content(t) == [parent |-> t.parent, number |-> t.number, time |-> t.time, addr |-> t.addr]

(* A block mined here; whole says that the stored header has the nonces    *)
(* that the header hash was computed from.                                 *)
Mined(c, via, whole) ==
  [parent |-> c.parent, number |-> c.number, time |-> c.time, addr |-> c.addr,
   via |-> via, whole |-> whole]

(* A template that has been replaced while the reactor was about to start   *)
(* on it is kept as old; else the work is the template in place.  The       *)
(* template or content that is not there has no address.                   *)
Absent  == [addr |-> None]
NoWork  == [at |-> "idle", old |-> Absent, crossed |-> FALSE]
NoApi   == [at |-> "idle", sol |-> Absent, clone |-> Absent]
NoLoop  == [on |-> FALSE, keys |-> <<>>, del |-> None]
Off(s)  == [state |-> s, old |-> Absent, blob |-> Absent, marked |-> FALSE, crossed |-> FALSE]

TypeOK ==
  /\ now \in 0 .. MaxTime
  /\ tip \in store /\ Genesis \in store
  /\ \A b \in store \ {Genesis} : ParentOf(b) \in store
  /\ {enabled, synced, suspended, toggler, replaced} \subseteq BOOLEAN
  /\ Len(future) <= FutureSize
  /\ native.state \in {"off", "taken", "running", "solved"}
  /\ native.state = "running" => native.blob # Absent /\ template # Absent
  /\ holder \in Thread \cup {None}
  /\ restart.at \in {"idle", "prepared", "read"}
  /\ api.at \in {"idle", "header", "set", "cloned"}

Init ==
  /\ now = 0
  /\ store = {Genesis} /\ tip = Genesis
  /\ enabled \in BOOLEAN
  /\ synced = FALSE /\ suspended = FALSE /\ toggler = FALSE
  /\ future = <<>> /\ timers = {} /\ loop = NoLoop
  /\ template = Absent /\ native = Off("off")
  /\ holder = None /\ restart = NoWork
  /\ api = NoApi
  /\ abandoned = {} /\ replaced = FALSE

Free        == holder = None
ReactorFree == holder # "reactor" /\ restart.at = "idle"
Idle        == ReactorFree /\ ~ loop.on
MayMine     == Cardinality((store \cup ToSet(future)) \ Block) <= MaxMined
ApiIdle     == api.at = "idle" /\ holder # "api"

-----------------------------------------------------------------------------
(* Templates *)

Template(p, addr, handed) ==
  [parent |-> p, number |-> NumberOf(p) + 1, addr |-> addr,
   time |-> IF now > TimeOf(p) THEN now ELSE TimeOf(p) + 1,
   nonce |-> None, wire |-> FALSE, handed |-> handed]

(* prepare_next_unmined_block_template: cancel the native miner and put a   *)
(* new template in place.                                                  *)
Prepare(p, addr, handed, state) ==
  /\ template' = Template(p, addr, handed)
  /\ replaced' = (replaced \/ api.at \in {"header", "set"})
  /\ native' = Off(state)

(* The reactor keeps the object it has read, t, when another takes its place. *)
Detach(t) ==
  IF restart.at = "read" /\ restart.old = Absent THEN [restart EXCEPT !.old = t] ELSE restart

Work(x) == IF x.old = Absent THEN template ELSE x.old

(* start_mining of the native miners: what is hashed is a copy of the blob. *)
Start(x) ==
  native' = [state |-> "running", old |-> x.old, blob |-> Content(Work(x)),
             marked |-> Work(x).nonce # None, crossed |-> x.crossed]

(* _mine_next outside the lock: the template, the reading of _mining_block  *)
(* and the start are steps of their own.                                   *)
MineNext ==
  IF suspended \/ ~ enabled
  THEN UNCHANGED <<templateVars, native, restart>>
  ELSE /\ Free
       /\ Prepare(tip, NodeAddress, FALSE, "off")
       /\ restart' = [NoWork EXCEPT !.at = "prepared"]

RestartRead ==
  /\ restart.at = "prepared"
  /\ restart' = [restart EXCEPT !.at = "read"]
  /\ UNCHANGED <<chainVars, futureVars, modeVars, loop, templateVars, native, toggler,
                 holder, api, abandoned>>

RestartStart ==
  /\ restart.at = "read" /\ Free
  /\ Start(restart)
  /\ restart' = NoWork
  /\ UNCHANGED <<chainVars, futureVars, modeVars, loop, templateVars, toggler, holder,
                 api, abandoned>>

(* The start that follows a new tip, still under the lock.                 *)
HeldStart ==
  /\ ~ Free
  /\ Start(NoWork)
  /\ holder' = None
  /\ UNCHANGED <<chainVars, futureVars, modeVars, loop, templateVars, toggler, restart,
                 api, abandoned>>

-----------------------------------------------------------------------------
(* Blocks *)

IsFuture_NoDrift(b) == TimeOf(b) > now

IsFuture(b) == TimeOf(b) > now + Drift

(* Block.validate, of a block whose nonces were found for its content if   *)
(* good.  A parent that only the future list holds passes the first test,   *)
(* but its metadata is missing and the difficulty cannot be computed: the   *)
(* exception leaves everything as it was, like a refusal.                   *)
Validates(b, good) ==
  /\ b \notin store
  /\ ParentOf(b) \in store
  /\ TimeOf(b) > TimeOf(ParentOf(b))
  /\ good
  /\ TimeOf(b) <= now + Lead

(* The timer is due at the block's time plus one second; the oldest entry   *)
(* goes when the list is too long, its timer stays.                         *)
AddFuture_Unbounded(b) ==
  /\ future' = IF b \in ToSet(future) THEN future ELSE Append(future, b)
  /\ timers' = timers \cup {b}

AddFuture(b) ==
  LET f == IF b \in ToSet(future) THEN future ELSE Append(future, b)
  IN /\ future' = IF Len(f) > FutureSize THEN Tail(f) ELSE f
     /\ timers' = timers \cup {b}

(* ChainManager.add_block: a block that does not apply on the tip is not    *)
(* stored; a longer chain becomes the main chain.                           *)
Applies(b) == ~ (b \notin Block /\ b.parent = tip /\ tip \in Expiring)

AddBlock(b) ==
  IF Applies(b)
  THEN /\ store' = store \cup {b}
       /\ tip' = IF NumberOf(b) > NumberOf(tip) THEN b ELSE tip
  ELSE UNCHANGED chainVars

(* pre_block_logic in the thread th; the native miner is left as nat unless *)
(* a new tip calls for a new template.                                      *)
PreBlockLogic(th, b, good, nat) ==
  /\ Free
  /\ \/ /\ ~ Validates(b, good)
        /\ UNCHANGED <<chainVars, futureVars, templateVars, holder, restart>>
        /\ native' = nat
     \/ /\ Validates(b, good) /\ IsFuture(b)
        /\ AddFuture(b)
        /\ UNCHANGED <<chainVars, templateVars, holder, restart>>
        /\ native' = nat
     \/ /\ Validates(b, good) /\ ~ IsFuture(b)
        /\ AddBlock(b)
        /\ IF tip' # tip /\ enabled /\ ~ suspended
           THEN /\ Prepare(tip', NodeAddress, FALSE, "off")
                /\ holder' = th /\ restart' = Detach(template)
           ELSE UNCHANGED <<templateVars, holder, restart>> /\ native' = nat
        /\ UNCHANGED futureVars

(* handle_block: a block by broadcast.                                     *)
PeerBlock(b) ==
  /\ Idle
  /\ PreBlockLogic("reactor", b, TRUE, native)
  /\ UNCHANGED <<modeVars, loop, toggler, api, abandoned>>

(* block_received: a block of the synchronisation is added without the      *)
(* miner's lock, whatever its time, and leaves the template as it is.       *)
SyncBlock(b) ==
  /\ Idle
  /\ Validates(b, TRUE)
  /\ AddBlock(b)
  /\ suspended' = (suspended \/ tip' = b)
  /\ UNCHANGED <<now, enabled, synced, futureVars, loop, templateVars, native, toggler,
                 holder, restart, api, abandoned>>

(* process_future_blocks is called: it goes through the keys of that time.  *)
FutureTimer_SecondEarly(b) ==
  /\ Idle
  /\ b \in timers /\ now >= TimeOf(b)
  /\ timers' = timers \ {b}
  /\ loop' = IF future = <<>> THEN NoLoop ELSE [on |-> TRUE, keys |-> future, del |-> None]
  /\ UNCHANGED <<chainVars, modeVars, future, templateVars, native, toggler, holder,
                 restart, api, abandoned>>

FutureTimer(b) ==
  /\ Idle
  /\ b \in timers /\ now >= TimeOf(b) + 1
  /\ timers' = timers \ {b}
  /\ loop' = IF future = <<>> THEN NoLoop ELSE [on |-> TRUE, keys |-> future, del |-> None]
  /\ UNCHANGED <<chainVars, modeVars, future, templateVars, native, toggler, holder,
                 restart, api, abandoned>>

(* The next block of the list: a KeyError if another thread's block has     *)
(* pushed it out, the end of the loop if it is still too early.             *)
LoopBlock ==
  /\ loop.on /\ ReactorFree /\ loop.del = None
  /\ LET b == Head(loop.keys) IN
     \/ /\ b \notin ToSet(future)
        /\ loop' = NoLoop
        /\ abandoned' = abandoned \cup ToSet(loop.keys)
        /\ UNCHANGED <<chainVars, futureVars, templateVars, native, holder, restart>>
     \/ /\ b \in ToSet(future) /\ IsFuture(b)
        /\ loop' = NoLoop
        /\ UNCHANGED <<chainVars, futureVars, templateVars, native, holder, restart, abandoned>>
     \/ /\ b \in ToSet(future) /\ ~ IsFuture(b)
        /\ PreBlockLogic("reactor", b, TRUE, native)
        /\ loop' = [loop EXCEPT !.del = b]
        /\ UNCHANGED abandoned
  /\ UNCHANGED <<modeVars, toggler, api>>

LoopDelete ==
  /\ loop.del # None /\ ReactorFree
  /\ LET rest == Tail(loop.keys) IN
     IF loop.del \in ToSet(future)
     THEN /\ future' = RemoveAt(future, CHOOSE k \in DOMAIN future : future[k] = loop.del)
          /\ loop' = IF rest = <<>> THEN NoLoop
                     ELSE [on |-> TRUE, keys |-> rest, del |-> None]
          /\ UNCHANGED abandoned
     ELSE /\ loop' = NoLoop
          /\ abandoned' = abandoned \cup ToSet(rest)
          /\ UNCHANGED future
  /\ UNCHANGED <<chainVars, modeVars, timers, templateVars, native, toggler, holder,
                 restart, api>>

-----------------------------------------------------------------------------
(* The native miner and the reactor's timers *)

(* initialize_pow and update_node_state(synced).                           *)
InitializePow ==
  /\ Idle /\ ~ synced
  /\ synced' = TRUE
  /\ MineNext
  /\ UNCHANGED <<chainVars, futureVars, now, enabled, suspended, loop, toggler, holder,
                 api, abandoned>>

(* monitor_miner.                                                          *)
IsRunning == AlwaysRunning \/ native.state = "running"

MonitorMiner_NoToggler ==
  /\ Idle /\ synced /\ enabled
  /\ IF IsRunning THEN UNCHANGED <<templateVars, native, restart>> ELSE MineNext
  /\ UNCHANGED <<chainVars, futureVars, modeVars, loop, toggler, holder, api, abandoned>>

MonitorMiner ==
  /\ Idle /\ synced /\ enabled
  /\ IF ~ IsRunning \/ toggler
     THEN toggler' = FALSE /\ MineNext
     ELSE /\ toggler' = (native.state = "solved")
          /\ UNCHANGED <<templateVars, native, restart>>
  /\ UNCHANGED <<chainVars, futureVars, modeVars, loop, holder, api, abandoned>>

Solved == [native EXCEPT !.state = "solved", !.old = Absent, !.crossed = FALSE]

(* handleEvent: the native thread clones the template as it is now.        *)
NativeSolution ==
  /\ native.state = "running" /\ MayMine
  /\ LET t == Work(native)
     IN PreBlockLogic("native", Mined(Content(t), "native", ~ t.wire),
                      Content(t) = native.blob /\ ~ native.marked, Solved)
  /\ UNCHANGED <<modeVars, loop, toggler, api, abandoned>>

(* It skips the solution when another thread has the lock.                 *)
NativeSkip ==
  /\ native.state = "running" /\ MayMine
  /\ native' = Solved
  /\ UNCHANGED <<chainVars, futureVars, modeVars, loop, templateVars, toggler, holder,
                 restart, api, abandoned>>

ResumeMining ==
  /\ suspended /\ suspended' = FALSE
  /\ UNCHANGED <<chainVars, futureVars, now, enabled, synced, loop, templateVars, native,
                 toggler, holder, restart, api, abandoned>>

Tick ==
  /\ now < MaxTime /\ now' = now + 1
  /\ UNCHANGED <<chainVars, futureVars, enabled, synced, suspended, loop, templateVars,
                 native, toggler, holder, restart, api, abandoned>>

-----------------------------------------------------------------------------
(* The mining service *)

(* get_block_to_mine: the template in place if it is for this tip and       *)
(* address; otherwise its address is overwritten, if it is for this tip,    *)
(* and a new one is prepared.                                              *)
Readdress(t, addr) == [t EXCEPT !.addr = addr, !.nonce = None]

GetBlockToMine_InPlace(addr) ==
  /\ ApiIdle /\ Free
  /\ IF template # Absent /\ template.parent = tip
     THEN /\ template' = [Readdress(template, addr) EXCEPT !.handed = TRUE]
          /\ UNCHANGED <<replaced, native>>
     ELSE Prepare(tip, addr, TRUE, "taken")
  /\ restart' = [Detach(template) EXCEPT !.crossed = (restart.at # "idle")]
  /\ UNCHANGED <<chainVars, futureVars, modeVars, loop, toggler, holder, api, abandoned>>

GetBlockToMine(addr) ==
  LET fits == template # Absent /\ template.parent = tip
  IN /\ ApiIdle /\ Free
     /\ \/ /\ fits /\ template.addr = addr
           /\ template' = [template EXCEPT !.handed = TRUE]
           /\ UNCHANGED <<replaced, native, restart>>
        \/ /\ ~ (fits /\ template.addr = addr)
           /\ Prepare(tip, addr, TRUE, "taken")
           /\ restart' = [Detach(IF fits THEN Readdress(template, addr) ELSE template)
                           EXCEPT !.crossed = (restart.at # "idle")]
     /\ UNCHANGED <<chainVars, futureVars, modeVars, loop, toggler, holder, api, abandoned>>

apiOnly == <<chainVars, futureVars, modeVars, loop, native, toggler, holder, restart,
             abandoned>>

(* submit_mined_block: nonces are good if they were found for the content   *)
(* they are written to.  It reads _mining_block at each step, without the *)
(* lock; the first two readings are one step, as the header is checked for  *)
(* the submitted nonces again after the blob.  Only work on the template in *)
(* place passes, and only what was handed out is worked on; pre_block_logic *)
(* refuses a clone whose nonces are bad or have gone with its template.     *)
(* No nonce is zero: set_nonces merges, and a zero of a second submission   *)
(* would leave the first one's nonce in the block.                         *)
SubmitHeader ==
  /\ ApiIdle /\ MayMine
  /\ template # Absent /\ template.handed
  /\ api' = [at |-> "header", sol |-> Content(template), clone |-> Absent]
  /\ replaced' = FALSE
  /\ UNCHANGED <<apiOnly, template>>

SubmitSet ==
  /\ api.at = "header"
  /\ template' = [template EXCEPT
       !.nonce = IF Content(template) = api.sol THEN "good" ELSE "bad",
       !.wire = TRUE]
  /\ api' = [NoApi EXCEPT !.at = "set"]
  /\ UNCHANGED <<apiOnly, replaced>>

SubmitClone ==
  /\ api.at = "set"
  /\ api' = [NoApi EXCEPT
       !.at = "cloned",
       !.clone = IF template.nonce = "good" THEN Content(template) ELSE Absent]
  /\ UNCHANGED <<apiOnly, templateVars>>

SubmitPreBlock ==
  /\ api.at = "cloned" /\ Free
  /\ IF api.clone = Absent
     THEN UNCHANGED <<chainVars, futureVars, templateVars, native, holder, restart>>
     ELSE PreBlockLogic("api", Mined(api.clone, "pool", TRUE), TRUE, native)
  /\ api' = NoApi
  /\ UNCHANGED <<modeVars, loop, toggler, abandoned>>

Submit == SubmitHeader \/ SubmitSet \/ SubmitClone \/ SubmitPreBlock

-----------------------------------------------------------------------------
Next ==
  \/ \E b \in Block \ {Genesis} : PeerBlock(b) \/ SyncBlock(b)
  \/ \E b \in timers : FutureTimer(b)
  \/ LoopBlock \/ LoopDelete
  \/ InitializePow \/ MonitorMiner \/ RestartRead \/ RestartStart \/ HeldStart
  \/ NativeSolution \/ NativeSkip
  \/ ResumeMining \/ Tick
  \/ \E a \in {NodeAddress, PoolAddress} : GetBlockToMine(a)
  \/ Submit

(* The reactor goes on and calls its timers, and a suspension ends.        *)
Fairness ==
  /\ WF_vars(LoopBlock) /\ WF_vars(LoopDelete)
  /\ WF_vars(RestartRead) /\ WF_vars(RestartStart) /\ WF_vars(HeldStart)
  /\ WF_vars(InitializePow) /\ WF_vars(MonitorMiner) /\ WF_vars(ResumeMining)

Spec == Init /\ [][Next]_vars /\ Fairness

-----------------------------------------------------------------------------
(* A block in the future list has its timer to come, or the loop that will  *)
(* take it is running: the timer of one block never leaves it behind one    *)
(* that is still too early.  Only a KeyError strands blocks, when the       *)
(* native thread's own block pushes one out during the loop.                *)
FutureIsWatched ==
  \A b \in ToSet(future) :
    b \in timers \cup abandoned \cup ToSet(loop.keys)

(* The native miner works for the node's address whatever addresses the     *)
(* pool asks for, unless the pool asked between the template and the start  *)
(* of an unlocked _mine_next.                                              *)
NativeWorksForNode ==
  native.state = "running" /\ Work(native).addr # NodeAddress => native.crossed

(* A solution is not lost: the block of a template on the tip, found by the *)
(* native miner on a template no submission wrote to, or submitted and not  *)
(* overtaken by a new template, becomes the last block, stored as it was    *)
(* hashed, or waits until it is no longer early, unless it holds an         *)
(* expired spend.                                                          *)
Timely(c) ==
  /\ c.parent = tip /\ tip \notin Expiring
  /\ c.time <= now + Drift

SolutionsCount ==
  [][/\ NativeSolution /\ Timely(native.blob) /\ ~ Work(native).wire
          => tip' = Mined(native.blob, "native", TRUE)
     /\ SubmitPreBlock /\ ~ replaced
          => \/ api.clone # Absent /\ ~ Timely(api.clone)
             \/ tip' = Mined(api.clone, "pool", TRUE)]_vars

(* Whether its solution counted or was skipped, the native miner gets new  *)
(* work, also after a synchronisation, unless the pool's request has taken *)
(* the template from it.                                                   *)
MinerRestarts ==
  enabled /\ native.state = "solved" ~> native.state \in {"running", "taken"}

=============================================================================
