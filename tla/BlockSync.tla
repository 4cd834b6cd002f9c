----------------------------- MODULE BlockSync -----------------------------
(* The block synchronisation of P2PFactory: a peer sends the header hashes   *)
(* of its chain, the node finds where they leave its own and fetches the    *)
(* blocks it does not have, by number, one at a time, under one timer.      *)
(* Meanwhile blocks reach the chain manager by broadcast and mining, honest *)
(* peers move to other chains and any peer may leave.  A channel delivers   *)
(* in order, so a peer's answer and its receipt are one step.  A peer that  *)
(* comes back is a new channel, that is, another peer.                      *)
EXTENDS Integers, FiniteSets, Sequences

CONSTANTS
  Block, Genesis,
  Parent,      \* Parent[b] for every other block
  Number,      \* block_number, which is also the weight of the chain up to it
  Valid,       \* blocks that Block.validate accepts once their parent is known
  Tip0,        \* the node's last block at the start
  ReorgLimit,  \* config.dev.reorg_limit
  Peer, Honest,
  View0,       \* View0[p]: last block of the honest peer p at the start
  Lists,       \* header hashes dishonest peers send: [first, hashes]
  None

ASSUME SyncAssumption ==
  /\ Genesis \in Block /\ Genesis \notin Valid /\ Tip0 \in Valid
  /\ Valid \subseteq Block /\ \A b \in Valid : Parent[b] \in Valid \cup {Genesis}
  /\ Parent \in [Block \ {Genesis} -> Block]
  /\ Number \in [Block -> Nat] /\ Number[Genesis] = 0
  /\ \A b \in Block \ {Genesis} : Number[b] = Number[Parent[b]] + 1
  /\ ReorgLimit \in Nat
  /\ Honest \subseteq Peer /\ View0 \in [Honest -> Valid]
  /\ \A l \in Lists : l.first \in Nat /\ l.hashes \in Seq(Block) \ {<<>>}
  /\ None \notin Peer

VARIABLES
  store,      \* blocks the chain manager holds
  tip,        \* its last block
  limit,      \* re_org_limit
  target,     \* _target_channel
  list,       \* _target_node_header_hash
  wanted,     \* _last_requested_block_number
  syncing,    \* _syncing_enabled
  timers,     \* timers of peer_fetch_block that run
  asked,      \* numbers asked of honest peers and not yet answered
  connected,
  banned,
  view,       \* the honest peers' last blocks
  from        \* history: where the synchronisation found the fork

nodeVars == <<store, tip, limit>>
syncVars == <<target, list, wanted, syncing, timers, asked, from>>
vars == <<store, tip, limit, target, list, wanted, syncing, timers, asked,
          connected, banned, view, from>>

Numbers == {Number[b] : b \in Block}

NoList == [first |-> 0, hashes |-> <<>>]

Bigger(a, b)  == IF a >= b THEN a ELSE b
Smaller(a, b) == IF a <= b THEN a ELSE b

Chain[b \in Block] == IF b = Genesis THEN <<Genesis>> ELSE Append(Chain[Parent[b]], b)

(* The block of number n on the chain that ends in b.                      *)
At(b, n) == Chain[b][n + 1]

LastNumber(l)  == l.first + Len(l.hashes) - 1
Expected(l, n) == l.hashes[n - l.first + 1]

TypeOK ==
  /\ store \subseteq Block /\ tip \in store
  /\ limit \in Nat
  /\ target \in Peer \cup {None}
  /\ list.first \in Nat /\ list.hashes \in Seq(Block)
  /\ wanted \in -1 .. LastNumber(list)
  /\ syncing \in BOOLEAN /\ timers \in Nat
  /\ asked \subseteq Honest \X Nat
  /\ connected \subseteq Peer /\ banned \subseteq Peer
  /\ view \in [Honest -> Valid]
  /\ from \in Nat

Init ==
  /\ store = {At(Tip0, n) : n \in 0 .. Number[Tip0]}
  /\ tip = Tip0
  /\ limit = Bigger(0, Number[Tip0] - ReorgLimit)
  /\ target = None /\ list = NoList /\ wanted = -1
  /\ syncing = FALSE /\ timers = 0
  /\ asked = {}
  /\ connected = Peer
  /\ banned = {}
  /\ view = View0
  /\ from = 0

-----------------------------------------------------------------------------
(* Block.validate and ChainManager.add_block.                              *)

Accepted(b) == b \in Valid /\ b \notin store /\ Parent[b] \in store /\ Number[b] > limit

AddBlock(b) ==
  /\ store' = store \cup {b}
  /\ tip' = IF Number[b] > Number[tip] THEN b ELSE tip
  /\ limit' = Bigger(limit, Number[tip'] - ReorgLimit)

(* A block by broadcast or from the miner.                                 *)
BlockArrives(b) ==
  /\ Accepted(b)
  /\ AddBlock(b)
  /\ UNCHANGED <<syncVars, connected, banned, view>>

-----------------------------------------------------------------------------

Finish_KeepsNumber == target' = None /\ list' = NoList /\ syncing' = FALSE /\ UNCHANGED wanted

(* is_syncing_finished, when it is or when it is forced.                   *)
Finish ==
  /\ target' = None /\ list' = NoList /\ wanted' = -1
  /\ syncing' = FALSE

Missing_ButLast(l, n, have) == {m \in n .. LastNumber(l) - 1 : Expected(l, m) \notin have}

Missing(l, n, have) == {m \in n .. LastNumber(l) : Expected(l, m) \notin have}

Armed_Never(running) == running

Armed(running) == running + 1

(* peer_fetch_block: skips what the node has, ends the synchronisation when *)
(* that is all, and else asks the target and starts a timer.               *)
Fetch(p, l, n, have, running, waiting) ==
  LET missing == Missing(l, n, have)
      next == CHOOSE m \in missing : \A k \in missing : m <= k
  IN IF missing = {}
     THEN Finish /\ timers' = running /\ asked' = waiting
     ELSE /\ target' = p /\ list' = l /\ wanted' = next
          /\ syncing' = TRUE /\ timers' = Armed(running)
          /\ asked' = waiting \cup (({p} \cap Honest) \X {next})

(* compare_and_sync: the first number from which the list leaves the main  *)
(* chain, looked for from the top down to the first agreement.             *)
ForkNumber(l) ==
  LET top == Smaller(Number[tip], LastNumber(l))
      same == {n \in l.first .. top : At(tip, n) = Expected(l, n)}
  IN IF same = {} THEN l.first ELSE 1 + CHOOSE n \in same : \A m \in same : m <= n

Leaves(l) == ForkNumber(l) <= LastNumber(l)

CompareAndSync(p, l) ==
  /\ ~ syncing
  /\ l.first <= Number[tip]
  /\ Leaves(l)
  /\ Fetch(p, l, ForkNumber(l), store, timers, asked)
  /\ from' = ForkNumber(l)
  /\ UNCHANGED <<nodeVars, connected, banned, view>>

(* get_headerhashes: no more than twice reorg_limit above the first.       *)
ChainFrom(b, n) ==
  LET last == Smaller(Number[b], n + 2 * ReorgLimit)
  IN [first |-> n, hashes |-> [i \in 1 .. last - n + 1 |-> At(b, n + i - 1)]]

(* handle_node_headerhash: an honest peer answers with its chain from the  *)
(* number send_get_headerhash_list asked for, reorg_limit below the node's *)
(* height at that time.                                                    *)
HonestHeaderHashes(p, n) ==
  /\ p \in Honest \cap connected /\ n <= limit /\ n <= Number[view[p]]
  /\ CompareAndSync(p, ChainFrom(view[p], n))

OtherHeaderHashes(p, l) == p \in connected \ Honest /\ CompareAndSync(p, l)

Unexpected_NextNumber(b) == Number[b] # wanted + 1 \/ b # Expected(list, wanted) \/ ~ Accepted(b)

Unexpected(b) == Number[b] # wanted \/ b # Expected(list, wanted) \/ ~ Accepted(b)

Cancelled_Never == timers

Cancelled == timers - 1

(* block_received, with what is still asked of honest peers afterwards.  A *)
(* block that is not the one expected, or that the node does not accept,   *)
(* bans its sender and leaves the synchronisation to the timer.            *)
BlockReceived(p, b, waiting) ==
  \/ /\ p # target
     /\ asked' = waiting
     /\ UNCHANGED <<nodeVars, target, list, wanted, syncing, timers, banned>>
  \/ /\ p = target /\ Unexpected(b)
     /\ banned' = banned \cup {p}
     /\ asked' = waiting
     /\ UNCHANGED <<nodeVars, target, list, wanted, syncing, timers>>
  \/ /\ p = target /\ ~ Unexpected(b)
     /\ AddBlock(b)
     /\ Fetch(p, list, wanted + 1, store \cup {b}, Cancelled, waiting)
     /\ UNCHANGED banned

(* handle_fetch_block at the peer, handle_push_block at the node.          *)
HonestPushBlock(p, n) ==
  /\ p \in connected /\ <<p, n>> \in asked
  /\ 0 < n /\ n <= Number[view[p]]
  /\ BlockReceived(p, At(view[p], n), asked \ {<<p, n>>})
  /\ UNCHANGED <<connected, view, from>>

OtherPushBlock(p, b) ==
  /\ p \in connected \ Honest
  /\ BlockReceived(p, b, asked)
  /\ UNCHANGED <<connected, view, from>>

(* peer_fetch_block(1), after 100 seconds; an honest peer has answered.    *)
TimerFires ==
  /\ timers > 0
  /\ \A a \in asked : a[1] \notin connected
  /\ timers' = timers - 1
  /\ IF syncing
     THEN banned' = banned \cup {target} /\ Finish
     ELSE UNCHANGED <<banned, target, list, wanted, syncing>>
  /\ UNCHANGED <<nodeVars, asked, connected, view, from>>

(* connectionLost, after a ban or on its own; the target stays the target. *)
Disconnect(p) ==
  /\ p \in connected
  /\ connected' = connected \ {p}
  /\ UNCHANGED <<nodeVars, syncVars, banned, view>>

PeerReorganises(p, b) ==
  /\ p \in Honest /\ b \in Valid /\ Number[b] > Number[view[p]]
  /\ view' = [view EXCEPT ![p] = b]
  /\ UNCHANGED <<nodeVars, syncVars, connected, banned>>

Next ==
  \/ \E b \in Block : BlockArrives(b)
  \/ \E p \in Honest, n \in Numbers : HonestHeaderHashes(p, n) \/ HonestPushBlock(p, n)
  \/ \E p \in Peer, l \in Lists : OtherHeaderHashes(p, l)
  \/ \E p \in Peer, b \in Block : OtherPushBlock(p, b)
  \/ TimerFires
  \/ \E p \in Peer : Disconnect(p)
  \/ \E p \in Honest, b \in Block : PeerReorganises(p, b)

(* Timers fire, and an honest peer answers while it is connected.          *)
Fairness ==
  /\ WF_vars(TimerFires)
  /\ \A p \in Honest : WF_vars(\E n \in Numbers : HonestPushBlock(p, n))

Spec == Init /\ [][Next]_vars /\ Fairness

-----------------------------------------------------------------------------
(* A synchronisation has a target, a number of its list still to fetch and *)
(* exactly one timer, and nothing of it is left when it is over, whatever  *)
(* was banned, left, arrived or failed meanwhile.                          *)
SyncIsWatched ==
  /\ timers = IF syncing THEN 1 ELSE 0
  /\ syncing <=> target # None
  /\ syncing <=> wanted \in list.first .. LastNumber(list)

(* An honest peer, which answers at once, is banned for one of four        *)
(* accidents only: its connection broke, the block it was asked for came   *)
(* in another way first, it has moved to another chain since it sent its   *)
(* list, or the limit of reorganisations has passed the block.             *)
HonestBannedByAccident ==
  [][\A p \in Honest \cap (banned' \ banned) :
       LET b == Expected(list, wanted)
       IN p \notin connected \/ b \in store \/ At(view[p], wanted) # b \/ Number[b] <= limit]_vars

(* A synchronisation whose target is not banned at its end has brought in  *)
(* every block of the list above the last one common with the main chain   *)
(* it began with.                                                          *)
FinishedSyncIsComplete ==
  [][syncing /\ ~ syncing' /\ target \notin banned' =>
       \A n \in from .. LastNumber(list) : Expected(list, n) \in store']_vars

(* A synchronisation ends, whatever its target sends or withholds.         *)
SyncEnds == syncing ~> ~ syncing

=============================================================================
