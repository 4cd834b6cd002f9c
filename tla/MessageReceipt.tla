--------------------------- MODULE MessageReceipt ---------------------------
(* MessageReceipt, MessageRequest and P2PFactory.request_full_message: a    *)
(* peer announces the hash of a message, the node asks one announcing peer  *)
(* after another for the message itself, ten seconds each, and announces    *)
(* what it has accepted in turn.  All messages are of one type; peers that  *)
(* leave stay in the lists and are peers that never answer.                 *)
EXTENDS Naturals, Sequences, SequencesExt

CONSTANTS
  Hash,       \* message hashes
  Peer,       \* connected peers
  Honest,     \* those that answer a request within its ten seconds
  QueueSize,  \* message_q_size
  MaxListed,  \* bound: announcements a request collects
  MaxTimers   \* bound: timers for one hash, of requests that were evicted

ASSUME ReceiptAssumption ==
  /\ Honest \subseteq Peer
  /\ QueueSize \in Nat \ {0}
  /\ {MaxListed, MaxTimers} \subseteq Nat

VARIABLES
  hash_msg,   \* _hash_msg: hashes of the messages the node can hand out
  requested,  \* requested_hash: the open requests, oldest first
  timers,     \* callLater: timers of request_full_message for a hash
  asks,       \* requests that honest peers have not yet answered
  evicted     \* history: hashes whose request was dropped for room

receiptVars == <<hash_msg, requested, timers, asks, evicted>>

(* callLater of a request is set as soon as one peer has been asked.       *)
Requests == [hash : Hash, peers : Seq(Peer), asked : Seq(Peer)]

ReceiptTypeOK ==
  /\ hash_msg \in Seq(Hash) /\ Len(hash_msg) <= QueueSize /\ IsInjective(hash_msg)
  /\ requested \in Seq(Requests) /\ Len(requested) <= QueueSize
  /\ \A i, j \in DOMAIN requested : requested[i].hash = requested[j].hash => i = j
  /\ timers \in [Hash -> Nat]
  /\ asks \subseteq Honest \X Hash
  /\ evicted \subseteq Hash

ReceiptInit ==
  /\ hash_msg = <<>>
  /\ requested = <<>>
  /\ timers = [h \in Hash |-> 0]
  /\ asks = {}
  /\ evicted = {}

Held(h) == Contains(hash_msg, h)

IsOpen(q, h)   == \E i \in DOMAIN q : q[i].hash = h
Position(q, h) == CHOOSE i \in DOMAIN q : q[i].hash = h
Request(q, h)  == q[Position(q, h)]
Delete(q, h)   == IF IsOpen(q, h) THEN RemoveAt(q, Position(q, h)) ELSE q
Update(q, r) == [i \in DOMAIN q |-> IF q[i].hash = r.hash THEN r ELSE q[i]]

IsRequested(h, p) ==
  IsOpen(requested, h) /\ Contains(Request(requested, h).peers, p)

(* A full queue drops its oldest element, for a key it already holds too.  *)
MakeRoom(q) == IF Len(q) >= QueueSize THEN Tail(q) ELSE q

Register_Appends(q, h) == Append(MakeRoom(q), h)

Register(q, h) ==
  IF Contains(MakeRoom(q), h)
  THEN MakeRoom(q) ELSE Append(MakeRoom(q), h)

AddPeer(q, h, p) ==
  LET kept == MakeRoom(q)
  IN IF IsOpen(kept, h)
     THEN Update(kept, [Request(kept, h) EXCEPT !.peers = Append(@, p)])
     ELSE Append(kept, [hash |-> h, peers |-> <<p>>, asked |-> <<>>])

Unasked(r) == {i \in DOMAIN r.peers : ~ Contains(r.asked, r.peers[i])}
FirstOf(I) == {i \in I : \A j \in I : i <= j}

(* The first announcing peer not yet asked, a set of at most one.          *)
NextPeer(q, h) ==
  IF Held(h) \/ ~ IsOpen(q, h) THEN {}
  ELSE {Request(q, h).peers[i] : i \in FirstOf(Unasked(Request(q, h)))}

Ask_Forgets(r, p) == [r EXCEPT !.asked = Append(@, p), !.peers = Remove(@, p)]

Ask(r, p) == [r EXCEPT !.asked = Append(@, p)]

StartTimer_OnlyFirst(next, fired) == IF next = {} THEN 0 ELSE 1 - fired

StartTimer(next, fired) == IF next = {} THEN 0 ELSE 1

(* request_full_message with the requests q, from a timer that has fired    *)
(* or from an announcement: the next peer is asked and a timer started; if *)
(* none is left, or the message has come, the request is deleted.          *)
RequestFullMessage(q, h, fired) ==
  LET next == NextPeer(q, h)
  IN /\ requested' = IF next = {} THEN Delete(q, h)
                     ELSE Update(q, Ask(Request(q, h), CHOOSE p \in next : TRUE))
     /\ timers' = [timers EXCEPT ![h] = @ - fired + StartTimer(next, fired)]
     /\ asks' = asks \cup ((Honest \cap next) \X {h})

Active(q, h) == IsOpen(q, h) /\ Request(q, h).asked # <<>>

(* handle_message_received, once its filters have let the announcement in. *)
Announced(p, h) ==
  /\ ~ Held(h)
  /\ timers[h] < MaxTimers
  /\ IsOpen(requested, h) => Len(Request(requested, h).peers) < MaxListed
  /\ LET q == AddPeer(requested, h, p)
     IN IF Active(q, h)
        THEN requested' = q /\ UNCHANGED <<timers, asks>>
        ELSE RequestFullMessage(q, h, 0)
  /\ evicted' = evicted \cup (IF Len(requested) >= QueueSize THEN {Head(requested).hash} ELSE {})
  /\ UNCHANGED hash_msg

(* A timer fires.  An honest peer has answered by then, unless the timer is *)
(* left over from a request that was evicted.                              *)
TimedOut(h) ==
  /\ timers[h] > 0
  /\ h \in evicted \/ \A a \in asks : a[2] # h
  /\ RequestFullMessage(requested, h, 1)
  /\ UNCHANGED <<hash_msg, evicted>>

(* A full message arrives; a dishonest peer sends what nobody asked for.   *)
Answered(p, h) ==
  /\ p \in Honest => <<p, h>> \in asks
  /\ asks' = asks \ {<<p, h>>}
  /\ UNCHANGED <<hash_msg, requested, timers, evicted>>

RegisterAll(held, s) ==
  LET q[i \in 0 .. Len(s)] == IF i = 0 THEN held ELSE Register(q[i - 1], s[i])
  IN q[Len(s)]

(* register_and_broadcast for each message of the sequence s.              *)
Broadcast(s) ==
  /\ hash_msg' = RegisterAll(hash_msg, s)
  /\ UNCHANGED <<requested, timers, asks, evicted>>

=============================================================================
