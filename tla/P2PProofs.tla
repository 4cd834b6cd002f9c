----------------------------- MODULE P2PProofs -----------------------------
(***************************************************************************)
(* Proofs about what connected nodes exchange: about TxRelay, for every    *)
(* set of transactions and of peers and every size of the queues, and, in  *)
(* the second half, about FlowControl, for messages, reads and limits of   *)
(* any size.  The two share no state.                                      *)
(*                                                                         *)
(* In FlowControl, a side's count less the bytes on its wire (Debt)        *)
(* changes only when it handles an acknowledgement, and what its messages  *)
(* acknowledge, in the queue and on the wire (Owed), only when it queues   *)
(* one.  A read takes the same number from the one and adds it to the      *)
(* other, or it leaks.                                                     *)
(***************************************************************************)
EXTENDS TxRelay, FlowControl, DataLemmas

-----------------------------------------------------------------------------
(* The queue of requests                                                    *)

OneEach(q) == \A i, j \in DOMAIN q : q[i].hash = q[j].hash => i = j

(* Queues of requests with at most one for each hash.                       *)
Queues == {q \in Seq(Requests) : OneEach(q)}

LEMMA RequestFacts ==
  ASSUME NEW q \in Queues, NEW h
  PROVE  /\ IsOpen(q, h) <=> \E r \in ToSet(q) : r.hash = h
         /\ \A r \in ToSet(q) : r.hash = h => IsOpen(q, h) /\ Request(q, h) = r
         /\ IsOpen(q, h) => /\ Position(q, h) \in DOMAIN q
                            /\ q[Position(q, h)].hash = h
                            /\ Request(q, h) \in ToSet(q)
                            /\ Request(q, h) \in Requests
                            /\ Request(q, h).hash = h
<1>1. q \in Seq(Requests) /\ OneEach(q)
  BY DEF Queues
<1>2. IsOpen(q, h) <=> \E r \in ToSet(q) : r.hash = h
  BY <1>1 DEF IsOpen, ToSet
<1>3. IsOpen(q, h) => /\ Position(q, h) \in DOMAIN q
                      /\ q[Position(q, h)].hash = h
  BY DEF IsOpen, Position
<1>4. IsOpen(q, h) => /\ Request(q, h) \in ToSet(q)
                      /\ Request(q, h) \in Requests
                      /\ Request(q, h).hash = h
  BY <1>1, <1>3 DEF Request, ToSet
<1>5. ASSUME NEW r \in ToSet(q), r.hash = h
      PROVE  IsOpen(q, h) /\ Request(q, h) = r
  <2>1. IsOpen(q, h)
    BY <1>2, <1>5
  <2>2. PICK i \in DOMAIN q : q[i] = r
    BY <1>5 DEF ToSet
  <2>3. i = Position(q, h)
    BY <1>1, <1>3, <1>5, <2>1, <2>2 DEF OneEach
  <2>4. QED
    BY <2>1, <2>2, <2>3 DEF Request
<1>6. QED
  BY <1>2, <1>3, <1>4, <1>5

LEMMA QueueElements ==
  ASSUME NEW q \in Queues
  PROVE  \A r \in ToSet(q) : r \in Requests /\ r.hash \in Hash
<1>1. q \in Seq(Requests)
  BY DEF Queues
<1>2. ToSet(q) \subseteq Requests
  BY <1>1, ElementFacts
<1>3. QED
  BY <1>2 DEF Requests

LEMMA DeleteFacts ==
  ASSUME NEW q \in Queues, NEW h
  PROVE  /\ Delete(q, h) \in Queues
         /\ Len(Delete(q, h)) <= Len(q)
         /\ ToSet(Delete(q, h)) = {r \in ToSet(q) : r.hash # h}
<1>1. q \in Seq(Requests) /\ OneEach(q)
  BY DEF Queues
<1>2. CASE ~ IsOpen(q, h)
  BY <1>2, RequestFacts, <1>1 DEF Delete
<1>3. CASE IsOpen(q, h)
  <2> DEFINE k == Position(q, h)
             d == RemoveAt(q, k)
  <2>1. k \in DOMAIN q /\ q[k].hash = h
    BY <1>3, RequestFacts
  <2>2. Delete(q, h) = d
    BY <1>3 DEF Delete
  <2>3. /\ d \in Seq(Requests)
        /\ Len(d) = Len(q) - 1
        /\ \A i \in DOMAIN d : d[i] = IF i < k THEN q[i] ELSE q[i + 1]
    BY <1>1, <2>1, RemoveAtFacts
  <2> HIDE DEF d, k
  <2>4. k \in 1 .. Len(q) /\ Len(q) \in Nat /\ DOMAIN q = 1 .. Len(q) /\ DOMAIN d = 1 .. Len(q) - 1
    BY <1>1, <2>1, <2>3
  <2>5. ASSUME NEW i \in DOMAIN d
        PROVE  \E j \in DOMAIN q : j = (IF i < k THEN i ELSE i + 1) /\ d[i] = q[j] /\ j # k
    BY <2>3, <2>4
  <2>6. OneEach(d)
    <3>1. SUFFICES ASSUME NEW i \in DOMAIN d, NEW j \in DOMAIN d, d[i].hash = d[j].hash
                   PROVE  i = j
      BY DEF OneEach
    <3>2. PICK a \in DOMAIN q : a = (IF i < k THEN i ELSE i + 1) /\ d[i] = q[a] /\ a # k
      BY <2>5
    <3>3. PICK b \in DOMAIN q : b = (IF j < k THEN j ELSE j + 1) /\ d[j] = q[b] /\ b # k
      BY <2>5
    <3>4. a = b
      BY <1>1, <3>1, <3>2, <3>3 DEF OneEach
    <3>5. i \in Nat /\ j \in Nat /\ k \in Nat
      BY <2>4
    <3>6. QED
      BY <3>2, <3>3, <3>4, <3>5
  <2>7. ASSUME NEW i \in DOMAIN d
        PROVE  d[i] \in ToSet(q) /\ d[i].hash # h
    BY <1>1, <2>1, <2>5 DEF OneEach, ToSet
  <2>8. ASSUME NEW j \in DOMAIN q, q[j].hash # h
        PROVE  \E i \in DOMAIN d : d[i] = q[j]
    <3>1. j # k
      BY <2>1, <2>8
    <3>2. CASE j < k
      <4>1. j \in DOMAIN d
        BY <2>4, <3>2
      <4>2. QED
        BY <2>3, <3>2, <4>1
    <3>3. CASE j > k
      <4>1. j - 1 \in DOMAIN d /\ ~ (j - 1 < k) /\ (j - 1) + 1 = j
        BY <2>4, <3>3
      <4>2. d[j - 1] = q[j]
        BY <2>3, <4>1
      <4>3. QED
        BY <4>1, <4>2
    <3>4. QED
      BY <2>4, <3>1, <3>2, <3>3
  <2>9. ToSet(d) = {r \in ToSet(q) : r.hash # h}
    BY <2>7, <2>8 DEF ToSet
  <2>10. QED
    BY <2>2, <2>3, <2>4, <2>6, <2>9 DEF Queues
<1>4. QED
  BY <1>2, <1>3

LEMMA UpdateFacts ==
  ASSUME NEW q \in Queues, NEW r \in Requests
  PROVE  /\ Update(q, r) \in Queues
         /\ Len(Update(q, r)) = Len(q)
         /\ ToSet(Update(q, r)) = {IF x.hash = r.hash THEN r ELSE x : x \in ToSet(q)}
<1>1. q \in Seq(Requests) /\ OneEach(q)
  BY DEF Queues
<1>2. /\ Update(q, r) \in Seq(Requests)
      /\ Len(Update(q, r)) = Len(q)
      /\ DOMAIN Update(q, r) = DOMAIN q
      /\ \A i \in DOMAIN q : Update(q, r)[i] = IF q[i].hash = r.hash THEN r ELSE q[i]
  BY <1>1 DEF Update
<1>3. \A i \in DOMAIN q : Update(q, r)[i].hash = q[i].hash
  BY <1>2
<1>4. OneEach(Update(q, r))
  BY <1>1, <1>2, <1>3 DEF OneEach
<1>5. ToSet(Update(q, r)) = {IF x.hash = r.hash THEN r ELSE x : x \in ToSet(q)}
  BY <1>2 DEF ToSet
<1>6. QED
  BY <1>2, <1>4, <1>5 DEF Queues

LEMMA MakeRoomFacts ==
  ASSUME NEW q \in Queues, Len(q) <= QueueSize
  PROVE  /\ MakeRoom(q) \in Queues
         /\ Len(MakeRoom(q)) < QueueSize
         /\ Len(q) < QueueSize => MakeRoom(q) = q
         /\ Len(q) >= QueueSize => /\ q # <<>>
                                   /\ Head(q) \in Requests
                                   /\ ToSet(q) = {Head(q)} \cup ToSet(MakeRoom(q))
<1>1. q \in Seq(Requests) /\ OneEach(q) /\ QueueSize \in Nat \ {0} /\ Len(q) \in Nat
  BY ReceiptAssumption DEF Queues
<1>2. CASE Len(q) < QueueSize
  BY SMTT(60), <1>1, <1>2 DEF MakeRoom
<1>3. CASE Len(q) >= QueueSize
  <2>1. q # <<>> /\ MakeRoom(q) = Tail(q)
    BY <1>1, <1>3 DEF MakeRoom
  <2>2. /\ Tail(q) \in Seq(Requests)
        /\ Len(Tail(q)) = Len(q) - 1
        /\ \A i \in DOMAIN Tail(q) : i + 1 \in DOMAIN q /\ Tail(q)[i] = q[i + 1]
        /\ ToSet(q) = {Head(q)} \cup ToSet(Tail(q))
    BY <1>1, <2>1, TailFacts
  <2>3. OneEach(Tail(q))
    <3>1. SUFFICES ASSUME NEW i \in DOMAIN Tail(q), NEW j \in DOMAIN Tail(q),
                          Tail(q)[i].hash = Tail(q)[j].hash
                   PROVE  i = j
      BY DEF OneEach
    <3>2. i + 1 = j + 1
      BY <1>1, <2>2, <3>1 DEF OneEach
    <3>3. i \in Nat /\ j \in Nat
      BY <2>2
    <3>4. QED
      BY <3>2, <3>3
  <2>4. Head(q) \in Requests
    BY <1>1, <2>1
  <2>5. Len(Tail(q)) < QueueSize /\ ~ (Len(q) < QueueSize)
    BY <1>1, <1>3, <2>2
  <2>6. Tail(q) \in Queues
    BY <2>2, <2>3 DEF Queues
  <2>7. QED
    BY <2>1, <2>2, <2>4, <2>5, <2>6
<1>4. QED
  BY <1>1, <1>2, <1>3

(* What the requests are when p has announced h and q held the others: one  *)
(* of another hash, a new one, or the old one with one more peer.           *)
AfterAdd(r, q, h, p) ==
  \/ r \in ToSet(q) /\ r.hash # h
  \/ r = [hash |-> h, peers |-> <<p>>, asked |-> <<>>]
  \/ \E x \in ToSet(q) : x.hash = h /\ r = [x EXCEPT !.peers = Append(@, p)]

(* Every request of q is still in u, with its peers.                        *)
Covers(u, q) ==
  \A x \in ToSet(q) :
    \E r \in ToSet(u) : r.hash = x.hash /\ ToSet(x.peers) \subseteq ToSet(r.peers)

LEMMA AddPeerFacts ==
  ASSUME NEW q \in Queues, Len(q) <= QueueSize, NEW h \in Hash, NEW p \in Peer
  PROVE  /\ AddPeer(q, h, p) \in Queues
         /\ Len(AddPeer(q, h, p)) <= QueueSize
         /\ IsOpen(AddPeer(q, h, p), h)
         /\ \A r \in ToSet(AddPeer(q, h, p)) : AfterAdd(r, q, h, p)
         /\ Covers(AddPeer(q, h, p), MakeRoom(q))
<1> DEFINE kept == MakeRoom(q)
           new == [hash |-> h, peers |-> <<p>>, asked |-> <<>>]
<1>1. /\ kept \in Queues
      /\ Len(kept) < QueueSize
      /\ ToSet(kept) \subseteq ToSet(q)
  BY MakeRoomFacts, ReceiptAssumption DEF Queues
<1>2. Len(kept) \in Nat /\ QueueSize \in Nat /\ kept \in Seq(Requests)
  BY <1>1, ReceiptAssumption DEF Queues
<1> HIDE DEF kept
<1>3. CASE IsOpen(kept, h)
  <2> DEFINE old == Request(kept, h)
             r == [old EXCEPT !.peers = Append(@, p)]
             u == Update(kept, r)
  <2>1. old \in ToSet(kept) /\ old \in Requests /\ old.hash = h
    BY <1>1, <1>3, RequestFacts
  <2>2. AddPeer(q, h, p) = u
    BY <1>3 DEF AddPeer, kept
  <2> HIDE DEF old
  <2>3. r \in Requests /\ r.hash = h
    <3>1. old.peers \in Seq(Peer) /\ Append(old.peers, p) \in Seq(Peer)
      BY <2>1 DEF Requests
    <3>2. old \in [hash : Hash, peers : Seq(Peer), asked : Seq(Peer)]
      BY <2>1 DEF Requests
    <3> DEFINE more == Append(old.peers, p)
    <3>3. r = [old EXCEPT !.peers = more] /\ more \in Seq(Peer)
      BY <3>1
    <3> HIDE DEF more, r
    <3>4. r \in [hash : Hash, peers : Seq(Peer), asked : Seq(Peer)] /\ r.hash = h
      BY <2>1, <3>2, <3>3
    <3>5. QED
      BY <3>4 DEF Requests
  <2> HIDE DEF r
  <2>4. /\ u \in Queues
        /\ Len(u) = Len(kept)
        /\ ToSet(u) = {IF x.hash = h THEN r ELSE x : x \in ToSet(kept)}
    BY <1>1, <2>3, UpdateFacts
  <2>5. r \in ToSet(u)
    BY <2>1, <2>4
  <2>6. IsOpen(u, h)
    BY <2>3, <2>4, <2>5, RequestFacts
  <2>7. \A x \in ToSet(kept) : x.hash = h => x = old
    BY <1>1, <2>1, RequestFacts DEF old
  <2>8. ToSet(old.peers) \subseteq ToSet(r.peers)
    <3>1. old.peers \in Seq(Peer) /\ r.peers = Append(old.peers, p)
      BY <2>1 DEF Requests, r
    <3>2. QED
      BY <3>1, AppendElements
  <2> HIDE DEF u
  <2>9. ASSUME NEW x \in ToSet(kept)
        PROVE  \E y \in ToSet(u) : y.hash = x.hash /\ ToSet(x.peers) \subseteq ToSet(y.peers)
    <3>1. CASE x.hash = h
      BY <2>1, <2>3, <2>5, <2>7, <2>8, <3>1
    <3>2. CASE x.hash # h
      BY <2>4, <3>2
    <3>3. QED
      BY <3>1, <3>2
  <2>10. ASSUME NEW y \in ToSet(u)
         PROVE  (y \in ToSet(q) /\ y.hash # h) \/ y = r
    BY <1>1, <2>4
  <2>11. \A y \in ToSet(u) : AfterAdd(y, q, h, p)
    BY <1>1, <2>1, <2>10 DEF r, AfterAdd
  <2>12. Len(u) <= QueueSize
    BY <1>1, <1>2, <2>4
  <2>13. QED
    BY <2>2, <2>4, <2>6, <2>9, <2>11, <2>12 DEF kept, Covers
<1>4. CASE ~ IsOpen(kept, h)
  <2> DEFINE a == Append(kept, new)
  <2>1. AddPeer(q, h, p) = a
    BY <1>4 DEF AddPeer, kept
  <2>2. new \in Requests /\ new.hash = h
    BY DEF Requests
  <2> HIDE DEF new
  <2>3. /\ a \in Seq(Requests)
        /\ Len(a) = Len(kept) + 1
        /\ \A i \in DOMAIN kept : i \in DOMAIN a /\ a[i] = kept[i]
        /\ a[Len(kept) + 1] = new
        /\ ToSet(a) = ToSet(kept) \cup {new}
    BY <1>2, <2>2, AppendElements
  <2>4. \A x \in ToSet(kept) : x.hash # h
    BY <1>1, <1>4, RequestFacts
  <2>5. OneEach(a)
    <3>1. \A i \in DOMAIN a : i \in DOMAIN kept \/ i = Len(kept) + 1
      BY <1>2, <2>3
    <3>2. \A i \in DOMAIN kept : kept[i].hash # h
      BY <2>4 DEF ToSet
    <3>3. OneEach(kept)
      BY <1>1 DEF Queues
    <3> HIDE DEF a
    <3>4. QED
      BY <2>2, <2>3, <3>1, <3>2, <3>3 DEF OneEach
  <2>6. a \in Queues
    BY <2>3, <2>5 DEF Queues
  <2> HIDE DEF a
  <2>7. IsOpen(a, h)
    BY <2>2, <2>3, <2>6, RequestFacts
  <2>8. Len(a) <= QueueSize
    BY <1>1, <1>2, <2>3
  <2>9. \A y \in ToSet(a) : AfterAdd(y, q, h, p)
    BY <1>1, <2>3, <2>4 DEF AfterAdd, new
  <2>10. \A x \in ToSet(kept) : x \in ToSet(a)
    BY <2>3
  <2>11. QED
    BY <2>1, <2>6, <2>7, <2>8, <2>9, <2>10 DEF kept, Covers
<1>5. QED
  BY <1>3, <1>4

LEMMA ContainsFacts ==
  ASSUME NEW S, NEW q \in Seq(S), NEW e
  PROVE  Contains(q, e) <=> e \in ToSet(q)
BY DEF Contains, ToSet

(* NextPeer is the first announcing peer that has not been asked, if there  *)
(* is one and the message is still wanted.                                  *)
LEMMA NextPeerFacts ==
  ASSUME NEW q \in Queues, NEW h \in Hash
  PROVE  /\ \A p \in NextPeer(q, h) :
              /\ IsOpen(q, h)
              /\ NextPeer(q, h) = {p}
              /\ p \in ToSet(Request(q, h).peers)
              /\ p \in Peer
         /\ ~ Held(h) /\ IsOpen(q, h) /\ Unasked(Request(q, h)) # {}
              => NextPeer(q, h) # {}
<1> DEFINE r == Request(q, h)
           U == Unasked(r)
<1>1. ASSUME IsOpen(q, h)
      PROVE  /\ r.peers \in Seq(Peer)
             /\ U \subseteq DOMAIN r.peers
             /\ U \subseteq Nat
  <2>1. r \in Requests
    BY <1>1, RequestFacts
  <2>2. r.peers \in Seq(Peer)
    BY <2>1 DEF Requests
  <2> HIDE DEF r
  <2>3. U \subseteq DOMAIN r.peers
    BY DEF Unasked
  <2>4. DOMAIN r.peers \subseteq Nat
    BY <2>2
  <2>5. QED
    BY <2>2, <2>3, <2>4
<1>2. ASSUME NEW p \in NextPeer(q, h)
      PROVE  /\ IsOpen(q, h)
             /\ NextPeer(q, h) = {p}
             /\ p \in ToSet(r.peers)
             /\ p \in Peer
  <2>1. IsOpen(q, h) /\ NextPeer(q, h) = {r.peers[i] : i \in FirstOf(U)}
    BY <1>2 DEF NextPeer
  <2> HIDE DEF r
  <2>2. PICK i \in FirstOf(U) : p = r.peers[i]
    BY <1>2, <2>1
  <2> HIDE DEF U
  <2>3. i \in U /\ i \in DOMAIN r.peers
    BY <1>1, <2>1, <2>2 DEF FirstOf
  <2>4. ASSUME NEW j \in FirstOf(U)
        PROVE  j = i
    <3>1. j \in U /\ j <= i /\ i <= j
      BY <2>2, <2>3, <2>4 DEF FirstOf
    <3>2. i \in Nat /\ j \in Nat
      BY <1>1, <2>1, <2>3, <3>1
    <3>3. QED
      BY <3>1, <3>2
  <2>5. NextPeer(q, h) = {p}
    BY <2>1, <2>2, <2>4
  <2>6. p \in ToSet(r.peers) /\ p \in Peer
    BY <1>1, <2>1, <2>2, <2>3 DEF ToSet
  <2>7. QED
    BY <2>1, <2>5, <2>6
<1>3. ASSUME ~ Held(h), IsOpen(q, h), U # {}
      PROVE  NextPeer(q, h) # {}
  <2>1. PICK i \in U : \A j \in U : i <= j
    BY <1>1, <1>3, Least
  <2>2. i \in FirstOf(U)
    BY <2>1 DEF FirstOf
  <2>3. NextPeer(q, h) = {r.peers[k] : k \in FirstOf(U)}
    BY <1>3 DEF NextPeer
  <2>4. QED
    BY <2>2, <2>3
<1>4. QED
  BY <1>2, <1>3

-----------------------------------------------------------------------------
(* The invariant of the receipts                                            *)

Watched(r, T) == r.asked # <<>> /\ T[r.hash] > 0

Awaits(q, p, h) == \E r \in ToSet(q) : r.hash = h /\ p \in ToSet(r.peers)

ReceiptInv ==
  /\ hash_msg \in Seq(Hash) /\ Len(hash_msg) <= QueueSize /\ IsInjective(hash_msg)
  /\ requested \in Queues /\ Len(requested) <= QueueSize
  /\ timers \in [Hash -> Nat]
  /\ asks \subseteq Honest \X Hash
  /\ evicted \subseteq Hash
  /\ \A r \in ToSet(requested) : Watched(r, timers)
  /\ \A a \in asks : Awaits(requested, a[1], a[2]) \/ a[2] \in evicted

(* A call of request_full_message leaves all requests watched if those for  *)
(* other hashes were, and its own timer is spent.                           *)
LEMMA RequestFullMessageKeeps ==
  ASSUME NEW q \in Queues, Len(q) <= QueueSize, NEW h \in Hash, NEW fired \in {0, 1},
         timers \in [Hash -> Nat], fired = 1 => timers[h] > 0,
         asks \subseteq Honest \X Hash,
         \A r \in ToSet(q) : r.hash # h => Watched(r, timers),
         RequestFullMessage(q, h, fired)
  PROVE  /\ requested' \in Queues /\ Len(requested') <= QueueSize
         /\ timers' \in [Hash -> Nat]
         /\ asks' \subseteq Honest \X Hash
         /\ \A r \in ToSet(requested') : Watched(r, timers')
         /\ \A a \in asks' \ asks : Awaits(requested', a[1], a[2])
         /\ \A p, x : Awaits(q, p, x) /\ (x # h \/ NextPeer(q, h) # {})
                         => Awaits(requested', p, x)
<1> DEFINE next == NextPeer(q, h)
           old == Request(q, h)
<1>0. q \in Seq(Requests) /\ Len(q) \in Nat /\ QueueSize \in Nat
  BY ReceiptAssumption DEF Queues
<1>1. CASE next = {}
  <2>1. /\ requested' = Delete(q, h)
        /\ timers' = [timers EXCEPT ![h] = @ - fired + 0]
        /\ asks' = asks
    BY <1>1 DEF RequestFullMessage, StartTimer
  <2>2. /\ Delete(q, h) \in Queues
        /\ Len(Delete(q, h)) <= Len(q)
        /\ ToSet(Delete(q, h)) = {r \in ToSet(q) : r.hash # h}
    BY DeleteFacts
  <2>3. timers' \in [Hash -> Nat]
    BY <2>1
  <2>4. \A r \in ToSet(requested') : Watched(r, timers')
    <3>1. ASSUME NEW r \in ToSet(q), r.hash # h
          PROVE  Watched(r, timers')
      <4>1. r.hash \in Hash
        BY <3>1, QueueElements
      <4>2. QED
        BY <2>1, <3>1, <4>1 DEF Watched
    <3>2. QED
      BY <2>1, <2>2, <3>1
  <2>5. ASSUME NEW p, NEW x, Awaits(q, p, x), x # h
        PROVE  Awaits(requested', p, x)
    BY <2>1, <2>2, <2>5 DEF Awaits
  <2>6. Len(requested') <= QueueSize
    <3>1. Len(Delete(q, h)) \in Nat
      BY <2>2 DEF Queues
    <3>2. QED
      BY <1>0, <2>1, <2>2, <3>1
  <2>7. QED
    BY <1>1, <2>1, <2>2, <2>3, <2>4, <2>5, <2>6
<1>2. CASE next # {}
  <2> DEFINE p0 == CHOOSE p \in next : TRUE
             new == Ask(old, p0)
  <2>1. p0 \in next
    BY <1>2
  <2>2. /\ IsOpen(q, h)
        /\ next = {p0}
        /\ p0 \in ToSet(old.peers)
        /\ p0 \in Peer
    BY <2>1, NextPeerFacts
  <2>3. old \in ToSet(q) /\ old \in Requests /\ old.hash = h
    BY <2>2, RequestFacts
  <2>4. /\ requested' = Update(q, new)
        /\ timers' = [timers EXCEPT ![h] = @ - fired + 1]
        /\ asks' = asks \cup ((Honest \cap {p0}) \X {h})
    BY <1>2, <2>2 DEF RequestFullMessage, StartTimer
  <2> HIDE DEF p0, next
  <2>6. new \in Requests /\ new.hash = h /\ new.asked # <<>> /\ new.peers = old.peers
    <3>1. old.asked \in Seq(Peer)
      BY <2>3 DEF Requests
    <3>2. new = [old EXCEPT !.asked = Append(old.asked, p0)]
      BY DEF Ask
    <3>3. Append(old.asked, p0) \in Seq(Peer) /\ Append(old.asked, p0) # <<>>
      BY <2>2, <3>1, AppendProperties
    <3> HIDE DEF old, new
    <3>4. QED
      BY <2>3, <3>2, <3>3 DEF Requests
  <2>5. \A x \in ToSet(q) : x.hash = h => x = old
    BY RequestFacts
  <2> HIDE DEF old, new
  <2>7. /\ Update(q, new) \in Queues
        /\ Len(Update(q, new)) = Len(q)
        /\ ToSet(Update(q, new)) = {IF x.hash = h THEN new ELSE x : x \in ToSet(q)}
    BY <2>6, UpdateFacts
  <2>8. timers' \in [Hash -> Nat] /\ timers'[h] > 0
    BY <2>4
  <2>9. \A r \in ToSet(requested') : Watched(r, timers')
    <3>1. ASSUME NEW r \in ToSet(q), r.hash # h
          PROVE  Watched(r, timers')
      <4>1. r.hash \in Hash
        BY <3>1, QueueElements
      <4>2. QED
        BY <2>4, <3>1, <4>1 DEF Watched
    <3>2. Watched(new, timers')
      BY <2>6, <2>8 DEF Watched
    <3>3. QED
      BY <2>4, <2>7, <3>1, <3>2
  <2>10. new \in ToSet(requested')
    BY <2>3, <2>4, <2>7
  <2>11. \A a \in asks' \ asks : Awaits(requested', a[1], a[2])
    <3>1. ASSUME NEW a \in asks' \ asks
          PROVE  a[1] = p0 /\ a[2] = h
      BY <2>4, <3>1
    <3>2. QED
      BY <2>2, <2>6, <2>10, <3>1 DEF Awaits
  <2>12. ASSUME NEW p, NEW x, Awaits(q, p, x)
         PROVE  Awaits(requested', p, x)
    <3>1. PICK r \in ToSet(q) : r.hash = x /\ p \in ToSet(r.peers)
      BY <2>12 DEF Awaits
    <3>2. CASE x = h
      BY <2>5, <2>6, <2>10, <3>1, <3>2 DEF Awaits
    <3>3. CASE x # h
      BY <2>4, <2>7, <3>1, <3>3 DEF Awaits
    <3>4. QED
      BY <3>2, <3>3
  <2>13. asks' \subseteq Honest \X Hash
    BY <2>4
  <2>14. requested' \in Queues /\ Len(requested') <= QueueSize
    BY <2>4, <2>7
  <2>15. \A p, x : Awaits(q, p, x) => Awaits(requested', p, x)
    BY <2>12
  <2>16. timers' \in [Hash -> Nat]
    BY <2>8
  <2>17. QED
    BY <2>9, <2>11, <2>13, <2>14, <2>15, <2>16
<1>3. QED
  BY <1>1, <1>2

LEMMA AnnouncedKeeps ==
  ASSUME ReceiptInv, NEW p \in Peer, NEW h \in Hash, Announced(p, h)
  PROVE  ReceiptInv'
<1> DEFINE q == AddPeer(requested, h, p)
<1>1. /\ requested \in Queues /\ Len(requested) <= QueueSize
      /\ timers \in [Hash -> Nat]
      /\ asks \subseteq Honest \X Hash
      /\ evicted \subseteq Hash
      /\ \A r \in ToSet(requested) : Watched(r, timers)
      /\ \A a \in asks : Awaits(requested, a[1], a[2]) \/ a[2] \in evicted
  BY DEF ReceiptInv
<1>2. /\ q \in Queues
      /\ Len(q) <= QueueSize
      /\ IsOpen(q, h)
      /\ \A r \in ToSet(q) : AfterAdd(r, requested, h, p)
      /\ Covers(q, MakeRoom(requested))
  <2>1. requested \in Queues /\ Len(requested) <= QueueSize
    BY <1>1
  <2>2. QED
    BY <2>1, AddPeerFacts
<1> HIDE DEF q
<1>3. \A r \in ToSet(q) : r.hash # h => Watched(r, timers)
  <2>1. SUFFICES ASSUME NEW r \in ToSet(q), r.hash # h
                 PROVE  Watched(r, timers)
    OBVIOUS
  <2>2. CASE r \in ToSet(requested)
    BY <1>1, <2>2
  <2>3. CASE r = [hash |-> h, peers |-> <<p>>, asked |-> <<>>]
    BY <2>1, <2>3
  <2>4. ASSUME NEW x \in ToSet(requested), x.hash = h, r = [x EXCEPT !.peers = Append(@, p)]
        PROVE  FALSE
    <3>1. x \in Requests
      BY <1>1, QueueElements
    <3>2. r.hash = x.hash
      BY <2>4, <3>1 DEF Requests
    <3>3. QED
      BY <2>1, <2>4, <3>2
  <2>5. QED
    BY <1>2, <2>2, <2>3, <2>4 DEF AfterAdd
<1>4. /\ hash_msg' \in Seq(Hash) /\ Len(hash_msg') <= QueueSize /\ IsInjective(hash_msg')
  BY DEF ReceiptInv, Announced
<1>5. evicted' \subseteq Hash /\ evicted \subseteq evicted'
  <2>1. CASE Len(requested) >= QueueSize
    <3>1. Head(requested) \in Requests
      BY <1>1, <2>1, MakeRoomFacts
    <3>2. Head(requested).hash \in Hash
      BY <3>1 DEF Requests
    <3>3. evicted' = evicted \cup {Head(requested).hash}
      BY <2>1 DEF Announced
    <3>4. QED
      BY <1>1, <3>2, <3>3
  <2>2. CASE ~ (Len(requested) >= QueueSize)
    BY <1>1, <2>2 DEF Announced
  <2>3. QED
    BY <2>1, <2>2
<1>6. \A x, y : Awaits(requested, x, y) => Awaits(q, x, y) \/ y \in evicted'
  <2>1. SUFFICES ASSUME NEW x, NEW y, Awaits(requested, x, y), y \notin evicted'
                 PROVE  Awaits(q, x, y)
    OBVIOUS
  <2>2. PICK r \in ToSet(requested) : r.hash = y /\ x \in ToSet(r.peers)
    BY <2>1 DEF Awaits
  <2>3. r \in ToSet(MakeRoom(requested))
    <3>1. CASE Len(requested) >= QueueSize
      <4>1. ToSet(requested) = {Head(requested)} \cup ToSet(MakeRoom(requested))
        BY <1>1, <3>1, MakeRoomFacts
      <4>2. evicted' = evicted \cup {Head(requested).hash}
        BY <3>1 DEF Announced
      <4>3. r # Head(requested)
        BY <2>1, <2>2, <4>2
      <4>4. QED
        BY <4>1, <4>3
    <3>2. CASE ~ (Len(requested) >= QueueSize)
      BY <3>2 DEF MakeRoom
    <3>3. QED
      BY <3>1, <3>2
  <2>4. QED
    BY <1>2, <2>2, <2>3 DEF Awaits, Covers
<1>7. CASE Active(q, h)
  <2>1. requested' = q /\ timers' = timers /\ asks' = asks
    BY <1>7 DEF Announced, q
  <2>2. ASSUME NEW r \in ToSet(q)
        PROVE  Watched(r, timers)
    <3>1. CASE r.hash # h
      BY <1>3, <3>1
    <3>2. CASE r.hash = h
      <4>1. r = Request(q, h) /\ r.asked # <<>>
        BY <1>2, <1>7, <3>2, RequestFacts DEF Active
      <4>2. PICK x \in ToSet(requested) : x.hash = h
        BY <1>2, <3>2, <4>1 DEF AfterAdd
      <4>3. timers[h] > 0
        BY <1>1, <4>2 DEF Watched
      <4>4. QED
        BY <3>2, <4>1, <4>3 DEF Watched
    <3>3. QED
      BY <3>1, <3>2
  <2>3. \A a \in asks' : Awaits(requested', a[1], a[2]) \/ a[2] \in evicted'
    BY <1>1, <1>5, <1>6, <2>1
  <2>4. QED
    BY <1>1, <1>2, <1>4, <1>5, <2>1, <2>2, <2>3 DEF ReceiptInv
<1>8. CASE ~ Active(q, h)
  <2>1. RequestFullMessage(q, h, 0) /\ ~ Held(h)
    BY <1>8 DEF Announced, q
  <2>2. Request(q, h).asked = <<>> /\ Request(q, h) \in ToSet(q) /\ Request(q, h).hash = h
    BY <1>2, <1>8, RequestFacts DEF Active
  <2>3. NextPeer(q, h) # {}
    <3> DEFINE r == Request(q, h)
    <3>1. r.asked = <<>> /\ r \in ToSet(q) /\ r.hash = h
      BY <2>2
    <3> HIDE DEF r
    <3>2. r = [hash |-> h, peers |-> <<p>>, asked |-> <<>>]
      <4>1. ASSUME NEW x \in ToSet(requested), x.hash = h, r = [x EXCEPT !.peers = Append(@, p)]
            PROVE  FALSE
        <5>1. x \in Requests /\ x.asked # <<>>
          BY <1>1, QueueElements DEF Watched
        <5>2. r.asked = x.asked
          BY <4>1, <5>1 DEF Requests
        <5>3. QED
          BY <3>1, <5>1, <5>2
      <4>2. QED
        BY <1>2, <3>1, <4>1 DEF AfterAdd
    <3>3. 1 \in Unasked(r)
      BY <3>2 DEF Unasked, Contains
    <3>4. QED
      BY <1>2, <2>1, <3>3, NextPeerFacts DEF r
  <2>4. /\ requested' \in Queues /\ Len(requested') <= QueueSize
        /\ timers' \in [Hash -> Nat]
        /\ asks' \subseteq Honest \X Hash
        /\ \A r \in ToSet(requested') : Watched(r, timers')
        /\ \A a \in asks' \ asks : Awaits(requested', a[1], a[2])
        /\ \A x, y : Awaits(q, x, y) /\ (y # h \/ NextPeer(q, h) # {})
                         => Awaits(requested', x, y)
    BY <1>1, <1>2, <1>3, <2>1, RequestFullMessageKeeps
  <2>5. \A x, y : Awaits(q, x, y) => Awaits(requested', x, y)
    BY <2>3, <2>4
  <2>6. ASSUME NEW a \in asks'
        PROVE  Awaits(requested', a[1], a[2]) \/ a[2] \in evicted'
    <3>1. CASE a \in asks
      BY <1>1, <1>5, <1>6, <2>5, <3>1
    <3>2. CASE a \notin asks
      BY <2>4, <3>2
    <3>3. QED
      BY <3>1, <3>2
  <2>7. QED
    BY <1>4, <1>5, <2>4, <2>6 DEF ReceiptInv
<1>9. QED
  BY <1>7, <1>8

LEMMA TimedOutKeeps ==
  ASSUME ReceiptInv, NEW h \in Hash, TimedOut(h)
  PROVE  ReceiptInv'
<1>1. /\ requested \in Queues /\ Len(requested) <= QueueSize
      /\ timers \in [Hash -> Nat]
      /\ asks \subseteq Honest \X Hash
      /\ evicted \subseteq Hash
      /\ \A r \in ToSet(requested) : Watched(r, timers)
      /\ \A a \in asks : Awaits(requested, a[1], a[2]) \/ a[2] \in evicted
  BY DEF ReceiptInv
<1>2. /\ RequestFullMessage(requested, h, 1)
      /\ timers[h] > 0
      /\ h \in evicted \/ \A a \in asks : a[2] # h
      /\ hash_msg' = hash_msg /\ evicted' = evicted
  BY DEF TimedOut
<1>3. /\ requested' \in Queues /\ Len(requested') <= QueueSize
      /\ timers' \in [Hash -> Nat]
      /\ asks' \subseteq Honest \X Hash
      /\ \A r \in ToSet(requested') : Watched(r, timers')
      /\ \A a \in asks' \ asks : Awaits(requested', a[1], a[2])
      /\ \A x, y : Awaits(requested, x, y) /\ (y # h \/ NextPeer(requested, h) # {})
                       => Awaits(requested', x, y)
  BY <1>1, <1>2, RequestFullMessageKeeps
<1>4. ASSUME NEW a \in asks'
      PROVE  Awaits(requested', a[1], a[2]) \/ a[2] \in evicted'
  <2>1. CASE a \in asks /\ a[2] # h
    BY <1>1, <1>2, <1>3, <2>1
  <2>2. CASE a \in asks /\ a[2] = h
    BY <1>2, <2>2
  <2>3. CASE a \notin asks
    BY <1>3, <2>3
  <2>4. QED
    BY <2>1, <2>2, <2>3
<1>5. hash_msg' \in Seq(Hash) /\ Len(hash_msg') <= QueueSize /\ IsInjective(hash_msg')
  BY <1>2 DEF ReceiptInv
<1>6. QED
  BY <1>1, <1>2, <1>3, <1>4, <1>5 DEF ReceiptInv

LEMMA AnsweredKeeps ==
  ASSUME ReceiptInv, NEW p \in Peer, NEW h \in Hash, Answered(p, h)
  PROVE  ReceiptInv'
<1>1. /\ asks' \subseteq asks
      /\ UNCHANGED <<hash_msg, requested, timers, evicted>>
  BY DEF Answered
<1>2. QED
  BY <1>1 DEF ReceiptInv

(* The queue of messages that the node can hand out stays short and lists   *)
(* none twice.                                                              *)
Handouts == {q \in Seq(Hash) : Len(q) <= QueueSize /\ IsInjective(q)}

LEMMA RegisterFacts ==
  ASSUME NEW q \in Handouts, NEW h \in Hash
  PROVE  Register(q, h) \in Handouts
<1> DEFINE kept == MakeRoom(q)
<1>1. /\ q \in Seq(Hash) /\ Len(q) \in Nat /\ QueueSize \in Nat \ {0}
      /\ Len(q) <= QueueSize
      /\ \A i, j \in DOMAIN q : q[i] = q[j] => i = j
  BY ReceiptAssumption DEF Handouts, IsInjective
<1>2. /\ kept \in Seq(Hash) /\ Len(kept) < QueueSize
      /\ \A i, j \in DOMAIN kept : kept[i] = kept[j] => i = j
  <2>1. CASE Len(q) >= QueueSize
    <3>1. q # <<>> /\ kept = Tail(q)
      BY <1>1, <2>1 DEF MakeRoom
    <3>2. /\ Tail(q) \in Seq(Hash)
          /\ Len(Tail(q)) = Len(q) - 1
          /\ \A i \in DOMAIN Tail(q) : i + 1 \in DOMAIN q /\ Tail(q)[i] = q[i + 1]
      BY <1>1, <3>1, TailFacts
    <3>3. ASSUME NEW i \in DOMAIN Tail(q), NEW j \in DOMAIN Tail(q), Tail(q)[i] = Tail(q)[j]
          PROVE  i = j
      <4>1. i + 1 = j + 1
        BY <1>1, <3>2, <3>3
      <4>2. i \in Nat /\ j \in Nat
        BY <3>2
      <4>3. QED
        BY <4>1, <4>2
    <3>4. Len(Tail(q)) < QueueSize
      BY <1>1, <3>2
    <3>5. QED
      BY <3>1, <3>2, <3>3, <3>4
  <2>2. CASE ~ (Len(q) >= QueueSize)
    BY <1>1, <2>2 DEF MakeRoom
  <2>3. QED
    BY <2>1, <2>2
<1> HIDE DEF kept
<1>3. CASE Contains(kept, h)
  <2>1. Register(q, h) = kept
    BY <1>3 DEF Register, kept
  <2>2. QED
    BY <1>1, <1>2, <2>1 DEF Handouts, IsInjective
<1>4. CASE ~ Contains(kept, h)
  <2> DEFINE a == Append(kept, h)
  <2>1. Register(q, h) = a
    BY <1>4 DEF Register, kept
  <2>2. /\ a \in Seq(Hash)
        /\ Len(a) = Len(kept) + 1
        /\ \A i \in DOMAIN kept : i \in DOMAIN a /\ a[i] = kept[i]
        /\ a[Len(kept) + 1] = h
    BY <1>2, AppendElements
  <2> HIDE DEF a
  <2>3. \A i \in DOMAIN kept : kept[i] # h
    BY <1>2, <1>4 DEF Contains
  <2>4. \A i \in DOMAIN a : i \in DOMAIN kept \/ i = Len(kept) + 1
    BY <1>2, <2>2
  <2>5. \A i, j \in DOMAIN a : a[i] = a[j] => i = j
    BY <1>2, <2>2, <2>3, <2>4
  <2>6. Len(a) <= QueueSize
    BY <1>1, <1>2, <2>2
  <2>7. QED
    BY <2>1, <2>2, <2>5, <2>6 DEF Handouts, IsInjective
<1>5. QED
  BY <1>3, <1>4

LEMMA RegisterAllFacts ==
  ASSUME NEW q \in Handouts, NEW s \in Seq(Hash)
  PROVE  RegisterAll(q, s) \in Handouts
<1> DEFINE n == Len(s)
           F == [i \in 1 .. n |-> [x \in Handouts |-> Register(x, s[i])]]
           Def(f) == [i \in 0 .. n |-> IF i = 0 THEN q ELSE Register(f[i - 1], s[i])]
           f == CHOOSE f : f = Def(f)
<1>1. n \in Nat /\ \A i \in 1 .. n : s[i] \in Hash
  OBVIOUS
<1>2. F \in [1 .. n -> [Handouts -> Handouts]]
  BY <1>1, RegisterFacts
<1>3. PICK g : Solves(g, n, q, F, Handouts)
  <2> HIDE DEF F, n
  <2>1. QED
    BY <1>1, <1>2, Solution
<1>4. g = Def(g)
  <2>1. g \in [0 .. n -> Handouts] /\ g[0] = q /\ \A i \in 1 .. n : g[i] = F[i][g[i - 1]]
    BY <1>3 DEF Solves
  <2>2. ASSUME NEW i \in 1 .. n
        PROVE  g[i] = Register(g[i - 1], s[i])
    <3>1. i - 1 \in 0 .. n
      BY <1>1
    <3>2. g[i - 1] \in Handouts
      BY <2>1, <3>1
    <3>3. QED
      BY <2>1, <3>2
  <2> HIDE DEF n, F
  <2>3. \A i \in 0 .. n : i = 0 \/ i \in 1 .. n
    BY <1>1
  <2>4. QED
    BY <2>1, <2>2, <2>3
<1>5. f = Def(f)
  <2> HIDE DEF Def
  <2>1. QED
    BY <1>4
<1>6. \A i \in 0 .. n : f[i] \in Handouts
  <2> HIDE DEF f
  <2>1. f[0] = q
    BY <1>1, <1>5
  <2>2. ASSUME NEW i \in 1 .. n, f[i - 1] \in Handouts
        PROVE  f[i] \in Handouts
    <3>1. f[i] = Register(f[i - 1], s[i])
      BY <1>1, <1>5
    <3>2. QED
      BY <1>1, <2>2, <3>1, RegisterFacts
  <2> HIDE DEF n
  <2>3. QED
    BY <1>1, <2>1, <2>2, UpTo
<1>7. RegisterAll(q, s) = f[n]
  BY DEF RegisterAll
<1>8. QED
  <2> HIDE DEF f, n
  <2>1. n \in 0 .. n
    BY <1>1
  <2>2. QED
    BY <1>6, <1>7, <2>1

LEMMA BroadcastKeeps ==
  ASSUME ReceiptInv, NEW s \in Seq(Hash), Broadcast(s)
  PROVE  ReceiptInv'
<1>1. hash_msg \in Handouts
  BY DEF ReceiptInv, Handouts
<1>2. hash_msg' \in Handouts /\ UNCHANGED <<requested, timers, asks, evicted>>
  BY <1>1, RegisterAllFacts DEF Broadcast
<1>3. QED
  BY <1>2 DEF ReceiptInv, Handouts

LEMMA ReceiptUnchanged ==
  ASSUME ReceiptInv, UNCHANGED receiptVars
  PROVE  ReceiptInv'
BY DEF ReceiptInv, receiptVars

-----------------------------------------------------------------------------
(* The invariant of the pool                                                *)

(* A transaction has a copy in the heap for its hash and one for the        *)
(* submission that is about to enter it.                                    *)
Entering(t) == api.at = "pushed" /\ api.tx = t

Copies(t) ==
  /\ t \in pendingHash \/ Entering(t) => pending[t] >= 1
  /\ t \in pendingHash /\ Entering(t) => pending[t] >= 2

Scheduled ==
  /\ pendingHash # {} => Serving \/ api.at = "hashed" \/ deserted
  /\ running => processors > 0
  /\ api.at = "created" => processors > 0

(* A step in progress has its processor and its transaction.                *)
StepsOwned ==
  /\ tick.at # "idle" => processors > 0
  /\ tick.at = "popped" => tick.tx \in Tx
  /\ api.at \in {"checked", "pushed", "hashed"} => api.tx \in Tx

PoolInv ==
  /\ PoolTypeOK
  /\ StepsOwned
  /\ failed \/ \A t \in Tx : Copies(t)
  /\ raced \/ Scheduled

LEMMA PoolInitInv == PoolInit => PoolInv
<1> SUFFICES ASSUME PoolInit PROVE PoolInv
  OBVIOUS
<1>1. PoolTypeOK
  <2>1. {PoolSize, MaxHeight, MaxApi} \subseteq Nat
    BY PoolAssumption
  <2>2. pool \in Seq(PoolEntries) /\ Len(pool) <= PoolSize
    BY <2>1 DEF PoolInit
  <2>3. pending \in [Tx -> Nat] /\ pendingHash \subseteq Tx /\ processors \in Nat
    BY DEF PoolInit
  <2>4. /\ tick \in [at : {"idle", "popped", "ending"}, tx : Tx \cup {NoTx}]
        /\ api \in [at : {"idle", "checked", "pushed", "hashed", "created"},
                    tx : Tx \cup {NoTx}, done : 0 .. MaxApi]
    BY <2>1 DEF PoolInit
  <2>5. mined \subseteq Tx /\ height \in 0 .. MaxHeight
    BY <2>1 DEF PoolInit
  <2>6. running \in BOOLEAN /\ failed \in BOOLEAN /\ deserted \in BOOLEAN /\ raced \in BOOLEAN
    BY DEF PoolInit
  <2>7. QED
    BY <2>2, <2>3, <2>4, <2>5, <2>6 DEF PoolTypeOK
<1>2. StepsOwned /\ \A t \in Tx : Copies(t)
  BY DEF PoolInit, StepsOwned, Copies, Entering
<1>3. Scheduled
  BY DEF PoolInit, Scheduled, Serving
<1>4. QED
  BY <1>1, <1>2, <1>3 DEF PoolInv

LEMMA AddUnprocessedKeeps ==
  ASSUME PoolInv, NEW t \in Tx, Idle, AddUnprocessed(t)
  PROVE  PoolInv'
<1>1. CASE ~ Acceptable(t)
  BY <1>1 DEF AddUnprocessed, PoolInv, PoolTypeOK, StepsOwned, Copies, Entering, Scheduled,
              Serving
<1>2. CASE Acceptable(t)
  <2>1. /\ pending' = [pending EXCEPT ![t] = @ + 1]
        /\ pendingHash' = pendingHash \cup {t}
        /\ processors' = processors + Start
        /\ running' = TRUE
        /\ t \notin pendingHash
        /\ UNCHANGED <<pool, tick, api, mined, height, failed, raced>>
    BY <1>2 DEF AddUnprocessed, Acceptable
  <2>2. Start \in Nat /\ (~ running => Start = 1)
    BY DEF Start
  <2>0. deserted' \in BOOLEAN
    <3>1. deserted' = (deserted /\ running)
      BY <1>2 DEF AddUnprocessed
    <3>2. QED
      BY <3>1, Zenon
  <2>3. PoolTypeOK'
    BY <2>0, <2>1, <2>2 DEF PoolInv, PoolTypeOK
  <2>4. StepsOwned'
    BY <2>1, <2>2 DEF PoolInv, PoolTypeOK, StepsOwned
  <2>5. ASSUME ~ failed', NEW u \in Tx
        PROVE  Copies(u)'
    BY <2>1, <2>5 DEF PoolInv, PoolTypeOK, Copies, Entering
  <2>6. ASSUME ~ raced'
        PROVE  Scheduled'
    BY <2>1, <2>2, <2>6 DEF PoolInv, PoolTypeOK, Scheduled, Serving, Idle
  <2>7. QED
    BY <2>3, <2>4, <2>5, <2>6 DEF PoolInv
<1>3. QED
  BY <1>1, <1>2

LEMMA ApiKeeps ==
  ASSUME PoolInv,
         \/ \E t \in ApiTx : ApiCheck(t)
         \/ ApiPush \/ ApiHash \/ ApiStart \/ ApiFlag
  PROVE  PoolInv'
<1>1. ASSUME NEW t \in ApiTx, ApiCheck(t)
      PROVE  PoolInv'
  <2>1. t \in Tx /\ MaxApi \in Nat
    BY PoolAssumption
  <2>2. QED
    BY <1>1, <2>1
       DEF ApiCheck, PoolInv, PoolTypeOK, StepsOwned, Copies, Entering, Scheduled, Serving
<1>2. CASE ApiPush
  <2>1. api.tx \in Tx
    BY <1>2 DEF ApiPush, PoolInv, StepsOwned
  <2>2. PoolTypeOK' /\ StepsOwned'
    BY SMTT(60), <1>2, <2>1 DEF ApiPush, PoolInv, PoolTypeOK, StepsOwned
  <2>3. ASSUME ~ failed', NEW u \in Tx
        PROVE  Copies(u)'
    BY <1>2, <2>1, <2>3 DEF ApiPush, PoolInv, PoolTypeOK, Copies, Entering
  <2>4. ASSUME ~ raced'
        PROVE  Scheduled'
    BY <1>2, <2>4 DEF ApiPush, PoolInv, PoolTypeOK, Scheduled, Serving
  <2>5. QED
    BY <2>2, <2>3, <2>4 DEF PoolInv
<1>3. CASE ApiHash
  <2>1. api.tx \in Tx
    BY <1>3 DEF ApiHash, PoolInv, StepsOwned
  <2>2. PoolTypeOK' /\ StepsOwned'
    BY <1>3, <2>1 DEF ApiHash, PoolInv, PoolTypeOK, StepsOwned
  <2>3. ASSUME ~ failed', NEW u \in Tx
        PROVE  Copies(u)'
    BY <1>3, <2>1, <2>3 DEF ApiHash, PoolInv, PoolTypeOK, Copies, Entering
  <2>4. ASSUME ~ raced'
        PROVE  Scheduled'
    BY <1>3, <2>4 DEF ApiHash, PoolInv, PoolTypeOK, Scheduled, Serving
  <2>5. QED
    BY <2>2, <2>3, <2>4 DEF PoolInv
<1>4. CASE ApiStart
  <2>1. deserted' \in BOOLEAN
    <3>1. CASE running
      <4>1. deserted' = (deserted \/ (tick.at = "ending" /\ processors = 1))
        BY <1>4, <3>1 DEF ApiStart
      <4>2. QED
        BY <4>1, TruthValue
    <3>2. CASE ~ running
      BY <1>4, <3>2 DEF ApiStart
    <3>3. QED
      BY <3>1, <3>2
  <2>2. PoolTypeOK' /\ StepsOwned'
    <3>1. /\ processors' \in Nat /\ processors' >= processors
          /\ api' \in [at : {"idle", "checked", "pushed", "hashed", "created"},
                      tx : Tx \cup {NoTx}, done : 0 .. MaxApi]
          /\ api'.at \in {"idle", "created"}
      <4>1. /\ processors \in Nat
            /\ api \in [at : {"idle", "checked", "pushed", "hashed", "created"},
                        tx : Tx \cup {NoTx}, done : 0 .. MaxApi]
        BY DEF PoolInv, PoolTypeOK
      <4>2. CASE running
        <5>1. processors' = processors /\ api' = [api EXCEPT !.at = "idle", !.tx = NoTx]
          BY <1>4, <4>2 DEF ApiStart
        <5>2. processors' \in Nat /\ processors' >= processors
          BY <4>1, <5>1
        <5>3. QED
          BY <4>1, <5>1, <5>2
      <4>3. CASE ~ running
        <5>1. processors' = processors + 1 /\ api' = [api EXCEPT !.at = "created"]
          BY <1>4, <4>3 DEF ApiStart
        <5>2. processors' \in Nat /\ processors' >= processors
          BY <4>1, <5>1
        <5>3. QED
          BY <4>1, <5>1, <5>2
      <4>4. QED
        BY <4>2, <4>3
    <3>2. UNCHANGED <<pending, pendingHash, pool, running, tick, mined, height, failed, raced>>
      BY <1>4 DEF ApiStart
    <3>3. QED
      BY <2>1, <3>1, <3>2 DEF PoolInv, PoolTypeOK, StepsOwned
  <2>3. ASSUME ~ failed', NEW u \in Tx
        PROVE  Copies(u)'
    BY <1>4, <2>3 DEF ApiStart, PoolInv, PoolTypeOK, Copies, Entering
  <2>4. ASSUME ~ raced'
        PROVE  Scheduled'
    <3>1. Scheduled /\ processors \in Nat
      BY <1>4, <2>4 DEF ApiStart, PoolInv, PoolTypeOK
    <3>2. CASE running
      <4>1. tick.at = "ending" /\ processors = 1 => deserted'
        BY <1>4, <3>2, Zenon DEF ApiStart
      <4>2. CASE deserted'
        BY <1>4, <3>1, <3>2, <4>2 DEF ApiStart, Scheduled
      <4>3. CASE ~ (tick.at = "ending" /\ processors = 1)
        BY <1>4, <3>1, <3>2, <4>3 DEF ApiStart, PoolInv, PoolTypeOK, Scheduled, Serving
      <4>4. QED
        BY <4>1, <4>2, <4>3
    <3>3. CASE ~ running
      BY <1>4, <2>4, <3>1, <3>3 DEF ApiStart, PoolInv, PoolTypeOK, Scheduled, Serving, StepsOwned
    <3>4. QED
      BY <3>2, <3>3
  <2>5. QED
    BY <2>2, <2>3, <2>4 DEF PoolInv
<1>5. CASE ApiFlag
  <2>2. PoolTypeOK' /\ StepsOwned'
    BY <1>5 DEF ApiFlag, PoolInv, PoolTypeOK, StepsOwned
  <2>3. ASSUME ~ failed', NEW u \in Tx
        PROVE  Copies(u)'
    BY <1>5, <2>3 DEF ApiFlag, PoolInv, PoolTypeOK, Copies, Entering
  <2>4. ASSUME ~ raced'
        PROVE  Scheduled'
    BY <1>5, <2>4 DEF ApiFlag, PoolInv, PoolTypeOK, Scheduled, Serving
  <2>5. QED
    BY <2>2, <2>3, <2>4 DEF PoolInv
<1>6. QED
  BY <1>1, <1>2, <1>3, <1>4, <1>5

(* An exception is noted when it ends the only processor.                   *)
LEMMA RaiseFacts ==
  ASSUME PoolInv, Raise
  PROVE  /\ tick' = [at |-> "ending", tx |-> NoTx]
         /\ deserted' \in BOOLEAN
         /\ processors = 1 => deserted'
<1>1. tick' = [at |-> "ending", tx |-> NoTx] /\ deserted' = (deserted \/ processors = 1)
  BY DEF Raise
<1>2. deserted' \in BOOLEAN
  BY <1>1, TruthValue
<1>3. processors = 1 => deserted'
  BY <1>1, Zenon
<1>4. QED
  BY <1>1, <1>2, <1>3

LEMMA ProcRaisesKeeps ==
  ASSUME PoolInv, ProcRaises
  PROVE  PoolInv'
<1>1. /\ tick.at = "popped"
      /\ UNCHANGED <<pending, pendingHash, pool, running, processors, api, mined, height,
                     failed, raced>>
  BY DEF ProcRaises
<1>2. /\ tick' = [at |-> "ending", tx |-> NoTx]
      /\ deserted' \in BOOLEAN
      /\ processors = 1 => deserted'
  BY RaiseFacts DEF ProcRaises
<1>3. PoolTypeOK' /\ StepsOwned'
  BY <1>1, <1>2 DEF PoolInv, PoolTypeOK, StepsOwned
<1>4. ASSUME ~ failed', NEW u \in Tx
      PROVE  Copies(u)'
  BY <1>1, <1>4 DEF PoolInv, PoolTypeOK, Copies, Entering
<1>5. ASSUME ~ raced'
      PROVE  Scheduled'
  <2>1. Scheduled /\ processors \in Nat \ {0}
    BY <1>1, <1>5 DEF PoolInv, PoolTypeOK, StepsOwned
  <2>2. processors > 1 => Serving'
    BY <1>1, <1>2, <2>1 DEF Serving
  <2>3. processors = 1 \/ processors > 1
    BY <2>1
  <2>4. QED
    BY <1>1, <1>2, <2>1, <2>2, <2>3 DEF Scheduled
<1>6. QED
  BY <1>3, <1>4, <1>5 DEF PoolInv

LEMMA ProcPopKeeps ==
  ASSUME PoolInv, ProcPop
  PROVE  PoolInv'
<1>1. /\ Idle /\ processors > 0 /\ processors \in Nat
      /\ UNCHANGED <<pool, running, processors, api, mined, height, raced>>
  BY DEF ProcPop, PoolInv, PoolTypeOK
<1>2. CASE pendingHash = {}
  <2>1. /\ tick' = [at |-> "ending", tx |-> NoTx]
        /\ UNCHANGED <<pending, pendingHash, failed, deserted>>
    BY <1>2 DEF ProcPop
  <2>2. PoolTypeOK' /\ StepsOwned'
    BY <1>1, <2>1 DEF PoolInv, PoolTypeOK, StepsOwned
  <2>3. ASSUME ~ failed', NEW u \in Tx
        PROVE  Copies(u)'
    BY <1>1, <2>1, <2>3 DEF PoolInv, PoolTypeOK, Copies, Entering
  <2>4. ASSUME ~ raced'
        PROVE  Scheduled'
    BY <1>1, <1>2, <2>1, <2>4 DEF PoolInv, PoolTypeOK, Scheduled, Serving
  <2>5. QED
    BY <2>2, <2>3, <2>4 DEF PoolInv
<1>3. ASSUME Raise, failed' = TRUE, pending' \in [Tx -> Nat], pendingHash' \subseteq Tx
      PROVE  PoolInv'
  <2>1. /\ tick' = [at |-> "ending", tx |-> NoTx]
        /\ deserted' \in BOOLEAN
        /\ processors = 1 => deserted'
    BY <1>3, RaiseFacts
  <2>2. PoolTypeOK' /\ StepsOwned'
    BY <1>1, <1>3, <2>1 DEF PoolInv, PoolTypeOK, StepsOwned
  <2>3. ASSUME ~ raced'
        PROVE  Scheduled'
    <3>1. Scheduled
      BY <1>1, <2>3 DEF PoolInv
    <3>2. processors > 1 => Serving'
      BY <1>1, <2>1 DEF Serving
    <3>3. processors = 1 \/ processors > 1
      BY <1>1
    <3>4. QED
      BY <1>1, <2>1, <3>1, <3>2, <3>3 DEF Scheduled
  <2>4. QED
    BY <1>3, <2>2, <2>3 DEF PoolInv
<1>4. ASSUME NEW t \in First,
             pending' = [pending EXCEPT ![t] = @ - 1],
             pendingHash' = pendingHash \ {t},
             IF t \in pendingHash
             THEN tick' = [at |-> "popped", tx |-> t] /\ UNCHANGED <<failed, deserted>>
             ELSE Raise /\ failed' = TRUE
      PROVE  PoolInv'
  <2>1. t \in Tx /\ pending[t] > 0
    BY DEF First, Queued
  <2>2. pending' \in [Tx -> Nat]
    BY <1>4, <2>1 DEF PoolInv, PoolTypeOK
  <2>3. pendingHash' \subseteq Tx
    BY <1>4 DEF PoolInv, PoolTypeOK
  <2>4. CASE t \notin pendingHash
    BY <1>3, <1>4, <2>2, <2>3, <2>4
  <2>5. CASE t \in pendingHash
    <3>1. tick' = [at |-> "popped", tx |-> t] /\ UNCHANGED <<failed, deserted>>
      BY <1>4, <2>5
    <3>2. PoolTypeOK' /\ StepsOwned'
      BY <1>1, <2>1, <2>2, <2>3, <3>1 DEF PoolInv, PoolTypeOK, StepsOwned
    <3>3. ASSUME ~ failed', NEW u \in Tx
          PROVE  Copies(u)'
      <4>1. ~ failed /\ Copies(u) /\ Copies(t)
        BY <2>1, <3>1, <3>3 DEF PoolInv, PoolTypeOK
      <4>2. pending \in [Tx -> Nat]
        BY DEF PoolInv, PoolTypeOK
      <4>3. CASE u = t
        BY <1>1, <1>4, <2>5, <4>1, <4>2, <4>3 DEF Copies, Entering
      <4>4. CASE u # t
        BY <1>1, <1>4, <4>1, <4>2, <4>4 DEF Copies, Entering
      <4>5. QED
        BY <4>3, <4>4
    <3>4. ASSUME ~ raced'
          PROVE  Scheduled'
      BY <1>1, <3>1, <3>4 DEF PoolInv, PoolTypeOK, Scheduled, Serving
    <3>5. QED
      BY <3>2, <3>3, <3>4 DEF PoolInv
  <2>6. QED
    BY <2>4, <2>5
<1>5. CASE pendingHash # {}
  <2>1. pending \in [Tx -> Nat] /\ pendingHash \subseteq Tx
    BY DEF PoolInv, PoolTypeOK
  <2>2. CASE Raise /\ failed' = TRUE /\ UNCHANGED <<pending, pendingHash>>
    BY <1>3, <2>1, <2>2
  <2>3. QED
    BY <1>4, <1>5, <2>2 DEF ProcPop, Unhash
<1>6. QED
  BY <1>2, <1>5

LEMMA ProcFinishKeeps ==
  ASSUME PoolInv, ProcFinish
  PROVE  PoolInv'
<1>1. pool \in Seq(PoolEntries) /\ Len(pool) <= PoolSize /\ PoolSize \in Nat
  BY PoolAssumption DEF PoolInv, PoolTypeOK
<1>2. [tx |-> tick.tx, block_number |-> height] \in PoolEntries
  BY DEF PoolInv, PoolTypeOK, StepsOwned, ProcFinish, PoolEntries
<1>3. pool' \in Seq(PoolEntries) /\ Len(pool') <= PoolSize
  <2>1. CASE Passes(tick.tx) /\ Len(pool) < PoolSize
    <3>1. pool' = Append(pool, [tx |-> tick.tx, block_number |-> height])
      BY <2>1 DEF ProcFinish
    <3>2. QED
      BY <1>1, <1>2, <2>1, <3>1, AppendElements
  <2>2. CASE ~ (Passes(tick.tx) /\ Len(pool) < PoolSize)
    BY <1>1, <2>2 DEF ProcFinish
  <2>3. QED
    BY <2>1, <2>2
<1>4. /\ tick.at = "popped"
      /\ tick' = [at |-> "idle", tx |-> NoTx]
      /\ UNCHANGED <<pending, pendingHash, running, processors, api, mined, height, failed,
                     deserted, raced>>
  BY DEF ProcFinish
<1>5. PoolTypeOK' /\ StepsOwned'
  BY <1>3, <1>4 DEF PoolInv, PoolTypeOK, StepsOwned
<1>6. ASSUME ~ failed', NEW u \in Tx
      PROVE  Copies(u)'
  BY <1>4, <1>6 DEF PoolInv, PoolTypeOK, Copies, Entering
<1>7. ASSUME ~ raced'
      PROVE  Scheduled'
  BY <1>4, <1>7 DEF PoolInv, PoolTypeOK, Scheduled, Serving
<1>8. QED
  BY <1>5, <1>6, <1>7 DEF PoolInv

LEMMA ProcEndKeeps ==
  ASSUME PoolInv, ProcEnd
  PROVE  PoolInv'
<1>1. /\ tick.at = "ending"
      /\ processors' = processors - 1
      /\ running' = FALSE
      /\ tick' = [at |-> "idle", tx |-> NoTx]
      /\ UNCHANGED <<pending, pendingHash, pool, api, mined, height, failed, deserted>>
  BY DEF ProcEnd
<1>0. raced' = (raced \/ (api.at = "created" /\ processors = 1))
  BY DEF ProcEnd
<1>2. processors \in Nat \ {0}
  BY <1>1 DEF PoolInv, PoolTypeOK, StepsOwned
<1>3. PoolTypeOK' /\ StepsOwned'
  <2>1. raced' \in BOOLEAN
    BY <1>0, TruthValue
  <2>2. /\ processors' \in Nat
        /\ tick' \in [at : {"idle", "popped", "ending"}, tx : Tx \cup {NoTx}]
        /\ tick'.at = "idle"
        /\ UNCHANGED <<pending, pendingHash, pool, api, mined, height, failed, deserted>>
    <3>1. processors' \in Nat
      BY <1>1, <1>2
    <3>2. QED
      BY <1>1, <3>1
  <2>5. running' \in BOOLEAN
    BY <1>1
  <2>3. StepsOwned'
    BY <2>2 DEF PoolInv, StepsOwned
  <2>4. PoolTypeOK
    BY DEF PoolInv
  <2>6. PoolTypeOK'
    BY <2>1, <2>2, <2>4, <2>5 DEF PoolTypeOK
  <2>7. QED
    BY <2>3, <2>6
<1>4. ASSUME ~ failed', NEW u \in Tx
      PROVE  Copies(u)'
  BY <1>1, <1>4 DEF PoolInv, PoolTypeOK, Copies, Entering
<1>5. ASSUME ~ raced'
      PROVE  Scheduled'
  <2>1. ~ raced /\ ~ (api.at = "created" /\ processors = 1)
    BY <1>0, <1>1, <1>5 DEF PoolInv, PoolTypeOK
  <2>2. Scheduled
    BY <2>1 DEF PoolInv
  <2>3. QED
    BY <1>1, <1>2, <2>1, <2>2 DEF Scheduled, Serving
<1>6. QED
  BY <1>3, <1>4, <1>5 DEF PoolInv

(* What is picked from a sequence is a sequence, no longer than it.         *)
LEMMA PickFacts ==
  ASSUME NEW S, NEW q \in Seq(S), NEW I
  PROVE  Pick(q, I) \in Seq(S) /\ Len(Pick(q, I)) <= Len(q)
<1> DEFINE n == Len(q)
           F == [i \in 1 .. n |-> [x \in Seq(S) |-> IF i \in I THEN Append(x, q[i]) ELSE x]]
           Def(f) == [i \in 0 .. n |-> IF i = 0 THEN <<>>
                                       ELSE IF i \in I THEN Append(f[i - 1], q[i]) ELSE f[i - 1]]
           f == CHOOSE f : f = Def(f)
<1>1. n \in Nat /\ (\A i \in 1 .. n : q[i] \in S) /\ <<>> \in Seq(S)
  OBVIOUS
<1>2. F \in [1 .. n -> [Seq(S) -> Seq(S)]]
  BY <1>1
<1>3. PICK g : Solves(g, n, <<>>, F, Seq(S))
  <2> HIDE DEF F, n
  <2>1. QED
    BY <1>1, <1>2, Solution
<1>4. g = Def(g)
  <2>1. g \in [0 .. n -> Seq(S)] /\ g[0] = <<>> /\ \A i \in 1 .. n : g[i] = F[i][g[i - 1]]
    BY <1>3 DEF Solves
  <2>2. ASSUME NEW i \in 1 .. n
        PROVE  g[i] = IF i \in I THEN Append(g[i - 1], q[i]) ELSE g[i - 1]
    <3>1. i - 1 \in 0 .. n
      BY <1>1
    <3>2. g[i - 1] \in Seq(S)
      BY <2>1, <3>1
    <3>3. QED
      BY <2>1, <3>2
  <2> HIDE DEF n, F
  <2>3. \A i \in 0 .. n : i = 0 \/ i \in 1 .. n
    BY <1>1
  <2>4. QED
    BY <2>1, <2>2, <2>3
<1>5. f = Def(f)
  <2> HIDE DEF Def
  <2>1. QED
    BY <1>4
<1> DEFINE h == [i \in 0 .. n |-> <<f[i], i>>]
           Short == {p \in Seq(S) \X Nat : Len(p[1]) <= p[2]}
<1>6. \A i \in 0 .. n : h[i] \in Short
  <2> HIDE DEF f
  <2>0. \A i \in 0 .. n : f[i] = IF i = 0 THEN <<>>
                                ELSE IF i \in I THEN Append(f[i - 1], q[i]) ELSE f[i - 1]
    BY <1>5
  <2>1. h[0] \in Short
    <3>1. 0 \in 0 .. n
      BY <1>1
    <3>2. h[0] = << <<>>, 0 >>
      <4> HIDE DEF n
      <4>1. f[0] = <<>>
        BY <2>0, <3>1
      <4>2. QED
        BY <3>1, <4>1
    <3>3. Len(<<>>) = 0
      OBVIOUS
    <3>4. << <<>>, 0 >> \in Short
      <4> HIDE DEF h, n
      <4>1. \A x \in Seq(S), k \in Nat : Len(x) <= k => <<x, k>> \in Short
        BY DEF Short
      <4>2. <<>> \in Seq(S) /\ Len(<<>>) <= 0 /\ 0 \in Nat
        BY <1>1, <3>3
      <4>3. QED
        BY <4>1, <4>2, Zenon
    <3>5. QED
      BY <3>2, <3>4
  <2>2. ASSUME NEW i \in 1 .. n, h[i - 1] \in Short
        PROVE  h[i] \in Short
    <3>0. i - 1 \in 0 .. n /\ i \in 0 .. n /\ i \in Nat /\ i - 1 \in Nat /\ i # 0
      BY <1>1
    <3>1. /\ f[i] = IF i \in I THEN Append(f[i - 1], q[i]) ELSE f[i - 1]
          /\ i - 1 \in 0 .. n /\ i \in 0 .. n /\ i \in Nat /\ i - 1 \in Nat
      BY <2>0, <3>0
    <3>2. f[i - 1] \in Seq(S) /\ Len(f[i - 1]) <= i - 1 /\ Len(f[i - 1]) \in Nat
      BY <2>2, <3>1
    <3>3. f[i] \in Seq(S) /\ Len(f[i]) <= i
      <4>1. CASE i \in I
        <5>1. f[i] = Append(f[i - 1], q[i]) /\ q[i] \in S
          BY <1>1, <3>1, <4>1
        <5>2. Len(f[i]) = Len(f[i - 1]) + 1 /\ f[i] \in Seq(S)
          BY <3>2, <5>1, AppendElements
        <5>3. QED
          BY <3>1, <3>2, <5>2
      <4>2. CASE i \notin I
        BY <3>1, <3>2, <4>2
      <4>3. QED
        BY <4>1, <4>2
    <3>4. QED
      BY <3>1, <3>3
  <2> HIDE DEF h, Short, n
  <2>3. QED
    BY <1>1, <2>1, <2>2, UpTo
<1>7. Pick(q, I) = f[n]
  BY DEF Pick
<1>8. QED
  <2> HIDE DEF f
  <2>1. n \in 0 .. n
    BY <1>1
  <2>2. <<f[n], n>> \in Short
    BY <1>6, <2>1
  <2>3. QED
    BY <1>7, <2>2

LEMMA RenewedFacts ==
  ASSUME NEW q \in Seq(PoolEntries), height \in Nat, height < MaxHeight
  PROVE  Renewed(q) \in Seq(PoolEntries) /\ Len(Renewed(q)) = Len(q)
<1>1. MaxHeight \in Nat /\ height + 1 \in 0 .. MaxHeight
  BY PoolAssumption
<1>2. \A e \in PoolEntries : [e EXCEPT !.block_number = height + 1] \in PoolEntries
  BY <1>1 DEF PoolEntries
<1>3. \A i \in DOMAIN q : q[i] \in PoolEntries
  OBVIOUS
<1>4. QED
  BY <1>2, <1>3 DEF Renewed

LEMMA BlockAddedKeeps ==
  ASSUME PoolInv, NEW B \in Blocks, BlockAdded(B)
  PROVE  PoolInv'
<1>1. pool \in Seq(PoolEntries) /\ Len(pool) <= PoolSize /\ PoolSize \in Nat /\ height \in Nat
  BY PoolAssumption DEF PoolInv, PoolTypeOK
<1>2. /\ height < MaxHeight
      /\ mined' = mined \cup B
      /\ height' = height + 1
      /\ pool' = Renewed(Kept(RemoveInBlock(B), mined'))
      /\ UNCHANGED <<pending, pendingHash, running, processors, tick, api, failed, deserted, raced>>
  BY DEF BlockAdded
<1> DEFINE q == RemoveInBlock(B)
           r == Kept(q, mined')
<1>3. q \in Seq(PoolEntries) /\ Len(q) <= Len(pool)
  BY <1>1, PickFacts DEF RemoveInBlock
<1> HIDE DEF q
<1>4. r \in Seq(PoolEntries) /\ Len(r) <= Len(q)
  BY <1>3, PickFacts DEF Kept
<1> HIDE DEF r
<1>5. pool' \in Seq(PoolEntries) /\ Len(pool') = Len(r)
  BY <1>1, <1>2, <1>4, RenewedFacts DEF r, q
<1>6. Len(pool') <= PoolSize
  <2>1. Len(pool) \in Nat /\ Len(q) \in Nat /\ Len(r) \in Nat
    BY <1>1, <1>3, <1>4
  <2>2. QED
    BY <1>1, <1>3, <1>4, <1>5, <2>1
<1>7. mined' \subseteq Tx /\ height' \in 0 .. MaxHeight
  BY SMTT(60), <1>1, <1>2, PoolAssumption DEF PoolInv, PoolTypeOK, Blocks
<1>8. PoolTypeOK' /\ StepsOwned'
  BY <1>2, <1>5, <1>6, <1>7 DEF PoolInv, PoolTypeOK, StepsOwned
<1>9. ASSUME ~ failed', NEW u \in Tx
      PROVE  Copies(u)'
  BY <1>2, <1>9 DEF PoolInv, PoolTypeOK, Copies, Entering
<1>10. ASSUME ~ raced'
      PROVE  Scheduled'
  BY <1>2, <1>10 DEF PoolInv, PoolTypeOK, Scheduled, Serving
<1>11. QED
  BY <1>8, <1>9, <1>10 DEF PoolInv

LEMMA PoolUnchanged ==
  ASSUME PoolInv, UNCHANGED poolVars
  PROVE  PoolInv'
BY DEF PoolInv, poolVars, PoolTypeOK, StepsOwned, Copies, Entering, Scheduled, Serving

-----------------------------------------------------------------------------
(* The relay                                                                *)

RelayInv == PoolInv /\ ReceiptInv

LEMMA ReceiptInitInv == ReceiptInit => ReceiptInv
<1> SUFFICES ASSUME ReceiptInit PROVE ReceiptInv
  OBVIOUS
<1>1. QueueSize \in Nat
  BY ReceiptAssumption
<1>2. /\ hash_msg = <<>> /\ requested = <<>>
      /\ timers = [h \in Hash |-> 0] /\ asks = {} /\ evicted = {}
  BY DEF ReceiptInit
<1>3. hash_msg \in Seq(Hash) /\ Len(hash_msg) <= QueueSize /\ IsInjective(hash_msg)
  BY <1>1, <1>2 DEF IsInjective
<1>4. requested \in Seq(Requests) /\ Len(requested) <= QueueSize /\ OneEach(requested)
  BY <1>1, <1>2 DEF OneEach
<1>5. ToSet(requested) = {}
  BY <1>2 DEF ToSet
<1>6. QED
  BY <1>2, <1>3, <1>4, <1>5 DEF ReceiptInv, Queues

LEMMA RelayInitInv == Init => RelayInv
BY PoolInitInv, ReceiptInitInv DEF Init, RelayInv

LEMMA ProcessorStepKeeps ==
  ASSUME RelayInv, ProcessorStep
  PROVE  RelayInv'
<1>1. PoolInv /\ ReceiptInv /\ Hash = Tx
  BY RelayAssumption DEF RelayInv
<1>2. CASE (ProcPop \/ ProcRaises \/ ProcEnd) /\ UNCHANGED receiptVars
  BY <1>1, <1>2, ProcPopKeeps, ProcRaisesKeeps, ProcEndKeeps, ReceiptUnchanged DEF RelayInv
<1>3. ASSUME ProcFinish, Broadcast(IF Passes(tick.tx) THEN <<tick.tx>> ELSE <<>>)
      PROVE  RelayInv'
  <2> DEFINE s == IF Passes(tick.tx) THEN <<tick.tx>> ELSE <<>>
  <2>1. tick.tx \in Tx
    BY <1>1, <1>3 DEF PoolInv, StepsOwned, ProcFinish
  <2>2. s \in Seq(Hash)
    BY <1>1, <2>1
  <2>3. Broadcast(s)
    BY <1>3
  <2> HIDE DEF s
  <2>4. QED
    BY <1>1, <1>3, <2>2, <2>3, ProcFinishKeeps, BroadcastKeeps DEF RelayInv
<1>4. QED
  BY <1>2, <1>3 DEF ProcessorStep

LEMMA NewBlockKeeps ==
  ASSUME RelayInv, NEW B \in Blocks, NewBlock(B)
  PROVE  RelayInv'
<1>1. PoolInv /\ ReceiptInv /\ Hash = Tx
  BY RelayAssumption DEF RelayInv
<1> DEFINE r == RemoveInBlock(B)
           q == Rebroadcast(r, mined \cup B)
           s == [i \in DOMAIN q |-> q[i].tx]
<1>2. BlockAdded(B) /\ Broadcast(s)
  BY DEF NewBlock
<1>3. r \in Seq(PoolEntries)
  BY <1>1, PickFacts DEF RemoveInBlock, PoolInv, PoolTypeOK
<1> HIDE DEF r
<1>4. q \in Seq(PoolEntries)
  BY <1>3, PickFacts DEF Rebroadcast
<1> HIDE DEF q
<1>5. s \in Seq(Hash)
  <2>1. \A e \in PoolEntries : e.tx \in Hash
    BY <1>1 DEF PoolEntries
  <2>2. QED
    BY <1>4, <2>1
<1> HIDE DEF s
<1>6. QED
  BY <1>1, <1>2, <1>5, BlockAddedKeeps, BroadcastKeeps DEF RelayInv

LEMMA RelayNextKeeps == RelayInv /\ [Next]_vars => RelayInv'
<1> SUFFICES ASSUME RelayInv, [Next]_vars PROVE RelayInv'
  OBVIOUS
<1>1. PoolInv /\ ReceiptInv /\ Hash = Tx
  BY RelayAssumption DEF RelayInv
<1>2. ASSUME NEW p \in Peer, NEW h \in Hash, HandleMessageReceived(p, h)
      PROVE  RelayInv'
  BY <1>1, <1>2, AnnouncedKeeps, PoolUnchanged DEF HandleMessageReceived, RelayInv
<1>3. ASSUME NEW p \in Peer, NEW h \in Hash, HandleTx(p, h)
      PROVE  RelayInv'
  <2>1. Idle /\ Answered(p, h) /\ (AddUnprocessed(h) \/ UNCHANGED poolVars)
    BY <1>3 DEF HandleTx
  <2>2. QED
    BY <1>1, <2>1, AnsweredKeeps, AddUnprocessedKeeps, PoolUnchanged DEF RelayInv
<1>4. ASSUME NEW h \in Hash, Timer(h)
      PROVE  RelayInv'
  BY <1>1, <1>4, TimedOutKeeps, PoolUnchanged DEF Timer, RelayInv
<1>5. ASSUME NEW t \in ApiTx, PushTransaction(t)
      PROVE  RelayInv'
  BY <1>1, <1>5, ApiKeeps, ReceiptUnchanged DEF PushTransaction, RelayInv
<1>6. CASE ApiSubmit
  BY <1>1, <1>6, ApiKeeps, ReceiptUnchanged DEF ApiSubmit, RelayInv
<1>7. CASE ProcessorStep
  BY <1>7, ProcessorStepKeeps
<1>8. ASSUME NEW B \in Blocks, NewBlock(B)
      PROVE  RelayInv'
  BY <1>8, NewBlockKeeps
<1>9. CASE UNCHANGED vars
  BY <1>1, <1>9, PoolUnchanged, ReceiptUnchanged DEF vars, RelayInv
<1>10. QED
  BY <1>2, <1>3, <1>4, <1>5, <1>6, <1>7, <1>8, <1>9 DEF Next

-----------------------------------------------------------------------------
(* The theorems                                                             *)

(* The invariant holds in every interleaving of the reactor, its timers,    *)
(* the service thread and the miner, for every size of the queues.          *)
THEOREM RelayInvariant == Spec => []RelayInv
<1>1. QED
  BY RelayInitInv, RelayNextKeeps, PTL DEF Spec

(* The pool, the queues and the requests stay in their types and within     *)
(* their sizes, with one open request for a hash at most.                   *)
THEOREM RelayTypeCorrect == Spec => []TypeOK
<1>1. RelayInv => TypeOK
  BY DEF RelayInv, PoolInv, ReceiptInv, Queues, OneEach, TypeOK, ReceiptTypeOK
<1>2. QED
  BY <1>1, RelayInvariant, PTL

(* Every open request has asked a peer and has a timer that will ask the    *)
(* next one or close it (request_full_message).                             *)
THEOREM RequestsStayWatched == Spec => []RequestsAreWatched
<1>1. RelayInv => RequestsAreWatched
  <2> SUFFICES ASSUME RelayInv, NEW i \in DOMAIN requested
               PROVE  requested[i].asked # <<>> /\ timers[requested[i].hash] > 0
    BY DEF RequestsAreWatched
  <2>1. requested[i] \in ToSet(requested)
    BY DEF ToSet
  <2>2. QED
    BY <2>1 DEF RelayInv, ReceiptInv, Watched
<1>2. QED
  BY <1>1, RelayInvariant, PTL

(* A request that an honest peer was sent stays open, with that peer listed, *)
(* until the peer answers, unless the full queue evicted it (is_callable).  *)
THEOREM AnswersStayAwaited == Spec => []AnswerIsAwaited
<1>1. RelayInv => AnswerIsAwaited
  <2> SUFFICES ASSUME RelayInv, NEW a \in asks, a[2] \notin evicted
               PROVE  IsRequested(a[2], a[1])
    BY DEF AnswerIsAwaited
  <2>1. requested \in Queues /\ Awaits(requested, a[1], a[2])
    BY DEF RelayInv, ReceiptInv
  <2>2. PICK r \in ToSet(requested) : r.hash = a[2] /\ a[1] \in ToSet(r.peers)
    BY <2>1 DEF Awaits
  <2>3. IsOpen(requested, a[2]) /\ Request(requested, a[2]) = r
    BY <2>1, <2>2, RequestFacts
  <2>4. r.peers \in Seq(Peer)
    BY <2>1, <2>2, QueueElements DEF Requests
  <2>5. QED
    BY <2>2, <2>3, <2>4, ContainsFacts DEF IsRequested
<1>2. QED
  BY <1>1, RelayInvariant, PTL

(* The hash set names only transactions that the heap holds, until a        *)
(* processor meets a missing hash or an empty heap (get_pending_transaction). *)
THEOREM HashedStaysQueued == Spec => []HashedIsQueued
<1>1. RelayInv => HashedIsQueued
  <2> SUFFICES ASSUME RelayInv, ~ failed, NEW t \in pendingHash
               PROVE  pending[t] > 0
    BY DEF HashedIsQueued
  <2>1. t \in Tx /\ pending \in [Tx -> Nat]
    BY DEF RelayInv, PoolInv, PoolTypeOK
  <2>2. Copies(t)
    BY <2>1 DEF RelayInv, PoolInv
  <2>3. QED
    BY <2>1, <2>2 DEF Copies
<1>2. QED
  BY <1>1, RelayInvariant, PTL

(* A queued transaction has a processor that will come to it, or a          *)
(* submission about to start one, unless the only processor ended by an     *)
(* exception or in the first window since one was started; and the flag is  *)
(* up only with a processor, but for the second window                      *)
(* (add_unprocessed_txn, reset_processor_flag, TxnProcessor.__next__).      *)
THEOREM NothingStaysStranded == Spec => []NothingStranded
<1>1. RelayInv => NothingStranded
  BY DEF RelayInv, PoolInv, Scheduled, NothingStranded
<1>2. QED
  BY <1>1, RelayInvariant, PTL

-----------------------------------------------------------------------------
(* Sums along a sequence                                                    *)

(* g holds the sums of the first 0, 1, ... n numbers of f.                  *)
Adds(g, f, n) ==
  /\ g \in [0 .. n -> Int]
  /\ \A i \in 1 .. n : f[i] \in Int
  /\ g[0] = 0
  /\ \A i \in 1 .. n : g[i] = g[i - 1] + f[i]

LEMMA SumsExist ==
  ASSUME NEW n \in Nat, NEW f, \A i \in 1 .. n : f[i] \in Int
  PROVE  \E k : k = [i \in 0 .. n |-> IF i = 0 THEN 0 ELSE k[i - 1] + f[i]]
<1> DEFINE F == [i \in 1 .. n |-> [x \in Int |-> x + f[i]]]
<1>1. F \in [1 .. n -> [Int -> Int]]
  OBVIOUS
<1>2. PICK k : Solves(k, n, 0, F, Int)
  <2> HIDE DEF F
  <2>1. 0 \in Int
    OBVIOUS
  <2>2. QED
    BY <1>1, <2>1, Solution
<1>3. k \in [0 .. n -> Int] /\ k[0] = 0 /\ \A i \in 1 .. n : k[i] = F[i][k[i - 1]]
  BY <1>2 DEF Solves
<1>4. \A i \in 1 .. n : k[i] = k[i - 1] + f[i]
  <2>1. \A i \in 1 .. n : i - 1 \in 0 .. n
    OBVIOUS
  <2>2. QED
    BY <1>3, <2>1
<1>5. k = [i \in 0 .. n |-> IF i = 0 THEN 0 ELSE k[i - 1] + f[i]]
  <2>1. \A i \in 0 .. n : i = 0 \/ i \in 1 .. n
    OBVIOUS
  <2>2. QED
    BY <1>3, <1>4, <2>1
<1>6. QED
  BY <1>5

LEMMA SumsAdd ==
  ASSUME NEW n \in Nat, NEW f, \A i \in 1 .. n : f[i] \in Int,
         NEW g, g = [i \in 0 .. n |-> IF i = 0 THEN 0 ELSE g[i - 1] + f[i]]
  PROVE  Adds(g, f, n)
<1>1. g[0] = 0 /\ \A i \in 1 .. n : g[i] = g[i - 1] + f[i]
  <2>1. 0 \in 0 .. n /\ \A i \in 1 .. n : i \in 0 .. n /\ i # 0
    OBVIOUS
  <2>2. QED
    BY <2>1
<1>2. \A i \in 0 .. n : g[i] \in Int
  <2>1. \A i \in 1 .. n : g[i - 1] \in Int => g[i] \in Int
    BY <1>1
  <2>2. g[0] \in Int
    BY <1>1
  <2>3. QED
    BY <2>1, <2>2, UpTo
<1>3. DOMAIN g = 0 .. n /\ g = [i \in 0 .. n |-> g[i]]
  OBVIOUS
<1>4. QED
  BY <1>1, <1>2, <1>3 DEF Adds

(* The sums g are h up to n and go on with k.                               *)
GoesOn(g, h, n, k, m) ==
  /\ \A i \in 0 .. n : g[i] = h[i]
  /\ \A i \in 0 .. m : g[n + i] = h[n] + k[i]

(* The sums of two sequences joined go on from the first to the second.     *)
LEMMA SumsJoin ==
  ASSUME NEW n \in Nat, NEW m \in Nat, NEW a, NEW b, NEW c, NEW g, NEW h, NEW k,
         Adds(g, a, n + m), Adds(h, b, n), Adds(k, c, m),
         \A i \in 1 .. n : a[i] = b[i],
         \A i \in 1 .. m : a[n + i] = c[i]
  PROVE  GoesOn(g, h, n, k, m)
<1>1. \A i \in 0 .. n : g[i] = h[i]
  <2> DEFINE T == {i \in Nat : i <= n => g[i] = h[i]}
  <2>1. 0 \in T
    BY DEF Adds
  <2>2. ASSUME NEW i \in Nat, i \in T
        PROVE  i + 1 \in T
    <3>1. CASE i + 1 <= n
      <4>1. i + 1 \in 1 .. n /\ i + 1 \in 1 .. n + m /\ (i + 1) - 1 = i /\ g[i] = h[i]
        BY <2>2, <3>1
      <4>2. g[i + 1] = g[i] + a[i + 1] /\ h[i + 1] = h[i] + b[i + 1]
        BY <4>1 DEF Adds
      <4>3. g[i + 1] = h[i + 1]
        BY <4>1, <4>2
      <4>4. QED
        BY <4>3
    <3>2. QED
      BY <3>1
  <2>3. \A i \in Nat : i \in T
    <3> HIDE DEF T
    <3>1. QED
      BY <2>1, <2>2, Induction
  <2>4. QED
    BY <2>3
<1>2. \A i \in 0 .. m : g[n + i] = h[n] + k[i]
  <2> DEFINE T == {i \in Nat : i <= m => g[n + i] = h[n] + k[i]}
  <2>0. h[n] \in Int /\ \A i \in 0 .. m : k[i] \in Int
    BY DEF Adds
  <2>1. 0 \in T
    BY <1>1, <2>0 DEF Adds
  <2>2. ASSUME NEW i \in Nat, i \in T
        PROVE  i + 1 \in T
    <3>1. CASE i + 1 <= m
      <4>1. /\ i + 1 \in 1 .. m /\ (i + 1) - 1 = i /\ g[n + i] = h[n] + k[i]
            /\ n + (i + 1) \in 1 .. n + m /\ (n + (i + 1)) - 1 = n + i
            /\ i \in 0 .. m /\ i + 1 \in 0 .. m
        BY <2>2, <3>1
      <4>2. /\ g[n + (i + 1)] = g[n + i] + a[n + (i + 1)]
            /\ k[i + 1] = k[i] + c[i + 1]
            /\ a[n + (i + 1)] = c[i + 1]
        BY <4>1 DEF Adds
      <4>3. k[i] \in Int /\ k[i + 1] \in Int
        BY <2>0, <4>1
      <4> DEFINE x == c[i + 1]
                 j == n + (i + 1)
      <4>4. g[j] = (h[n] + k[i]) + x /\ k[i + 1] = k[i] + x
        BY <4>1, <4>2
      <4>5. x \in Int
        BY <4>1 DEF Adds
      <4>6. QED
        BY <2>0, <4>3, <4>4, <4>5
    <3>2. QED
      BY <3>1
  <2>3. \A i \in Nat : i \in T
    <3> HIDE DEF T
    <3>1. QED
      BY <2>1, <2>2, Induction
  <2>4. QED
    BY <2>3
<1>3. QED
  BY <1>1, <1>2 DEF GoesOn
-----------------------------------------------------------------------------
(* Messages                                                                 *)

Message ==
  {m \in [kind : {"data", "ack"}, size : 1 .. MaxOut, priority : Nat, bytes : Nat] :
     m.kind = "data" => m.bytes = 0}

LEMMA MessageFacts ==
  /\ \A m \in Message : m.size \in Nat \ {0} /\ m.size <= MaxOut /\ m.bytes \in Nat
                        /\ (~ IsAck(m) => m.bytes = 0)
  /\ \A k \in Kinds : Data(k) \in Message /\ Data(k).bytes = 0
  /\ \A n \in Nat : Ack(n) \in Message /\ Ack(n).bytes = n
BY FlowAssumption DEF Message, IsAck, Data, Ack

SizesOf(s) == [i \in 1 .. Len(s) |-> s[i].size]
AcksOf(s)  == [i \in 1 .. Len(s) |-> s[i].bytes]

LEMMA CumulativeSums ==
  ASSUME NEW s \in Seq(Message)
  PROVE  /\ Adds(SizeUpTo(s), SizesOf(s), Len(s))
         /\ Adds(AckedUpTo(s), AcksOf(s), Len(s))
<1> DEFINE n == Len(s)
           a == SizesOf(s)
           b == AcksOf(s)
           Size(g) == [i \in 0 .. n |-> IF i = 0 THEN 0 ELSE g[i - 1] + s[i].size]
           Acked(g) == [i \in 0 .. n |-> IF i = 0 THEN 0 ELSE g[i - 1] + s[i].bytes]
           c == CHOOSE g : g = Size(g)
           d == CHOOSE g : g = Acked(g)
<1>1. n \in Nat /\ \A i \in 1 .. n : s[i] \in Message
  OBVIOUS
<1>2. \A i \in 1 .. n : /\ a[i] = s[i].size /\ a[i] \in Int
                        /\ b[i] = s[i].bytes /\ b[i] \in Int
  BY <1>1, MessageFacts DEF SizesOf, AcksOf
<1> HIDE DEF n, a, b
<1>3. \A i \in 0 .. n : i = 0 \/ i \in 1 .. n
  BY <1>1
<1>4. \A g : Size(g) = [i \in 0 .. n |-> IF i = 0 THEN 0 ELSE g[i - 1] + a[i]]
  BY <1>2, <1>3
<1>5. \A g : Acked(g) = [i \in 0 .. n |-> IF i = 0 THEN 0 ELSE g[i - 1] + b[i]]
  BY <1>2, <1>3
<1>6. Adds(c, a, n)
  <2>1. \E k : k = [i \in 0 .. n |-> IF i = 0 THEN 0 ELSE k[i - 1] + a[i]]
    BY <1>1, <1>2, SumsExist
  <2>2. \E k : k = Size(k)
    <3>1. PICK k : k = [i \in 0 .. n |-> IF i = 0 THEN 0 ELSE k[i - 1] + a[i]]
      BY <2>1
    <3>2. Size(k) = [i \in 0 .. n |-> IF i = 0 THEN 0 ELSE k[i - 1] + a[i]]
      BY <1>4
    <3> HIDE DEF Size
    <3>3. QED
      BY <3>1, <3>2
  <2>3. c = Size(c)
    <3> HIDE DEF Size
    <3>1. QED
      BY <2>2
  <2>4. c = [i \in 0 .. n |-> IF i = 0 THEN 0 ELSE c[i - 1] + a[i]]
    <3> HIDE DEF Size, c
    <3>1. QED
      BY <1>4, <2>3
  <2>5. QED
    <3> HIDE DEF c
    <3>1. QED
      BY <1>1, <1>2, <2>4, SumsAdd
<1>7. Adds(d, b, n)
  <2>1. \E k : k = [i \in 0 .. n |-> IF i = 0 THEN 0 ELSE k[i - 1] + b[i]]
    BY <1>1, <1>2, SumsExist
  <2>2. \E k : k = Acked(k)
    <3>1. PICK k : k = [i \in 0 .. n |-> IF i = 0 THEN 0 ELSE k[i - 1] + b[i]]
      BY <2>1
    <3>2. Acked(k) = [i \in 0 .. n |-> IF i = 0 THEN 0 ELSE k[i - 1] + b[i]]
      BY <1>5
    <3> HIDE DEF Acked
    <3>3. QED
      BY <3>1, <3>2
  <2>3. d = Acked(d)
    <3> HIDE DEF Acked
    <3>1. QED
      BY <2>2
  <2>4. d = [i \in 0 .. n |-> IF i = 0 THEN 0 ELSE d[i - 1] + b[i]]
    <3> HIDE DEF Acked, d
    <3>1. QED
      BY <1>5, <2>3
  <2>5. QED
    <3> HIDE DEF d
    <3>1. QED
      BY <1>1, <1>2, <2>4, SumsAdd
<1>8. c = SizeUpTo(s) /\ d = AckedUpTo(s)
  BY DEF SizeUpTo, AckedUpTo, n
<1> HIDE DEF c, d
<1>9. QED
  BY <1>6, <1>7, <1>8 DEF n, a, b

LEMMA SumsOfJoined ==
  ASSUME NEW s \in Seq(Message), NEW t \in Seq(Message)
  PROVE  /\ s \o t \in Seq(Message) /\ Len(s \o t) = Len(s) + Len(t)
         /\ \A i \in 0 .. Len(s) : /\ SizeUpTo(s \o t)[i] = SizeUpTo(s)[i]
                                   /\ AckedUpTo(s \o t)[i] = AckedUpTo(s)[i]
         /\ Bytes(s \o t) = Bytes(s) + Bytes(t)
         /\ AckedBytes(s \o t) = AckedBytes(s) + AckedBytes(t)
<1> DEFINE n == Len(s)
           m == Len(t)
<1>1. PICK u : u = s \o t
  OBVIOUS
<1>2. /\ u \in Seq(Message) /\ Len(u) = n + m /\ n \in Nat /\ m \in Nat
      /\ \A i \in 1 .. n : u[i] = s[i]
      /\ \A i \in 1 .. m : u[n + i] = t[i]
  BY <1>1
<1>3. /\ Adds(SizeUpTo(u), SizesOf(u), n + m) /\ Adds(AckedUpTo(u), AcksOf(u), n + m)
      /\ Adds(SizeUpTo(s), SizesOf(s), n) /\ Adds(AckedUpTo(s), AcksOf(s), n)
      /\ Adds(SizeUpTo(t), SizesOf(t), m) /\ Adds(AckedUpTo(t), AcksOf(t), m)
  BY <1>2, CumulativeSums
<1>4. /\ \A i \in 1 .. n : SizesOf(u)[i] = SizesOf(s)[i] /\ AcksOf(u)[i] = AcksOf(s)[i]
      /\ \A i \in 1 .. m : SizesOf(u)[n + i] = SizesOf(t)[i] /\ AcksOf(u)[n + i] = AcksOf(t)[i]
  <2>1. \A i \in 1 .. n : i \in 1 .. n + m
    BY <1>2
  <2>2. \A i \in 1 .. m : n + i \in 1 .. n + m
    BY <1>2
  <2> HIDE DEF n, m
  <2>3. Len(u) = n + m /\ Len(s) = n /\ Len(t) = m
    BY <1>2 DEF n, m
  <2>4. QED
    BY <1>2, <2>1, <2>2, <2>3 DEF SizesOf, AcksOf
<1> HIDE DEF n, m
<1>5. /\ \A i \in 0 .. n : SizeUpTo(u)[i] = SizeUpTo(s)[i]
      /\ \A i \in 0 .. m : SizeUpTo(u)[n + i] = SizeUpTo(s)[n] + SizeUpTo(t)[i]
  <2>1. GoesOn(SizeUpTo(u), SizeUpTo(s), n, SizeUpTo(t), m)
    BY ZenonT(60), <1>2, <1>3, <1>4, SumsJoin
  <2>2. QED
    BY <2>1 DEF GoesOn
<1>6. /\ \A i \in 0 .. n : AckedUpTo(u)[i] = AckedUpTo(s)[i]
      /\ \A i \in 0 .. m : AckedUpTo(u)[n + i] = AckedUpTo(s)[n] + AckedUpTo(t)[i]
  <2>1. GoesOn(AckedUpTo(u), AckedUpTo(s), n, AckedUpTo(t), m)
    BY <1>2, <1>3, <1>4, SumsJoin
  <2>2. QED
    BY <2>1 DEF GoesOn
<1>7. m \in 0 .. m
  BY <1>2
<1>8. /\ Bytes(u) = Bytes(s) + Bytes(t) /\ AckedBytes(u) = AckedBytes(s) + AckedBytes(t)
  BY <1>2, <1>5, <1>6, <1>7 DEF Bytes, AckedBytes, n, m
<1>9. QED
  BY <1>1, <1>2, <1>5, <1>6, <1>8 DEF n, m


LEMMA SumsOfFew ==
  /\ Bytes(<<>>) = 0 /\ AckedBytes(<<>>) = 0
  /\ \A m \in Message : <<m>> \in Seq(Message) /\ Bytes(<<m>>) = m.size
                                               /\ AckedBytes(<<m>>) = m.bytes
<1>1. <<>> \in Seq(Message) /\ Len(<<>>) = 0
  OBVIOUS
<1>2. Adds(SizeUpTo(<<>>), SizesOf(<<>>), 0) /\ Adds(AckedUpTo(<<>>), AcksOf(<<>>), 0)
  BY <1>1, CumulativeSums
<1>3. Bytes(<<>>) = 0 /\ AckedBytes(<<>>) = 0
  BY <1>1, <1>2 DEF Adds, Bytes, AckedBytes
<1>4. ASSUME NEW m \in Message
      PROVE  <<m>> \in Seq(Message) /\ Bytes(<<m>>) = m.size /\ AckedBytes(<<m>>) = m.bytes
  <2>0. PICK s : s = <<m>>
    OBVIOUS
  <2>1. s \in Seq(Message) /\ s = <<m>> /\ Len(s) = 1 /\ s[1] = m
    BY <1>4, <2>0
  <2>2. Adds(SizeUpTo(s), SizesOf(s), 1) /\ Adds(AckedUpTo(s), AcksOf(s), 1)
    BY <2>1, CumulativeSums
  <2>3. SizesOf(s)[1] = m.size /\ AcksOf(s)[1] = m.bytes
    BY <2>1 DEF SizesOf, AcksOf
  <2>4. m.size \in Nat /\ m.bytes \in Nat
    BY <1>4, MessageFacts
  <2>5. SizeUpTo(s)[1] = m.size /\ AckedUpTo(s)[1] = m.bytes
    <3>1. 1 \in 1 .. 1 /\ 1 - 1 = 0
      OBVIOUS
    <3>2. QED
      BY <2>2, <2>3, <2>4, <3>1 DEF Adds
  <2>6. QED
    BY <2>1, <2>5 DEF Bytes, AckedBytes
<1>5. QED
  BY <1>3, <1>4

(* The sums are natural numbers that grow message by message.               *)
LEMMA SumsGrow ==
  ASSUME NEW s \in Seq(Message)
  PROVE  /\ SizeUpTo(s)[0] = 0 /\ AckedUpTo(s)[0] = 0
         /\ \A i \in 0 .. Len(s) : SizeUpTo(s)[i] \in Nat /\ AckedUpTo(s)[i] \in Nat
         /\ \A i \in 1 .. Len(s) : /\ SizeUpTo(s)[i] = SizeUpTo(s)[i - 1] + s[i].size
                                   /\ AckedUpTo(s)[i] = AckedUpTo(s)[i - 1] + s[i].bytes
         /\ Bytes(s) \in Nat /\ AckedBytes(s) \in Nat
<1>1. PICK n \in Nat : n = Len(s)
  OBVIOUS
<1> DEFINE g == SizeUpTo(s)
           h == AckedUpTo(s)
<1> HIDE DEF g, h
<1>2. Adds(g, SizesOf(s), n) /\ Adds(h, AcksOf(s), n)
  BY <1>1, CumulativeSums DEF g, h
<1>3. \A i \in 1 .. n : /\ SizesOf(s)[i] = s[i].size /\ s[i].size \in Nat
                        /\ AcksOf(s)[i] = s[i].bytes /\ s[i].bytes \in Nat
  <2>1. \A i \in 1 .. n : s[i] \in Message
    BY <1>1
  <2>2. QED
    BY <1>1, <2>1, MessageFacts DEF SizesOf, AcksOf
<1>4. /\ g[0] = 0 /\ h[0] = 0
      /\ \A i \in 1 .. n : g[i] = g[i - 1] + s[i].size /\ h[i] = h[i - 1] + s[i].bytes
  BY <1>2, <1>3 DEF Adds
<1>5. \A i \in 0 .. n : g[i] \in Nat
  <2>1. g[0] \in Nat
    BY <1>4
  <2>2. ASSUME NEW i \in 1 .. n, g[i - 1] \in Nat
        PROVE  g[i] \in Nat
    <3>1. g[i] = g[i - 1] + s[i].size /\ s[i].size \in Nat
      BY <1>3, <1>4
    <3>2. QED
      BY <2>2, <3>1
  <2>3. QED
    BY <2>1, <2>2, UpTo
<1>6. \A i \in 0 .. n : h[i] \in Nat
  <2>1. h[0] \in Nat
    BY <1>4
  <2>2. ASSUME NEW i \in 1 .. n, h[i - 1] \in Nat
        PROVE  h[i] \in Nat
    <3>1. h[i] = h[i - 1] + s[i].bytes /\ s[i].bytes \in Nat
      BY <1>3, <1>4
    <3>2. QED
      BY <2>2, <3>1
  <2>3. QED
    BY <2>1, <2>2, UpTo
<1>7. n \in 0 .. n
  BY <1>1
<1>8. Bytes(s) \in Nat /\ AckedBytes(s) \in Nat
  BY <1>1, <1>5, <1>6, <1>7 DEF Bytes, AckedBytes, g, h
<1>9. QED
  BY <1>1, <1>4, <1>5, <1>6, <1>8 DEF g, h

Taken(s, k) == SubSeq(s, 1, k)
LeftOver(s, k)  == SubSeq(s, k + 1, Len(s))

(* A sequence cut in two after its first k messages.                        *)
LEMMA Halves ==
  ASSUME NEW s \in Seq(Message), NEW k \in 0 .. Len(s)
  PROVE  /\ Taken(s, k) \in Seq(Message) /\ Len(Taken(s, k)) = k
         /\ \A i \in 1 .. k : Taken(s, k)[i] = s[i]
         /\ LeftOver(s, k) \in Seq(Message) /\ Len(LeftOver(s, k)) = Len(s) - k
         /\ k < Len(s) => LeftOver(s, k) # <<>> /\ LeftOver(s, k)[1] = s[k + 1]
         /\ k = Len(s) => LeftOver(s, k) = <<>>
         /\ Bytes(Taken(s, k)) = SizeUpTo(s)[k]
         /\ AckedBytes(Taken(s, k)) = AckedUpTo(s)[k]
         /\ \A i \in 0 .. k : AckedUpTo(Taken(s, k))[i] = AckedUpTo(s)[i]
         /\ Bytes(s) = Bytes(Taken(s, k)) + Bytes(LeftOver(s, k))
         /\ AckedBytes(s) = AckedBytes(Taken(s, k)) + AckedBytes(LeftOver(s, k))
<1>1. PICK u, v : u = Taken(s, k) /\ v = LeftOver(s, k)
  OBVIOUS
<1>2. Len(s) \in Nat /\ k \in Nat /\ k <= Len(s) /\ \A i \in 1 .. Len(s) : s[i] \in Message
  OBVIOUS
<1>3. u \in Seq(Message) /\ Len(u) = k /\ \A i \in 1 .. k : u[i] = s[i]
  BY <1>1, <1>2 DEF Taken
<1>4. v \in Seq(Message) /\ Len(v) = Len(s) - k /\ \A i \in 1 .. Len(s) - k : v[i] = s[k + i]
  BY <1>1, <1>2 DEF LeftOver
<1>5. s = u \o v
  <2>1. PICK w : w = u \o v
    OBVIOUS
  <2>2. /\ w \in Seq(Message) /\ Len(w) = Len(s)
        /\ \A i \in 1 .. k : w[i] = u[i]
        /\ \A i \in 1 .. Len(s) - k : w[k + i] = v[i]
    BY SMTT(60), <1>2, <1>3, <1>4, <2>1
  <2>3. ASSUME NEW i \in 1 .. Len(s)
        PROVE  w[i] = s[i]
    <3>1. CASE i <= k
      <4>1. i \in 1 .. k
        BY <1>2, <3>1
      <4>2. QED
        BY <1>3, <2>2, <4>1
    <3>2. CASE i > k
      <4>1. PICK j \in 1 .. Len(s) - k : i = k + j
        BY <1>2, <3>2
      <4>2. QED
        BY <1>4, <2>2, <4>1
    <3>3. QED
      BY <1>2, <3>1, <3>2
  <2>4. w = [i \in 1 .. Len(s) |-> w[i]] /\ s = [i \in 1 .. Len(s) |-> s[i]]
    BY <2>2
  <2>5. QED
    BY <2>1, <2>3, <2>4
<1>6. /\ k < Len(s) => v # <<>> /\ v[1] = s[k + 1]
      /\ k = Len(s) => v = <<>>
  BY <1>2, <1>4
<1>7. /\ \A i \in 0 .. k : /\ SizeUpTo(s)[i] = SizeUpTo(u)[i]
                           /\ AckedUpTo(s)[i] = AckedUpTo(u)[i]
      /\ Bytes(s) = Bytes(u) + Bytes(v)
      /\ AckedBytes(s) = AckedBytes(u) + AckedBytes(v)
  BY <1>3, <1>4, <1>5, SumsOfJoined
<1>8. Bytes(u) = SizeUpTo(s)[k] /\ AckedBytes(u) = AckedUpTo(s)[k]
  BY <1>2, <1>3, <1>7 DEF Bytes, AckedBytes
<1>9. QED
  BY <1>1, <1>3, <1>4, <1>6, <1>7, <1>8

-----------------------------------------------------------------------------
(* The operators of the model                                               *)

LEMMA PrefixFacts ==
  ASSUME NEW q \in Seq(Message), NEW n \in Nat
  PROVE  /\ Prefix(q, n) \in 0 .. Len(q)
         /\ SizeUpTo(q)[Prefix(q, n)] <= n
         /\ Prefix(q, n) = Len(q) \/ SizeUpTo(q)[Prefix(q, n) + 1] > n
<1> DEFINE size == SizeUpTo(q)
           I == {i \in 0 .. Len(q) : size[i] <= n}
<1>1. Len(q) \in Nat /\ size[0] = 0 /\ \A i \in 0 .. Len(q) : size[i] \in Nat
  BY SumsGrow
<1> HIDE DEF size
<1>2. I \subseteq Nat /\ 0 \in I /\ \A i \in I : i <= Len(q)
  BY <1>1
<1>3. PICK k \in I : \A i \in I : i <= k
  <2> HIDE DEF I
  <2>1. I # {}
    BY <1>2
  <2>2. QED
    BY <1>1, <1>2, <2>1, Greatest
<1>4. k \in 0 .. Len(q) /\ size[k] <= n
  BY <1>3
<1>5. k = Len(q) \/ size[k + 1] > n
  <2>1. SUFFICES ASSUME k # Len(q) PROVE size[k + 1] > n
    OBVIOUS
  <2>2. k + 1 \in 0 .. Len(q) /\ ~ (k + 1 <= k)
    BY <1>1, <1>4, <2>1
  <2>3. k + 1 \notin I
    BY <1>3, <2>2
  <2>4. QED
    BY <1>1, <2>2, <2>3
<1>6. Prefix(q, n) \in 0 .. Len(q) /\ size[Prefix(q, n)] <= n
         /\ (Prefix(q, n) = Len(q) \/ size[Prefix(q, n) + 1] > n)
  <2>1. Prefix(q, n) =
          CHOOSE i \in 0 .. Len(q) : size[i] <= n /\ (i = Len(q) \/ size[i + 1] > n)
    BY DEF Prefix, size
  <2>2. QED
    BY <1>4, <1>5, <2>1
<1>7. QED
  BY <1>6 DEF size

LEMMA AppendSums ==
  ASSUME NEW q \in Seq(Message), NEW m \in Message
  PROVE  Append(q, m) \in Seq(Message) /\ AckedBytes(Append(q, m)) = AckedBytes(q) + m.bytes
<1>1. /\ <<m>> \in Seq(Message) /\ AckedBytes(<<m>>) = m.bytes
      /\ Append(q, m) = q \o <<m>>
  BY SumsOfFew
<1>2. QED
  BY ZenonT(60), <1>1, SumsOfJoined

(* Wherever a message is put in.                                            *)
LEMMA InsertSums ==
  ASSUME NEW q \in Seq(Message), NEW m \in Message, NEW k \in 0 .. Len(q)
  PROVE  /\ InsertAt(q, k + 1, m) \in Seq(Message)
         /\ AckedBytes(InsertAt(q, k + 1, m)) = AckedBytes(q) + m.bytes
<1>1. PICK u, v : u = Taken(q, k) /\ v = LeftOver(q, k)
  OBVIOUS
<1>2. /\ u \in Seq(Message) /\ v \in Seq(Message)
      /\ AckedBytes(q) = AckedBytes(u) + AckedBytes(v)
  BY <1>1, Halves
<1>3. (k + 1) - 1 = k
  OBVIOUS
<1>4. InsertAt(q, k + 1, m) = (u \o <<m>>) \o v
  BY <1>1, <1>3 DEF InsertAt, Taken, LeftOver
<1>5. PICK x, w : x = <<m>> /\ w = u \o x
  OBVIOUS
<1>6. x \in Seq(Message) /\ AckedBytes(x) = m.bytes
  BY <1>5, SumsOfFew
<1>7. w \in Seq(Message) /\ AckedBytes(w) = AckedBytes(u) + m.bytes
  <2>1. u \o x \in Seq(Message) /\ AckedBytes(u \o x) = AckedBytes(u) + AckedBytes(x)
    BY <1>2, <1>6, SumsOfJoined
  <2>2. QED
    BY <1>5, <1>6, <2>1
<1>8. w \o v \in Seq(Message) /\ AckedBytes(w \o v) = AckedBytes(w) + AckedBytes(v)
  BY <1>2, <1>7, SumsOfJoined
<1>9. /\ AckedBytes(u) \in Nat /\ AckedBytes(v) \in Nat /\ AckedBytes(q) \in Nat
      /\ m.bytes \in Nat
  BY <1>2, SumsGrow, MessageFacts
<1>10. InsertAt(q, k + 1, m) = w \o v
  BY <1>4, <1>5
<1>11. AckedBytes(w \o v) = AckedBytes(q) + m.bytes
  BY <1>2, <1>7, <1>8, <1>9
<1>12. QED
  BY <1>8, <1>10, <1>11

LEMMA PutSums ==
  ASSUME NEW q \in Seq(Message), NEW m \in Message, NEW p \in Put(q, m)
  PROVE  p \in Seq(Message) /\ AckedBytes(p) = AckedBytes(q) + m.bytes
<1>1. PICK k \in Places(q, m) : p = InsertAt(q, k, m)
  BY DEF Put
<1>2. k \in 1 .. Len(q) + 1 /\ Len(q) \in Nat
  BY DEF Places
<1>3. PICK i \in 0 .. Len(q) : k = i + 1
  <2>1. k - 1 \in 0 .. Len(q) /\ k = (k - 1) + 1
    BY <1>2
  <2>2. QED
    BY <2>1
<1>4. /\ InsertAt(q, i + 1, m) \in Seq(Message)
      /\ AckedBytes(InsertAt(q, i + 1, m)) = AckedBytes(q) + m.bytes
  BY InsertSums
<1>5. QED
  BY <1>1, <1>3, <1>4

(* Putting a message back changes nothing but the order.                    *)
LEMMA PutBackSums ==
  ASSUME NEW q \in Seq(Message), NEW p \in PutBack(q)
  PROVE  p \in Seq(Message) /\ AckedBytes(p) = AckedBytes(q)
<1>1. CASE q = <<>>
  BY <1>1 DEF PutBack
<1>2. CASE q # <<>>
  <2>1. PICK m, u : m = Head(q) /\ u = Tail(q)
    OBVIOUS
  <2>2. m \in Message /\ u \in Seq(Message) /\ q = <<m>> \o u
    BY <1>2, <2>1
  <2>3. PICK x : x = <<m>>
    OBVIOUS
  <2>4. x \in Seq(Message) /\ AckedBytes(x) = m.bytes
    BY <2>2, <2>3, SumsOfFew
  <2>5. AckedBytes(x \o u) = AckedBytes(x) + AckedBytes(u)
    BY <2>2, <2>4, SumsOfJoined
  <2>6. p \in Put(u, m)
    BY <1>2, <2>1 DEF PutBack
  <2>7. p \in Seq(Message) /\ AckedBytes(p) = AckedBytes(u) + m.bytes
    BY <2>2, <2>6, PutSums
  <2>8. AckedBytes(u) \in Nat /\ m.bytes \in Nat
    BY <2>2, SumsGrow, MessageFacts
  <2>9. q = x \o u
    BY <2>2, <2>3
  <2>10. AckedBytes(q) = m.bytes + AckedBytes(u)
    BY <2>4, <2>5, <2>9
  <2>11. QED
    BY <2>7, <2>8, <2>10
<1>3. QED
  BY <1>1, <1>2

-----------------------------------------------------------------------------
(* One end                                                                  *)

End == [queue : Seq(Message), sent : Int, wire : Seq(Message)]

(* What the end counts beyond its wire, and what its messages acknowledge.  *)
Debt(s) == s.sent - Bytes(s.wire)
Owed(s) == AckedBytes(s.queue) + AckedBytes(s.wire)

(* t is s with more on its wire, its debt less by b and owing c more.       *)
Becomes(s, t, b, c) ==
  /\ t \in End
  /\ Debt(t) = Debt(s) - b
  /\ Owed(t) = Owed(s) + c
  /\ s.wire # <<>> => t.wire # <<>> /\ t.wire[1] = s.wire[1]

LEMMA EndFacts ==
  ASSUME NEW s \in End
  PROVE  /\ s.queue \in Seq(Message) /\ s.wire \in Seq(Message) /\ s.sent \in Int
         /\ Debt(s) \in Int /\ Owed(s) \in Nat
         /\ Bytes(s.wire) \in Nat /\ AckedBytes(s.queue) \in Nat /\ AckedBytes(s.wire) \in Nat
<1>1. s.queue \in Seq(Message) /\ s.wire \in Seq(Message) /\ s.sent \in Int
  BY DEF End
<1>2. Bytes(s.wire) \in Nat /\ AckedBytes(s.queue) \in Nat /\ AckedBytes(s.wire) \in Nat
  BY <1>1, SumsGrow
<1>3. QED
  BY <1>1, <1>2 DEF Debt, Owed

LEMMA BecomesTwice ==
  ASSUME NEW r \in End, NEW s, NEW t, NEW a \in Int, NEW b \in Int, NEW c \in Int, NEW d \in Int,
         Becomes(r, s, a, c), Becomes(s, t, b, d)
  PROVE  Becomes(r, t, a + b, c + d)
<1>1. Debt(r) \in Int /\ Owed(r) \in Int
  BY EndFacts
<1>2. /\ t \in End
      /\ Debt(s) = Debt(r) - a /\ Debt(t) = Debt(s) - b
      /\ Owed(s) = Owed(r) + c /\ Owed(t) = Owed(s) + d
      /\ r.wire # <<>> => t.wire # <<>> /\ t.wire[1] = r.wire[1]
  BY DEF Becomes
<1>3. Debt(t) = Debt(r) - (a + b) /\ Owed(t) = Owed(r) + (c + d)
  BY <1>1, <1>2
<1>4. QED
  BY <1>2, <1>3 DEF Becomes

(* Writing moves messages from the queue to the wire and counts them.       *)
LEMMA SendNextFacts ==
  ASSUME NEW s \in End, NEW t \in SendNext(s)
  PROVE  Becomes(s, t, 0, 0)
<1>1. /\ s.queue \in Seq(Message) /\ s.wire \in Seq(Message) /\ s.sent \in Int
      /\ Debt(s) \in Int /\ Owed(s) \in Nat
      /\ Bytes(s.wire) \in Nat /\ AckedBytes(s.queue) \in Nat /\ AckedBytes(s.wire) \in Nat
  BY EndFacts
<1>2. CASE s.sent >= MaxOut
  <2>1. t = s
    BY <1>2 DEF SendNext
  <2>2. QED
    BY <1>1, <2>1 DEF Becomes
<1>3. CASE ~ (s.sent >= MaxOut)
  <2> DEFINE k == Batch(s.queue)
             u == Taken(s.queue, k)
             v == LeftOver(s.queue, k)
             w == s.wire \o u
  <2>1. PICK q \in PutBack(v) : t = [queue |-> q, sent |-> s.sent + Bytes(u), wire |-> w]
    BY <1>3 DEF SendNext, Counted, Taken, LeftOver
  <2>2. MaxOut \in Nat
    BY FlowAssumption
  <2>3. k \in 0 .. Len(s.queue)
    BY <1>1, <2>2, PrefixFacts DEF Batch
  <2> HIDE DEF k
  <2>4. /\ u \in Seq(Message) /\ v \in Seq(Message)
        /\ AckedBytes(s.queue) = AckedBytes(u) + AckedBytes(v)
    BY <1>1, <2>3, Halves
  <2> HIDE DEF u, v
  <2>5. /\ w \in Seq(Message) /\ Bytes(w) = Bytes(s.wire) + Bytes(u)
        /\ AckedBytes(w) = AckedBytes(s.wire) + AckedBytes(u)
    BY <1>1, <2>4, SumsOfJoined
  <2>6. s.wire # <<>> => w # <<>> /\ w[1] = s.wire[1]
    BY <1>1, <2>4
  <2> HIDE DEF w
  <2>7. Bytes(u) \in Nat /\ AckedBytes(u) \in Nat /\ AckedBytes(v) \in Nat
    BY <2>4, SumsGrow
  <2>8. q \in Seq(Message) /\ AckedBytes(q) = AckedBytes(v)
    BY <2>1, <2>4, PutBackSums
  <2>9. t \in End /\ t.queue = q /\ t.wire = w /\ t.sent = s.sent + Bytes(u)
    BY SMTT(60), <1>1, <2>1, <2>5, <2>7, <2>8 DEF End
  <2>10. Debt(t) = Debt(s) - 0 /\ Owed(t) = Owed(s) + 0
    <3>1. t.sent - Bytes(t.wire) = s.sent - Bytes(s.wire)
      BY <1>1, <2>5, <2>7, <2>9
    <3>2. AckedBytes(t.queue) + AckedBytes(t.wire) =
            AckedBytes(s.queue) + AckedBytes(s.wire)
      <4>1. /\ AckedBytes(t.queue) = AckedBytes(v)
            /\ AckedBytes(t.wire) = AckedBytes(s.wire) + AckedBytes(u)
        BY <2>5, <2>8, <2>9
      <4>2. QED
        BY <1>1, <2>4, <2>7, <4>1
    <3>3. QED
      BY <1>1, <3>1, <3>2 DEF Debt, Owed
  <2>11. QED
    BY <2>6, <2>9, <2>10 DEF Becomes
<1>4. QED
  BY <1>2, <1>3

LEMMA HandleAckFacts ==
  ASSUME NEW s \in End, NEW m \in Message, NEW x \in HandleAck(s, m)
  PROVE  Becomes(s, x, m.bytes, 0)
<1>1. /\ s.queue \in Seq(Message) /\ s.wire \in Seq(Message) /\ s.sent \in Int
      /\ Debt(s) \in Int /\ Owed(s) \in Nat /\ Bytes(s.wire) \in Nat
      /\ m.bytes \in Nat /\ (~ IsAck(m) => m.bytes = 0)
  BY EndFacts, MessageFacts
<1>2. CASE ~ IsAck(m)
  BY <1>1, <1>2 DEF HandleAck, Becomes
<1>3. CASE IsAck(m)
  <2>1. PICK t : t = [s EXCEPT !.sent = @ - m.bytes]
    OBVIOUS
  <2>2. /\ t \in End /\ t.sent = s.sent - m.bytes /\ t.wire = s.wire /\ t.queue = s.queue
    BY SMTT(60), <1>1, <2>1 DEF End
  <2>3. Becomes(s, t, m.bytes, 0)
    BY <1>1, <2>2 DEF Becomes, Debt, Owed
  <2>4. x \in SendNext(t)
    BY <1>3, <2>1 DEF HandleAck
  <2>5. Becomes(t, x, 0, 0)
    BY <2>2, <2>4, SendNextFacts
  <2>6. Becomes(s, x, m.bytes + 0, 0 + 0)
    BY <1>1, <2>3, <2>5, BecomesTwice
  <2>7. m.bytes + 0 = m.bytes /\ 0 + 0 = 0
    BY <1>1
  <2>8. QED
    BY <2>6, <2>7
<1>4. QED
  BY <1>2, <1>3

LEMMA SendFacts ==
  ASSUME NEW s \in End, NEW m \in Message, NEW x \in Send(s, m)
  PROVE  Becomes(s, x, 0, IF QueueFull(s) THEN 0 ELSE m.bytes)
<1>1. /\ s.queue \in Seq(Message) /\ s.wire \in Seq(Message) /\ s.sent \in Int
      /\ Debt(s) \in Int /\ Owed(s) \in Nat /\ Bytes(s.wire) \in Nat /\ m.bytes \in Nat
      /\ AckedBytes(s.queue) \in Nat /\ AckedBytes(s.wire) \in Nat
  BY EndFacts, MessageFacts
<1>2. CASE QueueFull(s)
  <2>1. x = s
    BY <1>2 DEF Send
  <2>2. QED
    BY <1>1, <1>2, <2>1 DEF Becomes
<1>3. CASE ~ QueueFull(s)
  <2>1. PICK q \in Put(s.queue, m) : x \in SendNext([s EXCEPT !.queue = q])
    BY <1>3 DEF Send
  <2>2. q \in Seq(Message) /\ AckedBytes(q) = AckedBytes(s.queue) + m.bytes
    BY <1>1, <2>1, PutSums
  <2>3. PICK t : t = [s EXCEPT !.queue = q]
    OBVIOUS
  <2>4. /\ t \in End /\ t.sent = s.sent /\ t.wire = s.wire /\ t.queue = q
    <3>1. q \in Seq(Message)
      BY <2>2
    <3>2. QED
      BY SMTT(60), <1>1, <2>3, <3>1 DEF End
  <2>5. Becomes(s, t, 0, m.bytes)
    BY <1>1, <2>2, <2>4 DEF Becomes, Debt, Owed
  <2>6. Becomes(t, x, 0, 0)
    BY <2>1, <2>3, <2>4, SendNextFacts
  <2>7. Becomes(s, x, 0 + 0, m.bytes + 0)
    BY <1>1, <2>5, <2>6, BecomesTwice
  <2>8. m.bytes + 0 = m.bytes /\ 0 + 0 = 0
    BY <1>1
  <2>9. QED
    BY <1>3, <2>7, <2>8
<1>4. QED
  BY <1>2, <1>3

(* What handling q[i] makes of the ends in X.                               *)
AfterAck(X, m) == UNION {HandleAck(t, m) : t \in X}

LEMMA HandledExists ==
  ASSUME NEW s \in End, NEW q \in Seq(Message)
  PROVE  /\ Handled(s, q)[0] = {s}
         /\ \A i \in 1 .. Len(q) : Handled(s, q)[i] = AfterAck(Handled(s, q)[i - 1], q[i])
<1> DEFINE n == Len(q)
           F == [i \in 1 .. n |-> [X \in SUBSET End |-> AfterAck(X, q[i])]]
           Def(g) == [i \in 0 .. n |-> IF i = 0 THEN {s} ELSE AfterAck(g[i - 1], q[i])]
           h == CHOOSE g : g = Def(g)
<1>1. n \in Nat /\ \A i \in 1 .. n : q[i] \in Message
  OBVIOUS
<1>2. F \in [1 .. n -> [SUBSET End -> SUBSET End]]
  <2>1. \A x \in End, m \in Message : HandleAck(x, m) \subseteq End
    BY HandleAckFacts DEF Becomes
  <2>2. \A X \in SUBSET End, m \in Message : AfterAck(X, m) \in SUBSET End
    BY <2>1 DEF AfterAck
  <2>3. QED
    BY <1>1, <2>2
<1>3. PICK g : Solves(g, n, {s}, F, SUBSET End)
  <2> HIDE DEF F, n
  <2>1. QED
    BY <1>1, <1>2, Solution
<1>4. g = Def(g)
  <2>1. g \in [0 .. n -> SUBSET End] /\ g[0] = {s} /\ \A i \in 1 .. n : g[i] = F[i][g[i - 1]]
    BY <1>3 DEF Solves
  <2>2. ASSUME NEW i \in 1 .. n
        PROVE  g[i] = AfterAck(g[i - 1], q[i])
    <3>1. i - 1 \in 0 .. n
      BY <1>1
    <3>2. g[i - 1] \in SUBSET End
      BY <2>1, <3>1
    <3>3. QED
      BY <2>1, <3>2
  <2> HIDE DEF n, F
  <2>3. \A i \in 0 .. n : i = 0 \/ i \in 1 .. n
    BY <1>1
  <2>4. QED
    BY <2>1, <2>2, <2>3
<1>5. h = Def(h)
  <2> HIDE DEF Def
  <2>1. QED
    BY <1>4
<1>6. Handled(s, q) = h
  BY DEF Handled, AfterAck
<1> HIDE DEF h
<1>7. h[0] = {s} /\ \A i \in 1 .. n : h[i] = AfterAck(h[i - 1], q[i])
  <2>1. 0 \in 0 .. n /\ \A i \in 1 .. n : i \in 0 .. n /\ i # 0
    BY <1>1
  <2>2. QED
    BY <1>5, <2>1
<1>8. QED
  BY <1>6, <1>7

LEMMA HandledFacts ==
  ASSUME NEW s \in End, NEW q \in Seq(Message)
  PROVE  \A i \in 0 .. Len(q) : \A t \in Handled(s, q)[i] : Becomes(s, t, AckedUpTo(q)[i], 0)
<1> DEFINE h == Handled(s, q)
           a == AckedUpTo(q)
           n == Len(q)
           T == {i \in Nat : i <= n => \A t \in h[i] : Becomes(s, t, a[i], 0)}
<1>0. n \in Nat /\ \A i \in 1 .. n : q[i] \in Message
  OBVIOUS
<1>1. /\ n \in Nat /\ a[0] = 0 /\ \A i \in 0 .. n : a[i] \in Nat
      /\ \A i \in 1 .. n : a[i] = a[i - 1] + q[i].bytes /\ q[i] \in Message
  <2>1. /\ a[0] = 0 /\ \A i \in 0 .. n : a[i] \in Nat
        /\ \A i \in 1 .. n : a[i] = a[i - 1] + q[i].bytes
    BY SumsGrow
  <2>2. QED
    BY <1>0, <2>1
<1>2. h[0] = {s} /\ \A i \in 1 .. n : h[i] = AfterAck(h[i - 1], q[i])
  BY HandledExists
<1> HIDE DEF h, a, n
<1>3. Debt(s) \in Int /\ Owed(s) \in Nat
  BY EndFacts
<1>4. 0 \in T
  <2>1. Becomes(s, s, 0, 0)
    BY <1>3 DEF Becomes
  <2>2. QED
    BY <1>1, <1>2, <2>1
<1>5. ASSUME NEW i \in Nat, i \in T
      PROVE  i + 1 \in T
  <2>1. CASE i + 1 <= n
    <3>1. /\ i + 1 \in 1 .. n /\ (i + 1) - 1 = i /\ i \in 0 .. n
          /\ \A r \in h[i] : Becomes(s, r, a[i], 0)
      BY <1>1, <1>5, <2>1
    <3>2. PICK m \in Message : m = q[i + 1]
      BY <1>1, <3>1
    <3>3. a[i + 1] = a[i] + m.bytes /\ h[i + 1] = AfterAck(h[i], m)
      BY <1>1, <1>2, <3>1, <3>2
    <3>4. ASSUME NEW t \in h[i + 1]
          PROVE  Becomes(s, t, a[i + 1], 0)
      <4>1. PICK r \in h[i] : t \in HandleAck(r, m)
        BY <3>3, <3>4 DEF AfterAck
      <4>2. r \in End /\ Becomes(s, r, a[i], 0)
        BY <3>1, <4>1 DEF Becomes
      <4>3. Becomes(r, t, m.bytes, 0)
        BY <4>1, <4>2, HandleAckFacts
      <4>4. a[i] \in Int /\ m.bytes \in Int /\ 0 \in Int /\ 0 + 0 = 0
        BY <1>1, <3>1, MessageFacts
      <4>5. Becomes(s, t, a[i] + m.bytes, 0 + 0)
        BY <4>2, <4>3, <4>4, BecomesTwice
      <4>6. QED
        BY <3>3, <4>4, <4>5
    <3>5. QED
      BY <3>4
  <2>2. QED
    BY <2>1
<1>6. \A i \in Nat : i \in T
  <2> HIDE DEF T
  <2>1. QED
    BY <1>4, <1>5, Induction
<1>7. \A i \in 0 .. n : \A t \in h[i] : Becomes(s, t, a[i], 0)
  BY <1>1, <1>6
<1>8. QED
  BY <1>7 DEF h, a, n

(* An end that owes what is asked of it is never asked for more.            *)
LEMMA NeverOverdrawn ==
  ASSUME NEW s \in End, NEW q \in Seq(Message), Debt(s) >= AckedBytes(q)
  PROVE  ~ Overdrawn(s, q)
<1> DEFINE n == Len(q)
           a == AckedUpTo(q)
<1>0. n \in Nat /\ \A i \in 1 .. n : q[i] \in Message
  OBVIOUS
<1>1. /\ n \in Nat /\ a[0] = 0 /\ \A i \in 0 .. n : a[i] \in Nat
      /\ \A i \in 1 .. n : a[i] = a[i - 1] + q[i].bytes /\ q[i] \in Message
  <2>1. /\ a[0] = 0 /\ \A i \in 0 .. n : a[i] \in Nat
        /\ \A i \in 1 .. n : a[i] = a[i - 1] + q[i].bytes
    BY SumsGrow
  <2>2. QED
    BY <1>0, <2>1
<1>2. ASSUME NEW i \in 1 .. n, NEW t \in Handled(s, q)[i - 1]
      PROVE  t.sent >= q[i].bytes
  <2>1. i - 1 \in 0 .. n /\ i \in 0 .. n
    BY <1>1
  <2>3. Becomes(s, t, a[i - 1], 0)
    BY <2>1, HandledFacts
  <2>4. t \in End /\ Debt(t) = Debt(s) - a[i - 1]
    BY <2>3 DEF Becomes
  <2>5. t.sent \in Int /\ Bytes(t.wire) \in Nat /\ Debt(s) \in Int
    BY <2>4, EndFacts
  <2>6. a[i] <= AckedBytes(q)
    <3>1. /\ AckedBytes(Taken(q, i)) = a[i]
          /\ AckedBytes(q) = AckedBytes(Taken(q, i)) + AckedBytes(LeftOver(q, i))
          /\ LeftOver(q, i) \in Seq(Message)
      BY <2>1, Halves
    <3>2. AckedBytes(LeftOver(q, i)) \in Nat
      BY <3>1, SumsGrow
    <3>3. QED
      BY <1>1, <2>1, <3>1, <3>2
  <2>7. AckedBytes(q) \in Nat /\ q[i].bytes \in Nat
    BY <1>1, SumsGrow, MessageFacts
  <2>8. a[i] = a[i - 1] + q[i].bytes /\ a[i] \in Nat /\ a[i - 1] \in Nat
    BY <1>1, <2>1
  <2> HIDE DEF a
  <2>9. t.sent >= q[i].bytes
    <3>1. t.sent - Bytes(t.wire) = Debt(s) - a[i - 1]
      BY <2>4 DEF Debt
    <3>2. QED
      BY SMTT(60), <2>5, <2>6, <2>7, <2>8, <3>1
  <2>10. QED
    BY <2>9
<1>3. ASSUME NEW i \in DOMAIN q, NEW t \in Handled(s, q)[i - 1]
      PROVE  ~ (t.sent < q[i].bytes)
  <2>1. i \in 1 .. n /\ i - 1 \in 0 .. n
    BY <1>1
  <2>2. t.sent >= q[i].bytes
    BY <1>2, <2>1
  <2>3. t \in End
    BY <2>1, HandledFacts DEF Becomes
  <2>4. t.sent \in Int /\ q[i].bytes \in Nat
    BY <1>1, <2>1, <2>3, EndFacts, MessageFacts
  <2>5. QED
    BY <2>2, <2>4
<1>4. QED
  BY <1>3 DEF Overdrawn

-----------------------------------------------------------------------------
(* The invariant                                                            *)

(* What is left in a buffer is less than the message it belongs to.         *)
Incomplete(b, w) == IF w = <<>> THEN b = 0 ELSE b < w[1].size

Balanced(s, n, t) == Debt(s) = n + Owed(t)

FlowInv ==
  /\ out \in [Side -> End] /\ buffer \in [Side -> Nat] /\ leaked \in [Side -> Nat]
  /\ \A e \in Side : Balanced(out[e], leaked[e], out[Other(e)])
  /\ ~ lost => \A e \in Side : Incomplete(buffer[e], out[e].wire)
  /\ LostOnlyForHugeMessage

LEMMA OtherFacts ==
  ASSUME NEW e \in Side
  PROVE  /\ Other(e) \in Side /\ Other(e) # e /\ Other(Other(e)) = e
         /\ Side = {e, Other(e)}
<1>1. PICK a, b \in Side : a # b /\ Side = {a, b}
  BY FlowAssumption
<1>2. Other(e) \in Side /\ Other(e) # e
  <2>1. \E o \in Side : o # e
    BY <1>1
  <2>2. QED
    BY <2>1 DEF Other
<1>3. Side = {e, Other(e)}
  BY <1>1, <1>2
<1>4. Other(Other(e)) \in Side /\ Other(Other(e)) # Other(e)
  <2>1. \E o \in Side : o # Other(e)
    BY <1>1
  <2>2. QED
    BY <2>1 DEF Other
<1>5. QED
  BY <1>2, <1>3, <1>4

LEMMA IncompleteKept ==
  ASSUME NEW s, NEW t, NEW a \in Int, NEW c \in Int, Becomes(s, t, a, c),
         NEW b \in Nat, Incomplete(b, s.wire)
  PROVE  Incomplete(b, t.wire)
<1>1. /\ t \in End
      /\ s.wire # <<>> => t.wire # <<>> /\ t.wire[1] = s.wire[1]
  BY DEF Becomes
<1>2. CASE s.wire # <<>>
  BY <1>1, <1>2 DEF Incomplete
<1>3. CASE s.wire = <<>> /\ t.wire = <<>>
  BY <1>3 DEF Incomplete
<1>4. CASE s.wire = <<>> /\ t.wire # <<>>
  <2>1. b = 0
    BY <1>4 DEF Incomplete
  <2>2. t.wire \in Seq(Message)
    BY <1>1 DEF End
  <2>3. t.wire[1] \in Message
    BY <1>4, <2>2
  <2>4. t.wire[1].size \in Nat \ {0}
    BY <2>3, MessageFacts
  <2>5. b < t.wire[1].size
    BY <2>1, <2>4
  <2>6. QED
    BY <1>4, <2>5 DEF Incomplete
<1>5. QED
  BY <1>2, <1>3, <1>4

LEMMA InitHolds == FlowInit => FlowInv
<1> SUFFICES ASSUME FlowInit PROVE FlowInv
  OBVIOUS
<1>1. PICK s : s = [queue |-> <<>>, sent |-> 0, wire |-> <<>>]
  OBVIOUS
<1>2. s \in End /\ s.wire = <<>> /\ s.queue = <<>> /\ s.sent = 0
  <2>1. <<>> \in Seq(Message) /\ 0 \in Int
    OBVIOUS
  <2>2. QED
    BY <1>1, <2>1 DEF End
<1>3. Bytes(<<>>) = 0 /\ AckedBytes(<<>>) = 0
  BY SumsOfFew
<1>4. Debt(s) = 0 /\ Owed(s) = 0
  BY <1>2, <1>3 DEF Debt, Owed
<1>5. /\ out = [e \in Side |-> s] /\ buffer = [e \in Side |-> 0]
      /\ leaked = [e \in Side |-> 0] /\ lost = FALSE
  BY <1>1 DEF FlowInit
<1>6. Balanced(s, 0, s) /\ Incomplete(0, <<>>)
  BY <1>4 DEF Balanced, Incomplete
<1>7. \A e \in Side : Balanced(out[e], leaked[e], out[Other(e)])
  BY <1>5, <1>6, OtherFacts
<1>8. \A e \in Side : Incomplete(buffer[e], out[e].wire)
  BY <1>2, <1>5, <1>6
<1>9. LostOnlyForHugeMessage
  BY <1>5 DEF LostOnlyForHugeMessage
<1>10. QED
  BY <1>2, <1>5, <1>7, <1>8, <1>9 DEF FlowInv

LEMMA NodeSendsHolds ==
  ASSUME FlowInv, NEW e \in Side, NEW k \in Kinds, NodeSends(e, k)
  PROVE  FlowInv'
<1>1. PICK o \in Side : o = Other(e)
  BY OtherFacts
<1>2. o # e /\ Other(o) = e /\ Side = {e, o}
  BY <1>1, OtherFacts
<1>3. PICK s, t : s = out[e] /\ t \in Send(s, Data(k)) /\ out' = [out EXCEPT ![e] = t]
  BY DEF NodeSends
<1>4. /\ ~ lost /\ lost' = lost /\ buffer' = buffer /\ leaked' = leaked
      /\ out' = [out EXCEPT ![e] = t]
  BY <1>3 DEF NodeSends
<1>5. /\ out \in [Side -> End] /\ buffer \in [Side -> Nat] /\ leaked \in [Side -> Nat]
      /\ Balanced(s, leaked[e], out[o]) /\ Balanced(out[o], leaked[o], s)
      /\ Incomplete(buffer[e], s.wire) /\ Incomplete(buffer[o], out[o].wire)
  BY <1>1, <1>2, <1>3, <1>4 DEF FlowInv
<1>6. s \in End /\ out[o] \in End
  BY <1>3, <1>5
<1>7. Becomes(s, t, 0, 0)
  <2>1. PICK m \in Message : m = Data(k) /\ m.bytes = 0
    BY MessageFacts
  <2>2. Becomes(s, t, 0, IF QueueFull(s) THEN 0 ELSE m.bytes)
    BY <1>3, <1>6, <2>1, SendFacts
  <2>3. (IF QueueFull(s) THEN 0 ELSE m.bytes) = 0
    BY <2>1
  <2>4. QED
    BY <1>3, <2>1, <2>2, <2>3
<1>8. t \in End /\ Debt(t) = Debt(s) /\ Owed(t) = Owed(s)
  BY <1>6, <1>7, EndFacts DEF Becomes
<1>9. /\ out' \in [Side -> End] /\ out'[e] = t /\ out'[o] = out[o]
      /\ buffer' \in [Side -> Nat] /\ leaked' \in [Side -> Nat]
  BY <1>2, <1>4, <1>5, <1>8
<1>10. Balanced(t, leaked[e], out[o]) /\ Balanced(out[o], leaked[o], t)
  BY <1>5, <1>8 DEF Balanced
<1>11. Incomplete(buffer[e], t.wire)
  BY <1>5, <1>7, IncompleteKept
<1>12. \A x \in Side : Balanced(out'[x], leaked'[x], out'[Other(x)])
  BY <1>1, <1>2, <1>4, <1>9, <1>10
<1>13. \A x \in Side : Incomplete(buffer'[x], out'[x].wire)
  BY <1>2, <1>4, <1>5, <1>9, <1>11
<1>14. LostOnlyForHugeMessage'
  BY <1>4 DEF LostOnlyForHugeMessage
<1>15. QED
  BY <1>9, <1>12, <1>13, <1>14 DEF FlowInv

(* A read that is too much for the buffer: the message at its front, almost *)
(* complete, left no room.                                                  *)
LEMMA OverrunHolds ==
  ASSUME FlowInv, NEW e \in Side, NEW n \in 1 .. ReadSize, ~ lost,
         buffer[e] + n <= Bytes(out[e].wire), Overrun(buffer[e] + n),
         lost' = TRUE, UNCHANGED <<out, buffer, leaked>>
  PROVE  FlowInv'
<1>1. PICK s, b : s = out[e] /\ b = buffer[e]
  OBVIOUS
<1>2. s \in End /\ b \in Nat /\ Incomplete(b, s.wire) /\ b + n <= Bytes(s.wire) /\ b + n > MaxOut
  BY <1>1 DEF FlowInv, Overrun
<1>3. n \in Nat /\ n <= ReadSize /\ ReadSize \in Nat /\ MaxOut \in Nat
  BY FlowAssumption
<1>4. s.wire # <<>>
  <2>1. SUFFICES ASSUME s.wire = <<>> PROVE FALSE
    OBVIOUS
  <2>2. Bytes(s.wire) = 0
    BY <2>1, SumsOfFew
  <2>3. QED
    BY <1>2, <1>3, <2>2
<1>5. b < s.wire[1].size
  BY <1>2, <1>4 DEF Incomplete
<1>6. s.wire \in Seq(Message) /\ 1 \in DOMAIN s.wire
  BY <1>2, <1>4 DEF End
<1>7. s.wire[1].size \in Nat
  BY <1>6, MessageFacts
<1>8. s.wire[1].size - 1 + ReadSize > MaxOut
  BY <1>2, <1>3, <1>5, <1>7
<1>9. LostOnlyForHugeMessage'
  <2>1. out'[e].wire[1].size - 1 + ReadSize > MaxOut /\ 1 \in DOMAIN out'[e].wire
    BY <1>1, <1>6, <1>8
  <2>2. QED
    BY <2>1 DEF LostOnlyForHugeMessage
<1>10. QED
  BY <1>9 DEF FlowInv, Balanced

(* A read that fits.                                                        *)
LEMMA ReadHolds ==
  ASSUME FlowInv, NEW e \in Side, NEW n \in 1 .. ReadSize, DataReceived(e, n),
         ~ Overrun(buffer[e] + n)
  PROVE  FlowInv'
<1>1. PICK o \in Side : o = Other(e)
  BY OtherFacts
<1>2. o # e /\ Other(o) = e /\ Side = {e, o}
  BY <1>1, OtherFacts
<1>3. PICK s, r, total, read : /\ s = out[e] /\ r = out[o] /\ total = buffer[e] + n
                               /\ read = Whole(s.wire, total)
  OBVIOUS
<1>4. PICK k, w : k = Len(read) /\ w = LeftOver(s.wire, k)
  OBVIOUS
<1>5. PICK acks : acks = (read # <<>> /\ ~ IsAck(read[k]))
  OBVIOUS
<1>6. PICK m, u : m = Ack(Bytes(read)) /\ u = [s EXCEPT !.wire = w]
  OBVIOUS
<1>7. /\ ~ lost /\ total <= Bytes(s.wire)
      /\ buffer' = [buffer EXCEPT ![e] = total - Bytes(read)]
      /\ lost' = Overdrawn(r, read)
  BY <1>1, <1>3, <1>4 DEF DataReceived
<1>40. PICK h, t :
         /\ h \in Handled(r, read)[k]
         /\ t \in IF acks THEN Send(h, m) ELSE {h}
         /\ out' = [out EXCEPT ![e].wire = SubSeq(@, Len(read) + 1, Len(@)), ![o] = t]
         /\ leaked' = [leaked EXCEPT ![e] =
                         IF acks /\ ~ QueueFull(h) THEN @ ELSE @ + Bytes(read)]
  BY <1>1, <1>3, <1>4, <1>5, <1>6 DEF DataReceived
<1>41. PICK full : full = (acks /\ ~ QueueFull(h))
  OBVIOUS
<1>42. leaked' = [leaked EXCEPT ![e] = IF full THEN @ ELSE @ + Bytes(read)]
  BY <1>40, <1>41
<1>8. /\ out \in [Side -> End] /\ buffer \in [Side -> Nat] /\ leaked \in [Side -> Nat]
      /\ Balanced(s, leaked[e], r) /\ Balanced(r, leaked[o], s)
      /\ Incomplete(buffer[e], s.wire) /\ Incomplete(buffer[o], r.wire)
  BY <1>1, <1>2, <1>3, <1>7 DEF FlowInv
<1>9. /\ s \in End /\ r \in End /\ total \in Nat /\ leaked[e] \in Nat /\ leaked[o] \in Nat
      /\ buffer[o] \in Nat
  BY <1>3, <1>8
<1>10. /\ s.wire \in Seq(Message) /\ s.queue \in Seq(Message) /\ s.sent \in Int
       /\ Bytes(s.wire) \in Nat
  BY <1>9, EndFacts
(* The messages read and those left on the wire.                            *)
<1>11. /\ k \in 0 .. Len(s.wire) /\ read = Taken(s.wire, k)
       /\ SizeUpTo(s.wire)[k] <= total
       /\ k = Len(s.wire) \/ SizeUpTo(s.wire)[k + 1] > total
  <2>1. PICK p : p = Prefix(s.wire, total)
    OBVIOUS
  <2>2. /\ p \in 0 .. Len(s.wire) /\ SizeUpTo(s.wire)[p] <= total
        /\ p = Len(s.wire) \/ SizeUpTo(s.wire)[p + 1] > total
    BY <1>9, <1>10, <2>1, PrefixFacts
  <2>3. read = Taken(s.wire, p)
    BY <1>3, <2>1 DEF Whole, Taken
  <2>4. Len(Taken(s.wire, p)) = p
    BY <1>10, <2>2, Halves
  <2>5. k = p
    BY <1>4, <2>3, <2>4
  <2>6. QED
    BY <2>2, <2>3, <2>5
<1>12. /\ read \in Seq(Message) /\ w \in Seq(Message)
       /\ Bytes(read) = SizeUpTo(s.wire)[k]
       /\ Bytes(s.wire) = Bytes(read) + Bytes(w)
       /\ AckedBytes(s.wire) = AckedBytes(read) + AckedBytes(w)
       /\ k < Len(s.wire) => w # <<>> /\ w[1] = s.wire[k + 1]
       /\ k = Len(s.wire) => w = <<>>
  <2>1. PICK q : q = s.wire
    OBVIOUS
  <2>2. q \in Seq(Message) /\ k \in 0 .. Len(q) /\ read = Taken(q, k) /\ w = LeftOver(q, k)
    BY <1>4, <1>10, <1>11, <2>1
  <2>3. /\ Taken(q, k) \in Seq(Message) /\ LeftOver(q, k) \in Seq(Message)
        /\ Bytes(Taken(q, k)) = SizeUpTo(q)[k]
        /\ Bytes(q) = Bytes(Taken(q, k)) + Bytes(LeftOver(q, k))
        /\ AckedBytes(q) = AckedBytes(Taken(q, k)) + AckedBytes(LeftOver(q, k))
        /\ k < Len(q) => LeftOver(q, k) # <<>> /\ LeftOver(q, k)[1] = q[k + 1]
        /\ k = Len(q) => LeftOver(q, k) = <<>>
    BY <2>2, Halves
  <2>4. QED
    BY <2>1, <2>2, <2>3
<1>13. /\ Bytes(read) \in Nat /\ Bytes(w) \in Nat
       /\ AckedBytes(read) \in Nat /\ AckedBytes(w) \in Nat
  BY <1>12, SumsGrow
<1>14. total - Bytes(read) \in Nat /\ Incomplete(total - Bytes(read), w)
  <2>1. Bytes(read) <= total
    BY <1>11, <1>12
  <2>2. CASE k = Len(s.wire)
    <3>1. w = <<>> /\ Bytes(w) = 0
      BY <1>12, <2>2, SumsOfFew
    <3>2. total - Bytes(read) = 0
      BY <1>7, <1>9, <1>12, <1>13, <2>1, <3>1
    <3>3. QED
      BY <3>1, <3>2 DEF Incomplete
  <2>3. CASE k < Len(s.wire)
    <3>1. k + 1 \in 1 .. Len(s.wire) /\ (k + 1) - 1 = k /\ k # Len(s.wire)
      BY <1>10, <1>11, <2>3
    <3>2. SizeUpTo(s.wire)[k + 1] = SizeUpTo(s.wire)[k] + s.wire[k + 1].size
      BY <1>10, <3>1, SumsGrow
    <3>3. w # <<>> /\ w[1] = s.wire[k + 1] /\ w[1].size \in Nat
      BY SMTT(60), <1>10, <1>12, <2>3, <3>1, MessageFacts
    <3>4. Bytes(read) + w[1].size > total
      BY <1>11, <1>12, <3>1, <3>2, <3>3
    <3>5. total - Bytes(read) < w[1].size /\ total - Bytes(read) \in Nat
      BY SMTT(60), <1>9, <1>13, <2>1, <3>3, <3>4
    <3>6. QED
      BY <3>3, <3>5 DEF Incomplete
  <2>4. Len(s.wire) \in Nat
    BY <1>10
  <2>5. QED
    BY <1>11, <2>2, <2>3, <2>4
(* The side that reads.                                                     *)
<1>15. Becomes(r, h, AckedBytes(read), 0)
  <2>1. k \in 0 .. Len(read) /\ AckedUpTo(read)[k] = AckedBytes(read)
    BY <1>4, <1>11 DEF AckedBytes
  <2>2. Becomes(r, h, AckedUpTo(read)[k], 0)
    BY <1>9, <1>12, <1>40, <2>1, HandledFacts
  <2>3. QED
    BY <2>1, <2>2
<1>16. PICK c \in Nat : c = IF full THEN Bytes(read) ELSE 0
  BY <1>13
<1>17. Becomes(h, t, 0, c)
  <2>1. h \in End
    BY <1>15 DEF Becomes
  <2>2. CASE acks
    <3>1. m \in Message /\ m.bytes = Bytes(read)
      BY <1>6, <1>13, MessageFacts
    <3>2. t \in Send(h, m)
      BY <1>40, <2>2
    <3>3. Becomes(h, t, 0, IF QueueFull(h) THEN 0 ELSE m.bytes)
      BY <2>1, <3>1, <3>2, SendFacts
    <3>4. (IF QueueFull(h) THEN 0 ELSE m.bytes) = c
      BY <1>16, <1>41, <2>2, <3>1
    <3>5. QED
      BY <3>3, <3>4
  <2>3. CASE ~ acks
    <3>1. t = h /\ c = 0
      BY <1>16, <1>40, <1>41, <2>3
    <3>2. Debt(h) \in Int /\ Owed(h) \in Nat
      BY <2>1, EndFacts
    <3>3. QED
      BY <2>1, <3>1, <3>2 DEF Becomes
  <2>4. QED
    BY <2>2, <2>3
<1>18. Becomes(r, t, AckedBytes(read), c)
  <2>1. Becomes(r, t, AckedBytes(read) + 0, 0 + c)
    BY <1>9, <1>13, <1>15, <1>16, <1>17, BecomesTwice
  <2>2. AckedBytes(read) + 0 = AckedBytes(read) /\ 0 + c = c
    BY <1>13, <1>16
  <2>3. QED
    BY <2>1, <2>2
<1>19. /\ Debt(r) \in Int /\ Owed(r) \in Nat /\ Debt(s) \in Int /\ Owed(s) \in Nat
       /\ AckedBytes(s.queue) \in Nat
  BY <1>9, EndFacts
<1>20. t \in End /\ Debt(t) = Debt(r) - AckedBytes(read) /\ Owed(t) = Owed(r) + c
  BY <1>18 DEF Becomes
(* The side that wrote.                                                     *)
<1>21. /\ u \in End /\ u.wire = w /\ u.sent = s.sent /\ u.queue = s.queue
  BY <1>6, <1>9, <1>12 DEF End
<1>22. Debt(u) = Debt(s) + Bytes(read) /\ Owed(u) = Owed(s) - AckedBytes(read)
  <2>1. s.sent - Bytes(w) = (s.sent - Bytes(s.wire)) + Bytes(read)
    BY SMTT(60), <1>10, <1>12, <1>13
  <2>2. AckedBytes(s.queue) + AckedBytes(w) =
          (AckedBytes(s.queue) + AckedBytes(s.wire)) - AckedBytes(read)
    BY SMTT(60), <1>12, <1>13, <1>19
  <2>3. QED
    BY <1>21, <2>1, <2>2 DEF Debt, Owed
<1>23. PICK x \in Nat : x = IF full THEN leaked[e] ELSE leaked[e] + Bytes(read)
  BY <1>9, <1>13
<1>24. x + c = leaked[e] + Bytes(read)
  BY <1>9, <1>13, <1>16, <1>23
<1>25. /\ out' \in [Side -> End] /\ out'[e] = u /\ out'[o] = t
       /\ buffer' \in [Side -> Nat] /\ leaked' \in [Side -> Nat]
       /\ leaked'[e] = x /\ leaked'[o] = leaked[o]
       /\ buffer'[e] = total - Bytes(read) /\ buffer'[o] = buffer[o]
  <2>1. out' = [[out EXCEPT ![e] = u] EXCEPT ![o] = t]
    BY <1>2, <1>3, <1>4, <1>6, <1>8, <1>40 DEF LeftOver
  <2>2. out' \in [Side -> End] /\ out'[e] = u /\ out'[o] = t
    BY <1>2, <1>8, <1>20, <1>21, <2>1
  <2>3. QED
    BY <1>2, <1>7, <1>8, <1>14, <1>23, <1>42, <2>2
<1>26. Balanced(u, x, t) /\ Balanced(t, leaked[o], u)
  <2>1. Debt(s) = leaked[e] + Owed(r) /\ Debt(r) = leaked[o] + Owed(s)
    BY <1>8 DEF Balanced
  <2>2. Debt(u) = x + Owed(t) /\ Debt(t) = leaked[o] + Owed(u)
    BY <1>9, <1>13, <1>16, <1>19, <1>20, <1>22, <1>23, <1>24, <2>1
  <2>3. QED
    BY <2>2 DEF Balanced
<1>27. Incomplete(buffer[o], t.wire)
  BY <1>8, <1>9, <1>13, <1>16, <1>18, IncompleteKept
<1>28. \A y \in Side : Balanced(out'[y], leaked'[y], out'[Other(y)])
  BY <1>1, <1>2, <1>25, <1>26
<1>29. \A y \in Side : Incomplete(buffer'[y], out'[y].wire)
  BY <1>2, <1>14, <1>21, <1>25, <1>27
<1>30. ~ lost'
  <2>1. Debt(r) >= AckedBytes(read)
    <3>1. Debt(r) = leaked[o] + Owed(s) /\ Owed(s) = AckedBytes(s.queue) + AckedBytes(s.wire)
      BY <1>8 DEF Balanced, Owed
    <3>2. AckedBytes(s.wire) \in Nat /\ AckedBytes(s.wire) >= AckedBytes(read)
      BY <1>12, <1>13
    <3>3. QED
      BY <1>9, <1>13, <1>19, <3>1, <3>2
  <2>2. QED
    BY <1>7, <1>9, <1>12, <2>1, NeverOverdrawn
<1>31. LostOnlyForHugeMessage'
  BY <1>30 DEF LostOnlyForHugeMessage
<1>32. QED
  BY <1>25, <1>28, <1>29, <1>31 DEF FlowInv

LEMMA DataReceivedHolds ==
  ASSUME FlowInv, NEW e \in Side, NEW n \in 1 .. ReadSize, DataReceived(e, n)
  PROVE  FlowInv'
<1>1. CASE Overrun(buffer[e] + n)
  <2>1. /\ ~ lost /\ buffer[e] + n <= Bytes(out[e].wire)
        /\ lost' = TRUE /\ UNCHANGED <<out, buffer, leaked>>
    BY <1>1 DEF DataReceived
  <2>2. QED
    BY <1>1, <2>1, OverrunHolds
<1>2. CASE ~ Overrun(buffer[e] + n)
  BY <1>2, ReadHolds
<1>3. QED
  BY <1>1, <1>2

-----------------------------------------------------------------------------
(* The invariant holds of every reachable state.                            *)
THEOREM FlowInvariant == FlowSpec => []FlowInv
<1>1. FlowInit => FlowInv
  BY InitHolds
<1>2. FlowInv /\ [FlowNext]_flowVars => FlowInv'
  <2> SUFFICES ASSUME FlowInv, [FlowNext]_flowVars PROVE FlowInv'
    OBVIOUS
  <2>1. CASE UNCHANGED flowVars
    BY <2>1 DEF flowVars, FlowInv, Balanced, LostOnlyForHugeMessage
  <2>2. CASE FlowNext
    <3>1. ASSUME NEW e \in Side, NEW k \in Kinds, NodeSends(e, k)
          PROVE  FlowInv'
      BY <3>1, NodeSendsHolds
    <3>2. ASSUME NEW e \in Side, NEW n \in 1 .. ReadSize, DataReceived(e, n)
          PROVE  FlowInv'
      BY <3>2, DataReceivedHolds
    <3>3. QED
      BY <2>2, <3>1, <3>2 DEF FlowNext
  <2>3. QED
    BY <2>1, <2>2
<1>3. QED
  BY <1>1, <1>2, PTL DEF FlowSpec

(* bytes_sent is what is on the wire, what is being acknowledged and what   *)
(* has leaked, for messages, reads, queues and limits of any size.          *)
THEOREM EveryByteAccounted == FlowSpec => []BytesAccounted
<1>1. FlowInv => BytesAccounted
  <2> SUFFICES ASSUME FlowInv, NEW e \in Side
               PROVE  out[e].sent = Bytes(out[e].wire) + leaked[e]
                        + AckedBytes(out[Other(e)].queue) + AckedBytes(out[Other(e)].wire)
    BY DEF BytesAccounted
  <2>1. PICK s, t : s = out[e] /\ t = out[Other(e)]
    OBVIOUS
  <2>2. s \in End /\ t \in End /\ leaked[e] \in Nat /\ Balanced(s, leaked[e], t)
    BY <2>1, OtherFacts DEF FlowInv
  <2>3. s.sent \in Int /\ Bytes(s.wire) \in Nat
    BY <2>2, EndFacts
  <2>4. AckedBytes(t.queue) \in Nat /\ AckedBytes(t.wire) \in Nat
    BY <2>2, EndFacts
  <2>5. s.sent - Bytes(s.wire) = leaked[e] + (AckedBytes(t.queue) + AckedBytes(t.wire))
    BY <2>2 DEF Balanced, Debt, Owed
  <2>6. QED
    BY SMTT(60), <2>1, <2>2, <2>3, <2>4, <2>5
<1>2. QED
  BY <1>1, FlowInvariant, PTL

(* Two ends with this code never lose their connection over                *)
(* acknowledgements, and over the size of the buffer only for a message     *)
(* that leaves no room for one more read.                                   *)
THEOREM LostOnlyForTheHuge == FlowSpec => []LostOnlyForHugeMessage
<1>1. FlowInv => LostOnlyForHugeMessage
  BY DEF FlowInv
<1>2. QED
  BY <1>1, FlowInvariant, PTL

=============================================================================
