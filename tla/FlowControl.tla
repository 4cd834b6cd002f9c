---------------------------- MODULE FlowControl ----------------------------
(* P2PProtocol between two nodes that both run this code, over one TCP      *)
(* connection: a side counts the bytes it has written, stops at a limit and *)
(* goes on when the other side acknowledges.  A read delivers any number of *)
(* bytes, so messages arrive in pieces and several at once.  The outgoing   *)
(* queue is a heap by priority and whole second, so that messages of one    *)
(* priority may leave in any order; acknowledgements share their priority,  *)
(* the first, with blocks, versions and five more.  The message rate limits, *)
(* which hold a side back until the next minute, are left out.  No message  *)
(* expires: is_expired is false at any age.                                 *)
EXTENDS Integers, SequencesExt

CONSTANTS
  Side,       \* the two ends
  Kinds,      \* messages but acknowledgements: size, and p2p_msg_priority
  AckSize,
  MaxOut,     \* max_bytes_out
  ReadSize,   \* the most bytes one read delivers
  OutgoingSize,  \* p2p_q_size
  MaxSends    \* bound: MaxSends[e] messages are given to e to send

ASSUME FlowAssumption ==
  /\ \E a, b \in Side : a # b /\ Side = {a, b}
  /\ Kinds \subseteq [size : 1 .. MaxOut, priority : Nat]
  /\ AckSize \in 1 .. MaxOut
  /\ {MaxOut, ReadSize, OutgoingSize} \subseteq Nat \ {0}
  /\ MaxSends \in [Side -> Nat]

VARIABLES
  out,     \* out[e].queue: outgoing_queue, .sent: bytes_sent, .wire: written, not processed
  buffer,  \* buffer[e]: bytes of e's wire that the other side holds unprocessed
  leaked,  \* history: bytes of e that the other side will never acknowledge
  sends,   \* messages given to e so far
  lost     \* the connection has been closed

flowVars == <<out, buffer, leaked, sends, lost>>

Other(e) == CHOOSE o \in Side : o # e

Data(k) == [kind |-> "data", size |-> k.size, priority |-> k.priority, bytes |-> 0]
Ack(n) == [kind |-> "ack", size |-> AckSize, priority |-> 0, bytes |-> n]
IsAck(m) == m.kind = "ack"

(* Cumulative sizes of the messages of s, and of the bytes they acknowledge. *)
SizeUpTo(s) ==
  LET total[i \in 0 .. Len(s)] == IF i = 0 THEN 0 ELSE total[i - 1] + s[i].size IN total

AckedUpTo(s) ==
  LET total[i \in 0 .. Len(s)] == IF i = 0 THEN 0 ELSE total[i - 1] + s[i].bytes IN total

Bytes(s)      == SizeUpTo(s)[Len(s)]
AckedBytes(s) == AckedUpTo(s)[Len(s)]

FlowInit ==
  /\ out = [e \in Side |-> [queue |-> <<>>, sent |-> 0, wire |-> <<>>]]
  /\ buffer = [e \in Side |-> 0]
  /\ leaked = [e \in Side |-> 0]
  /\ sends = [e \in Side |-> 0]
  /\ lost = FALSE

-----------------------------------------------------------------------------

(* How many messages at the front of q fit n bytes together.               *)
Prefix(q, n) ==
  LET size == SizeUpTo(q)
  IN CHOOSE k \in 0 .. Len(q) : size[k] <= n /\ (k = Len(q) \/ size[k + 1] > n)

(* get_bytes_from_q.                                                       *)
Batch(q) == Prefix(q, MaxOut)

(* put: m may come to stand at any place that its priority allows.         *)
Places(q, m) ==
  {k \in 1 .. Len(q) + 1 : /\ \A i \in 1 .. k - 1 : q[i].priority <= m.priority
                          /\ \A i \in k .. Len(q) : m.priority <= q[i].priority}

Put(q, m) == {InsertAt(q, k, m) : k \in Places(q, m)}

(* The message that did not fit the batch is put back.                     *)
PutBack(q) == IF q = <<>> THEN {q} ELSE Put(Tail(q), Head(q))

Counted_PerWrite(sent, batch) == sent + (IF batch = <<>> THEN 0 ELSE batch[1].size)

Counted(sent, batch) == sent + Bytes(batch)

(* What send_next may make of the side s.                                  *)
SendNext(s) ==
  IF s.sent >= MaxOut THEN {s}
  ELSE LET k == Batch(s.queue)
       IN {[queue |-> q,
            sent |-> Counted(s.sent, SubSeq(s.queue, 1, k)),
            wire |-> s.wire \o SubSeq(s.queue, 1, k)] :
             q \in PutBack(SubSeq(s.queue, k + 1, Len(s.queue)))}

QueueFull(s) == Len(s.queue) >= OutgoingSize

(* A full queue drops the message.                                         *)
Send(s, m) ==
  IF QueueFull(s) THEN {s}
  ELSE UNION {SendNext([s EXCEPT !.queue = q]) : q \in Put(s.queue, m)}

HandleAck_NoSendNext(s, m) == IF IsAck(m) THEN {[s EXCEPT !.sent = @ - m.bytes]} ELSE {s}

(* handle_p2p_acknowledgement; other messages change nothing here.         *)
HandleAck(s, m) == IF IsAck(m) THEN SendNext([s EXCEPT !.sent = @ - m.bytes]) ELSE {s}

-----------------------------------------------------------------------------

NodeSends(e, k) ==
  /\ ~ lost
  /\ sends[e] < MaxSends[e]
  /\ sends' = [sends EXCEPT ![e] = @ + 1]
  /\ \E s \in Send(out[e], Data(k)) : out' = [out EXCEPT ![e] = s]
  /\ UNCHANGED <<buffer, leaked, lost>>

(* _parse_buffer: the whole messages among the first n bytes.              *)
Whole(w, n) == SubSeq(w, 1, Prefix(w, n))

(* What handling the messages q one after the other may make of the side s. *)
Handled(s, q) ==
  LET after[i \in 0 .. Len(q)] ==
        IF i = 0 THEN {s} ELSE UNION {HandleAck(t, q[i]) : t \in after[i - 1]}
  IN after

(* An acknowledgement among the messages q takes bytes_sent below zero.    *)
Overdrawn(s, q) ==
  \E i \in DOMAIN q : IsAck(q[i]) /\ \E t \in Handled(s, q)[i - 1] : t.sent < q[i].bytes

Overrun_AtLimit(total) == total >= MaxOut

Overrun(total) == total > MaxOut

(* dataReceived at the side that e writes to, with n more bytes.  The      *)
(* bytes of the messages read are acknowledged together, unless the last   *)
(* of them is an acknowledgement itself.                                   *)
DataReceived(e, n) ==
  LET o == Other(e)
      total == buffer[e] + n
      read == Whole(out[e].wire, total)
      answers == read # <<>> /\ ~ IsAck(read[Len(read)])
  IN /\ ~ lost
     /\ total <= Bytes(out[e].wire)
     /\ IF Overrun(total)
        THEN lost' = TRUE /\ UNCHANGED <<out, buffer, leaked>>
        ELSE /\ \E s \in Handled(out[o], read)[Len(read)] :
                  /\ \E t \in IF answers THEN Send(s, Ack(Bytes(read))) ELSE {s} :
                       out' = [out EXCEPT ![e].wire = SubSeq(@, Len(read) + 1, Len(@)),
                                          ![o] = t]
                  /\ leaked' = [leaked EXCEPT ![e] =
                                  IF answers /\ ~ QueueFull(s) THEN @ ELSE @ + Bytes(read)]
             /\ buffer' = [buffer EXCEPT ![e] = total - Bytes(read)]
             /\ lost' = Overdrawn(out[o], read)
     /\ UNCHANGED sends

FlowNext ==
  \E e \in Side :
    \/ \E k \in Kinds : NodeSends(e, k)
    \/ \E n \in 1 .. ReadSize : DataReceived(e, n)

(* What has been written arrives in the end.                               *)
Fairness == \A e \in Side : WF_flowVars(\E n \in 1 .. ReadSize : DataReceived(e, n))

FlowSpec == FlowInit /\ [][FlowNext]_flowVars /\ Fairness

-----------------------------------------------------------------------------
(* bytes_sent is what is on the wire, what is being acknowledged and what   *)
(* the other side has read without acknowledging it: it is never below     *)
(* zero, and the last part never leaves it.                                *)
BytesAccounted ==
  \A e \in Side :
    out[e].sent = Bytes(out[e].wire) + leaked[e]
                    + AckedBytes(out[Other(e)].queue) + AckedBytes(out[Other(e)].wire)

(* Two nodes with this code close their connection on each other only if   *)
(* one sends a message so big that, almost complete in the buffer, it      *)
(* leaves no room for one more read.                                       *)
LostOnlyForHugeMessage ==
  lost => \E e \in Side : \E i \in DOMAIN out[e].wire :
            out[e].wire[i].size - 1 + ReadSize > MaxOut

(* Nothing is on its way, and all that e counts as sent will never be       *)
(* acknowledged; or there is an acknowledgement for e in the other's queue, *)
(* and the other waits in the same way.                                     *)
Stopped(e) == leaked[e] > 0 /\ leaked[e] = out[e].sent

HoldsAck(e) == \E i \in DOMAIN out[e].queue : IsAck(out[e].queue[i])

Stalled(e) ==
  /\ \A s \in Side : out[s].wire = <<>>
  /\ \/ Stopped(e)
     \/ HoldsAck(Other(e)) /\ (Stopped(Other(e)) \/ HoldsAck(e))

(* What waits in a queue is sent, unless everything comes to a stop for one *)
(* of three reasons: all that this side counts as sent was read without an *)
(* acknowledgement; so was all that the other side counts, and it holds the *)
(* acknowledgement this side waits for; each side holds, in a queue it may *)
(* not send, the acknowledgement the other waits for.                      *)
QueueDrains ==
  \A e \in Side : out[e].queue # <<>> ~> out[e].queue = <<>> \/ lost \/ Stalled(e)

=============================================================================
