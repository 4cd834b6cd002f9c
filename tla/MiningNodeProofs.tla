-------------------------- MODULE MiningNodeProofs --------------------------
(* Proofs about MiningNode, for every tree of blocks and every timing that  *)
(* the node's settings allow.                                               *)
EXTENDS MiningNode, DataLemmas

(* What a template, a content and a block of this node or of a peer can be  *)
(* while the store is what it is.                                           *)
Addresses == {NodeAddress, PoolAddress}

Contents == [parent : store, number : Nat, time : Nat, addr : Addresses]

Templates ==
  [parent : store, number : Nat, addr : Addresses, time : Nat,
   nonce : {None, "good", "bad"}, wire : BOOLEAN, handed : BOOLEAN]

Offered ==
  Block \cup [parent : store, number : Nat, time : Nat, addr : Addresses,
              via : {"native", "pool"}, whole : BOOLEAN]

Natives ==
  [state : {"off", "taken", "running", "solved"},
   old : Templates \cup {Absent}, blob : Contents \cup {Absent},
   marked : BOOLEAN, crossed : BOOLEAN]

Restarts ==
  [at : {"idle", "prepared", "read"}, old : Templates \cup {Absent}, crossed : BOOLEAN]

Apis ==
  [at : {"idle", "header", "set", "cloned"}, sol : Contents \cup {Absent},
   clone : Contents \cup {Absent}]

ChainTyped ==
  /\ store \subseteq Offered
  /\ tip \in store /\ Genesis \in store
  /\ \A b \in store \ {Genesis} : ParentOf(b) \in store

ModeTyped ==
  /\ now \in 0 .. MaxTime
  /\ enabled \in BOOLEAN /\ synced \in BOOLEAN /\ suspended \in BOOLEAN
  /\ toggler \in BOOLEAN /\ replaced \in BOOLEAN

ListTyped == future \in Seq(Offered) /\ Len(future) <= FutureSize /\ timers \subseteq Offered

LoopTyped == loop \in [on : BOOLEAN, keys : Seq(Offered), del : Offered \cup {None}]

MinerTyped ==
  /\ template \in Templates \cup {Absent}
  /\ native \in Natives
  /\ holder \in Thread \cup {None}
  /\ restart \in Restarts

ApiTyped == api \in Apis

(* A block that stands before another in the list was not much later than   *)
(* it: it came first, and then was no more than Lead ahead of the clock.    *)
Ordered(q) ==
  \A i, j \in DOMAIN q : i < j => TimeOf(q[i]) <= TimeOf(q[j]) + Drift + 1

Distinct(q) == \A i, j \in DOMAIN q : q[i] = q[j] => i = j

FutureList ==
  /\ Distinct(future) /\ Ordered(future)
  /\ \A b \in ToSet(future) : TimeOf(b) <= now + Lead

LoopSound ==
  /\ Ordered(loop.keys)
  /\ loop.on <=> loop.keys # <<>>
  /\ loop.del # None => loop.on /\ loop.del = Head(loop.keys)

(* A block of the list without a timer is due, and the loop will take it.   *)
Watched ==
  \A b \in ToSet(future) :
    \/ b \in timers \cup abandoned
    \/ b \in ToSet(loop.keys) /\ now > TimeOf(b)

(* Who is about to start the native miner, or has, works on a template of   *)
(* the node's address.                                                      *)
MinerSound ==
  /\ holder # None => template # Absent /\ template.addr = NodeAddress
  /\ restart.at # "idle" =>
       /\ template # Absent
       /\ Work(restart).addr = NodeAddress \/ restart.crossed
  /\ native.state = "running" => native.blob # Absent /\ template # Absent
  /\ NativeWorksForNode

ApiSound == api.at # "idle" => template # Absent

MiningInv ==
  /\ ChainTyped /\ ModeTyped /\ ListTyped /\ LoopTyped /\ MinerTyped /\ ApiTyped
  /\ FutureList /\ LoopSound /\ Watched
  /\ MinerSound /\ ApiSound

-----------------------------------------------------------------------------
(* Blocks and templates *)

(* Everything stays what it was while the store grows.                     *)
LEMMA StoreGrows ==
  ASSUME store \subseteq store'
  PROVE  /\ Contents \subseteq Contents' /\ Templates \subseteq Templates'
         /\ Offered \subseteq Offered' /\ Natives \subseteq Natives'
         /\ Restarts \subseteq Restarts' /\ Apis \subseteq Apis'
<1>1. Contents \subseteq Contents'
  BY DEF Contents
<1>2. Templates \subseteq Templates'
  BY DEF Templates
<1>3. Offered \subseteq Offered'
  BY DEF Offered
<1>4. Natives \subseteq Natives' /\ Restarts \subseteq Restarts' /\ Apis \subseteq Apis'
  BY <1>1, <1>2 DEF Natives, Restarts, Apis
<1>5. QED
  BY <1>1, <1>2, <1>3, <1>4

LEMMA OfferedFacts ==
  ASSUME NEW b \in Offered
  PROVE  TimeOf(b) \in Nat /\ NumberOf(b) \in Nat
BY MiningAssumption DEF Offered, TimeOf, NumberOf

(* A template has an address, so it is not the absent one.                 *)
LEMMA TemplateFacts ==
  ASSUME NEW t \in Templates
  PROVE  /\ t # Absent
         /\ t.addr \in Addresses
         /\ Content(t) \in Contents
         /\ Content(t) # Absent
         /\ \A x : [t EXCEPT !.handed = TRUE] \in Templates
         /\ [t EXCEPT !.handed = TRUE].addr = t.addr
         /\ \A n \in {"good", "bad"} : [t EXCEPT !.nonce = n, !.wire = TRUE] \in Templates
         /\ \A n : [t EXCEPT !.nonce = n, !.wire = TRUE].addr = t.addr
         /\ \A a \in Addresses : Readdress(t, a) \in Templates
<1>1. t.addr \in Addresses /\ Absent.addr = None /\ None \notin Addresses
  BY MiningAssumption DEF Templates, Absent, Addresses
<1>2. t # Absent
  BY <1>1
<1>3. Content(t) \in Contents
  BY DEF Templates, Contents, Content
<1>4. Content(t) # Absent
  BY <1>1 DEF Content
<1>5. /\ [t EXCEPT !.handed = TRUE] \in Templates
      /\ [t EXCEPT !.handed = TRUE].addr = t.addr
  BY DEF Templates
<1>6. /\ \A n \in {"good", "bad"} : [t EXCEPT !.nonce = n, !.wire = TRUE] \in Templates
      /\ \A n : [t EXCEPT !.nonce = n, !.wire = TRUE].addr = t.addr
  BY DEF Templates
<1>7. \A a \in Addresses : Readdress(t, a) \in Templates
  BY DEF Templates, Readdress
<1>8. QED
  BY <1>1, <1>2, <1>3, <1>4, <1>5, <1>6, <1>7

LEMMA NewTemplate ==
  ASSUME NEW p \in store, ChainTyped, ModeTyped, NEW addr \in Addresses, NEW handed \in BOOLEAN
  PROVE  Template(p, addr, handed) \in Templates /\ Template(p, addr, handed).addr = addr
<1>1. TimeOf(p) \in Nat /\ NumberOf(p) \in Nat
  BY OfferedFacts DEF ChainTyped
<1>2. now \in Nat
  BY MiningAssumption DEF ModeTyped
<1>3. QED
  BY <1>1, <1>2 DEF Template, Templates

LEMMA MinedFacts ==
  ASSUME NEW c \in Contents, NEW via \in {"native", "pool"}, NEW whole \in BOOLEAN
  PROVE  Mined(c, via, whole) \in Offered
BY DEF Mined, Offered, Contents

LEMMA OffFacts ==
  ASSUME NEW s \in {"off", "taken"}
  PROVE  Off(s) \in Natives /\ Off(s).state # "running"
BY DEF Off, Natives

-----------------------------------------------------------------------------
(* The template and the miner *)

Miner == MinerTyped /\ MinerSound

(* The miner is left alone, or has stopped. *)
LEMMA MinerStays ==
  ASSUME Miner, store \subseteq store', UNCHANGED <<template, holder, restart>>,
         native' = native \/ (native' \in Natives /\ native'.state # "running")
  PROVE  Miner'
<1>1. MinerTyped'
  BY StoreGrows DEF Miner, MinerTyped
<1>2. MinerSound'
  BY DEF Miner, MinerSound, NativeWorksForNode, Work
<1>3. QED
  BY <1>1, <1>2 DEF Miner

LEMMA SolvedFacts ==
  ASSUME Miner
  PROVE  Solved \in Natives /\ Solved.state # "running"
BY DEF Solved, Miner, MinerTyped, Natives

LEMMA PrepareFacts ==
  ASSUME NEW p \in store', ChainTyped', ModeTyped', now' = now, store \subseteq store',
         NEW addr \in Addresses, NEW handed \in BOOLEAN, NEW s \in {"off", "taken"},
         template' = Template(p, addr, handed), native' = Off(s)
  PROVE  /\ template' \in Templates' /\ template' # Absent /\ template'.addr = addr
         /\ native' \in Natives' /\ native'.state # "running"
<1>1. /\ TimeOf(p) \in Nat /\ NumberOf(p) \in Nat /\ now' \in Nat
  BY MiningAssumption DEF ChainTyped, ModeTyped, Offered, TimeOf, NumberOf
<1>2. template' = [parent |-> p, number |-> NumberOf(p) + 1, addr |-> addr,
                   time |-> IF now > TimeOf(p) THEN now ELSE TimeOf(p) + 1,
                   nonce |-> None, wire |-> FALSE, handed |-> handed]
  BY DEF Template
<1>3. template' \in Templates' /\ template'.addr = addr
  BY <1>1, <1>2 DEF Templates
<1>4. template' # Absent
  BY <1>3, MiningAssumption DEF Absent, Addresses
<1>5. native' \in Natives' /\ native'.state # "running"
  BY StoreGrows, OffFacts
<1>6. QED
  BY <1>3, <1>4, <1>5

(* A template for the node, under the lock, on the new tip.                *)
LEMMA PrepareKeeps ==
  ASSUME Miner, ChainTyped', ModeTyped', now' = now, store \subseteq store',
         NEW th \in Thread, holder' = th, holder = None,
         Prepare(tip', NodeAddress, FALSE, "off"), restart' = Detach(template)
  PROVE  Miner' /\ template' # Absent
<1>1. /\ template' \in Templates' /\ template' # Absent /\ template'.addr = NodeAddress
      /\ native' \in Natives' /\ native'.state # "running"
  BY PrepareFacts DEF Prepare, Addresses, ChainTyped
<1>2. restart' = restart \/ restart' = [restart EXCEPT !.old = template]
  BY DEF Detach
<1>3. restart' \in Restarts /\ restart'.at = restart.at /\ restart'.crossed = restart.crossed
  BY <1>2 DEF Miner, MinerTyped, Restarts
<1>4. ASSUME restart'.at # "idle", ~ restart'.crossed
      PROVE  Work(restart)'.addr = NodeAddress
  <2>1. template # Absent /\ Work(restart).addr = NodeAddress
    BY <1>3, <1>4 DEF Miner, MinerSound
  <2>2. CASE restart'.old = Absent
    BY <1>1, <2>2 DEF Work
  <2>3. CASE restart'.old # Absent
    <3>1. restart'.old = Work(restart)
      <4>1. CASE restart.at = "read" /\ restart.old = Absent
        BY <4>1 DEF Detach, Work, Miner, MinerTyped, Restarts
      <4>2. CASE ~ (restart.at = "read" /\ restart.old = Absent)
        BY <2>3, <4>2 DEF Detach, Work
      <4>3. QED
        BY <4>1, <4>2
    <3>2. QED
      BY <2>1, <2>3, <3>1 DEF Work
  <2>4. QED
    BY <2>2, <2>3
<1>5. MinerTyped'
  BY <1>1, <1>3, StoreGrows DEF MinerTyped, Thread
<1>6. MinerSound'
  BY <1>1, <1>4 DEF MinerSound, NativeWorksForNode
<1>7. QED
  BY <1>1, <1>5, <1>6 DEF Miner

(* _mine_next outside the lock. *)
LEMMA MineNextKeeps ==
  ASSUME Miner, ChainTyped, ChainTyped', ModeTyped', now' = now,
         UNCHANGED <<store, tip, holder>>, MineNext
  PROVE  Miner' /\ (template # Absent => template' # Absent)
<1>1. CASE suspended \/ ~ enabled
  BY <1>1, MinerStays DEF MineNext, templateVars
<1>2. CASE ~ (suspended \/ ~ enabled)
  <2>1. /\ holder = None
        /\ Prepare(tip, NodeAddress, FALSE, "off")
        /\ restart' = [at |-> "prepared", old |-> Absent, crossed |-> FALSE]
    BY <1>2 DEF MineNext, Free, NoWork
  <2>2. /\ template' \in Templates' /\ template' # Absent /\ template'.addr = NodeAddress
        /\ native' \in Natives' /\ native'.state # "running"
    BY <2>1, PrepareFacts DEF Prepare, Addresses, ChainTyped
  <2>3. Work(restart)' = template'
    BY <2>1 DEF Work
  <2>4. MinerTyped'
    BY <2>1, <2>2 DEF Miner, MinerTyped, Restarts
  <2>5. MinerSound'
    BY <2>1, <2>2, <2>3 DEF MinerSound, NativeWorksForNode
  <2>6. QED
    BY <2>2, <2>4, <2>5 DEF Miner
<1>3. QED
  BY <1>1, <1>2

(* The native miner starts on x, which is the node's work or is marked as   *)
(* crossed.                                                                *)
LEMMA StartKeeps ==
  ASSUME Miner, UNCHANGED <<store, template>>, template # Absent,
         NEW x \in Restarts, Start(x), Work(x).addr = NodeAddress \/ x.crossed,
         \/ holder' = None /\ restart' = restart
         \/ holder' = holder /\ restart' = NoWork
  PROVE  Miner'
<1>1. Work(x) \in Templates
  BY DEF Work, Restarts, Miner, MinerTyped
<1>2. native' = [state |-> "running", old |-> x.old, blob |-> Content(Work(x)),
                 marked |-> Work(x).nonce # None, crossed |-> x.crossed]
  BY SMTT(60) DEF Start
<1>3. Content(Work(x)) \in Contents /\ Content(Work(x)) # Absent
  BY <1>1, TemplateFacts
<1>4. native' \in Natives
  <2>1. x.old \in Templates \cup {Absent} /\ x.crossed \in BOOLEAN
    BY DEF Restarts
  <2>2. (Work(x).nonce # None) \in BOOLEAN
    OBVIOUS
  <2> DEFINE c == Content(Work(x))
             m == Work(x).nonce # None
  <2>3. c \in Contents /\ m \in BOOLEAN
    BY <1>3, <2>2
  <2>4. native' = [state |-> "running", old |-> x.old, blob |-> c, marked |-> m,
                   crossed |-> x.crossed]
    BY <1>2
  <2> HIDE DEF c, m
  <2>5. QED
    BY <2>1, <2>3, <2>4 DEF Natives
<1>5. Work(native)' = Work(x)
  BY <1>2 DEF Work
<1>6. restart' \in Restarts
  <2>1. NoWork \in Restarts
    BY DEF NoWork, Restarts
  <2>2. restart \in Restarts
    BY DEF Miner, MinerTyped
  <2>3. QED
    BY <2>1, <2>2, Zenon
<1>7. MinerTyped'
  BY <1>4, <1>6, StoreGrows DEF Miner, MinerTyped
<1>8. NativeWorksForNode'
  BY <1>2, <1>5 DEF NativeWorksForNode
<1>9. MinerSound'
  <2>1. native'.blob # Absent
    BY <1>2, <1>3
  <2>2. restart'.at # "idle" => Work(restart)'.addr = NodeAddress \/ restart'.crossed
    BY DEF NoWork, Miner, MinerSound, Work
  <2>3. holder' # None => template'.addr = NodeAddress
    BY DEF Miner, MinerSound
  <2>4. QED
    BY <1>8, <2>1, <2>2, <2>3 DEF MinerSound
<1>10. QED
  BY <1>7, <1>9 DEF Miner

(* The template is written to in place, and keeps its address.             *)
LEMMA WriteKeeps ==
  ASSUME Miner, UNCHANGED <<store, native, holder, restart>>,
         template # Absent, template' \in Templates, template'.addr = template.addr
  PROVE  Miner' /\ template' # Absent
<1>1. template' # Absent
  BY TemplateFacts
<1>2. MinerTyped'
  BY StoreGrows DEF Miner, MinerTyped
<1>3. /\ Work(native)'.addr = Work(native).addr
      /\ Work(restart)'.addr = Work(restart).addr
  BY DEF Work
<1>4. MinerSound'
  BY <1>1, <1>3 DEF Miner, MinerSound, NativeWorksForNode
<1>5. QED
  BY SMTT(60), <1>1, <1>2, <1>4 DEF Miner

LEMMA GetBlockToMineKeeps ==
  ASSUME Miner, ChainTyped', ModeTyped', NEW addr \in Addresses, GetBlockToMine(addr)
  PROVE  Miner' /\ (template # Absent => template' # Absent)
<1> DEFINE fits == template # Absent /\ template.parent = tip
<1>1. UNCHANGED <<store, tip, holder, now>> /\ holder = None
  BY DEF GetBlockToMine, chainVars, modeVars, Free
<1>2. CASE /\ template # Absent
           /\ template' = [template EXCEPT !.handed = TRUE]
           /\ UNCHANGED <<native, restart>>
  <2>1. template \in Templates
    BY <1>2 DEF Miner, MinerTyped
  <2>2. template' \in Templates /\ template'.addr = template.addr
    BY <1>2, <2>1, TemplateFacts
  <2>3. QED
    BY <1>1, <1>2, <2>2, WriteKeeps
<1>3. CASE /\ Prepare(tip, addr, TRUE, "taken")
           /\ restart' = [Detach(IF fits THEN Readdress(template, addr) ELSE template)
                           EXCEPT !.crossed = (restart.at # "idle")]
  <2> DEFINE t == IF fits THEN Readdress(template, addr) ELSE template
             d == Detach(t)
             c == restart.at # "idle"
  <2>1. /\ template' \in Templates' /\ template' # Absent
        /\ native' \in Natives' /\ native'.state # "running"
    BY <1>1, <1>3, PrepareFacts DEF Prepare, ChainTyped
  <2>2. t \in Templates \cup {Absent}
    BY TemplateFacts DEF Miner, MinerTyped
  <2>3. d \in Restarts /\ d.at = restart.at
    <3> HIDE DEF t
    <3>1. d = restart \/ d = [restart EXCEPT !.old = t]
      BY DEF Detach
    <3>2. QED
      BY <2>2, <3>1 DEF Miner, MinerTyped, Restarts
  <2>4. restart' = [d EXCEPT !.crossed = c] /\ c \in BOOLEAN
    BY <1>3
  <2> HIDE DEF d, t, c
  <2>5. restart' \in Restarts /\ restart'.at = restart.at /\ restart'.crossed = c
    BY <2>3, <2>4 DEF Restarts
  <2>6. MinerTyped'
    BY <1>1, <2>1, <2>5, StoreGrows DEF Miner, MinerTyped
  <2>7. MinerSound'
    BY <1>1, <2>1, <2>5 DEF MinerSound, NativeWorksForNode, c
  <2>8. QED
    BY <2>1, <2>6, <2>7 DEF Miner
<1>4. QED
  BY <1>2, <1>3 DEF GetBlockToMine

-----------------------------------------------------------------------------
(* The list of future blocks *)

SeqSound(q) == q \in Seq(Offered) /\ Distinct(q) /\ Ordered(q)

LEMMA TailKeeps ==
  ASSUME NEW q, SeqSound(q), q # <<>>
  PROVE  /\ SeqSound(Tail(q)) /\ Len(Tail(q)) = Len(q) - 1
         /\ ToSet(Tail(q)) = ToSet(q) \ {Head(q)}
<1>1. /\ Tail(q) \in Seq(Offered)
      /\ Len(Tail(q)) = Len(q) - 1 /\ Len(q) > 0
      /\ \A i \in DOMAIN Tail(q) : i + 1 \in DOMAIN q /\ Tail(q)[i] = q[i + 1]
      /\ ToSet(q) = {Head(q)} \cup ToSet(Tail(q))
  BY TailFacts DEF SeqSound
<1>2. DOMAIN Tail(q) \subseteq Nat
  BY <1>1
<1>3. Distinct(Tail(q))
  <2>1. ASSUME NEW i \in DOMAIN Tail(q), NEW j \in DOMAIN Tail(q), Tail(q)[i] = Tail(q)[j]
        PROVE  i = j
    <3>1. i + 1 \in DOMAIN q /\ j + 1 \in DOMAIN q /\ q[i + 1] = q[j + 1]
      BY <1>1, <2>1
    <3>2. i + 1 = j + 1
      BY <3>1 DEF SeqSound, Distinct
    <3>3. QED
      BY <1>2, <3>2
  <2>2. QED
    BY <2>1 DEF Distinct
<1>4. Ordered(Tail(q))
  <2>1. ASSUME NEW i \in DOMAIN Tail(q), NEW j \in DOMAIN Tail(q), i < j
        PROVE  TimeOf(Tail(q)[i]) <= TimeOf(Tail(q)[j]) + Drift + 1
    <3>1. /\ i + 1 \in DOMAIN q /\ j + 1 \in DOMAIN q /\ i + 1 < j + 1
          /\ Tail(q)[i] = q[i + 1] /\ Tail(q)[j] = q[j + 1]
      BY <1>1, <1>2, <2>1
    <3>2. QED
      BY <3>1 DEF SeqSound, Ordered
  <2>2. QED
    BY <2>1 DEF Ordered
<1>5. Head(q) \notin ToSet(Tail(q))
  <2>1. Head(q) = q[1] /\ 1 \in DOMAIN q
    BY <1>1 DEF SeqSound
  <2>2. ASSUME NEW i \in DOMAIN Tail(q), Tail(q)[i] = Head(q)
        PROVE  FALSE
    <3>1. i + 1 \in DOMAIN q /\ q[i + 1] = q[1]
      BY <1>1, <2>1, <2>2
    <3>2. i + 1 = 1
      BY <2>1, <3>1 DEF SeqSound, Distinct
    <3>3. i \in DOMAIN Tail(q) /\ i >= 1
      BY <1>1
    <3>4. QED
      BY <1>2, <3>2, <3>3
  <2>3. QED
    BY <2>2 DEF ToSet
<1>6. QED
  BY <1>1, <1>3, <1>4, <1>5 DEF SeqSound

(* A block appended is late enough to stand behind all the others.         *)
LEMMA AppendKeeps ==
  ASSUME NEW q, SeqSound(q), NEW b \in Offered, b \notin ToSet(q),
         \A x \in ToSet(q) : TimeOf(x) <= TimeOf(b) + Drift + 1
  PROVE  /\ SeqSound(Append(q, b)) /\ Len(Append(q, b)) = Len(q) + 1
         /\ ToSet(Append(q, b)) = ToSet(q) \cup {b}
<1> DEFINE a == Append(q, b)
<1>1. /\ a \in Seq(Offered)
      /\ Len(a) = Len(q) + 1
      /\ \A i \in DOMAIN q : i \in DOMAIN a /\ a[i] = q[i]
      /\ a[Len(q) + 1] = b
      /\ ToSet(a) = ToSet(q) \cup {b}
  BY AppendElements DEF SeqSound
<1>2. DOMAIN q = 1 .. Len(q) /\ DOMAIN a = 1 .. Len(q) + 1 /\ Len(q) \in Nat
  BY <1>1 DEF SeqSound
<1>3. \A i \in DOMAIN q : q[i] \in ToSet(q)
  BY DEF ToSet
<1> HIDE DEF a
<1>4. \A i \in DOMAIN a : (i \in DOMAIN q /\ a[i] = q[i]) \/ (i = Len(q) + 1 /\ a[i] = b)
  BY <1>1, <1>2
<1>5. Distinct(a)
  BY <1>2, <1>3, <1>4 DEF Distinct, SeqSound
<1>6. Ordered(a)
  <2>1. ASSUME NEW i \in DOMAIN a, NEW j \in DOMAIN a, i < j
        PROVE  TimeOf(a[i]) <= TimeOf(a[j]) + Drift + 1
    <3>1. i \in DOMAIN q /\ a[i] = q[i]
      BY <1>2, <1>4, <2>1
    <3>2. CASE j \in DOMAIN q /\ a[j] = q[j]
      BY <2>1, <3>1, <3>2 DEF Ordered, SeqSound
    <3>3. CASE a[j] = b
      BY <1>3, <3>1, <3>3
    <3>4. QED
      BY <1>4, <3>2, <3>3
  <2>2. QED
    BY <2>1 DEF Ordered
<1>7. QED
  BY <1>1, <1>5, <1>6 DEF SeqSound, a

(* What changes of the list, to a reader who waits for its blocks.         *)
ListGrows ==
  /\ timers \subseteq timers'
  /\ \A x \in ToSet(future') : x \in ToSet(future) \/ x \in timers'

LEMMA AddFutureKeeps ==
  ASSUME ModeTyped, ListTyped, FutureList, UNCHANGED <<now, store>>,
         NEW b \in Offered, NEW good, Validates(b, good), IsFuture(b), AddFuture(b)
  PROVE  ListTyped' /\ FutureList' /\ ListGrows
<1> DEFINE f == IF b \in ToSet(future) THEN future ELSE Append(future, b)
<1>1. SeqSound(future) /\ Len(future) <= FutureSize /\ FutureSize \in Nat /\ FutureSize > 0
  BY MiningAssumption DEF ListTyped, FutureList, SeqSound
<1>2. /\ now \in Nat /\ Lead \in Nat /\ Drift \in Nat /\ Lead <= 2 * Drift + 2
      /\ TimeOf(b) \in Nat /\ TimeOf(b) > now + Drift /\ TimeOf(b) <= now + Lead
  BY MiningAssumption, OfferedFacts DEF ModeTyped, IsFuture, Validates
<1>3. \A x \in ToSet(future) : x \in Offered /\ TimeOf(x) \in Nat
  BY ElementFacts, OfferedFacts DEF ListTyped
<1>4. \A x \in ToSet(future) : TimeOf(x) <= TimeOf(b) + Drift + 1
  <2>1. \A x \in ToSet(future) : TimeOf(x) <= now + Lead
    BY DEF FutureList
  <2>2. QED
    BY <1>2, <1>3, <2>1
<1>5. SeqSound(f) /\ ToSet(f) = ToSet(future) \cup {b} /\ Len(f) <= FutureSize + 1
  <2>1. CASE b \in ToSet(future)
    BY <1>1, <2>1 DEF SeqSound
  <2>2. CASE b \notin ToSet(future)
    <3>1. /\ SeqSound(Append(future, b)) /\ Len(Append(future, b)) = Len(future) + 1
          /\ ToSet(Append(future, b)) = ToSet(future) \cup {b}
      BY <1>1, <1>4, <2>2, AppendKeeps
    <3>2. Len(future) \in Nat
      BY <1>1 DEF SeqSound
    <3>3. QED
      BY <1>1, <2>2, <3>1, <3>2
  <2>3. QED
    BY <2>1, <2>2
<1>6. future' = (IF Len(f) > FutureSize THEN Tail(f) ELSE f) /\ timers' = timers \cup {b}
  BY DEF AddFuture
<1> HIDE DEF f
<1>7. SeqSound(future') /\ Len(future') <= FutureSize /\ ToSet(future') \subseteq ToSet(f)
  <2>1. CASE Len(f) > FutureSize
    <3>1. f # <<>> /\ future' = Tail(f) /\ Len(f) \in Nat
      BY <1>1, <1>5, <1>6, <2>1 DEF SeqSound
    <3>2. SeqSound(Tail(f)) /\ Len(Tail(f)) = Len(f) - 1 /\ ToSet(Tail(f)) = ToSet(f) \ {Head(f)}
      BY <1>5, <3>1, TailKeeps
    <3>3. QED
      BY <1>1, <1>5, <3>1, <3>2
  <2>2. CASE ~ (Len(f) > FutureSize)
    <3>1. Len(f) \in Nat
      BY <1>5 DEF SeqSound
    <3>2. QED
      BY <1>1, <1>5, <1>6, <2>2, <3>1
  <2>3. QED
    BY <2>1, <2>2
<1>8. ListTyped'
  <2>1. Offered' = Offered
    BY DEF Offered
  <2>2. QED
    BY <1>6, <1>7, <2>1 DEF ListTyped, SeqSound
<1>9. FutureList'
  <2>1. \A x \in ToSet(future') : TimeOf(x) <= now + Lead
    BY <1>2, <1>5, <1>7 DEF FutureList
  <2>2. QED
    BY <1>7, <2>1 DEF FutureList, SeqSound
<1>10. ListGrows
  BY <1>5, <1>6, <1>7 DEF ListGrows
<1>11. QED
  BY <1>8, <1>9, <1>10

(* The list keeps while only the store, or the clock, goes on.             *)
LEMMA ListStays ==
  ASSUME ListTyped, FutureList, ModeTyped, ModeTyped', now <= now', store \subseteq store',
         UNCHANGED futureVars
  PROVE  ListTyped' /\ FutureList' /\ ListGrows
<1>1. future \in Seq(Offered') /\ timers \subseteq Offered'
  BY StoreGrows DEF ListTyped
<1>2. \A x \in ToSet(future) : TimeOf(x) <= now' + Lead
  <2>1. now \in Nat /\ now' \in Nat /\ Lead \in Nat
    BY MiningAssumption DEF ModeTyped
  <2>2. \A x \in ToSet(future) : TimeOf(x) \in Nat /\ TimeOf(x) <= now + Lead
    BY ElementFacts, OfferedFacts DEF ListTyped, FutureList
  <2>3. QED
    BY <2>1, <2>2
<1>3. QED
  BY <1>1, <1>2 DEF ListTyped, FutureList, ListGrows, futureVars

LEMMA WatchedStays ==
  ASSUME ModeTyped, ModeTyped', now <= now', ListTyped, Watched, ListGrows,
         abandoned \subseteq abandoned', loop'.keys = loop.keys
  PROVE  Watched'
<1>1. now \in Nat /\ now' \in Nat
  BY MiningAssumption DEF ModeTyped
<1>2. ASSUME NEW x \in ToSet(future'), x \notin timers', x \notin abandoned'
      PROVE  x \in ToSet(loop'.keys) /\ now' > TimeOf(x)
  <2>1. x \in ToSet(future) /\ x \notin timers /\ x \notin abandoned
    BY <1>2 DEF ListGrows
  <2>2. x \in ToSet(loop.keys) /\ now > TimeOf(x) /\ TimeOf(x) \in Nat
    BY <2>1, ElementFacts, OfferedFacts DEF Watched, ListTyped
  <2>3. QED
    BY <1>1, <2>2
<1>3. QED
  BY <1>2 DEF Watched

-----------------------------------------------------------------------------
(* Blocks that come in *)

LEMMA AddBlockKeeps ==
  ASSUME ChainTyped, NEW b \in Offered, NEW good, Validates(b, good), AddBlock(b)
  PROVE  ChainTyped' /\ store \subseteq store'
<1>1. CASE Applies(b)
  <2>1. /\ store' = store \cup {b} /\ tip' \in {b, tip} /\ ParentOf(b) \in store
    BY <1>1 DEF AddBlock, Validates
  <2>2. Offered \subseteq Offered'
    BY <2>1, StoreGrows
  <2>3. \A x \in store' \ {Genesis} : ParentOf(x) \in store'
    BY <2>1 DEF ChainTyped
  <2>4. QED
    BY <2>1, <2>2, <2>3 DEF ChainTyped
<1>2. CASE ~ Applies(b)
  BY <1>2, StoreGrows DEF AddBlock, chainVars, ChainTyped
<1>3. QED
  BY <1>1, <1>2

LEMMA PreBlockKeeps ==
  ASSUME MiningInv, NEW th \in Thread, NEW b \in Offered, NEW good, NEW nat,
         nat = native \/ (nat \in Natives /\ nat.state # "running"),
         UNCHANGED <<modeVars, toggler>>, PreBlockLogic(th, b, good, nat)
  PROVE  /\ ChainTyped' /\ ModeTyped' /\ Miner'
         /\ ListTyped' /\ FutureList' /\ ListGrows
         /\ store \subseteq store'
         /\ template # Absent => template' # Absent
<1>1. ChainTyped /\ ModeTyped /\ Miner /\ ListTyped /\ FutureList
  BY DEF MiningInv, Miner
<1>2. now' = now /\ holder = None
  BY DEF modeVars, PreBlockLogic, Free
<1>3. now \in Int
  BY <1>1, MiningAssumption DEF ModeTyped
<1>4. CASE /\ UNCHANGED <<chainVars, futureVars, templateVars, holder, restart>>
           /\ native' = nat
  <2>1. UNCHANGED <<store, tip, template, holder, restart, replaced>>
    BY <1>4 DEF chainVars, templateVars
  <2>2. ChainTyped' /\ ModeTyped' /\ store \subseteq store'
    BY <1>1, <2>1 DEF ChainTyped, ModeTyped, modeVars, Offered, ParentOf
  <2>3. ListTyped' /\ FutureList' /\ ListGrows
    BY <1>1, <1>2, <1>3, <1>4, <2>2, ListStays
  <2>4. Miner'
    BY <1>1, <1>4, <2>1, MinerStays
  <2>5. QED
    BY <2>1, <2>2, <2>3, <2>4
<1>5. CASE /\ Validates(b, good) /\ IsFuture(b)
           /\ AddFuture(b)
           /\ UNCHANGED <<chainVars, templateVars, holder, restart>>
           /\ native' = nat
  <2>1. UNCHANGED <<store, tip, template, holder, restart, replaced>>
    BY <1>5 DEF chainVars, templateVars
  <2>2. ChainTyped' /\ ModeTyped' /\ store \subseteq store'
    BY <1>1, <2>1 DEF ChainTyped, ModeTyped, modeVars, Offered, ParentOf
  <2>3. ListTyped' /\ FutureList' /\ ListGrows
    BY <1>1, <1>2, <1>5, <2>1, AddFutureKeeps
  <2>4. Miner'
    BY <1>1, <1>5, <2>1, MinerStays
  <2>5. QED
    BY <2>1, <2>2, <2>3, <2>4
<1>6. CASE /\ Validates(b, good)
           /\ AddBlock(b)
           /\ IF tip' # tip /\ enabled /\ ~ suspended
              THEN /\ Prepare(tip', NodeAddress, FALSE, "off")
                   /\ holder' = th /\ restart' = Detach(template)
              ELSE UNCHANGED <<templateVars, holder, restart>> /\ native' = nat
           /\ UNCHANGED futureVars
  <2>1. ChainTyped' /\ store \subseteq store'
    BY <1>1, <1>6, AddBlockKeeps
  <2>2. replaced' \in BOOLEAN
    <3>1. replaced' = (replaced \/ api.at \in {"header", "set"}) \/ replaced' = replaced
      BY <1>6 DEF Prepare, templateVars
    <3>2. QED
      BY <1>1, <3>1, TruthValue DEF ModeTyped
  <2>3. ModeTyped'
    BY <1>1, <2>2 DEF ModeTyped, modeVars
  <2>4. ListTyped' /\ FutureList' /\ ListGrows
    BY <1>1, <1>2, <1>3, <1>6, <2>1, <2>3, ListStays
  <2>5. CASE tip' # tip /\ enabled /\ ~ suspended
    <3>1. Miner' /\ template' # Absent
      BY <1>1, <1>2, <1>6, <2>1, <2>3, <2>5, PrepareKeeps
    <3>2. QED
      BY <2>1, <2>3, <2>4, <3>1
  <2>6. CASE ~ (tip' # tip /\ enabled /\ ~ suspended)
    <3>1. UNCHANGED <<template, holder, restart>> /\ native' = nat
      BY <1>6, <2>6 DEF templateVars
    <3>2. Miner'
      BY <1>1, <2>1, <3>1, MinerStays
    <3>3. QED
      BY <2>1, <2>3, <2>4, <3>1, <3>2
  <2>7. QED
    BY <2>5, <2>6
<1>7. QED
  BY <1>4, <1>5, <1>6 DEF PreBlockLogic

(* The loop over the keys and the service leave their own state alone.     *)
LEMMA LoopStays ==
  ASSUME LoopTyped, LoopSound, store \subseteq store', loop' = loop
  PROVE  LoopTyped' /\ LoopSound'
<1>1. Offered \subseteq Offered'
  BY StoreGrows
<1>2. LoopTyped'
  BY <1>1 DEF LoopTyped
<1>3. LoopSound'
  BY DEF LoopSound, Ordered, TimeOf
<1>4. QED
  BY <1>2, <1>3

LEMMA ApiStays ==
  ASSUME ApiTyped, ApiSound, store \subseteq store', api' = api \/ api' = NoApi,
         template # Absent => template' # Absent
  PROVE  ApiTyped' /\ ApiSound'
<1>1. NoApi \in Apis /\ NoApi.at = "idle"
  BY DEF NoApi, Apis
<1>2. Apis \subseteq Apis'
  BY StoreGrows
<1>3. api' \in Apis'
  BY <1>1, <1>2, Zenon DEF ApiTyped
<1>4. ApiSound'
  BY <1>1 DEF ApiSound
<1>5. QED
  BY <1>3, <1>4 DEF ApiTyped

-----------------------------------------------------------------------------
(* Steps that leave the chain and the list alone *)

LEMMA ChainStays ==
  ASSUME ChainTyped, UNCHANGED chainVars
  PROVE  ChainTyped' /\ store' = store /\ tip' = tip
BY DEF ChainTyped, chainVars, Offered, ParentOf

LEMMA QuietKeeps ==
  ASSUME MiningInv, UNCHANGED <<chainVars, futureVars, loop, abandoned>>, now <= now',
         ModeTyped', Miner', ApiTyped', ApiSound'
  PROVE  MiningInv'
<1>1. ChainTyped' /\ store \subseteq store'
  BY ChainStays DEF MiningInv
<1>2. ListTyped' /\ FutureList' /\ ListGrows
  BY <1>1, ListStays DEF MiningInv
<1>3. Watched'
  BY <1>2, WatchedStays DEF MiningInv
<1>4. LoopTyped' /\ LoopSound'
  BY <1>1, LoopStays DEF MiningInv
<1>5. QED
  BY <1>1, <1>2, <1>3, <1>4 DEF MiningInv, Miner

LEMMA NowFacts ==
  ASSUME ModeTyped
  PROVE  now \in Int /\ now <= now /\ now <= now + 1 /\ MaxTime \in Nat
BY MiningAssumption DEF ModeTyped

LEMMA MineNextModes ==
  ASSUME ModeTyped, MineNext
  PROVE  replaced' \in BOOLEAN
<1>1. \/ replaced' = replaced
      \/ replaced' = (replaced \/ api.at \in {"header", "set"})
  BY DEF MineNext, templateVars, Prepare
<1>2. QED
  BY <1>1, TruthValue DEF ModeTyped

LEMMA InitializePowKeeps ==
  ASSUME MiningInv, InitializePow
  PROVE  MiningInv'
<1>1. /\ UNCHANGED <<chainVars, futureVars, now, enabled, suspended, loop, toggler, holder,
                     api, abandoned>>
      /\ synced' = TRUE /\ MineNext
  BY DEF InitializePow
<1>2. replaced' \in BOOLEAN
  BY <1>1, MineNextModes DEF MiningInv
<1>3. ModeTyped'
  BY <1>1, <1>2 DEF MiningInv, ModeTyped
<1>4. ChainTyped' /\ UNCHANGED <<store, tip>>
  BY <1>1, ChainStays DEF MiningInv
<1>5. Miner' /\ (template # Absent => template' # Absent)
  BY <1>1, <1>3, <1>4, MineNextKeeps DEF MiningInv, Miner
<1>6. ApiTyped' /\ ApiSound'
  BY <1>1, <1>4, <1>5, ApiStays DEF MiningInv
<1>7. QED
  BY <1>1, <1>3, <1>5, <1>6, QuietKeeps, NowFacts DEF MiningInv

LEMMA MonitorMinerKeeps ==
  ASSUME MiningInv, MonitorMiner
  PROVE  MiningInv'
<1>1. /\ UNCHANGED <<chainVars, futureVars, modeVars, loop, holder, api, abandoned>>
      /\ \/ toggler' = FALSE /\ MineNext
         \/ /\ toggler' = (native.state = "solved")
            /\ UNCHANGED <<templateVars, native, restart>>
  BY DEF MonitorMiner
<1>2. replaced' \in BOOLEAN
  BY <1>1, MineNextModes DEF MiningInv, templateVars, ModeTyped
<1>3. toggler' \in BOOLEAN
  BY <1>1
<1>4. ModeTyped'
  BY <1>1, <1>2, <1>3 DEF MiningInv, ModeTyped, modeVars
<1>5. ChainTyped' /\ UNCHANGED <<store, tip>>
  BY <1>1, ChainStays DEF MiningInv
<1>6. Miner' /\ (template # Absent => template' # Absent)
  <2>1. CASE MineNext
    BY <1>1, <1>4, <1>5, <2>1, MineNextKeeps DEF MiningInv, Miner, modeVars
  <2>2. CASE UNCHANGED <<templateVars, native, restart>>
    BY <1>1, <1>5, <2>2, MinerStays DEF MiningInv, Miner, templateVars
  <2>3. QED
    BY <1>1, <2>1, <2>2
<1>7. ApiTyped' /\ ApiSound'
  BY <1>1, <1>5, <1>6, ApiStays DEF MiningInv
<1>8. now <= now'
  BY <1>1, NowFacts DEF MiningInv, modeVars
<1>9. QED
  BY <1>1, <1>4, <1>6, <1>7, <1>8, QuietKeeps

(* A start on a template, and the reading that comes before it.            *)
LEMMA StartStepKeeps ==
  ASSUME MiningInv, RestartRead \/ RestartStart \/ HeldStart
  PROVE  MiningInv'
<1>1. /\ UNCHANGED <<chainVars, futureVars, modeVars, loop, templateVars, toggler, api,
                     abandoned>>
  BY DEF RestartRead, RestartStart, HeldStart
<1>2. ModeTyped' /\ now <= now'
  BY <1>1, NowFacts DEF MiningInv, ModeTyped, modeVars, templateVars
<1>3. UNCHANGED <<store, template>>
  BY <1>1 DEF chainVars, templateVars
<1>4. ApiTyped' /\ ApiSound'
  BY <1>1, <1>3, ApiStays DEF MiningInv
<1>5. Miner'
  <2>1. CASE RestartRead
    <3>1. /\ restart' = [restart EXCEPT !.at = "read"] /\ restart.at = "prepared"
          /\ native' = native /\ holder' = holder
      BY <2>1 DEF RestartRead
    <3>2. restart' \in Restarts /\ restart'.old = restart.old /\ restart'.crossed = restart.crossed
      BY <3>1 DEF MiningInv, MinerTyped, Restarts
    <3>3. MinerTyped'
      BY <1>3, <3>1, <3>2, StoreGrows DEF MiningInv, MinerTyped
    <3>4. Work(restart)' = Work(restart) /\ Work(native)' = Work(native)
      BY <1>3, <3>1, <3>2 DEF Work
    <3>5. MinerSound'
      BY <1>3, <3>1, <3>2, <3>4 DEF MiningInv, MinerSound, NativeWorksForNode
    <3>6. QED
      BY <3>3, <3>5 DEF Miner
  <2>2. CASE RestartStart
    <3>1. restart.at = "read" /\ Start(restart) /\ restart' = NoWork /\ holder' = holder
      BY <2>2 DEF RestartStart
    <3>2. /\ restart \in Restarts /\ template # Absent
          /\ Work(restart).addr = NodeAddress \/ restart.crossed
      BY <3>1 DEF MiningInv, MinerTyped, MinerSound
    <3>3. QED
      BY <1>3, <3>1, <3>2, StartKeeps DEF MiningInv, Miner
  <2>3. CASE HeldStart
    <3>1. holder # None /\ Start(NoWork) /\ holder' = None /\ restart' = restart
      BY <2>3 DEF HeldStart, Free
    <3>2. /\ NoWork \in Restarts /\ template # Absent
          /\ Work(NoWork).addr = NodeAddress
      <4>1. NoWork \in Restarts
        BY DEF NoWork, Restarts
      <4>2. template # Absent /\ template.addr = NodeAddress
        BY <3>1 DEF MiningInv, MinerSound
      <4>3. Work(NoWork) = template
        BY DEF Work, NoWork
      <4>4. QED
        BY <4>1, <4>2, <4>3
    <3>3. QED
      BY <1>3, <3>1, <3>2, StartKeeps DEF MiningInv, Miner
  <2>4. QED
    BY <2>1, <2>2, <2>3
<1>6. QED
  BY <1>1, <1>2, <1>4, <1>5, QuietKeeps

LEMMA ClockKeeps ==
  ASSUME MiningInv, ResumeMining \/ Tick
  PROVE  MiningInv'
<1>1. /\ UNCHANGED <<chainVars, futureVars, enabled, synced, loop, templateVars, native,
                     toggler, holder, restart, api, abandoned>>
      /\ suspended' \in {FALSE, suspended}
      /\ now' = now \/ (now < MaxTime /\ now' = now + 1)
  BY DEF ResumeMining, Tick
<1>2. ModeTyped'
  <2>1. ModeTyped /\ MaxTime \in Nat
    BY NowFacts DEF MiningInv
  <2>2. now' \in 0 .. MaxTime
    <3>1. now \in 0 .. MaxTime
      BY <2>1 DEF ModeTyped
    <3>2. QED
      BY <1>1, <2>1, <3>1
  <2>3. suspended' \in BOOLEAN
    BY <1>1, <2>1 DEF ModeTyped
  <2>4. QED
    BY <1>1, <2>1, <2>2, <2>3 DEF ModeTyped, templateVars
<1>3. now <= now'
  BY <1>1, NowFacts DEF MiningInv
<1>4. UNCHANGED <<store, template>>
  BY <1>1 DEF chainVars, templateVars
<1>5. Miner'
  BY <1>1, <1>4, MinerStays DEF MiningInv, Miner
<1>6. ApiTyped' /\ ApiSound'
  BY <1>1, <1>4, ApiStays DEF MiningInv
<1>7. QED
  BY <1>1, <1>2, <1>3, <1>5, <1>6, QuietKeeps

LEMMA NativeSkipKeeps ==
  ASSUME MiningInv, NativeSkip
  PROVE  MiningInv'
<1>1. /\ UNCHANGED <<chainVars, futureVars, modeVars, loop, templateVars, toggler, holder,
                     restart, api, abandoned>>
      /\ native' = Solved
  BY DEF NativeSkip
<1>2. ModeTyped' /\ now <= now'
  BY <1>1, NowFacts DEF MiningInv, ModeTyped, modeVars, templateVars
<1>3. UNCHANGED <<store, template>>
  BY <1>1 DEF chainVars, templateVars
<1>4. Miner'
  BY <1>1, <1>3, MinerStays, SolvedFacts DEF MiningInv, Miner
<1>5. ApiTyped' /\ ApiSound'
  BY <1>1, <1>3, ApiStays DEF MiningInv
<1>6. QED
  BY <1>1, <1>2, <1>4, <1>5, QuietKeeps

LEMMA GetBlockToMineStepKeeps ==
  ASSUME MiningInv, NEW addr \in Addresses, GetBlockToMine(addr)
  PROVE  MiningInv'
<1>1. UNCHANGED <<chainVars, futureVars, modeVars, loop, toggler, holder, api, abandoned>>
  BY DEF GetBlockToMine
<1>2. replaced' \in BOOLEAN
  <2>1. \/ replaced' = replaced
        \/ replaced' = (replaced \/ api.at \in {"header", "set"})
    BY DEF GetBlockToMine, Prepare
  <2>2. QED
    BY <2>1, TruthValue DEF MiningInv, ModeTyped
<1>3. ModeTyped' /\ now <= now'
  BY <1>1, <1>2, NowFacts DEF MiningInv, ModeTyped, modeVars
<1>4. ChainTyped' /\ store' = store
  BY <1>1, ChainStays DEF MiningInv
<1>5. Miner' /\ (template # Absent => template' # Absent)
  BY <1>3, <1>4, GetBlockToMineKeeps DEF MiningInv, Miner
<1>6. ApiTyped' /\ ApiSound'
  BY <1>1, <1>4, <1>5, ApiStays DEF MiningInv
<1>7. QED
  BY <1>1, <1>3, <1>5, <1>6, QuietKeeps

-----------------------------------------------------------------------------
(* Steps on blocks *)

LEMMA BlockStepKeeps ==
  ASSUME MiningInv, NEW th \in Thread, NEW b \in Offered, NEW good, NEW nat,
         nat = native \/ (nat \in Natives /\ nat.state # "running"),
         UNCHANGED <<modeVars, toggler, loop, abandoned>>, api' = api \/ api' = NoApi,
         PreBlockLogic(th, b, good, nat)
  PROVE  MiningInv'
<1>1. /\ ChainTyped' /\ ModeTyped' /\ Miner'
      /\ ListTyped' /\ FutureList' /\ ListGrows
      /\ store \subseteq store'
      /\ template # Absent => template' # Absent
  BY PreBlockKeeps
<1>2. now <= now'
  BY NowFacts DEF MiningInv, modeVars
<1>3. Watched'
  BY <1>1, <1>2, WatchedStays DEF MiningInv
<1>4. LoopTyped' /\ LoopSound'
  BY <1>1, LoopStays DEF MiningInv
<1>5. ApiTyped' /\ ApiSound'
  BY <1>1, ApiStays DEF MiningInv
<1>6. QED
  BY <1>1, <1>3, <1>4, <1>5 DEF MiningInv, Miner

LEMMA PeerBlockKeeps ==
  ASSUME MiningInv, NEW b \in Block, PeerBlock(b)
  PROVE  MiningInv'
<1>1. b \in Offered /\ "reactor" \in Thread
  BY DEF Offered, Thread
<1>2. /\ UNCHANGED <<modeVars, toggler, loop, abandoned>> /\ api' = api
      /\ PreBlockLogic("reactor", b, TRUE, native)
  BY DEF PeerBlock
<1>3. QED
  BY <1>1, <1>2, BlockStepKeeps

LEMMA SyncBlockKeeps ==
  ASSUME MiningInv, NEW b \in Block, SyncBlock(b)
  PROVE  MiningInv'
<1>1. /\ Validates(b, TRUE) /\ AddBlock(b)
      /\ suspended' = (suspended \/ tip' = b)
      /\ UNCHANGED <<now, enabled, synced, futureVars, loop, templateVars, native, toggler,
                     holder, restart, api, abandoned>>
  BY DEF SyncBlock
<1>2. ChainTyped' /\ store \subseteq store'
  BY <1>1, AddBlockKeeps DEF MiningInv, Offered
<1>3. suspended' \in BOOLEAN
  BY <1>1, TruthValue
<1>4. UNCHANGED <<now, enabled, synced, toggler, replaced, template>>
  BY <1>1 DEF templateVars
<1>5. ModeTyped'
  BY <1>3, <1>4 DEF MiningInv, ModeTyped
<1>6. now <= now'
  BY <1>4, NowFacts DEF MiningInv
<1>7. ListTyped' /\ FutureList' /\ ListGrows
  BY <1>1, <1>2, <1>5, <1>6, ListStays DEF MiningInv
<1>8. Watched'
  BY <1>1, <1>5, <1>6, <1>7, WatchedStays DEF MiningInv
<1>9. LoopTyped' /\ LoopSound'
  BY <1>1, <1>2, LoopStays DEF MiningInv
<1>10. ApiTyped' /\ ApiSound'
  BY <1>1, <1>2, <1>4, ApiStays DEF MiningInv
<1>11. Miner'
  BY <1>1, <1>2, <1>4, MinerStays DEF MiningInv, Miner
<1>12. QED
  BY <1>2, <1>5, <1>7, <1>8, <1>9, <1>10, <1>11 DEF MiningInv, Miner

LEMMA NativeSolutionKeeps ==
  ASSUME MiningInv, NativeSolution
  PROVE  MiningInv'
<1> DEFINE t == Work(native)
           b == Mined(Content(t), "native", ~ t.wire)
           good == Content(t) = native.blob /\ ~ native.marked
<1>1. /\ native.state = "running"
      /\ PreBlockLogic("native", b, good, Solved)
      /\ UNCHANGED <<modeVars, loop, toggler, api, abandoned>>
  BY DEF NativeSolution
<1>2. t \in Templates
  BY SMTT(60), <1>1 DEF MiningInv, MinerSound, MinerTyped, Natives, Work
<1>3. Content(t) \in Contents /\ (~ t.wire) \in BOOLEAN
  BY <1>2, TemplateFacts
<1>4. b \in Offered
  BY <1>3, MinedFacts
<1>5. Solved \in Natives /\ Solved.state # "running" /\ "native" \in Thread
  BY SolvedFacts DEF MiningInv, Miner, Thread
<1> HIDE DEF b, good
<1>6. QED
  BY <1>1, <1>4, <1>5, BlockStepKeeps

-----------------------------------------------------------------------------
(* The mining service *)

LEMMA SubmitKeeps ==
  ASSUME MiningInv, SubmitHeader \/ SubmitSet \/ SubmitClone
  PROVE  MiningInv'
<1>1. UNCHANGED apiOnly
  BY DEF SubmitHeader, SubmitSet, SubmitClone
<1>2. /\ UNCHANGED <<chainVars, futureVars, modeVars, loop, toggler, abandoned>>
      /\ UNCHANGED <<native, holder, restart>>
      /\ UNCHANGED <<now, store>>
  BY <1>1 DEF apiOnly, chainVars, modeVars
<1>3. replaced' \in BOOLEAN
  BY DEF SubmitHeader, SubmitSet, SubmitClone, templateVars, MiningInv, ModeTyped
<1>4. ModeTyped' /\ now <= now'
  BY <1>2, <1>3, NowFacts DEF MiningInv, ModeTyped, modeVars
<1>5. template \in Templates
  BY DEF SubmitHeader, SubmitSet, SubmitClone, MiningInv, MinerTyped, ApiSound
<1>6. template' \in Templates /\ template'.addr = template.addr
  <2>1. CASE SubmitSet
    <3>1. PICK n \in {"good", "bad"} : template' = [template EXCEPT !.nonce = n, !.wire = TRUE]
      BY <2>1 DEF SubmitSet
    <3>2. QED
      BY <1>5, <3>1, TemplateFacts
  <2>2. CASE SubmitHeader \/ SubmitClone
    BY <1>5, <2>2 DEF SubmitHeader, SubmitClone, templateVars
  <2>3. QED
    BY <2>1, <2>2
<1>7. Miner' /\ template' # Absent
  BY <1>2, <1>5, <1>6, TemplateFacts, WriteKeeps DEF MiningInv, Miner
<1>8. Content(template) \in Contents /\ api \in Apis
  BY <1>5, TemplateFacts DEF MiningInv, ApiTyped
<1>9. api' \in Apis
  <2> DEFINE c == Content(template)
  <2>1. c \in Contents
    BY <1>8
  <2>2. CASE SubmitHeader
    <3>1. api' = [at |-> "header", sol |-> c, clone |-> Absent]
      BY <2>2 DEF SubmitHeader
    <3> HIDE DEF c
    <3>2. QED
      BY <2>1, <3>1 DEF Apis
  <2>3. CASE SubmitSet
    BY <2>3 DEF SubmitSet, NoApi, Apis
  <2>4. CASE SubmitClone
    <3>1. PICK x \in Contents \cup {Absent} : api' = [NoApi EXCEPT !.at = "cloned", !.clone = x]
      <4>1. api' = [NoApi EXCEPT !.at = "cloned",
                                 !.clone = IF template.nonce = "good" THEN c ELSE Absent]
        BY <2>4 DEF SubmitClone
      <4>2. (IF template.nonce = "good" THEN c ELSE Absent) \in Contents \cup {Absent}
        BY <2>1
      <4>3. QED
        BY <4>1, <4>2
    <3>2. QED
      BY <3>1 DEF NoApi, Apis
  <2>5. QED
    BY <2>2, <2>3, <2>4
<1>10. ApiTyped' /\ ApiSound'
  BY <1>2, <1>7, <1>9, StoreGrows DEF ApiTyped, ApiSound
<1>11. QED
  BY <1>2, <1>4, <1>7, <1>10, QuietKeeps

LEMMA SubmitPreBlockKeeps ==
  ASSUME MiningInv, SubmitPreBlock
  PROVE  MiningInv'
<1>1. UNCHANGED <<modeVars, loop, toggler, abandoned>> /\ api' = NoApi
  BY DEF SubmitPreBlock
<1>2. CASE UNCHANGED <<chainVars, futureVars, templateVars, native, holder, restart>>
  <2>1. ModeTyped' /\ now <= now'
    BY <1>1, <1>2, NowFacts DEF MiningInv, ModeTyped, modeVars, templateVars
  <2>2. UNCHANGED <<store, template>>
    BY <1>2 DEF chainVars, templateVars
  <2>3. Miner'
    BY <1>2, <2>2, MinerStays DEF MiningInv, Miner
  <2>4. ApiTyped' /\ ApiSound'
    BY <1>1, <2>2, ApiStays DEF MiningInv
  <2>5. QED
    BY <1>1, <1>2, <2>1, <2>3, <2>4, QuietKeeps
<1>3. CASE /\ api.clone # Absent
           /\ PreBlockLogic("api", Mined(api.clone, "pool", TRUE), TRUE, native)
  <2>1. api.clone \in Contents
    BY <1>3 DEF MiningInv, ApiTyped, Apis
  <2>2. Mined(api.clone, "pool", TRUE) \in Offered /\ "api" \in Thread
    BY <2>1, MinedFacts DEF Thread
  <2>3. QED
    BY <1>1, <1>3, <2>2, BlockStepKeeps
<1>4. QED
  BY <1>2, <1>3 DEF SubmitPreBlock

-----------------------------------------------------------------------------
(* The loop over the future blocks *)

LEMMA RemoveKeeps ==
  ASSUME NEW q, SeqSound(q), NEW k \in DOMAIN q
  PROVE  /\ SeqSound(RemoveAt(q, k)) /\ Len(RemoveAt(q, k)) = Len(q) - 1
         /\ \A x \in ToSet(RemoveAt(q, k)) : x \in ToSet(q) /\ x # q[k]
<1> DEFINE r == RemoveAt(q, k)
           from(i) == IF i < k THEN i ELSE i + 1
<1>1. /\ r \in Seq(Offered) /\ Len(r) = Len(q) - 1
      /\ \A i \in DOMAIN r : r[i] = IF i < k THEN q[i] ELSE q[i + 1]
  BY RemoveAtFacts DEF SeqSound
<1>2. /\ DOMAIN r = 1 .. Len(q) - 1 /\ DOMAIN q = 1 .. Len(q) /\ Len(q) \in Nat
      /\ k \in 1 .. Len(q)
  BY <1>1 DEF SeqSound
<1> HIDE DEF r
<1>3. \A i \in DOMAIN r : /\ from(i) \in DOMAIN q /\ from(i) # k /\ r[i] = q[from(i)]
                          /\ i \in Nat
  BY <1>1, <1>2
<1>4. \A i, j \in DOMAIN r : (from(i) = from(j) => i = j) /\ (i < j => from(i) < from(j))
  BY <1>2
<1> HIDE DEF from
<1>5. Distinct(r)
  BY <1>3, <1>4 DEF Distinct, SeqSound
<1>6. Ordered(r)
  BY <1>3, <1>4 DEF Ordered, SeqSound
<1>7. \A x \in ToSet(r) : x \in ToSet(q) /\ x # q[k]
  <2>1. \A i \in DOMAIN r : r[i] \in ToSet(q) /\ r[i] # q[k]
    BY <1>3 DEF ToSet, SeqSound, Distinct
  <2>2. QED
    BY <2>1 DEF ToSet
<1>8. QED
  BY <1>1, <1>5, <1>6, <1>7 DEF r, SeqSound

LEMMA NoLoopFacts ==
  /\ NoLoop \in [on : BOOLEAN, keys : Seq(Offered), del : Offered \cup {None}]
  /\ Ordered(NoLoop.keys)
  /\ NoLoop.on <=> NoLoop.keys # <<>>
  /\ NoLoop.del = None
  /\ ToSet(NoLoop.keys) = {}
<1>1. NoLoop = [on |-> FALSE, keys |-> <<>>, del |-> None] /\ <<>> \in Seq(Offered)
  BY DEF NoLoop
<1>2. ToSet(<<>>) = {} /\ DOMAIN <<>> = {}
  BY DEF ToSet
<1>3. QED
  BY <1>1, <1>2 DEF Ordered

(* What is left alone by the steps of the loop that add no block.          *)
LEMMA LoopStepKeeps ==
  ASSUME MiningInv,
         UNCHANGED <<chainVars, modeVars, templateVars, native, toggler, holder, restart, api>>,
         ListTyped', FutureList', Watched', LoopTyped', LoopSound'
  PROVE  MiningInv'
<1>1. ChainTyped' /\ store' = store
  BY ChainStays DEF MiningInv
<1>2. ModeTyped'
  BY DEF MiningInv, ModeTyped, modeVars, templateVars
<1>3. Miner'
  BY <1>1, MinerStays DEF MiningInv, Miner, templateVars
<1>4. ApiTyped' /\ ApiSound'
  BY <1>1, ApiStays DEF MiningInv, templateVars
<1>5. QED
  BY <1>1, <1>2, <1>3, <1>4 DEF MiningInv, Miner

LEMMA FutureTimerKeeps ==
  ASSUME MiningInv, NEW b \in timers, FutureTimer(b)
  PROVE  MiningInv'
<1>1. /\ ~ loop.on /\ now >= TimeOf(b) + 1
      /\ timers' = timers \ {b}
      /\ loop' = IF future = <<>> THEN NoLoop ELSE [on |-> TRUE, keys |-> future, del |-> None]
      /\ UNCHANGED <<chainVars, modeVars, future, templateVars, native, toggler, holder,
                     restart, api, abandoned>>
  BY DEF FutureTimer, Idle
<1>2. Offered' = Offered /\ now' = now
  BY <1>1 DEF Offered, chainVars, modeVars
<1>3. ListTyped' /\ FutureList'
  BY <1>1, <1>2 DEF MiningInv, ListTyped, FutureList, Distinct, Ordered, TimeOf
<1>4. LoopTyped' /\ LoopSound'
  <2>1. CASE future = <<>>
    BY <1>1, <1>2, <2>1, NoLoopFacts DEF LoopTyped, LoopSound, Ordered, TimeOf
  <2>2. CASE future # <<>>
    <3>1. loop' = [on |-> TRUE, keys |-> future, del |-> None] /\ future \in Seq(Offered)
          /\ Ordered(future)
      BY <1>1, <2>2 DEF MiningInv, ListTyped, FutureList
    <3>2. LoopTyped'
      BY <1>2, <3>1 DEF LoopTyped
    <3>3. LoopSound'
      BY <2>2, <3>1 DEF LoopSound, Ordered, TimeOf
    <3>4. QED
      BY <3>2, <3>3
  <2>3. QED
    BY <2>1, <2>2
<1>5. Watched'
  <2>1. ASSUME NEW x \in ToSet(future), x \notin timers', x \notin abandoned
        PROVE  x \in ToSet(loop'.keys) /\ now > TimeOf(x)
    <3>1. future # <<>>
      BY <2>1 DEF ToSet
    <3>2. ToSet(loop'.keys) = ToSet(future)
      BY <1>1, <3>1
    <3>3. now \in Nat /\ TimeOf(b) \in Nat
      BY MiningAssumption, OfferedFacts DEF MiningInv, ModeTyped, ListTyped
    <3>4. x = b \/ x \notin timers
      BY <1>1, <2>1
    <3>5. now > TimeOf(x)
      BY <1>1, <2>1, <3>3, <3>4 DEF MiningInv, Watched
    <3>6. QED
      BY <2>1, <3>2, <3>5
  <2>2. QED
    BY <1>1, <1>2, <2>1 DEF Watched
<1>6. QED
  BY <1>1, <1>3, <1>4, <1>5, LoopStepKeeps

(* The first key is still too early: then so are all the keys, and each of  *)
(* them has its timer.                                                     *)
LEMMA EarlyKey ==
  ASSUME MiningInv, loop.on, IsFuture(Head(loop.keys))
  PROVE  \A x \in ToSet(future) : x \in timers \cup abandoned
<1> DEFINE h == Head(loop.keys)
<1>1. loop.keys \in Seq(Offered) /\ loop.keys # <<>>
  BY DEF MiningInv, LoopTyped, LoopSound
<1>2. h = loop.keys[1] /\ 1 \in DOMAIN loop.keys /\ h \in Offered
  BY <1>1
<1>3. now \in Nat /\ Drift \in Nat /\ TimeOf(h) \in Nat
  BY <1>2, MiningAssumption, OfferedFacts DEF MiningInv, ModeTyped
<1>4. SUFFICES ASSUME NEW x \in ToSet(loop.keys), now > TimeOf(x)
               PROVE  FALSE
  BY DEF MiningInv, Watched
<1>5. PICK j \in DOMAIN loop.keys : loop.keys[j] = x
  BY <1>4 DEF ToSet
<1>6. TimeOf(h) <= TimeOf(x) + Drift + 1
  <2>1. CASE j = 1
    BY <1>2, <1>3, <1>5, <2>1
  <2>2. CASE j # 1
    <3>1. 1 < j
      BY <1>1, <1>5, <2>2
    <3>2. QED
      BY <1>2, <1>5, <3>1 DEF MiningInv, LoopSound, Ordered
  <2>3. QED
    BY <2>1, <2>2
<1>7. TimeOf(x) \in Nat
  BY <1>1, <1>4, ElementFacts, OfferedFacts
<1>8. TimeOf(h) > now + Drift
  BY DEF IsFuture
<1>9. QED
  BY <1>3, <1>4, <1>6, <1>7, <1>8

LEMMA LoopBlockKeeps ==
  ASSUME MiningInv, LoopBlock
  PROVE  MiningInv'
<1> DEFINE b == Head(loop.keys)
<1>1. /\ loop.on /\ UNCHANGED <<modeVars, toggler, api>>
      /\ loop.keys \in Seq(Offered) /\ loop.keys # <<>> /\ b \in Offered
  BY DEF LoopBlock, MiningInv, LoopTyped, LoopSound
<1>2. CASE /\ loop' = NoLoop
           /\ UNCHANGED <<chainVars, futureVars, templateVars, native, holder, restart>>
           /\ \/ abandoned' = abandoned \cup ToSet(loop.keys)
              \/ b \in ToSet(future) /\ IsFuture(b) /\ abandoned' = abandoned
  <2>1. Offered' = Offered /\ now' = now /\ UNCHANGED <<future, timers>>
    BY <1>1, <1>2 DEF Offered, chainVars, modeVars, futureVars
  <2>2. ListTyped' /\ FutureList'
    BY <2>1 DEF MiningInv, ListTyped, FutureList, Distinct, Ordered, TimeOf
  <2>3. LoopTyped' /\ LoopSound'
    BY <1>2, <2>1, NoLoopFacts DEF LoopTyped, LoopSound, Ordered, TimeOf
  <2>4. Watched'
    <3>1. ASSUME NEW x \in ToSet(future)  PROVE x \in timers \cup abandoned'
      <4>1. CASE abandoned' = abandoned \cup ToSet(loop.keys)
        BY <4>1 DEF MiningInv, Watched
      <4>2. CASE IsFuture(b) /\ abandoned' = abandoned
        BY <1>1, <4>2, EarlyKey
      <4>3. QED
        BY <1>2, <4>1, <4>2
    <3>2. QED
      BY <2>1, <3>1 DEF Watched
  <2>5. QED
    BY <1>1, <1>2, <2>2, <2>3, <2>4, LoopStepKeeps
<1>3. CASE /\ PreBlockLogic("reactor", b, TRUE, native)
           /\ loop' = [loop EXCEPT !.del = b]
           /\ UNCHANGED abandoned
  <2>1. /\ ChainTyped' /\ ModeTyped' /\ Miner'
        /\ ListTyped' /\ FutureList' /\ ListGrows
        /\ store \subseteq store'
        /\ template # Absent => template' # Absent
    BY <1>1, <1>3, PreBlockKeeps DEF Thread
  <2>2. now <= now'
    BY <1>1, NowFacts DEF MiningInv, modeVars
  <2>3. loop' \in [on : BOOLEAN, keys : Seq(Offered), del : Offered \cup {None}]
        /\ loop'.keys = loop.keys /\ loop'.on = loop.on /\ loop'.del = b
    BY <1>1, <1>3 DEF MiningInv, LoopTyped
  <2>4. Watched'
    BY <1>3, <2>1, <2>2, <2>3, WatchedStays DEF MiningInv
  <2>5. LoopTyped'
    <3>1. Offered \subseteq Offered'
      BY <2>1, StoreGrows
    <3>2. loop' \in [on : BOOLEAN, keys : Seq(Offered'), del : Offered' \cup {None}]
      BY <2>3, <3>1
    <3>3. QED
      BY <3>2 DEF LoopTyped
  <2>6. LoopSound'
    BY <1>1, <2>3 DEF MiningInv, LoopSound, Ordered, TimeOf
  <2>7. ApiTyped' /\ ApiSound'
    BY <1>1, <2>1, ApiStays DEF MiningInv
  <2>8. QED
    BY <2>1, <2>4, <2>5, <2>6, <2>7 DEF MiningInv, Miner
<1>4. QED
  BY <1>2, <1>3 DEF LoopBlock

LEMMA LoopDeleteKeeps ==
  ASSUME MiningInv, LoopDelete
  PROVE  MiningInv'
<1> DEFINE rest == Tail(loop.keys)
<1>1. /\ loop.del # None /\ loop.del = Head(loop.keys)
      /\ loop.keys \in Seq(Offered) /\ loop.keys # <<>>
      /\ UNCHANGED <<chainVars, modeVars, timers, templateVars, native, toggler, holder,
                     restart, api>>
  BY DEF LoopDelete, MiningInv, LoopTyped, LoopSound
<1>2. /\ rest \in Seq(Offered)
      /\ \A i \in DOMAIN rest : i + 1 \in DOMAIN loop.keys /\ rest[i] = loop.keys[i + 1]
      /\ ToSet(loop.keys) = {loop.del} \cup ToSet(rest)
  BY <1>1, TailFacts
<1>3. Ordered(rest)
  <2>1. DOMAIN rest \subseteq Nat
    BY <1>2
  <2>2. ASSUME NEW i \in DOMAIN rest, NEW j \in DOMAIN rest, i < j
        PROVE  TimeOf(rest[i]) <= TimeOf(rest[j]) + Drift + 1
    <3>1. i + 1 \in DOMAIN loop.keys /\ j + 1 \in DOMAIN loop.keys /\ i + 1 < j + 1
          /\ rest[i] = loop.keys[i + 1] /\ rest[j] = loop.keys[j + 1]
      BY <1>2, <2>1, <2>2
    <3>2. QED
      BY <3>1 DEF MiningInv, LoopSound, Ordered
  <2>3. QED
    BY <2>2 DEF Ordered
<1>4. /\ Offered' = Offered /\ now' = now /\ timers' = timers
  BY <1>1 DEF Offered, chainVars, modeVars
<1> HIDE DEF rest
<1>5. CASE loop.del \in ToSet(future)
  <2> DEFINE k == CHOOSE k \in DOMAIN future : future[k] = loop.del
  <2>1. /\ future' = RemoveAt(future, k)
        /\ loop' = IF rest = <<>> THEN NoLoop
                   ELSE [on |-> TRUE, keys |-> rest, del |-> None]
        /\ abandoned' = abandoned
    BY <1>5 DEF LoopDelete, rest
  <2>2. k \in DOMAIN future /\ future[k] = loop.del
    BY <1>5 DEF ToSet
  <2> HIDE DEF k
  <2>3. SeqSound(future) /\ Len(future) <= FutureSize
    BY DEF MiningInv, ListTyped, FutureList, SeqSound
  <2>4. /\ SeqSound(future') /\ Len(future') = Len(future) - 1
        /\ \A x \in ToSet(future') : x \in ToSet(future) /\ x # loop.del
    BY <2>1, <2>2, <2>3, RemoveKeeps
  <2>5. ListTyped'
    <3>1. Len(future') <= FutureSize
      BY <2>3, <2>4, MiningAssumption DEF SeqSound
    <3>2. QED
      BY <1>4, <2>4, <3>1 DEF MiningInv, ListTyped, SeqSound
  <2>6. FutureList'
    BY <1>4, <2>4 DEF MiningInv, FutureList, SeqSound, Distinct, Ordered, TimeOf
  <2>7. LoopTyped' /\ LoopSound'
    <3>1. CASE rest = <<>>
      BY <1>4, <2>1, <3>1, NoLoopFacts DEF LoopTyped, LoopSound, Ordered, TimeOf
    <3>2. CASE rest # <<>>
      <4>1. loop' = [on |-> TRUE, keys |-> rest, del |-> None]
        BY <2>1, <3>2
      <4>2. LoopTyped'
        BY <1>2, <1>4, <4>1 DEF LoopTyped
      <4>3. LoopSound'
        BY <1>3, <3>2, <4>1 DEF LoopSound, Ordered, TimeOf
      <4>4. QED
        BY <4>2, <4>3
    <3>3. QED
      BY <3>1, <3>2
  <2>8. Watched'
    <3>1. ToSet(loop'.keys) = ToSet(rest)
      BY <2>1, NoLoopFacts DEF ToSet, NoLoop
    <3>2. QED
      BY <1>2, <1>4, <2>1, <2>4, <3>1 DEF MiningInv, Watched, TimeOf
  <2>9. QED
    BY <1>1, <2>5, <2>6, <2>7, <2>8, LoopStepKeeps
<1>6. CASE loop.del \notin ToSet(future)
  <2>1. /\ loop' = NoLoop
        /\ abandoned' = abandoned \cup ToSet(rest)
        /\ future' = future
    BY <1>6 DEF LoopDelete, rest
  <2>2. ListTyped' /\ FutureList'
    BY <1>4, <2>1 DEF MiningInv, ListTyped, FutureList, Distinct, Ordered, TimeOf
  <2>3. LoopTyped' /\ LoopSound'
    BY <1>4, <2>1, NoLoopFacts DEF LoopTyped, LoopSound, Ordered, TimeOf
  <2>4. Watched'
    <3>1. ASSUME NEW x \in ToSet(future)  PROVE x \in timers \cup abandoned'
      BY <1>2, <1>6, <2>1, <3>1 DEF MiningInv, Watched
    <3>2. QED
      BY <1>4, <2>1, <3>1 DEF Watched
  <2>5. QED
    BY <1>1, <2>2, <2>3, <2>4, LoopStepKeeps
<1>7. QED
  BY <1>5, <1>6

-----------------------------------------------------------------------------
(* The specification *)

LEMMA MiningInit ==
  ASSUME Init
  PROVE  MiningInv
<1>1. Genesis \in Offered /\ Block \subseteq Offered
  BY MiningAssumption DEF Offered
<1>2. ChainTyped
  BY <1>1 DEF Init, ChainTyped
<1>3. ModeTyped
  <2>1. 0 \in 0 .. MaxTime
    BY MiningAssumption
  <2>2. now \in 0 .. MaxTime
    BY <2>1 DEF Init
  <2>3. synced \in BOOLEAN /\ suspended \in BOOLEAN /\ toggler \in BOOLEAN /\ replaced \in BOOLEAN
    BY DEF Init
  <2>4. QED
    BY <2>2, <2>3 DEF Init, ModeTyped
<1>4. ToSet(future) = {} /\ DOMAIN future = {} /\ future \in Seq(Offered) /\ Len(future) = 0
  BY DEF Init, ToSet
<1>5. ListTyped /\ FutureList /\ Watched
  BY <1>4, MiningAssumption DEF Init, ListTyped, FutureList, Watched, Distinct, Ordered
<1>6. LoopTyped /\ LoopSound
  BY NoLoopFacts DEF Init, LoopTyped, LoopSound
<1>7. MinerTyped /\ MinerSound
  <2>1. native \in Natives /\ native.state = "off"
    BY OffFacts DEF Init, Off
  <2>2. restart \in Restarts /\ restart.at = "idle"
    BY DEF Init, NoWork, Restarts
  <2>3. QED
    BY <2>1, <2>2 DEF Init, MinerTyped, MinerSound, NativeWorksForNode
<1>8. ApiTyped /\ ApiSound
  BY DEF Init, NoApi, ApiTyped, Apis, ApiSound
<1>9. QED
  BY <1>2, <1>3, <1>5, <1>6, <1>7, <1>8 DEF MiningInv

LEMMA StutterKeeps ==
  ASSUME MiningInv, UNCHANGED vars
  PROVE  MiningInv'
<1>1. /\ UNCHANGED <<chainVars, futureVars, modeVars, templateVars, loop, abandoned>>
      /\ UNCHANGED <<native, toggler, holder, restart, api>>
  BY DEF vars, chainVars, futureVars, modeVars, templateVars
<1>2. ChainTyped' /\ store' = store
  BY <1>1, ChainStays DEF MiningInv
<1>3. ModeTyped'
  BY <1>1 DEF MiningInv, ModeTyped, modeVars, templateVars
<1>4. Miner'
  BY <1>1, <1>2, MinerStays DEF MiningInv, Miner, templateVars
<1>5. ApiTyped' /\ ApiSound'
  BY <1>1, <1>2, ApiStays DEF MiningInv, templateVars
<1>6. now <= now'
  BY <1>1, NowFacts DEF MiningInv, modeVars
<1>7. QED
  BY <1>1, <1>3, <1>4, <1>5, <1>6, QuietKeeps

LEMMA MiningNext ==
  ASSUME MiningInv, [Next]_vars
  PROVE  MiningInv'
<1>1. CASE \E b \in Block \ {Genesis} : PeerBlock(b) \/ SyncBlock(b)
  BY <1>1, PeerBlockKeeps, SyncBlockKeeps
<1>2. CASE \E b \in timers : FutureTimer(b)
  BY <1>2, FutureTimerKeeps
<1>3. CASE LoopBlock \/ LoopDelete
  BY <1>3, LoopBlockKeeps, LoopDeleteKeeps
<1>4. CASE InitializePow \/ MonitorMiner
  BY <1>4, InitializePowKeeps, MonitorMinerKeeps
<1>5. CASE RestartRead \/ RestartStart \/ HeldStart
  BY <1>5, StartStepKeeps
<1>6. CASE NativeSolution \/ NativeSkip
  BY <1>6, NativeSolutionKeeps, NativeSkipKeeps
<1>7. CASE ResumeMining \/ Tick
  BY <1>7, ClockKeeps
<1>8. CASE \E a \in {NodeAddress, PoolAddress} : GetBlockToMine(a)
  BY <1>8, GetBlockToMineStepKeeps DEF Addresses
<1>9. CASE Submit
  BY <1>9, SubmitKeeps, SubmitPreBlockKeeps DEF Submit
<1>10. CASE UNCHANGED vars
  BY <1>10, StutterKeeps
<1>11. QED
  BY <1>1, <1>2, <1>3, <1>4, <1>5, <1>6, <1>7, <1>8, <1>9, <1>10 DEF Next

(* The inductive invariant of the node: the future list is in order within  *)
(* the drift, every block of it is watched, and whoever is about to start   *)
(* the native miner works on a template that is there and is the node's.   *)
THEOREM MiningInvariant == Spec => []MiningInv
<1>1. Init => MiningInv
  BY MiningInit
<1>2. MiningInv /\ [Next]_vars => MiningInv'
  BY MiningNext
<1>3. QED
  BY <1>1, <1>2, PTL DEF Spec

(* Every state is well typed: the list never grows beyond its limit, and a  *)
(* running miner has a template and a content that it hashes.              *)
THEOREM MiningTypeCorrect == Spec => []TypeOK
<1>1. MiningInv => TypeOK
  <2> SUFFICES ASSUME MiningInv  PROVE TypeOK
    OBVIOUS
  <2>1. /\ native.state \in {"off", "taken", "running", "solved"}
        /\ restart.at \in {"idle", "prepared", "read"}
        /\ api.at \in {"idle", "header", "set", "cloned"}
    BY DEF MiningInv, MinerTyped, ApiTyped, Natives, Restarts, Apis
  <2>2. {enabled, synced, suspended, toggler, replaced} \subseteq BOOLEAN
    BY DEF MiningInv, ModeTyped
  <2>3. native.state = "running" => native.blob # Absent /\ template # Absent
    BY DEF MiningInv, MinerSound
  <2>4. QED
    BY <2>1, <2>2, <2>3 DEF MiningInv, ChainTyped, ModeTyped, ListTyped, MinerTyped, TypeOK
<1>2. QED
  BY <1>1, MiningInvariant, PTL

(* No early block is left behind but by a KeyError, whatever the times of   *)
(* the blocks, the limit of the list and the order of arrival: the order of *)
(* the list and the slack of the drift give the loop every block that is    *)
(* due without a timer.                                                    *)
THEOREM FutureStaysWatched == Spec => []FutureIsWatched
<1>1. MiningInv => FutureIsWatched
  BY DEF MiningInv, Watched, FutureIsWatched
<1>2. QED
  BY <1>1, MiningInvariant, PTL

(* The native miner never works for another address than the node's unless  *)
(* the pool's request came into an unlocked _mine_next, for any number of   *)
(* requests, solutions and restarts.                                       *)
THEOREM NativeKeepsWorkingForNode == Spec => []NativeWorksForNode
<1>1. MiningInv => NativeWorksForNode
  BY DEF MiningInv, MinerSound
<1>2. QED
  BY <1>1, MiningInvariant, PTL

-----------------------------------------------------------------------------
(* Solutions.  What is worked on follows its parent and has nonces only     *)
(* where a submission wrote them, what is hashed is what the template       *)
(* says, and a submission finds its nonces until a new template comes.     *)

Fits(c) == c.number = NumberOf(c.parent) + 1 /\ c.time > TimeOf(c.parent)

Clean(t) == t # Absent => Fits(t) /\ (t.nonce # None => t.wire)

Tallest == \A b \in store : NumberOf(b) <= NumberOf(tip)

WorkSound ==
  /\ Clean(template) /\ Clean(restart.old) /\ Clean(native.old)
  /\ native.state = "running" => /\ Content(Work(native)) = native.blob
                                 /\ native.marked => Work(native).wire

SubmissionSound ==
  /\ api.at = "header" /\ ~ replaced => Content(template) = api.sol
  /\ api.at = "set" /\ ~ replaced => template.nonce = "good"
  /\ api.at = "cloned" /\ ~ replaced => api.clone # Absent
  /\ api.clone # Absent => Fits(api.clone)

SolutionInv == Tallest /\ WorkSound /\ SubmissionSound

LEMMA CleanKept ==
  ASSUME NEW t \in Templates, Clean(t)
  PROVE  /\ \A a : Clean(Readdress(t, a))
         /\ Clean([t EXCEPT !.handed = TRUE])
         /\ Content([t EXCEPT !.handed = TRUE]) = Content(t)
         /\ [t EXCEPT !.handed = TRUE].wire = t.wire
         /\ \A n : /\ Clean([t EXCEPT !.nonce = n, !.wire = TRUE])
                   /\ Content([t EXCEPT !.nonce = n, !.wire = TRUE]) = Content(t)
                   /\ [t EXCEPT !.nonce = n, !.wire = TRUE].wire
                   /\ [t EXCEPT !.nonce = n, !.wire = TRUE].nonce = n
<1>1. Fits(t) /\ (t.nonce # None => t.wire)
  BY TemplateFacts DEF Clean
<1>2. ASSUME NEW a
      PROVE  Clean(Readdress(t, a))
  BY <1>1 DEF Clean, Fits, Readdress, Templates
<1>3. /\ Clean([t EXCEPT !.handed = TRUE])
      /\ Content([t EXCEPT !.handed = TRUE]) = Content(t)
      /\ [t EXCEPT !.handed = TRUE].wire = t.wire
  BY <1>1 DEF Clean, Fits, Content, Templates
<1>4. ASSUME NEW n
      PROVE  /\ Clean([t EXCEPT !.nonce = n, !.wire = TRUE])
             /\ Content([t EXCEPT !.nonce = n, !.wire = TRUE]) = Content(t)
             /\ [t EXCEPT !.nonce = n, !.wire = TRUE].wire
             /\ [t EXCEPT !.nonce = n, !.wire = TRUE].nonce = n
  BY <1>1 DEF Clean, Fits, Content, Templates
<1>5. QED
  BY <1>2, <1>3, <1>4

LEMMA CleanNew ==
  ASSUME ModeTyped, NEW p, TimeOf(p) \in Nat, NEW a, NEW h
  PROVE  Clean(Template(p, a, h))
<1>1. now \in Nat
  BY MiningAssumption DEF ModeTyped
<1>2. QED
  BY <1>1 DEF Clean, Fits, Template

(* The miner is left alone, or has stopped.                                 *)
LEMMA WorkStays ==
  ASSUME WorkSound, UNCHANGED template, restart'.old = restart.old,
         native' = native \/ (native'.state # "running" /\ native'.old = Absent)
  PROVE  WorkSound'
<1>1. Clean(template)' /\ Clean(restart.old)'
  BY DEF WorkSound, Clean, Fits, NumberOf, TimeOf
<1>2. CASE native' = native
  BY <1>1, <1>2 DEF WorkSound, Work, Clean, Fits, NumberOf, TimeOf
<1>3. CASE native'.state # "running" /\ native'.old = Absent
  BY <1>1, <1>3 DEF WorkSound, Clean, Absent
<1>4. QED
  BY <1>2, <1>3

(* A new template, and the reactor may keep the old one.                   *)
LEMMA WorkPrepared ==
  ASSUME ModeTyped, NEW p, TimeOf(p) \in Nat, NEW a, NEW h, NEW s \in {"off", "taken"},
         template' = Template(p, a, h), native' = Off(s),
         NEW r, restart'.old = r, Clean(r)
  PROVE  WorkSound'
<1>1. Clean(template')
  BY CleanNew
<1>2. native'.state # "running" /\ native'.old = Absent
  BY DEF Off
<1>3. QED
  BY <1>1, <1>2 DEF WorkSound, Clean, Fits, NumberOf, TimeOf, Absent

LEMMA DetachFacts ==
  ASSUME restart \in Restarts, NEW t
  PROVE  Detach(t).old \in {restart.old, t}
BY DEF Detach, Restarts

LEMMA WorkStarts ==
  ASSUME WorkSound, UNCHANGED template, NEW x, Work(x) \in Templates, Clean(x.old),
         Start(x), restart' = restart \/ restart' = NoWork
  PROVE  WorkSound'
<1>1. PICK m, c : m = (Work(x).nonce # None) /\ c = Content(Work(x))
  OBVIOUS
<1>2. native' = [state |-> "running", old |-> x.old, blob |-> c, marked |-> m,
                 crossed |-> x.crossed]
  BY <1>1 DEF Start
<1>3. native'.old = x.old /\ native'.blob = c /\ native'.marked = m
  BY <1>2
<1>4. Work(native)' = Work(x)
  BY <1>3 DEF Work
<1>5. Clean(Work(x))
  BY DEF Work, WorkSound
<1>6. m => Work(x).wire
  <2>1. SUFFICES ASSUME m PROVE Work(x).wire
    OBVIOUS
  <2>2. Work(x).nonce # None
    BY <1>1, <2>1
  <2>3. Work(x) # Absent
    BY TemplateFacts
  <2>4. QED
    BY <1>5, <2>2, <2>3 DEF Clean
<1>7. Clean(restart'.old)
  BY DEF WorkSound, NoWork, Clean
<1>8. Content(Work(native)') = native'.blob /\ (native'.marked => Work(native)'.wire)
  BY <1>1, <1>3, <1>4, <1>6
<1>9. Clean(template') /\ Clean(native'.old)
  BY <1>3 DEF WorkSound
<1>10. QED
  BY <1>7, <1>8, <1>9 DEF WorkSound, Clean, Fits, Content, NumberOf, TimeOf, Absent

(* A template is overwritten with the same content.                        *)
LEMMA WorkMarked ==
  ASSUME WorkSound, UNCHANGED <<restart, native>>, template # Absent,
         template' # Absent, Clean(template'),
         Content(template') = Content(template), template.wire => template'.wire
  PROVE  WorkSound'
<1>1. ASSUME native.state = "running"
      PROVE  /\ Content(Work(native)') = native'.blob
             /\ native'.marked => Work(native)'.wire
  <2>1. CASE native.old = Absent
    BY <1>1, <2>1 DEF WorkSound, Work
  <2>2. CASE native.old # Absent
    BY <1>1, <2>2 DEF WorkSound, Work
  <2>3. QED
    BY <2>1, <2>2
<1>2. QED
  BY <1>1 DEF WorkSound, Clean, Fits, Content, NumberOf, TimeOf, Absent

(* Every block of the store is as high as the last one or lower.           *)
LEMMA TallestKept ==
  ASSUME ChainTyped, Tallest, NEW b \in Offered, AddBlock(b)
  PROVE  Tallest'
<1>1. /\ \A x \in store : NumberOf(x) <= NumberOf(tip) /\ NumberOf(x) \in Nat
      /\ NumberOf(tip) \in Nat /\ NumberOf(b) \in Nat
  BY OfferedFacts DEF ChainTyped, Tallest
<1>2. CASE Applies(b)
  <2>1. /\ store' = store \cup {b}
        /\ tip' = IF NumberOf(b) > NumberOf(tip) THEN b ELSE tip
    BY <1>2 DEF AddBlock
  <2>2. \A x \in store' : NumberOf(x) <= NumberOf(tip')
    BY <1>1, <2>1
  <2>3. QED
    BY <2>2 DEF Tallest, NumberOf
<1>3. CASE ~ Applies(b)
  BY <1>3 DEF AddBlock, chainVars, Tallest, NumberOf
<1>4. QED
  BY <1>2, <1>3

(* What a step does to the template, seen by the submission under way.      *)
SubmissionSees ==
  \/ UNCHANGED <<template, replaced>>
  \/ replaced' = (replaced \/ api.at \in {"header", "set"})
  \/ api.at = "idle" /\ api' = api

LEMMA SubmissionKept ==
  ASSUME SubmissionSound, SubmissionSees, api' = api \/ api' = NoApi
  PROVE  SubmissionSound'
<1>1. CASE api' = NoApi
  BY <1>1 DEF SubmissionSound, NoApi
<1>2. CASE api' = api /\ UNCHANGED <<template, replaced>>
  BY <1>2 DEF SubmissionSound, Fits, NumberOf, TimeOf, Content, Absent
<1>3. CASE api' = api /\ api.at = "idle"
  BY <1>3 DEF SubmissionSound, Fits, NumberOf, TimeOf, Absent
<1>4. CASE api' = api /\ replaced' = (replaced \/ api.at \in {"header", "set"})
  <2>1. ~ replaced' => ~ replaced /\ api.at \notin {"header", "set"}
    BY <1>4
  <2>2. QED
    BY <1>4, <2>1 DEF SubmissionSound, Fits, NumberOf, TimeOf, Absent
<1>5. QED
  BY <1>1, <1>2, <1>3, <1>4 DEF SubmissionSees

(* _mine_next outside the lock.                                            *)
LEMMA MineNextSound ==
  ASSUME MiningInv, WorkSound, MineNext
  PROVE  WorkSound' /\ SubmissionSees
<1>1. CASE suspended \/ ~ enabled
  BY <1>1, WorkStays DEF MineNext, templateVars, SubmissionSees
<1>2. CASE ~ (suspended \/ ~ enabled)
  <2>1. /\ Prepare(tip, NodeAddress, FALSE, "off")
        /\ restart' = [NoWork EXCEPT !.at = "prepared"]
    BY <1>2 DEF MineNext
  <2>2. restart'.old = Absent /\ Clean(Absent)
    BY <2>1 DEF NoWork, Clean
  <2>3. ModeTyped /\ TimeOf(tip) \in Nat
    BY OfferedFacts DEF MiningInv, ChainTyped
  <2>4. template' = Template(tip, NodeAddress, FALSE) /\ native' = Off("off")
    BY <2>1 DEF Prepare
  <2>5. WorkSound'
    BY <2>2, <2>3, <2>4, WorkPrepared
  <2>6. SubmissionSees
    BY <2>1 DEF Prepare, SubmissionSees
  <2>7. QED
    BY <2>5, <2>6
<1>3. QED
  BY <1>1, <1>2

(* pre_block_logic in any thread.                                           *)
LEMMA PreBlockSound ==
  ASSUME MiningInv, Tallest, WorkSound, NEW th, NEW b \in Offered, NEW good,
         NEW nat \in {native, Solved}, PreBlockLogic(th, b, good, nat)
  PROVE  Tallest' /\ WorkSound' /\ SubmissionSees
<1>1. nat = native \/ (nat.state # "running" /\ nat.old = Absent)
  BY DEF Solved, MiningInv, MinerTyped, Natives
<1>2. CASE UNCHANGED <<chainVars, templateVars, restart>> /\ native' = nat
  <2>1. WorkSound'
    BY <1>1, <1>2, WorkStays DEF templateVars
  <2>2. QED
    BY <1>2, <2>1 DEF Tallest, NumberOf, chainVars, templateVars, SubmissionSees
<1>3. CASE AddBlock(b) /\ UNCHANGED <<templateVars, restart>> /\ native' = nat
  <2>1. WorkSound'
    BY <1>1, <1>3, WorkStays DEF templateVars
  <2>2. Tallest'
    BY <1>3, TallestKept DEF MiningInv
  <2>3. QED
    BY <1>3, <2>1, <2>2 DEF templateVars, SubmissionSees
<1>4. CASE AddBlock(b) /\ tip' # tip /\ Prepare(tip', NodeAddress, FALSE, "off")
             /\ restart' = Detach(template)
  <2>1. Tallest'
    BY <1>4, TallestKept DEF MiningInv
  <2>2. PICK p, r : p = tip' /\ r = restart'.old
    OBVIOUS
  <2>3. p = b
    BY <1>4, <2>2 DEF AddBlock, chainVars
  <2>4. ModeTyped /\ TimeOf(p) \in Nat
    BY <2>3, OfferedFacts DEF MiningInv
  <2>5. Clean(r)
    <3>1. r \in {restart.old, template}
      BY <1>4, <2>2, DetachFacts DEF MiningInv, MinerTyped
    <3>2. QED
      BY <3>1 DEF WorkSound
  <2>6. template' = Template(p, NodeAddress, FALSE) /\ native' = Off("off")
    BY <1>4, <2>2 DEF Prepare
  <2>7. WorkSound'
    BY <2>2, <2>4, <2>5, <2>6, WorkPrepared
  <2>8. SubmissionSees
    BY <1>4 DEF Prepare, SubmissionSees
  <2>9. QED
    BY <2>1, <2>7, <2>8
<1>5. QED
  BY <1>2, <1>3, <1>4 DEF PreBlockLogic

(* A step that changes no block and no template.                           *)
LEMMA QuietSound ==
  ASSUME SolutionInv, UNCHANGED <<chainVars, templateVars, api>>, restart'.old = restart.old,
         native' = native \/ (native'.state # "running" /\ native'.old = Absent)
  PROVE  SolutionInv'
<1>1. UNCHANGED <<store, tip, template, replaced, api>>
  BY DEF chainVars, templateVars
<1>2. Tallest'
  BY <1>1 DEF SolutionInv, Tallest, NumberOf
<1>3. WorkSound'
  BY <1>1, WorkStays DEF SolutionInv
<1>4. SubmissionSound'
  BY <1>1, SubmissionKept DEF SolutionInv, SubmissionSees
<1>5. QED
  BY <1>2, <1>3, <1>4 DEF SolutionInv

LEMMA SteadySound ==
  ASSUME SolutionInv, MiningInv,
         \/ \E b \in timers : FutureTimer(b)
         \/ LoopDelete \/ NativeSkip \/ ResumeMining \/ Tick \/ RestartRead
         \/ UNCHANGED vars
  PROVE  SolutionInv'
<1>1. CASE \/ \E b \in timers : FutureTimer(b)
           \/ LoopDelete \/ ResumeMining \/ Tick \/ UNCHANGED vars
  <2>1. UNCHANGED <<chainVars, templateVars, api, restart, native>>
    BY <1>1 DEF FutureTimer, LoopDelete, ResumeMining, Tick, vars, chainVars, templateVars
  <2>2. QED
    BY <2>1, QuietSound
<1>2. CASE NativeSkip
  <2>1. UNCHANGED <<chainVars, templateVars, api, restart>> /\ native' = Solved
    BY <1>2 DEF NativeSkip
  <2>2. native'.state # "running" /\ native'.old = Absent
    BY <2>1 DEF Solved, MiningInv, MinerTyped, Natives
  <2>3. QED
    BY <2>1, <2>2, QuietSound
<1>3. CASE RestartRead
  <2>1. /\ UNCHANGED <<chainVars, templateVars, api, native>>
        /\ restart' = [restart EXCEPT !.at = "read"]
    BY <1>3 DEF RestartRead
  <2>2. restart'.old = restart.old
    BY <2>1 DEF MiningInv, MinerTyped, Restarts
  <2>3. QED
    BY <2>1, <2>2, QuietSound
<1>4. QED
  BY <1>1, <1>2, <1>3

LEMMA StartsSound ==
  ASSUME SolutionInv, MiningInv, RestartStart \/ HeldStart
  PROVE  SolutionInv'
<1>1. UNCHANGED <<chainVars, templateVars, api>>
  BY DEF RestartStart, HeldStart
<1>2. PICK x \in {restart, NoWork} :
        Start(x) /\ template # Absent /\ (restart' = restart \/ restart' = NoWork)
  <2>1. CASE RestartStart
    BY <2>1 DEF RestartStart, MiningInv, MinerSound
  <2>2. CASE HeldStart
    BY <2>2 DEF HeldStart, Free, MiningInv, MinerSound
  <2>3. QED
    BY <2>1, <2>2
<1>3. Work(x) \in Templates
  BY <1>2 DEF Work, NoWork, MiningInv, MinerTyped, Restarts
<1>4. Clean(x.old)
  BY <1>2 DEF NoWork, SolutionInv, WorkSound, Clean
<1>5. UNCHANGED <<store, tip, template, replaced>>
  BY <1>1 DEF chainVars, templateVars
<1>6. WorkSound'
  BY <1>2, <1>3, <1>4, <1>5, WorkStarts DEF SolutionInv
<1>7. SubmissionSound'
  BY <1>1, <1>5, SubmissionKept DEF SolutionInv, SubmissionSees
<1>8. Tallest'
  BY <1>5 DEF SolutionInv, Tallest, NumberOf
<1>9. QED
  BY <1>6, <1>7, <1>8 DEF SolutionInv

LEMMA MonitorSound ==
  ASSUME SolutionInv, MiningInv, InitializePow \/ MonitorMiner
  PROVE  SolutionInv'
<1>1. UNCHANGED <<chainVars, api>>
  BY DEF InitializePow, MonitorMiner
<1>2. CASE MineNext
  <2>1. WorkSound' /\ SubmissionSees
    BY <1>2, MineNextSound DEF SolutionInv
  <2>2. SubmissionSound'
    BY <1>1, <2>1, SubmissionKept DEF SolutionInv
  <2>3. Tallest'
    BY <1>1 DEF SolutionInv, Tallest, NumberOf, chainVars
  <2>4. QED
    BY <2>1, <2>2, <2>3 DEF SolutionInv
<1>3. CASE UNCHANGED <<templateVars, native, restart>>
  BY <1>1, <1>3, QuietSound
<1>4. QED
  BY <1>2, <1>3 DEF InitializePow, MonitorMiner

(* The steps that go through pre_block_logic or add a block.                *)
LEMMA BlockSound ==
  ASSUME SolutionInv, MiningInv, NEW th, NEW b \in Offered, NEW good,
         NEW nat \in {native, Solved}, PreBlockLogic(th, b, good, nat),
         api' = api \/ api' = NoApi
  PROVE  SolutionInv'
<1>1. Tallest' /\ WorkSound' /\ SubmissionSees
  BY PreBlockSound DEF SolutionInv
<1>2. SubmissionSound'
  BY <1>1, SubmissionKept DEF SolutionInv
<1>3. QED
  BY <1>1, <1>2 DEF SolutionInv

LEMMA SyncSound ==
  ASSUME SolutionInv, MiningInv, NEW b \in Block, SyncBlock(b)
  PROVE  SolutionInv'
<1>1. AddBlock(b) /\ UNCHANGED <<templateVars, native, restart, api>> /\ b \in Offered
  BY DEF SyncBlock, Offered
<1>2. Tallest'
  BY <1>1, TallestKept DEF SolutionInv, MiningInv
<1>3. WorkSound'
  BY <1>1, WorkStays DEF SolutionInv, templateVars
<1>4. SubmissionSound'
  BY <1>1, SubmissionKept DEF SolutionInv, SubmissionSees, templateVars
<1>5. QED
  BY <1>2, <1>3, <1>4 DEF SolutionInv

LEMMA LoopBlockSound ==
  ASSUME SolutionInv, MiningInv, LoopBlock
  PROVE  SolutionInv'
<1>1. api' = api
  BY DEF LoopBlock
<1>2. CASE UNCHANGED <<chainVars, templateVars, native, restart>>
  BY <1>1, <1>2, QuietSound
<1>3. CASE ~ UNCHANGED <<chainVars, templateVars, native, restart>>
  <2>1. Head(loop.keys) \in ToSet(future)
           /\ PreBlockLogic("reactor", Head(loop.keys), TRUE, native)
    BY <1>3 DEF LoopBlock
  <2>2. Head(loop.keys) \in Offered
    <3>1. future \in Seq(Offered)
      BY DEF MiningInv, ListTyped
    <3>2. QED
      BY <2>1, <3>1, ElementFacts
  <2>3. QED
    BY <1>1, <2>1, <2>2, BlockSound
<1>4. QED
  BY <1>2, <1>3

LEMMA NativeSolutionSound ==
  ASSUME SolutionInv, MiningInv, NativeSolution
  PROVE  SolutionInv'
<1> DEFINE t == Work(native)
           b == Mined(Content(t), "native", ~ t.wire)
           good == Content(t) = native.blob /\ ~ native.marked
<1>1. /\ native.state = "running"
      /\ PreBlockLogic("native", b, good, Solved)
      /\ api' = api
  BY DEF NativeSolution
<1>2. t \in Templates
  BY SMTT(60), <1>1 DEF MiningInv, MinerSound, MinerTyped, Natives, Work
<1>3. Content(t) \in Contents /\ (~ t.wire) \in BOOLEAN
  BY <1>2, TemplateFacts
<1>4. b \in Offered
  BY <1>3, MinedFacts
<1> HIDE DEF b, good
<1>5. QED
  BY <1>1, <1>4, BlockSound

LEMMA SubmitPreBlockSound ==
  ASSUME SolutionInv, MiningInv, SubmitPreBlock
  PROVE  SolutionInv'
<1>1. api' = NoApi
  BY DEF SubmitPreBlock
<1>2. CASE api.clone = Absent
  <2>1. UNCHANGED <<chainVars, templateVars, native, restart>>
    BY <1>2 DEF SubmitPreBlock
  <2>2. Tallest' /\ WorkSound'
    BY <2>1, WorkStays DEF SolutionInv, Tallest, NumberOf, chainVars, templateVars
  <2>3. SubmissionSound'
    BY <1>1, <2>1, SubmissionKept DEF SolutionInv, SubmissionSees, templateVars
  <2>4. QED
    BY <2>2, <2>3 DEF SolutionInv
<1>3. CASE api.clone # Absent
  <2>1. PreBlockLogic("api", Mined(api.clone, "pool", TRUE), TRUE, native)
    BY <1>3 DEF SubmitPreBlock
  <2>2. api.clone \in Contents
    BY <1>3 DEF MiningInv, ApiTyped, Apis
  <2>3. Mined(api.clone, "pool", TRUE) \in Offered
    BY <2>2, MinedFacts
  <2>4. QED
    BY <1>1, <2>1, <2>3, BlockSound
<1>4. QED
  BY <1>2, <1>3

LEMMA GetBlockToMineSound ==
  ASSUME SolutionInv, MiningInv, NEW addr \in Addresses, GetBlockToMine(addr)
  PROVE  SolutionInv'
<1> DEFINE fits == template # Absent /\ template.parent = tip
<1>1. UNCHANGED <<chainVars, api>> /\ api.at = "idle"
  BY DEF GetBlockToMine, ApiIdle
<1>2. Tallest' /\ SubmissionSound'
  BY <1>1, SubmissionKept DEF SolutionInv, SubmissionSees, Tallest, NumberOf, chainVars
<1>3. template \in Templates \cup {Absent} /\ restart \in Restarts
  BY DEF MiningInv, MinerTyped
<1>4. CASE fits /\ template' = [template EXCEPT !.handed = TRUE] /\ UNCHANGED <<native, restart>>
  <2>1. template \in Templates /\ template # Absent /\ Clean(template)
    BY <1>3, <1>4 DEF SolutionInv, WorkSound
  <2>2. PICK t : t = [template EXCEPT !.handed = TRUE]
    OBVIOUS
  <2>3. /\ Clean(t) /\ Content(t) = Content(template) /\ t.wire = template.wire
    BY <2>1, <2>2, CleanKept
  <2>4. t # Absent
    BY <2>1, <2>2, TemplateFacts
  <2>5. template' = t
    BY <1>4, <2>2
  <2>6. WorkSound'
    BY <1>4, <2>1, <2>3, <2>4, <2>5, WorkMarked DEF SolutionInv
  <2>7. QED
    BY <1>2, <2>6 DEF SolutionInv
<1>5. CASE /\ Prepare(tip, addr, TRUE, "taken")
           /\ restart' = [Detach(IF fits THEN Readdress(template, addr) ELSE template)
                           EXCEPT !.crossed = (restart.at # "idle")]
  <2>1. PICK t : t = IF fits THEN Readdress(template, addr) ELSE template
    OBVIOUS
  <2>2. Clean(t)
    <3>1. CASE fits
      <4>1. template \in Templates /\ Clean(template)
        BY <1>3, <3>1 DEF SolutionInv, WorkSound
      <4>2. QED
        BY <2>1, <3>1, <4>1, CleanKept
    <3>2. CASE ~ fits
      BY <2>1, <3>2 DEF SolutionInv, WorkSound
    <3>3. QED
      BY <3>1, <3>2
  <2>3. PICK d : d = Detach(t)
    OBVIOUS
  <2>4. d.old \in {restart.old, t}
    BY <1>3, <2>3, DetachFacts
  <2>5. restart' = [d EXCEPT !.crossed = (restart.at # "idle")]
    BY <1>5, <2>1, <2>3
  <2>6. PICK r : r = restart'.old
    OBVIOUS
  <2>7. r = d.old
    <3>1. d = restart \/ d = [restart EXCEPT !.old = t]
      BY <2>3 DEF Detach
    <3>2. "old" \in DOMAIN d
      BY <1>3, <3>1 DEF Restarts
    <3>3. QED
      BY <2>5, <2>6, <3>2
  <2>8. Clean(r)
    BY <2>2, <2>4, <2>7 DEF SolutionInv, WorkSound
  <2>9. ModeTyped /\ TimeOf(tip) \in Nat
    BY OfferedFacts DEF MiningInv, ChainTyped
  <2>10. template' = Template(tip, addr, TRUE) /\ native' = Off("taken")
    BY <1>5 DEF Prepare
  <2>11. WorkSound'
    BY <2>6, <2>8, <2>9, <2>10, WorkPrepared
  <2>12. QED
    BY <1>2, <2>11 DEF SolutionInv
<1>6. QED
  BY <1>4, <1>5 DEF GetBlockToMine

LEMMA SubmitHeaderSound ==
  ASSUME SolutionInv, MiningInv, SubmitHeader
  PROVE  SolutionInv'
<1>1. /\ UNCHANGED <<store, tip, template, restart, native>>
      /\ api' = [at |-> "header", sol |-> Content(template), clone |-> Absent]
  BY DEF SubmitHeader, apiOnly, chainVars
<1>2. WorkSound' /\ Tallest'
  BY <1>1, WorkStays DEF SolutionInv, Tallest, NumberOf
<1>3. SubmissionSound'
  <2>1. api'.at = "header" /\ api'.clone = Absent /\ api'.sol = Content(template)
    BY <1>1
  <2>2. QED
    BY <1>1, <2>1 DEF SubmissionSound, Content, Absent
<1>4. QED
  BY <1>2, <1>3 DEF SolutionInv

LEMMA SubmitSetSound ==
  ASSUME SolutionInv, MiningInv, SubmitSet
  PROVE  SolutionInv'
<1>1. UNCHANGED <<store, tip, restart, native, replaced>> /\ api.at = "header"
  BY DEF SubmitSet, apiOnly, chainVars
<1>2. template \in Templates /\ template # Absent /\ Clean(template)
  BY <1>1 DEF MiningInv, MinerTyped, ApiSound, SolutionInv, WorkSound
<1>3. PICK n \in {"good", "bad"} :
        /\ template' = [template EXCEPT !.nonce = n, !.wire = TRUE]
        /\ Content(template) = api.sol => n = "good"
  BY DEF SubmitSet
<1>4. PICK t : t = [template EXCEPT !.nonce = n, !.wire = TRUE]
  OBVIOUS
<1>5. /\ Clean(t) /\ Content(t) = Content(template) /\ t.wire /\ t.nonce = n
  BY <1>2, <1>4, CleanKept
<1>6. t # Absent
  BY <1>2, <1>4, TemplateFacts
<1>7. template' = t
  BY <1>3, <1>4
<1>8. WorkSound'
  BY <1>1, <1>2, <1>5, <1>6, <1>7, WorkMarked DEF SolutionInv
<1>9. api' = [at |-> "set", sol |-> Absent, clone |-> Absent]
  BY DEF SubmitSet, NoApi
<1>10. ~ replaced' => template'.nonce = "good"
  <2>1. ~ replaced => Content(template) = api.sol
    BY <1>1 DEF SolutionInv, SubmissionSound
  <2>2. QED
    BY <1>1, <1>3, <1>5, <1>7, <2>1
<1>11. SubmissionSound'
  BY <1>9, <1>10 DEF SubmissionSound, Absent
<1>12. Tallest'
  BY <1>1 DEF SolutionInv, Tallest, NumberOf
<1>13. QED
  BY <1>8, <1>11, <1>12 DEF SolutionInv

LEMMA SubmitCloneSound ==
  ASSUME SolutionInv, MiningInv, SubmitClone
  PROVE  SolutionInv'
<1>1. UNCHANGED <<store, tip, restart, native, replaced, template>> /\ api.at = "set"
  BY DEF SubmitClone, apiOnly, chainVars, templateVars
<1>2. template \in Templates /\ template # Absent /\ Clean(template)
  BY <1>1 DEF MiningInv, MinerTyped, ApiSound, SolutionInv, WorkSound
<1>3. PICK c : c = IF template.nonce = "good" THEN Content(template) ELSE Absent
  OBVIOUS
<1>4. api' = [at |-> "cloned", sol |-> Absent, clone |-> c]
  BY <1>3 DEF SubmitClone, NoApi
<1>5. ~ replaced => c # Absent
  BY <1>1, <1>2, <1>3, TemplateFacts DEF SolutionInv, SubmissionSound
<1>6. c # Absent => Fits(c)
  BY <1>2, <1>3 DEF Clean, Fits, Content
<1>7. api'.at = "cloned" /\ api'.clone = c
  BY <1>4
<1>8. SubmissionSound'
  BY <1>1, <1>5, <1>6, <1>7 DEF SubmissionSound, Fits, NumberOf, TimeOf, Absent
<1>9. WorkSound' /\ Tallest'
  BY <1>1, WorkStays DEF SolutionInv, Tallest, NumberOf
<1>10. QED
  BY <1>8, <1>9 DEF SolutionInv

LEMMA SolutionInit == Init => SolutionInv
<1> SUFFICES ASSUME Init PROVE SolutionInv
  OBVIOUS
<1>1. store = {Genesis} /\ tip = Genesis /\ Genesis \in Offered
  BY MiningAssumption DEF Init, Offered
<1>2. Tallest
  BY <1>1, OfferedFacts DEF Tallest
<1>3. WorkSound
  BY DEF Init, WorkSound, Clean, NoWork, Off
<1>4. SubmissionSound
  BY DEF Init, NoApi, SubmissionSound
<1>5. QED
  BY <1>2, <1>3, <1>4 DEF SolutionInv

LEMMA SolutionNext ==
  ASSUME SolutionInv, MiningInv, [Next]_vars
  PROVE  SolutionInv'
<1>1. ASSUME NEW b \in Block, PeerBlock(b)
      PROVE  SolutionInv'
  BY <1>1, BlockSound DEF PeerBlock, Offered
<1>2. ASSUME NEW b \in Block, SyncBlock(b)
      PROVE  SolutionInv'
  BY <1>2, SyncSound
<1>3. ASSUME NEW a \in {NodeAddress, PoolAddress}, GetBlockToMine(a)
      PROVE  SolutionInv'
  BY <1>3, GetBlockToMineSound DEF Addresses
<1>4. CASE SubmitHeader \/ SubmitSet \/ SubmitClone \/ SubmitPreBlock
  BY <1>4, SubmitHeaderSound, SubmitSetSound, SubmitCloneSound, SubmitPreBlockSound
<1>5. CASE RestartStart \/ HeldStart \/ InitializePow \/ MonitorMiner
  BY <1>5, StartsSound, MonitorSound
<1>6. CASE LoopBlock \/ NativeSolution
  BY <1>6, LoopBlockSound, NativeSolutionSound
<1>7. CASE \/ \E b \in timers : FutureTimer(b)
           \/ LoopDelete \/ NativeSkip \/ ResumeMining \/ Tick \/ RestartRead
           \/ UNCHANGED vars
  BY <1>7, SteadySound
<1>8. QED
  BY <1>1, <1>2, <1>3, <1>4, <1>5, <1>6, <1>7 DEF Next, Submit

(* A block mined here is none of the peers' blocks: its header has the      *)
(* nonces of a solution found here.                                        *)
OwnBlocks == \A c, via, whole : Mined(c, via, whole) \notin Block

(* A block whose content fits and is timely passes every test of validate   *)
(* but the proof of work: the settings let a block in that the drift does   *)
(* not hold back.                                                          *)
LEMMA SolutionFits ==
  ASSUME MiningInv, Tallest, OwnBlocks, Drift <= Lead,
         NEW c \in Contents, Fits(c), Timely(c), NEW via \in {"native", "pool"},
         NEW b, b = Mined(c, via, TRUE)
  PROVE  /\ b \notin store /\ ParentOf(b) \in store /\ Applies(b)
         /\ TimeOf(b) > TimeOf(ParentOf(b)) /\ TimeOf(b) <= now + Lead
         /\ ~ IsFuture(b) /\ NumberOf(b) > NumberOf(tip)
<1>1. /\ b \in Offered /\ b \notin Block
      /\ b.number = c.number /\ b.parent = c.parent /\ b.time = c.time
  BY MinedFacts DEF OwnBlocks, Mined
<1>2. NumberOf(b) = c.number /\ ParentOf(b) = c.parent /\ TimeOf(b) = c.time
  BY <1>1 DEF NumberOf, ParentOf, TimeOf
<1>3. c.parent = tip /\ tip \notin Expiring /\ c.time <= now + Drift
  BY DEF Timely
<1>4. /\ tip \in store /\ tip \in Offered /\ NumberOf(tip) \in Nat /\ now \in Nat
      /\ c.number \in Nat /\ c.time \in Nat /\ Lead \in Nat /\ Drift \in Nat
  BY OfferedFacts, MiningAssumption DEF MiningInv, ChainTyped, ModeTyped, Contents
<1>5. c.number = NumberOf(tip) + 1 /\ c.time > TimeOf(tip)
  BY <1>3 DEF Fits
<1>6. PICK n, m : n = NumberOf(tip) /\ m = NumberOf(b)
  OBVIOUS
<1>7. n \in Nat /\ m = n + 1 /\ TimeOf(b) > TimeOf(ParentOf(b))
  BY <1>2, <1>3, <1>4, <1>5, <1>6
<1>8. m > n /\ ~ (m <= n)
  BY <1>7
<1>9. c.time <= now + Lead /\ ~ (c.time > now + Drift)
  BY <1>3, <1>4
<1>10. TimeOf(b) <= now + Lead /\ ~ IsFuture(b)
  BY <1>2, <1>9 DEF IsFuture
<1>11. ParentOf(b) \in store /\ Applies(b)
  BY <1>2, <1>3, <1>4 DEF Applies
<1>12. NumberOf(b) > NumberOf(tip) /\ b \notin store
  BY <1>6, <1>8 DEF Tallest
<1>13. QED
  BY <1>7, <1>10, <1>11, <1>12

(* With its nonces, it becomes the last block.                             *)
LEMMA SolutionCounts ==
  ASSUME MiningInv, Tallest, OwnBlocks, Drift <= Lead,
         NEW c \in Contents, Fits(c), Timely(c), NEW via \in {"native", "pool"},
         NEW b, b = Mined(c, via, TRUE),
         NEW th, NEW good, good, NEW nat, PreBlockLogic(th, b, good, nat)
  PROVE  tip' = b
<1>1. /\ b \notin store /\ ParentOf(b) \in store /\ Applies(b)
      /\ TimeOf(b) > TimeOf(ParentOf(b)) /\ TimeOf(b) <= now + Lead
      /\ ~ IsFuture(b) /\ NumberOf(b) > NumberOf(tip)
  BY SolutionFits
<1>2. Validates(b, good)
  BY <1>1 DEF Validates
<1>3. AddBlock(b)
  BY <1>1, <1>2 DEF PreBlockLogic
<1>4. QED
  BY <1>1, <1>3 DEF AddBlock

(* What the native miner hashes is the content of its template, which fits. *)
LEMMA NativeCounts ==
  ASSUME MiningInv, SolutionInv, OwnBlocks, Drift <= Lead,
         NativeSolution, Timely(native.blob), ~ Work(native).wire
  PROVE  tip' = Mined(native.blob, "native", TRUE)
<1>1. PICK t, c : t = Work(native) /\ c = Content(t)
  OBVIOUS
<1>2. native.state = "running"
  BY DEF NativeSolution
<1>3. t \in Templates
  BY SMTT(60), <1>1, <1>2 DEF MiningInv, MinerSound, MinerTyped, Natives, Work
<1>4. c = native.blob /\ ~ native.marked /\ Clean(t)
  BY <1>1, <1>2 DEF SolutionInv, WorkSound, Work
<1>5. c \in Contents /\ Fits(c)
  <2>1. t # Absent /\ Content(t) \in Contents
    BY <1>3, TemplateFacts
  <2>2. Fits(t)
    BY <1>4, <2>1 DEF Clean
  <2>3. c.number = t.number /\ c.parent = t.parent /\ c.time = t.time
    BY <1>1 DEF Content
  <2>4. QED
    BY SMTT(60), <1>1, <2>1, <2>2, <2>3 DEF Fits
<1>6. PICK good : good = (Content(t) = native.blob /\ ~ native.marked)
  OBVIOUS
<1>7. good
  BY <1>1, <1>4, <1>6
<1>8. PICK b : b = Mined(c, "native", TRUE)
  OBVIOUS
<1>9. (~ t.wire) = TRUE
  BY <1>1
<1>10. PreBlockLogic("native", b, good, Solved)
  BY <1>1, <1>6, <1>8, <1>9 DEF NativeSolution
<1>11. tip' = b
  BY <1>4, <1>5, <1>7, <1>8, <1>10, SolutionCounts DEF SolutionInv
<1>12. QED
  BY <1>4, <1>8, <1>11

(* And so is what the pool submits, as long as its template is in place.    *)
LEMMA PoolCounts ==
  ASSUME MiningInv, SolutionInv, OwnBlocks, Drift <= Lead, SubmitPreBlock, ~ replaced
  PROVE  \/ api.clone # Absent /\ ~ Timely(api.clone)
         \/ tip' = Mined(api.clone, "pool", TRUE)
<1>1. PICK c, b : c = api.clone /\ b = Mined(c, "pool", TRUE)
  OBVIOUS
<1>2. api.at = "cloned" /\ c # Absent /\ Fits(c)
  BY <1>1 DEF SubmitPreBlock, SolutionInv, SubmissionSound
<1>3. c \in Contents
  BY <1>1, <1>2 DEF MiningInv, ApiTyped, Apis
<1>4. PreBlockLogic("api", b, TRUE, native)
  BY <1>1, <1>2 DEF SubmitPreBlock
<1>5. Timely(c) => tip' = b
  BY <1>1, <1>2, <1>3, <1>4, SolutionCounts DEF SolutionInv
<1>6. QED
  BY <1>1, <1>2, <1>5

(* The templates, what the native miner hashes and the submissions fit      *)
(* together in every reachable state.                                      *)
THEOREM SolutionInvariant == Spec => []SolutionInv
<1>1. Init => SolutionInv
  BY SolutionInit
<1>2. SolutionInv /\ MiningInv /\ [Next]_vars => SolutionInv'
  BY SolutionNext
<1>3. QED
  BY <1>1, <1>2, MiningInvariant, PTL DEF Spec

(* No timely solution is lost, for any number of miners' steps between the  *)
(* template and its block: neither the native miner's nor the pool's.      *)
THEOREM SolutionsAlwaysCount ==
  ASSUME OwnBlocks, Drift <= Lead
  PROVE  Spec => SolutionsCount
<1>1. MiningInv /\ SolutionInv /\ [Next]_vars =>
        [/\ NativeSolution /\ Timely(native.blob) /\ ~ Work(native).wire
              => tip' = Mined(native.blob, "native", TRUE)
         /\ SubmitPreBlock /\ ~ replaced
              => \/ api.clone # Absent /\ ~ Timely(api.clone)
                 \/ tip' = Mined(api.clone, "pool", TRUE)]_vars
  BY NativeCounts, PoolCounts
<1>2. QED
  BY <1>1, MiningInvariant, SolutionInvariant, PTL DEF Spec, SolutionsCount


=============================================================================
