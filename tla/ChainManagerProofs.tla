------------------------- MODULE ChainManagerProofs -------------------------
(***************************************************************************)
(* Proofs about ChainManager, for every tree of blocks.                    *)
(*                                                                         *)
(* The second half is about the head in a node whose recoveries are not    *)
(* interrupted: it implements BestChain, it follows the heaviest branch,   *)
(* and a recovery either reaches its initiator or leaves the chain where   *)
(* it was.                                                                 *)
(***************************************************************************)
EXTENDS ChainManager, DataLemmas, FiniteSetTheorems

-----------------------------------------------------------------------------
(* The tree                                                                 *)

(* Only the genesis block has number 0; every other number is one more than *)
(* a number of the tree.                                                    *)
LEMMA TreeFacts ==
  /\ Heights \subseteq Nat
  /\ 0 \in Heights
  /\ \A b \in NonGenesis : /\ b \in Blocks
                           /\ Parent[b] \in Blocks
                           /\ Number[b] = Number[Parent[b]] + 1
                           /\ Number[b] > 0
  /\ \A b \in Blocks : /\ Number[b] \in Heights
                       /\ Number[b] \in Nat
                       /\ b # Genesis => b \in NonGenesis
                       /\ b # NoBlock
  BY TreeAssumption DEF Heights, NonGenesis

-----------------------------------------------------------------------------
(* Applying and removing a block at the tip                                 *)

(* The part of the invariant that speaks of the main chain and the account  *)
(* state.                                                                   *)
ChainTyped ==
  /\ blocks    \in SUBSET Blocks
  /\ mainchain \in [Heights -> MaybeBlock]
  /\ height    \in Heights
  /\ ledger    \in SUBSET Blocks

ChainSound == ChainTyped /\ StoreClosed /\ MainchainLinked /\ LedgerIsMainchain

(* The tip of a sound chain is a stored block, at the height of the chain,  *)
(* and its parent, if it has one, is below it on the main chain.            *)
LEMMA TipFacts ==
  ASSUME ChainSound
  PROVE  /\ StoredTip \in blocks
         /\ StoredTip \in Blocks
         /\ Number[StoredTip] = height
         /\ mainchain[Number[StoredTip]] = StoredTip
         /\ StoredTip # Genesis => /\ height > 0
                                   /\ StoredTip \in NonGenesis
                                   /\ StoredTip \in Applies
                                   /\ height - 1 \in Heights
                                   /\ Parent[StoredTip] = mainchain[height - 1]
                                   /\ Number[Parent[StoredTip]] = height - 1
  <1>1. /\ StoredTip \in blocks
        /\ Number[StoredTip] = height
    BY TreeFacts DEF ChainSound, ChainTyped, MainchainLinked, StoredTip
  <1>2. StoredTip \in Blocks
    BY <1>1 DEF ChainSound, ChainTyped
  <1>3. ASSUME StoredTip # Genesis
        PROVE  /\ height > 0
               /\ StoredTip \in NonGenesis
               /\ StoredTip \in Applies
               /\ height - 1 \in Heights
               /\ Parent[StoredTip] = mainchain[height - 1]
               /\ Number[Parent[StoredTip]] = height - 1
    <2>1. /\ StoredTip \in NonGenesis
          /\ height \in Nat
          /\ height > 0
      BY <1>1, <1>2, <1>3, TreeFacts DEF ChainSound, ChainTyped
    <2>2. /\ StoredTip \in Applies
          /\ Parent[StoredTip] = mainchain[height - 1]
      BY <2>1 DEF ChainSound, ChainTyped, StoreClosed, MainchainLinked, StoredTip
    <2>3. /\ Number[Parent[StoredTip]] = height - 1
          /\ height - 1 \in Heights
      BY <1>1, <2>1, TreeFacts
    <2> QED  BY <2>1, <2>2, <2>3
  <1> QED  BY <1>1, <1>2, <1>3 DEF StoredTip

(* Putting an applicable child on the tip keeps the chain sound.            *)
LEMMA ApplyKeepsChain ==
  ASSUME ChainSound,
         NEW b \in NonGenesis, b \in Applies, b \in blocks',
         Parent[b] = StoredTip,
         blocks \subseteq blocks', blocks' \in SUBSET Blocks,
         \A x \in blocks' \ {Genesis} : Parent[x] \in blocks',
         ApplyBlock(b)
  PROVE  /\ ChainSound'
         /\ StoredTip' = b
         /\ \A x \in Blocks : mainchain[Number[x]] = x => mainchain'[Number[x]] = x
  <1>1. /\ Number[b] = height + 1
        /\ Number[b] \in Heights
        /\ height \in Nat
        /\ b \in Blocks
    BY TipFacts, TreeFacts DEF ChainSound, ChainTyped
  <1>2. /\ height' = height + 1
        /\ lastBlock' = b
        /\ ledger' = ledger \cup {b}
        /\ mainchain' \in [Heights -> MaybeBlock]
        /\ mainchain'[height + 1] = b
        /\ \A n \in Heights \ {height + 1} : mainchain'[n] = mainchain[n]
    BY <1>1 DEF ApplyBlock, ChainSound, ChainTyped, MaybeBlock
  <1>3. StoredTip' = b
    BY <1>2 DEF StoredTip
  <1>4. ChainTyped'
    BY <1>1, <1>2 DEF ChainSound, ChainTyped
  <1>5. StoreClosed'
    <2>1. Genesis \in blocks'
      BY DEF ChainSound, StoreClosed
    <2>2. ASSUME NEW n \in Heights, n > 0, n <= height'
          PROVE  mainchain'[n] \in Applies
      <3>1. CASE n = height + 1
        BY <1>2, <3>1
      <3>2. CASE n # height + 1
        BY <1>1, <1>2, <2>2, <3>2, TreeFacts DEF ChainSound, StoreClosed
      <3> QED  BY <3>1, <3>2
    <2> QED  BY <2>1, <2>2 DEF StoreClosed
  <1>6. MainchainLinked'
    <2>1. ASSUME NEW n \in Heights, n > height'
          PROVE  mainchain'[n] = NoBlock
      BY <1>1, <1>2, <2>1, TreeFacts DEF ChainSound, MainchainLinked
    <2>2. ASSUME NEW n \in Heights, ~(n > height')
          PROVE  /\ mainchain'[n] \in blocks'
                 /\ Number[mainchain'[n]] = n
                 /\ n > 0 => Parent[mainchain'[n]] = mainchain'[n - 1]
      <3>1. CASE n = height + 1
        <4>1. mainchain'[height] = StoredTip
          BY <1>1, <1>2 DEF ChainSound, ChainTyped, StoredTip
        <4> QED  BY <1>1, <1>2, <3>1, <4>1
      <3>2. CASE n # height + 1
        <4>1. /\ n \in Nat
              /\ ~(n > height)
              /\ mainchain'[n] = mainchain[n]
          BY <1>1, <1>2, <2>2, <3>2, TreeFacts
        <4>2. /\ mainchain[n] \in blocks
              /\ Number[mainchain[n]] = n
              /\ n > 0 => Parent[mainchain[n]] = mainchain[n - 1]
          BY <4>1 DEF ChainSound, MainchainLinked
        <4>3. n > 0 => n - 1 \in Heights \ {height + 1}
          <5>1. SUFFICES ASSUME n > 0  PROVE n - 1 \in Heights
            BY <1>1, <4>1
          <5>2. mainchain[n] \in NonGenesis
            BY <4>1, <4>2, <5>1, TreeAssumption DEF ChainSound, ChainTyped, NonGenesis
          <5> QED  BY <4>1, <4>2, <5>2, TreeFacts
        <4> QED  BY <1>2, <4>1, <4>2, <4>3
      <3> QED  BY <3>1, <3>2
    <2> QED  BY <1>2, <1>3, <2>1, <2>2 DEF MainchainLinked
  <1>7. LedgerIsMainchain'
    <2>1. ledger = {mainchain[n] : n \in {k \in Heights : k <= height}}
      BY DEF ChainSound, LedgerIsMainchain
    <2>2. ASSUME NEW x  PROVE x \in ledger' <=> \E n \in Heights : n <= height' /\ x = mainchain'[n]
      <3>1. CASE x = b
        BY <1>1, <1>2, <3>1
      <3>2. CASE x # b
        BY <1>1, <1>2, <2>1, <3>2, TreeFacts
      <3> QED  BY <3>1, <3>2
    <2> QED  BY <2>2 DEF LedgerIsMainchain
  <1>8. ASSUME NEW x \in Blocks, mainchain[Number[x]] = x
        PROVE  mainchain'[Number[x]] = x
    <2>1. Number[x] # height + 1
      BY <1>1, <1>8, TreeFacts DEF ChainSound, MainchainLinked
    <2> QED  BY <1>2, <1>8, <2>1, TreeFacts
  <1> QED  BY <1>3, <1>4, <1>5, <1>6, <1>7, <1>8 DEF ChainSound

(* Removing the tip keeps the chain sound.                                  *)
LEMMA RevertKeepsChain ==
  ASSUME ChainSound, lastBlock = StoredTip, lastBlock # Genesis,
         blocks' = blocks,
         RevertTip
  PROVE  /\ ChainSound'
         /\ StoredTip' = Parent[StoredTip]
         /\ \A x \in Blocks : mainchain[Number[x]] = x /\ x # StoredTip
                              => mainchain'[Number[x]] = x
  <1>1. /\ Number[StoredTip] = height
        /\ height \in Nat
        /\ height > 0
        /\ height - 1 \in Heights
        /\ Parent[StoredTip] = mainchain[height - 1]
        /\ height \in Heights
    BY TipFacts, TreeFacts DEF ChainSound, ChainTyped
  <1>2. /\ height' = height - 1
        /\ lastBlock' = Parent[StoredTip]
        /\ ledger' = ledger \ {StoredTip}
        /\ mainchain' \in [Heights -> MaybeBlock]
        /\ mainchain'[height] = NoBlock
        /\ \A n \in Heights \ {height} : mainchain'[n] = mainchain[n]
    BY <1>1 DEF RevertTip, ChainSound, ChainTyped, MaybeBlock
  <1>3. StoredTip' = Parent[StoredTip]
    BY <1>1, <1>2 DEF StoredTip
  <1>4. ChainTyped'
    BY <1>1, <1>2 DEF ChainSound, ChainTyped
  <1>5. StoreClosed'
    BY <1>1, <1>2, TreeFacts DEF ChainSound, StoreClosed
  <1>6. MainchainLinked'
    <2>1. ASSUME NEW n \in Heights, n > height'
          PROVE  mainchain'[n] = NoBlock
      BY <1>1, <1>2, <2>1, TreeFacts DEF ChainSound, MainchainLinked
    <2>2. ASSUME NEW n \in Heights, ~(n > height')
          PROVE  /\ mainchain'[n] \in blocks'
                 /\ Number[mainchain'[n]] = n
                 /\ n > 0 => Parent[mainchain'[n]] = mainchain'[n - 1]
      <3>1. /\ n \in Nat
            /\ ~(n > height)
            /\ n # height
            /\ mainchain'[n] = mainchain[n]
        BY <1>1, <1>2, <2>2, TreeFacts
      <3>2. /\ mainchain[n] \in blocks
            /\ Number[mainchain[n]] = n
            /\ n > 0 => Parent[mainchain[n]] = mainchain[n - 1]
        BY <3>1 DEF ChainSound, MainchainLinked
      <3>3. n > 0 => n - 1 \in Heights \ {height}
        <4>1. SUFFICES ASSUME n > 0  PROVE n - 1 \in Heights
          BY <1>1, <1>2, <2>2, <3>1
        <4>2. mainchain[n] \in NonGenesis
          BY <3>1, <3>2, <4>1, TreeAssumption DEF ChainSound, ChainTyped, NonGenesis
        <4> QED  BY <3>1, <3>2, <4>2, TreeFacts
      <3> QED  BY <1>2, <3>1, <3>2, <3>3
    <2> QED  BY <1>2, <1>3, <2>1, <2>2 DEF MainchainLinked
  <1>7. LedgerIsMainchain'
    <2>1. ledger = {mainchain[n] : n \in {k \in Heights : k <= height}}
      BY DEF ChainSound, LedgerIsMainchain
    <2>2. \A n \in Heights : n <= height /\ n # height => mainchain[n] # StoredTip
      BY <1>1, TreeFacts DEF ChainSound, MainchainLinked
    <2>3. ASSUME NEW x  PROVE x \in ledger' <=> \E n \in Heights : n <= height' /\ x = mainchain'[n]
      <3>1. CASE x = StoredTip
        BY <1>1, <1>2, <2>2, <3>1, TreeFacts
      <3>2. CASE x # StoredTip
        BY <1>1, <1>2, <2>1, <3>2, TreeFacts DEF StoredTip
      <3> QED  BY <3>1, <3>2
    <2> QED  BY <2>3 DEF LedgerIsMainchain
  <1>8. ASSUME NEW x \in Blocks, mainchain[Number[x]] = x, x # StoredTip
        PROVE  mainchain'[Number[x]] = x
    BY <1>1, <1>2, <1>8, TreeFacts DEF StoredTip
  <1> QED  BY <1>3, <1>4, <1>5, <1>6, <1>7, <1>8 DEF ChainSound

(* An element added at the end of a path.                                   *)
LEMMA AppendFacts ==
  ASSUME NEW path \in Seq(NonGenesis), NEW b \in NonGenesis
  PROVE  /\ Append(path, b) \in Seq(NonGenesis)
         /\ Append(path, b) # <<>>
         /\ Len(Append(path, b)) = Len(path) + 1
         /\ Append(path, b)[Len(path) + 1] = b
         /\ \A i \in 1 .. Len(path) : Append(path, b)[i] = path[i]
         /\ ToSet(Append(path, b)) = ToSet(path) \cup {b}
         /\ Append(path, b)[1] = IF path = <<>> THEN b ELSE path[1]
         /\ Linked(path) /\ (path # <<>> => Parent[path[Len(path)]] = b)
              => Linked(Append(path, b))
  <1>1. /\ Append(path, b) \in Seq(NonGenesis)
        /\ Append(path, b) # <<>>
        /\ Len(Append(path, b)) = Len(path) + 1
        /\ Append(path, b)[Len(path) + 1] = b
        /\ \A i \in 1 .. Len(path) : Append(path, b)[i] = path[i]
        /\ Len(path) \in Nat
        /\ DOMAIN path = 1 .. Len(path)
        /\ DOMAIN Append(path, b) = 1 .. Len(path) + 1
        /\ path = <<>> <=> Len(path) = 0
    OBVIOUS
  <1>2. ToSet(Append(path, b)) = ToSet(path) \cup {b}
    BY <1>1 DEF ToSet
  <1>3. Append(path, b)[1] = IF path = <<>> THEN b ELSE path[1]
    BY <1>1
  <1>4. ASSUME Linked(path), path # <<>> => Parent[path[Len(path)]] = b
        PROVE  Linked(Append(path, b))
    <2>1. ASSUME NEW i \in 1 .. Len(path)
          PROVE  Parent[Append(path, b)[i]] = Append(path, b)[i + 1]
      <3>1. CASE i = Len(path)
        BY <1>1, <1>4, <2>1, <3>1
      <3>2. CASE i # Len(path)
        <4>0. Len(path) \in Nat
          BY <1>1
        <4>1. i \in 1 .. Len(path) - 1 /\ i + 1 \in 1 .. Len(path)
          BY <2>1, <3>2, <4>0
        <4>2. Parent[path[i]] = path[i + 1]
          BY <1>4, <4>1 DEF Linked
        <4> QED  BY <1>1, <4>1, <4>2
      <3> QED  BY <3>1, <3>2
    <2> QED  BY <1>1, <2>1 DEF Linked
  <1> QED  BY <1>1, <1>2, <1>3, <1>4

LEMMA PathFacts ==
  ASSUME NEW path \in Seq(NonGenesis)
  PROVE  /\ Len(path) \in Nat
         /\ DOMAIN path = 1 .. Len(path)
         /\ path = <<>> <=> Len(path) = 0
         /\ \A i \in 1 .. Len(path) : path[i] \in ToSet(path) /\ path[i] \in NonGenesis
         /\ ToSet(path) \subseteq NonGenesis
  BY DEF ToSet

LEMMA EmptyPath ==
  /\ <<>> \in Seq(NonGenesis)
  /\ <<>> \in Seq(Blocks)
  /\ Linked(<<>>)
  /\ ToSet(<<>>) = {}
  /\ \A point : BranchFrom(point, <<>>)
  BY DEF ToSet, Linked, BranchFrom

-----------------------------------------------------------------------------
(* What the invariant says in a given state                                 *)

RecordSound == ForkRecordSound /\ RecordShape /\ OldPathSound

LEMMA InvFacts ==
  ASSUME ChainInv
  PROVE  /\ TypeOK
         /\ ChainSound
         /\ RecordSound
         /\ pc # "Down" => lastBlock = StoredTip
         /\ forkState.point # NoBlock => Recovering
  BY DEF ChainInv, ChainSound, ChainTyped, RecordSound, TypeOK, MainchainLinked,
         RecordShape, NoFork

(* Steps that leave the chain, or the record, alone.                        *)
LEMMA SameChain ==
  ASSUME ChainInv, UNCHANGED <<blocks, mainchain, height, ledger>>,
         pc' # "Down" => lastBlock' = StoredTip
  PROVE  ChainSound' /\ StoredTip' = StoredTip
  BY InvFacts DEF ChainSound, ChainTyped, StoreClosed, MainchainLinked, LedgerIsMainchain,
         StoredTip

LEMMA SameRecord ==
  ASSUME ChainInv, UNCHANGED <<blocks, mainchain, height, forkState>>
  PROVE  RecordSound' /\ StoredTip' = StoredTip /\ RollbackDone' = RollbackDone
         /\ Recovering' = Recovering
  BY InvFacts DEF RecordSound, ForkRecordSound, RecordShape, OldPathSound, RollbackDone,
         BranchRaises, Recovering, StoredTip

(* The store grows beside the record.                                       *)
LEMMA GrownRecord ==
  ASSUME ChainInv, UNCHANGED <<mainchain, height, forkState>>, blocks \subseteq blocks'
  PROVE  RecordSound'
  BY InvFacts DEF RecordSound, ForkRecordSound, RecordShape, OldPathSound, RollbackDone,
         BranchRaises, Recovering, StoredTip

(* An idle node keeps what it has of a record.                              *)
LEMMA SameLeft ==
  ASSUME ChainInv, UNCHANGED forkState, pc' = "Idle" => pc = "Idle"
  PROVE  NoPendingRecovery' /\ LeftBehind'
  BY DEF ChainInv, NoPendingRecovery, LeftBehind, BranchRaises, Recovering, RollbackDone

(* No record: nothing is left to say of it.                                 *)
LEMMA NoRecord ==
  ASSUME forkState' = NoFork
  PROVE  RecordSound' /\ ~Recovering'
  BY DEF NoFork, RecordSound, ForkRecordSound, RecordShape, OldPathSound, Recovering

(* Where a recovery has not reached its fork point, the tip is an           *)
(* applicable block above that point, and it is not the point itself.       *)
LEMMA AboveForkPoint ==
  ASSUME ChainInv, pc \in {"Rollback", "Undo"}
  PROVE  /\ mainchain[Number[lastBlock]] = lastBlock
         /\ AtForkPoint <=> lastBlock = forkState.point
         /\ forkState.point \in Blocks
         /\ mainchain[Number[forkState.point]] = forkState.point
         /\ lastBlock # forkState.point =>
              /\ lastBlock # Genesis
              /\ lastBlock \in blocks \cap Applies
              /\ Number[lastBlock] > Number[forkState.point]
  <1>1. /\ lastBlock = StoredTip
        /\ forkState.point # NoBlock
        /\ Recovering
        /\ forkState.point \in Blocks
    BY InvFacts DEF ChainInv, Tracing, TypeOK, MaybeBlock
  <1>2. /\ mainchain[Number[lastBlock]] = lastBlock
        /\ Number[lastBlock] = height
        /\ lastBlock \in blocks
    BY <1>1, InvFacts, TipFacts
  <1>3. mainchain[Number[forkState.point]] = forkState.point
    BY <1>1 DEF ChainInv, ForkRecordSound
  <1>4. Number[forkState.point] <= height
    BY <1>1, <1>3, TreeFacts DEF ChainInv, MainchainLinked, TypeOK
  <1>5. ASSUME lastBlock # forkState.point
        PROVE  Number[lastBlock] > Number[forkState.point] /\ lastBlock # Genesis
    <2>1. Number[forkState.point] # height
      BY <1>1, <1>2, <1>3, <1>5
    <2>2. Number[lastBlock] > Number[forkState.point]
      BY <1>1, <1>2, <1>4, <2>1, TreeFacts DEF ChainInv, TypeOK, life
    <2> QED  BY <1>1, <2>2, TreeFacts, TreeAssumption
  <1> QED  BY <1>1, <1>2, <1>3, <1>5, InvFacts, TipFacts DEF AtForkPoint

-----------------------------------------------------------------------------
(* Types: a step that applies or removes a block                            *)

LEMMA ApplyTypes ==
  ASSUME TypeOK, NEW b \in Blocks, ApplyBlock(b)
  PROVE  /\ ledger' \in SUBSET Blocks
         /\ mainchain' \in [Heights -> MaybeBlock]
         /\ height' \in Heights
         /\ lastBlock' \in MaybeBlock
         /\ reorgLimit' \in Nat
  BY SMTT(60), TreeFacts, BoundAssumption DEF TypeOK, ApplyBlock, LimitAfter, MaybeBlock

LEMMA RevertTypes ==
  ASSUME ChainInv, pc # "Down", lastBlock # Genesis, RevertTip
  PROVE  /\ ledger' \in SUBSET Blocks
         /\ mainchain' \in [Heights -> MaybeBlock]
         /\ height' \in Heights
         /\ lastBlock' \in MaybeBlock
         /\ pool' \in SUBSET Txs
  <1>1. /\ lastBlock \in NonGenesis
        /\ lastBlock \in Blocks
        /\ Number[lastBlock] - 1 \in Heights
    BY InvFacts, TipFacts, TreeFacts
  <1>2. pool' \in SUBSET Txs
    BY <1>1, TxAssumption DEF RevertTip, ReturnToPool, ChainInv, TypeOK
  <1> QED  BY <1>1, <1>2, TreeFacts DEF RevertTip, ChainInv, TypeOK, MaybeBlock

LEMMA LeavePoolTypes ==
  ASSUME TypeOK, NEW b, NEW m, LeavePool(b, m)
  PROVE  pool' \in SUBSET Txs
  BY DEF TypeOK, LeavePool

-----------------------------------------------------------------------------
(* The initial state                                                        *)

LEMMA InitInv ==
  ASSUME Init
  PROVE  ChainInv
  <1>1. Genesis \in Blocks /\ Difficulty[Genesis] \in Nat /\ 0 \in Heights
    BY TreeFacts, TreeAssumption, BlockAssumption
  <1>2. /\ forkState \in [initiator : MaybeBlock, point : MaybeBlock,
                          newPath : Seq(Blocks), oldPath : Seq(Blocks)]
        /\ ~Recovering
    BY <1>1 DEF Init, NoFork, Recovering, MaybeBlock
  <1>3. TypeOK
    <2>1. /\ blocks \in SUBSET Blocks
          /\ cumdiff \in [Blocks -> Nat]
          /\ mainchain \in [Heights -> MaybeBlock]
          /\ height \in Heights
          /\ ledger \in SUBSET Blocks
          /\ reorgLimit \in Nat
      BY <1>1 DEF Init, MaybeBlock
    <2>2. pc \in Steps
      BY DEF Init, Steps
    <2>3. /\ lastBlock \in MaybeBlock
          /\ hashPath \in Seq(Blocks)
          /\ removed \in Seq(Blocks)
          /\ next \in Nat
          /\ pool \in SUBSET Txs
          /\ triggerMiner \in BOOLEAN
          /\ loading \in BOOLEAN
          /\ raised \in BOOLEAN
          /\ crashes \in Nat
      BY <1>1, EmptyPath DEF Init, MaybeBlock
    <2> QED  BY <1>2, <2>1, <2>2, <2>3 DEF TypeOK
  <1>4. StoreClosed
    BY TreeFacts DEF Init, StoreClosed
  <1>5. MainchainLinked
    BY TreeFacts, TreeAssumption DEF Init, MainchainLinked, StoredTip
  <1>6. LedgerIsMainchain
    <2>1. \A k \in Heights : k <= 0 <=> k = 0
      BY TreeFacts
    <2>2. \A x : x \in ledger <=> \E n \in Heights : n <= height /\ x = mainchain[n]
      BY <2>1, TreeFacts DEF Init
    <2> QED  BY <2>2 DEF LedgerIsMainchain
  <1>7. NoPendingRecovery /\ LeftBehind /\ ForkRecordSound /\ RecordShape /\ OldPathSound
    BY <1>2 DEF Init, NoPendingRecovery, LeftBehind, ForkRecordSound, RecordShape,
                OldPathSound, NoFork
  <1>8. PathsTyped /\ NoLocals /\ Walking /\ Tracing
    BY DEF Init, PathsTyped, NoLocals, Walking, Tracing, NoFork
  <1>9. pc # "AddChain" /\ pc # "Restore"
    BY DEF Init
  <1> QED  BY <1>3, <1>4, <1>5, <1>6, <1>7, <1>8, <1>9 DEF ChainInv

-----------------------------------------------------------------------------
(* Every action keeps the invariant: add_block                              *)

LEMMA RefuseBlockKeeps ==
  ASSUME ChainInv, NEW b \in NonGenesis, RefuseBlock(b)
  PROVE  ChainInv'
  <1>1. UNCHANGED <<stored, pc, lastBlock, locals, pool, life>> /\ triggerMiner' = FALSE
    BY DEF RefuseBlock
  <1>2. TypeOK'
    BY <1>1 DEF ChainInv, TypeOK, life, stored, locals
  <1>3. ChainSound' /\ RecordSound' /\ StoredTip' = StoredTip /\ RollbackDone' = RollbackDone
        /\ Recovering' = Recovering
    BY <1>1, InvFacts, SameChain, SameRecord DEF stored
  <1>4. pc' = "Idle" /\ pc = "Idle"
    BY <1>1 DEF RefuseBlock
  <1>5. NoPendingRecovery' /\ LeftBehind'
    BY <1>1, <1>4, SameLeft DEF stored
  <1> QED
    BY <1>1, <1>2, <1>3, <1>4, <1>5
    DEF ChainInv, ChainSound, RecordSound, PathsTyped, NoLocals, Walking, Tracing, stored,
        locals

LEMMA AddTransactionKeeps ==
  ASSUME ChainInv, NEW t \in Txs, AddTransaction(t)
  PROVE  ChainInv'
  <1>1. /\ UNCHANGED <<stored, pc, lastBlock, locals, triggerMiner, life>>
        /\ pool' = pool \cup {t}
    BY DEF AddTransaction
  <1>2. TypeOK'
    BY <1>1 DEF ChainInv, TypeOK, life, stored, locals
  <1>3. ChainSound' /\ RecordSound' /\ Recovering' = Recovering
    BY <1>1, InvFacts, SameChain, SameRecord DEF stored
  <1>4. pc' = "Idle" /\ pc = "Idle"
    BY <1>1 DEF AddTransaction
  <1>5. NoPendingRecovery' /\ LeftBehind'
    BY <1>1, <1>4, SameLeft DEF stored
  <1> QED
    BY <1>1, <1>2, <1>3, <1>4, <1>5
    DEF ChainInv, ChainSound, RecordSound, PathsTyped, NoLocals, Walking, Tracing, stored,
        locals

(* A new block whose parent is stored keeps the store closed under parents. *)
LEMMA StoreBlockFacts ==
  ASSUME ChainInv, NEW b \in NonGenesis, Admitted(b), StoreBlock(b)
  PROVE  /\ blocks' = blocks \cup {b}
         /\ blocks' \in SUBSET Blocks
         /\ cumdiff' \in [Blocks -> Nat]
         /\ \A x \in blocks' \ {Genesis} : Parent[x] \in blocks'
  <1>1. /\ blocks' = blocks \cup {b}
        /\ b \in Blocks
        /\ Parent[b] \in blocks
    BY TreeFacts DEF StoreBlock, Admitted
  <1>2. cumdiff[Parent[b]] + Difficulty[b] \in Nat
    BY <1>1, BlockAssumption DEF ChainInv, TypeOK, life
  <1>3. cumdiff' \in [Blocks -> Nat]
    BY <1>1, <1>2 DEF ChainInv, TypeOK, life, StoreBlock, CumulativeDifficulty
  <1> QED  BY <1>1, <1>3 DEF ChainInv, TypeOK, life, StoreClosed

LEMMA ExtendTipKeeps ==
  ASSUME ChainInv, NEW b \in NonGenesis, ExtendTip(b)
  PROVE  ChainInv'
  <1>1. /\ UNCHANGED <<forkState, pc, locals, life>>
        /\ pc = "Idle"
        /\ triggerMiner' = TRUE
        /\ ApplyBlock(b)
        /\ b \in Applies
        /\ Admitted(b)
        /\ StoreBlock(b)
        /\ Parent[b] = StoredTip
        /\ LeavePool(b, Spent(ledger \cup {b}))
        /\ b \in Blocks
    BY InvFacts, TreeFacts DEF ExtendTip
  <1>2. /\ blocks' = blocks \cup {b}
        /\ blocks' \in SUBSET Blocks
        /\ cumdiff' \in [Blocks -> Nat]
        /\ \A x \in blocks' \ {Genesis} : Parent[x] \in blocks'
    BY <1>1, StoreBlockFacts
  <1>3. ChainSound' /\ StoredTip' = b
    BY <1>1, <1>2, InvFacts, ApplyKeepsChain
  <1>4. TypeOK'
    BY <1>1, <1>2, InvFacts, ApplyTypes, LeavePoolTypes DEF TypeOK, life, locals
  <1>5. NoPendingRecovery' /\ LeftBehind'
    BY <1>1, SameLeft
  <1>6. RecordSound'
    <2>1. ForkRecordSound'
      <3>1. CASE Recovering /\ forkState.point # NoBlock
        <4>1. /\ forkState.point \in Blocks
              /\ mainchain[Number[forkState.point]] = forkState.point
          BY <3>1 DEF ChainInv, ForkRecordSound, TypeOK, MaybeBlock
        <4>2. mainchain'[Number[forkState.point]] = forkState.point
          BY <1>1, <1>2, <4>1, InvFacts, ApplyKeepsChain
        <4> QED  BY <1>1, <1>2, <4>2 DEF ChainInv, ForkRecordSound, Recovering
      <3> QED  BY <1>1, <3>1 DEF ForkRecordSound, Recovering
    <2>2. RecordShape'
      BY <1>1, <1>2 DEF ChainInv, RecordShape, Recovering
    <2>3. OldPathSound'
      <3>1. CASE forkState.oldPath = <<>>
        BY <1>1, <3>1 DEF OldPathSound
      <3>2. CASE forkState.oldPath # <<>>
        <4>1. Recovering
          BY <3>2 DEF ChainInv, RecordShape, NoFork
        <4>2. RollbackDone' /\ BranchRaises'
          BY <1>1, <3>2, <4>1
          DEF ChainInv, NoPendingRecovery, LeftBehind, RollbackDone, BranchRaises
        <4> QED  BY <1>1, <1>2, <3>2, <4>2 DEF ChainInv, OldPathSound
      <3> QED  BY <3>1, <3>2
    <2> QED  BY <2>1, <2>2, <2>3 DEF RecordSound
  <1> QED
    BY <1>1, <1>3, <1>4, <1>5, <1>6
    DEF ChainInv, ChainSound, RecordSound, PathsTyped, NoLocals, Walking, Tracing, locals

(* Storing a block changes nothing of the chain.                            *)
LEMMA StoreKeepsChain ==
  ASSUME ChainInv, UNCHANGED <<mainchain, height, ledger, lastBlock>>, pc # "Down",
         blocks \subseteq blocks', blocks' \in SUBSET Blocks,
         \A x \in blocks' \ {Genesis} : Parent[x] \in blocks'
  PROVE  ChainSound' /\ StoredTip' = StoredTip
  <1>1. StoredTip' = StoredTip /\ lastBlock' = StoredTip'
    BY InvFacts DEF StoredTip
  <1>2. MainchainLinked'
    BY <1>1, InvFacts DEF ChainSound, MainchainLinked
  <1>3. ChainTyped' /\ StoreClosed' /\ LedgerIsMainchain'
    BY InvFacts DEF ChainSound, ChainTyped, StoreClosed, LedgerIsMainchain
  <1> QED  BY <1>1, <1>2, <1>3 DEF ChainSound

LEMMA StoreSideBlockKeeps ==
  ASSUME ChainInv, NEW b \in NonGenesis, StoreSideBlock(b)
  PROVE  ChainInv'
  <1>1. /\ UNCHANGED <<chain, reorgLimit, forkState, pc, locals, pool, life>>
        /\ pc = "Idle"
        /\ triggerMiner' = FALSE
        /\ Admitted(b)
        /\ StoreBlock(b)
    BY DEF StoreSideBlock
  <1>2. /\ blocks' = blocks \cup {b}
        /\ blocks' \in SUBSET Blocks
        /\ cumdiff' \in [Blocks -> Nat]
        /\ \A x \in blocks' \ {Genesis} : Parent[x] \in blocks'
    BY <1>1, StoreBlockFacts
  <1>3. ChainSound'
    BY <1>1, <1>2, StoreKeepsChain DEF chain
  <1>4. TypeOK'
    BY <1>1, <1>2 DEF ChainInv, TypeOK, life, chain, locals
  <1>5. NoPendingRecovery' /\ LeftBehind'
    BY <1>1, SameLeft
  <1>6. RecordSound'
    BY <1>1, <1>2, GrownRecord DEF chain
  <1> QED
    BY <1>1, <1>3, <1>4, <1>5, <1>6
    DEF ChainInv, ChainSound, RecordSound, PathsTyped, NoLocals, Walking, Tracing, locals

LEMMA StartRecoveryKeeps ==
  ASSUME ChainInv, NEW b \in NonGenesis, StartRecovery(b)
  PROVE  ChainInv'
  <1>1. /\ UNCHANGED <<chain, reorgLimit, removed, next, pool, life>>
        /\ pc = "Idle"
        /\ pc' = "FindFork"
        /\ hashPath' = <<>>
        /\ triggerMiner' = FALSE
        /\ forkState' = [NoFork EXCEPT !.initiator = b]
        /\ Admitted(b)
        /\ StoreBlock(b)
        /\ b \in Blocks
        /\ b # NoBlock
    BY TreeFacts DEF StartRecovery
  <1>2. /\ blocks' = blocks \cup {b}
        /\ blocks' \in SUBSET Blocks
        /\ cumdiff' \in [Blocks -> Nat]
        /\ \A x \in blocks' \ {Genesis} : Parent[x] \in blocks'
    BY <1>1, StoreBlockFacts
  <1>3. ChainSound'
    BY <1>1, <1>2, StoreKeepsChain DEF chain
  <1>4. /\ forkState' \in [initiator : MaybeBlock, point : MaybeBlock,
                           newPath : Seq(Blocks), oldPath : Seq(Blocks)]
        /\ forkState'.initiator = b
        /\ forkState'.point = NoBlock
        /\ forkState'.newPath = <<>>
        /\ forkState'.oldPath = <<>>
    <2>1. forkState' = [initiator |-> b, point |-> NoBlock, newPath |-> <<>>, oldPath |-> <<>>]
      BY <1>1 DEF NoFork
    <2>2. b \in MaybeBlock /\ NoBlock \in MaybeBlock
      BY <1>1 DEF MaybeBlock
    <2>3. <<>> \in Seq(Blocks)
      BY EmptyPath
    <2> QED  BY <2>1, <2>2, <2>3
  <1>5. TypeOK'
    BY <1>1, <1>2, <1>4 DEF ChainInv, TypeOK, life, chain, Steps
  <1>6. RecordSound' /\ Recovering'
    BY <1>1, <1>2, <1>4
    DEF RecordSound, ForkRecordSound, RecordShape, OldPathSound, Recovering
  <1>7. PathsTyped' /\ Walking'
    <2>1. Walking'
      BY <1>1, <1>4, <1>6, EmptyPath DEF Walking
    <2>2. PathsTyped'
      BY <1>1, <1>4, EmptyPath DEF ChainInv, PathsTyped
    <2> QED  BY <2>1, <2>2
  <1> QED
    BY <1>1, <1>3, <1>5, <1>6, <1>7
    DEF ChainInv, ChainSound, RecordSound, NoPendingRecovery, LeftBehind, NoLocals, Tracing

-----------------------------------------------------------------------------
(* _get_fork_point and the record of the fork point                         *)

(* The cursor of the walk is a stored block.                                *)
LEMMA CursorFacts ==
  ASSUME ChainInv, pc = "FindFork"
  PROVE  /\ Cursor \in blocks
         /\ Cursor \in Blocks
         /\ hashPath # <<>> => Parent[hashPath[Len(hashPath)]] = Cursor
         /\ hashPath = <<>> => Cursor = forkState.initiator
         /\ mainchain[Number[Cursor]] # Cursor => Cursor \in NonGenesis
  <1>1. /\ hashPath \in Seq(NonGenesis)
        /\ ToSet(hashPath) \subseteq blocks
        /\ Recovering
        /\ forkState.initiator \in blocks
        /\ blocks \subseteq Blocks
    BY DEF ChainInv, PathsTyped, Walking, RecordShape, TypeOK
  <1>2. Cursor \in blocks
    <2>1. CASE hashPath = <<>>
      BY <1>1, <2>1 DEF Cursor
    <2>2. CASE hashPath # <<>>
      <3>1. Len(hashPath) \in 1 .. Len(hashPath)
        BY <1>1, <2>2, PathFacts
      <3>2. hashPath[Len(hashPath)] \in blocks \ {Genesis}
        BY <1>1, <3>1, PathFacts DEF NonGenesis
      <3> QED  BY <2>2, <3>2 DEF Cursor, ChainInv, StoreClosed
    <2> QED  BY <2>1, <2>2
  <1>3. mainchain[0] = Genesis
    <2>1. /\ 0 \in Heights
          /\ ~(0 > height)
      BY TreeFacts DEF ChainInv, TypeOK, life
    <2>2. mainchain[0] \in blocks /\ Number[mainchain[0]] = 0
      BY <2>1 DEF ChainInv, MainchainLinked
    <2> QED  BY <1>1, <2>2, TreeFacts
  <1>4. mainchain[Number[Genesis]] = Genesis
    BY <1>3, TreeAssumption
  <1> QED  BY <1>1, <1>2, <1>4 DEF Cursor, NonGenesis

LEMMA CollectHashKeeps ==
  ASSUME ChainInv, CollectHash
  PROVE  ChainInv'
  <1>1. /\ UNCHANGED <<stored, pc, lastBlock, removed, next, pool, triggerMiner, life>>
        /\ pc = "FindFork"
        /\ pc' = "FindFork"
        /\ hashPath' = Append(hashPath, Cursor)
        /\ mainchain[Number[Cursor]] # Cursor
    BY DEF CollectHash
  <1>2. /\ Cursor \in blocks
        /\ Cursor \in Blocks
        /\ Cursor \in NonGenesis
        /\ hashPath \in Seq(NonGenesis)
        /\ hashPath # <<>> => Parent[hashPath[Len(hashPath)]] = Cursor
        /\ hashPath = <<>> => Cursor = forkState.initiator
    BY <1>1, CursorFacts DEF ChainInv, PathsTyped
  <1>3. TypeOK'
    BY <1>1, <1>2 DEF ChainInv, TypeOK, life, stored
  <1>4. ChainSound' /\ RecordSound' /\ Recovering' = Recovering
    BY <1>1, InvFacts, SameChain, SameRecord DEF stored
  <1>5. Walking'
    BY <1>1, <1>2, <1>4, AppendFacts DEF ChainInv, Walking, stored
  <1>6. PathsTyped'
    BY <1>1, <1>2, AppendFacts DEF ChainInv, PathsTyped, stored
  <1> QED
    BY <1>1, <1>3, <1>4, <1>5, <1>6
    DEF ChainInv, ChainSound, RecordSound, NoPendingRecovery, LeftBehind, NoLocals, Tracing

LEMMA RecordForkPointKeeps ==
  ASSUME ChainInv, RecordForkPoint
  PROVE  ChainInv'
  <1>1. /\ UNCHANGED <<blocks, cumdiff, chain, reorgLimit, next, pool, triggerMiner, life>>
        /\ pc = "FindFork"
        /\ pc' = "Rollback"
        /\ hashPath' = <<>>
        /\ removed' = <<>>
        /\ forkState' = [forkState EXCEPT !.point = Cursor, !.newPath = hashPath]
        /\ mainchain[Number[Cursor]] = Cursor
    BY DEF RecordForkPoint
  <1>2. /\ Cursor \in Blocks
        /\ Cursor # NoBlock
        /\ hashPath \in Seq(NonGenesis)
        /\ hashPath # <<>> => Parent[hashPath[Len(hashPath)]] = Cursor
    BY <1>1, CursorFacts, TreeFacts DEF ChainInv, PathsTyped
  <1>3. /\ Recovering
        /\ forkState.oldPath = <<>>
        /\ forkState.initiator \in blocks
        /\ Linked(hashPath)
        /\ hashPath # <<>> => hashPath[1] = forkState.initiator
        /\ ToSet(hashPath) \subseteq blocks
        /\ forkState \in [initiator : MaybeBlock, point : MaybeBlock,
                          newPath : Seq(Blocks), oldPath : Seq(Blocks)]
        /\ hashPath \in Seq(Blocks)
    BY <1>1 DEF ChainInv, Walking, RecordShape, TypeOK
  <1>4. /\ forkState' \in [initiator : MaybeBlock, point : MaybeBlock,
                           newPath : Seq(Blocks), oldPath : Seq(Blocks)]
        /\ forkState'.initiator = forkState.initiator
        /\ forkState'.point = Cursor
        /\ forkState'.newPath = hashPath
        /\ forkState'.oldPath = forkState.oldPath
    BY <1>1, <1>2, <1>3 DEF MaybeBlock
  <1>5. TypeOK'
    BY <1>1, <1>4, EmptyPath DEF ChainInv, TypeOK, life, chain, Steps
  <1>6. ChainSound' /\ StoredTip' = StoredTip
    BY <1>1, InvFacts, SameChain DEF chain
  <1>7. Recovering'
    BY <1>3, <1>4 DEF Recovering
  <1>8. RecordSound'
    <2>1. ForkRecordSound'
      BY <1>1, <1>2, <1>3, <1>4 DEF chain, ForkRecordSound, BranchFrom
    <2>2. RecordShape' /\ OldPathSound'
      BY <1>1, <1>2, <1>3, <1>4, <1>7 DEF RecordShape, OldPathSound
    <2> QED  BY <2>1, <2>2 DEF RecordSound
  <1>9. PathsTyped'
    BY <1>1, <1>2, <1>4, EmptyPath DEF ChainInv, PathsTyped
  <1>10. Tracing'
    BY <1>1, <1>2, <1>3, <1>4, EmptyPath DEF Tracing
  <1> QED
    BY <1>1, <1>5, <1>6, <1>7, <1>8, <1>9, <1>10
    DEF ChainInv, ChainSound, RecordSound, NoPendingRecovery, LeftBehind, NoLocals, Walking

-----------------------------------------------------------------------------
(* _rollback                                                                *)

LEMMA RollbackTipKeeps ==
  ASSUME ChainInv, RollbackTip
  PROVE  ChainInv'
  <1>1. /\ UNCHANGED <<blocks, cumdiff, reorgLimit, pc, hashPath, next, triggerMiner, life>>
        /\ pc = "Rollback"
        /\ ~AtForkPoint
        /\ RevertTip
        /\ removed' = Append(removed, lastBlock)
        /\ forkState' = [forkState EXCEPT !.oldPath = Append(@, lastBlock)]
    BY DEF RollbackTip
  <1>2. /\ lastBlock = StoredTip
        /\ lastBlock # Genesis
        /\ lastBlock \in blocks \cap Applies
        /\ lastBlock \in Blocks
        /\ lastBlock \in NonGenesis
        /\ forkState.point \in Blocks
        /\ lastBlock # forkState.point
        /\ Number[lastBlock] > Number[forkState.point]
        /\ mainchain[Number[forkState.point]] = forkState.point
        /\ Recovering
    BY <1>1, AboveForkPoint, InvFacts, TreeFacts DEF Tracing, ChainInv, TypeOK
  <1>3. /\ ChainSound'
        /\ StoredTip' = Parent[lastBlock]
        /\ mainchain'[Number[forkState.point]] = forkState.point
        /\ lastBlock' = Parent[lastBlock]
    BY <1>1, <1>2, InvFacts, RevertKeepsChain DEF RevertTip
  <1>4. /\ removed \in Seq(NonGenesis)
        /\ forkState.oldPath \in Seq(NonGenesis)
        /\ forkState \in [initiator : MaybeBlock, point : MaybeBlock,
                          newPath : Seq(Blocks), oldPath : Seq(Blocks)]
        /\ removed \in Seq(Blocks)
        /\ forkState.point # NoBlock
        /\ ToSet(removed) \subseteq ToSet(forkState.oldPath)
        /\ BranchFrom(lastBlock, removed)
        /\ BranchFrom(lastBlock, forkState.oldPath)
    BY <1>1, <1>2 DEF ChainInv, PathsTyped, TypeOK, Tracing
  <1>5. /\ forkState' \in [initiator : MaybeBlock, point : MaybeBlock,
                           newPath : Seq(Blocks), oldPath : Seq(Blocks)]
        /\ forkState'.initiator = forkState.initiator
        /\ forkState'.point = forkState.point
        /\ forkState'.newPath = forkState.newPath
        /\ forkState'.oldPath = Append(forkState.oldPath, lastBlock)
    <2>1. forkState.oldPath \in Seq(Blocks)
      BY <1>4
    <2>2. Append(forkState.oldPath, lastBlock) \in Seq(Blocks)
      BY <1>2, <2>1
    <2>3. forkState' = [forkState EXCEPT !.oldPath = Append(forkState.oldPath, lastBlock)]
      BY <1>1
    <2> QED  BY <1>4, <2>2, <2>3
  <1>6. TypeOK'
    BY SMTT(60), <1>1, <1>2, <1>4, <1>5, RevertTypes DEF ChainInv, TypeOK, life
  <1>7. /\ BranchFrom(Parent[lastBlock], removed')
        /\ BranchFrom(Parent[lastBlock], forkState'.oldPath)
        /\ removed' \in Seq(NonGenesis)
        /\ forkState'.oldPath \in Seq(NonGenesis)
        /\ ToSet(removed') \subseteq ToSet(forkState'.oldPath)
        /\ forkState'.oldPath # <<>>
    BY SMTT(60), <1>1, <1>2, <1>4, <1>5, AppendFacts DEF BranchFrom
  <1>8. ForkRecordSound'
    BY <1>1, <1>2, <1>3, <1>4, <1>5 DEF ChainInv, ForkRecordSound
  <1>9. RecordShape' /\ Recovering'
    BY <1>1, <1>2, <1>4, <1>5 DEF ChainInv, RecordShape, Recovering
  <1>10. OldPathSound'
    <2>1. ASSUME NEW i \in 1 .. Len(forkState'.oldPath)
          PROVE  /\ forkState'.oldPath[i] \in blocks \cap Applies
                 /\ Number[forkState'.oldPath[i]] > Number[forkState.point]
      <3>1. CASE i \in 1 .. Len(forkState.oldPath)
        <4>1. forkState'.oldPath[i] = forkState.oldPath[i] /\ forkState.oldPath # <<>>
          BY <1>2, <1>4, <1>5, <3>1, AppendFacts
        <4> QED  BY <3>1, <4>1 DEF ChainInv, OldPathSound
      <3>2. CASE i \notin 1 .. Len(forkState.oldPath)
        <4>1. i = Len(forkState.oldPath) + 1
          BY <1>2, <1>4, <1>5, <2>1, <3>2, AppendFacts, PathFacts
        <4>2. forkState'.oldPath[i] = lastBlock
          BY <1>2, <1>4, <1>5, <4>1, AppendFacts
        <4> QED  BY <1>2, <4>2
      <3> QED  BY <3>1, <3>2
    <2> QED  BY <1>1, <1>3, <1>5, <1>7, <2>1 DEF OldPathSound, BranchFrom
  <1>11. PathsTyped'
    BY <1>1, <1>5, <1>7 DEF ChainInv, PathsTyped
  <1>12. Tracing'
    BY <1>1, <1>3, <1>4, <1>5, <1>7 DEF Tracing
  <1> QED
    BY <1>1, <1>3, <1>6, <1>8, <1>9, <1>10, <1>11, <1>12
    DEF ChainInv, ChainSound, NoPendingRecovery, LeftBehind, NoLocals, Walking

(* A node that can remove what it has applied never fails to roll back.     *)
LEMMA RollbackNeverFails ==
  ASSUME ChainInv, RevertSound, RollbackFails
  PROVE  FALSE
  BY AboveForkPoint DEF RollbackFails, RevertSound

(* add_chain starts with the block whose parent is the tip.                 *)
LEMMA RemainingFacts ==
  ASSUME NEW path \in Seq(NonGenesis), NEW point, NEW tip,
         tip \notin ToSet(path) => tip = point
  PROVE  /\ Remaining(path, tip) \in Nat
         /\ Remaining(path, tip) <= Len(path)
         /\ tip = IF Remaining(path, tip) = Len(path) THEN point
                                                     ELSE path[Remaining(path, tip) + 1]
  <1>1. CASE tip \in ToSet(path)
    <2>1. PICK j \in DOMAIN path : path[j] = tip
      BY <1>1 DEF ToSet
    <2> DEFINE k == CHOOSE i \in DOMAIN path : path[i] = tip
    <2>2. k \in DOMAIN path /\ path[k] = tip
      BY <2>1
    <2>3. Remaining(path, tip) = k - 1
      BY <1>1 DEF Remaining
    <2>4. k \in Nat /\ k >= 1 /\ k <= Len(path) /\ Len(path) \in Nat
      BY <2>2, PathFacts
    <2> HIDE DEF k
    <2> QED  BY <2>2, <2>3, <2>4
  <1>2. CASE tip \notin ToSet(path)
    BY <1>2, PathFacts DEF Remaining
  <1> QED  BY <1>1, <1>2

(* The state in which add_chain is called on the new branch: the record is  *)
(* complete, and the tip is the fork point or a block of one of the paths.  *)
LEMMA BeginAddChainKeeps ==
  ASSUME ChainInv, RecordSound', ChainSound', forkState' = forkState, StoredTip' = StoredTip,
         forkState.point # NoBlock,
         forkState.oldPath # <<>> => RollbackDone,
         StoredTip \notin ToSet(forkState.newPath) \cup ToSet(forkState.oldPath)
           => StoredTip = forkState.point,
         ToSet(removed') \subseteq ToSet(forkState.oldPath),
         BranchFrom(forkState.point, removed'),
         BeginAddChain(StoredTip)
  PROVE  /\ pc' \in {"AddChain", "Undo"}
         /\ next' \in Nat
         /\ Tracing'
         /\ pc' = "AddChain" => Adding(forkState.newPath)'
  <1>1. forkState.newPath \in Seq(NonGenesis)
    BY DEF ChainInv, PathsTyped
  <1>2. RollbackDone' = RollbackDone
    BY DEF RollbackDone
  <1>3. CASE Refused(forkState.newPath, StoredTip)
    BY <1>2, <1>3 DEF BeginAddChain, Tracing
  <1>4. CASE ~Refused(forkState.newPath, StoredTip)
    <2>1. pc' = "AddChain" /\ next' = Remaining(forkState.newPath, StoredTip)
      BY <1>4 DEF BeginAddChain
    <2>2. StoredTip \notin ToSet(forkState.newPath) => StoredTip = forkState.point
      BY <1>4 DEF Refused
    <2>3. next' \in Nat /\ Adding(forkState.newPath)'
      BY ZenonT(60), <1>1, <2>1, <2>2, RemainingFacts DEF Adding
    <2>4. Tracing'
      BY <1>2, <2>1 DEF Tracing
    <2> QED  BY <2>1, <2>3, <2>4
  <1> QED  BY <1>3, <1>4

LEMMA EndRollbackKeeps ==
  ASSUME ChainInv, EndRollback
  PROVE  ChainInv'
  <1>1. /\ UNCHANGED <<stored, lastBlock, hashPath, removed, pool, triggerMiner, life>>
        /\ pc = "Rollback"
        /\ AtForkPoint
        /\ BeginAddChain(lastBlock)
        /\ lastBlock = StoredTip
    BY InvFacts DEF EndRollback
  <1>2. /\ StoredTip = forkState.point
        /\ forkState.point # NoBlock
        /\ Recovering
        /\ ToSet(removed) \subseteq ToSet(forkState.oldPath)
        /\ BranchFrom(StoredTip, removed)
        /\ BranchFrom(StoredTip, forkState.oldPath)
    BY <1>1, AboveForkPoint, InvFacts DEF ChainInv, Tracing
  <1>3. forkState.oldPath # <<>> => RollbackDone
    BY <1>2 DEF RollbackDone, BranchFrom
  <1>4. pc' # "Down" => lastBlock' = StoredTip
    BY <1>1
  <1>5. ChainSound' /\ RecordSound' /\ Recovering' = Recovering /\ StoredTip' = StoredTip
    BY <1>1, <1>4, InvFacts, SameChain, SameRecord DEF stored
  <1>6. /\ pc' \in {"AddChain", "Undo"}
        /\ next' \in Nat
        /\ Tracing'
        /\ pc' = "AddChain" => Adding(forkState.newPath)'
    BY <1>1, <1>2, <1>3, <1>5, BeginAddChainKeeps DEF stored
  <1>7. TypeOK'
    BY <1>1, <1>6 DEF ChainInv, TypeOK, life, stored, Steps
  <1> QED
    BY <1>1, <1>5, <1>6, <1>7
    DEF ChainInv, ChainSound, RecordSound, NoPendingRecovery, LeftBehind, PathsTyped, NoLocals,
        Walking, stored

-----------------------------------------------------------------------------
(* add_chain, on the new branch and on the old one                          *)

(* The block that add_chain takes next is a child of the tip.               *)
LEMMA NextFacts ==
  ASSUME NEW path \in Seq(NonGenesis), Adding(path), next \in Nat, next > 0,
         BranchFrom(forkState.point, path)
  PROVE  /\ path[next] \in NonGenesis
         /\ path[next] \in ToSet(path)
         /\ path[next] \in Blocks
         /\ Parent[path[next]] = StoredTip
         /\ next - 1 \in Nat
         /\ next - 1 <= Len(path)
         /\ next - 1 # Len(path)
         /\ next - 1 + 1 = next
  <1>1. Len(path) \in Nat /\ next \in 1 .. Len(path)
    BY PathFacts DEF Adding
  <1>2. path[next] \in NonGenesis /\ path[next] \in ToSet(path) /\ path[next] \in Blocks
    BY <1>1, PathFacts, TreeFacts
  <1>3. Parent[path[next]] = StoredTip
    <2>1. CASE next = Len(path)
      BY <1>1, <2>1, PathFacts DEF Adding, BranchFrom
    <2>2. CASE next # Len(path)
      BY <1>1, <2>2 DEF Adding, BranchFrom, Linked
    <2> QED  BY <2>1, <2>2
  <1> QED  BY <1>1, <1>2, <1>3

LEMMA AddNextKeeps ==
  ASSUME ChainInv, AddNext
  PROVE  ChainInv'
  <1> DEFINE b == forkState.newPath[next]
  <1>1. /\ UNCHANGED <<blocks, cumdiff, forkState, pc, hashPath, removed, triggerMiner, life>>
        /\ pc = "AddChain"
        /\ next > 0
        /\ next \in Nat
        /\ b \in Applies
        /\ ApplyBlock(b)
        /\ LeavePool(b, Spends[b])
        /\ next' = next - 1
    BY DEF AddNext, ChainInv, TypeOK
  <1>2. /\ forkState.newPath \in Seq(NonGenesis)
        /\ Adding(forkState.newPath)
        /\ forkState.point # NoBlock
        /\ forkState.oldPath # <<>> => RollbackDone
        /\ Recovering
        /\ forkState.point \in Blocks
    BY <1>1, InvFacts DEF ChainInv, PathsTyped, Tracing, TypeOK, MaybeBlock
  <1>3. /\ BranchFrom(forkState.point, forkState.newPath)
        /\ ToSet(forkState.newPath) \subseteq blocks
        /\ mainchain[Number[forkState.point]] = forkState.point
    BY <1>2 DEF ChainInv, ForkRecordSound
  <1>4. /\ b \in NonGenesis
        /\ b \in ToSet(forkState.newPath)
        /\ b \in Blocks
        /\ b \in blocks
        /\ Parent[b] = StoredTip
        /\ next - 1 \in Nat
        /\ next - 1 <= Len(forkState.newPath)
        /\ next - 1 # Len(forkState.newPath)
        /\ next - 1 + 1 = next
    BY <1>1, <1>2, <1>3, NextFacts
  <1> HIDE DEF b
  <1>5. /\ ChainSound'
        /\ StoredTip' = b
        /\ mainchain'[Number[forkState.point]] = forkState.point
    <2>1. blocks' = blocks /\ blocks \in SUBSET Blocks
          /\ \A x \in blocks' \ {Genesis} : Parent[x] \in blocks'
      BY <1>1 DEF ChainInv, TypeOK, life, StoreClosed
    <2> QED  BY <1>1, <1>2, <1>3, <1>4, <2>1, InvFacts, ApplyKeepsChain
  <1>6. TypeOK'
    <2>1. TypeOK
      BY InvFacts
    <2> QED  BY <1>1, <1>4, <2>1, ApplyTypes, LeavePoolTypes DEF TypeOK, life
  <1>7. RollbackDone' = RollbackDone /\ Recovering'
    BY <1>1, <1>2 DEF RollbackDone, Recovering
  <1>8. ForkRecordSound' /\ RecordShape'
    <2>1. ForkRecordSound'
      BY <1>1, <1>2, <1>3, <1>5 DEF ChainInv, ForkRecordSound
    <2>2. RecordShape'
      BY <1>1, <1>2, <1>7 DEF ChainInv, RecordShape
    <2> QED  BY <2>1, <2>2
  <1>9. OldPathSound'
    BY <1>1, <1>2, <1>4, <1>5, <1>7 DEF ChainInv, OldPathSound
  <1>10. Tracing'
    BY <1>1, <1>7 DEF ChainInv, Tracing
  <1>11. Adding(forkState.newPath)'
    BY <1>1, <1>4, <1>5 DEF Adding, b
  <1> QED
    BY <1>1, <1>5, <1>6, <1>8, <1>9, <1>10, <1>11
    DEF ChainInv, ChainSound, NoPendingRecovery, LeftBehind, PathsTyped, NoLocals, Walking

LEMMA AddFailsKeeps ==
  ASSUME ChainInv, AddFails
  PROVE  ChainInv'
  <1>1. /\ UNCHANGED <<stored, lastBlock, locals, pool, triggerMiner, life>>
        /\ pc = "AddChain"
        /\ pc' = "Undo"
    BY DEF AddFails
  <1>2. lastBlock' = StoredTip /\ Recovering
    BY <1>1, InvFacts DEF ChainInv, Tracing
  <1>3. /\ ChainSound' /\ RecordSound' /\ Recovering' = Recovering
        /\ StoredTip' = StoredTip /\ RollbackDone' = RollbackDone
    BY <1>1, <1>2, InvFacts, SameChain, SameRecord DEF stored
  <1>4. TypeOK'
    BY <1>1 DEF ChainInv, TypeOK, life, stored, locals, Steps
  <1>5. Tracing'
    BY <1>1, <1>3 DEF ChainInv, Tracing, stored, locals
  <1> QED
    BY <1>1, <1>3, <1>4, <1>5
    DEF ChainInv, ChainSound, RecordSound, NoPendingRecovery, LeftBehind, PathsTyped, NoLocals,
        Walking, stored, locals

(* The two ways a recovery ends with its record deleted.                    *)
LEMMA EndKeeps ==
  ASSUME ChainInv, pc # "Down", pc' = "Idle", forkState' = NoFork, triggerMiner' \in BOOLEAN,
         loading' = FALSE,
         UNCHANGED <<blocks, cumdiff, chain, reorgLimit, hashPath, removed, pool, raised,
                     crashes>>,
         next' \in Nat
  PROVE  ChainInv'
  <1>1. ChainSound'
    BY InvFacts, SameChain DEF chain
  <1>2. RecordSound' /\ ~Recovering'
    BY NoRecord
  <1>3. /\ forkState' \in [initiator : MaybeBlock, point : MaybeBlock,
                           newPath : Seq(Blocks), oldPath : Seq(Blocks)]
        /\ forkState'.newPath = <<>>
        /\ forkState'.oldPath = <<>>
    <2>1. NoBlock \in MaybeBlock /\ <<>> \in Seq(Blocks)
      BY EmptyPath DEF MaybeBlock
    <2> QED  BY <2>1 DEF NoFork
  <1>4. TypeOK'
    BY <1>3 DEF ChainInv, TypeOK, life, chain, Steps
  <1>5. PathsTyped'
    BY <1>3, EmptyPath DEF ChainInv, PathsTyped
  <1> QED
    BY <1>1, <1>2, <1>4, <1>5
    DEF ChainInv, ChainSound, RecordSound, NoPendingRecovery, LeftBehind, NoLocals, Walking, Tracing

LEMMA FinishRecoveryKeeps ==
  ASSUME ChainInv, FinishRecovery
  PROVE  ChainInv'
  BY EndKeeps DEF FinishRecovery, locals, ChainInv, TypeOK

LEMMA UndoTipKeeps ==
  ASSUME ChainInv, UndoTip
  PROVE  ChainInv'
  <1>1. /\ UNCHANGED <<blocks, cumdiff, reorgLimit, forkState, pc, locals, triggerMiner, life>>
        /\ pc = "Undo"
        /\ ~AtForkPoint
        /\ RevertTip
    BY DEF UndoTip
  <1>2. /\ lastBlock = StoredTip
        /\ lastBlock # Genesis
        /\ forkState.point \in Blocks
        /\ lastBlock # forkState.point
        /\ mainchain[Number[forkState.point]] = forkState.point
        /\ Recovering
        /\ forkState.point # NoBlock
        /\ forkState.oldPath # <<>> => RollbackDone
    BY <1>1, AboveForkPoint, InvFacts DEF ChainInv, Tracing
  <1>3. /\ ChainSound'
        /\ StoredTip' = Parent[lastBlock]
        /\ mainchain'[Number[forkState.point]] = forkState.point
        /\ lastBlock' = Parent[lastBlock]
    BY <1>1, <1>2, InvFacts, RevertKeepsChain DEF RevertTip
  <1>4. RollbackDone' = RollbackDone /\ Recovering'
    BY <1>1, <1>2 DEF RollbackDone, Recovering
  <1>5. TypeOK'
    BY <1>1, <1>2, RevertTypes DEF ChainInv, TypeOK, life, locals
  <1>6. ForkRecordSound' /\ RecordShape'
    <2>1. ForkRecordSound'
      BY <1>1, <1>2, <1>3 DEF ChainInv, ForkRecordSound
    <2>2. RecordShape'
      BY <1>1, <1>2, <1>4 DEF ChainInv, RecordShape
    <2> QED  BY <2>1, <2>2
  <1>7. OldPathSound'
    <2> DEFINE old == forkState.oldPath
               new == forkState.newPath
    <2>1. SUFFICES ASSUME old # <<>>, ~BranchRaises
                   PROVE  \/ Parent[lastBlock] = forkState.point
                          \/ Parent[lastBlock] \in ToSet(new) \cup ToSet(old)
      BY <1>1, <1>2, <1>3, <1>4 DEF ChainInv, OldPathSound, RollbackDone, BranchRaises
    <2>2. /\ RollbackDone
          /\ old \in Seq(NonGenesis)
          /\ new \in Seq(NonGenesis)
          /\ BranchFrom(forkState.point, new)
          /\ BranchFrom(forkState.point, old)
      BY <1>2, <2>1
      DEF ChainInv, PathsTyped, ForkRecordSound, OldPathSound, RollbackDone, BranchFrom
    <2>3. lastBlock \in ToSet(new) \cup ToSet(old)
      BY <1>2, <2>1, <2>2 DEF ChainInv, OldPathSound, RollbackDone
    <2>4. ASSUME NEW path \in Seq(NonGenesis), BranchFrom(forkState.point, path),
                 lastBlock \in ToSet(path)
          PROVE  Parent[lastBlock] = forkState.point \/ Parent[lastBlock] \in ToSet(path)
      <3>1. PICK i \in 1 .. Len(path) : path[i] = lastBlock
        BY <2>4, PathFacts DEF ToSet
      <3>2. CASE i = Len(path)
        BY <2>4, <3>1, <3>2, PathFacts DEF BranchFrom
      <3>3. CASE i # Len(path)
        <4>1. i \in 1 .. Len(path) - 1 /\ i + 1 \in 1 .. Len(path)
          BY <3>1, <3>3, PathFacts
        <4>2. Parent[lastBlock] = path[i + 1]
          BY <2>4, <3>1, <4>1 DEF BranchFrom, Linked
        <4> QED  BY <4>1, <4>2, PathFacts
      <3> QED  BY <3>2, <3>3
    <2> QED  BY <2>2, <2>3, <2>4
  <1>8. Tracing'
    BY <1>1, <1>4 DEF ChainInv, Tracing, locals
  <1> QED
    BY <1>1, <1>3, <1>4, <1>5, <1>6, <1>7, <1>8
    DEF ChainInv, ChainSound, NoPendingRecovery, LeftBehind, PathsTyped, NoLocals, Walking, locals

(* The fork point is below every block of the old path.                     *)
LEMMA PointNotOld ==
  ASSUME ChainInv, forkState.point \in Blocks
  PROVE  forkState.point \notin ToSet(forkState.oldPath)
  <1>1. SUFFICES ASSUME NEW i \in 1 .. Len(forkState.oldPath),
                        forkState.oldPath[i] = forkState.point
                 PROVE  FALSE
    BY PathFacts DEF ToSet, ChainInv, PathsTyped
  <1>2. forkState.oldPath # <<>>
    BY <1>1, PathFacts DEF ChainInv, PathsTyped
  <1>3. Number[forkState.point] > Number[forkState.point]
    BY <1>1, <1>2 DEF ChainInv, OldPathSound
  <1> QED  BY <1>3, TreeFacts

LEMMA EndUndoKeeps ==
  ASSUME ChainInv, RevertSound, EndUndo
  PROVE  ChainInv' /\ pc' = "Restore"
  <1>1. /\ UNCHANGED <<stored, lastBlock, hashPath, removed, pool, triggerMiner, raised,
                        crashes>>
        /\ pc = "Undo"
        /\ AtForkPoint \/ lastBlock \notin Reverts
        /\ ~Refused(removed, lastBlock) =>
             pc' = "Restore" /\ next' = Remaining(removed, lastBlock) /\ UNCHANGED loading
    BY DEF EndUndo
  <1>2. /\ lastBlock = forkState.point
        /\ forkState.point \in Blocks
        /\ lastBlock = StoredTip
        /\ Recovering
    BY <1>1, AboveForkPoint, InvFacts DEF RevertSound, ChainInv, Tracing
  <1>3. /\ removed \in Seq(NonGenesis)
        /\ ToSet(removed) \subseteq ToSet(forkState.oldPath)
        /\ lastBlock \notin ToSet(forkState.oldPath)
    BY <1>1, <1>2, PointNotOld DEF ChainInv, PathsTyped, Tracing
  <1>4. pc' = "Restore" /\ next' = Remaining(removed, lastBlock) /\ UNCHANGED loading
    BY <1>1, <1>3 DEF Refused
  <1>5. /\ ChainSound' /\ RecordSound' /\ Recovering' = Recovering
        /\ StoredTip' = StoredTip /\ RollbackDone' = RollbackDone
    <2>1. pc' # "Down" => lastBlock' = StoredTip
      BY <1>1, <1>2
    <2> QED  BY <1>1, <2>1, InvFacts, SameChain, SameRecord DEF stored
  <1>6. next' \in Nat /\ Adding(removed)'
    BY <1>1, <1>2, <1>3, <1>4, <1>5, RemainingFacts DEF Adding, stored
  <1>7. TypeOK'
    BY <1>1, <1>4, <1>6 DEF ChainInv, TypeOK, life, stored, Steps
  <1>8. Tracing'
    BY <1>1, <1>4, <1>5 DEF ChainInv, Tracing, stored
  <1> QED
    BY <1>1, <1>2, <1>4, <1>5, <1>6, <1>7, <1>8
    DEF ChainInv, ChainSound, RecordSound, NoPendingRecovery, LeftBehind, PathsTyped, NoLocals,
        Walking, stored

(* What Restore knows of the blocks it puts back.                           *)
LEMMA RemovedFacts ==
  ASSUME ChainInv, pc = "Restore"
  PROVE  /\ removed \in Seq(NonGenesis)
         /\ Adding(removed)
         /\ BranchFrom(forkState.point, removed)
         /\ ToSet(removed) \subseteq ToSet(forkState.oldPath)
         /\ ToSet(removed) \subseteq blocks \cap Applies
  <1>1. /\ removed \in Seq(NonGenesis)
        /\ forkState.oldPath \in Seq(NonGenesis)
        /\ Adding(removed)
        /\ BranchFrom(forkState.point, removed)
        /\ ToSet(removed) \subseteq ToSet(forkState.oldPath)
    BY DEF ChainInv, PathsTyped, Tracing
  <1>2. ASSUME NEW x \in ToSet(forkState.oldPath)
        PROVE  x \in blocks \cap Applies
    <2>1. PICK i \in 1 .. Len(forkState.oldPath) : forkState.oldPath[i] = x
      BY <1>1, <1>2, PathFacts DEF ToSet
    <2>2. forkState.oldPath # <<>>
      BY <1>1, <2>1, PathFacts
    <2> QED  BY <2>1, <2>2 DEF ChainInv, OldPathSound
  <1> QED  BY <1>1, <1>2

LEMMA RestoreNextKeeps ==
  ASSUME ChainInv, RestoreNext
  PROVE  ChainInv'
  <1> DEFINE b == removed[next]
  <1>1. /\ UNCHANGED <<blocks, cumdiff, forkState, pc, hashPath, removed, triggerMiner, life>>
        /\ pc = "Restore"
        /\ next > 0
        /\ next \in Nat
        /\ b \in Applies
        /\ ApplyBlock(b)
        /\ LeavePool(b, Spends[b])
        /\ next' = next - 1
    BY DEF RestoreNext, ChainInv, TypeOK
  <1>2. /\ removed \in Seq(NonGenesis)
        /\ Adding(removed)
        /\ BranchFrom(forkState.point, removed)
        /\ ToSet(removed) \subseteq ToSet(forkState.oldPath)
        /\ ToSet(removed) \subseteq blocks
    BY <1>1, RemovedFacts
  <1>3. /\ forkState.point # NoBlock
        /\ forkState.oldPath # <<>> => RollbackDone
        /\ Recovering
        /\ forkState.point \in Blocks
        /\ mainchain[Number[forkState.point]] = forkState.point
    BY <1>1, InvFacts DEF ChainInv, ForkRecordSound, Tracing, TypeOK, MaybeBlock
  <1>4. /\ b \in NonGenesis
        /\ b \in ToSet(forkState.oldPath)
        /\ b \in Blocks
        /\ b \in blocks
        /\ Parent[b] = StoredTip
        /\ next - 1 \in Nat
        /\ next - 1 <= Len(removed)
        /\ next - 1 # Len(removed)
        /\ next - 1 + 1 = next
    BY <1>1, <1>2, NextFacts
  <1> HIDE DEF b
  <1>5. /\ ChainSound'
        /\ StoredTip' = b
        /\ mainchain'[Number[forkState.point]] = forkState.point
    <2>1. blocks' = blocks /\ blocks \in SUBSET Blocks
          /\ \A x \in blocks' \ {Genesis} : Parent[x] \in blocks'
      BY <1>1 DEF ChainInv, TypeOK, life, StoreClosed
    <2> QED  BY <1>1, <1>3, <1>4, <2>1, InvFacts, ApplyKeepsChain
  <1>6. TypeOK'
    <2>1. TypeOK
      BY InvFacts
    <2> QED  BY <1>1, <1>4, <2>1, ApplyTypes, LeavePoolTypes DEF TypeOK, life
  <1>7. RollbackDone' = RollbackDone /\ Recovering'
    BY <1>1, <1>3 DEF RollbackDone, Recovering
  <1>8. ForkRecordSound' /\ RecordShape'
    <2>1. ForkRecordSound'
      BY <1>1, <1>3, <1>5 DEF ChainInv, ForkRecordSound
    <2>2. RecordShape'
      BY <1>1, <1>3, <1>7 DEF ChainInv, RecordShape
    <2> QED  BY <2>1, <2>2
  <1>9. OldPathSound'
    BY <1>1, <1>3, <1>4, <1>5, <1>7 DEF ChainInv, OldPathSound
  <1>10. Tracing'
    BY <1>1, <1>7 DEF ChainInv, Tracing
  <1>11. Adding(removed)'
    BY <1>1, <1>4, <1>5 DEF Adding, b
  <1> QED
    BY <1>1, <1>5, <1>6, <1>7, <1>8, <1>9, <1>10, <1>11
    DEF ChainInv, ChainSound, NoPendingRecovery, LeftBehind, PathsTyped, NoLocals, Walking

(* The old blocks all apply again, so the record is deleted.                *)
LEMMA EndRestoreKeeps ==
  ASSUME ChainInv, EndRestore
  PROVE  ChainInv'
  <1>1. /\ UNCHANGED <<blocks, cumdiff, chain, reorgLimit, locals, pool, triggerMiner, raised,
                        crashes>>
        /\ pc = "Restore"
        /\ pc' = "Idle"
        /\ loading' = FALSE
        /\ next > 0 => removed[next] \notin Applies
        /\ forkState' = IF next = 0 THEN NoFork ELSE forkState
        /\ next \in Nat
        /\ triggerMiner \in BOOLEAN
    BY DEF EndRestore, ChainInv, TypeOK
  <1>2. next = 0
    <2>1. ASSUME next > 0  PROVE removed[next] \in Applies
      BY <1>1, <2>1, RemovedFacts, NextFacts
    <2> QED  BY <1>1, <2>1
  <1> QED  BY <1>1, <1>2, EndKeeps DEF locals

(* Where what is applied can be reverted, only a block of the new branch    *)
(* raises.                                                                  *)
LEMMA RaisingFacts ==
  ASSUME ChainInv, RevertSound, Raising
  PROVE  pc = "AddChain" /\ BranchRaises /\ Recovering
         /\ (forkState.oldPath # <<>> => RollbackDone) /\ forkState.point # NoBlock
  <1>1. CASE pc \in {"Rollback", "Undo"} /\ ~AtForkPoint /\ lastBlock \in Raises \ Reverts
    BY <1>1, AboveForkPoint DEF RevertSound
  <1>2. CASE pc = "AddChain" /\ next > 0 /\ forkState.newPath[next] \in Raises \ Applies
    <2>1. /\ forkState.newPath \in Seq(NonGenesis)
          /\ Adding(forkState.newPath)
          /\ next \in Nat
          /\ forkState.point # NoBlock
          /\ forkState.oldPath # <<>> => RollbackDone
          /\ Recovering
      BY <1>2, InvFacts DEF ChainInv, PathsTyped, TypeOK, Tracing
    <2>2. BranchFrom(forkState.point, forkState.newPath)
      BY <2>1 DEF ChainInv, ForkRecordSound
    <2>3. forkState.newPath[next] \in ToSet(forkState.newPath)
      BY <1>2, <2>1, <2>2, NextFacts
    <2> QED  BY <1>2, <2>1, <2>3 DEF BranchRaises
  <1>3. CASE pc = "Restore" /\ next > 0 /\ removed[next] \in Raises \ Applies
    <2>1. /\ removed \in Seq(NonGenesis)
          /\ Adding(removed)
          /\ next \in Nat
          /\ BranchFrom(forkState.point, removed)
          /\ ToSet(removed) \subseteq Applies
      BY <1>3, RemovedFacts DEF ChainInv, TypeOK
    <2>2. removed[next] \in ToSet(removed)
      BY <1>3, <2>1, NextFacts
    <2> QED  BY <1>3, <2>1, <2>2
  <1> QED  BY <1>1, <1>2, <1>3 DEF Raising

LEMMA RecoveryRaisesKeeps ==
  ASSUME ChainInv, RevertSound, RecoveryRaises
  PROVE  ChainInv'
  <1>1. /\ UNCHANGED <<stored, triggerMiner, crashes>>
        /\ raised' = TRUE
        /\ loading' = FALSE
        /\ hashPath' = <<>>
        /\ removed' = <<>>
        /\ next' = 0
        /\ \/ pc' = "Down" /\ lastBlock' = NoBlock /\ pool' = {}
           \/ pc' = "Idle" /\ UNCHANGED <<lastBlock, pool>>
        /\ Raising
    BY DEF RecoveryRaises
  <1>2. pc = "AddChain" /\ BranchRaises /\ Recovering
        /\ (forkState.oldPath # <<>> => RollbackDone) /\ forkState.point # NoBlock
    BY <1>1, RaisingFacts
  <1>3. pc' # "Down" => lastBlock' = StoredTip
    BY <1>1, <1>2, InvFacts
  <1>4. ChainSound' /\ RecordSound' /\ Recovering' = Recovering
        /\ StoredTip' = StoredTip /\ RollbackDone' = RollbackDone
    BY <1>1, <1>3, SameChain, SameRecord DEF stored
  <1>5. NoPendingRecovery' /\ LeftBehind'
    BY <1>1, <1>2, <1>4 DEF NoPendingRecovery, LeftBehind, BranchRaises, stored
  <1>6. TypeOK'
    <2>1. pc' \in Steps /\ lastBlock' \in MaybeBlock /\ pool' \in SUBSET Txs
      BY <1>1 DEF ChainInv, TypeOK, Steps, MaybeBlock
    <2> QED  BY <1>1, <2>1, EmptyPath DEF ChainInv, TypeOK, stored
  <1>7. PathsTyped'
    BY <1>1, EmptyPath DEF ChainInv, PathsTyped, stored
  <1> QED
    BY <1>1, <1>4, <1>5, <1>6, <1>7
    DEF ChainInv, ChainSound, RecordSound, NoLocals, Walking, Tracing

-----------------------------------------------------------------------------
(* Crash and load                                                           *)

LEMMA CrashKeeps ==
  ASSUME ChainInv, Crash
  PROVE  ChainInv'
  <1>1. /\ UNCHANGED stored
        /\ crashes' = crashes + 1
        /\ pc' = "Down"
        /\ lastBlock' = NoBlock
        /\ hashPath' = <<>>
        /\ removed' = <<>>
        /\ next' = 0
        /\ pool' = {}
        /\ triggerMiner' = FALSE
        /\ loading' = FALSE
        /\ raised' = raised
    BY DEF Crash
  <1>2. ChainSound' /\ RecordSound'
    BY <1>1, InvFacts, SameChain, SameRecord DEF stored
  <1>3. TypeOK'
    <2>1. pc' \in Steps
      BY <1>1 DEF Steps
    <2>2. lastBlock' \in MaybeBlock
      BY <1>1 DEF MaybeBlock
    <2>3. hashPath' \in Seq(Blocks) /\ removed' \in Seq(Blocks)
      BY <1>1, EmptyPath
    <2>4. /\ next' \in Nat
          /\ pool' \in SUBSET Txs
          /\ triggerMiner' \in BOOLEAN
          /\ loading' \in BOOLEAN
          /\ raised' \in BOOLEAN
      BY <1>1 DEF ChainInv, TypeOK
    <2>5. crashes' \in Nat
      <3>1. crashes \in Nat
        BY DEF ChainInv, TypeOK, life
      <3> QED  BY <1>1, <3>1
    <2> QED  BY <1>1, <2>1, <2>2, <2>3, <2>4, <2>5 DEF ChainInv, TypeOK, life, stored
  <1>4. PathsTyped'
    BY <1>1, EmptyPath DEF ChainInv, PathsTyped, stored
  <1> QED
    BY <1>1, <1>2, <1>3, <1>4
    DEF ChainInv, ChainSound, RecordSound, NoPendingRecovery, LeftBehind, NoLocals, Walking, Tracing

(* What every way of loading has in common.                                 *)
LEMMA LoadFacts ==
  ASSUME ChainInv, pc = "Down", UNCHANGED stored, lastBlock' = StoredTip
  PROVE  /\ ChainSound'
         /\ RecordSound'
         /\ StoredTip' = StoredTip
         /\ RollbackDone' = RollbackDone
         /\ Recovering' = Recovering
         /\ hashPath = <<>>
         /\ removed = <<>>
         /\ lastBlock' \in MaybeBlock
  BY InvFacts, TipFacts, SameChain, SameRecord DEF ChainInv, NoLocals, stored, MaybeBlock

LEMMA LoadKeeps ==
  ASSUME ChainInv, Load
  PROVE  ChainInv'
  <1>1. /\ UNCHANGED <<stored, locals, pool, triggerMiner, life>>
        /\ pc = "Down"
        /\ pc' = "Idle"
        /\ lastBlock' = StoredTip
        /\ ~Recovering
    BY DEF Load
  <1>2. /\ ChainSound' /\ RecordSound' /\ ~Recovering' /\ lastBlock' \in MaybeBlock
    BY <1>1, LoadFacts
  <1>3. TypeOK'
    BY <1>1, <1>2 DEF ChainInv, TypeOK, life, stored, locals, Steps
  <1> QED
    BY <1>1, <1>2, <1>3
    DEF ChainInv, ChainSound, RecordSound, NoPendingRecovery, LeftBehind, PathsTyped, NoLocals,
        Walking, Tracing, stored, locals

LEMMA LoadAndSearchKeeps ==
  ASSUME ChainInv, LoadAndSearch
  PROVE  ChainInv'
  <1>1. /\ UNCHANGED <<stored, locals, pool, triggerMiner, raised, crashes>>
        /\ pc = "Down"
        /\ pc' = "FindFork"
        /\ lastBlock' = StoredTip
        /\ loading' = TRUE
        /\ Recovering
        /\ forkState.point = NoBlock
    BY DEF LoadAndSearch
  <1>2. /\ ChainSound' /\ RecordSound' /\ Recovering' /\ lastBlock' \in MaybeBlock
        /\ hashPath = <<>>
    BY <1>1, LoadFacts
  <1>3. TypeOK'
    BY <1>1, <1>2 DEF ChainInv, TypeOK, life, stored, locals, Steps
  <1>4. Walking'
    BY <1>1, <1>2, EmptyPath DEF Walking, stored, locals
  <1> QED
    BY <1>1, <1>2, <1>3, <1>4
    DEF ChainInv, ChainSound, RecordSound, NoPendingRecovery, LeftBehind, PathsTyped, NoLocals,
        Tracing, stored, locals

LEMMA LoadAndRollbackKeeps ==
  ASSUME ChainInv, LoadAndRollback
  PROVE  ChainInv'
  <1>1. /\ UNCHANGED <<stored, locals, pool, triggerMiner, raised, crashes>>
        /\ pc = "Down"
        /\ pc' = "Rollback"
        /\ lastBlock' = StoredTip
        /\ loading' = TRUE
        /\ Recovering
        /\ forkState.point # NoBlock
        /\ ~RollbackDone
    BY DEF LoadAndRollback
  <1>2. /\ ChainSound' /\ RecordSound' /\ Recovering' /\ lastBlock' \in MaybeBlock
        /\ StoredTip' = StoredTip
        /\ removed = <<>>
    BY <1>1, LoadFacts
  <1>3. TypeOK'
    BY <1>1, <1>2 DEF ChainInv, TypeOK, life, stored, locals, Steps
  <1>4. BranchFrom(StoredTip, forkState.oldPath)
    BY <1>1, EmptyPath DEF ChainInv, OldPathSound, BranchFrom
  <1>5. BranchFrom(StoredTip, removed) /\ ToSet(removed) = {}
    BY <1>2, EmptyPath
  <1>6. Tracing'
    BY <1>1, <1>2, <1>4, <1>5 DEF Tracing, stored, locals
  <1> QED
    BY <1>1, <1>2, <1>3, <1>6
    DEF ChainInv, ChainSound, RecordSound, NoPendingRecovery, LeftBehind, PathsTyped, NoLocals,
        Walking, stored, locals

LEMMA LoadAndAddChainKeeps ==
  ASSUME ChainInv, LoadAndAddChain
  PROVE  ChainInv'
  <1>1. /\ UNCHANGED <<stored, hashPath, pool, triggerMiner, raised, crashes>>
        /\ pc = "Down"
        /\ lastBlock' = StoredTip
        /\ loading' = TRUE
        /\ OnRecord(StoredTip)
        /\ removed' = forkState.oldPath
        /\ BeginAddChain(StoredTip)
        /\ Recovering
        /\ forkState.point # NoBlock
        /\ RollbackDone
        /\ forkState' = forkState
    BY DEF LoadAndAddChain, stored
  <1>2. /\ ChainSound' /\ RecordSound' /\ Recovering' /\ lastBlock' \in MaybeBlock
        /\ StoredTip' = StoredTip
    BY <1>1, LoadFacts
  <1>3. /\ forkState.oldPath \in Seq(NonGenesis)
        /\ forkState.oldPath \in Seq(Blocks)
        /\ forkState.oldPath # <<>>
        /\ BranchFrom(forkState.point, forkState.oldPath)
    BY <1>1 DEF ChainInv, PathsTyped, TypeOK, OldPathSound, RollbackDone, BranchFrom
  <1>4. StoredTip \notin ToSet(forkState.newPath) \cup ToSet(forkState.oldPath)
          => StoredTip = forkState.point
    BY <1>1 DEF OnRecord
  <1>5. /\ pc' \in {"AddChain", "Undo"}
        /\ next' \in Nat
        /\ Tracing'
        /\ pc' = "AddChain" => Adding(forkState.newPath)'
    BY <1>1, <1>2, <1>3, <1>4, BeginAddChainKeeps
  <1>6. TypeOK'
    <2>1. pc' \in Steps
      BY <1>5 DEF Steps
    <2> QED  BY <1>1, <1>2, <1>3, <1>5, <2>1 DEF ChainInv, TypeOK, life, stored
  <1>7. PathsTyped'
    BY <1>1, <1>3 DEF ChainInv, PathsTyped
  <1> QED
    BY <1>1, <1>2, <1>5, <1>6, <1>7
    DEF ChainInv, ChainSound, RecordSound, NoPendingRecovery, LeftBehind, NoLocals, Walking

LEMMA LoadAstrayKeeps ==
  ASSUME ChainInv, LoadAstray
  PROVE  ChainInv'
  <1>1. /\ UNCHANGED <<stored, locals, pool, triggerMiner, life>>
        /\ pc = "Down"
        /\ pc' = "Astray"
        /\ lastBlock' = StoredTip
    BY DEF LoadAstray
  <1>2. ChainSound' /\ RecordSound' /\ lastBlock' \in MaybeBlock
    BY <1>1, LoadFacts
  <1>3. TypeOK'
    BY <1>1, <1>2 DEF ChainInv, TypeOK, life, stored, locals, Steps
  <1> QED
    BY <1>1, <1>2, <1>3
    DEF ChainInv, ChainSound, RecordSound, NoPendingRecovery, LeftBehind, PathsTyped, NoLocals,
        Walking, Tracing, stored, locals

-----------------------------------------------------------------------------
(* The theorems                                                             *)

LEMMA NextKeeps ==
  ASSUME RevertSound, ChainInv, [Next]_vars
  PROVE  ChainInv'
  <1>1. ASSUME NEW b \in Blocks \ {Genesis}, AddBlock(b)
        PROVE  ChainInv'
    <2>1. b \in NonGenesis
      BY DEF NonGenesis
    <2> QED
      BY <1>1, <2>1, RefuseBlockKeeps, ExtendTipKeeps, StoreSideBlockKeeps, StartRecoveryKeeps
      DEF AddBlock
  <1>2. ASSUME NEW t \in Txs, AddTransaction(t)
        PROVE  ChainInv'
    BY <1>2, AddTransactionKeeps
  <1>3. CASE RecoveryStep
    BY <1>3, CollectHashKeeps, RecordForkPointKeeps, RollbackTipKeeps, RollbackNeverFails,
       EndRollbackKeeps, AddNextKeeps, AddFailsKeeps, FinishRecoveryKeeps, UndoTipKeeps,
       EndUndoKeeps, RestoreNextKeeps, EndRestoreKeeps, RecoveryRaisesKeeps
    DEF RecoveryStep
  <1>4. CASE Crash
    BY <1>4, CrashKeeps
  <1>5. CASE Restart
    BY <1>5, LoadKeeps, LoadAndSearchKeeps, LoadAndRollbackKeeps, LoadAndAddChainKeeps,
       LoadAstrayKeeps
    DEF Restart
  <1>6. CASE UNCHANGED vars
    <2>1. UNCHANGED <<blocks, cumdiff, mainchain, height, ledger, reorgLimit, forkState, pc,
                      lastBlock, hashPath, removed, next, pool, triggerMiner, loading,
                      raised, crashes>>
      BY <1>6 DEF vars, stored, memory
    <2>2. ChainSound' /\ RecordSound' /\ StoredTip' = StoredTip /\ RollbackDone' = RollbackDone
          /\ Recovering' = Recovering
      <3>1. pc' # "Down" => lastBlock' = StoredTip
        BY <2>1, InvFacts
      <3> QED  BY <2>1, <3>1, SameChain, SameRecord
    <2>3. TypeOK'
      BY <2>1 DEF ChainInv, TypeOK
    <2>4. NoPendingRecovery' /\ LeftBehind'
      BY <2>1, SameLeft
    <2> QED
      BY <2>1, <2>2, <2>3, <2>4
      DEF ChainInv, ChainSound, RecordSound, PathsTyped, NoLocals, Walking, Tracing, Adding
  <1> QED  BY <1>1, <1>2, <1>3, <1>4, <1>5, <1>6 DEF Next

(* In a node whose applied blocks can be reverted, the invariant holds at   *)
(* every step of every recovery, whatever the tree of blocks, the order in  *)
(* which they arrive and the points at which the process dies.              *)
THEOREM ChainInvariant ==
  ASSUME RevertSound
  PROVE  Spec => []ChainInv
  <1>1. Init => ChainInv
    BY InitInv
  <1>2. ChainInv /\ [Next]_vars => ChainInv'
    BY NextKeeps
  <1> QED  BY <1>1, <1>2, PTL DEF Spec

(* Every value stays in its type; in particular the chain height is always  *)
(* that of some block and the re-org limit never goes below zero.           *)
THEOREM TypeCorrect ==
  ASSUME RevertSound
  PROVE  Spec => []TypeOK
  <1>1. ChainInv => TypeOK
    BY DEF ChainInv
  <1> QED  BY <1>1, ChainInvariant, PTL

(* The block number mapping is the ancestry of the tip at every step of a   *)
(* recovery (_remove_block_from_mainchain and _update_chainstate).          *)
THEOREM MainchainStaysLinked ==
  ASSUME RevertSound
  PROVE  Spec => []MainchainLinked
  <1>1. ChainInv => MainchainLinked
    BY DEF ChainInv
  <1> QED  BY <1>1, ChainInvariant, PTL

(* The account state is that of the main chain at every point where the     *)
(* process can die: a batch never splits a block from its state changes.    *)
THEOREM LedgerStaysMainchain ==
  ASSUME RevertSound
  PROVE  Spec => []LedgerIsMainchain
  <1>1. ChainInv => LedgerIsMainchain
    BY DEF ChainInv
  <1> QED  BY <1>1, ChainInvariant, PTL

(* What is read back from b'fork_state' after a crash is a fork point of    *)
(* the main chain and a branch that starts there.                           *)
THEOREM ForkRecordStaysSound ==
  ASSUME RevertSound
  PROVE  Spec => []ForkRecordSound
  <1>1. ChainInv => ForkRecordSound
    BY DEF ChainInv
  <1> QED  BY <1>1, ChainInvariant, PTL

(* When add_block returns or raises, and when load ends, no recovery is     *)
(* pending but one whose new branch holds a block that raises.              *)
THEOREM NoRecoveryLeftPending ==
  ASSUME RevertSound
  PROVE  Spec => []NoPendingRecovery
  <1>1. ChainInv => NoPendingRecovery
    BY DEF ChainInv
  <1> QED  BY <1>1, ChainInvariant, PTL

-----------------------------------------------------------------------------
(* A node without crashes                                                   *)

(* The process of this node does not end.                                   *)
Calm == crashes = 0 /\ ~loading /\ pc \notin {"Down", "Astray"}

(* What the steps of such a node keep, unless its recovery raises.          *)
StaysCalm == raised' = raised /\ crashes' = crashes /\ loading' \in {loading, FALSE}

(* The blocks of the branch of b can all be applied.                        *)
Possible(b) == Ancestry[b] \subseteq Applies \cup {Genesis}

(* The stored difficulties add up along every branch.                       *)
Weighed ==
  /\ cumdiff[Genesis] = Difficulty[Genesis]
  /\ \A b \in blocks \ {Genesis} : cumdiff[b] = cumdiff[Parent[b]] + Difficulty[b]
  /\ \A b \in Blocks \ blocks : cumdiff[b] = 0

(* No stored block stands on b: what extends the tip becomes the tip, or is *)
(* not stored.                                                              *)
IsLeaf(b) == \A x \in blocks \ {Genesis} : Parent[x] # b

HeadIsLeaf == IsLeaf(PromisedHead)

(* The initiator of a recovery is worth it, and nothing stands on it.       *)
InitiatorLeads ==
  Recovering => /\ forkState.initiator # Genesis
                /\ IsLeaf(forkState.initiator)
                /\ cumdiff[PromisedHead] < cumdiff[forkState.initiator]

HeadIsHeaviest ==
  \A b \in blocks :
    Possible(b) => \/ cumdiff[b] <= cumdiff[PromisedHead]
                   \/ Recovering /\ b = forkState.initiator

(* The part of the invariant that speaks of the stored blocks, the head and *)
(* the initiator, and of nothing else.                                      *)
Ranked == Weighed /\ HeadIsLeaf /\ InitiatorLeads /\ HeadIsHeaviest

(* A recovery has something to add, what it holds in its locals is what the *)
(* record holds, and it gives up only for a block that does not apply.      *)
Steady ==
  /\ pc = "Idle" /\ Recovering => raised
  /\ pc = "FindFork" => mainchain[Number[forkState.initiator]] # forkState.initiator
  /\ pc \in {"Rollback", "AddChain", "Undo", "Restore"} =>
       removed = forkState.oldPath /\ forkState.newPath # <<>>
  /\ pc \in {"Undo", "Restore"} => ~Possible(forkState.initiator)

(* It has something to remove as well: nothing stands on the head.          *)
Departing ==
  pc \in {"Rollback", "AddChain", "Undo", "Restore"} /\ forkState.oldPath = <<>> =>
    pc = "Rollback" /\ StoredTip # forkState.point

Working == Steady /\ Departing

(* What holds whatever raises, and what holds until a recovery does.        *)
SettledInv == Calm /\ Weighed /\ Steady

UnbrokenInv == ~raised /\ Calm /\ Ranked /\ Working

CalmInv == SettledInv /\ (~raised => UnbrokenInv)

(* The transactions of the removed blocks are in the pool until the new     *)
(* branch is added.                                                         *)
Kept(txs) == \A i \in DOMAIN forkState.oldPath : TxsOf[forkState.oldPath[i]] \subseteq txs

Returned ==
  /\ pc = "Rollback" => Kept(pool)
  /\ pc \in {"AddChain", "Idle"} => Kept(pool \cup Spent(ledger))

-----------------------------------------------------------------------------
(* Branches                                                                 *)

LEMMA AncestryFacts ==
  /\ Ancestry \in [Blocks -> SUBSET Blocks]
  /\ Ancestry[Genesis] = {Genesis}
  /\ \A b \in NonGenesis : Ancestry[b] = {b} \cup Ancestry[Parent[b]]
  <1> DEFINE Def(f) == [b \in Blocks |-> IF b = Genesis THEN {b} ELSE {b} \cup f[Parent[b]]]
             F == [b \in Blocks |-> [A \in SUBSET Blocks |-> {b} \cup A]]
  <1>1. Tree(Blocks, Genesis, Parent, Number)
    BY TreeFacts, TreeAssumption DEF Tree, NonGenesis
  <1>2. /\ {Genesis} \in SUBSET Blocks
        /\ F \in [Blocks -> [SUBSET Blocks -> SUBSET Blocks]]
    BY TreeAssumption
  <1>3. PICK g : SolvesTree(g, Blocks, Genesis, Parent, SUBSET Blocks, {Genesis}, F)
    <2> HIDE DEF F
    <2> QED  BY <1>1, <1>2, TreeRecursion
  <1>4. g = Def(g)
    <2>1. /\ g \in [Blocks -> SUBSET Blocks]
          /\ g[Genesis] = {Genesis}
          /\ \A b \in Blocks \ {Genesis} : g[b] = F[b][g[Parent[b]]]
      BY <1>3 DEF SolvesTree
    <2>2. \A b \in Blocks \ {Genesis} : Parent[b] \in Blocks
      BY TreeAssumption
    <2>3. \A b \in Blocks \ {Genesis} : g[b] = {b} \cup g[Parent[b]]
      BY <2>1, <2>2
    <2> QED  BY <2>1, <2>3
  <1>5. Ancestry = CHOOSE f : f = Def(f)
    BY DEF Ancestry
  <1>6. Ancestry = Def(Ancestry)
    <2> HIDE DEF Def
    <2> QED  BY <1>4, <1>5
  <1>7. \A b \in NonGenesis : Ancestry[b] = {b} \cup Ancestry[Parent[b]]
    <2>1. \A b \in NonGenesis : b \in Blocks /\ b # Genesis
      BY DEF NonGenesis
    <2> QED  BY <1>6, <2>1
  <1>8. Ancestry[Genesis] = {Genesis}
    BY <1>6, TreeAssumption
  <1>9. Ancestry \in [Blocks -> SUBSET Blocks]
    <2> DEFINE T == {n \in Nat : \A b \in Blocks : Number[b] <= n => Ancestry[b] \subseteq Blocks}
    <2>2. 0 \in T
      <3>1. \A b \in Blocks : Number[b] <= 0 => b = Genesis
        BY TreeFacts
      <3> QED  BY <3>1, <1>8, TreeAssumption
    <2>3. ASSUME NEW n \in Nat, n \in T
          PROVE  n + 1 \in T
      <3>1. ASSUME NEW b \in Blocks, Number[b] <= n + 1
            PROVE  Ancestry[b] \subseteq Blocks
        <4>1. CASE b = Genesis
          BY <4>1, <1>8, TreeAssumption
        <4>2. CASE b # Genesis
          <5>1. b \in NonGenesis /\ Parent[b] \in Blocks /\ Number[Parent[b]] <= n
            BY <3>1, <4>2, TreeFacts
          <5>2. Ancestry[Parent[b]] \subseteq Blocks
            BY <2>3, <5>1
          <5> QED  BY <1>7, <5>1, <5>2
        <4> QED  BY <4>1, <4>2
      <3> QED  BY <3>1
    <2>4. \A n \in Nat : n \in T
      <3> HIDE DEF T
      <3> QED  BY <2>2, <2>3, Induction
    <2>5. \A b \in Blocks : Ancestry[b] \subseteq Blocks
      <3>1. \A b \in Blocks : Number[b] \in T /\ Number[b] \in Nat /\ Number[b] <= Number[b]
        <4> HIDE DEF T
        <4> QED  BY <2>4, TreeFacts
      <3> QED  BY <3>1
    <2>6. Ancestry = [b \in Blocks |-> Ancestry[b]]
      BY <1>6
    <2> QED  BY <2>5, <2>6
  <1> QED  BY <1>7, <1>8, <1>9

(* A linked path runs through ancestors of its first block.                 *)
LEMMA PathAncestry ==
  ASSUME NEW path \in Seq(NonGenesis), Linked(path), NEW k \in 1 .. Len(path)
  PROVE  path[k] \in Ancestry[path[1]]
  <1> DEFINE n == Len(path) - 1
             f == [i \in 0 .. n |-> Ancestry[path[i + 1]]]
             S == SUBSET Ancestry[path[1]]
  <1>1. n \in Nat /\ k - 1 \in 0 .. n
    BY PathFacts
  <1>2. f[0] \in S
    BY <1>1
  <1>3. ASSUME NEW i \in 1 .. n, f[i - 1] \in S
        PROVE  f[i] \in S
    <2>1. /\ i - 1 \in 0 .. n /\ i \in 0 .. n /\ (i - 1) + 1 = i
          /\ i \in 1 .. Len(path) /\ i \in 1 .. Len(path) - 1
      BY <1>1, PathFacts
    <2>2. Parent[path[i]] = path[i + 1]
      BY <2>1 DEF Linked
    <2>3. path[i] \in NonGenesis
      BY <2>1, PathFacts
    <2>4. Ancestry[path[i + 1]] \subseteq Ancestry[path[i]]
      BY <2>2, <2>3, AncestryFacts
    <2>5. f[i - 1] = Ancestry[path[i]] /\ f[i] = Ancestry[path[i + 1]]
      BY <2>1
    <2>6. Ancestry[path[i]] \in S
      BY <1>3, <2>5
    <2> QED  BY <2>4, <2>5, <2>6
  <1>4. f[k - 1] \in S
    <2> HIDE DEF f, S, n
    <2>1. \A i \in 0 .. n : f[i] \in S
      BY <1>1, <1>2, <1>3, UpTo
    <2> QED  BY <1>1, <2>1
  <1>5. f[k - 1] = Ancestry[path[k]]
    <2>1. (k - 1) + 1 = k
      OBVIOUS
    <2> QED  BY <1>1, <2>1
  <1>6. path[k] \in Ancestry[path[k]]
    BY PathFacts, AncestryFacts
  <1> QED  BY <1>4, <1>5, <1>6

-----------------------------------------------------------------------------
(* The head                                                                 *)

LEMMA HeadFacts ==
  ASSUME ChainInv
  PROVE  /\ blocks \subseteq Blocks
         /\ PromisedHead \in blocks
         /\ forkState.oldPath = <<>> => PromisedHead = StoredTip
         /\ ~raised /\ forkState.oldPath # <<>> => PromisedHead = forkState.oldPath[1]
         /\ cumdiff \in [Blocks -> Nat]
         /\ Recovering => forkState.initiator \in blocks
         /\ ~Recovering => forkState.oldPath = <<>>
  <1>1. blocks \subseteq Blocks /\ cumdiff \in [Blocks -> Nat] /\ StoredTip \in blocks
    BY InvFacts, TipFacts DEF TypeOK
  <1>2. forkState.oldPath # <<>> => forkState.oldPath[1] \in blocks
    <2>1. forkState.oldPath # <<>> => 1 \in 1 .. Len(forkState.oldPath)
      BY PathFacts DEF ChainInv, PathsTyped
    <2> QED  BY <2>1 DEF ChainInv, OldPathSound
  <1>3. ~Recovering => forkState.oldPath = <<>>
    BY DEF ChainInv, RecordShape, NoFork
  <1> QED  BY <1>1, <1>2, <1>3 DEF PromisedHead, ChainInv, RecordShape

(* The ranking is about the stored blocks, the head and the initiator only. *)
LEMMA SameRanks ==
  ASSUME Ranked, UNCHANGED <<blocks, cumdiff>>, PromisedHead' = PromisedHead,
         forkState'.initiator = forkState.initiator
  PROVE  Ranked'
  <1>1. Recovering' = Recovering
    BY DEF Recovering
  <1>2. Weighed' /\ HeadIsLeaf'
    BY DEF Ranked, Weighed, HeadIsLeaf, IsLeaf
  <1>3. InitiatorLeads'
    BY <1>1 DEF Ranked, InitiatorLeads, IsLeaf
  <1>4. HeadIsHeaviest'
    BY <1>1 DEF Ranked, HeadIsHeaviest, Possible
  <1> QED  BY <1>2, <1>3, <1>4 DEF Ranked

(* The process does not end, and nothing raises.                            *)
LEMMA CalmStays ==
  ASSUME UnbrokenInv, StaysCalm, pc' \notin {"Down", "Astray"}
  PROVE  Calm' /\ ~raised /\ ~raised' /\ UNCHANGED raised
  <1>1. crashes' = 0
    BY DEF UnbrokenInv, Calm, StaysCalm
  <1>2. ~loading'
    BY Zenon DEF UnbrokenInv, Calm, StaysCalm
  <1>3. ~raised /\ ~raised' /\ UNCHANGED raised
    BY Zenon DEF UnbrokenInv, StaysCalm
  <1> QED  BY <1>1, <1>2, <1>3 DEF Calm

(* Where the record and the store stay, so does the head.                   *)
LEMMA QuietStep ==
  ASSUME UnbrokenInv, UNCHANGED stored, StaysCalm, pc' \notin {"Down", "Astray"}, Working'
  PROVE  UnbrokenInv' /\ UNCHANGED <<cumdiff, PromisedHead, raised>>
  <1>1. /\ UNCHANGED <<blocks, cumdiff, mainchain, height, forkState>>
        /\ forkState'.initiator = forkState.initiator
    BY DEF stored
  <1>2. Calm' /\ ~raised /\ ~raised' /\ UNCHANGED raised
    BY CalmStays
  <1>3. PromisedHead' = PromisedHead
    BY <1>1, <1>2 DEF PromisedHead, StoredTip
  <1>4. Ranked'
    BY <1>1, <1>3, SameRanks DEF UnbrokenInv
  <1> QED  BY <1>1, <1>2, <1>3, <1>4 DEF UnbrokenInv

(* Outside a recovery the head is the tip.                                  *)
LEMMA IdleFacts ==
  ASSUME ChainInv, UnbrokenInv, pc = "Idle"
  PROVE  /\ ~Recovering
         /\ forkState = NoFork
         /\ forkState.oldPath = <<>>
         /\ PromisedHead = StoredTip
         /\ lastBlock = StoredTip
  <1>1. ~Recovering
    BY DEF UnbrokenInv, Working, Steady
  <1> QED  BY <1>1, HeadFacts, InvFacts DEF ChainInv, RecordShape

(* A stored block weighs more than its parent, and more than nothing.       *)
LEMMA WeightFacts ==
  ASSUME ChainInv, Weighed, NEW b \in Blocks
  PROVE  /\ b \in blocks <=> cumdiff[b] > 0
         /\ cumdiff[b] \in Nat
  <1>1. Difficulty[b] \in Nat /\ Difficulty[b] > 0 /\ cumdiff[b] \in Nat
    BY HeadFacts, BlockAssumption
  <1>2. CASE b = Genesis
    BY <1>1, <1>2 DEF Weighed, ChainInv, StoreClosed
  <1>3. CASE b # Genesis
    <2>1. cumdiff[Parent[b]] \in Nat
      BY <1>3, HeadFacts, TreeAssumption
    <2> QED  BY <1>1, <1>3, <2>1 DEF Weighed
  <1> QED  BY <1>1, <1>2, <1>3

-----------------------------------------------------------------------------
(* A new block                                                              *)

LEMMA NewBlockFacts ==
  ASSUME ChainInv, Weighed, NEW b \in NonGenesis, Admitted(b), StoreBlock(b)
  PROVE  /\ blocks' = blocks \cup {b}
         /\ b \in Blocks /\ b \notin blocks /\ Parent[b] \in blocks
         /\ Weighed'
         /\ cumdiff'[b] = CumulativeDifficulty(b)
         /\ CumulativeDifficulty(b) \in Nat
         /\ CumulativeDifficulty(b) > cumdiff[Parent[b]]
         /\ \A x \in blocks : cumdiff'[x] = cumdiff[x]
         /\ IsLeaf(b)'
         /\ \A x \in blocks : IsLeaf(x) /\ x # Parent[b] => IsLeaf(x)'
  <1>1. /\ blocks' = blocks \cup {b}
        /\ b \in Blocks /\ b # Genesis /\ b \notin blocks
        /\ Parent[b] \in blocks /\ blocks \subseteq Blocks
        /\ Difficulty[b] \in Nat /\ Difficulty[b] > 0
        /\ cumdiff \in [Blocks -> Nat]
        /\ cumdiff' = [cumdiff EXCEPT ![b] = CumulativeDifficulty(b)]
        /\ \A x \in blocks \ {Genesis} : Parent[x] \in blocks
        /\ Genesis \in blocks
    BY HeadFacts, BlockAssumption DEF StoreBlock, Admitted, NonGenesis, ChainInv, StoreClosed
  <1>2. cumdiff[Parent[b]] \in Nat
    BY <1>1
  <1>3. /\ CumulativeDifficulty(b) = cumdiff[Parent[b]] + Difficulty[b]
        /\ CumulativeDifficulty(b) \in Nat
        /\ CumulativeDifficulty(b) > cumdiff[Parent[b]]
    BY <1>1, <1>2 DEF CumulativeDifficulty
  <1>4. cumdiff'[b] = CumulativeDifficulty(b) /\ \A x \in Blocks \ {b} : cumdiff'[x] = cumdiff[x]
    BY <1>1, <1>3
  <1>5. Parent[b] # b
    BY <1>1
  <1>6. Weighed'
    <2>1. cumdiff'[Genesis] = Difficulty[Genesis]
      BY <1>1, <1>4 DEF Weighed
    <2>2. ASSUME NEW x \in blocks' \ {Genesis}
          PROVE  cumdiff'[x] = cumdiff'[Parent[x]] + Difficulty[x]
      <3>1. CASE x = b
        BY <1>1, <1>3, <1>4, <1>5, <3>1
      <3>2. CASE x # b
        <4>1. x \in blocks \ {Genesis} /\ Parent[x] \in blocks
          BY <1>1, <3>2
        <4> QED  BY <1>1, <1>4, <4>1 DEF Weighed
      <3> QED  BY <3>1, <3>2
    <2>3. \A x \in Blocks \ blocks' : cumdiff'[x] = 0
      BY <1>1, <1>4 DEF Weighed
    <2> QED  BY <2>1, <2>2, <2>3 DEF Weighed
  <1>7. IsLeaf(b)' /\ \A x \in blocks : IsLeaf(x) /\ x # Parent[b] => IsLeaf(x)'
    BY <1>1, <1>5 DEF IsLeaf
  <1> QED  BY <1>1, <1>3, <1>4, <1>6, <1>7

-----------------------------------------------------------------------------
(* What holds whatever raises                                               *)

LEMMA LearnFacts ==
  ASSUME ChainInv, Weighed, NEW b \in NonGenesis, Admitted(b), StoreBlock(b)
  PROVE  Best!Learn(b)
  <1>1. /\ b \in Blocks /\ b \notin blocks /\ Parent[b] \in blocks
        /\ blocks \subseteq Blocks
    BY NewBlockFacts, HeadFacts
  <1>2. ~(cumdiff[b] > 0) /\ cumdiff[Parent[b]] > 0
    BY <1>1, WeightFacts
  <1>3. cumdiff' = [cumdiff EXCEPT ![b] = cumdiff[Parent[b]] + Difficulty[b]]
    BY DEF StoreBlock, CumulativeDifficulty
  <1> QED  BY <1>2, <1>3 DEF Best!Learn, Best!Known

LEMMA StartRecoveryFacts ==
  ASSUME ChainInv, NEW b \in NonGenesis, StartRecovery(b)
  PROVE  forkState'.initiator = b /\ mainchain'[Number[b]] # b
  <1>1. b \in Blocks /\ b # NoBlock /\ Number[b] \in Heights /\ b \notin blocks
    BY TreeFacts DEF StartRecovery, Admitted
  <1> QED  BY <1>1 DEF StartRecovery, NoFork, chain, ChainInv, MainchainLinked

(* The rollback is over at the fork point, and add_chain goes ahead.        *)
LEMMA EndRollbackFacts ==
  ASSUME ChainInv, EndRollback
  PROVE  /\ pc' = "AddChain"
         /\ StoredTip = forkState.point
         /\ forkState.point \in Blocks
  <1>1. pc = "Rollback" /\ AtForkPoint /\ BeginAddChain(lastBlock)
    BY DEF EndRollback
  <1>2. /\ lastBlock = StoredTip /\ lastBlock = forkState.point
        /\ forkState.point \in Blocks
    BY <1>1, InvFacts, AboveForkPoint
  <1> QED  BY <1>1, <1>2, PointNotOld DEF BeginAddChain, Refused

(* add_chain fails at a block of the initiator's branch.                    *)
LEMMA AddFailsFacts ==
  ASSUME ChainInv, Steady, AddFails
  PROVE  ~Possible(forkState.initiator)
  <1> DEFINE new == forkState.newPath
  <1>1. /\ pc = "AddChain"
        /\ next > 0 /\ next \in Nat
        /\ new[next] \notin Applies
    BY DEF AddFails, ChainInv, TypeOK
  <1>2. /\ new \in Seq(NonGenesis) /\ new # <<>>
        /\ Linked(new) /\ new[1] = forkState.initiator
        /\ next <= Len(new)
    <2>1. new # <<>>
      BY <1>1 DEF Steady
    <2>2. forkState.point # NoBlock /\ Recovering /\ Adding(new)
      BY <1>1, InvFacts DEF ChainInv, Tracing
    <2> QED  BY <2>1, <2>2 DEF ChainInv, PathsTyped, ForkRecordSound, BranchFrom, Adding
  <1> HIDE DEF new
  <1>3. next \in 1 .. Len(new)
    BY <1>1, <1>2, PathFacts
  <1>4. new[next] \in Ancestry[forkState.initiator]
    BY <1>2, <1>3, PathAncestry
  <1>5. new[next] # Genesis
    BY <1>2, <1>3, PathFacts DEF NonGenesis
  <1> QED  BY <1>1, <1>4, <1>5 DEF Possible

(* A recovery that succeeds ends on its initiator.                          *)
LEMMA FinishFacts ==
  ASSUME ChainInv, Steady, FinishRecovery
  PROVE  /\ Recovering
         /\ StoredTip = forkState.initiator
         /\ lastBlock' = forkState.initiator
  <1> DEFINE new == forkState.newPath
  <1>1. pc = "AddChain" /\ next = 0 /\ lastBlock' = lastBlock
    BY DEF FinishRecovery, chain
  <1>2. Recovering /\ forkState.point # NoBlock /\ Adding(new) /\ lastBlock = StoredTip
    BY <1>1, InvFacts DEF ChainInv, Tracing
  <1>3. new \in Seq(NonGenesis) /\ new # <<>> /\ new[1] = forkState.initiator
    BY <1>1, <1>2 DEF Steady, ChainInv, PathsTyped, ForkRecordSound
  <1>4. next # Len(new) /\ next + 1 = 1
    BY <1>1, <1>3, PathFacts
  <1> QED  BY <1>1, <1>2, <1>3, <1>4 DEF Adding

(* One that fails puts back every block it had removed.                     *)
LEMMA EndRestoreFacts ==
  ASSUME ChainInv, Steady, EndRestore
  PROVE  /\ forkState' = NoFork
         /\ forkState.oldPath # <<>> => /\ StoredTip = forkState.oldPath[1]
                                        /\ lastBlock' = forkState.oldPath[1]
  <1>1. /\ pc = "Restore"
        /\ next > 0 => removed[next] \notin Applies
        /\ forkState' = IF next = 0 THEN NoFork ELSE forkState
        /\ lastBlock' = lastBlock
        /\ next \in Nat
    BY DEF EndRestore, chain, ChainInv, TypeOK
  <1>2. removed = forkState.oldPath /\ lastBlock = StoredTip
    BY <1>1, InvFacts DEF Steady
  <1>3. next = 0
    <2>1. ASSUME next > 0  PROVE removed[next] \in Applies
      BY <1>1, <2>1, RemovedFacts, NextFacts
    <2> QED  BY <1>1, <2>1
  <1>4. ASSUME removed # <<>>
        PROVE  StoredTip = removed[1]
    <2>1. next # Len(removed) /\ next + 1 = 1
      BY <1>1, <1>3, <1>4, RemovedFacts, PathFacts
    <2> QED  BY <1>1, <2>1, RemovedFacts DEF Adding
  <1> QED  BY <1>1, <1>2, <1>3, <1>4

(* A recovery that had removed blocks ends at its initiator or where it     *)
(* began, or it raises.                                                     *)
EndsWell ==
  /\ Recovering
  /\ forkState.oldPath # <<>>
  /\ \/ forkState' = NoFork
     \/ pc \notin {"Idle", "Down"} /\ pc' = "Idle"
  => \/ lastBlock' \in {forkState.initiator, forkState.oldPath[1]}
     \/ Raising /\ raised' /\ UNCHANGED <<chain, forkState>>

(* The store learns of a block, or keeps what it has.                       *)
Learns == UNCHANGED cumdiff \/ \E b \in Blocks \ {Genesis} : Best!Learn(b)

SettledStep == SettledInv' /\ EndsWell /\ Learns /\ (raised => raised')

(* A step that neither ends a recovery nor stores a block.                  *)
LEMMA OnTheWay ==
  ASSUME SettledInv, StaysCalm, UNCHANGED <<blocks, cumdiff>>,
         forkState'.initiator = forkState.initiator,
         pc' \notin {"Down", "Astray"}, pc' = "Idle" => pc = "Idle", Steady'
  PROVE  SettledStep
  <1>1. crashes' = 0
    BY DEF SettledInv, Calm, StaysCalm
  <1>2. ~loading'
    BY Zenon DEF SettledInv, Calm, StaysCalm
  <1>3. raised => raised'
    BY Zenon DEF StaysCalm
  <1>4. Weighed'
    BY DEF SettledInv, Weighed
  <1>5. EndsWell
    BY DEF EndsWell, Recovering, NoFork
  <1> QED  BY <1>1, <1>2, <1>3, <1>4, <1>5 DEF SettledStep, SettledInv, Calm, Learns

LEMMA AddBlockSettles ==
  ASSUME ChainInv, SettledInv, NEW b \in NonGenesis, AddBlock(b)
  PROVE  SettledStep
  <1>1. CASE RefuseBlock(b)
    <2>1. UNCHANGED stored /\ pc = "Idle" /\ pc' = "Idle" /\ StaysCalm
      BY <1>1 DEF RefuseBlock, StaysCalm, life
    <2>2. Steady'
      BY <2>1 DEF SettledInv, Steady, StaysCalm, Recovering, stored
    <2> QED  BY <2>1, <2>2, OnTheWay DEF stored
  <1>2. CASE ExtendTip(b) \/ StoreSideBlock(b) \/ StartRecovery(b)
    <2>1. /\ Admitted(b) /\ StoreBlock(b) /\ StaysCalm /\ pc = "Idle"
          /\ \/ pc' = "Idle" /\ forkState' = forkState
             \/ pc' = "FindFork" /\ StartRecovery(b)
      BY <1>2 DEF ExtendTip, StoreSideBlock, StartRecovery, StaysCalm, life
    <2>2. Weighed' /\ Learns
      BY <2>1, NewBlockFacts, LearnFacts DEF SettledInv, Learns, NonGenesis
    <2>3. Steady'
      <3>1. CASE pc' = "Idle" /\ forkState' = forkState
        BY <2>1, <3>1 DEF SettledInv, Steady, StaysCalm, Recovering
      <3>2. CASE pc' = "FindFork" /\ StartRecovery(b)
        BY <3>2, StartRecoveryFacts DEF Steady
      <3> QED  BY <2>1, <3>1, <3>2
    <2>4. EndsWell
      <3>1. CASE forkState' = forkState
        BY <2>1, <3>1 DEF EndsWell, Recovering, NoFork
      <3>2. CASE pc' = "FindFork" /\ StartRecovery(b)
        BY <3>2, StartRecoveryFacts, TreeFacts DEF EndsWell, NoFork
      <3> QED  BY <2>1, <3>1, <3>2
    <2>5. crashes' = 0 /\ pc' \notin {"Down", "Astray"}
      BY <2>1 DEF SettledInv, Calm, StaysCalm
    <2>6. StaysCalm /\ Calm
      BY <2>1 DEF SettledInv
    <2>7. ~loading'
      BY <2>6, Zenon DEF Calm, StaysCalm
    <2>8. raised => raised'
      BY <2>6, Zenon DEF StaysCalm
    <2> QED  BY <2>2, <2>3, <2>4, <2>5, <2>7, <2>8 DEF SettledStep, SettledInv, Calm
  <1> QED  BY <1>1, <1>2 DEF AddBlock

(* A recovery that ends takes its record along.                             *)
LEMMA RecordGone ==
  ASSUME SettledInv, UNCHANGED <<blocks, cumdiff, raised, crashes>>, ~loading', pc' = "Idle",
         forkState' = NoFork, EndsWell
  PROVE  SettledStep
  <1>1. Steady'
    BY DEF Steady, Recovering, NoFork
  <1>2. Weighed'
    BY DEF SettledInv, Weighed
  <1>3. raised => raised'
    BY Zenon
  <1> QED  BY <1>1, <1>2, <1>3 DEF SettledStep, SettledInv, Calm, Learns

LEMMA RecoverySettles ==
  ASSUME RevertSound, ChainInv, SettledInv, RecoveryStep
  PROVE  SettledStep
  <1>1. CASE CollectHash
    <2>1. UNCHANGED stored /\ pc = "FindFork" /\ pc' = "FindFork" /\ StaysCalm
      BY <1>1 DEF CollectHash, StaysCalm, life
    <2>2. Steady'
      BY <2>1 DEF SettledInv, Steady, stored
    <2> QED  BY <2>1, <2>2, OnTheWay DEF stored
  <1>2. CASE RecordForkPoint
    <2>1. /\ UNCHANGED <<blocks, cumdiff>> /\ StaysCalm
          /\ pc = "FindFork" /\ pc' = "Rollback" /\ removed' = <<>>
          /\ forkState' = [forkState EXCEPT !.point = Cursor, !.newPath = hashPath]
          /\ mainchain[Number[Cursor]] = Cursor
      BY <1>2 DEF RecordForkPoint, StaysCalm, life
    <2>2. /\ forkState'.initiator = forkState.initiator
          /\ forkState'.newPath = hashPath
          /\ forkState'.oldPath = <<>>
      BY <2>1 DEF ChainInv, Walking, RecordShape, TypeOK
    <2>3. hashPath # <<>>
      BY <2>1, CursorFacts DEF SettledInv, Steady
    <2>4. Steady'
      BY <2>1, <2>2, <2>3 DEF Steady
    <2> QED  BY <2>1, <2>2, <2>4, OnTheWay
  <1>3. CASE RollbackTip
    <2>1. /\ UNCHANGED <<blocks, cumdiff>> /\ StaysCalm
          /\ pc = "Rollback" /\ pc' = "Rollback"
          /\ removed' = Append(removed, lastBlock)
          /\ forkState' = [forkState EXCEPT !.oldPath = Append(@, lastBlock)]
      BY <1>3 DEF RollbackTip, StaysCalm, life
    <2>2. /\ forkState'.initiator = forkState.initiator
          /\ forkState'.newPath = forkState.newPath
          /\ forkState'.oldPath = Append(forkState.oldPath, lastBlock)
      BY <2>1 DEF ChainInv, TypeOK
    <2>3. Steady'
      BY <2>1, <2>2 DEF SettledInv, Steady
    <2> QED  BY <2>1, <2>2, <2>3, OnTheWay
  <1>4. CASE RollbackFails
    BY <1>4, RollbackNeverFails
  <1>5. CASE EndRollback
    <2>1. /\ UNCHANGED stored /\ removed' = removed /\ StaysCalm
          /\ pc = "Rollback" /\ pc' = "AddChain"
      BY <1>5, EndRollbackFacts DEF EndRollback, StaysCalm, life
    <2>2. Steady'
      BY <2>1 DEF SettledInv, Steady, stored
    <2> QED  BY <2>1, <2>2, OnTheWay DEF stored
  <1>6. CASE AddNext \/ UndoTip \/ RestoreNext
    <2>1. /\ pc \in {"AddChain", "Undo", "Restore"} /\ pc' = pc /\ StaysCalm
          /\ UNCHANGED <<blocks, cumdiff, forkState, removed>>
      BY <1>6 DEF AddNext, UndoTip, RestoreNext, locals, StaysCalm, life
    <2>2. Steady'
      BY <2>1 DEF SettledInv, Steady, Possible
    <2> QED  BY <2>1, <2>2, OnTheWay
  <1>7. CASE AddFails
    <2>1. /\ UNCHANGED stored /\ removed' = removed /\ StaysCalm
          /\ pc = "AddChain" /\ pc' = "Undo"
          /\ ~Possible(forkState.initiator)
      BY <1>7, AddFailsFacts DEF AddFails, locals, StaysCalm, life, SettledInv
    <2>2. Steady'
      BY <2>1 DEF SettledInv, Steady, stored, Possible
    <2> QED  BY <2>1, <2>2, OnTheWay DEF stored
  <1>8. CASE FinishRecovery
    <2>1. /\ UNCHANGED <<blocks, cumdiff, raised, crashes>> /\ ~loading'
          /\ pc' = "Idle" /\ forkState' = NoFork
      BY <1>8 DEF FinishRecovery
    <2>2. EndsWell
      BY <1>8, FinishFacts DEF EndsWell, SettledInv
    <2> QED  BY <2>1, <2>2, RecordGone
  <1>9. CASE EndUndo
    <2>1. /\ UNCHANGED stored /\ removed' = removed /\ StaysCalm
          /\ pc = "Undo" /\ pc' = "Restore"
      BY <1>9, EndUndoKeeps DEF EndUndo, StaysCalm
    <2>2. Steady'
      BY <2>1 DEF SettledInv, Steady, stored, Possible
    <2> QED  BY <2>1, <2>2, OnTheWay DEF stored
  <1>10. CASE EndRestore
    <2>1. UNCHANGED <<blocks, cumdiff, raised, crashes>> /\ ~loading' /\ pc' = "Idle"
      BY <1>10 DEF EndRestore
    <2>2. forkState' = NoFork /\ EndsWell
      BY <1>10, EndRestoreFacts DEF EndsWell, SettledInv
    <2> QED  BY <2>1, <2>2, RecordGone
  <1>11. CASE RecoveryRaises
    <2>1. /\ UNCHANGED <<stored, lastBlock, crashes>> /\ Raising
          /\ raised' /\ ~loading' /\ pc' = "Idle"
      BY <1>11 DEF RecoveryRaises, SettledInv, Calm
    <2>2. EndsWell
      BY <2>1 DEF EndsWell, chain, stored
    <2>3. Steady' /\ Weighed'
      BY <2>1 DEF SettledInv, Steady, Weighed, stored
    <2> QED  BY <2>1, <2>2, <2>3 DEF SettledStep, SettledInv, Calm, Learns, stored
  <1> QED
    BY <1>1, <1>2, <1>3, <1>4, <1>5, <1>6, <1>7, <1>8, <1>9, <1>10, <1>11 DEF RecoveryStep

LEMMA NextSettles ==
  ASSUME RevertSound, MaxCrashes = 0, ChainInv, SettledInv, [Next]_vars
  PROVE  SettledStep
  <1>1. ASSUME NEW b \in Blocks \ {Genesis}, AddBlock(b)
        PROVE  SettledStep
    BY <1>1, AddBlockSettles DEF NonGenesis
  <1>2. ASSUME UNCHANGED <<stored, pc, removed, life>>
        PROVE  SettledStep
    <2>1. StaysCalm /\ pc' \notin {"Down", "Astray"}
      BY <1>2 DEF StaysCalm, life, SettledInv, Calm
    <2>2. Steady'
      BY <1>2 DEF SettledInv, Steady, Possible, Recovering, stored, life
    <2> QED  BY <1>2, <2>1, <2>2, OnTheWay DEF stored
  <1>3. ASSUME NEW t \in Txs, AddTransaction(t)
        PROVE  SettledStep
    BY <1>2, <1>3 DEF AddTransaction, locals
  <1>4. CASE RecoveryStep
    BY <1>4, RecoverySettles
  <1>5. CASE Crash
    BY <1>5 DEF Crash, SettledInv, Calm
  <1>6. CASE Restart
    BY <1>6
    DEF Restart, Load, LoadAndSearch, LoadAndRollback, LoadAndAddChain, LoadAstray,
        SettledInv, Calm
  <1>7. CASE UNCHANGED vars
    BY <1>2, <1>7 DEF vars, memory, life
  <1> QED  BY <1>1, <1>3, <1>4, <1>5, <1>6, <1>7 DEF Next

-----------------------------------------------------------------------------
(* What holds until a recovery raises                                       *)

LEMMA RefuseBlockCalm ==
  ASSUME UnbrokenInv, NEW b, RefuseBlock(b)
  PROVE  UnbrokenInv' /\ UNCHANGED <<cumdiff, PromisedHead, raised>>
  <1>1. UNCHANGED stored /\ pc = "Idle" /\ pc' = "Idle" /\ StaysCalm
    BY DEF RefuseBlock, StaysCalm, life
  <1>2. ~Recovering'
    BY <1>1 DEF UnbrokenInv, Working, Steady, Recovering, stored
  <1>3. Working'
    BY <1>1, <1>2 DEF Working, Steady, Departing
  <1> QED  BY <1>1, <1>3, QuietStep

LEMMA AddTransactionCalm ==
  ASSUME UnbrokenInv, NEW t, AddTransaction(t)
  PROVE  UnbrokenInv' /\ UNCHANGED <<cumdiff, PromisedHead, raised>>
  <1>1. UNCHANGED stored /\ pc = "Idle" /\ pc' = "Idle" /\ StaysCalm
    BY DEF AddTransaction, StaysCalm, life
  <1>2. ~Recovering'
    BY <1>1 DEF UnbrokenInv, Working, Steady, Recovering, stored
  <1>3. Working'
    BY <1>1, <1>2 DEF Working, Steady, Departing
  <1> QED  BY <1>1, <1>3, QuietStep

(* The new tip is the heaviest block, and the head of BestChain moves to it.*)
LEMMA ExtendTipCalm ==
  ASSUME ChainInv, UnbrokenInv, NEW b \in NonGenesis, ExtendTip(b)
  PROVE  UnbrokenInv' /\ Best!Extend(b)
  <1>1. /\ pc = "Idle" /\ pc' = "Idle" /\ StaysCalm /\ forkState' = forkState
        /\ Admitted(b) /\ Parent[b] = lastBlock
        /\ StoreBlock(b) /\ ApplyBlock(b)
    BY DEF ExtendTip, locals, StaysCalm, life
  <1>2. /\ ~Recovering /\ forkState.oldPath = <<>>
        /\ PromisedHead = StoredTip /\ lastBlock = StoredTip
    BY <1>1, IdleFacts
  <1>3. PromisedHead' = b
    <2>1. b \in Blocks /\ Number[b] \in Heights
      BY TreeFacts
    <2>2. StoredTip' = b
      BY <1>1, <2>1 DEF ApplyBlock, StoredTip, ChainInv, TypeOK
    <2> QED  BY <1>1, <1>2, <2>2 DEF PromisedHead
  <1>4. /\ blocks' = blocks \cup {b}
        /\ b \in Blocks /\ b \notin blocks /\ Parent[b] \in blocks
        /\ Weighed' /\ IsLeaf(b)'
        /\ cumdiff'[b] = CumulativeDifficulty(b)
        /\ CumulativeDifficulty(b) \in Nat
        /\ CumulativeDifficulty(b) > cumdiff[PromisedHead]
        /\ \A x \in blocks : cumdiff'[x] = cumdiff[x]
    BY <1>1, <1>2, NewBlockFacts DEF UnbrokenInv, Ranked
  <1>5. ~Recovering'
    BY <1>1, <1>2 DEF Recovering
  <1>6. HeadIsHeaviest'
    <2>1. ASSUME NEW x \in blocks, Possible(x)
          PROVE  cumdiff'[x] <= cumdiff'[b]
      <3>1. cumdiff[x] <= cumdiff[PromisedHead]
        BY <1>2, <2>1 DEF UnbrokenInv, Ranked, HeadIsHeaviest
      <3>2. cumdiff[x] \in Nat /\ cumdiff[PromisedHead] \in Nat
        BY HeadFacts
      <3> QED  BY <1>4, <3>1, <3>2
    <2> QED  BY <1>3, <1>4, <2>1 DEF HeadIsHeaviest, Possible
  <1>7. HeadIsLeaf' /\ InitiatorLeads'
    BY <1>3, <1>4, <1>5 DEF HeadIsLeaf, InitiatorLeads
  <1>8. Working'
    BY <1>1, <1>5 DEF Working, Steady, Departing
  <1>9. Calm' /\ ~raised' /\ UNCHANGED raised
    BY <1>1, CalmStays
  <1>10. Best!Extend(b)
    <2>1. Best!Learn(b)
      BY <1>1, LearnFacts DEF UnbrokenInv, Ranked
    <2> QED  BY <1>3, <1>4, <1>9, <2>1 DEF Best!Extend
  <1> QED  BY <1>4, <1>6, <1>7, <1>8, <1>10, <1>9 DEF UnbrokenInv, Ranked

(* A block stored beside the main chain: the head stays.  Either the block  *)
(* is no heavier than the tip, or a recovery starts for it.                 *)
LEMMA StoreBesideCalm ==
  ASSUME ChainInv, UnbrokenInv, NEW b \in NonGenesis, Admitted(b), StoreBlock(b),
         pc = "Idle", Parent[b] # lastBlock, UNCHANGED <<chain, raised>>,
         forkState'.oldPath = <<>>,
         \/ forkState' = forkState /\ ~Heavier(b)
         \/ forkState'.initiator = b /\ Heavier(b)
  PROVE  Ranked' /\ Best!Keep(b)
  <1>1. /\ ~Recovering /\ forkState.initiator = NoBlock
        /\ PromisedHead = StoredTip /\ lastBlock = StoredTip
        /\ PromisedHead \in blocks
    BY IdleFacts, HeadFacts DEF NoFork
  <1>2. PromisedHead' = PromisedHead
    BY <1>1 DEF PromisedHead, StoredTip, chain
  <1>3. /\ blocks' = blocks \cup {b}
        /\ b \in Blocks /\ b # Genesis /\ b # NoBlock
        /\ b \notin blocks /\ Parent[b] \in blocks
        /\ Weighed' /\ IsLeaf(b)' /\ IsLeaf(PromisedHead)'
        /\ cumdiff'[b] = CumulativeDifficulty(b)
        /\ CumulativeDifficulty(b) \in Nat
        /\ \A x \in blocks : cumdiff'[x] = cumdiff[x]
    <2>1. IsLeaf(PromisedHead)
      BY DEF UnbrokenInv, Ranked, HeadIsLeaf
    <2>2. b # Genesis /\ b # NoBlock
      BY TreeFacts DEF NonGenesis
    <2> DEFINE h == PromisedHead
    <2>3. h \in blocks /\ IsLeaf(h) /\ h # Parent[b]
      BY <1>1, <2>1
    <2>4. h' = h
      BY <1>2
    <2> HIDE DEF h
    <2>5. \A x \in blocks : IsLeaf(x) /\ x # Parent[b] =>
                            \A y \in blocks' \ {Genesis} : Parent[y] # x
      BY NewBlockFacts DEF UnbrokenInv, Ranked, IsLeaf
    <2>6. IsLeaf(h)'
      BY <2>3, <2>4, <2>5 DEF IsLeaf
    <2> QED  BY <2>2, <2>6, NewBlockFacts DEF UnbrokenInv, Ranked, h
  <1>4. HeadIsLeaf'
    BY <1>2, <1>3 DEF HeadIsLeaf
  <1>5. Heavier(b) <=> cumdiff'[b] > cumdiff'[PromisedHead]
    BY <1>1, <1>3 DEF Heavier
  <1>6. InitiatorLeads'
    <2>1. CASE forkState' = forkState
      BY <1>1, <2>1 DEF Recovering, InitiatorLeads
    <2>2. CASE forkState'.initiator = b /\ Heavier(b)
      <3>1. IsLeaf(forkState.initiator)'
        BY <1>3, <2>2 DEF IsLeaf
      <3>2. cumdiff'[PromisedHead'] < cumdiff'[forkState'.initiator]
        BY <1>2, <1>5, <2>2
      <3> QED  BY <1>3, <2>2, <3>1, <3>2 DEF InitiatorLeads
    <2> QED  BY <2>1, <2>2
  <1>7. HeadIsHeaviest'
    <2>1. ASSUME NEW x \in blocks, Possible(x)
          PROVE  cumdiff'[x] <= cumdiff'[PromisedHead]
      BY <1>1, <1>3, <2>1 DEF UnbrokenInv, Ranked, HeadIsHeaviest
    <2>2. \/ cumdiff'[b] <= cumdiff'[PromisedHead]
          \/ Recovering' /\ b = forkState'.initiator
      <3>1. CASE Heavier(b)
        <4>1. forkState'.initiator = b
          BY <3>1
        <4> QED  BY <1>3, <4>1 DEF Recovering
      <3>2. CASE ~Heavier(b)
        <4>1. cumdiff'[b] \in Nat /\ cumdiff'[PromisedHead] \in Nat
          BY <1>1, <1>3, HeadFacts
        <4> QED  BY <1>5, <3>2, <4>1
      <3> QED  BY <3>1, <3>2
    <2> QED  BY <1>2, <1>3, <2>1, <2>2 DEF HeadIsHeaviest, Possible
  <1>8. Best!Keep(b)
    <2>1. Best!Learn(b)
      BY LearnFacts DEF UnbrokenInv, Ranked
    <2> QED  BY <1>2, <2>1 DEF Best!Keep
  <1> QED  BY <1>3, <1>4, <1>6, <1>7, <1>8 DEF Ranked

LEMMA StoreSideBlockCalm ==
  ASSUME ChainInv, UnbrokenInv, NEW b \in NonGenesis, StoreSideBlock(b)
  PROVE  UnbrokenInv' /\ Best!Keep(b)
  <1>1. /\ pc = "Idle" /\ pc' = "Idle" /\ StaysCalm /\ forkState' = forkState
        /\ Admitted(b) /\ StoreBlock(b) /\ Parent[b] # lastBlock /\ ~Heavier(b)
        /\ UNCHANGED chain
    BY DEF StoreSideBlock, StaysCalm, life
  <1>2. forkState'.oldPath = <<>>
    BY <1>1, IdleFacts
  <1>3. Calm' /\ ~raised' /\ UNCHANGED raised
    BY <1>1, CalmStays
  <1>4. Ranked' /\ Best!Keep(b)
    BY <1>1, <1>2, <1>3, StoreBesideCalm
  <1>5. ~Recovering'
    BY <1>1, IdleFacts DEF Recovering
  <1>6. Working'
    BY <1>1, <1>5 DEF Working, Steady, Departing
  <1> QED  BY <1>3, <1>4, <1>6 DEF UnbrokenInv

LEMMA StartRecoveryCalm ==
  ASSUME ChainInv, UnbrokenInv, NEW b \in NonGenesis, StartRecovery(b)
  PROVE  UnbrokenInv' /\ Best!Keep(b)
  <1>1. /\ pc = "Idle" /\ pc' = "FindFork" /\ StaysCalm
        /\ forkState' = [NoFork EXCEPT !.initiator = b]
        /\ Admitted(b) /\ StoreBlock(b) /\ Parent[b] # lastBlock /\ Heavier(b)
        /\ UNCHANGED chain
    BY DEF StartRecovery, StaysCalm, life
  <1>2. forkState'.oldPath = <<>> /\ forkState'.initiator = b
    BY <1>1 DEF NoFork
  <1>3. Calm' /\ ~raised' /\ UNCHANGED raised
    BY <1>1, CalmStays
  <1>4. Ranked' /\ Best!Keep(b)
    BY <1>1, <1>2, <1>3, StoreBesideCalm
  <1>5. mainchain'[Number[b]] # b
    BY StartRecoveryFacts
  <1>6. Working'
    BY <1>1, <1>2, <1>5 DEF Working, Steady, Departing
  <1> QED  BY <1>4, <1>3, <1>6 DEF UnbrokenInv

-----------------------------------------------------------------------------
(* The recovery                                                             *)

LEMMA CollectHashCalm ==
  ASSUME UnbrokenInv, CollectHash
  PROVE  UnbrokenInv' /\ UNCHANGED <<cumdiff, PromisedHead, raised>>
  <1>1. UNCHANGED stored /\ pc = "FindFork" /\ pc' = "FindFork" /\ StaysCalm
    BY DEF CollectHash, StaysCalm, life
  <1>2. Working'
    BY <1>1 DEF UnbrokenInv, Working, Steady, Departing, stored
  <1> QED  BY <1>1, <1>2, QuietStep

(* The walk leaves at least the initiator behind, and as nothing stands on  *)
(* the tip the fork point is below it.                                      *)
LEMMA RecordForkPointCalm ==
  ASSUME ChainInv, UnbrokenInv, RecordForkPoint
  PROVE  UnbrokenInv' /\ UNCHANGED <<cumdiff, PromisedHead, raised>>
  <1>1. /\ UNCHANGED <<blocks, cumdiff, mainchain, height>> /\ StaysCalm
        /\ pc = "FindFork" /\ pc' = "Rollback"
        /\ removed' = <<>>
        /\ forkState' = [forkState EXCEPT !.point = Cursor, !.newPath = hashPath]
        /\ mainchain[Number[Cursor]] = Cursor
    BY DEF RecordForkPoint, chain, StaysCalm, life
  <1>2. /\ forkState.oldPath = <<>>
        /\ hashPath \in Seq(NonGenesis)
        /\ ToSet(hashPath) \subseteq blocks
        /\ forkState \in [initiator : MaybeBlock, point : MaybeBlock,
                          newPath : Seq(Blocks), oldPath : Seq(Blocks)]
    BY <1>1 DEF ChainInv, Walking, RecordShape, PathsTyped, TypeOK
  <1>3. /\ forkState'.initiator = forkState.initiator
        /\ forkState'.point = Cursor
        /\ forkState'.newPath = hashPath
        /\ forkState'.oldPath = <<>>
    BY <1>1, <1>2
  <1>4. Calm' /\ ~raised' /\ UNCHANGED raised
    BY <1>1, CalmStays
  <1>5. PromisedHead' = PromisedHead /\ PromisedHead = StoredTip /\ StoredTip' = StoredTip
    BY <1>1, <1>2, <1>3 DEF PromisedHead, StoredTip
  <1>6. hashPath # <<>>
    BY <1>1, CursorFacts DEF UnbrokenInv, Working, Steady, Departing
  <1>7. Cursor # StoredTip
    <2>1. Len(hashPath) \in 1 .. Len(hashPath)
      BY <1>2, <1>6, PathFacts
    <2>2. hashPath[Len(hashPath)] \in blocks \ {Genesis}
      BY <1>2, <2>1, PathFacts DEF NonGenesis
    <2>3. Parent[hashPath[Len(hashPath)]] = Cursor
      BY <1>1, <1>6, CursorFacts
    <2> QED  BY <1>5, <2>2, <2>3 DEF UnbrokenInv, Ranked, HeadIsLeaf, IsLeaf
  <1>8. Ranked'
    BY <1>1, <1>3, <1>5, SameRanks DEF UnbrokenInv
  <1>9. Working'
    BY <1>1, <1>3, <1>5, <1>6, <1>7 DEF Working, Steady, Departing
  <1> QED  BY <1>1, <1>5, <1>8, <1>9, <1>4 DEF UnbrokenInv

(* The first block removed is the head, which stays where it is.            *)
LEMMA RollbackTipCalm ==
  ASSUME ChainInv, UnbrokenInv, RollbackTip
  PROVE  UnbrokenInv' /\ UNCHANGED <<cumdiff, PromisedHead, raised>>
  <1>1. /\ UNCHANGED <<blocks, cumdiff>> /\ StaysCalm
        /\ pc = "Rollback" /\ pc' = "Rollback"
        /\ removed' = Append(removed, lastBlock)
        /\ forkState' = [forkState EXCEPT !.oldPath = Append(@, lastBlock)]
        /\ ~AtForkPoint
    BY DEF RollbackTip, StaysCalm, life
  <1>2. /\ lastBlock = StoredTip /\ lastBlock \in NonGenesis
        /\ forkState.oldPath \in Seq(NonGenesis)
        /\ forkState \in [initiator : MaybeBlock, point : MaybeBlock,
                          newPath : Seq(Blocks), oldPath : Seq(Blocks)]
        /\ removed = forkState.oldPath /\ forkState.newPath # <<>>
    <2>1. lastBlock = StoredTip
      BY <1>1, InvFacts
    <2>2. lastBlock \in NonGenesis
      BY <1>1, AboveForkPoint, TreeFacts, InvFacts DEF TypeOK
    <2>3. removed = forkState.oldPath /\ forkState.newPath # <<>>
      BY <1>1 DEF UnbrokenInv, Working, Steady, Departing
    <2> QED  BY <2>1, <2>2, <2>3 DEF ChainInv, PathsTyped, TypeOK
  <1>3. /\ forkState'.initiator = forkState.initiator
        /\ forkState'.newPath = forkState.newPath
        /\ forkState'.oldPath = Append(forkState.oldPath, lastBlock)
    BY <1>1, <1>2
  <1>4. /\ forkState'.oldPath # <<>>
        /\ forkState'.oldPath[1] = IF forkState.oldPath = <<>> THEN lastBlock
                                                               ELSE forkState.oldPath[1]
    BY <1>2, <1>3, AppendFacts
  <1>5. Calm' /\ ~raised /\ ~raised' /\ UNCHANGED raised
    BY <1>1, CalmStays
  <1>6. PromisedHead' = PromisedHead
    BY <1>2, <1>4, <1>5 DEF PromisedHead
  <1>7. Ranked'
    BY <1>1, <1>3, <1>6, SameRanks DEF UnbrokenInv
  <1>8. Working'
    BY <1>1, <1>2, <1>3, <1>4 DEF Working, Steady, Departing
  <1> QED  BY <1>1, <1>6, <1>7, <1>8, <1>5 DEF UnbrokenInv

LEMMA EndRollbackCalm ==
  ASSUME ChainInv, UnbrokenInv, EndRollback
  PROVE  UnbrokenInv' /\ UNCHANGED <<cumdiff, PromisedHead, raised>>
  <1>1. UNCHANGED stored /\ StaysCalm /\ removed' = removed /\ pc = "Rollback"
    BY DEF EndRollback, StaysCalm, life
  <1>2. pc' = "AddChain" /\ StoredTip = forkState.point
    BY EndRollbackFacts
  <1>3. removed = forkState.oldPath /\ forkState.newPath # <<>> /\ forkState.oldPath # <<>>
    BY <1>1, <1>2 DEF UnbrokenInv, Working, Steady, Departing
  <1>4. Working'
    BY <1>1, <1>2, <1>3 DEF Working, Steady, Departing, stored
  <1> QED  BY <1>1, <1>2, <1>4, QuietStep

(* Steps that put blocks on the chain or take them off, between a complete  *)
(* rollback and the end of the recovery, do not move the head.              *)
LEMMA ChainStepCalm ==
  ASSUME UnbrokenInv, pc \in {"AddChain", "Undo", "Restore"}, pc' = pc, StaysCalm,
         UNCHANGED <<blocks, cumdiff, forkState, removed>>
  PROVE  UnbrokenInv' /\ UNCHANGED <<cumdiff, PromisedHead, raised>>
  <1>1. forkState.oldPath # <<>>
    BY DEF UnbrokenInv, Working, Steady, Departing
  <1>2. Calm' /\ ~raised /\ ~raised' /\ UNCHANGED raised
    BY CalmStays
  <1>3. PromisedHead' = PromisedHead
    BY <1>1, <1>2 DEF PromisedHead
  <1>4. Ranked'
    BY <1>3, SameRanks DEF UnbrokenInv
  <1>5. Working'
    BY <1>1 DEF UnbrokenInv, Working, Steady, Departing, Possible
  <1> QED  BY <1>3, <1>4, <1>5, <1>2 DEF UnbrokenInv

LEMMA AddFailsCalm ==
  ASSUME ChainInv, UnbrokenInv, AddFails
  PROVE  UnbrokenInv' /\ UNCHANGED <<cumdiff, PromisedHead, raised>>
  <1>1. /\ UNCHANGED stored /\ removed' = removed /\ StaysCalm
        /\ pc = "AddChain" /\ pc' = "Undo"
    BY DEF AddFails, locals, StaysCalm, life
  <1>2. ~Possible(forkState.initiator)
    BY AddFailsFacts DEF UnbrokenInv, Working
  <1>3. Working'
    <2>1. forkState' = forkState
      BY <1>1 DEF stored
    <2> QED  BY <1>1, <1>2, <2>1 DEF UnbrokenInv, Working, Steady, Departing, Possible
  <1> QED  BY <1>1, <1>3, QuietStep

LEMMA EndUndoCalm ==
  ASSUME ChainInv, RevertSound, UnbrokenInv, EndUndo
  PROVE  UnbrokenInv' /\ UNCHANGED <<cumdiff, PromisedHead, raised>>
  <1>1. /\ UNCHANGED stored /\ removed' = removed /\ StaysCalm
        /\ pc = "Undo"
        /\ pc' = "Restore"
    BY EndUndoKeeps DEF EndUndo, StaysCalm
  <1>2. Working'
    BY <1>1 DEF UnbrokenInv, Working, Steady, Departing, stored, Possible
  <1> QED  BY <1>1, <1>2, QuietStep

-----------------------------------------------------------------------------
(* The two ends of a recovery                                               *)

(* It succeeds: the tip, and now the head, is the initiator.                *)
LEMMA FinishRecoveryCalm ==
  ASSUME ChainInv, UnbrokenInv, FinishRecovery
  PROVE  /\ UnbrokenInv'
         /\ forkState.initiator \in NonGenesis
         /\ Best!Switch(forkState.initiator)
         /\ lastBlock' = forkState.initiator
  <1> DEFINE i == forkState.initiator
  <1>1. /\ UNCHANGED <<blocks, cumdiff, mainchain, height, lastBlock>> /\ StaysCalm
        /\ pc = "AddChain" /\ pc' = "Idle"
        /\ forkState' = NoFork
    BY DEF FinishRecovery, chain, StaysCalm
  <1>2. Recovering /\ StoredTip = i /\ lastBlock' = i
    BY FinishFacts DEF UnbrokenInv, Working
  <1>3. Calm' /\ ~raised /\ ~raised' /\ UNCHANGED raised
    BY <1>1, CalmStays
  <1>4. PromisedHead' = i
    BY <1>1, <1>2 DEF PromisedHead, NoFork, StoredTip
  <1>5. /\ i \in blocks /\ i \in Blocks /\ i # Genesis
        /\ IsLeaf(i)
        /\ cumdiff[PromisedHead] < cumdiff[i]
        /\ cumdiff[PromisedHead] \in Nat /\ cumdiff[i] \in Nat
    BY <1>2, HeadFacts DEF UnbrokenInv, Ranked, InitiatorLeads
  <1> HIDE DEF i
  <1>6. ~Recovering'
    BY <1>1 DEF Recovering, NoFork
  <1>7. HeadIsHeaviest'
    <2>1. ASSUME NEW x \in blocks, Possible(x)
          PROVE  cumdiff[x] <= cumdiff[i]
      <3>1. cumdiff[x] <= cumdiff[PromisedHead] \/ x = i
        BY <2>1 DEF UnbrokenInv, Ranked, HeadIsHeaviest, i
      <3>2. cumdiff[x] \in Nat
        BY HeadFacts
      <3> QED  BY <1>5, <3>1, <3>2
    <2> QED  BY <1>1, <1>4, <2>1 DEF HeadIsHeaviest, Possible
  <1>8. Weighed' /\ HeadIsLeaf' /\ InitiatorLeads'
    BY <1>1, <1>4, <1>5, <1>6 DEF UnbrokenInv, Ranked, Weighed, HeadIsLeaf, IsLeaf, InitiatorLeads
  <1>9. Best!Switch(i)
    <2>1. cumdiff[i] > 0
      BY <1>5, WeightFacts DEF UnbrokenInv, Ranked
    <2> QED  BY <1>1, <1>4, <1>5, <1>3, <2>1 DEF Best!Switch, Best!Known
  <1>10. UnbrokenInv'
    BY <1>1, <1>6, <1>7, <1>8, <1>3 DEF UnbrokenInv, Ranked, Working, Steady, Departing
  <1>11. lastBlock' = i /\ i \in NonGenesis
    BY <1>2, <1>5, TreeFacts DEF NonGenesis
  <1> QED  BY <1>9, <1>10, <1>11 DEF i

(* It fails: the tip is the head again, and the initiator is not a block    *)
(* that could have become it.                                               *)
LEMMA EndRestoreCalm ==
  ASSUME ChainInv, UnbrokenInv, EndRestore
  PROVE  /\ UnbrokenInv' /\ UNCHANGED <<cumdiff, PromisedHead, raised>>
         /\ lastBlock' = forkState.oldPath[1]
  <1>1. /\ UNCHANGED <<blocks, cumdiff, mainchain, height>> /\ StaysCalm
        /\ pc = "Restore" /\ pc' = "Idle"
    BY DEF EndRestore, chain, StaysCalm
  <1>2. forkState.oldPath # <<>> /\ ~Possible(forkState.initiator)
    BY <1>1 DEF UnbrokenInv, Working, Steady, Departing
  <1>3. /\ forkState' = NoFork
        /\ StoredTip = forkState.oldPath[1] /\ lastBlock' = forkState.oldPath[1]
    BY <1>2, EndRestoreFacts DEF UnbrokenInv, Working
  <1>4. Calm' /\ ~raised /\ ~raised' /\ UNCHANGED raised
    BY <1>1, CalmStays
  <1>5. PromisedHead' = PromisedHead /\ ~Recovering'
    BY <1>1, <1>2, <1>3, <1>4 DEF PromisedHead, NoFork, StoredTip, Recovering
  <1>6. Weighed' /\ HeadIsLeaf' /\ InitiatorLeads'
    BY <1>1, <1>5 DEF UnbrokenInv, Ranked, Weighed, HeadIsLeaf, IsLeaf, InitiatorLeads
  <1>7. HeadIsHeaviest'
    BY <1>1, <1>2, <1>5 DEF UnbrokenInv, Ranked, HeadIsHeaviest, Possible
  <1>8. UnbrokenInv'
    BY <1>1, <1>5, <1>6, <1>7, <1>4 DEF UnbrokenInv, Ranked, Working, Steady, Departing
  <1> QED  BY <1>1, <1>3, <1>5, <1>8, <1>4

-----------------------------------------------------------------------------
(* Every step                                                               *)

LEMMA InitCalm ==
  ASSUME Init
  PROVE  CalmInv /\ Best!Init
  <1>1. /\ 0 \in Heights /\ Number[Genesis] = 0 /\ Genesis \in Blocks
        /\ Difficulty[Genesis] \in Nat
    BY TreeFacts, TreeAssumption, BlockAssumption
  <1>2. /\ blocks = {Genesis} /\ forkState = NoFork /\ pc = "Idle" /\ crashes = 0
        /\ ~loading /\ ~raised /\ raised = FALSE
        /\ cumdiff = [b \in Blocks |-> IF b = Genesis THEN Difficulty[Genesis] ELSE 0]
        /\ mainchain[height] = Genesis
    BY <1>1 DEF Init
  <1>3. PromisedHead = Genesis /\ ~Recovering
    BY <1>2 DEF PromisedHead, StoredTip, Recovering, NoFork
  <1>4. Weighed /\ cumdiff[Genesis] \in Nat
    BY <1>1, <1>2 DEF Weighed
  <1>5. HeadIsLeaf /\ InitiatorLeads
    BY <1>2, <1>3 DEF HeadIsLeaf, IsLeaf, InitiatorLeads
  <1>6. HeadIsHeaviest
    BY <1>2, <1>3, <1>4 DEF HeadIsHeaviest
  <1>7. Best!Init
    BY <1>2, <1>3 DEF Best!Init
  <1>8. Calm /\ Steady /\ Departing
    BY <1>2, <1>3 DEF Calm, Steady, Departing
  <1> QED
    BY <1>2, <1>4, <1>5, <1>6, <1>7, <1>8 DEF CalmInv, SettledInv, UnbrokenInv, Ranked, Working

(* Until a recovery raises, a step is one of BestChain or none.             *)
HeadStep == UnbrokenInv' /\ [Best!Next]_(Best!vars)

LEMMA NextCalm ==
  ASSUME RevertSound, MaxCrashes = 0, ChainInv, UnbrokenInv, [Next]_vars, ~RecoveryRaises
  PROVE  HeadStep
  <1>1. ASSUME UNCHANGED <<cumdiff, PromisedHead, raised>>
        PROVE  [Best!Next]_(Best!vars)
    BY <1>1 DEF Best!vars
  <1>2. ASSUME NEW b \in Blocks \ {Genesis}, AddBlock(b)
        PROVE  HeadStep
    <2>1. b \in NonGenesis
      BY DEF NonGenesis
    <2>2. CASE RefuseBlock(b)
      BY <1>1, <2>2, RefuseBlockCalm DEF HeadStep
    <2>3. CASE ExtendTip(b)
      <3>1. UnbrokenInv' /\ Best!Extend(b)
        BY <2>1, <2>3, ExtendTipCalm
      <3> QED  BY <1>2, <3>1 DEF HeadStep, Best!Next
    <2>4. CASE StoreSideBlock(b) \/ StartRecovery(b)
      <3>1. UnbrokenInv' /\ Best!Keep(b)
        BY <2>1, <2>4, StoreSideBlockCalm, StartRecoveryCalm
      <3> QED  BY <1>2, <3>1 DEF HeadStep, Best!Next
    <2> QED  BY <1>2, <2>2, <2>3, <2>4 DEF AddBlock
  <1>3. ASSUME NEW t \in Txs, AddTransaction(t)
        PROVE  HeadStep
    BY <1>1, <1>3, AddTransactionCalm DEF HeadStep
  <1>4. CASE RecoveryStep
    <2>1. CASE CollectHash \/ RecordForkPoint \/ RollbackTip
      BY <1>1, <2>1, CollectHashCalm, RecordForkPointCalm, RollbackTipCalm DEF HeadStep
    <2>2. CASE RollbackFails
      BY <2>2, RollbackNeverFails
    <2>3. CASE EndRollback \/ AddFails \/ EndUndo \/ EndRestore
      BY <1>1, <2>3, EndRollbackCalm, AddFailsCalm, EndUndoCalm, EndRestoreCalm DEF HeadStep
    <2>4. CASE AddNext \/ UndoTip \/ RestoreNext
      <3>1. /\ pc \in {"AddChain", "Undo", "Restore"} /\ pc' = pc /\ StaysCalm
            /\ UNCHANGED <<blocks, cumdiff, forkState, removed>>
        BY <2>4 DEF AddNext, UndoTip, RestoreNext, locals, StaysCalm, life
      <3> QED  BY <1>1, <3>1, ChainStepCalm DEF HeadStep
    <2>5. CASE FinishRecovery
      <3>1. /\ UnbrokenInv'
            /\ forkState.initiator \in Blocks \ {Genesis}
            /\ Best!Switch(forkState.initiator)
        BY <2>5, FinishRecoveryCalm DEF NonGenesis
      <3> QED  BY <3>1 DEF HeadStep, Best!Next
    <2> QED  BY <1>4, <2>1, <2>2, <2>3, <2>4, <2>5 DEF RecoveryStep
  <1>5. CASE Crash
    BY <1>5 DEF Crash, UnbrokenInv, Calm
  <1>6. CASE Restart
    BY <1>6
    DEF Restart, Load, LoadAndSearch, LoadAndRollback, LoadAndAddChain, LoadAstray,
        UnbrokenInv, Calm
  <1>7. CASE UNCHANGED vars
    <2>1. UNCHANGED <<stored, forkState, removed, pc, life>>
      BY <1>7 DEF vars, memory, stored, life
    <2>2. StaysCalm /\ pc' \notin {"Down", "Astray"}
      BY <2>1 DEF StaysCalm, life, UnbrokenInv, Calm
    <2>3. Working'
      BY <2>1
      DEF UnbrokenInv, Working, Steady, Departing, Possible, Recovering, StoredTip, stored, life
    <2> QED  BY <1>1, <2>1, <2>2, <2>3, QuietStep DEF HeadStep
  <1> QED  BY <1>2, <1>3, <1>4, <1>5, <1>6, <1>7 DEF Next

LEMMA CalmKeeps ==
  ASSUME RevertSound, MaxCrashes = 0, ChainInv, CalmInv, [Next]_vars
  PROVE  CalmInv' /\ SettledStep
  <1>1. SettledInv' /\ SettledStep
    BY NextSettles DEF CalmInv, SettledStep
  <1>2. ASSUME ~raised'
        PROVE  UnbrokenInv'
    <2>1. ~raised /\ ~RecoveryRaises
      BY <1>1, <1>2 DEF SettledStep, RecoveryRaises
    <2> QED  BY <2>1, NextCalm DEF CalmInv, HeadStep
  <1> QED  BY <1>1, <1>2 DEF CalmInv

(* The head is a stored block, whatever has happened.                       *)
HeadKnown == PromisedHead \in Blocks /\ cumdiff[PromisedHead] > 0

LEMMA HeadIsKnown ==
  ASSUME ChainInv, CalmInv
  PROVE  HeadKnown
  <1>1. PromisedHead \in blocks /\ blocks \subseteq Blocks
    BY HeadFacts
  <1> QED  BY <1>1, WeightFacts DEF HeadKnown, CalmInv, SettledInv

LEMMA HeadSteps ==
  ASSUME RevertSound, MaxCrashes = 0, ChainInv, CalmInv, [Next]_vars, HeadKnown'
  PROVE  [Best!Next]_(Best!vars)
  <1>1. CASE ~raised /\ ~RecoveryRaises
    BY <1>1, NextCalm DEF CalmInv, HeadStep
  <1>2. CASE raised \/ RecoveryRaises
    <2>1. raised' /\ Learns
      BY <1>2, CalmKeeps DEF SettledStep, RecoveryRaises
    <2>2. Best!Wander
      BY <2>1 DEF Best!Wander, HeadKnown, Learns
    <2> QED  BY <2>2 DEF Best!Next
  <1> QED  BY <1>1, <1>2

-----------------------------------------------------------------------------
(* The transactions of removed blocks                                       *)

(* The pool never has to turn a transaction away.                           *)
PoolSuffices == IsFiniteSet(Txs) /\ Cardinality(Txs) <= PoolSize

(* A pool that is full then holds every transaction.                        *)
LEMMA FullPool ==
  ASSUME PoolSuffices, NEW p \in SUBSET Txs, Cardinality(p) >= PoolSize
  PROVE  p = Txs
  <1>1. IsFiniteSet(p) /\ Cardinality(p) <= Cardinality(Txs)
        /\ (Cardinality(p) = Cardinality(Txs) => p = Txs)
    BY FS_Subset DEF PoolSuffices
  <1>2. Cardinality(p) \in Nat /\ Cardinality(Txs) \in Nat
    BY <1>1, FS_CardinalityType DEF PoolSuffices
  <1> QED  BY <1>1, <1>2, BoundAssumption DEF PoolSuffices

LEMMA AllReturn ==
  ASSUME PoolSuffices, ChainInv, NEW b \in Blocks, ReturnToPool(b)
  PROVE  pool' = pool \cup TxsOf[b]
  <1>1. PICK back \in SUBSET TxsOf[b] :
          /\ pool' = pool \cup back
          /\ back = TxsOf[b] \/ Cardinality(pool \cup back) >= PoolSize
    BY DEF ReturnToPool
  <1>2. pool \subseteq Txs /\ TxsOf[b] \subseteq Txs
    BY TxAssumption DEF ChainInv, TypeOK
  <1>3. CASE Cardinality(pool \cup back) >= PoolSize
    <2>1. pool \cup back = Txs
      BY <1>2, <1>3, FullPool
    <2> QED  BY <1>1, <1>2, <2>1
  <1> QED  BY <1>1, <1>3

LEMMA RollbackTipReturns ==
  ASSUME PoolSuffices, ChainInv, Returned, RollbackTip
  PROVE  Returned'
  <1> DEFINE old == forkState.oldPath
  <1>1. /\ pc = "Rollback" /\ pc' = "Rollback" /\ ~AtForkPoint
        /\ ReturnToPool(lastBlock)
        /\ forkState' = [forkState EXCEPT !.oldPath = Append(@, lastBlock)]
    BY DEF RollbackTip, RevertTip
  <1>2. lastBlock \in NonGenesis /\ lastBlock \in Blocks /\ old \in Seq(NonGenesis)
    BY <1>1, AboveForkPoint, TreeFacts DEF ChainInv, PathsTyped, TypeOK
  <1>3. old' = Append(old, lastBlock)
    BY <1>1 DEF ChainInv, TypeOK
  <1> HIDE DEF old
  <1>4. pool' = pool \cup TxsOf[lastBlock]
    BY <1>1, <1>2, AllReturn
  <1>5. ASSUME NEW i \in DOMAIN old'
        PROVE  TxsOf[old'[i]] \subseteq pool'
    <2>1. /\ i \in 1 .. Len(old) + 1 /\ Len(old) \in Nat
          /\ DOMAIN old = 1 .. Len(old)
          /\ \A j \in 1 .. Len(old) : old'[j] = old[j]
          /\ old'[Len(old) + 1] = lastBlock
      BY <1>2, <1>3
    <2>2. CASE i = Len(old) + 1
      BY <1>4, <2>1, <2>2
    <2>3. CASE i # Len(old) + 1
      <3>1. i \in DOMAIN old /\ old'[i] = old[i]
        BY <2>1, <2>3
      <3>2. TxsOf[old[i]] \subseteq pool
        BY <1>1, <3>1 DEF Returned, Kept, old
      <3> QED  BY <1>4, <3>1, <3>2
    <2> QED  BY <2>2, <2>3
  <1> QED  BY <1>1, <1>5 DEF Returned, Kept, old

(* A block added takes from the pool only what is spent then.               *)
LEMMA LeavesSpent ==
  ASSUME Returned, pc \in {"AddChain", "Idle"}, pc' = pc, forkState' = forkState,
         NEW b, NEW mayLeave, mayLeave \subseteq Spent(ledger \cup {b}),
         ledger' = ledger \cup {b}, LeavePool(b, mayLeave)
  PROVE  Returned'
  <1>1. Spent(ledger') = Spent(ledger) \cup Spends[b]
    BY DEF Spent
  <1>2. pool \subseteq pool' \cup Spent(ledger')
    BY DEF LeavePool
  <1>3. pool \cup Spent(ledger) \subseteq pool' \cup Spent(ledger')
    BY <1>1, <1>2
  <1> QED  BY <1>3 DEF Returned, Kept

LEMMA NextReturns ==
  ASSUME RevertSound, PoolSuffices, MaxCrashes = 0, ChainInv, CalmInv, Returned, [Next]_vars
  PROVE  Returned'
  <1>1. ASSUME pc' \notin {"Rollback", "AddChain", "Idle"}
        PROVE  Returned'
    BY <1>1 DEF Returned
  <1>2. ASSUME pc' = pc, UNCHANGED <<forkState, pool, ledger>>
        PROVE  Returned'
    BY <1>2 DEF Returned, Kept, Spent
  <1>3. ASSUME NEW b \in Blocks \ {Genesis}, AddBlock(b)
        PROVE  Returned'
    <2>1. CASE RefuseBlock(b) \/ StoreSideBlock(b)
      BY <1>2, <2>1 DEF RefuseBlock, StoreSideBlock, stored, chain
    <2>2. CASE ExtendTip(b)
      BY <2>2, LeavesSpent DEF ExtendTip, ApplyBlock
    <2>3. CASE StartRecovery(b)
      BY <1>1, <2>3 DEF StartRecovery
    <2> QED  BY <1>3, <2>1, <2>2, <2>3 DEF AddBlock
  <1>4. ASSUME NEW t \in Txs, AddTransaction(t)
        PROVE  Returned'
    <2>1. pc = "Idle" /\ pc' = "Idle" /\ UNCHANGED <<forkState, ledger>> /\ pool \subseteq pool'
      BY <1>4 DEF AddTransaction, stored
    <2> QED  BY <2>1 DEF Returned, Kept, Spent
  <1>5. CASE RecoveryStep
    <2>1. CASE CollectHash
      BY <1>1, <2>1 DEF CollectHash
    <2>2. CASE RecordForkPoint
      <3>1. pc' = "Rollback" /\ forkState'.oldPath = <<>>
        BY <2>2 DEF RecordForkPoint, ChainInv, Walking, RecordShape, TypeOK
      <3> QED  BY <3>1 DEF Returned, Kept
    <2>3. CASE RollbackTip
      BY <2>3, RollbackTipReturns
    <2>4. CASE RollbackFails
      BY <2>4, RollbackNeverFails
    <2>5. CASE EndRollback
      <3>1. pc = "Rollback" /\ pc' = "AddChain" /\ UNCHANGED <<forkState, pool, ledger>>
        BY <2>5, EndRollbackFacts DEF EndRollback, stored
      <3>2. Kept(pool)
        BY <3>1 DEF Returned
      <3> QED  BY <3>1, <3>2 DEF Returned, Kept, Spent
    <2>6. CASE AddNext
      <3> DEFINE b == forkState.newPath[next]
      <3>1. /\ pc = "AddChain" /\ pc' = pc /\ forkState' = forkState
            /\ ledger' = ledger \cup {b}
            /\ LeavePool(b, Spends[b])
        BY <2>6 DEF AddNext, ApplyBlock
      <3>2. Spends[b] \subseteq Spent(ledger \cup {b})
        BY DEF Spent
      <3> HIDE DEF b
      <3> QED  BY <3>1, <3>2, LeavesSpent
    <2>7. CASE AddFails \/ UndoTip \/ EndUndo \/ RestoreNext
      BY <1>1, <2>7, EndUndoKeeps DEF AddFails, UndoTip, RestoreNext
    <2>8. CASE FinishRecovery \/ EndRestore
      <3>1. pc' = "Idle" /\ forkState' = NoFork
        BY <2>8, EndRestoreFacts DEF FinishRecovery, EndRestore, CalmInv, SettledInv
      <3> QED  BY <3>1 DEF Returned, Kept, NoFork
    <2>9. CASE RecoveryRaises
      <3>1. pc = "AddChain" /\ pc' = "Idle" /\ UNCHANGED <<forkState, pool, ledger>>
        BY <2>9, RaisingFacts DEF RecoveryRaises, CalmInv, SettledInv, Calm, stored
      <3> QED  BY <3>1 DEF Returned, Kept, Spent
    <2> QED
      BY <1>5, <2>1, <2>2, <2>3, <2>4, <2>5, <2>6, <2>7, <2>8, <2>9 DEF RecoveryStep
  <1>6. CASE Crash
    BY <1>6 DEF Crash, CalmInv, SettledInv, Calm
  <1>7. CASE Restart
    BY <1>7
    DEF Restart, Load, LoadAndSearch, LoadAndRollback, LoadAndAddChain, LoadAstray,
        CalmInv, SettledInv, Calm
  <1>8. CASE UNCHANGED vars
    BY <1>2, <1>8 DEF vars, memory, stored
  <1> QED  BY <1>3, <1>4, <1>5, <1>6, <1>7, <1>8 DEF Next

-----------------------------------------------------------------------------
(* The theorems                                                             *)

(* In a process that does not end the stored difficulties add up, and what  *)
(* a recovery holds in its locals is what its record holds.  Until one      *)
(* raises, nothing stands on the head, which is the heaviest block it can   *)
(* be.                                                                      *)
THEOREM CalmInvariant ==
  ASSUME RevertSound, MaxCrashes = 0
  PROVE  Spec => []CalmInv
  <1>1. Init => CalmInv
    BY InitCalm
  <1>2. ChainInv /\ CalmInv /\ [Next]_vars => CalmInv'
    BY CalmKeeps
  <1> QED  BY <1>1, <1>2, ChainInvariant, PTL DEF Spec

(* Seen from outside, the head of the chain moves in one step and only to a *)
(* heavier block: a fork recovery, and one that fails, is atomic.  An       *)
(* exception is seen as a broken promise; the head is a stored block still. *)
THEOREM ImplementsBestChain ==
  ASSUME RevertSound, MaxCrashes = 0
  PROVE  Spec => RefinesBestChain
  <1>1. Init => Best!Init
    BY InitCalm
  <1>2. ChainInv /\ CalmInv => HeadKnown
    BY HeadIsKnown
  <1>3. ChainInv /\ CalmInv /\ [Next]_vars /\ HeadKnown' => [Best!Next]_(Best!vars)
    BY HeadSteps
  <1> QED
    BY <1>1, <1>2, <1>3, ChainInvariant, CalmInvariant, PTL
    DEF Spec, RefinesBestChain, Best!Spec

(* An idle node none of whose recoveries has raised stands on the heaviest  *)
(* of the branches it could follow.                                         *)
THEOREM TipStaysHeaviest ==
  ASSUME RevertSound, MaxCrashes = 0
  PROVE  Spec => []TipIsHeaviest
  <1>1. ChainInv /\ CalmInv => TipIsHeaviest
    <2> SUFFICES ASSUME ChainInv, CalmInv, pc = "Idle", ~raised, NEW b \in blocks, Possible(b)
                 PROVE  cumdiff[b] <= cumdiff[lastBlock]
      BY DEF TipIsHeaviest, Possible
    <2>1. UnbrokenInv
      BY DEF CalmInv
    <2>2. ~Recovering /\ lastBlock = PromisedHead
      BY <2>1, IdleFacts
    <2> QED  BY <2>1, <2>2 DEF UnbrokenInv, Ranked, HeadIsHeaviest
  <1> QED  BY <1>1, ChainInvariant, CalmInvariant, PTL

(* A recovery that had removed blocks and returns has reached its initiator,*)
(* or the tip is again the one it found; one that raises leaves the chain   *)
(* and its record alone.                                                    *)
THEOREM OldChainIsRestored ==
  ASSUME RevertSound, MaxCrashes = 0
  PROVE  Spec => RestoresOldChain
  <1>1. ChainInv /\ CalmInv /\ [Next]_vars => [EndsWell]_vars
    BY CalmKeeps DEF SettledStep
  <1>2. EndsWell =>
          (/\ Recovering
           /\ forkState.oldPath # <<>>
           /\ \/ forkState' = NoFork
              \/ pc \notin {"Idle", "Down"} /\ pc' = "Idle"
           => \/ lastBlock' \in {forkState.initiator, forkState.oldPath[1]}
              \/ Raising /\ raised' /\ UNCHANGED <<chain, forkState>>)
    BY DEF EndsWell
  <1> QED
    BY <1>1, <1>2, ChainInvariant, CalmInvariant, PTL DEF Spec, RestoresOldChain

(* Where the pool has room for them, the transactions of the blocks taken   *)
(* off are in it again, or spent by the chain.                              *)
THEOREM RemovedTxsStayKept ==
  ASSUME RevertSound, PoolSuffices, MaxCrashes = 0
  PROVE  Spec => []RemovedTxsKept
  <1>1. Init => Returned
    BY DEF Init, Returned, Kept, NoFork
  <1>2. ChainInv /\ CalmInv /\ Returned /\ [Next]_vars => Returned'
    BY NextReturns
  <1>3. ChainInv /\ CalmInv /\ Returned => RemovedTxsKept
    <2> SUFFICES ASSUME ChainInv, CalmInv, Returned,
                        pc \notin {"Down", "Astray", "Undo", "Restore"},
                        NEW i \in DOMAIN forkState.oldPath
                 PROVE  TxsOf[forkState.oldPath[i]] \subseteq pool \cup Spent(ledger)
      BY DEF RemovedTxsKept
    <2>1. forkState.oldPath # <<>>
      OBVIOUS
    <2>2. pc # "FindFork"
      BY <2>1 DEF ChainInv, Walking, RecordShape
    <2>3. pc \in {"Rollback", "AddChain", "Idle"}
      BY <2>2 DEF ChainInv, TypeOK, Steps
    <2> QED  BY <2>3 DEF Returned, Kept
  <1> QED  BY <1>1, <1>2, <1>3, ChainInvariant, CalmInvariant, PTL DEF Spec

=============================================================================
