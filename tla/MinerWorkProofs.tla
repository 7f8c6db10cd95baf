-------------------------- MODULE MinerWorkProofs ---------------------------
(***************************************************************************)
(* Proofs about the search for a magic number, on top of the invariant of  *)
(* MinerProofs.  Together they are the safety half of FullBlockResolved:   *)
(* every round of mining raises magic, and magic stays below the number    *)
(* that ends the search.                                                   *)
(***************************************************************************)
EXTENDS MinerLinkProofs

\* MagicBelowFirst, for one node.
Search(n) ==
  /\ quotafull[n] => magic[n] < FirstMagic[calculate_merkle_root(new_block[n])]
  /\ ~quotafull[n] /\ ~Abandoning(n) => magic[n] = 0

\* The third invariant, inductive where Inv holds.
SearchInv == \A n \in Node : Search(n)

-----------------------------------------------------------------------------
(* The steps. *)

\* A step that leaves a node's working block alone keeps its search, unless it
\* takes an abandoned block into use.
LEMMA SearchKept ==
  ASSUME NEW m \in Node, Search(m), magic'[m] = magic[m],
         quotafull'[m] = quotafull[m], new_block'[m] = new_block[m],
         Abandoning(m) => Abandoning(m)'
  PROVE  Search(m)'
BY DEF Search, calculate_merkle_root

\* A vote in the first slot has a prefix, and a magic number for it.
LEMMA MerkleType ==
  ASSUME NEW txs \in Seq(Tx), txs # <<>>
  PROVE  FirstMagic[calculate_merkle_root(txs)] \in Nat \ {0}
<1>1. txs[1] \in Tx OBVIOUS
<1> QED BY <1>1, TxAssumption, PrefixAssumption DEF calculate_merkle_root

\* Steps of a node between points at which its working block is in use, or at
\* which it is abandoned, and steps to the end.
LEMMA QuietWork ==
  ASSUME Inv, NEW n \in Node,
         \/ \E t \in Tx : CastVote(n, t)
         \/ \E msg \in Foreign : ForeignBlock(n, msg)
         \/ Send(n) \/ RepairKnown(n) \/ RepairCut(n) \/ DropTransaction(n)
         \/ NoBlock(n) \/ CheckCrashes(n) \/ BlockInvalid(n) \/ BlockBehind(n)
         \/ AheadTooFar(n) \/ RepairUnknown(n) \/ SpinAsk(n) \/ SpinAbort(n)
         \/ QuotaAlreadyFull(n) \/ QuotaNotFull(n) \/ MerkleAssertFails(n)
  PROVE  /\ UNCHANGED <<new_block, magic, quotafull>>
         /\ \A m \in Node : Abandoning(m) => Abandoning(m)'
         /\ \A m \in Node : quotafull[m] => ~(pc[m] = "mine" /\ pc'[m] = "top")
<1> USE DEF bcvars, wbvars, sendvars, envvars
<1>0. /\ TypeOK /\ pc \in [Node -> Point]
      /\ next \in [Node -> {"top", "requeue", "mine"}]
  BY DEF Inv, TypeOK
<1>1. CASE \/ \E t \in Tx : CastVote(n, t)
           \/ \E msg \in Foreign : ForeignBlock(n, msg)
           \/ RepairCut(n)
  BY <1>1 DEF CastVote, ForeignBlock, RepairCut, Abandoning
<1>2. CASE Send(n)
  <2>1. /\ pc[n] = "send" /\ UNCHANGED <<new_block, magic, quotafull>>
        /\ \/ UNCHANGED <<pc, next>>
           \/ /\ pc' = [pc EXCEPT ![n] = next[n]]
              /\ next' = [next EXCEPT ![n] = "top"]
    BY <1>2 DEF Send, Goto
  <2> QED BY <1>0, <2>1 DEF Abandoning
<1>3. CASE RepairKnown(n) \/ DropTransaction(n)
  <2>1. /\ UNCHANGED <<new_block, magic, quotafull, next>>
        /\ \/ pc[n] = "top" /\ pc' = [pc EXCEPT ![n] = "repair"]
           \/ pc[n] = "txn" /\ pc' = [pc EXCEPT ![n] = "top"]
    BY <1>3 DEF RepairKnown, BlockAhead, TakeBlock, DropTransaction,
                TakeTransaction, Goto
  <2> QED BY <1>0, <2>1 DEF Abandoning
<1>4. CASE SpinAbort(n) \/ SpinAsk(n)
  <2>1. PICK m \in Node : \E from : Move(m, from, "dead") BY <1>0, <1>4, Moves
  <2> QED BY <1>0, <2>1 DEF Move, Abandoning
<1>5. CASE \/ NoBlock(n) \/ CheckCrashes(n) \/ BlockInvalid(n) \/ BlockBehind(n)
           \/ AheadTooFar(n) \/ RepairUnknown(n) \/ QuotaAlreadyFull(n)
           \/ QuotaNotFull(n) \/ MerkleAssertFails(n)
  <2>1. PICK to \in {"top", "txn", "mine", "spin", "dead"} :
          Move(n, {"top", "txn", "mine"}, to)
    BY <1>0, <1>5, Moves
  <2>2. quotafull[n] /\ pc[n] = "mine" => pc'[n] # "top"
    BY <1>0, <1>5 DEF NoBlock, CheckCrashes, BlockInvalid, BlockBehind,
         AheadTooFar, RepairUnknown, BlockAhead, TakeBlock, QuotaAlreadyFull,
         QuotaNotFull, MerkleAssertFails, Goto
  <2> QED BY <1>0, <2>1, <2>2 DEF Move, Abandoning
<1> QED BY <1>1, <1>2, <1>3, <1>4, <1>5

\* A round without a hit goes past numbers that will not do, and stays below
\* the first that will.
LEMMA MissSearch ==
  ASSUME Inv, SearchInv, NEW n \in Node, MineMiss(n)
  PROVE  /\ SearchInv'
         /\ UNCHANGED <<new_block, quotafull>>
         /\ magic' = [magic EXCEPT ![n] = @ + NUM_MAGIC_TO_TRY]
<1> DEFINE first == FirstMagic[calculate_merkle_root(new_block[n])]
<1>1. /\ magic \in [Node -> Nat] /\ pc \in [Node -> Point]
      /\ new_block[n] \in Seq(Tx) /\ Work(n)
  BY DEF Inv, TypeOK
<1>2. /\ pc[n] = "mine" /\ quotafull[n] /\ Hits(n) = {}
      /\ magic' = [magic EXCEPT ![n] = @ + NUM_MAGIC_TO_TRY]
      /\ pc' = [pc EXCEPT ![n] = "top"]
      /\ UNCHANGED <<new_block, quotafull, next>>
  BY DEF MineMiss, CanMine, Goto, sendvars
<1>3. new_block[n] # <<>>
  BY <1>1, <1>2, SizeAssumption DEF Work, Abandoning
<1>4. first \in Nat /\ magic[n] \in Nat /\ magic[n] < first
  BY <1>1, <1>2, <1>3, MerkleType DEF SearchInv, Search
<1>5. first \notin magic[n] + 1..magic[n] + NUM_MAGIC_TO_TRY
  BY <1>2, <1>4 DEF Hits, enough_leading_zeros, calculate_finhash
<1>6. magic[n] + NUM_MAGIC_TO_TRY < first BY <1>4, <1>5, SizeAssumption
<1>7. Search(n)' BY <1>1, <1>2, <1>6 DEF Search, calculate_merkle_root
<1>8. ASSUME NEW m \in Node \ {n} PROVE Search(m)'
  BY <1>1, <1>2, SearchKept DEF SearchInv, Abandoning
<1> QED BY <1>2, <1>7, <1>8 DEF SearchInv

\* The steps that end a search or give up the block that it was for: no block
\* is full afterwards, and the next search starts at 0.
LEMMA EndSearch ==
  ASSUME Inv, SearchInv, NEW n \in Node,
         \/ BlockOK(n) \/ RepairDone(n) \/ Requeue(n) \/ RequeueDone(n)
         \/ MineHit(n)
  PROVE  /\ SearchInv' /\ ~quotafull'[n]
         /\ \A m \in Node \ {n} : /\ new_block'[m] = new_block[m]
                                  /\ magic'[m] = magic[m] /\ pc'[m] = pc[m]
<1> USE DEF bcvars, wbvars, sendvars, envvars
<1>0. /\ TypeOK /\ Work(n) /\ pc \in [Node -> Point]
      /\ magic \in [Node -> Nat] /\ new_block \in [Node -> Seq(Tx)]
      /\ quotafull \in [Node -> BOOLEAN]
      /\ next \in [Node -> {"top", "requeue", "mine"}]
  BY DEF Inv, TypeOK
<1>1. /\ ~quotafull'[n]
      /\ magic'[n] = 0 \/ Abandoning(n)'
      /\ \A m \in Node \ {n} : /\ new_block'[m] = new_block[m]
                               /\ magic'[m] = magic[m] /\ pc'[m] = pc[m]
                               /\ quotafull'[m] = quotafull[m]
                               /\ next'[m] = next[m]
  <2>1. ASSUME NEW b \in Block, StartBroadcast(n, b, "requeue")
        PROVE  /\ Abandoning(n)'
               /\ \A m \in Node \ {n} : pc'[m] = pc[m] /\ next'[m] = next[m]
    <3>1. /\ pc'[n] = "requeue" \/ (pc'[n] = "send" /\ next'[n] = "requeue")
          /\ \A m \in Node \ {n} : pc'[m] = pc[m] /\ next'[m] = next[m]
      BY <1>0, <2>1, StartBroadcastType
    <3> QED BY <3>1 DEF Abandoning
  <2>2. CASE BlockOK(n)
    <3>1. /\ AssertAndBroadcast(n, get_head_block(chain'[n]), "requeue")
          /\ quotafull' = [quotafull EXCEPT ![n] = FALSE]
          /\ UNCHANGED <<new_block, magic>>
          /\ get_head_block(chain'[n]) \in Block
      BY <1>0, <2>2, TakeBlockType, AddBlockType DEF BlockOK
    <3>2. CASE Goto(n, "dead") /\ UNCHANGED sendvars
      BY <1>0, <3>1, <3>2 DEF Goto, Abandoning
    <3>3. CASE StartBroadcast(n, get_head_block(chain'[n]), "requeue")
      BY <1>0, <2>1, <3>1, <3>3
    <3> QED BY <3>1, <3>2, <3>3 DEF AssertAndBroadcast
  <2>3. CASE RepairDone(n)
    <3>1. /\ StartBroadcast(n, out[n], "requeue") /\ out[n] \in Block
          /\ quotafull' = [quotafull EXCEPT ![n] = FALSE]
          /\ UNCHANGED <<new_block, magic>>
      BY <1>0, <2>3 DEF RepairDone, TypeOK
    <3> QED BY <1>0, <2>1, <3>1
  <2>4. CASE Requeue(n)
    BY <1>0, <2>4 DEF Requeue, Work, Abandoning
  <2>5. CASE RequeueDone(n)
    BY <1>0, <2>5 DEF RequeueDone, Work, Abandoning, Goto
  <2>6. CASE MineHit(n)
    <3>1. PICK k \in Hits(n) : add_block(n, MinedBlock(n, k))
      BY <2>6 DEF MineHit
    <3>2. MinedBlock(n, k) \in Block BY <1>0, <2>6, MinedBlockType DEF MineHit
    <3>3. get_head_block(chain'[n]) \in Block BY <1>0, <3>1, <3>2, AddBlockType
    <3>4. AssertAndBroadcast(n, get_head_block(chain'[n]), "top")
      BY <2>6 DEF MineHit
    <3>5. \A m \in Node \ {n} : pc'[m] = pc[m] /\ next'[m] = next[m]
      BY <1>0, <3>3, <3>4, AssertAndBroadcastType
    <3>6. /\ quotafull' = [quotafull EXCEPT ![n] = FALSE]
          /\ new_block' = [new_block EXCEPT ![n] = <<>>]
          /\ magic' = [magic EXCEPT ![n] = 0]
      BY <2>6 DEF MineHit
    <3> QED BY <1>0, <3>5, <3>6
  <2> QED BY <2>2, <2>3, <2>4, <2>5, <2>6
<1>2. Search(n)' BY <1>1 DEF Search
<1>3. ASSUME NEW m \in Node \ {n} PROVE Search(m)'
  BY <1>1, SearchKept DEF SearchInv, Abandoning
<1> QED BY <1>1, <1>2, <1>3 DEF SearchInv

\* A vote that fills the working block starts the search below every number
\* that will do.
LEMMA StartSearch ==
  ASSUME Inv, SearchInv, NEW n \in Node, AddTransaction(n)
  PROVE  /\ SearchInv' /\ ~quotafull[n]
         /\ \A m \in Node \ {n} : /\ new_block'[m] = new_block[m]
                                  /\ magic'[m] = magic[m] /\ pc'[m] = pc[m]
<1>0. /\ TypeOK /\ quotafull \in [Node -> BOOLEAN]
      /\ magic \in [Node -> Nat] /\ new_block \in [Node -> Seq(Tx)]
  BY DEF Inv, TypeOK
<1>1. /\ back(tq[n]) \in Tx /\ pc[n] = "txn" /\ ~quotafull[n]
      /\ new_block' = [new_block EXCEPT ![n] = Append(@, back(tq[n]))]
      /\ quotafull' = [quotafull EXCEPT ![n] = FillsBlock(n)]
      /\ magic' = magic
      /\ StartBroadcast(n, NoBroadcast(n), "mine")
  BY <1>0, TakeTransactionType DEF AddTransaction
<1>2. NoBroadcast(n) \in Block BY NodeAssumption, GenesisType DEF NoBroadcast
<1>3. \A m \in Node \ {n} : pc'[m] = pc[m] /\ next'[m] = next[m]
  BY <1>0, <1>1, <1>2, StartBroadcastType
<1>4. magic[n] = 0 BY <1>1 DEF SearchInv, Search, Abandoning
<1>5. new_block'[n] \in Seq(Tx) /\ new_block'[n] # <<>>
  <2>1. new_block'[n] = Append(new_block[n], back(tq[n])) BY <1>0, <1>1
  <2> QED BY <1>0, <1>1, <2>1, AppendProperties
<1>6. FirstMagic[calculate_merkle_root(new_block'[n])] \in Nat \ {0}
  BY <1>5, MerkleType
<1>7. Search(n)' BY <1>1, <1>4, <1>6 DEF Search, calculate_merkle_root
<1>8. ASSUME NEW m \in Node \ {n} PROVE Search(m)'
  BY <1>0, <1>1, <1>3, SearchKept DEF SearchInv, Abandoning
<1> QED BY <1>0, <1>1, <1>3, <1>7, <1>8 DEF SearchInv

\* Every step keeps the search in order, and every full block advances.
LEMMA StepSearch ==
  ASSUME Inv, SearchInv, Next
  PROVE  SearchInv' /\ \A m \in Node : Advances(m)
<1>0. /\ magic \in [Node -> Nat] /\ pc \in [Node -> Point] BY DEF Inv, TypeOK
<1>1. PICK n \in Node :
         \/ \E t \in Tx : CastVote(n, t)
         \/ \E msg \in Foreign : ForeignBlock(n, msg)
         \/ Send(n) \/ NoBlock(n) \/ CheckCrashes(n) \/ BlockInvalid(n)
         \/ BlockOK(n) \/ BlockBehind(n) \/ AheadTooFar(n) \/ RepairKnown(n)
         \/ RepairCut(n) \/ RepairDone(n) \/ RepairUnknown(n) \/ SpinAsk(n)
         \/ SpinAbort(n) \/ Requeue(n) \/ RequeueDone(n) \/ QuotaAlreadyFull(n)
         \/ DropTransaction(n) \/ AddTransaction(n) \/ QuotaNotFull(n)
         \/ MerkleAssertFails(n) \/ MineMiss(n) \/ MineHit(n)
  BY NextCases
<1>2. CASE MineMiss(n)
  <2>1. pc[n] = "mine" /\ pc' = [pc EXCEPT ![n] = "top"]
    BY <1>2 DEF MineMiss, CanMine, Goto
  <2> QED BY <1>0, <1>2, <2>1, MissSearch, SizeAssumption DEF Advances
<1>3. CASE \/ BlockOK(n) \/ RepairDone(n) \/ Requeue(n) \/ RequeueDone(n)
           \/ MineHit(n)
  BY <1>3, EndSearch DEF Advances
<1>4. CASE AddTransaction(n) BY <1>4, StartSearch DEF Advances
<1>5. CASE \/ \E t \in Tx : CastVote(n, t)
           \/ \E msg \in Foreign : ForeignBlock(n, msg)
           \/ Send(n) \/ RepairKnown(n) \/ RepairCut(n) \/ DropTransaction(n)
           \/ NoBlock(n) \/ CheckCrashes(n) \/ BlockInvalid(n) \/ BlockBehind(n)
           \/ AheadTooFar(n) \/ RepairUnknown(n) \/ SpinAsk(n) \/ SpinAbort(n)
           \/ QuotaAlreadyFull(n) \/ QuotaNotFull(n) \/ MerkleAssertFails(n)
  BY <1>5, QuietWork, SearchKept DEF SearchInv, Advances
<1> QED BY <1>1, <1>2, <1>3, <1>4, <1>5

-----------------------------------------------------------------------------
(* The theorems. *)

\* The search stays in order throughout every behaviour of the network.
THEOREM SearchInvariance == Spec => [](Inv /\ SearchInv)
<1>1. Init => SearchInv BY DEF Init, SearchInv, Search
<1>2. Inv /\ SearchInv /\ [Next]_vars => SearchInv'
  <2> SUFFICES ASSUME Inv, SearchInv, UNCHANGED vars PROVE SearchInv'
    BY StepSearch
  <2>1. UNCHANGED <<new_block, magic, quotafull, pc, next>>
    BY DEF vars, wbvars, sendvars
  <2> QED BY <2>1, SearchKept DEF SearchInv, Abandoning
<1> QED BY <1>1, <1>2, Invariance, PTL DEF Spec

\* The search for a magic number starts at 0 with every working block and has
\* never passed the first number that will do.
THEOREM SearchBelow == Spec => []MagicBelowFirst
<1>1. SearchInv => MagicBelowFirst BY DEF SearchInv, Search, MagicBelowFirst
<1> QED BY <1>1, SearchInvariance, PTL

\* A full working block does not change, and every round of mining without a
\* hit raises its magic.
THEOREM SearchAdvances == Spec => MiningAdvances
<1>1. Inv /\ SearchInv /\ [Next]_vars => [\A n \in Node : Advances(n)]_vars
  BY StepSearch
<1> QED BY <1>1, SearchInvariance, PTL DEF Spec, MiningAdvances
=============================================================================
