---------------------------- MODULE LedgerProofs ----------------------------
(***************************************************************************)
(* The network of miners implements Ledger: blocks are recorded and taken  *)
(* back at the end of a chain, one at a time, with fresh voters only.      *)
(***************************************************************************)
EXTENDS MinerLinkProofs

\* A chain has no more blocks than chain_length counts (repairs never lower
\* the count).
LengthInv == \A n \in Node : Len(chain[n]) <= chain_length[n]

\* The refinement mapping.
Books == [n \in Node |-> Voters(chain[n])]
Ended == [n \in Node |-> ~Running(n)]

-----------------------------------------------------------------------------
(* The voters of a chain. *)

\* They are a sequence, one element shorter than the chain.
LEMMA VotersType ==
  ASSUME NEW c \in Seq(Block), c # <<>>
  PROVE  /\ Voters(c) \in Seq(SUBSET Key) /\ Len(Voters(c)) = Len(c) - 1
         /\ \A i \in 1..Len(c) - 1 : Voters(c)[i] = Keys(c[i + 1])
<1>1. Len(c) - 1 \in Nat OBVIOUS
<1>2. \A i \in 1..Len(c) - 1 : Keys(c[i + 1]) \in SUBSET Key
  BY <1>1, KeysType
<1> DEFINE v == Voters(c)
<1>3. /\ v \in [1..Len(c) - 1 -> SUBSET Key]
      /\ \A i \in 1..Len(c) - 1 : v[i] = Keys(c[i + 1])
  BY <1>2 DEF Voters
<1> HIDE DEF v
<1>4. v \in Seq(SUBSET Key) BY <1>1, <1>3
<1>5. Len(v) = Len(c) - 1 BY <1>1, <1>3, <1>4
<1> QED BY <1>3, <1>4, <1>5 DEF v

\* A block added to a chain adds its voters.
LEMMA VotersAppend ==
  ASSUME NEW c \in Seq(Block), c # <<>>, NEW b \in Block
  PROVE  Voters(Append(c, b)) = Append(Voters(c), Keys(b))
<1> DEFINE d == Append(c, b)
<1>1. /\ d \in Seq(Block) /\ d # <<>> /\ Len(d) = Len(c) + 1 /\ d[Len(d)] = b
      /\ \A i \in 1..Len(c) : d[i] = c[i]
  BY AppendProperties
<1> HIDE DEF d
<1> DEFINE v == Voters(c)
           w == Voters(d)
           K == Keys(b)
<1>2. /\ v \in Seq(SUBSET Key) /\ Len(v) = Len(c) - 1
      /\ \A i \in 1..Len(c) - 1 : v[i] = Keys(c[i + 1])
  BY VotersType
<1>3. /\ w \in Seq(SUBSET Key) /\ Len(w) = Len(c)
      /\ \A i \in 1..Len(c) : w[i] = Keys(d[i + 1])
  <2>1. /\ w \in Seq(SUBSET Key) /\ Len(w) = Len(d) - 1
        /\ \A i \in 1..Len(d) - 1 : w[i] = Keys(d[i + 1])
    BY <1>1, VotersType
  <2>2. Len(d) - 1 = Len(c) BY <1>1
  <2> HIDE DEF w
  <2> QED BY <2>1, <2>2
<1>4. K \in SUBSET Key BY KeysType
<1>5. \A i \in 1..Len(c) : w[i] = IF i <= Len(v) THEN v[i] ELSE K
  BY <1>1, <1>2, <1>3
<1> HIDE DEF v, w, K
<1>6. /\ Append(v, K) \in Seq(SUBSET Key) /\ Len(Append(v, K)) = Len(v) + 1
      /\ \A i \in 1..Len(v) : Append(v, K)[i] = v[i]
      /\ Append(v, K)[Len(v) + 1] = K
  BY <1>2, <1>4, AppendProperties
<1>7. Len(c) \in Nat /\ Len(w) = Len(Append(v, K)) BY <1>2, <1>3, <1>6
<1>8. \A i \in 1..Len(w) : w[i] = Append(v, K)[i]
  BY <1>2, <1>3, <1>5, <1>6, <1>7
<1>9. w = Append(v, K) BY <1>3, <1>6, <1>7, <1>8, SeqEqual
<1> QED BY <1>9 DEF v, w, K, d

\* A block taken off takes its voters off.
LEMMA VotersFront ==
  ASSUME NEW c \in Seq(Block), Len(c) > 1
  PROVE  /\ Voters(Front(c)) = SubSeq(Voters(c), 1, Len(Voters(c)) - 1)
         /\ Voters(c) # <<>>
<1> DEFINE d == SubSeq(c, 1, Len(c) - 1)
           v == Voters(c)
           w == Voters(d)
           u == SubSeq(v, 1, Len(v) - 1)
<1>1. /\ d \in Seq(Block) /\ Len(d) = Len(c) - 1
      /\ \A i \in 1..Len(c) - 1 : d[i] = c[i]
  <2>1. Len(c) - 1 \in Nat /\ Len(c) - 1 <= Len(c) OBVIOUS
  <2>2. \A i \in 1..Len(c) - 1 : c[i] \in Block BY <2>1
  <2> QED BY <2>1, <2>2, SubSeqProperties
<1> HIDE DEF d
<1>2. d # <<>> BY <1>1
<1>3. /\ v \in Seq(SUBSET Key) /\ Len(v) = Len(c) - 1
      /\ \A i \in 1..Len(c) - 1 : v[i] = Keys(c[i + 1])
  BY VotersType
<1>4. /\ w \in Seq(SUBSET Key) /\ Len(w) = Len(d) - 1
      /\ \A i \in 1..Len(d) - 1 : w[i] = Keys(d[i + 1])
  BY <1>1, <1>2, VotersType
<1> HIDE DEF v, w
<1>5. ASSUME NEW i \in 1..Len(c) - 2 PROVE w[i] = v[i]
  <2>1. i \in 1..Len(c) - 1 /\ i + 1 \in 1..Len(c) - 1 /\ i \in 1..Len(d) - 1
    BY <1>1
  <2>2. d[i + 1] = c[i + 1] BY <1>1, <2>1
  <2>3. w[i] = Keys(d[i + 1]) /\ v[i] = Keys(c[i + 1]) BY <1>3, <1>4, <2>1
  <2> QED BY <2>2, <2>3
<1>6. /\ u \in Seq(SUBSET Key) /\ Len(u) = Len(v) - 1
      /\ \A i \in 1..Len(v) - 1 : u[i] = v[i]
  BY <1>3, SubSeqProperties
<1>7. Len(w) = Len(u) /\ \A i \in 1..Len(w) : w[i] = u[i]
  BY <1>1, <1>3, <1>4, <1>5, <1>6
<1> HIDE DEF u
<1>8. w = u BY <1>4, <1>6, <1>7, SeqEqual
<1>9. v # <<>> BY <1>3
<1> QED BY <1>8, <1>9 DEF u, v, w, d, Front

-----------------------------------------------------------------------------
(* The steps. *)

\* Adding a block of fresh votes records its voters, also when the process
\* ends on the assert behind it.
LEMMA AddRecords ==
  ASSUME Inv, LinkInv, LengthInv, NEW n \in Node, NEW b \in Block,
         add_block(n, b), \A s \in Slot : b.transaction_array[s] \in Tx,
         Keys(b) \cap voted[n] = {}, Running(n),
         \A m \in Node \ {n} : pc'[m] = pc[m]
  PROVE  LG!Next
<1> DEFINE b1 == [b EXCEPT !.block_number = chain_length[n] + 1]
           K == Keys(b)
<1>1. /\ chain \in [Node -> Seq(Block)] /\ chain[n] \in Seq(Block)
      /\ chain[n] # <<>> /\ chain_length[n] \in Nat
  BY DEF Inv, TypeOK
<1>2. b1 \in Block
  <2> DEFINE num == chain_length[n] + 1
  <2>1. num \in Nat BY <1>1
  <2> HIDE DEF num
  <2>2. [b EXCEPT !.block_number = num] \in Block BY <2>1 DEF Block
  <2> QED BY <2>2 DEF num
<1>3. Keys(b1) = K BY DEF Block, Keys
<1>4. chain' = [chain EXCEPT ![n] = Append(@, b1)] BY DEF add_block
<1> HIDE DEF b1
<1>5. Voters(chain'[n]) = Append(Voters(chain[n]), K)
  <2>1. chain'[n] = Append(chain[n], b1) BY <1>1, <1>4
  <2> HIDE DEF K
  <2> QED BY <1>1, <1>2, <1>3, <2>1, VotersAppend
<1>6. \A m \in Node \ {n} : chain'[m] = chain[m] BY <1>1, <1>4
<1>7. K # {} /\ K \in SUBSET Key
  <2>1. 1 \in Slot BY SizeAssumption DEF Slot
  <2>2. KeyOf[b.transaction_array[1]] \in K BY <2>1, KeysOf
  <2> QED BY <2>2, KeysType
<1>8. \A i \in DOMAIN Voters(chain[n]) : Voters(chain[n])[i] \cap K = {}
  <2>1. ASSUME NEW i \in DOMAIN Voters(chain[n])
        PROVE  Voters(chain[n])[i] \subseteq voted[n]
    <3>1. i \in 1..Len(chain[n]) - 1 BY DEF Voters
    <3>2. i + 1 \in 2..Len(chain[n]) /\ chain[n][i + 1] \in Block BY <1>1, <3>1
    <3>3. Keys(chain[n][i + 1]) \subseteq voted[n]
      BY <3>2, KeysType DEF Inv, ChainInv, VotedIsChain
    <3> QED BY <3>1, <3>3 DEF Voters
  <2> QED BY <2>1
<1>9. Len(Voters(chain[n])) < MaxNumber
  <2>1. Len(Voters(chain[n])) = Len(chain[n]) - 1 BY <1>1, VotersType
  <2>2. Len(chain[n]) <= chain_length[n] /\ chain_length[n] <= MaxNumber
    BY DEF LengthInv, LinkInv, Extra, Limited
  <2> QED BY <1>1, <2>1, <2>2, NodeAssumption
<1> HIDE DEF K
<1>10. Books' = [Books EXCEPT ![n] = Append(@, K)]
  BY <1>5, <1>6 DEF Books
<1>11. Ended' \in {Ended, [Ended EXCEPT ![n] = TRUE]}
  <2>1. CASE pc'[n] = "dead" BY <2>1 DEF Ended, Running
  <2>2. CASE pc'[n] # "dead" BY <2>2 DEF Ended, Running
  <2> QED BY <2>1, <2>2
<1>12. LG!Record(n, K)
  BY <1>7, <1>8, <1>9, <1>10, <1>11 DEF LG!Record, Books, Ended
<1> QED BY <1>7, <1>12 DEF LG!Next

\* A received block that is accepted, and a mined block, are such blocks.
LEMMA GrowRecords ==
  ASSUME Inv, LinkInv, LengthInv, NEW n \in Node, BlockOK(n) \/ MineHit(n)
  PROVE  LG!Next
<1>0. TypeOK /\ Work(n) BY DEF Inv
<1>1. CASE BlockOK(n)
  <2> DEFINE b == back(bq[n])
  <2>1. /\ TakeBlock(n, "OK") /\ add_block(n, b)
        /\ AssertAndBroadcast(n, get_head_block(chain'[n]), "requeue")
    BY <1>1 DEF BlockOK
  <2>2. b \in Block /\ pc[n] = "top" BY <1>0, <2>1, TakeBlockType
  <2>3. "OK" \in check_block_validity(chain[n], voted[n], b)
    BY <2>1 DEF TakeBlock
  <2> HIDE DEF b
  <2>4. /\ \A s \in Slot : b.transaction_array[s] \in Tx
        /\ Keys(b) \cap voted[n] = {}
    BY <2>2, <2>3, ValidBlock
  <2>5. get_head_block(chain'[n]) \in Block BY <1>0, <2>1, <2>2, AddBlockType
  <2>6. \A m \in Node \ {n} : pc'[m] = pc[m]
    BY <1>0, <2>1, <2>5, AssertAndBroadcastType
  <2>7. Running(n) BY <2>2 DEF Running
  <2> QED BY <2>1, <2>2, <2>4, <2>6, <2>7, AddRecords
<1>2. CASE MineHit(n)
  <2>1. PICK k \in Hits(n) : add_block(n, MinedBlock(n, k))
    BY <1>2 DEF MineHit
  <2> DEFINE b == MinedBlock(n, k)
  <2>2. CanMine(n) /\ AssertAndBroadcast(n, get_head_block(chain'[n]), "top")
    BY <1>2 DEF MineHit
  <2>3. b \in Block BY <1>0, <2>2, MinedBlockType
  <2>4. /\ \A s \in Slot : b.transaction_array[s] \in Tx
        /\ \A s \in Slot : KeyOf[b.transaction_array[s]] \notin voted[n]
    <3>1. /\ Len(new_block[n]) = NUM_TRANSACTIONS_PER_BLOCK
          /\ \A i \in DOMAIN new_block[n] : KeyOf[new_block[n][i]] \notin voted[n]
      BY <1>0, <2>2 DEF CanMine, Work, Abandoning
    <3>2. new_block[n] \in Seq(Tx) BY <1>0 DEF TypeOK
    <3>3. DOMAIN new_block[n] = Slot /\ \A s \in Slot : new_block[n][s] \in Tx
      BY <3>1, <3>2 DEF Slot
    <3>4. b.transaction_array = new_block[n] BY DEF MinedBlock
    <3> QED BY <3>1, <3>3, <3>4
  <2>5. add_block(n, b) BY <2>1
  <2> HIDE DEF b
  <2>6. Keys(b) \cap voted[n] = {} BY <2>3, <2>4, KeysOf
  <2>7. get_head_block(chain'[n]) \in Block BY <1>0, <2>3, <2>5, AddBlockType
  <2>8. \A m \in Node \ {n} : pc'[m] = pc[m]
    BY <1>0, <2>2, <2>7, AssertAndBroadcastType
  <2>9. Running(n) BY <2>2 DEF CanMine, Running
  <2> QED BY <2>3, <2>4, <2>5, <2>6, <2>8, <2>9, AddRecords
<1> QED BY <1>1, <1>2

\* A round of a repair takes the last block's voters back; genesis stays.
LEMMA CutTakesBack ==
  ASSUME Inv, NEW n \in Node, RepairCut(n)
  PROVE  LG!Next
<1>1. /\ chain \in [Node -> Seq(Block)] /\ chain[n] \in Seq(Block)
      /\ Len(chain[n]) > 1
  BY DEF Inv, TypeOK, Control, RepairCut
<1>2. /\ chain' = [chain EXCEPT ![n] = Front(@)] /\ UNCHANGED pc /\ Running(n)
  BY DEF RepairCut, Running
<1>3. chain'[n] = Front(chain[n]) /\ \A m \in Node \ {n} : chain'[m] = chain[m]
  BY <1>1, <1>2
<1>4. /\ Voters(chain'[n]) =
           SubSeq(Voters(chain[n]), 1, Len(Voters(chain[n])) - 1)
      /\ Voters(chain[n]) # <<>>
  BY <1>1, <1>3, VotersFront
<1>5. Books' = [Books EXCEPT ![n] = SubSeq(@, 1, Len(@) - 1)]
  BY <1>3, <1>4 DEF Books
<1>6. Ended' = Ended BY <1>2 DEF Ended, Running
<1>7. LG!TakeBack(n)
  BY <1>2, <1>4, <1>5, <1>6 DEF LG!TakeBack, Books, Ended
<1> QED BY <1>7 DEF LG!Next

\* Where no chain changes, a process ends or nothing happens to the ledgers.
LEMMA EndsOrStutters ==
  ASSUME TypeOK, UNCHANGED chain,
         \/ \A m \in Node : pc'[m] = "dead" <=> pc[m] = "dead"
         \/ \E m \in Node : pc' = [pc EXCEPT ![m] = "dead"]
  PROVE  LG!Next \/ UNCHANGED LG!vars
<1>0. pc \in [Node -> Point] BY DEF TypeOK
<1>1. CASE \A m \in Node : pc'[m] = "dead" <=> pc[m] = "dead"
  <2>1. Ended' = Ended BY <1>1 DEF Ended, Running
  <2> QED BY <2>1 DEF LG!vars, Ended
<1>2. CASE \E m \in Node : pc' = [pc EXCEPT ![m] = "dead"]
  <2>1. PICK m \in Node : pc' = [pc EXCEPT ![m] = "dead"] BY <1>2
  <2>2. Ended' = [Ended EXCEPT ![m] = TRUE] BY <1>0, <2>1 DEF Ended, Running
  <2>3. LG!End(m) BY <2>2 DEF LG!End, Ended
  <2> QED BY <2>3 DEF LG!Next
<1> QED BY <1>1, <1>2

\* Every step of the network is one of Ledger or changes no ledger.
LEMMA StepRefines ==
  ASSUME Inv, LinkInv, LengthInv, Next
  PROVE  LG!Next \/ UNCHANGED LG!vars
<1>0. /\ TypeOK /\ pc \in [Node -> Point]
      /\ next \in [Node -> {"top", "requeue", "mine"}]
  BY DEF Inv, TypeOK
<1>1. PICK n \in Node :
         \/ \E t \in Tx : CastVote(n, t)
         \/ \E msg \in Foreign : ForeignBlock(n, msg)
         \/ Send(n) \/ NoBlock(n) \/ CheckCrashes(n) \/ BlockInvalid(n)
         \/ BlockOK(n) \/ BlockBehind(n) \/ AheadTooFar(n) \/ RepairKnown(n)
         \/ RepairCut(n) \/ RepairDone(n) \/ RepairUnknown(n) \/ SpinAsk(n)
         \/ SpinAbort(n) \/ Requeue(n) \/ RequeueDone(n) \/ QuotaAlreadyFull(n)
         \/ DropTransaction(n) \/ AddTransaction(n) \/ QuotaNotFull(n)
         \/ MerkleAssertFails(n) \/ MineMiss(n) \/ MineHit(n)
  BY NextCases
<1>2. CASE BlockOK(n) \/ MineHit(n) BY <1>2, GrowRecords
<1>3. CASE RepairCut(n) BY <1>3, CutTakesBack
<1>4. CASE Send(n) \/ AddTransaction(n) \/ RepairDone(n) \/ RepairKnown(n)
  <2>1. UNCHANGED chain
    BY <1>4 DEF Send, AddTransaction, RepairDone, RepairKnown, bcvars
  <2>2. /\ pc[n] \in {"send", "txn", "repair", "top"}
        /\ pc' = pc \/ \E p \in {"send", "top", "requeue", "mine", "repair"} :
                          pc' = [pc EXCEPT ![n] = p]
    <3>1. CASE Send(n) BY <1>0, <3>1 DEF Send, Goto
    <3>2. CASE AddTransaction(n)
      BY <3>2 DEF AddTransaction, TakeTransaction, StartBroadcast, Goto
    <3>3. CASE RepairDone(n) BY <3>3 DEF RepairDone, StartBroadcast, Goto
    <3>4. CASE RepairKnown(n)
      BY <3>4 DEF RepairKnown, BlockAhead, TakeBlock, Goto
    <3> QED BY <1>4, <3>1, <3>2, <3>3, <3>4
  <2>3. \A m \in Node : pc'[m] = "dead" <=> pc[m] = "dead" BY <1>0, <2>2
  <2> QED BY <1>0, <2>1, <2>3, EndsOrStutters
<1>5. CASE \/ \E t \in Tx : CastVote(n, t)
           \/ \E msg \in Foreign : ForeignBlock(n, msg)
           \/ NoBlock(n) \/ CheckCrashes(n) \/ BlockInvalid(n) \/ BlockBehind(n)
           \/ AheadTooFar(n) \/ RepairUnknown(n) \/ SpinAsk(n) \/ SpinAbort(n)
           \/ Requeue(n) \/ RequeueDone(n) \/ QuotaAlreadyFull(n)
           \/ DropTransaction(n) \/ QuotaNotFull(n) \/ MerkleAssertFails(n)
           \/ MineMiss(n)
  <2>1. /\ UNCHANGED chain
        /\ \/ pc' = pc
           \/ \E m \in Node, p \in {"txn", "top", "mine", "spin", "dead"} :
                 MovesTo(m, p)
    BY <1>0, <1>5, QuietMoves
  <2>2. \/ \A m \in Node : pc'[m] = "dead" <=> pc[m] = "dead"
        \/ \E m \in Node : pc' = [pc EXCEPT ![m] = "dead"]
    BY <1>0, <2>1 DEF MovesTo
  <2> QED BY <1>0, <2>1, <2>2, EndsOrStutters
<1> QED BY <1>1, <1>2, <1>3, <1>4, <1>5

\* A block is counted when it is added, and never uncounted.
LEMMA StepLength ==
  ASSUME Inv, LengthInv, Next
  PROVE  LengthInv'
<1>0. /\ chain \in [Node -> Seq(Block)] /\ chain_length \in [Node -> Nat]
      /\ \A m \in Node : chain[m] # <<>>
  BY DEF Inv, TypeOK
<1>1. PICK n \in Node : \/ \E b : add_block(n, b)
                        \/ RepairCut(n)
                        \/ UNCHANGED <<chain, chain_length>>
  BY NextCases
     DEF CastVote, ForeignBlock, Send, NoBlock, CheckCrashes, BlockInvalid,
         BlockOK, BlockBehind, AheadTooFar, RepairKnown, RepairDone,
         RepairUnknown, SpinAsk, SpinAbort, Requeue, RequeueDone,
         QuotaAlreadyFull, DropTransaction, AddTransaction, QuotaNotFull,
         MerkleAssertFails, MineMiss, MineHit, bcvars
<1>2. CASE \E b : add_block(n, b)
  <2>1. PICK b1 : /\ chain' = [chain EXCEPT ![n] = Append(@, b1)]
                  /\ chain_length' = [chain_length EXCEPT ![n] = @ + 1]
    BY <1>2 DEF add_block
  <2>2. Len(chain'[n]) = Len(chain[n]) + 1
    <3>1. chain'[n] = Append(chain[n], b1) BY <1>0, <2>1
    <3>2. chain[n] \in Seq(Block \cup {b1}) BY <1>0
    <3> QED BY <3>1, <3>2, AppendProperties
  <2> QED BY <1>0, <2>1, <2>2 DEF LengthInv
<1>3. CASE RepairCut(n)
  <2>1. /\ chain' = [chain EXCEPT ![n] = SubSeq(@, 1, Len(@) - 1)]
        /\ chain_length' = chain_length
    BY <1>3 DEF RepairCut, Front
  <2>2. Len(chain'[n]) = Len(chain[n]) - 1
    <3>1. chain'[n] = SubSeq(chain[n], 1, Len(chain[n]) - 1) BY <1>0, <2>1
    <3>2. chain[n] \in Seq(Block) /\ chain[n] # <<>> BY <1>0
    <3> QED BY <3>1, <3>2
  <2> QED BY <1>0, <2>1, <2>2 DEF LengthInv
<1>4. CASE UNCHANGED <<chain, chain_length>> BY <1>4 DEF LengthInv
<1> QED BY <1>1, <1>2, <1>3, <1>4

-----------------------------------------------------------------------------
(* The theorems. *)

\* No chain is longer than its chain_length.
THEOREM LengthInvariance == Spec => [](Inv /\ LinkInv /\ LengthInv)
<1>1. Init => LengthInv BY DEF Init, LengthInv
<1>2. Inv /\ LengthInv /\ [Next]_vars => LengthInv'
  BY StepLength DEF LengthInv, vars, bcvars
<1> QED BY <1>1, <1>2, LinkInvariance, PTL DEF Spec

\* The network of miners, with its races, repairs and crashes, keeps for every
\* miner a ledger in which each voter is recorded at most once and which
\* changes only at its end.
THEOREM LedgerKept == Spec => ImplementsLedger
<1>1. Init => LG!Init
  <2> SUFFICES ASSUME Init PROVE LG!Init OBVIOUS
  <2>1. \A n \in Node : Len(chain[n]) = 1 /\ Running(n)
    BY DEF Init, Running
  <2>2. \A n \in Node : Voters(chain[n]) = <<>>
    <3> SUFFICES ASSUME NEW n \in Node PROVE Voters(chain[n]) = <<>> OBVIOUS
    <3>1. chain[n] \in Seq(Block) /\ chain[n] # <<>>
      BY InitInv DEF Inv, TypeOK
    <3>2. Voters(chain[n]) \in Seq(SUBSET Key) /\ Len(Voters(chain[n])) = 0
      BY <2>1, <3>1, VotersType
    <3> QED BY <3>2, EmptySeq
  <2> QED BY <2>1, <2>2 DEF LG!Init
<1>2. Inv /\ LinkInv /\ LengthInv /\ [Next]_vars => [LG!Next]_(LG!vars)
  <2> SUFFICES ASSUME Inv, LinkInv, LengthInv, [Next]_vars
               PROVE  LG!Next \/ UNCHANGED LG!vars
    OBVIOUS
  <2>1. CASE Next BY <2>1, StepRefines
  <2>2. CASE UNCHANGED vars
    <3>1. UNCHANGED <<chain, pc>> BY <2>2 DEF vars, bcvars
    <3> QED BY <3>1, EndsOrStutters DEF Inv
  <2> QED BY <2>1, <2>2
<1> QED BY <1>1, <1>2, LengthInvariance, PTL DEF Spec, ImplementsLedger, LG!Spec
=============================================================================
