------------------------- MODULE MinerOriginProofs --------------------------
(***************************************************************************)
(* Proofs about where votes and hashes come from, on top of the invariant  *)
(* of MinerProofs: no node makes up a vote, and every hash in a chain was  *)
(* found by mining unless a foreign miner or recycled bytes brought it.    *)
(***************************************************************************)
EXTENDS MinerLinkProofs

\* Votes that booths and foreign miners have brought into the network.
Cast == Delivered \cup Carried

\* HashesFound, for one hash.
GoodHash(h) == Found(h) \/ h \in Recycled \cup {msg.final_hash : msg \in Foreign}

\* Blocks that hold votes of D and what stale pointers reach, count only votes
\* of D, and have a hash that was found.
GoodBlock(D) ==
  {b \in Block :
     /\ \A s \in Slot : b.transaction_array[s] \in D \cup Stale \cup {Wild}
     /\ \A s \in 1..b.max_ind : b.transaction_array[s] \in D
     /\ GoodHash(b.finhash)}

\* A block is about to be broadcast, or being broadcast, from out.
Announcing(n) == pc[n] = "repair" \/ (pc[n] = "send" /\ next[n] # "mine")

\* Where the votes and blocks that a node holds come from.
Origin(n, D) ==
  /\ tq[n] \in Seq(D) /\ new_block[n] \in Seq(D)
  /\ bq[n] \in Seq(GoodBlock(D))
  /\ \A i \in 2..Len(chain[n]) : chain[n][i] \in GoodBlock(D)
  /\ Announcing(n) => out[n] \in GoodBlock(D)

\* The third invariant, inductive where Inv holds.
OriginInv == \A n \in Node : Origin(n, Cast) /\ ballots[n] \subseteq Ballots[n]

-----------------------------------------------------------------------------
(* Good blocks. *)

\* More votes make more blocks good.
LEMMA GoodGrows ==
  ASSUME NEW D, NEW E, D \subseteq E
  PROVE  GoodBlock(D) \subseteq GoodBlock(E)
BY DEF GoodBlock

\* A good block counts votes of D only.
LEMMA GoodCounted ==
  ASSUME NEW D, NEW b \in GoodBlock(D)
  PROVE  Counted(b) \in Seq(D)
<1>1. b.max_ind \in Nat /\ \A i \in 1..b.max_ind : b.transaction_array[i] \in D
  BY SizeAssumption DEF GoodBlock, Block
<1> QED BY <1>1, SubSeqProperties DEF Counted

\* Numbering a block leaves it good.
LEMMA GoodNumbered ==
  ASSUME NEW D, NEW b \in GoodBlock(D), NEW num \in Nat
  PROVE  [b EXCEPT !.block_number = num] \in GoodBlock(D)
<1> DEFINE b1 == [b EXCEPT !.block_number = num]
<1>1. b \in Block BY DEF GoodBlock
<1>2. b1 \in Block BY <1>1 DEF Block
<1>3. /\ b1.transaction_array = b.transaction_array
      /\ b1.max_ind = b.max_ind /\ b1.finhash = b.finhash
  BY <1>1 DEF Block
<1> HIDE DEF b1
<1>4. b1 \in GoodBlock(D) BY <1>2, <1>3 DEF GoodBlock
<1> QED BY <1>4 DEF b1

\* What decode_block makes of votes of D and of a good hash is good.
LEMMA GoodDecoded ==
  ASSUME NEW D, NEW msg \in BlockMsg, NEW array \in Uninitialized,
         msg.transaction_msg \in Seq(D), GoodHash(msg.final_hash)
  PROVE  decode_block(msg, array) \in GoodBlock(D)
<1> DEFINE b == decode_block(msg, array)
<1>1. b \in Block BY DecodeType DEF Received
<1>2. /\ msg.num_transactions \in 0..NUM_TRANSACTIONS_PER_BLOCK
      /\ Len(msg.transaction_msg) = msg.num_transactions
  BY DEF BlockMsg
<1>3. /\ b.finhash = msg.final_hash /\ b.max_ind = msg.num_transactions
      /\ b.transaction_array =
           [i \in Slot |-> IF i <= Len(msg.transaction_msg)
                           THEN msg.transaction_msg[i] ELSE array[i]]
  BY DEF decode_block
<1> HIDE DEF b
<1>4. \A i \in 1..Len(msg.transaction_msg) : msg.transaction_msg[i] \in D
  OBVIOUS
<1>5. ASSUME NEW s \in Slot
      PROVE  b.transaction_array[s] \in D \cup Stale \cup {Wild}
  <2>1. CASE s <= Len(msg.transaction_msg)
    BY <1>2, <1>3, <1>4, <2>1, SizeAssumption DEF Slot
  <2>2. CASE ~(s <= Len(msg.transaction_msg))
    BY <1>3, <2>2 DEF Uninitialized
  <2> QED BY <2>1, <2>2
<1>6. \A s \in 1..b.max_ind : b.transaction_array[s] \in D
  BY <1>2, <1>3, <1>4, SizeAssumption DEF Slot
<1>7. b \in GoodBlock(D) BY <1>1, <1>3, <1>5, <1>6 DEF GoodBlock
<1> QED BY <1>7 DEF b

\* A good block that is sent arrives as a good block, whatever its buffers
\* have become.
LEMMA GoodSent ==
  ASSUME NEW D, NEW b \in GoodBlock(D), NEW msg \in encode_block(b),
         NEW array \in Uninitialized
  PROVE  decode_block(msg, array) \in GoodBlock(D)
<1>1. b \in Block BY DEF GoodBlock
<1>2. msg \in BlockMsg BY <1>1, EncodeType
<1>3. msg.transaction_msg = Counted(b) /\ msg.final_hash \in ReadFinhash(b)
  BY DEF encode_block
<1>4. msg.transaction_msg \in Seq(D) BY <1>3, GoodCounted
<1>5. GoodHash(msg.final_hash)
  BY <1>3 DEF ReadFinhash, GoodBlock, GoodHash
<1> QED BY <1>2, <1>4, <1>5, GoodDecoded

\* So does a foreign block.
LEMMA GoodForeign ==
  ASSUME NEW D, Carried \subseteq D, NEW msg \in Foreign,
         NEW array \in Uninitialized
  PROVE  decode_block(msg, array) \in GoodBlock(D)
<1>1. msg \in BlockMsg BY NodeAssumption
<1>2. msg.transaction_msg \in Seq(Tx) BY <1>1 DEF BlockMsg
<1>3. \A i \in 1..Len(msg.transaction_msg) : msg.transaction_msg[i] \in D
  BY <1>2 DEF Carried, ToSet
<1>4. msg.transaction_msg \in Seq(D) BY <1>2, <1>3
<1> QED BY <1>1, <1>4, GoodDecoded DEF GoodHash

\* A block that a node mines from votes of D is good: its hash has the zeros.
LEMMA GoodMined ==
  ASSUME Inv, NEW D, NEW n \in Node, new_block[n] \in Seq(D), CanMine(n),
         NEW k \in Hits(n)
  PROVE  MinedBlock(n, k) \in GoodBlock(D)
<1>1. TypeOK /\ Work(n) BY DEF Inv
<1>2. MinedBlock(n, k) \in Block BY <1>1, MinedBlockType
<1>3. /\ new_block[n] \in Seq(Tx)
      /\ Len(new_block[n]) = NUM_TRANSACTIONS_PER_BLOCK
  BY <1>1 DEF TypeOK, Work, CanMine, Abandoning
<1>4. \A s \in Slot : new_block[n][s] \in D BY <1>3 DEF Slot
<1>5. Found(calculate_finhash(new_block[n], k))
  <2>1. calculate_merkle_root(new_block[n]) \in Prefix
    BY <1>3, SizeAssumption, TxAssumption, PrefixAssumption
       DEF calculate_merkle_root
  <2>2. enough_leading_zeros(calculate_finhash(new_block[n], k)) BY DEF Hits
  <2> QED BY <2>1, <2>2 DEF Found, calculate_finhash
<1>6. /\ MinedBlock(n, k).transaction_array = new_block[n]
      /\ MinedBlock(n, k).max_ind = 0
      /\ MinedBlock(n, k).finhash = calculate_finhash(new_block[n], k)
  BY DEF MinedBlock
<1> QED BY <1>2, <1>4, <1>5, <1>6 DEF GoodBlock, GoodHash

-----------------------------------------------------------------------------
(* The steps, for a set D that holds every vote cast so far. *)

\* The votes that a node queues and works on are of D.
LEMMA VotesStep ==
  ASSUME Inv, NEW D, \A m \in Node : Origin(m, D), Next,
         \A m \in Node, t \in Tx : CastVote(m, t) => t \in D
  PROVE  \A m \in Node : tq'[m] \in Seq(D) /\ new_block'[m] \in Seq(D)
<1> USE DEF bcvars, wbvars, sendvars, envvars
<1>1. \A m \in Node : tq[m] \in Seq(D) /\ new_block[m] \in Seq(D)
  BY DEF Origin
<1>2. tq \in [Node -> Seq(Tx)] /\ new_block \in [Node -> Seq(Tx)]
  BY DEF Inv, TypeOK
<1>3. \A m \in Node, t \in D :
        HandleTransaction(m, t) => \A p \in Node : tq'[p] \in Seq(D)
  BY <1>1, <1>2 DEF HandleTransaction, push
<1>4. PICK n \in Node :
        \/ \E t \in Tx : CastVote(n, t)
        \/ Send(n) \/ RepairCut(n) \/ Requeue(n)
        \/ TakeTransaction(n) /\ (DropTransaction(n) \/ AddTransaction(n))
        \/ UNCHANGED tq /\ (UNCHANGED new_block \/ MineHit(n))
  BY NextCases
     DEF ForeignBlock, NoBlock, CheckCrashes, BlockInvalid, BlockOK,
         BlockBehind, AheadTooFar, RepairKnown, RepairDone, RepairUnknown,
         SpinAsk, SpinAbort, RequeueDone, QuotaAlreadyFull, DropTransaction,
         AddTransaction, QuotaNotFull, MerkleAssertFails, MineMiss, MineHit
<1>5. CASE \E t \in Tx : CastVote(n, t)
  BY <1>1, <1>3, <1>5 DEF CastVote
<1>6. CASE Send(n)
  <2>1. UNCHANGED new_block BY <1>6 DEF Send
  <2>2. CASE UNCHANGED tq BY <1>1, <2>1, <2>2
  <2>3. CASE DeliverTo(n, Head(left[n])) /\ ~UNCHANGED tq
    <3>1. /\ next[n] = "mine"
          /\ HandleTransaction(Head(left[n]), back(new_block[n]))
      BY <2>3 DEF DeliverTo, SendingTransaction
    <3>2. left[n] \in Seq(Node) /\ left[n] # <<>> /\ new_block[n] # <<>>
      BY <1>6, <3>1 DEF Send, Inv, TypeOK, Control
    <3>3. Head(left[n]) \in Node BY <3>2
    <3>4. back(new_block[n]) \in D BY <1>1, <3>2 DEF back
    <3> QED BY <1>1, <1>3, <2>1, <3>1, <3>3, <3>4
  <2> QED BY <1>6, <2>2, <2>3 DEF Send
<1>7. CASE RepairCut(n)
  <2>1. /\ chain[n] \in Seq(Block) /\ Len(chain[n]) \in 2..Len(chain[n])
    BY <1>7 DEF RepairCut, Inv, TypeOK, Control
  <2>2. get_head_block(chain[n]) \in GoodBlock(D)
    BY <2>1 DEF Origin, get_head_block
  <2>3. Counted(get_head_block(chain[n])) \in Seq(D) BY <2>2, GoodCounted
  <2>4. /\ tq' = [tq EXCEPT ![n] = @ \o Counted(get_head_block(chain[n]))]
        /\ UNCHANGED new_block
    BY <1>7 DEF RepairCut
  <2> HIDE DEF Counted
  <2>5. tq[n] \o Counted(get_head_block(chain[n])) \in Seq(D) BY <1>1, <2>3
  <2> QED BY <1>1, <1>2, <2>4, <2>5
<1>8. CASE Requeue(n)
  <2>1. /\ HandleTransaction(n, Head(new_block[n])) /\ new_block[n] # <<>>
        /\ new_block' = [new_block EXCEPT ![n] = Tail(@)]
    BY <1>8 DEF Requeue
  <2>2. Head(new_block[n]) \in D /\ Tail(new_block[n]) \in Seq(D)
    BY <1>1, <2>1
  <2> QED BY <1>1, <1>2, <1>3, <2>1, <2>2
<1>9. CASE TakeTransaction(n) /\ (DropTransaction(n) \/ AddTransaction(n))
  <2>1. /\ back(tq[n]) \in D /\ pop_front(tq[n]) \in Seq(D)
        /\ tq' = [tq EXCEPT ![n] = pop_front(@)]
    BY <1>1, <1>9 DEF TakeTransaction, back, pop_front
  <2>2. \/ UNCHANGED new_block
        \/ new_block' = [new_block EXCEPT ![n] = Append(@, back(tq[n]))]
    BY <1>9 DEF DropTransaction, AddTransaction
  <2>3. Append(new_block[n], back(tq[n])) \in Seq(D) BY <1>1, <2>1
  <2>4. \A m \in Node : tq'[m] \in Seq(D) BY <1>1, <1>2, <2>1
  <2>5. \A m \in Node : new_block'[m] \in Seq(D) BY <1>1, <1>2, <2>2, <2>3
  <2> QED BY <2>4, <2>5
<1>10. CASE UNCHANGED tq /\ (UNCHANGED new_block \/ MineHit(n))
  <2>1. \/ UNCHANGED new_block
        \/ new_block' = [new_block EXCEPT ![n] = <<>>]
    BY <1>10 DEF MineHit
  <2>2. <<>> \in Seq(D) OBVIOUS
  <2> QED BY <1>1, <1>2, <1>10, <2>1, <2>2
<1> QED BY <1>4, <1>5, <1>6, <1>7, <1>8, <1>9, <1>10

\* The blocks that a node queues are good.
LEMMA BlocksStep ==
  ASSUME Inv, NEW D, Carried \subseteq D, \A m \in Node : Origin(m, D), Next
  PROVE  \A m \in Node : bq'[m] \in Seq(GoodBlock(D))
<1> USE DEF bcvars, wbvars, sendvars, envvars
<1>1. \A m \in Node : bq[m] \in Seq(GoodBlock(D)) BY DEF Origin
<1>2. bq \in [Node -> Seq(Received)] BY DEF Inv, TypeOK
<1>3. ASSUME NEW m \in Node, NEW msg, HandleBlock(m, msg),
             \A array \in Uninitialized : decode_block(msg, array) \in GoodBlock(D)
      PROVE  \A p \in Node : bq'[p] \in Seq(GoodBlock(D))
  <2>1. PICK array \in Uninitialized :
          bq' = [bq EXCEPT ![m] = push(@, decode_block(msg, array))]
    BY <1>3 DEF HandleBlock
  <2>2. push(bq[m], decode_block(msg, array)) \in Seq(GoodBlock(D))
    BY <1>1, <1>3 DEF push
  <2> QED BY <1>1, <1>2, <2>1, <2>2
<1>4. PICK n \in Node :
        \/ \E msg \in Foreign : ForeignBlock(n, msg)
        \/ Send(n)
        \/ \E code : TakeBlock(n, code)
        \/ UNCHANGED bq
  BY NextCases
     DEF CastVote, NoBlock, CheckCrashes, BlockInvalid, BlockOK,
         BlockBehind, BlockAhead, AheadTooFar, RepairKnown, RepairCut,
         RepairDone, RepairUnknown, SpinAsk, SpinAbort, Requeue, RequeueDone,
         QuotaAlreadyFull, DropTransaction, AddTransaction, QuotaNotFull,
         MerkleAssertFails, MineMiss, MineHit
<1>5. CASE \E msg \in Foreign : ForeignBlock(n, msg)
  <2>1. PICK msg \in Foreign : HandleBlock(n, msg) BY <1>5 DEF ForeignBlock
  <2>2. \A array \in Uninitialized : decode_block(msg, array) \in GoodBlock(D)
    BY GoodForeign
  <2> QED BY <1>3, <2>1, <2>2
<1>6. CASE Send(n)
  <2>1. CASE UNCHANGED bq BY <1>1, <2>1
  <2>2. CASE DeliverTo(n, Head(left[n])) /\ ~UNCHANGED bq
    <3>1. PICK msg \in encode_block(out[n]) : HandleBlock(Head(left[n]), msg)
      BY <2>2 DEF DeliverTo
    <3>2. /\ left[n] \in Seq(Node) /\ left[n] # <<>>
          /\ pc[n] = "send" /\ next[n] # "mine"
      BY <1>6, <2>2 DEF Send, Inv, TypeOK, Control, DeliverTo, SendingTransaction
    <3>3. Head(left[n]) \in Node /\ out[n] \in GoodBlock(D)
      BY <3>2 DEF Origin, Announcing
    <3>4. \A array \in Uninitialized : decode_block(msg, array) \in GoodBlock(D)
      BY <3>1, <3>3, GoodSent
    <3> QED BY <1>3, <3>1, <3>3, <3>4
  <2> QED BY <1>6, <2>1, <2>2 DEF Send
<1>7. CASE \E code : TakeBlock(n, code)
  <2> DEFINE num == chain_length[n] + 1
  <2>1. PICK q \in Rest(bq[n], num) : bq' = [bq EXCEPT ![n] = q]
    BY <1>2, <1>7, TakeBlockRest
  <2>2. bq[n] # <<>> /\ num \in Nat BY <1>7 DEF TakeBlock, Inv, TypeOK
  <2>3. pop_front(bq[n]) \in Seq(GoodBlock(D)) BY <1>1, <2>2 DEF pop_front
  <2>4. pop_front(Numbered(bq[n], num)) \in Seq(GoodBlock(D))
    <3>1. /\ Len(Numbered(bq[n], num)) = Len(bq[n])
          /\ Numbered(bq[n], num) \in Seq(Received)
          /\ \A i \in 1..Len(bq[n]) : Numbered(bq[n], num)[i] =
               IF i = Len(bq[n]) THEN [bq[n][i] EXCEPT !.block_number = num]
                                 ELSE bq[n][i]
      BY <1>2, <2>2, NumberedQueue
    <3> HIDE DEF num
    <3>2. \A i \in 1..Len(bq[n]) : bq[n][i] \in GoodBlock(D) BY <1>1
    <3>3. ASSUME NEW i \in 1..Len(bq[n])
          PROVE  Numbered(bq[n], num)[i] \in GoodBlock(D)
      <4>1. bq[n][i] \in GoodBlock(D) BY <3>2
      <4>2. CASE i = Len(bq[n])
        <5>1. Numbered(bq[n], num)[i] = [bq[n][i] EXCEPT !.block_number = num]
          BY <3>1, <4>2
        <5> QED BY <2>2, <4>1, <5>1, GoodNumbered
      <4>3. CASE i # Len(bq[n]) BY <3>1, <4>1, <4>3
      <4> QED BY <4>2, <4>3
    <3>4. Numbered(bq[n], num) \in Seq(GoodBlock(D)) BY <3>1, <3>3
    <3> QED BY <2>2, <3>1, <3>4 DEF pop_front
  <2> QED BY <1>1, <1>2, <2>1, <2>3, <2>4 DEF Rest
<1>8. CASE UNCHANGED bq BY <1>1, <1>8
<1> QED BY <1>4, <1>5, <1>6, <1>7, <1>8

\* The block taken off bq is good.
LEMMA GoodTaken ==
  ASSUME NEW D, NEW n \in Node, NEW code, Origin(n, D), TakeBlock(n, code)
  PROVE  back(bq[n]) \in GoodBlock(D)
BY DEF Origin, TakeBlock, back

\* The block that add_block numbers and appends is good if it was before.
LEMMA GoodAdded ==
  ASSUME Inv, NEW D, \A m \in Node : Origin(m, D), NEW n \in Node,
         NEW b \in GoodBlock(D), add_block(n, b)
  PROVE  /\ \A m \in Node : \A i \in 2..Len(chain'[m]) :
               chain'[m][i] \in GoodBlock(D)
         /\ get_head_block(chain'[n]) \in GoodBlock(D)
<1> DEFINE b1 == [b EXCEPT !.block_number = chain_length[n] + 1]
<1>1. chain \in [Node -> Seq(Block)] /\ chain_length[n] + 1 \in Nat
  BY DEF Inv, TypeOK
<1>2. b1 \in GoodBlock(D) BY <1>1, GoodNumbered
<1>3. chain' = [chain EXCEPT ![n] = Append(@, b1)] BY DEF add_block
<1> HIDE DEF b1
<1>4. ASSUME NEW m \in Node, NEW i \in 2..Len(chain'[m])
      PROVE  chain'[m][i] \in GoodBlock(D)
  <2>1. chain[m] \in Seq(Block)
        /\ \A j \in 2..Len(chain[m]) : chain[m][j] \in GoodBlock(D)
    BY <1>1 DEF Origin
  <2>2. CASE m # n BY <1>1, <1>3, <2>1, <2>2
  <2>3. CASE m = n
    <3>1. chain'[m] = Append(chain[m], b1) BY <1>1, <1>3, <2>3
    <3> QED BY <1>2, <2>1, <3>1
  <2> QED BY <2>2, <2>3
<1>5. get_head_block(chain'[n]) = b1
  <2>1. chain[n] \in Seq(Block) /\ chain'[n] = Append(chain[n], b1)
    BY <1>1, <1>3
  <2> QED BY <2>1 DEF get_head_block
<1> QED BY <1>2, <1>4, <1>5

\* The blocks above genesis in a chain are good.
LEMMA ChainStep ==
  ASSUME Inv, NEW D, \A m \in Node : Origin(m, D), Next
  PROVE  \A m \in Node : \A i \in 2..Len(chain'[m]) :
            chain'[m][i] \in GoodBlock(D)
<1> USE DEF bcvars, wbvars, sendvars, envvars
<1>1. PICK n \in Node : \/ BlockOK(n) \/ RepairCut(n) \/ MineHit(n)
                        \/ UNCHANGED chain
  BY NextCases
     DEF CastVote, ForeignBlock, Send, NoBlock, CheckCrashes, BlockInvalid,
         BlockBehind, AheadTooFar, RepairKnown, RepairDone, RepairUnknown,
         SpinAsk, SpinAbort, Requeue, RequeueDone, QuotaAlreadyFull,
         DropTransaction, AddTransaction, QuotaNotFull, MerkleAssertFails,
         MineMiss
<1>2. CASE BlockOK(n)
  BY <1>2, GoodTaken, GoodAdded DEF BlockOK
<1>3. CASE RepairCut(n)
  <2>1. chain \in [Node -> Seq(Block)] /\ chain[n] # <<>>
    BY DEF Inv, TypeOK
  <2>2. chain' = [chain EXCEPT ![n] = SubSeq(chain[n], 1, Len(chain[n]) - 1)]
    BY <1>3 DEF RepairCut, Front
  <2>3. ASSUME NEW m \in Node, NEW i \in 2..Len(chain'[m])
        PROVE  chain'[m][i] \in GoodBlock(D)
    <3>1. chain[m] \in Seq(Block)
          /\ \A j \in 2..Len(chain[m]) : chain[m][j] \in GoodBlock(D)
      BY <2>1 DEF Origin
    <3>2. CASE m # n BY <2>1, <2>2, <3>1, <3>2
    <3>3. CASE m = n
      <4>1. chain'[m] = SubSeq(chain[m], 1, Len(chain[m]) - 1) /\ chain[m] # <<>>
        BY <2>1, <2>2, <3>3
      <4> QED BY <3>1, <4>1
    <3> QED BY <3>2, <3>3
  <2> QED BY <2>3
<1>4. CASE MineHit(n)
  <2>1. PICK k \in Hits(n) : add_block(n, MinedBlock(n, k))
    BY <1>4 DEF MineHit
  <2>2. MinedBlock(n, k) \in GoodBlock(D)
    BY <1>4, GoodMined DEF MineHit, Origin
  <2> QED BY <2>1, <2>2, GoodAdded
<1>5. CASE UNCHANGED chain BY <1>5 DEF Origin
<1> QED BY <1>1, <1>2, <1>3, <1>4, <1>5

\* A broadcast of a good block, or of a vote, announces nothing else.
LEMMA GoodBroadcast ==
  ASSUME Inv, NEW D, NEW n \in Node, NEW b,
         NEW point \in {"top", "requeue", "mine"},
         point = "mine" \/ b \in GoodBlock(D), StartBroadcast(n, b, point)
  PROVE  Announcing(n)' => out'[n] \in GoodBlock(D)
BY DEF Inv, TypeOK, StartBroadcast, Goto, Announcing

\* The block that a node announces is good.
LEMMA OutStep ==
  ASSUME Inv, NEW D, \A m \in Node : Origin(m, D), Next
  PROVE  \A m \in Node : Announcing(m)' => out'[m] \in GoodBlock(D)
<1> USE DEF bcvars, wbvars, sendvars, envvars
<1>0. /\ pc \in [Node -> Point] /\ next \in [Node -> {"top", "requeue", "mine"}]
      /\ out \in [Node -> Block] /\ TypeOK
  BY DEF Inv, TypeOK
<1>1. \A m \in Node : Announcing(m) => out[m] \in GoodBlock(D) BY DEF Origin
<1>2. PICK n \in Node :
         \/ \E t \in Tx : CastVote(n, t)
         \/ \E msg \in Foreign : ForeignBlock(n, msg)
         \/ Send(n) \/ NoBlock(n) \/ CheckCrashes(n) \/ BlockInvalid(n)
         \/ BlockOK(n) \/ BlockBehind(n) \/ AheadTooFar(n) \/ RepairKnown(n)
         \/ RepairCut(n) \/ RepairDone(n) \/ RepairUnknown(n) \/ SpinAsk(n)
         \/ SpinAbort(n) \/ Requeue(n) \/ RequeueDone(n) \/ QuotaAlreadyFull(n)
         \/ DropTransaction(n) \/ AddTransaction(n) \/ QuotaNotFull(n)
         \/ MerkleAssertFails(n) \/ MineMiss(n) \/ MineHit(n)
  BY NextCases
<1>3. ASSUME NEW b, NEW point \in {"top", "requeue", "mine"},
             point = "mine" \/ b \in GoodBlock(D), StartBroadcast(n, b, point)
      PROVE  \A m \in Node : Announcing(m)' => out'[m] \in GoodBlock(D)
  <2>1. Announcing(n)' => out'[n] \in GoodBlock(D) BY <1>3, GoodBroadcast
  <2>2. ASSUME NEW m \in Node \ {n}
        PROVE  pc'[m] = pc[m] /\ next'[m] = next[m] /\ out'[m] = out[m]
    BY <1>0, <1>3 DEF StartBroadcast, Goto
  <2> QED BY <1>1, <2>1, <2>2 DEF Announcing
<1>4. ASSUME NEW b \in GoodBlock(D), NEW point \in {"top", "requeue"},
             AssertAndBroadcast(n, b, point)
      PROVE  \A m \in Node : Announcing(m)' => out'[m] \in GoodBlock(D)
  <2>1. CASE Goto(n, "dead") /\ UNCHANGED sendvars
    BY <1>0, <1>1, <2>1 DEF Goto, Announcing
  <2>2. CASE StartBroadcast(n, b, point) BY <1>3, <2>2
  <2> QED BY <1>4, <2>1, <2>2 DEF AssertAndBroadcast
<1>5. CASE Send(n)
  <2>1. \/ UNCHANGED <<pc, out, next>>
        \/ /\ Goto(n, next[n]) /\ out' = [out EXCEPT ![n] = NoBroadcast(n)]
           /\ next' = [next EXCEPT ![n] = "top"]
    BY <1>5 DEF Send
  <2>2. next[n] \notin {"send", "repair"} BY <1>0
  <2> QED BY <1>0, <1>1, <2>1, <2>2 DEF Announcing, Goto
<1>6. CASE BlockOK(n)
  <2>1. /\ TakeBlock(n, "OK") /\ add_block(n, back(bq[n]))
        /\ AssertAndBroadcast(n, get_head_block(chain'[n]), "requeue")
    BY <1>6 DEF BlockOK
  <2>2. get_head_block(chain'[n]) \in GoodBlock(D)
    BY <2>1, GoodTaken, GoodAdded
  <2> QED BY <1>4, <2>1, <2>2
<1>7. CASE MineHit(n)
  <2>1. PICK k \in Hits(n) : add_block(n, MinedBlock(n, k))
    BY <1>7 DEF MineHit
  <2>2. MinedBlock(n, k) \in GoodBlock(D)
    BY <1>7, GoodMined DEF MineHit, Origin
  <2>3. get_head_block(chain'[n]) \in GoodBlock(D) BY <2>1, <2>2, GoodAdded
  <2>4. AssertAndBroadcast(n, get_head_block(chain'[n]), "top")
    BY <1>7 DEF MineHit
  <2> QED BY <1>4, <2>3, <2>4
<1>8. CASE RepairKnown(n)
  <2>1. /\ \E code : TakeBlock(n, code)
        /\ out' = [out EXCEPT ![n] = back(bq[n])] /\ Goto(n, "repair")
        /\ UNCHANGED next
    BY <1>8 DEF RepairKnown, BlockAhead
  <2>2. back(bq[n]) \in GoodBlock(D) BY <2>1, GoodTaken
  <2> QED BY <1>0, <1>1, <2>1, <2>2 DEF Announcing, Goto
<1>9. CASE RepairCut(n)
  BY <1>1, <1>9 DEF RepairCut, Announcing
<1>10. CASE RepairDone(n)
  <2>1. StartBroadcast(n, out[n], "requeue") /\ pc[n] = "repair"
    BY <1>10 DEF RepairDone
  <2>2. out[n] \in GoodBlock(D) BY <1>1, <2>1 DEF Announcing
  <2> QED BY <1>3, <2>1, <2>2
<1>11. CASE AddTransaction(n)
  BY <1>3, <1>11 DEF AddTransaction
<1>12. CASE \/ \E t \in Tx : CastVote(n, t)
            \/ \E msg \in Foreign : ForeignBlock(n, msg)
            \/ NoBlock(n) \/ CheckCrashes(n) \/ BlockInvalid(n) \/ BlockBehind(n)
            \/ AheadTooFar(n) \/ RepairUnknown(n) \/ SpinAsk(n) \/ SpinAbort(n)
            \/ Requeue(n) \/ RequeueDone(n) \/ QuotaAlreadyFull(n)
            \/ DropTransaction(n) \/ QuotaNotFull(n) \/ MerkleAssertFails(n)
            \/ MineMiss(n)
  <2>1. /\ UNCHANGED <<chain, chain_length, out, cut>>
        /\ \/ pc' = pc
           \/ \E m \in Node, p \in {"txn", "top", "mine", "spin", "dead"} :
                 MovesTo(m, p)
    BY <1>0, <1>12, QuietMoves
  <2>2. UNCHANGED next
    BY <1>12 DEF CastVote, ForeignBlock, NoBlock, CheckCrashes, BlockInvalid,
         BlockBehind, AheadTooFar, RepairUnknown, SpinAsk, SpinAbort, Requeue,
         RequeueDone, QuotaAlreadyFull, DropTransaction, QuotaNotFull,
         MerkleAssertFails, MineMiss
  <2>3. \A m \in Node : Announcing(m)' => Announcing(m)
    BY <1>0, <2>1, <2>2 DEF Announcing, MovesTo
  <2> QED BY <1>1, <2>1, <2>3
<1> QED BY <1>2, <1>5, <1>6, <1>7, <1>8, <1>9, <1>10, <1>11, <1>12

-----------------------------------------------------------------------------
(* The theorems. *)

\* At first there is no vote and no block but genesis.
LEMMA InitOrigin ==
  ASSUME Init
  PROVE  OriginInv
<1> SUFFICES ASSUME NEW n \in Node
             PROVE  Origin(n, Cast) /\ ballots[n] \subseteq Ballots[n]
  BY DEF OriginInv
<1>1. /\ Len(chain[n]) = 1 /\ tq[n] = <<>> /\ new_block[n] = <<>>
      /\ bq[n] = <<>> /\ pc[n] = "top" /\ ballots[n] = Ballots[n]
  BY DEF Init
<1>2. \A S : <<>> \in Seq(S) OBVIOUS
<1> QED BY <1>1, <1>2 DEF Origin, Announcing

\* Once cast, a vote stays cast, and a vote that a booth delivers is cast.
LEMMA CastGrows ==
  ASSUME Inv, OriginInv, Next
  PROVE  /\ Cast \subseteq Cast'
         /\ \A m \in Node : ballots'[m] \subseteq Ballots[m]
         /\ \A m \in Node, t \in Tx : CastVote(m, t) => t \in Cast'
<1> USE DEF bcvars, wbvars, sendvars, envvars
<1>1. /\ ballots \in [Node -> SUBSET Tx]
      /\ \A m \in Node : ballots[m] \subseteq Ballots[m]
  BY DEF Inv, TypeOK, OriginInv
<1>2. \/ \E m \in Node, t \in Tx : CastVote(m, t)
      \/ UNCHANGED ballots
  BY NextCases
     DEF ForeignBlock, Send, NoBlock, CheckCrashes, BlockInvalid, BlockOK,
         BlockBehind, AheadTooFar, RepairKnown, RepairCut, RepairDone,
         RepairUnknown, SpinAsk, SpinAbort, Requeue, RequeueDone,
         QuotaAlreadyFull, DropTransaction, AddTransaction, QuotaNotFull,
         MerkleAssertFails, MineMiss, MineHit
<1>3. \A m \in Node : ballots'[m] \subseteq ballots[m]
  BY <1>1, <1>2 DEF CastVote
<1>4. Cast \subseteq Cast'
  BY <1>3 DEF Cast, Delivered, Carried
<1>5. ASSUME NEW m \in Node, NEW t \in Tx, CastVote(m, t)
      PROVE  t \in Cast'
  <2>1. t \in Ballots[m] /\ t \notin ballots'[m]
    BY <1>1, <1>5 DEF CastVote
  <2> QED BY <2>1 DEF Cast, Delivered
<1> QED BY <1>1, <1>3, <1>4, <1>5

\* Every step keeps the origin of votes and blocks.
LEMMA StepOrigin ==
  ASSUME Inv, OriginInv, Next
  PROVE  OriginInv'
<1>1. PICK D : D = Cast' OBVIOUS
<1>2. Cast \subseteq D /\ Carried \subseteq D BY <1>1, CastGrows DEF Cast, Carried
<1>3. GoodBlock(Cast) \subseteq GoodBlock(D)
  BY <1>2 DEF GoodBlock
<1>4. \A m \in Node : Origin(m, D)
  <2>1. \A S, T, q : S \subseteq T /\ q \in Seq(S) => q \in Seq(T) OBVIOUS
  <2> QED BY <1>2, <1>3, <2>1 DEF OriginInv, Origin
<1>5. \A m \in Node, t \in Tx : CastVote(m, t) => t \in D BY <1>1, CastGrows
<1>6. \A m \in Node : tq'[m] \in Seq(D) /\ new_block'[m] \in Seq(D)
  BY <1>4, <1>5, VotesStep
<1>7. \A m \in Node : bq'[m] \in Seq(GoodBlock(D)) BY <1>2, <1>4, BlocksStep
<1>8. \A m \in Node : \A i \in 2..Len(chain'[m]) : chain'[m][i] \in GoodBlock(D)
  BY <1>4, ChainStep
<1>9. \A m \in Node : Announcing(m)' => out'[m] \in GoodBlock(D)
  BY <1>4, OutStep
<1>10. GoodBlock(D) = GoodBlock(Cast)' BY <1>1 DEF GoodBlock, GoodHash, Found
<1> QED BY <1>1, <1>6, <1>7, <1>8, <1>9, <1>10, CastGrows DEF OriginInv, Origin

\* So does a step that changes nothing.
LEMMA StutterOrigin ==
  ASSUME OriginInv, UNCHANGED vars
  PROVE  OriginInv'
<1>1. UNCHANGED <<chain, tq, bq, new_block, pc, out, next, ballots>>
  BY DEF vars, bcvars, wbvars, sendvars, envvars
<1>2. Cast' = Cast BY <1>1 DEF Cast, Delivered, Carried
<1>3. GoodBlock(Cast)' = GoodBlock(Cast) BY <1>2 DEF GoodBlock, GoodHash, Found
<1>4. \A m \in Node : Announcing(m)' <=> Announcing(m) BY <1>1 DEF Announcing
<1> QED BY <1>1, <1>2, <1>3, <1>4 DEF OriginInv, Origin

\* In every behaviour of the network, votes come from booths and foreign
\* miners and hashes from mining, foreign miners and recycled bytes.
THEOREM OriginInvariance == Spec => [](Inv /\ OriginInv)
<1>1. Init => OriginInv BY InitOrigin
<1>2. Inv /\ OriginInv /\ [Next]_vars => OriginInv' BY StepOrigin, StutterOrigin
<1> QED BY <1>1, <1>2, Invariance, PTL DEF Spec

\* No vote is made up: neither the queues, nor a working block, nor a chain
\* ever holds a vote that no booth and no foreign miner brought in, but for
\* what stale pointers reach.
THEOREM VotesCast == Spec => []VotesAreCast
<1>1. Inv /\ OriginInv => VotesAreCast
  <2> SUFFICES ASSUME Inv, OriginInv, NEW n \in Node
               PROVE  /\ ToSet(tq[n]) \cup ToSet(new_block[n]) \subseteq Cast
                      /\ \A i \in 2..Len(chain[n]) :
                           ToSet(chain[n][i].transaction_array)
                              \subseteq Cast \cup Stale
    BY DEF VotesAreCast, Cast
  <2>1. tq[n] \in Seq(Cast) /\ new_block[n] \in Seq(Cast)
    BY DEF OriginInv, Origin
  <2>2. ToSet(tq[n]) \cup ToSet(new_block[n]) \subseteq Cast
    BY <2>1 DEF ToSet
  <2>3. ASSUME NEW i \in 2..Len(chain[n])
        PROVE  ToSet(chain[n][i].transaction_array) \subseteq Cast \cup Stale
    <3>1. chain[n][i] \in GoodBlock(Cast) BY DEF OriginInv, Origin
    <3>2. \A s \in Slot : chain[n][i].transaction_array[s] \in Tx
      BY DEF Inv, ChainInv, ChainVotesReadable
    <3>3. /\ DOMAIN chain[n][i].transaction_array = Slot
          /\ \A s \in Slot : chain[n][i].transaction_array[s]
                                \in Cast \cup Stale \cup {Wild}
      BY <3>1 DEF GoodBlock, Block
    <3> QED BY <3>2, <3>3, TxAssumption DEF ToSet
  <2> QED BY <2>2, <2>3
<1> QED BY <1>1, OriginInvariance, PTL

\* Every hash in a chain took the work to find, or came from a foreign miner or
\* from recycled bytes.
THEOREM HashesHaveWork == Spec => []HashesFound
<1>1. OriginInv => HashesFound
  BY DEF OriginInv, Origin, GoodBlock, GoodHash, HashesFound
<1> QED BY <1>1, OriginInvariance, PTL

=============================================================================
