---------------------------- MODULE MinerProofs -----------------------------
(***************************************************************************)
(* Proofs about Miner, for any network, votes, block size and limits and   *)
(* for any stale pointers and recycled bytes: the state of a miner stays   *)
(* well formed and no key has two votes in a chain, up to the point where  *)
(* it ends or spins in a repair.                                           *)
(***************************************************************************)
EXTENDS Miner, SequenceTheorems, TLAPS

\* A broadcast in progress has a peer to call and something to send, and a
\* repair stops at a block that is in the chain.
Control(n) ==
  /\ pc[n] = "send" => /\ left[n] # <<>>
                       /\ next[n] = "mine" => new_block[n] # <<>>
  /\ pc[n] = "repair" => cut[n] \in 1..Len(chain[n])

\* WorkingBlockFresh and QuotaMeansFull, for one node.
Work(n) ==
  IF Abandoning(n) THEN pc[n] # "dead" => ~quotafull[n]
  ELSE /\ quotafull[n] <=> Len(new_block[n]) = NUM_TRANSACTIONS_PER_BLOCK
       /\ \A i \in DOMAIN new_block[n] : KeyOf[new_block[n][i]] \notin voted[n]
       /\ \A i, j \in DOMAIN new_block[n] :
            KeyOf[new_block[n][i]] = KeyOf[new_block[n][j]] => i = j

\* What is true of the chains.
ChainInv == /\ ChainVotesReadable
            /\ VotedIsChain
            /\ OneVotePerKey
            /\ BlockNumbersAscend

\* The inductive invariant.
Inv == /\ TypeOK
       /\ ChainInv
       /\ \A n \in Node : Work(n) /\ Control(n)

-----------------------------------------------------------------------------
(* The types of the operators of Blockchain. *)

\* The genesis block of the constructor is a block, whatever its tail.
LEMMA GenesisType ==
  ASSUME NEW tail \in Nat
  PROVE  genesis(tail) \in Block
BY SizeAssumption DEF genesis, Block, Hash, Slot

\* The votes that loops up to max_ind see are transactions.
LEMMA CountedType ==
  ASSUME NEW b \in Block
  PROVE  Counted(b) \in Seq(Tx) /\ Len(Counted(b)) = b.max_ind
<1>1. b.max_ind \in Nat /\ \A i \in 1..b.max_ind : b.transaction_array[i] \in Tx
  BY SizeAssumption DEF Block
<1> QED BY <1>1, SubSeqProperties DEF Counted

\* A read through a hash pointer, dangling or not, gives a hash.
LEMMA ReadsAreHashes ==
  ASSUME NEW b \in Block
  PROVE  ReadPrev(b) \subseteq Hash /\ ReadFinhash(b) \subseteq Hash
BY RecycledAssumption DEF ReadPrev, ReadFinhash, Block

\* encode_block makes well-formed messages.
LEMMA EncodeType ==
  ASSUME NEW b \in Block, NEW msg \in encode_block(b)
  PROVE  msg \in BlockMsg
<1>1. PICK prev \in ReadPrev(b), fin \in ReadFinhash(b) :
         msg = [block_number |-> b.block_number, prev_block_sha1 |-> prev,
                final_hash |-> fin, num_transactions |-> b.max_ind,
                transaction_msg |-> Counted(b)]
  BY DEF encode_block
<1>2. prev \in Hash /\ fin \in Hash BY ReadsAreHashes
<1>3. b.block_number \in Nat /\ b.max_ind \in 0..NUM_TRANSACTIONS_PER_BLOCK
  BY DEF Block
<1> QED BY <1>1, <1>2, <1>3, CountedType DEF BlockMsg

\* decode_block makes blocks of them, whatever the fresh array held.
LEMMA DecodeType ==
  ASSUME NEW msg \in BlockMsg, NEW array \in Uninitialized
  PROVE  decode_block(msg, array) \in Received
<1>1. /\ msg.block_number \in Nat
      /\ msg.prev_block_sha1 \in Hash /\ msg.final_hash \in Hash
      /\ msg.num_transactions \in 0..NUM_TRANSACTIONS_PER_BLOCK
      /\ msg.transaction_msg \in Seq(Tx)
      /\ Len(msg.transaction_msg) = msg.num_transactions
  BY DEF BlockMsg
<1>2. array \in [Slot -> Tx \cup {Wild}]
  BY TxAssumption DEF Uninitialized
<1> DEFINE arr == [i \in Slot |-> IF i <= Len(msg.transaction_msg)
                                  THEN msg.transaction_msg[i] ELSE array[i]]
<1>3. arr \in [Slot -> Tx \cup {Wild}]
  BY <1>1, <1>2, SizeAssumption DEF Slot
<1>4. \A i \in 1..msg.num_transactions : arr[i] \in Tx
  BY <1>1, SizeAssumption DEF Slot
<1> QED BY <1>1, <1>3, <1>4 DEF decode_block, Block, Received

\* The head of a chain is one of its blocks.
LEMMA HeadType ==
  ASSUME NEW c \in Seq(Block), c # <<>>
  PROVE  get_head_block(c) \in Block
BY DEF get_head_block

\* The keys of a block are keys, even if some of its slots are wild.
LEMMA KeysType ==
  ASSUME NEW b \in Block
  PROVE  Keys(b) \subseteq Key
BY TxAssumption DEF Keys, Block

-----------------------------------------------------------------------------
(* The steps, one by one: what each leaves of the types and of the points   *)
(* at which the processing thread stands.                                   *)

\* Numbering the newest block of a queue changes no other.
LEMMA NumberedQueue ==
  ASSUME NEW q \in Seq(Received), q # <<>>, NEW num \in Nat
  PROVE  /\ Numbered(q, num) \in Seq(Received)
         /\ Len(Numbered(q, num)) = Len(q)
         /\ \A i \in 1..Len(q) : Numbered(q, num)[i] =
              IF i = Len(q) THEN [q[i] EXCEPT !.block_number = num] ELSE q[i]
<1> DEFINE last == [q[Len(q)] EXCEPT !.block_number = num]
<1>1. Numbered(q, num) = [q EXCEPT ![Len(q)] = last] BY DEF Numbered
<1>2. Len(q) \in 1..Len(q) /\ q[Len(q)] \in Received OBVIOUS
<1>3. last \in Received BY <1>2 DEF Received, Block
<1> HIDE DEF last
<1>4. /\ Numbered(q, num) \in Seq(Received) /\ Len(Numbered(q, num)) = Len(q)
      /\ \A i \in 1..Len(q) : Numbered(q, num)[i] =
            IF i = Len(q) THEN last ELSE q[i]
  BY <1>1, <1>2, <1>3
<1> QED BY <1>4 DEF last

\* What is left of a queue of blocks, numbered or not, when one is taken.
Rest(q, num) == {pop_front(q), pop_front(Numbered(q, num))}

\* Taking a block leaves the rest of its node's queue.
LEMMA TakeBlockRest ==
  ASSUME NEW n \in Node, NEW code, TakeBlock(n, code),
         bq \in [Node -> Seq(Received)]
  PROVE  \E q \in Rest(bq[n], chain_length[n] + 1) :
            /\ bq' = [bq EXCEPT ![n] = q]
            /\ code # "OK" => q = pop_front(bq[n])
BY DEF TakeBlock, Rest

\* The block taken off bq is a block, and the rest of bq a queue of blocks.
LEMMA TakeBlockType ==
  ASSUME TypeOK, NEW n \in Node, NEW code, TakeBlock(n, code)
  PROVE  /\ back(bq[n]) \in Received /\ back(bq[n]) \in Block
         /\ bq' \in [Node -> Seq(Received)]
         /\ pc[n] = "top"
<1>1. /\ bq \in [Node -> Seq(Received)] /\ bq[n] \in Seq(Received)
      /\ bq[n] # <<>> /\ pc[n] = "top" /\ chain_length[n] + 1 \in Nat
  BY DEF TypeOK, TakeBlock
<1>2. PICK q \in Rest(bq[n], chain_length[n] + 1) : bq' = [bq EXCEPT ![n] = q]
  BY <1>1, TakeBlockRest
<1>3. back(bq[n]) \in Received /\ pop_front(bq[n]) \in Seq(Received)
  BY <1>1 DEF back, pop_front
<1>4. pop_front(Numbered(bq[n], chain_length[n] + 1)) \in Seq(Received)
  <2>1. /\ Numbered(bq[n], chain_length[n] + 1) \in Seq(Received)
        /\ Len(Numbered(bq[n], chain_length[n] + 1)) # 0
    BY <1>1, NumberedQueue
  <2> QED BY <2>1 DEF pop_front
<1>5. Received \subseteq Block BY DEF Received
<1> QED BY <1>1, <1>2, <1>3, <1>4, <1>5 DEF Rest

\* Likewise for a transaction.
LEMMA TakeTransactionType ==
  ASSUME TypeOK, NEW n \in Node, TakeTransaction(n)
  PROVE  /\ back(tq[n]) \in Tx
         /\ tq' \in [Node -> Seq(Tx)]
         /\ pc[n] = "txn" /\ ~quotafull[n]
BY DEF TypeOK, TakeTransaction, back, pop_front

\* add_block keeps the types, and the renumbered block is the new head.
LEMMA AddBlockType ==
  ASSUME TypeOK, NEW n \in Node, NEW b \in Block, add_block(n, b)
  PROVE  /\ chain' \in [Node -> Seq(Block)]
         /\ chain_length' \in [Node -> Nat]
         /\ voted' \in [Node -> SUBSET Key]
         /\ \A m \in Node : chain'[m] # <<>>
         /\ get_head_block(chain'[n])
              = [b EXCEPT !.block_number = chain_length[n] + 1]
         /\ get_head_block(chain'[n]) \in Block
<1> DEFINE b1 == [b EXCEPT !.block_number = chain_length[n] + 1]
<1>1. b1 \in Block
  <2> DEFINE num == chain_length[n] + 1
  <2>1. num \in Nat BY DEF TypeOK
  <2> HIDE DEF num
  <2>2. [b EXCEPT !.block_number = num] \in Block BY <2>1 DEF Block
  <2> QED BY <2>2 DEF num
<1>2. chain' = [chain EXCEPT ![n] = Append(@, b1)] BY DEF add_block
<1> HIDE DEF b1
<1>3. /\ chain' \in [Node -> Seq(Block)]
      /\ \A m \in Node : chain'[m] # <<>>
      /\ get_head_block(chain'[n]) = b1
  <2>1. /\ chain \in [Node -> Seq(Block)] /\ chain[n] \in Seq(Block)
        /\ \A m \in Node : chain[m] # <<>>
    BY DEF TypeOK
  <2>2. /\ Append(chain[n], b1) \in Seq(Block) /\ Append(chain[n], b1) # <<>>
        /\ get_head_block(Append(chain[n], b1)) = b1
    BY <1>1, <2>1, AppendProperties DEF get_head_block
  <2> QED BY <1>2, <2>1, <2>2
<1>4. chain_length' \in [Node -> Nat] BY DEF add_block, TypeOK
<1>5. voted' \in [Node -> SUBSET Key] BY KeysType DEF add_block, TypeOK
<1> QED BY <1>1, <1>3, <1>4, <1>5 DEF b1

\* A broadcast starts with a peer to call, or is over at once.
LEMMA StartBroadcastType ==
  ASSUME TypeOK, NEW n \in Node, NEW b \in Block,
         NEW point \in {"top", "requeue", "mine"}, StartBroadcast(n, b, point)
  PROVE  /\ pc' \in [Node -> Point] /\ out' \in [Node -> Block]
         /\ left' \in [Node -> Seq(Node)]
         /\ next' \in [Node -> {"top", "requeue", "mine"}]
         /\ \A m \in Node \ {n} : /\ pc'[m] = pc[m] /\ left'[m] = left[m]
                                  /\ next'[m] = next[m]
         /\ \/ pc'[n] = point
            \/ pc'[n] = "send" /\ left'[n] # <<>> /\ next'[n] = point
<1>0. PICK peers \in Peers[n] :
         /\ left' = [left EXCEPT ![n] = peers]
         /\ \/ /\ peers = <<>>
               /\ Goto(n, point)
               /\ out' = [out EXCEPT ![n] = NoBroadcast(n)]
               /\ UNCHANGED next
            \/ /\ peers # <<>>
               /\ Goto(n, "send")
               /\ out' = [out EXCEPT ![n] = b]
               /\ next' = [next EXCEPT ![n] = point]
  BY DEF StartBroadcast
<1>1. /\ NoBroadcast(n) \in Block /\ peers \in Seq(Node)
      /\ pc \in [Node -> Point] /\ out \in [Node -> Block]
      /\ left \in [Node -> Seq(Node)]
      /\ next \in [Node -> {"top", "requeue", "mine"}]
      /\ {point, "send"} \subseteq Point
  BY NodeAssumption, GenesisType DEF TypeOK, NoBroadcast, Point
<1>2. left' = [left EXCEPT ![n] = peers] BY <1>0
<1>3. CASE peers = <<>>
  <2>1. /\ pc' = [pc EXCEPT ![n] = point] /\ next' = next
        /\ out' = [out EXCEPT ![n] = NoBroadcast(n)]
    BY <1>0, <1>3 DEF Goto
  <2> QED BY <1>1, <1>2, <2>1
<1>4. CASE peers # <<>>
  <2>1. /\ pc' = [pc EXCEPT ![n] = "send"]
        /\ out' = [out EXCEPT ![n] = b]
        /\ next' = [next EXCEPT ![n] = point]
    BY <1>0, <1>4 DEF Goto
  <2> QED BY <1>1, <1>2, <1>4, <2>1
<1> QED BY <1>3, <1>4

\* Likewise behind the assert on the block number.
LEMMA AssertAndBroadcastType ==
  ASSUME TypeOK, NEW n \in Node, NEW b \in Block,
         NEW point \in {"top", "requeue"}, AssertAndBroadcast(n, b, point)
  PROVE  /\ pc' \in [Node -> Point] /\ out' \in [Node -> Block]
         /\ left' \in [Node -> Seq(Node)] /\ cut' = cut
         /\ next' \in [Node -> {"top", "requeue", "mine"}]
         /\ \A m \in Node \ {n} : /\ pc'[m] = pc[m] /\ left'[m] = left[m]
                                  /\ next'[m] = next[m]
         /\ \/ pc'[n] \in {point, "dead"}
            \/ pc'[n] = "send" /\ left'[n] # <<>> /\ next'[n] = point
<1>1. CASE b.block_number > MaxNumber /\ Goto(n, "dead") /\ UNCHANGED sendvars
  BY <1>1 DEF TypeOK, Goto, Point, sendvars
<1>2. CASE StartBroadcast(n, b, point) /\ UNCHANGED cut
  BY <1>2, StartBroadcastType
<1> QED BY <1>1, <1>2 DEF AssertAndBroadcast, TooHigh

\* A block that a gRPC handler decodes and pushes is a block.
LEMMA HandleBlockType ==
  ASSUME TypeOK, NEW n \in Node, NEW msg \in BlockMsg, HandleBlock(n, msg)
  PROVE  bq' \in [Node -> Seq(Received)]
<1>1. PICK array \in Uninitialized :
        bq' = [bq EXCEPT ![n] = push(@, decode_block(msg, array))]
  BY DEF HandleBlock
<1>2. decode_block(msg, array) \in Received BY DecodeType
<1> QED BY <1>1, <1>2 DEF TypeOK, push

\* Likewise for a transaction.
LEMMA PushType ==
  ASSUME TypeOK, NEW n \in Node, NEW t \in Tx, HandleTransaction(n, t)
  PROVE  tq' \in [Node -> Seq(Tx)]
<1>1. tq \in [Node -> Seq(Tx)] /\ tq[n] \in Seq(Tx) BY DEF TypeOK
<1>2. Append(tq[n], t) \in Seq(Tx) BY <1>1
<1>3. tq' = [tq EXCEPT ![n] = Append(tq[n], t)] BY DEF HandleTransaction, push
<1> QED BY <1>1, <1>2, <1>3

\* The mined block is made of the full working block.
LEMMA MinedBlockType ==
  ASSUME TypeOK, NEW n \in Node, Work(n), CanMine(n), NEW k \in Hits(n)
  PROVE  MinedBlock(n, k) \in Block
<1>1. /\ new_block[n] \in Seq(Tx)
      /\ Len(new_block[n]) = NUM_TRANSACTIONS_PER_BLOCK
  BY DEF TypeOK, Work, CanMine, Abandoning
<1>2. new_block[n] \in [Slot -> Tx \cup {Wild}] BY <1>1, SizeAssumption DEF Slot
<1>3. k \in Nat BY SizeAssumption DEF Hits, TypeOK
<1>4. calculate_finhash(new_block[n], k) \in Hash
  BY <1>1, <1>3, SizeAssumption, TxAssumption, PrefixAssumption
     DEF calculate_finhash, calculate_merkle_root, Hash
<1>5. get_head_block(chain[n]).finhash \in Hash BY HeadType DEF TypeOK, Block
<1> QED BY <1>2, <1>4, <1>5, SizeAssumption DEF MinedBlock, Block

\* The node that steps, and its step.
LEMMA NextCases ==
  ASSUME Next
  PROVE  \E n \in Node :
           \/ \E t \in Tx : CastVote(n, t)
           \/ \E msg \in Foreign : ForeignBlock(n, msg)
           \/ Send(n)
           \/ NoBlock(n)
           \/ CheckCrashes(n)
           \/ BlockInvalid(n)
           \/ BlockOK(n)
           \/ BlockBehind(n)
           \/ AheadTooFar(n)
           \/ RepairKnown(n)
           \/ RepairCut(n)
           \/ RepairDone(n)
           \/ RepairUnknown(n)
           \/ SpinAsk(n)
           \/ SpinAbort(n)
           \/ Requeue(n)
           \/ RequeueDone(n)
           \/ QuotaAlreadyFull(n)
           \/ DropTransaction(n)
           \/ AddTransaction(n)
           \/ QuotaNotFull(n)
           \/ MerkleAssertFails(n)
           \/ MineMiss(n)
           \/ MineHit(n)
BY DEF Next, Process, ProcessBlock, ProcessTransaction, Environment

\* Steps that change nothing but the processing thread's point, and perhaps
\* drop a block from bq.
Move(n, from, to) ==
  /\ pc[n] \in from
  /\ pc' = [pc EXCEPT ![n] = to]
  /\ bq' \in [Node -> Seq(Received)]
  /\ UNCHANGED <<chain, chain_length, voted, tq, new_block, magic, quotafull,
                 out, cut, left, next, ballots, foreign>>

\* The parts of Inv hold on where what they speak of does not change.
LEMMA ChainSame ==
  ASSUME ChainInv, UNCHANGED <<chain, chain_length, voted>>
  PROVE  ChainInv'
<1>1. ChainVotesReadable' BY DEF ChainInv, ChainVotesReadable
<1>2. VotedIsChain' BY DEF ChainInv, VotedIsChain
<1>3. OneVotePerKey' BY DEF ChainInv, OneVotePerKey
<1>4. BlockNumbersAscend' BY DEF ChainInv, BlockNumbersAscend
<1> QED BY <1>1, <1>2, <1>3, <1>4 DEF ChainInv

\* A node of which nothing but the queues changed is in order as before.
LEMMA Elsewhere ==
  ASSUME NEW m \in Node, Work(m), Control(m),
         /\ pc'[m] = pc[m] /\ next'[m] = next[m] /\ left'[m] = left[m]
         /\ cut'[m] = cut[m] /\ new_block'[m] = new_block[m]
         /\ quotafull'[m] = quotafull[m] /\ voted'[m] = voted[m]
         /\ chain'[m] = chain[m]
  PROVE  Work(m)' /\ Control(m)'
BY DEF Work, Control, Abandoning

\* A step to the end of the process, or between points at which the working
\* block is in use, keeps the invariant.
LEMMA MoveInv ==
  ASSUME Inv, NEW n \in Node, NEW from, NEW to \in Point, Move(n, from, to),
         \/ to = "dead"
         \/ /\ from \subseteq {"top", "txn", "mine"}
            /\ to \in {"top", "txn", "mine", "spin"}
  PROVE  Inv'
<1> USE DEF Inv, Move
<1>1. TypeOK' BY DEF TypeOK
<1>2. ChainInv' BY ChainSame
<1>3. Work(n)' /\ Control(n)'
  BY DEF Work, Control, Abandoning, TypeOK
<1>4. \A m \in Node \ {n} : Work(m)' /\ Control(m)'
  BY DEF Work, Control, Abandoning, TypeOK
<1> QED BY <1>1, <1>2, <1>3, <1>4

\* The actions that are such steps.
LEMMA Moves ==
  ASSUME TypeOK, NEW n \in Node
  PROVE  /\ NoBlock(n) \/ CheckCrashes(n) \/ BlockInvalid(n) \/ BlockBehind(n)
            \/ AheadTooFar(n) \/ RepairUnknown(n) \/ QuotaAlreadyFull(n)
            \/ QuotaNotFull(n) \/ MerkleAssertFails(n)
            => \E to \in {"top", "txn", "mine", "spin", "dead"} :
                  Move(n, {"top", "txn", "mine"}, to)
         /\ SpinAbort(n) => Move(n, {"spin"}, "dead")
         /\ SpinAsk(n) => \E m \in Node : Move(m, Point, "dead")
<1> USE DEF Move, Goto, bcvars, wbvars, sendvars, envvars
<1>0. bq \in [Node -> Seq(Received)] /\ pc \in [Node -> Point] BY DEF TypeOK
<1>1. ASSUME NoBlock(n) PROVE Move(n, {"top"}, "txn")
  BY <1>0, <1>1 DEF NoBlock
<1>2. ASSUME CheckCrashes(n) PROVE Move(n, {"top"}, "dead")
  BY <1>0, <1>2, TakeBlockType DEF CheckCrashes
<1>3. ASSUME BlockInvalid(n) PROVE Move(n, {"top"}, "top")
  <2>1. pc[n] = "top" /\ bq' \in [Node -> Seq(Received)]
    BY <1>3, TakeBlockType DEF BlockInvalid
  <2>2. pc' = [pc EXCEPT ![n] = "top"] BY <1>0, <1>3, <2>1 DEF BlockInvalid
  <2> QED BY <1>3, <2>1, <2>2 DEF BlockInvalid
<1>4. ASSUME BlockBehind(n) PROVE Move(n, {"top"}, "top")
  <2>1. pc[n] = "top" /\ bq' \in [Node -> Seq(Received)]
    BY <1>4, TakeBlockType DEF BlockBehind
  <2>2. pc' = [pc EXCEPT ![n] = "top"] BY <1>0, <1>4, <2>1 DEF BlockBehind
  <2> QED BY <1>4, <2>1, <2>2 DEF BlockBehind
<1>5. ASSUME AheadTooFar(n) PROVE Move(n, {"top"}, "dead")
  BY <1>0, <1>5, TakeBlockType DEF AheadTooFar, BlockAhead
<1>6. ASSUME QuotaAlreadyFull(n) PROVE Move(n, {"txn"}, "mine")
  BY <1>0, <1>6 DEF QuotaAlreadyFull
<1>7. ASSUME QuotaNotFull(n) PROVE Move(n, {"mine"}, "top")
  BY <1>0, <1>7 DEF QuotaNotFull
<1>8. ASSUME MerkleAssertFails(n) PROVE Move(n, {"mine"}, "dead")
  BY <1>0, <1>8 DEF MerkleAssertFails
<1>9. ASSUME SpinAbort(n) PROVE Move(n, {"spin"}, "dead")
  BY <1>0, <1>9 DEF SpinAbort
<1>10. ASSUME RepairUnknown(n) PROVE Move(n, {"top"}, "dead") \/ Move(n, {"top"}, "spin")
  BY <1>0, <1>10, TakeBlockType DEF RepairUnknown, BlockAhead
<1>11. ASSUME SpinAsk(n) PROVE \E m \in Node : Move(m, Point, "dead")
  <2>1. PICK peers \in Peers[n] : \E peer \in ToSet(peers) : Goto(peer, "dead")
    BY <1>11 DEF SpinAsk
  <2>2. PICK peer \in ToSet(peers) : Goto(peer, "dead") BY <2>1
  <2>3. peers \in Seq(Node) BY NodeAssumption
  <2>4. peer \in Node BY <2>3 DEF ToSet
  <2> QED BY <1>0, <1>11, <2>2, <2>4 DEF SpinAsk
<1> QED BY <1>1, <1>2, <1>3, <1>4, <1>5, <1>6, <1>7, <1>8, <1>9, <1>10, <1>11 DEF Move

-----------------------------------------------------------------------------
(* The chain: adding a block whose votes are new, and taking one off. *)

\* A key of a block is the key of one of its votes.
LEMMA KeysOf ==
  ASSUME NEW b \in Block, \A s \in Slot : b.transaction_array[s] \in Tx
  PROVE  Keys(b) = {KeyOf[b.transaction_array[s]] : s \in Slot}
BY TxAssumption DEF Keys

\* A block that passes check_block_validity has votes in all its slots, and
\* none of a key that has voted.
LEMMA ValidBlock ==
  ASSUME NEW c, NEW v, NEW b \in Block, "OK" \in check_block_validity(c, v, b)
  PROVE  /\ \A s \in Slot : b.transaction_array[s] \in Tx
         /\ Keys(b) \cap v = {}
<1>1. verify_transactions(v, b) = "ok"
  BY DEF check_block_validity
<1>2. Suspect(v, b) = {}
  BY <1>1 DEF verify_transactions
<1>3. \A s \in Slot : /\ b.transaction_array[s] \in Tx
                      /\ KeyOf[b.transaction_array[s]] \notin v
  BY <1>2 DEF Suspect, Block
<1> QED BY <1>3, KeysOf

\* Adding a block of new votes to a chain keeps what is true of the chains.
LEMMA AddBlockChain ==
  ASSUME TypeOK, ChainInv, NEW n \in Node, NEW b \in Block,
         add_block(n, b),
         \A s \in Slot : b.transaction_array[s] \in Tx,
         Keys(b) \cap voted[n] = {},
         "finhash" \notin b.freed =>
            \A s, t \in Slot : KeyOf[b.transaction_array[s]]
                                = KeyOf[b.transaction_array[t]] => s = t
  PROVE  ChainInv'
<1> DEFINE b1 == [b EXCEPT !.block_number = chain_length[n] + 1]
           L == Len(chain[n])
<1>1. /\ b1.transaction_array = b.transaction_array /\ b1.freed = b.freed
      /\ b1.block_number = chain_length[n] + 1 /\ Keys(b1) = Keys(b)
  BY DEF Block, Keys
<1>2. /\ chain' = [chain EXCEPT ![n] = Append(chain[n], b1)]
      /\ voted' = [voted EXCEPT ![n] = voted[n] \cup Keys(b1)]
      /\ chain_length' = [chain_length EXCEPT ![n] = chain_length[n] + 1]
  BY <1>1 DEF add_block
<1>3. b1 \in Block
  <2> DEFINE num == chain_length[n] + 1
  <2>1. num \in Nat BY DEF TypeOK
  <2> HIDE DEF num
  <2>2. [b EXCEPT !.block_number = num] \in Block BY <2>1 DEF Block
  <2> QED BY <2>2 DEF num
<1>4. chain[n] \in Seq(Block) /\ L \in Nat /\ L >= 1
  BY DEF TypeOK
<1> HIDE DEF b1
\* The chains of the other nodes, and this one below its new head.
<1>5. /\ Len(chain'[n]) = L + 1 /\ chain'[n][L + 1] = b1
      /\ \A i \in 1..L : chain'[n][i] = chain[n][i]
      /\ voted'[n] = voted[n] \cup Keys(b1)
      /\ chain_length'[n] = chain_length[n] + 1
  <2>1. chain'[n] = Append(chain[n], b1) BY <1>2 DEF TypeOK
  <2>2. voted'[n] = voted[n] \cup Keys(b1) BY <1>2 DEF TypeOK
  <2>3. chain_length'[n] = chain_length[n] + 1 BY <1>2 DEF TypeOK
  <2> QED BY <1>3, <1>4, <2>1, <2>2, <2>3, AppendProperties
<1>6. \A m \in Node \ {n} : /\ chain'[m] = chain[m] /\ voted'[m] = voted[m]
                             /\ chain_length'[m] = chain_length[m]
  BY <1>2 DEF TypeOK
<1> HIDE DEF L
<1>7. ChainVotesReadable'
  BY <1>1, <1>4, <1>5, <1>6 DEF ChainInv, ChainVotesReadable, L
<1>8. VotedIsChain'
  <2>1. ASSUME NEW m \in Node
        PROVE  voted'[m] = {k \in Key : \E i \in 2..Len(chain'[m]) :
                                          k \in Keys(chain'[m][i])}
    <3>1. voted[m] = {k \in Key : \E i \in 2..Len(chain[m]) :
                                    k \in Keys(chain[m][i])}
      BY DEF ChainInv, VotedIsChain
    <3>2. CASE m = n
      <4>1. Keys(b1) \subseteq Key BY <1>3, KeysType
      <4>2. \A i \in 2..L + 1 : i \in 2..L \/ i = L + 1 BY <1>4
      <4>3. L + 1 \in 2..L + 1 /\ \A i \in 2..L : i \in 2..L + 1 BY <1>4
      <4>4. /\ Len(chain'[n]) = L + 1
            /\ \A i \in 2..L : Keys(chain'[n][i]) = Keys(chain[n][i])
            /\ Keys(chain'[n][L + 1]) = Keys(b1)
        BY <1>4, <1>5
      <4> QED BY <1>5, <3>1, <3>2, <4>1, <4>2, <4>3, <4>4 DEF L
    <3>3. CASE m # n BY <1>6, <3>1, <3>3
    <3> QED BY <3>2, <3>3
  <2> QED BY <2>1 DEF VotedIsChain
<1>9. OneVotePerKey'
  <2>1. \A i \in 2..L : Keys(chain[n][i]) \cap Keys(b1) = {}
    <3>1. \A i \in 2..L : Keys(chain[n][i]) \subseteq voted[n]
      <4>1. voted[n] = {k \in Key : \E i \in 2..L : k \in Keys(chain[n][i])}
        BY DEF ChainInv, VotedIsChain, L
      <4>2. \A i \in 2..L : Keys(chain[n][i]) \subseteq Key
        BY <1>4, KeysType DEF L
      <4> QED BY <4>1, <4>2
    <3> QED BY <1>1, <3>1
  <2>2. \A i, j \in 2..Len(chain'[n]) :
           i # j => Keys(chain'[n][i]) \cap Keys(chain'[n][j]) = {}
    <3>1. \A i, j \in 2..L :
             i # j => Keys(chain[n][i]) \cap Keys(chain[n][j]) = {}
      BY DEF ChainInv, OneVotePerKey, VotesOnce, L
    <3>2. \A i \in 2..L + 1 : i \in 2..L \/ i = L + 1 BY <1>4
    <3>3. /\ Len(chain'[n]) = L + 1
          /\ \A i \in 2..L : Keys(chain'[n][i]) = Keys(chain[n][i])
          /\ Keys(chain'[n][L + 1]) = Keys(b1)
      BY <1>4, <1>5
    <3> QED BY <2>1, <3>1, <3>2, <3>3, Zenon
  <2>3. \A i \in 2..Len(chain'[n]) : "finhash" \notin chain'[n][i].freed =>
           \A s, t \in Slot : KeyOf[chain'[n][i].transaction_array[s]]
               = KeyOf[chain'[n][i].transaction_array[t]] => s = t
    <3>1. \A i \in 2..L + 1 : i \in 2..L \/ i = L + 1 BY <1>4
    <3>2. \A i \in 2..L : "finhash" \notin chain[n][i].freed =>
             \A s, t \in Slot : KeyOf[chain[n][i].transaction_array[s]]
                 = KeyOf[chain[n][i].transaction_array[t]] => s = t
      BY DEF ChainInv, OneVotePerKey, VotesOnce, L
    <3>3. \A i \in 2..L : chain'[n][i] = chain[n][i] BY <1>4, <1>5
    <3> QED BY <1>1, <1>5, <3>1, <3>2, <3>3
  <2>4. VotesOnce(chain'[n]) BY <2>2, <2>3 DEF VotesOnce
  <2> QED BY <1>6, <2>4 DEF ChainInv, OneVotePerKey
<1>10. BlockNumbersAscend'
  <2>1. get_head_block(chain'[n]) = b1 BY <1>5 DEF get_head_block
  <2>2. b1.block_number = chain_length'[n] BY <1>1, <1>5
  <2>3. chain[n][L].block_number < chain_length[n] + 1
    <3>1. chain[n][L].block_number <= chain_length[n]
      BY DEF ChainInv, BlockNumbersAscend, get_head_block, L
    <3>2. chain[n][L] \in Block BY <1>4 DEF L
    <3>3. chain[n][L].block_number \in Nat BY <3>2 DEF Block
    <3>4. chain_length[n] \in Nat BY DEF TypeOK
    <3> QED BY <3>1, <3>3, <3>4
  <2>4. \A i \in 2..Len(chain'[n]) :
           chain'[n][i - 1].block_number < chain'[n][i].block_number
    <3> TAKE i \in 2..Len(chain'[n])
    <3>1. CASE i = L + 1 BY <1>1, <1>4, <1>5, <2>3, <3>1
    <3>2. CASE i \in 2..L
      BY <1>4, <1>5, <3>2 DEF ChainInv, BlockNumbersAscend, L
    <3> QED BY <1>4, <1>5, <3>1, <3>2
  <2>5. chain'[n][1].block_number = 1
    BY <1>4, <1>5 DEF ChainInv, BlockNumbersAscend
  <2>6. chain_length'[n] \in Nat BY <1>5 DEF TypeOK
  <2> QED BY <1>6, <2>1, <2>2, <2>4, <2>5, <2>6
          DEF ChainInv, BlockNumbersAscend, get_head_block
<1> QED BY <1>7, <1>8, <1>9, <1>10 DEF ChainInv

\* What repair_blockchain does to the chain in one round of its second loop.
LEMMA RepairCutChain ==
  ASSUME TypeOK, ChainInv, NEW n \in Node, Control(n), RepairCut(n)
  PROVE  /\ ChainInv'
         /\ chain' \in [Node -> Seq(Block)] /\ voted' \in [Node -> SUBSET Key]
         /\ voted'[n] \subseteq voted[n]
         /\ Len(chain'[n]) = Len(chain[n]) - 1 /\ Len(chain'[n]) >= cut[n]
         /\ \A m \in Node \ {n} : chain'[m] = chain[m] /\ voted'[m] = voted[m]
         /\ \A m \in Node : chain'[m] # <<>>
<1> DEFINE L == Len(chain[n])
           h == chain[n][L]
<1>1. /\ chain[n] \in Seq(Block) /\ L \in Nat /\ L > cut[n] /\ cut[n] >= 1
      /\ cut[n] \in Nat /\ h \in Block
  BY DEF TypeOK, Control, RepairCut
<1>2. /\ chain' = [chain EXCEPT ![n] = SubSeq(chain[n], 1, L - 1)]
      /\ voted' = [voted EXCEPT ![n] = voted[n] \ Keys(h)]
      /\ chain_length' = chain_length
  BY DEF RepairCut, get_head_block, Front
<1> HIDE DEF L, h
<1>3. /\ SubSeq(chain[n], 1, L - 1) \in Seq(Block)
      /\ Len(SubSeq(chain[n], 1, L - 1)) = L - 1
      /\ \A i \in 1..L - 1 : SubSeq(chain[n], 1, L - 1)[i] = chain[n][i]
  BY <1>1, SubSeqProperties DEF L
<1>4. /\ chain'[n] \in Seq(Block) /\ Len(chain'[n]) = L - 1
      /\ \A i \in 1..L - 1 : chain'[n][i] = chain[n][i]
      /\ voted'[n] = voted[n] \ Keys(h)
      /\ chain' \in [Node -> Seq(Block)] /\ voted' \in [Node -> SUBSET Key]
  BY <1>2, <1>3 DEF TypeOK
<1>5. \A m \in Node \ {n} : chain'[m] = chain[m] /\ voted'[m] = voted[m]
  BY <1>2 DEF TypeOK
<1>6. \A m \in Node : chain'[m] # <<>>
  <2>1. chain'[n] # <<>> BY <1>1, <1>4
  <2> QED BY <1>5, <2>1 DEF TypeOK
\* Of each node's chain, what is left is an initial part.
<1>7. ASSUME NEW m \in Node
      PROVE  /\ Len(chain'[m]) <= Len(chain[m]) /\ Len(chain'[m]) \in Nat
             /\ Len(chain'[m]) >= 1 /\ Len(chain[m]) \in Nat
             /\ \A i \in 1..Len(chain'[m]) : chain'[m][i] = chain[m][i]
  <2>1. CASE m = n BY <1>1, <1>4, <2>1 DEF L
  <2>2. CASE m # n
    <3>1. chain'[m] = chain[m] BY <1>5, <2>2
    <3>2. chain[m] \in Seq(Block) /\ chain[m] # <<>> BY DEF TypeOK
    <3> QED BY <3>1, <3>2
  <2> QED BY <2>1, <2>2
<1>8. ChainVotesReadable'
  BY <1>7 DEF ChainInv, ChainVotesReadable
<1>9. OneVotePerKey'
  <2>1. ASSUME NEW m \in Node PROVE VotesOnce(chain'[m])
    <3>1. VotesOnce(chain[m]) BY DEF ChainInv, OneVotePerKey
    <3>2. \A i \in 2..Len(chain'[m]) :
             i \in 2..Len(chain[m]) /\ chain'[m][i] = chain[m][i]
      BY <1>7
    <3>3. \A i, j \in 2..Len(chain'[m]) :
             i # j => Keys(chain'[m][i]) \cap Keys(chain'[m][j]) = {}
      BY <3>1, <3>2, Zenon DEF VotesOnce
    <3>4. \A i \in 2..Len(chain'[m]) : "finhash" \notin chain'[m][i].freed =>
             \A s, t \in Slot : KeyOf[chain'[m][i].transaction_array[s]]
                = KeyOf[chain'[m][i].transaction_array[t]] => s = t
      BY <3>1, <3>2 DEF VotesOnce
    <3> QED BY <3>3, <3>4 DEF VotesOnce
  <2> QED BY <2>1 DEF OneVotePerKey
<1>10. BlockNumbersAscend'
  <2> SUFFICES ASSUME NEW m \in Node
               PROVE  /\ chain'[m][1].block_number = 1
                      /\ \A i \in 2..Len(chain'[m]) :
                           chain'[m][i - 1].block_number
                             < chain'[m][i].block_number
                      /\ chain'[m][Len(chain'[m])].block_number
                           <= chain_length[m]
    BY <1>2 DEF BlockNumbersAscend, get_head_block
  <2>1. /\ chain[m][1].block_number = 1
        /\ \A i \in 2..Len(chain[m]) :
             chain[m][i - 1].block_number < chain[m][i].block_number
        /\ chain[m][Len(chain[m])].block_number <= chain_length[m]
    BY DEF ChainInv, BlockNumbersAscend, get_head_block
  <2>2. \A i \in 2..Len(chain'[m]) :
           chain'[m][i - 1].block_number < chain'[m][i].block_number
    <3>1. \A i \in 2..Len(chain'[m]) : /\ i \in 1..Len(chain'[m])
                                       /\ i - 1 \in 1..Len(chain'[m])
                                       /\ i \in 2..Len(chain[m])
      BY <1>7
    <3>2. \A i \in 2..Len(chain'[m]) : /\ chain'[m][i] = chain[m][i]
                                       /\ chain'[m][i - 1] = chain[m][i - 1]
      BY <1>7, <3>1
    <3> QED BY <2>1, <3>1, <3>2
  <2>3. chain'[m][1].block_number = 1 BY <1>7, <2>1
  <2>4. chain'[m][Len(chain'[m])].block_number <= chain_length[m]
    <3>1. CASE m = n
      <4>1. /\ chain[n][L - 1].block_number < chain[n][L].block_number
            /\ chain[n][L].block_number <= chain_length[n]
        <5>1. L \in 2..L BY <1>1
        <5> QED BY <2>1, <3>1, <5>1 DEF L
      <4>2. /\ chain[n][L - 1] \in Block /\ chain[n][L] \in Block
            /\ chain_length[n] \in Nat
        <5>1. L \in 1..L /\ L - 1 \in 1..L BY <1>1
        <5>2. \A i \in 1..L : chain[n][i] \in Block BY <1>1 DEF L
        <5> QED BY <5>1, <5>2 DEF TypeOK
      <4>3. chain'[n][Len(chain'[n])] = chain[n][L - 1] BY <1>1, <1>4
      <4> QED BY <3>1, <4>1, <4>2, <4>3 DEF Block
    <3>2. CASE m # n BY <1>5, <2>1, <3>2
    <3> QED BY <3>1, <3>2
  <2> QED BY <2>2, <2>3, <2>4
\* Taking the keys of the old head out of voted leaves those of the others,
\* because no key is in two blocks.
<1>11. VotedIsChain'
  <2>1. ASSUME NEW m \in Node
        PROVE  voted'[m] = {k \in Key : \E i \in 2..Len(chain'[m]) :
                                          k \in Keys(chain'[m][i])}
    <3>1. voted[m] = {k \in Key : \E i \in 2..Len(chain[m]) :
                                    k \in Keys(chain[m][i])}
      BY DEF ChainInv, VotedIsChain
    <3>2. CASE m = n
      <4>1. \A i \in 2..L - 1 : Keys(chain[n][i]) \cap Keys(h) = {}
        <5>1. \A i, j \in 2..L :
                 i # j => Keys(chain[n][i]) \cap Keys(chain[n][j]) = {}
          BY DEF ChainInv, OneVotePerKey, VotesOnce, L
        <5>2. L \in 2..L /\ \A i \in 2..L - 1 : i \in 2..L /\ i # L BY <1>1
        <5> QED BY <5>1, <5>2 DEF h
      <4>2. \A i \in 2..L : i \in 2..L - 1 \/ i = L BY <1>1
      <4>3. L \in 2..L /\ \A i \in 2..L - 1 : i \in 2..L BY <1>1
      <4>4. /\ Len(chain'[n]) = L - 1 /\ Len(chain[n]) = L
            /\ \A i \in 2..L - 1 : Keys(chain'[n][i]) = Keys(chain[n][i])
            /\ Keys(chain[n][L]) = Keys(h)
        <5>1. \A i \in 2..L - 1 : chain'[n][i] = chain[n][i] BY <1>1, <1>4
        <5> QED BY <1>4, <5>1 DEF L, h
      <4> QED BY <1>4, <3>1, <3>2, <4>1, <4>2, <4>3, <4>4
    <3>3. CASE m # n BY <1>5, <3>1, <3>3
    <3> QED BY <3>2, <3>3
  <2> QED BY <2>1 DEF VotedIsChain
<1> QED BY <1>1, <1>4, <1>5, <1>6, <1>8, <1>9, <1>10, <1>11 DEF ChainInv, L

-----------------------------------------------------------------------------
(* The steps that change more than the processing thread's point. *)

\* Every part of a node's state but its queues is as before.
Same(m) == /\ pc'[m] = pc[m] /\ next'[m] = next[m] /\ left'[m] = left[m]
           /\ cut'[m] = cut[m] /\ new_block'[m] = new_block[m]
           /\ quotafull'[m] = quotafull[m] /\ voted'[m] = voted[m]
           /\ chain'[m] = chain[m]

\* To show Inv' after a step of n, its own part is enough.
LEMMA StepOf ==
  ASSUME Inv, NEW n \in Node, TypeOK', ChainInv', Work(n)', Control(n)',
         \A m \in Node \ {n} : Same(m)
  PROVE  Inv'
<1>1. \A m \in Node \ {n} : Work(m)' /\ Control(m)'
  BY Elsewhere DEF Inv, Same
<1> QED BY <1>1 DEF Inv

\* A handler only lengthens a queue.
LEMMA HandlersInv ==
  ASSUME Inv, NEW n \in Node,
         \/ \E t \in Tx : CastVote(n, t)
         \/ \E msg \in Foreign : ForeignBlock(n, msg)
  PROVE  Inv'
<1> USE DEF Inv
<1>1. /\ UNCHANGED <<chain, chain_length, voted>> /\ Same(n)
      /\ \A m \in Node \ {n} : Same(m)
  BY DEF CastVote, ForeignBlock, Same, bcvars, wbvars, sendvars
<1>2. TypeOK'
  <2>1. CASE \E t \in Tx : CastVote(n, t)
    <3>1. /\ tq' \in [Node -> Seq(Tx)] /\ ballots' \in [Node -> SUBSET Tx]
          /\ UNCHANGED <<bcvars, bq, wbvars, pc, sendvars, foreign>>
      BY <2>1 DEF CastVote, HandleTransaction, TypeOK, push
    <3> QED BY <3>1 DEF TypeOK, bcvars, wbvars, sendvars
  <2>2. CASE \E msg \in Foreign : ForeignBlock(n, msg)
    <3>1. bq' \in [Node -> Seq(Received)]
      BY <2>2, NodeAssumption, HandleBlockType DEF ForeignBlock
    <3>2. /\ foreign' \in [Node -> Nat]
          /\ UNCHANGED <<bcvars, tq, wbvars, pc, sendvars, ballots>>
      BY <2>2 DEF ForeignBlock, TypeOK
    <3> QED BY <3>1, <3>2 DEF TypeOK, bcvars, wbvars, sendvars
  <2> QED BY <2>1, <2>2
<1>3. ChainInv' BY <1>1, ChainSame
<1>4. Work(n)' /\ Control(n)' BY <1>1, Elsewhere DEF Same
<1> QED BY <1>1, <1>2, <1>3, <1>4, StepOf

\* One RPC of a broadcast: the peer may get the message or not.
LEMMA SendStepInv ==
  ASSUME Inv, NEW n \in Node, Send(n)
  PROVE  Inv'
<1> USE DEF Inv
<1>1. /\ pc[n] = "send" /\ left[n] # <<>> /\ left[n] \in Seq(Node)
      /\ next[n] = "mine" => new_block[n] # <<>>
      /\ Head(left[n]) \in Node
  BY DEF Send, Control, TypeOK
<1>2. UNCHANGED <<chain, chain_length, voted, new_block, magic, quotafull, cut,
                  ballots, foreign>>
  BY DEF Send, bcvars, wbvars, envvars
<1>3. tq' \in [Node -> Seq(Tx)] /\ bq' \in [Node -> Seq(Received)]
  <2>0. DeliverTo(n, Head(left[n])) \/ UNCHANGED <<tq, bq>> BY DEF Send
  <2>1. CASE UNCHANGED <<tq, bq>> BY <2>1 DEF TypeOK
  <2>2. CASE DeliverTo(n, Head(left[n]))
    <3>1. CASE /\ SendingTransaction(n) /\ UNCHANGED bq
               /\ HandleTransaction(Head(left[n]), back(new_block[n]))
      <4>1. back(new_block[n]) \in Tx
        BY <1>1, <3>1 DEF SendingTransaction, back, TypeOK
      <4>2. PICK v \in Tx : HandleTransaction(Head(left[n]), v)
        BY <3>1, <4>1
      <4> QED BY <1>1, <3>1, <4>2, PushType DEF TypeOK
    <3>2. CASE /\ \E msg \in encode_block(out[n]) : HandleBlock(Head(left[n]), msg)
               /\ UNCHANGED tq
      <4>1. out[n] \in Block BY DEF TypeOK
      <4>2. PICK msg \in encode_block(out[n]) : HandleBlock(Head(left[n]), msg)
        BY <3>2
      <4>3. msg \in BlockMsg BY <4>1, EncodeType
      <4>4. bq' \in [Node -> Seq(Received)]
        BY <1>1, <4>2, <4>3, HandleBlockType
      <4> QED BY <3>2, <4>4 DEF TypeOK
    <3> QED BY <2>2, <3>1, <3>2 DEF DeliverTo
  <2> QED BY <2>0, <2>1, <2>2
<1>4. left' = [left EXCEPT ![n] = Tail(@)] BY DEF Send
<1>5. \/ Len(left[n]) > 1 /\ UNCHANGED <<pc, out, next>>
      \/ /\ pc' = [pc EXCEPT ![n] = next[n]]
         /\ out' = [out EXCEPT ![n] = NoBroadcast(n)]
         /\ next' = [next EXCEPT ![n] = "top"]
  BY DEF Send, Goto
<1>6. TypeOK'
  <2>1. left' \in [Node -> Seq(Node)] BY <1>1, <1>4 DEF TypeOK
  <2>2. pc' \in [Node -> Point]
    <3>1. pc \in [Node -> Point] /\ next[n] \in Point BY DEF TypeOK, Point
    <3> QED BY <1>5, <3>1
  <2>3. next' \in [Node -> {"top", "requeue", "mine"}] BY <1>5 DEF TypeOK
  <2>4. out' \in [Node -> Block]
    <3>1. out \in [Node -> Block] /\ NoBroadcast(n) \in Block
      BY NodeAssumption, GenesisType DEF TypeOK, NoBroadcast
    <3> QED BY <1>5, <3>1
  <2> QED BY <1>2, <1>3, <2>1, <2>2, <2>3, <2>4 DEF TypeOK
<1>7. ChainInv' BY <1>2, ChainSame
<1>8. \A m \in Node \ {n} : Same(m) BY <1>2, <1>4, <1>5 DEF Same, TypeOK
<1>9. Work(n)' /\ Control(n)'
  <2>1. CASE Len(left[n]) > 1 /\ UNCHANGED <<pc, out, next>>
    <3>1. left'[n] # <<>>
      <4>1. left'[n] = Tail(left[n]) BY <1>4 DEF TypeOK
      <4>2. Len(Tail(left[n])) = Len(left[n]) - 1 BY <1>1, HeadTailProperties
      <4>3. Len(left[n]) \in Nat /\ Len(left'[n]) > 0 BY <1>1, <2>1, <4>1, <4>2
      <4> QED BY <4>3, EmptySeq
    <3>2. Work(n)'
      <4>1. /\ pc' = pc /\ next' = next /\ quotafull' = quotafull
            /\ new_block' = new_block /\ voted' = voted
        BY <1>2, <2>1
      <4> QED BY <4>1 DEF Work, Abandoning
    <3>3. Control(n)' BY <1>1, <1>2, <2>1, <3>1 DEF Control
    <3> QED BY <3>2, <3>3
  <2>2. CASE pc' = [pc EXCEPT ![n] = next[n]]
    <3>1. /\ pc'[n] = next[n] /\ next[n] \in {"top", "requeue", "mine"}
          /\ pc[n] = "send"
      BY <1>1, <2>2 DEF TypeOK
    <3>2. Control(n)' BY <3>1 DEF Control
    <3>3. Work(n)'
      <4>1. Abandoning(n)' <=> Abandoning(n) BY <3>1 DEF Abandoning
      <4>2. pc[n] # "dead" /\ pc'[n] # "dead" BY <3>1
      <4>3. /\ quotafull' = quotafull /\ new_block' = new_block /\ voted' = voted
        BY <1>2
      <4>4. Work(n) OBVIOUS
      <4> QED BY <4>1, <4>2, <4>3, <4>4 DEF Work
    <3> QED BY <3>2, <3>3
  <2> QED BY <1>5, <2>1, <2>2
<1> QED BY <1>6, <1>7, <1>8, <1>9, StepOf

\* A node whose thread goes on to a broadcast on the way to the requeueing,
\* to the requeueing itself or to its end has abandoned its working block.
LEMMA Abandons ==
  ASSUME TypeOK, NEW n \in Node, quotafull' = [quotafull EXCEPT ![n] = FALSE],
         \/ pc'[n] \in {"requeue", "dead"}
         \/ pc'[n] = "send" /\ left'[n] # <<>> /\ next'[n] = "requeue"
  PROVE  Work(n)' /\ Control(n)'
<1>1. quotafull'[n] = FALSE BY DEF TypeOK
<1>2. Abandoning(n)' BY DEF Abandoning
<1>3. Work(n)' BY <1>1, <1>2 DEF Work
<1>4. Control(n)' BY DEF Control
<1> QED BY <1>3, <1>4

\* A received block is accepted: its votes are new, and it is the head now.
LEMMA BlockOKInv ==
  ASSUME Inv, NEW n \in Node, BlockOK(n)
  PROVE  Inv'
<1> USE DEF Inv
<1> DEFINE b == back(bq[n])
<1>1. /\ TakeBlock(n, "OK") /\ add_block(n, b)
      /\ AssertAndBroadcast(n, get_head_block(chain'[n]), "requeue")
      /\ quotafull' = [quotafull EXCEPT ![n] = FALSE]
      /\ UNCHANGED <<tq, new_block, magic, ballots, foreign>>
  BY DEF BlockOK, envvars
<1>2. b \in Received /\ b \in Block /\ bq' \in [Node -> Seq(Received)]
  BY <1>1, TakeBlockType
<1>3. "OK" \in check_block_validity(chain[n], voted[n], b)
  BY <1>1 DEF TakeBlock
<1> HIDE DEF b
<1>4. /\ \A s \in Slot : b.transaction_array[s] \in Tx
      /\ Keys(b) \cap voted[n] = {}
  BY <1>2, <1>3, ValidBlock
<1>5. "finhash" \in b.freed BY <1>2 DEF Received
<1>6. ChainInv' BY <1>1, <1>2, <1>4, <1>5, AddBlockChain
<1>7. /\ chain' \in [Node -> Seq(Block)]
      /\ chain_length' \in [Node -> Nat]
      /\ voted' \in [Node -> SUBSET Key]
      /\ \A m \in Node : chain'[m] # <<>>
      /\ get_head_block(chain'[n]) \in Block
  BY <1>1, <1>2, AddBlockType
<1>8. /\ pc' \in [Node -> Point] /\ out' \in [Node -> Block]
      /\ left' \in [Node -> Seq(Node)] /\ cut' = cut
      /\ next' \in [Node -> {"top", "requeue", "mine"}]
      /\ \A m \in Node \ {n} : /\ pc'[m] = pc[m] /\ left'[m] = left[m]
                               /\ next'[m] = next[m]
      /\ \/ pc'[n] \in {"requeue", "dead"}
         \/ pc'[n] = "send" /\ left'[n] # <<>> /\ next'[n] = "requeue"
  BY <1>1, <1>7, AssertAndBroadcastType
<1>9. TypeOK'
  <2>1. quotafull' \in [Node -> BOOLEAN] BY <1>1 DEF TypeOK
  <2> QED BY <1>1, <1>2, <1>7, <1>8, <2>1 DEF TypeOK
<1>10. Work(n)' /\ Control(n)' BY <1>1, <1>8, Abandons
<1>11. \A m \in Node \ {n} : Same(m)
  <2>1. \A m \in Node \ {n} : chain'[m] = chain[m] /\ voted'[m] = voted[m]
    BY <1>1 DEF add_block, TypeOK
  <2>2. \A m \in Node \ {n} : quotafull'[m] = quotafull[m]
    BY <1>1 DEF TypeOK
  <2> QED BY <1>1, <1>8, <2>1, <2>2 DEF Same
<1> QED BY <1>6, <1>9, <1>10, <1>11, StepOf

\* The block searched for is in the chain, at the place where the cut stops.
LEMMA RepairKnownInv ==
  ASSUME Inv, NEW n \in Node, RepairKnown(n)
  PROVE  Inv'
<1> USE DEF Inv
<1> DEFINE b == back(bq[n])
<1>1. /\ TakeBlock(n, "PREV_BLOCK_NONMATCH")
      /\ out' = [out EXCEPT ![n] = b]
      /\ pc' = [pc EXCEPT ![n] = "repair"]
      /\ UNCHANGED <<chain, chain_length, voted, tq, new_block, magic,
                     quotafull, left, next, ballots, foreign>>
  BY DEF RepairKnown, BlockAhead, Goto, bcvars, wbvars, envvars
<1>2. b \in Block /\ bq' \in [Node -> Seq(Received)] /\ pc[n] = "top"
  BY <1>1, TakeBlockType
<1>3. PICK i \in check_if_block_in_chain(chain[n], b) \ {0} :
        cut' = [cut EXCEPT ![n] = i]
  BY DEF RepairKnown
<1> HIDE DEF b
<1>4. i \in 1..Len(chain[n])
  <2>1. i \in 0..Len(chain[n]) /\ i # 0
    BY <1>3 DEF check_if_block_in_chain, get_block
  <2>2. Len(chain[n]) \in Nat BY DEF TypeOK
  <2> QED BY <2>1, <2>2
<1>5. TypeOK'
  <2>1. out' \in [Node -> Block] BY <1>1, <1>2 DEF TypeOK
  <2>2. pc' \in [Node -> Point] BY <1>1 DEF TypeOK, Point
  <2>3. cut' \in [Node -> Nat]
    <3>1. i \in Nat BY <1>4
    <3> QED BY <1>3, <3>1 DEF TypeOK
  <2> QED BY <1>1, <1>2, <2>1, <2>2, <2>3 DEF TypeOK
<1>6. ChainInv' BY <1>1, ChainSame
<1>7. pc'[n] = "repair" /\ cut'[n] = i BY <1>1, <1>3 DEF TypeOK
<1>8. Control(n)' BY <1>1, <1>4, <1>7 DEF Control
<1>9. Work(n)'
  <2>1. ~Abandoning(n) /\ ~Abandoning(n)' BY <1>2, <1>7 DEF Abandoning
  <2>2. Work(n) OBVIOUS
  <2> QED BY <1>1, <2>1, <2>2 DEF Work
<1>10. \A m \in Node \ {n} : Same(m) BY <1>1, <1>3 DEF Same, TypeOK
<1> QED BY <1>5, <1>6, <1>8, <1>9, <1>10, StepOf

\* A block is taken off the chain: voted shrinks, so the votes of the working
\* block stay fresh.
LEMMA RepairCutInv ==
  ASSUME Inv, NEW n \in Node, RepairCut(n)
  PROVE  Inv'
<1> USE DEF Inv
<1>1. /\ pc[n] = "repair" /\ Len(chain[n]) > cut[n]
      /\ tq' = [tq EXCEPT ![n] = @ \o Counted(get_head_block(chain[n]))]
      /\ UNCHANGED <<chain_length, bq, new_block, magic, quotafull, pc, out,
                     cut, left, next, ballots, foreign>>
  BY DEF RepairCut, wbvars, sendvars, envvars
<1>2. /\ ChainInv'
      /\ chain' \in [Node -> Seq(Block)] /\ voted' \in [Node -> SUBSET Key]
      /\ voted'[n] \subseteq voted[n]
      /\ Len(chain'[n]) = Len(chain[n]) - 1 /\ Len(chain'[n]) >= cut[n]
      /\ \A m \in Node \ {n} : chain'[m] = chain[m] /\ voted'[m] = voted[m]
      /\ \A m \in Node : chain'[m] # <<>>
  BY RepairCutChain
<1>3. TypeOK'
  <2>1. tq' \in [Node -> Seq(Tx)]
    <3>1. get_head_block(chain[n]) \in Block BY HeadType DEF TypeOK
    <3>2. Counted(get_head_block(chain[n])) \in Seq(Tx) BY <3>1, CountedType
    <3>3. tq \in [Node -> Seq(Tx)] /\ tq[n] \in Seq(Tx) BY DEF TypeOK
    <3>4. tq[n] \o Counted(get_head_block(chain[n])) \in Seq(Tx)
      BY <3>2, <3>3, ConcatProperties
    <3> QED BY <1>1, <3>3, <3>4
  <2> QED BY <1>1, <1>2, <2>1 DEF TypeOK
<1>4. Control(n)'
  <2>1. cut[n] \in 1..Len(chain'[n])
    <3>1. cut[n] \in 1..Len(chain[n]) BY <1>1 DEF Control
    <3>2. Len(chain'[n]) \in Nat BY <1>2
    <3> QED BY <1>2, <3>1, <3>2
  <2> QED BY <1>1, <2>1 DEF Control
<1>5. Work(n)'
  <2>1. ~Abandoning(n) /\ ~Abandoning(n)' BY <1>1 DEF Abandoning
  <2>2. Work(n) OBVIOUS
  <2> QED BY <1>1, <1>2, <2>1, <2>2 DEF Work
<1>6. \A m \in Node \ {n} : Same(m) BY <1>1, <1>2 DEF Same
<1> QED BY <1>2, <1>3, <1>4, <1>5, <1>6, StepOf

\* The repair ends: the block it was made for is broadcast again.
LEMMA RepairDoneInv ==
  ASSUME Inv, NEW n \in Node, RepairDone(n)
  PROVE  Inv'
<1> USE DEF Inv
<1>1. /\ cut' = [cut EXCEPT ![n] = 0]
      /\ StartBroadcast(n, out[n], "requeue")
      /\ quotafull' = [quotafull EXCEPT ![n] = FALSE]
      /\ UNCHANGED <<chain, chain_length, voted, tq, bq, new_block, magic,
                     ballots, foreign>>
  BY DEF RepairDone, bcvars, envvars
<1>2. out[n] \in Block BY DEF TypeOK
<1>3. /\ pc' \in [Node -> Point] /\ out' \in [Node -> Block]
      /\ left' \in [Node -> Seq(Node)]
      /\ next' \in [Node -> {"top", "requeue", "mine"}]
      /\ \A m \in Node \ {n} : /\ pc'[m] = pc[m] /\ left'[m] = left[m]
                               /\ next'[m] = next[m]
      /\ \/ pc'[n] = "requeue"
         \/ pc'[n] = "send" /\ left'[n] # <<>> /\ next'[n] = "requeue"
  BY <1>1, <1>2, StartBroadcastType
<1>4. TypeOK'
  <2>1. quotafull' \in [Node -> BOOLEAN] /\ cut' \in [Node -> Nat]
    BY <1>1 DEF TypeOK
  <2> QED BY <1>1, <1>3, <2>1 DEF TypeOK
<1>5. ChainInv' BY <1>1, ChainSame
<1>6. Work(n)' /\ Control(n)' BY <1>1, <1>3, Abandons
<1>7. \A m \in Node \ {n} : Same(m)
  <2>1. \A m \in Node \ {n} : quotafull'[m] = quotafull[m] /\ cut'[m] = cut[m]
    BY <1>1 DEF TypeOK
  <2> QED BY <1>1, <1>3, <2>1 DEF Same
<1> QED BY <1>4, <1>5, <1>6, <1>7, StepOf

\* The votes of the abandoned working block go back to tq one by one, and
\* mining starts afresh with an empty one.
LEMMA RequeueInv ==
  ASSUME Inv, NEW n \in Node, Requeue(n) \/ RequeueDone(n)
  PROVE  Inv'
<1> USE DEF Inv
<1>1. CASE Requeue(n)
  <2>1. /\ pc[n] = "requeue" /\ new_block[n] # <<>>
        /\ HandleTransaction(n, Head(new_block[n]))
        /\ new_block' = [new_block EXCEPT ![n] = Tail(@)]
        /\ UNCHANGED <<chain, chain_length, voted, bq, magic, quotafull, pc,
                       out, cut, left, next, ballots, foreign>>
    BY <1>1 DEF Requeue, bcvars, sendvars, envvars
  <2>2. /\ new_block \in [Node -> Seq(Tx)] /\ new_block[n] \in Seq(Tx)
        /\ Len(new_block[n]) <= NUM_TRANSACTIONS_PER_BLOCK
    BY DEF TypeOK
  <2>3. /\ Head(new_block[n]) \in Tx /\ Tail(new_block[n]) \in Seq(Tx)
        /\ Len(Tail(new_block[n])) = Len(new_block[n]) - 1
    BY <2>1, <2>2, HeadTailProperties
  <2>4. tq' \in [Node -> Seq(Tx)] BY <2>1, <2>3, PushType
  <2>5. TypeOK'
    <3>1. new_block' \in [Node -> Seq(Tx)] BY <2>1, <2>2, <2>3
    <3>2. \A m \in Node : Len(new_block'[m]) <= NUM_TRANSACTIONS_PER_BLOCK
      <4>1. Len(new_block[n]) \in Nat BY <2>2
      <4>2. Len(new_block'[n]) <= NUM_TRANSACTIONS_PER_BLOCK
        BY <2>1, <2>2, <2>3, <4>1, SizeAssumption
      <4>3. \A m \in Node \ {n} : new_block'[m] = new_block[m]
        BY <2>1, <2>2
      <4> QED BY <4>2, <4>3 DEF TypeOK
    <3> QED BY <2>1, <2>4, <3>1, <3>2 DEF TypeOK
  <2>6. Work(n)' /\ Control(n)'
    <3>1. Abandoning(n) /\ Abandoning(n)' BY <2>1 DEF Abandoning
    <3>2. Work(n) OBVIOUS
    <3>3. Work(n)' BY <2>1, <3>1, <3>2 DEF Work
    <3>4. Control(n)' BY <2>1 DEF Control
    <3> QED BY <3>3, <3>4
  <2>7. ChainInv' BY <2>1, ChainSame
  <2>8. \A m \in Node \ {n} : Same(m) BY <2>1, <2>2 DEF Same
  <2> QED BY <2>5, <2>6, <2>7, <2>8, StepOf
<1>2. CASE RequeueDone(n)
  <2>1. /\ pc[n] = "requeue" /\ new_block[n] = <<>>
        /\ magic' = [magic EXCEPT ![n] = 0]
        /\ pc' = [pc EXCEPT ![n] = "txn"]
        /\ UNCHANGED <<chain, chain_length, voted, tq, bq, new_block,
                       quotafull, out, cut, left, next, ballots, foreign>>
    BY <1>2 DEF RequeueDone, Goto, bcvars, sendvars, envvars
  <2>2. TypeOK'
    <3>1. magic' \in [Node -> Nat] /\ pc' \in [Node -> Point]
      BY <2>1 DEF TypeOK, Point
    <3> QED BY <2>1, <3>1 DEF TypeOK
  <2>3. pc'[n] = "txn" BY <2>1 DEF TypeOK
  <2>4. Control(n)' BY <2>3 DEF Control
  <2>5. Work(n)'
    <3>1. ~Abandoning(n)' BY <2>3 DEF Abandoning
    <3>2. ~quotafull[n] BY <2>1 DEF Work, Abandoning
    <3>3. Len(new_block[n]) = 0 /\ DOMAIN new_block[n] = {} BY <2>1
    <3> QED BY <2>1, <3>1, <3>2, <3>3, SizeAssumption DEF Work
  <2>6. ChainInv' BY <2>1, ChainSame
  <2>7. \A m \in Node \ {n} : Same(m) BY <2>1 DEF Same, TypeOK
  <2> QED BY <2>2, <2>4, <2>5, <2>6, <2>7, StepOf
<1> QED BY <1>1, <1>2

\* A transaction of a key that has voted is thrown out.
LEMMA DropTransactionInv ==
  ASSUME Inv, NEW n \in Node, DropTransaction(n)
  PROVE  Inv'
<1> USE DEF Inv
<1>1. /\ TakeTransaction(n)
      /\ pc' = [pc EXCEPT ![n] = "top"]
      /\ UNCHANGED <<chain, chain_length, voted, bq, new_block, magic,
                     quotafull, out, cut, left, next, ballots, foreign>>
  BY DEF DropTransaction, Goto, bcvars, wbvars, sendvars, envvars
<1>2. tq' \in [Node -> Seq(Tx)] /\ pc[n] = "txn"
  BY <1>1, TakeTransactionType
<1>3. TypeOK'
  <2>1. pc' \in [Node -> Point] BY <1>1 DEF TypeOK, Point
  <2> QED BY <1>1, <1>2, <2>1 DEF TypeOK
<1>4. pc'[n] = "top" BY <1>1 DEF TypeOK
<1>5. Control(n)' BY <1>4 DEF Control
<1>6. Work(n)'
  <2>1. ~Abandoning(n) /\ ~Abandoning(n)' BY <1>2, <1>4 DEF Abandoning
  <2>2. Work(n) OBVIOUS
  <2> QED BY <1>1, <2>1, <2>2 DEF Work
<1>7. ChainInv' BY <1>1, ChainSame
<1>8. \A m \in Node \ {n} : Same(m) BY <1>1 DEF Same, TypeOK
<1> QED BY <1>3, <1>5, <1>6, <1>7, <1>8, StepOf

\* A transaction of a new key joins the working block, which has room for it.
LEMMA AddTransactionInv ==
  ASSUME Inv, NEW n \in Node, AddTransaction(n)
  PROVE  Inv'
<1> USE DEF Inv
<1> DEFINE t == back(tq[n])
           w == new_block[n]
           N == NUM_TRANSACTIONS_PER_BLOCK
<1>1. /\ TakeTransaction(n)
      /\ KeyOf[t] \notin voted[n]
      /\ \A i \in DOMAIN w : KeyOf[w[i]] # KeyOf[t]
      /\ new_block' = [new_block EXCEPT ![n] = Append(w, t)]
      /\ quotafull' = [quotafull EXCEPT ![n] = (Len(w) + 1 = N)]
      /\ StartBroadcast(n, NoBroadcast(n), "mine")
      /\ UNCHANGED <<chain, chain_length, voted, bq, magic, cut, ballots,
                     foreign>>
  BY DEF AddTransaction, FillsBlock, InNewBlock, bcvars, envvars
<1>2. t \in Tx /\ tq' \in [Node -> Seq(Tx)] /\ pc[n] = "txn" /\ ~quotafull[n]
  BY <1>1, TakeTransactionType
<1>3. /\ new_block \in [Node -> Seq(Tx)] /\ w \in Seq(Tx) /\ Len(w) \in Nat
      /\ Len(w) < N /\ N \in Nat
      /\ \A i \in DOMAIN w : KeyOf[w[i]] \notin voted[n]
      /\ \A i, j \in DOMAIN w : KeyOf[w[i]] = KeyOf[w[j]] => i = j
  <2>1. ~Abandoning(n) BY <1>2 DEF Abandoning
  <2>2. /\ Len(w) # N
        /\ \A i \in DOMAIN w : KeyOf[w[i]] \notin voted[n]
        /\ \A i, j \in DOMAIN w : KeyOf[w[i]] = KeyOf[w[j]] => i = j
    BY <1>2, <2>1 DEF Work
  <2>3. /\ new_block \in [Node -> Seq(Tx)] /\ w \in Seq(Tx) /\ Len(w) \in Nat
        /\ Len(w) <= N /\ N \in Nat
    BY SizeAssumption DEF TypeOK
  <2> QED BY <2>2, <2>3
<1> HIDE DEF t, w, N
<1>4. /\ Append(w, t) \in Seq(Tx) /\ Len(Append(w, t)) = Len(w) + 1
      /\ \A i \in 1..Len(w) : Append(w, t)[i] = w[i]
      /\ Append(w, t)[Len(w) + 1] = t
  BY <1>2, <1>3, AppendProperties
<1>5. /\ new_block'[n] = Append(w, t) /\ new_block' \in [Node -> Seq(Tx)]
      /\ \A m \in Node \ {n} : new_block'[m] = new_block[m]
  BY <1>1, <1>3, <1>4
<1>6. /\ quotafull'[n] = (Len(w) + 1 = N) /\ quotafull' \in [Node -> BOOLEAN]
      /\ \A m \in Node \ {n} : quotafull'[m] = quotafull[m]
  BY <1>1 DEF TypeOK
<1>7. NoBroadcast(n) \in Block
  BY NodeAssumption, GenesisType DEF NoBroadcast
<1>8. /\ pc' \in [Node -> Point] /\ out' \in [Node -> Block]
      /\ left' \in [Node -> Seq(Node)]
      /\ next' \in [Node -> {"top", "requeue", "mine"}]
      /\ \A m \in Node \ {n} : /\ pc'[m] = pc[m] /\ left'[m] = left[m]
                               /\ next'[m] = next[m]
      /\ \/ pc'[n] = "mine"
         \/ pc'[n] = "send" /\ left'[n] # <<>> /\ next'[n] = "mine"
  BY <1>1, <1>7, StartBroadcastType
<1>9. TypeOK'
  <2>1. \A m \in Node : Len(new_block'[m]) <= NUM_TRANSACTIONS_PER_BLOCK
    <3>1. Len(new_block'[n]) <= NUM_TRANSACTIONS_PER_BLOCK
      BY <1>3, <1>4, <1>5 DEF N
    <3> QED BY <1>5, <3>1 DEF TypeOK
  <2> QED BY <1>1, <1>2, <1>5, <1>6, <1>8, <2>1 DEF TypeOK
<1>10. Control(n)'
  <2>1. Len(new_block'[n]) > 0 BY <1>3, <1>4, <1>5
  <2>2. new_block'[n] # <<>> BY <2>1, EmptySeq
  <2> QED BY <1>8, <2>2 DEF Control
<1>11. Work(n)'
  <2> DEFINE w1 == new_block'[n]
  <2>1. ~Abandoning(n)' BY <1>8 DEF Abandoning
  <2>2. quotafull'[n] <=> Len(w1) = N BY <1>4, <1>5, <1>6
  <2>3. /\ DOMAIN w1 = 1..Len(w) + 1 /\ DOMAIN w = 1..Len(w)
        /\ \A i \in 1..Len(w) : w1[i] = w[i]
        /\ w1[Len(w) + 1] = t
    BY <1>3, <1>4, <1>5
  <2>4. \A i \in 1..Len(w) + 1 : i \in 1..Len(w) \/ i = Len(w) + 1
    BY <1>3
  <2> HIDE DEF w1
  <2>5. \A i \in DOMAIN w1 : KeyOf[w1[i]] \notin voted[n]
    BY <1>1, <1>3, <2>3, <2>4
  <2>6. \A i, j \in DOMAIN w1 : KeyOf[w1[i]] = KeyOf[w1[j]] => i = j
    <3> SUFFICES ASSUME NEW i \in DOMAIN w1, NEW j \in DOMAIN w1,
                        KeyOf[w1[i]] = KeyOf[w1[j]]
                 PROVE  i = j
      OBVIOUS
    <3>1. /\ i \in 1..Len(w) \/ i = Len(w) + 1
          /\ j \in 1..Len(w) \/ j = Len(w) + 1
      BY <2>3, <2>4
    <3>2. CASE i \in 1..Len(w) /\ j \in 1..Len(w) BY <1>3, <2>3, <3>2
    <3>3. CASE i = Len(w) + 1 /\ j \in 1..Len(w) BY <1>1, <2>3, <3>3
    <3>4. CASE i \in 1..Len(w) /\ j = Len(w) + 1 BY <1>1, <2>3, <3>4
    <3> QED BY <3>1, <3>2, <3>3, <3>4
  <2> QED BY <1>1, <2>1, <2>2, <2>5, <2>6 DEF Work, w1, N
<1>12. ChainInv' BY <1>1, ChainSame
<1>13. \A m \in Node \ {n} : Same(m) BY <1>1, <1>5, <1>6, <1>8 DEF Same
<1> QED BY <1>9, <1>10, <1>11, <1>12, <1>13, StepOf

\* A round of mining that finds nothing only counts the magic up.
LEMMA MineMissInv ==
  ASSUME Inv, NEW n \in Node, MineMiss(n)
  PROVE  Inv'
<1> USE DEF Inv
<1>1. /\ pc[n] = "mine"
      /\ magic' = [magic EXCEPT ![n] = @ + NUM_MAGIC_TO_TRY]
      /\ pc' = [pc EXCEPT ![n] = "top"]
      /\ UNCHANGED <<chain, chain_length, voted, tq, bq, new_block,
                     quotafull, out, cut, left, next, ballots, foreign>>
  BY DEF MineMiss, CanMine, Goto, bcvars, sendvars, envvars
<1>2. TypeOK'
  <2>1. magic' \in [Node -> Nat] BY <1>1, SizeAssumption DEF TypeOK
  <2>2. pc' \in [Node -> Point] BY <1>1 DEF TypeOK, Point
  <2> QED BY <1>1, <2>1, <2>2 DEF TypeOK
<1>3. pc'[n] = "top" BY <1>1 DEF TypeOK
<1>4. Control(n)' BY <1>3 DEF Control
<1>5. Work(n)'
  <2>1. ~Abandoning(n) /\ ~Abandoning(n)' BY <1>1, <1>3 DEF Abandoning
  <2>2. Work(n) OBVIOUS
  <2> QED BY <1>1, <2>1, <2>2 DEF Work
<1>6. ChainInv' BY <1>1, ChainSame
<1>7. \A m \in Node \ {n} : Same(m) BY <1>1 DEF Same, TypeOK
<1> QED BY <1>2, <1>4, <1>5, <1>6, <1>7, StepOf

\* A mined block is added: it is the full working block, whose votes have
\* different keys that have not voted.
LEMMA MineHitInv ==
  ASSUME Inv, NEW n \in Node, MineHit(n)
  PROVE  Inv'
<1> USE DEF Inv
<1>1. /\ CanMine(n)
      /\ AssertAndBroadcast(n, get_head_block(chain'[n]), "top")
      /\ quotafull' = [quotafull EXCEPT ![n] = FALSE]
      /\ new_block' = [new_block EXCEPT ![n] = <<>>]
      /\ magic' = [magic EXCEPT ![n] = 0]
      /\ UNCHANGED <<tq, bq, ballots, foreign>>
  BY DEF MineHit, envvars
<1>2. PICK k \in Hits(n) : add_block(n, MinedBlock(n, k)) BY DEF MineHit
<1> DEFINE b == MinedBlock(n, k)
<1>3. b \in Block BY <1>1, MinedBlockType
<1>4. /\ \A s \in Slot : b.transaction_array[s] \in Tx
      /\ \A s \in Slot : KeyOf[b.transaction_array[s]] \notin voted[n]
      /\ \A s, t \in Slot : KeyOf[b.transaction_array[s]]
                             = KeyOf[b.transaction_array[t]] => s = t
  <2>1. ~Abandoning(n) /\ quotafull[n] BY <1>1 DEF CanMine, Abandoning
  <2>2. /\ Len(new_block[n]) = NUM_TRANSACTIONS_PER_BLOCK
        /\ \A i \in DOMAIN new_block[n] : KeyOf[new_block[n][i]] \notin voted[n]
        /\ \A i, j \in DOMAIN new_block[n] :
             KeyOf[new_block[n][i]] = KeyOf[new_block[n][j]] => i = j
    BY <2>1 DEF Work
  <2>3. new_block[n] \in Seq(Tx) BY DEF TypeOK
  <2>4. DOMAIN new_block[n] = Slot /\ \A s \in Slot : new_block[n][s] \in Tx
    BY <2>2, <2>3 DEF Slot
  <2>5. b.transaction_array = new_block[n] BY DEF MinedBlock
  <2> QED BY <2>2, <2>4, <2>5
<1> HIDE DEF b
<1>5. Keys(b) \cap voted[n] = {} BY <1>3, <1>4, KeysOf
<1>6. add_block(n, b) BY <1>2 DEF b
<1>7. ChainInv' BY <1>3, <1>4, <1>5, <1>6, AddBlockChain
<1>8. /\ chain' \in [Node -> Seq(Block)]
      /\ chain_length' \in [Node -> Nat]
      /\ voted' \in [Node -> SUBSET Key]
      /\ \A m \in Node : chain'[m] # <<>>
      /\ get_head_block(chain'[n]) \in Block
  BY <1>3, <1>6, AddBlockType
<1>9. /\ pc' \in [Node -> Point] /\ out' \in [Node -> Block]
      /\ left' \in [Node -> Seq(Node)] /\ cut' = cut
      /\ next' \in [Node -> {"top", "requeue", "mine"}]
      /\ \A m \in Node \ {n} : /\ pc'[m] = pc[m] /\ left'[m] = left[m]
                               /\ next'[m] = next[m]
      /\ \/ pc'[n] \in {"top", "dead"}
         \/ pc'[n] = "send" /\ left'[n] # <<>> /\ next'[n] = "top"
  BY <1>1, <1>8, AssertAndBroadcastType
<1>10. /\ quotafull' \in [Node -> BOOLEAN] /\ quotafull'[n] = FALSE
       /\ \A m \in Node \ {n} : quotafull'[m] = quotafull[m]
  BY <1>1 DEF TypeOK
<1>11. /\ new_block' \in [Node -> Seq(Tx)] /\ new_block'[n] = <<>>
       /\ \A m \in Node \ {n} : new_block'[m] = new_block[m]
  BY <1>1 DEF TypeOK
<1>12. TypeOK'
  <2>1. magic' \in [Node -> Nat] BY <1>1 DEF TypeOK
  <2>2. \A m \in Node : Len(new_block'[m]) <= NUM_TRANSACTIONS_PER_BLOCK
    <3>1. Len(new_block'[n]) = 0 BY <1>11
    <3>2. Len(new_block'[n]) <= NUM_TRANSACTIONS_PER_BLOCK
      BY <3>1, SizeAssumption
    <3> QED BY <1>11, <3>2 DEF TypeOK
  <2> QED BY <1>1, <1>8, <1>9, <1>10, <1>11, <2>1, <2>2 DEF TypeOK
<1>13. Control(n)' BY <1>9 DEF Control
<1>14. Work(n)'
  <2>1. Len(new_block'[n]) = 0 /\ DOMAIN new_block'[n] = {} BY <1>11
  <2> QED BY <1>10, <2>1, SizeAssumption DEF Work
<1>15. \A m \in Node \ {n} : Same(m)
  <2>1. \A m \in Node \ {n} : chain'[m] = chain[m] /\ voted'[m] = voted[m]
    BY <1>6 DEF add_block, TypeOK
  <2> QED BY <1>9, <1>10, <1>11, <2>1 DEF Same
<1> QED BY <1>7, <1>12, <1>13, <1>14, <1>15, StepOf

-----------------------------------------------------------------------------
(* The theorems. *)

\* Every miner starts with a genesis block, empty queues and no votes.
LEMMA InitInv ==
  ASSUME Init
  PROVE  Inv
<1>1. TypeOK
  <2>1. \A n \in Node : genesis(Tail0[n]) \in Block
    BY NodeAssumption, GenesisType
  <2>2. /\ chain \in [Node -> Seq(Block)]
        /\ \A n \in Node : chain[n] # <<>>
    BY <2>1 DEF Init
  <2>3. out \in [Node -> Block] BY <2>1 DEF Init, NoBroadcast
  <2>4. /\ new_block \in [Node -> Seq(Tx)]
        /\ \A n \in Node : Len(new_block[n]) <= NUM_TRANSACTIONS_PER_BLOCK
    BY SizeAssumption DEF Init
  <2>5. /\ chain_length \in [Node -> Nat] /\ voted \in [Node -> SUBSET Key]
        /\ tq \in [Node -> Seq(Tx)] /\ bq \in [Node -> Seq(Received)]
        /\ magic \in [Node -> Nat] /\ quotafull \in [Node -> BOOLEAN]
    BY DEF Init
  <2>6. /\ pc \in [Node -> Point] /\ cut \in [Node -> Nat]
        /\ left \in [Node -> Seq(Node)]
        /\ next \in [Node -> {"top", "requeue", "mine"}]
        /\ ballots \in [Node -> SUBSET Tx] /\ foreign \in [Node -> Nat]
    BY NodeAssumption DEF Init, Point
  <2> QED BY <2>2, <2>3, <2>4, <2>5, <2>6 DEF TypeOK
<1>2. ASSUME NEW n \in Node
      PROVE  /\ Len(chain[n]) = 1 /\ chain[n][1].block_number = 1
             /\ voted[n] = {} /\ chain_length[n] = 1
             /\ \A i \in 2..Len(chain[n]) : FALSE
  BY DEF Init, genesis
<1>3. ChainVotesReadable BY <1>2 DEF ChainVotesReadable
<1>4. VotedIsChain BY <1>2 DEF VotedIsChain
<1>5. OneVotePerKey BY <1>2 DEF OneVotePerKey, VotesOnce
<1>6. BlockNumbersAscend BY <1>2 DEF BlockNumbersAscend, get_head_block
<1>7. \A n \in Node : Control(n) BY DEF Init, Control
<1>8. ASSUME NEW n \in Node PROVE Work(n)
  <2>1. new_block[n] = <<>> /\ quotafull[n] = FALSE /\ voted[n] = {}
    BY DEF Init
  <2>2. Len(new_block[n]) = 0 /\ DOMAIN new_block[n] = {} BY <2>1
  <2> QED BY <2>1, <2>2, SizeAssumption DEF Work
<1> QED BY <1>1, <1>3, <1>4, <1>5, <1>6, <1>7, <1>8 DEF Inv, ChainInv

\* A step that changes no variable keeps the invariant.
LEMMA StutterInv ==
  ASSUME Inv, UNCHANGED vars
  PROVE  Inv'
<1> USE DEF Inv
<1>1. UNCHANGED <<chain, chain_length, voted, tq, bq, new_block, magic,
                  quotafull, pc, out, cut, left, next, ballots, foreign>>
  BY DEF vars, bcvars, wbvars, sendvars, envvars
<1>2. TypeOK' BY <1>1 DEF TypeOK
<1>3. ChainInv' BY <1>1, ChainSame
<1>4. \A n \in Node : Work(n)' /\ Control(n)' BY <1>1, Elsewhere
<1> QED BY <1>2, <1>3, <1>4

\* Every step of a miner, a booth or a foreign miner keeps the invariant.
LEMMA StepInv ==
  ASSUME Inv, Next
  PROVE  Inv'
<1>1. PICK n \in Node :
           \/ \E t \in Tx : CastVote(n, t)
           \/ \E msg \in Foreign : ForeignBlock(n, msg)
           \/ Send(n)
           \/ NoBlock(n)
           \/ CheckCrashes(n)
           \/ BlockInvalid(n)
           \/ BlockOK(n)
           \/ BlockBehind(n)
           \/ AheadTooFar(n)
           \/ RepairKnown(n)
           \/ RepairCut(n)
           \/ RepairDone(n)
           \/ RepairUnknown(n)
           \/ SpinAsk(n)
           \/ SpinAbort(n)
           \/ Requeue(n)
           \/ RequeueDone(n)
           \/ QuotaAlreadyFull(n)
           \/ DropTransaction(n)
           \/ AddTransaction(n)
           \/ QuotaNotFull(n)
           \/ MerkleAssertFails(n)
           \/ MineMiss(n)
           \/ MineHit(n)
  BY NextCases
<1>2. CASE \/ NoBlock(n) \/ CheckCrashes(n) \/ BlockInvalid(n)
           \/ BlockBehind(n) \/ AheadTooFar(n) \/ RepairUnknown(n)
           \/ QuotaAlreadyFull(n) \/ QuotaNotFull(n) \/ MerkleAssertFails(n)
  <2>1. PICK to \in {"top", "txn", "mine", "spin", "dead"} :
          Move(n, {"top", "txn", "mine"}, to)
    BY <1>2, Moves DEF Inv
  <2>2. to \in Point BY DEF Point
  <2> QED BY <2>1, <2>2, MoveInv
<1>3. CASE SpinAsk(n)
  <2>1. PICK m \in Node : Move(m, Point, "dead") BY <1>3, Moves DEF Inv
  <2> QED BY <2>1, MoveInv DEF Point
<1>4. CASE SpinAbort(n)
  <2>1. Move(n, {"spin"}, "dead") BY <1>4, Moves DEF Inv
  <2> QED BY <2>1, MoveInv DEF Point
<1>5. CASE \/ \E t \in Tx : CastVote(n, t)
           \/ \E msg \in Foreign : ForeignBlock(n, msg)
  BY <1>5, HandlersInv
<1>6. CASE Send(n) BY <1>6, SendStepInv
<1>7. CASE BlockOK(n) BY <1>7, BlockOKInv
<1>8. CASE RepairKnown(n) BY <1>8, RepairKnownInv
<1>9. CASE RepairCut(n) BY <1>9, RepairCutInv
<1>10. CASE RepairDone(n) BY <1>10, RepairDoneInv
<1>11. CASE Requeue(n) \/ RequeueDone(n) BY <1>11, RequeueInv
<1>12. CASE DropTransaction(n) BY <1>12, DropTransactionInv
<1>13. CASE AddTransaction(n) BY <1>13, AddTransactionInv
<1>14. CASE MineMiss(n) BY <1>14, MineMissInv
<1>15. CASE MineHit(n) BY <1>15, MineHitInv
<1> QED BY <1>1, <1>2, <1>3, <1>4, <1>5, <1>6, <1>7, <1>8, <1>9, <1>10, <1>11,
           <1>12, <1>13, <1>14, <1>15

\* The invariant holds throughout every behaviour of the network.
THEOREM Invariance == Spec => []Inv
<1>1. Init => Inv BY InitInv
<1>2. Inv /\ [Next]_vars => Inv' BY StepInv, StutterInv
<1> QED BY <1>1, <1>2, PTL DEF Spec

\* Every variable keeps its type: queues hold decoded blocks and votes, the
\* working block never overflows transaction_array, no chain is ever empty.
THEOREM TypeCorrect == Spec => []TypeOK
<1>1. Inv => TypeOK BY DEF Inv
<1> QED BY <1>1, Invariance, PTL

\* Nobody's vote is counted twice in a chain: whatever blocks, votes and
\* repairs a miner meets, no key is in two blocks, nor twice in a block that
\* it mined.
THEOREM NoDoubleVote == Spec => []OneVotePerKey
<1>1. Inv => OneVotePerKey BY DEF Inv, ChainInv
<1> QED BY <1>1, Invariance, PTL

\* The set voted is at all times the keys of the votes in the chain.
THEOREM VotedExact == Spec => []VotedIsChain
<1>1. Inv => VotedIsChain BY DEF Inv, ChainInv
<1> QED BY <1>1, Invariance, PTL

\* No wild pointer gets into a chain.
THEOREM VotesReadable == Spec => []ChainVotesReadable
<1>1. Inv => ChainVotesReadable BY DEF Inv, ChainInv
<1> QED BY <1>1, Invariance, PTL

\* Block numbers ascend along every chain, through repairs that shorten it
\* without counting chain_length down.
THEOREM NumbersAscend == Spec => []BlockNumbersAscend
<1>1. Inv => BlockNumbersAscend BY DEF Inv, ChainInv
<1> QED BY <1>1, Invariance, PTL

\* The working block is made of fresh votes of different keys.
THEOREM FreshWork == Spec => []WorkingBlockFresh
<1>1. Inv => WorkingBlockFresh BY DEF Inv, WorkingBlockFresh, Work
<1> QED BY <1>1, Invariance, PTL

\* Mining starts with a full working block, and with nothing less.
THEOREM FullWhenMining == Spec => []QuotaMeansFull
<1>1. Inv => QuotaMeansFull BY DEF Inv, QuotaMeansFull, Work
<1> QED BY <1>1, Invariance, PTL

=============================================================================
