-------------------------- MODULE MinerLinkProofs ---------------------------
(***************************************************************************)
(* More proofs about Miner, on top of the invariant of MinerProofs: the    *)
(* chains are linked by their hashes, nothing grows beyond the limit of    *)
(* the asserts, and a repair ends at the block it was made for.            *)
(***************************************************************************)
EXTENDS MinerProofs

\* HashLinked, for one chain.
LinkedChain(c) ==
  \A i \in 2..Len(c) : c[i].prev_block_SHA1 = c[i - 1].finhash

\* What a node has and is about to broadcast keeps to the limit.
Limited(n) == /\ out[n].block_number <= MaxNumber
              /\ Running(n) => chain_length[n] <= MaxNumber

\* RepairStopsAtBlock, for one node.
RepairsTo(n) ==
  pc[n] = "repair" => ReadFinhash(chain[n][cut[n]]) \cap ReadFinhash(out[n]) # {}

\* What a node has been sent keeps to the limit, and the number that add_block
\* writes into a block still queued is one that the chain has reached.
Bounded(b, length) == b.block_number <= MaxNumber \/ b.block_number <= length
QueueLimited(n) ==
  Foreign = {} => \A i \in DOMAIN bq[n] : Bounded(bq[n][i], chain_length[n])

Extra(n) == /\ Recycled = {} => LinkedChain(chain[n])
            /\ Limited(n)
            /\ RepairsTo(n)

\* The second invariant, inductive where Inv holds.
LinkInv == \A n \in Node : Extra(n) /\ QueueLimited(n)

-----------------------------------------------------------------------------
(* Steps that leave the chains alone. *)

\* A step that leaves a node's chain and broadcast alone and starts no repair
\* keeps what Extra says of it.
LEMMA Framed ==
  ASSUME NEW m \in Node, Extra(m),
         chain'[m] = chain[m], chain_length'[m] = chain_length[m],
         out'[m] = out[m], cut'[m] = cut[m],
         pc'[m] = "repair" => pc[m] = "repair",
         pc'[m] # "dead" => pc[m] # "dead"
  PROVE  Extra(m)'
BY DEF Extra, Limited, RepairsTo, Running

\* A point to which a thread moves, and whose thread it is.
MovesTo(m, p) == pc[m] # "dead" /\ pc' = [pc EXCEPT ![m] = p]

\* The actions that leave chain, chain_length, out and cut alone.
LEMMA QuietMoves ==
  ASSUME TypeOK, NEW n \in Node,
         \/ \E t \in Tx : CastVote(n, t)
         \/ \E msg \in Foreign : ForeignBlock(n, msg)
         \/ NoBlock(n) \/ CheckCrashes(n) \/ BlockInvalid(n) \/ BlockBehind(n)
         \/ AheadTooFar(n) \/ RepairUnknown(n) \/ SpinAsk(n) \/ SpinAbort(n)
         \/ Requeue(n) \/ RequeueDone(n) \/ QuotaAlreadyFull(n)
         \/ DropTransaction(n) \/ QuotaNotFull(n) \/ MerkleAssertFails(n)
         \/ MineMiss(n)
  PROVE  /\ UNCHANGED <<chain, chain_length, out, cut>>
         /\ \/ pc' = pc
            \/ \E m \in Node, p \in {"txn", "top", "mine", "spin", "dead"} : MovesTo(m, p)
<1> USE DEF bcvars, sendvars, Goto, MovesTo
<1>1. CASE \/ \E t \in Tx : CastVote(n, t)
           \/ \E msg \in Foreign : ForeignBlock(n, msg)
           \/ BlockInvalid(n) \/ BlockBehind(n) \/ Requeue(n)
  BY <1>1 DEF CastVote, ForeignBlock, BlockInvalid, BlockBehind, Requeue
<1>2. CASE NoBlock(n) BY <1>2 DEF NoBlock
<1>3. CASE CheckCrashes(n) BY <1>3 DEF CheckCrashes, TakeBlock
<1>4. CASE AheadTooFar(n) BY <1>4 DEF AheadTooFar, BlockAhead, TakeBlock
<1>5. CASE RepairUnknown(n) BY <1>5 DEF RepairUnknown, BlockAhead, TakeBlock
<1>6. CASE SpinAsk(n)
  <2>1. PICK peers \in Peers[n] :
          \E peer \in ToSet(peers) : Running(peer) /\ Goto(peer, "dead")
    BY <1>6 DEF SpinAsk
  <2>2. PICK peer \in ToSet(peers) : Running(peer) /\ Goto(peer, "dead") BY <2>1
  <2>3. peers \in Seq(Node) BY NodeAssumption
  <2>4. peer \in Node BY <2>3 DEF ToSet
  <2> QED BY <1>6, <2>2, <2>4 DEF SpinAsk, Running
<1>7. CASE SpinAbort(n) BY <1>7 DEF SpinAbort
<1>8. CASE RequeueDone(n) BY <1>8 DEF RequeueDone
<1>9. CASE QuotaAlreadyFull(n) \/ QuotaNotFull(n) \/ MerkleAssertFails(n)
  BY <1>9 DEF QuotaAlreadyFull, QuotaNotFull, MerkleAssertFails
<1>10. CASE DropTransaction(n) BY <1>10 DEF DropTransaction, TakeTransaction
<1>11. CASE MineMiss(n) BY <1>11 DEF MineMiss, CanMine
<1> QED BY <1>1, <1>2, <1>3, <1>4, <1>5, <1>6, <1>7, <1>8, <1>9, <1>10, <1>11

\* Such a step keeps Extra.
LEMMA QuietExtra ==
  ASSUME TypeOK, \A m \in Node : Extra(m), UNCHANGED <<chain, chain_length, out, cut>>,
         \/ pc' = pc
         \/ \E m \in Node, p \in {"txn", "top", "mine", "spin", "dead"} : MovesTo(m, p)
  PROVE  \A m \in Node : Extra(m)'
<1>1. ASSUME NEW m \in Node
      PROVE  /\ pc'[m] = "repair" => pc[m] = "repair"
             /\ pc'[m] # "dead" => pc[m] # "dead"
  <2>1. CASE pc' = pc BY <2>1
  <2>2. CASE \E k \in Node, p \in {"txn", "top", "mine", "spin", "dead"} : MovesTo(k, p)
    BY <2>2 DEF MovesTo, TypeOK
  <2> QED BY <2>1, <2>2
<1> QED BY <1>1, Framed

\* The genesis block, which stands for "no block" in out, keeps to the limit.
LEMMA NoBroadcastLimited ==
  ASSUME NEW n \in Node
  PROVE  NoBroadcast(n).block_number <= MaxNumber
BY NodeAssumption DEF NoBroadcast, genesis

\* A broadcast of a block within the limit leaves out within it.
LEMMA BroadcastLimited ==
  ASSUME TypeOK, NEW n \in Node, NEW b, b.block_number <= MaxNumber,
         NEW point \in {"top", "requeue", "mine"}, StartBroadcast(n, b, point)
  PROVE  /\ out'[n].block_number <= MaxNumber
         /\ \A m \in Node \ {n} : out'[m] = out[m] /\ pc'[m] = pc[m]
         /\ pc'[n] \notin {"repair", "dead"}
<1>1. PICK peers \in Peers[n] :
         \/ Goto(n, point) /\ out' = [out EXCEPT ![n] = NoBroadcast(n)]
         \/ Goto(n, "send") /\ out' = [out EXCEPT ![n] = b]
  BY DEF StartBroadcast
<1>2. out'[n] \in {b, NoBroadcast(n)} /\ pc'[n] \in {point, "send"}
  BY <1>1 DEF TypeOK, Goto
<1>3. \A m \in Node \ {n} : out'[m] = out[m] /\ pc'[m] = pc[m]
  BY <1>1 DEF TypeOK, Goto
<1> QED BY <1>2, <1>3, NoBroadcastLimited

\* An RPC of a broadcast, a vote added to the working block, and the start and
\* the end of a repair: the chains stay, and out changes within the limit.
LEMMA BroadcastExtra ==
  ASSUME Inv, LinkInv, NEW n \in Node,
         Send(n) \/ AddTransaction(n) \/ RepairDone(n)
  PROVE  \A m \in Node : Extra(m)'
<1>0. TypeOK /\ \A m \in Node : Extra(m) BY DEF Inv, LinkInv
<1>1. /\ UNCHANGED <<chain, chain_length>>
      /\ \A m \in Node \ {n} : cut'[m] = cut[m]
  BY <1>0 DEF Send, AddTransaction, RepairDone, bcvars, TypeOK
<1>2. /\ out'[n].block_number <= MaxNumber
      /\ \A m \in Node \ {n} : out'[m] = out[m] /\ pc'[m] = pc[m]
      /\ pc'[n] # "repair" /\ pc[n] # "dead"
  <2>1. CASE Send(n)
    <3>1. pc[n] = "send" BY <2>1 DEF Send
    <3>2. \/ UNCHANGED <<pc, out>>
          \/ Goto(n, next[n]) /\ out' = [out EXCEPT ![n] = NoBroadcast(n)]
      BY <2>1 DEF Send
    <3>3. next[n] \in {"top", "requeue", "mine"} BY <1>0 DEF TypeOK
    <3>4. CASE UNCHANGED <<pc, out>> BY <1>0, <3>1, <3>4 DEF Extra, Limited
    <3>5. CASE Goto(n, next[n]) /\ out' = [out EXCEPT ![n] = NoBroadcast(n)]
      <4>1. out'[n] = NoBroadcast(n) /\ pc'[n] = next[n] BY <1>0, <3>5 DEF TypeOK, Goto
      <4>2. \A m \in Node \ {n} : out'[m] = out[m] /\ pc'[m] = pc[m]
        BY <1>0, <3>5 DEF TypeOK, Goto
      <4> QED BY <3>1, <3>3, <4>1, <4>2, NoBroadcastLimited
    <3> QED BY <3>2, <3>4, <3>5
  <2>2. CASE AddTransaction(n)
    <3>1. StartBroadcast(n, NoBroadcast(n), "mine") /\ pc[n] = "txn"
      BY <2>2 DEF AddTransaction, TakeTransaction
    <3> QED BY <1>0, <3>1, NoBroadcastLimited, BroadcastLimited
  <2>3. CASE RepairDone(n)
    <3>1. StartBroadcast(n, out[n], "requeue") /\ pc[n] = "repair"
      BY <2>3 DEF RepairDone
    <3>2. out[n].block_number <= MaxNumber BY <1>0 DEF Extra, Limited
    <3> QED BY <1>0, <3>1, <3>2, BroadcastLimited
  <2> QED BY <2>1, <2>2, <2>3
<1>3. Extra(n)'
  BY <1>0, <1>1, <1>2 DEF Extra, Limited, RepairsTo, Running
<1>4. \A m \in Node \ {n} : Extra(m)' BY <1>0, <1>1, <1>2, Framed
<1> QED BY <1>3, <1>4

-----------------------------------------------------------------------------
(* Steps that change a chain. *)

\* A repair starts at a place of the chain where the hash received was read.
LEMMA RepairKnownExtra ==
  ASSUME Inv, LinkInv, NEW n \in Node, RepairKnown(n)
  PROVE  \A m \in Node : Extra(m)'
<1> DEFINE b == back(bq[n])
<1>0. TypeOK /\ \A m \in Node : Extra(m) BY DEF Inv, LinkInv
<1>1. /\ b.block_number <= MaxNumber
      /\ out' = [out EXCEPT ![n] = b]
      /\ pc' = [pc EXCEPT ![n] = "repair"]
      /\ UNCHANGED <<chain, chain_length>>
      /\ pc[n] = "top"
  BY DEF RepairKnown, BlockAhead, TakeBlock, Goto, bcvars
<1>2. PICK i \in check_if_block_in_chain(chain[n], b) \ {0} :
        cut' = [cut EXCEPT ![n] = i]
  BY DEF RepairKnown
<1> HIDE DEF b
<1>3. PICK h \in ReadFinhash(b) : i \in get_block(chain[n], h)
  BY <1>2 DEF check_if_block_in_chain
<1>4. PICK r \in HashReads(chain[n]) : i = 0 \/ r[i] = h
  BY <1>3 DEF get_block
<1>5. i \in DOMAIN chain[n]
  <2>1. i \in 0..Len(chain[n]) /\ i # 0 BY <1>2, <1>3 DEF get_block
  <2>2. chain[n] \in Seq(Block) /\ Len(chain[n]) \in Nat BY <1>0 DEF TypeOK
  <2> QED BY <2>1, <2>2
<1>6. h \in ReadFinhash(chain[n][i]) BY <1>2, <1>4, <1>5 DEF HashReads
<1>7. /\ out'[n] = b /\ cut'[n] = i /\ pc'[n] = "repair"
      /\ \A m \in Node \ {n} : /\ out'[m] = out[m] /\ cut'[m] = cut[m]
                               /\ pc'[m] = pc[m]
  BY <1>0, <1>1, <1>2 DEF TypeOK
<1>8. RepairsTo(n)' BY <1>1, <1>3, <1>6, <1>7 DEF RepairsTo
<1>9. Extra(n)' BY <1>0, <1>1, <1>7, <1>8 DEF Extra, Limited, Running
<1>10. \A m \in Node \ {n} : Extra(m)' BY <1>0, <1>1, <1>7, Framed
<1> QED BY <1>9, <1>10

\* Taking a block off keeps the links below it and the block at the cut.
LEMMA RepairCutExtra ==
  ASSUME Inv, LinkInv, NEW n \in Node, RepairCut(n)
  PROVE  \A m \in Node : Extra(m)'
<1> DEFINE L == Len(chain[n])
<1>0. TypeOK /\ Control(n) /\ \A m \in Node : Extra(m) BY DEF Inv, LinkInv
<1>1. /\ chain[n] \in Seq(Block) /\ L \in Nat /\ L > cut[n] /\ cut[n] >= 1
      /\ cut[n] \in Nat
  BY <1>0 DEF TypeOK, Control, RepairCut
<1>2. /\ chain' = [chain EXCEPT ![n] = SubSeq(chain[n], 1, L - 1)]
      /\ UNCHANGED <<chain_length, pc, out, cut>>
  BY DEF RepairCut, Front, sendvars
<1> HIDE DEF L
<1>3. /\ Len(SubSeq(chain[n], 1, L - 1)) = L - 1
      /\ \A i \in 1..L - 1 : SubSeq(chain[n], 1, L - 1)[i] = chain[n][i]
  BY <1>1, SubSeqProperties DEF L
<1>4. /\ Len(chain'[n]) = L - 1
      /\ \A i \in 1..L - 1 : chain'[n][i] = chain[n][i]
      /\ \A m \in Node \ {n} : chain'[m] = chain[m]
  BY <1>0, <1>2, <1>3 DEF TypeOK
<1>5. Recycled = {} => LinkedChain(chain'[n])
  <2> SUFFICES ASSUME Recycled = {}, NEW i \in 2..Len(chain'[n])
               PROVE  chain'[n][i].prev_block_SHA1 = chain'[n][i - 1].finhash
    BY DEF LinkedChain
  <2>1. i \in 2..L /\ i \in 1..L - 1 /\ i - 1 \in 1..L - 1 BY <1>1, <1>4
  <2>2. chain[n][i].prev_block_SHA1 = chain[n][i - 1].finhash
    BY <1>0, <2>1 DEF Extra, LinkedChain, L
  <2> QED BY <1>4, <2>1, <2>2
<1>6. chain'[n][cut[n]] = chain[n][cut[n]]
  <2>1. cut[n] \in 1..L - 1 BY <1>1
  <2> QED BY <1>4, <2>1
<1>7. Limited(n)' /\ RepairsTo(n)'
  BY <1>0, <1>2, <1>6 DEF Extra, Limited, RepairsTo, Running
<1>8. Extra(n)' BY <1>5, <1>7 DEF Extra
<1>9. \A m \in Node \ {n} : Extra(m)' BY <1>0, <1>2, <1>4, Framed
<1> QED BY <1>8, <1>9

\* A block that follows the head can be added and broadcast, or ends the
\* process if its number is too large.
LEMMA AddExtra ==
  ASSUME Inv, LinkInv, NEW n \in Node, NEW b \in Block,
         NEW point \in {"top", "requeue"}, pc[n] # "dead",
         Recycled = {} => b.prev_block_SHA1 = get_head_block(chain[n]).finhash,
         add_block(n, b),
         AssertAndBroadcast(n, get_head_block(chain'[n]), point)
  PROVE  \A m \in Node : Extra(m)'
<1> DEFINE b1 == [b EXCEPT !.block_number = chain_length[n] + 1]
           L == Len(chain[n])
<1>0. TypeOK /\ \A m \in Node : Extra(m) BY DEF Inv, LinkInv
<1>1. b1.prev_block_SHA1 = b.prev_block_SHA1 /\ b1.block_number = chain_length[n] + 1
  BY DEF Block
<1>2. get_head_block(chain'[n]) = b1 BY <1>0, AddBlockType
<1>3. /\ chain' = [chain EXCEPT ![n] = Append(chain[n], b1)]
      /\ chain_length' = [chain_length EXCEPT ![n] = chain_length[n] + 1]
  BY DEF add_block
<1>4. chain[n] \in Seq(Block) /\ L \in Nat /\ L >= 1 BY <1>0 DEF TypeOK
<1> HIDE DEF b1
<1>5. /\ Len(chain'[n]) = L + 1 /\ chain'[n][L + 1] = b1
      /\ \A i \in 1..L : chain'[n][i] = chain[n][i]
      /\ chain_length'[n] = chain_length[n] + 1
      /\ \A m \in Node \ {n} : /\ chain'[m] = chain[m]
                               /\ chain_length'[m] = chain_length[m]
  <2>1. chain'[n] = Append(chain[n], b1) BY <1>0, <1>3 DEF TypeOK
  <2>2. /\ Len(Append(chain[n], b1)) = L + 1 /\ Append(chain[n], b1)[L + 1] = b1
        /\ \A i \in 1..L : Append(chain[n], b1)[i] = chain[n][i]
    BY <1>4
  <2> QED BY <1>0, <1>3, <2>1, <2>2 DEF TypeOK
<1>6. Recycled = {} => LinkedChain(chain'[n])
  <2> SUFFICES ASSUME Recycled = {}, NEW i \in 2..Len(chain'[n])
               PROVE  chain'[n][i].prev_block_SHA1 = chain'[n][i - 1].finhash
    BY DEF LinkedChain
  <2>1. CASE i = L + 1
    <3>1. b.prev_block_SHA1 = chain[n][L].finhash BY DEF get_head_block
    <3>2. i - 1 = L /\ L \in 1..L BY <1>4, <2>1
    <3> QED BY <1>1, <1>5, <2>1, <3>1, <3>2
  <2>2. CASE i # L + 1
    <3>1. i \in 2..L /\ i \in 1..L /\ i - 1 \in 1..L BY <1>4, <1>5, <2>2
    <3>2. chain[n][i].prev_block_SHA1 = chain[n][i - 1].finhash
      BY <1>0, <3>1 DEF Extra, LinkedChain
    <3> QED BY <1>5, <3>1, <3>2
  <2> QED BY <2>1, <2>2
<1>7. /\ Limited(n)' /\ RepairsTo(n)' /\ cut' = cut
      /\ \A m \in Node \ {n} : out'[m] = out[m] /\ pc'[m] = pc[m]
  <2>1. CASE b1.block_number > MaxNumber /\ Goto(n, "dead") /\ UNCHANGED sendvars
    <3>1. pc'[n] = "dead" /\ \A m \in Node \ {n} : pc'[m] = pc[m]
      BY <1>0, <2>1 DEF Goto, TypeOK
    <3>2. out' = out /\ cut' = cut BY <2>1 DEF sendvars
    <3> QED BY <1>0, <3>1, <3>2 DEF Extra, Limited, RepairsTo, Running
  <2>2. CASE ~TooHigh(b1) /\ StartBroadcast(n, b1, point) /\ UNCHANGED cut
    <3>0. b1.block_number <= MaxNumber
      BY <1>0, <1>1, <2>2, NodeAssumption DEF TooHigh, TypeOK
    <3>1. /\ out'[n].block_number <= MaxNumber
          /\ \A m \in Node \ {n} : out'[m] = out[m] /\ pc'[m] = pc[m]
          /\ pc'[n] \notin {"repair", "dead"}
      BY <1>0, <2>2, <3>0, BroadcastLimited
    <3> QED BY <1>1, <1>5, <2>2, <3>0, <3>1 DEF Limited, RepairsTo, Running
  <2> QED BY <1>2, <2>1, <2>2 DEF AssertAndBroadcast, TooHigh
<1>8. Extra(n)' BY <1>6, <1>7 DEF Extra
<1>9. \A m \in Node \ {n} : Extra(m)' BY <1>0, <1>5, <1>7, Framed
<1> QED BY <1>8, <1>9

\* Where nothing is recycled, a block accepted from a peer follows the head.
LEMMA ValidFollows ==
  ASSUME NEW c, NEW v, NEW b, "OK" \in check_block_validity(c, v, b),
         Recycled = {}
  PROVE  b.prev_block_SHA1 = get_head_block(c).finhash
<1>1. /\ ReadPrev(b) = {b.prev_block_SHA1}
      /\ ReadFinhash(get_head_block(c)) = {get_head_block(c).finhash}
  BY DEF ReadPrev, ReadFinhash
<1> SUFFICES ASSUME b.prev_block_SHA1 # get_head_block(c).finhash PROVE FALSE
  OBVIOUS
<1>2. \A prev \in ReadPrev(b), fin \in ReadFinhash(get_head_block(c)) : prev # fin
  BY <1>1
<1>3. \A match \in PrevMatches(c, b) : ~match BY <1>2 DEF PrevMatches
<1>4. "OK" # "PREV_BLOCK_NONMATCH" OBVIOUS
<1> QED BY <1>3, <1>4 DEF check_block_validity

\* A received block and a mined block follow the head to which they are added.
LEMMA GrowExtra ==
  ASSUME Inv, LinkInv, NEW n \in Node, BlockOK(n) \/ MineHit(n)
  PROVE  \A m \in Node : Extra(m)'
<1>0. TypeOK /\ Work(n) BY DEF Inv
<1>1. CASE BlockOK(n)
  <2> DEFINE b == back(bq[n])
  <2>1. /\ TakeBlock(n, "OK") /\ add_block(n, b)
        /\ AssertAndBroadcast(n, get_head_block(chain'[n]), "requeue")
    BY <1>1 DEF BlockOK
  <2>2. b \in Block /\ pc[n] = "top" BY <1>0, <2>1, TakeBlockType
  <2>3. "OK" \in check_block_validity(chain[n], voted[n], b) BY <2>1 DEF TakeBlock
  <2> HIDE DEF b
  <2>4. Recycled = {} => b.prev_block_SHA1 = get_head_block(chain[n]).finhash
    BY <2>3, ValidFollows
  <2> QED BY <2>1, <2>2, <2>4, AddExtra
<1>2. CASE MineHit(n)
  <2>1. /\ CanMine(n) /\ pc[n] = "mine"
        /\ AssertAndBroadcast(n, get_head_block(chain'[n]), "top")
    BY <1>2 DEF MineHit, CanMine
  <2>2. PICK k \in Hits(n) : add_block(n, MinedBlock(n, k)) BY <1>2 DEF MineHit
  <2>3. MinedBlock(n, k) \in Block BY <1>0, <2>1, MinedBlockType
  <2>4. MinedBlock(n, k).prev_block_SHA1 = get_head_block(chain[n]).finhash
    BY DEF MinedBlock
  <2> QED BY <2>1, <2>2, <2>3, <2>4, AddExtra
<1> QED BY <1>1, <1>2

-----------------------------------------------------------------------------
(* The block queues. *)

\* QueueLimited, for one queue and one length.
AllLimited(q, length) == \A i \in DOMAIN q : Bounded(q[i], length)

\* Taking one out of the queue and pushing one keep it so, and so does a chain
\* that grows.
LEMMA QueueSteps ==
  ASSUME NEW q \in Seq(Received), NEW length \in Nat, AllLimited(q, length)
  PROVE  /\ q # <<>> => AllLimited(pop_front(q), length)
         /\ \A b \in Received :
              b.block_number <= MaxNumber => AllLimited(push(q, b), length)
         /\ \A more \in Nat : length <= more => AllLimited(q, more)
<1>1. \A i \in DOMAIN q : q[i].block_number \in Nat BY DEF Received, Block
<1>2. q # <<>> => AllLimited(pop_front(q), length) BY DEF AllLimited, pop_front
<1>3. \A b \in Received :
        b.block_number <= MaxNumber => AllLimited(push(q, b), length)
  BY DEF AllLimited, Bounded, push
<1>4. \A more \in Nat : length <= more => AllLimited(q, more)
  BY <1>1 DEF AllLimited, Bounded
<1> QED BY <1>2, <1>3, <1>4

\* Numbering the newest block with the length that the chain gets keeps it so.
LEMMA NumberedLimited ==
  ASSUME NEW q \in Seq(Received), q # <<>>, NEW length \in Nat,
         AllLimited(q, length)
  PROVE  AllLimited(Numbered(q, length), length)
<1>1. /\ Len(Numbered(q, length)) = Len(q) /\ Numbered(q, length) \in Seq(Received)
      /\ \A i \in 1..Len(q) : Numbered(q, length)[i] =
           IF i = Len(q) THEN [q[i] EXCEPT !.block_number = length] ELSE q[i]
  BY NumberedQueue
<1>2. SUFFICES ASSUME NEW i \in 1..Len(q)
               PROVE  Bounded(Numbered(q, length)[i], length)
  BY <1>1 DEF AllLimited
<1>3. CASE i = Len(q)
  <2>1. q[i] \in Block BY DEF Received
  <2>2. Numbered(q, length)[i].block_number = length BY <1>1, <1>3, <2>1 DEF Block
  <2> QED BY <2>2 DEF Bounded
<1>4. CASE i # Len(q)
  <2>1. Numbered(q, length)[i] = q[i] BY <1>1, <1>4
  <2>2. Bounded(q[i], length) BY DEF AllLimited
  <2> QED BY <2>1, <2>2
<1> QED BY <1>3, <1>4

\* chain_length never counts down.
LEMMA LengthGrows ==
  ASSUME TypeOK, Next, NEW m \in Node
  PROVE  chain_length'[m] \in Nat /\ chain_length[m] <= chain_length'[m]
<1>1. \/ UNCHANGED chain_length
      \/ \E n \in Node : \E b : add_block(n, b)
  BY NextCases
     DEF CastVote, ForeignBlock, Send, NoBlock, CheckCrashes, BlockInvalid,
         BlockOK, BlockBehind, BlockAhead, AheadTooFar, RepairKnown, RepairCut,
         RepairDone, RepairUnknown, SpinAsk, SpinAbort, Requeue, RequeueDone,
         QuotaAlreadyFull, DropTransaction, AddTransaction, QuotaNotFull,
         MerkleAssertFails, MineMiss, MineHit, bcvars
<1>2. chain_length \in [Node -> Nat] BY DEF TypeOK
<1>3. CASE UNCHANGED chain_length BY <1>2, <1>3
<1>4. ASSUME NEW n \in Node, NEW b, add_block(n, b)
      PROVE  chain_length'[m] \in Nat /\ chain_length[m] <= chain_length'[m]
  <2>1. chain_length' = [chain_length EXCEPT ![n] = @ + 1] BY <1>4 DEF add_block
  <2> QED BY <1>2, <2>1
<1> QED BY <1>1, <1>3, <1>4

\* A block sent keeps its number.
LEMMA NumberSent ==
  ASSUME NEW b \in Block, NEW msg \in encode_block(b), NEW array \in Uninitialized
  PROVE  decode_block(msg, array).block_number = b.block_number
BY DEF encode_block, decode_block

\* Every step leaves a node's block queue alone, takes a block out of it, or
\* pushes a block that a miner of the network broadcasts.
LEMMA QueueInv ==
  ASSUME Inv, LinkInv, Next
  PROVE  \A m \in Node : QueueLimited(m)'
<1> SUFFICES ASSUME NEW m \in Node, Foreign = {}
             PROVE  AllLimited(bq'[m], chain_length'[m])
  BY DEF QueueLimited, AllLimited, Bounded
<1> DEFINE length == chain_length'[m]
<1>a. /\ TypeOK
      /\ \A k \in Node : /\ AllLimited(bq[k], chain_length[k])
                         /\ bq[k] \in Seq(Received) /\ chain_length[k] \in Nat
  BY DEF Inv, LinkInv, QueueLimited, AllLimited, TypeOK
<1>0. TypeOK /\ length \in Nat /\ AllLimited(bq[m], length) /\ bq[m] \in Seq(Received)
  BY <1>a, LengthGrows, QueueSteps
<1> HIDE DEF length
<1>1. PICK n \in Node :
         \/ \E t \in Tx : CastVote(n, t)
         \/ \E msg \in Foreign : ForeignBlock(n, msg)
         \/ Send(n) \/ NoBlock(n) \/ CheckCrashes(n) \/ BlockInvalid(n)
         \/ BlockOK(n) \/ BlockBehind(n) \/ AheadTooFar(n) \/ RepairKnown(n)
         \/ RepairCut(n) \/ RepairDone(n) \/ RepairUnknown(n) \/ SpinAsk(n)
         \/ SpinAbort(n) \/ Requeue(n) \/ RequeueDone(n) \/ QuotaAlreadyFull(n)
         \/ DropTransaction(n) \/ AddTransaction(n) \/ QuotaNotFull(n)
         \/ MerkleAssertFails(n) \/ MineMiss(n) \/ MineHit(n)
  BY NextCases
<1>2. CASE UNCHANGED bq BY <1>0, <1>2 DEF length
<1>3. CASE \E code : TakeBlock(n, code) /\ (code = "OK" => BlockOK(n))
  <2>1. PICK code : TakeBlock(n, code) /\ (code = "OK" => BlockOK(n)) BY <1>3
  <2>2. bq[n] # <<>> /\ bq \in [Node -> Seq(Received)]
    BY <1>0, <2>1 DEF TakeBlock, TypeOK
  <2>3. CASE m # n
    BY <1>0, <2>1, <2>2, <2>3, TakeBlockRest DEF length
  <2>4. CASE m = n /\ code # "OK"
    <3>1. bq'[m] = pop_front(bq[m]) BY <2>1, <2>2, <2>4, TakeBlockRest
    <3> QED BY <1>0, <2>2, <2>4, <3>1, QueueSteps DEF length
  <2>5. CASE m = n /\ code = "OK"
    <3>1. chain_length'[m] = chain_length[m] + 1
      BY <1>0, <2>1, <2>5 DEF BlockOK, add_block, TypeOK
    <3>2. /\ bq'[m] \in Rest(bq[m], length)
      BY <2>1, <2>2, <2>5, <3>1, TakeBlockRest DEF length
    <3>3. AllLimited(Numbered(bq[m], length), length)
      BY <1>0, <2>2, <2>5, NumberedLimited
    <3>4. /\ Numbered(bq[m], length) \in Seq(Received)
          /\ Numbered(bq[m], length) # <<>>
      BY <1>0, <2>2, <2>5, NumberedQueue
    <3>5. AllLimited(pop_front(bq[m]), length)
      BY <1>0, <2>2, <2>5, QueueSteps
    <3>6. AllLimited(pop_front(Numbered(bq[m], length)), length)
      BY <1>0, <3>3, <3>4, QueueSteps
    <3> QED BY <3>2, <3>5, <3>6 DEF Rest, length
  <2> QED BY <2>3, <2>4, <2>5
<1>4. CASE Send(n) /\ bq' # bq
  <2>1. left[n] # <<>> /\ left[n] \in Seq(Node)
    BY <1>4 DEF Send, Inv, Control, TypeOK
  <2> DEFINE peer == Head(left[n])
  <2>2. peer \in Node BY <2>1
  <2>3. DeliverTo(n, peer) BY <1>4 DEF Send
  <2> HIDE DEF peer
  <2>4. PICK msg \in encode_block(out[n]) : HandleBlock(peer, msg)
    BY <1>4, <2>3 DEF DeliverTo
  <2>5. PICK array \in Uninitialized :
          bq' = [bq EXCEPT ![peer] = push(@, decode_block(msg, array))]
    BY <2>4 DEF HandleBlock
  <2> DEFINE b == decode_block(msg, array)
  <2>6. out[n] \in Block BY <1>0 DEF TypeOK
  <2>7. b \in Received BY <2>6, EncodeType, DecodeType
  <2>8. b.block_number <= MaxNumber
    <3>1. out[n].block_number <= MaxNumber BY DEF LinkInv, Extra, Limited
    <3> QED BY <2>6, <3>1, NumberSent
  <2> HIDE DEF b
  <2>9. AllLimited(push(bq[m], b), length) BY <1>0, <2>7, <2>8, QueueSteps
  <2>10. bq'[m] = IF m = peer THEN push(bq[m], b) ELSE bq[m]
    BY <1>0, <2>2, <2>5 DEF TypeOK, b
  <2> QED BY <1>0, <2>9, <2>10 DEF length
<1>5. CASE \/ \E t \in Tx : CastVote(n, t)
           \/ NoBlock(n) \/ RepairCut(n) \/ RepairDone(n) \/ SpinAsk(n)
           \/ SpinAbort(n) \/ Requeue(n) \/ RequeueDone(n)
  BY <1>2, <1>5 DEF CastVote, NoBlock, RepairCut, RepairDone, SpinAsk, SpinAbort,
                    Requeue, RequeueDone
<1>6. CASE \/ QuotaAlreadyFull(n) \/ DropTransaction(n) \/ AddTransaction(n)
           \/ QuotaNotFull(n) \/ MerkleAssertFails(n) \/ MineMiss(n) \/ MineHit(n)
  BY <1>2, <1>6 DEF QuotaAlreadyFull, DropTransaction, AddTransaction,
                    QuotaNotFull, MerkleAssertFails, MineMiss, MineHit
<1>7. CASE \/ CheckCrashes(n) \/ BlockInvalid(n) \/ BlockOK(n) \/ BlockBehind(n)
           \/ AheadTooFar(n) \/ RepairKnown(n) \/ RepairUnknown(n)
  BY <1>3, <1>7 DEF CheckCrashes, BlockInvalid, BlockOK, BlockBehind, BlockAhead,
                    AheadTooFar, RepairKnown, RepairUnknown
<1> QED BY <1>1, <1>2, <1>4, <1>5, <1>6, <1>7

-----------------------------------------------------------------------------
(* The theorems. *)

\* At first there is a genesis block, nothing is sent and nothing repaired.
LEMMA InitLink ==
  ASSUME Init
  PROVE  LinkInv
<1> SUFFICES ASSUME NEW n \in Node PROVE Extra(n) /\ QueueLimited(n)
  BY DEF LinkInv
<1>1. /\ Len(chain[n]) = 1 /\ chain_length[n] = 1 /\ bq[n] = <<>>
      /\ out[n] = NoBroadcast(n) /\ pc[n] = "top"
  BY DEF Init
<1>2. LinkedChain(chain[n]) BY <1>1 DEF LinkedChain
<1>3. Limited(n) BY <1>1, NoBroadcastLimited, NodeAssumption DEF Limited
<1>4. QueueLimited(n) BY <1>1 DEF QueueLimited
<1> QED BY <1>1, <1>2, <1>3, <1>4 DEF Extra, RepairsTo

\* Every step keeps the second invariant.
LEMMA StepLink ==
  ASSUME Inv, LinkInv, Next
  PROVE  LinkInv'
<1>0. TypeOK /\ \A m \in Node : Extra(m) BY DEF Inv, LinkInv
<1>1. PICK n \in Node :
         \/ \E t \in Tx : CastVote(n, t)
         \/ \E msg \in Foreign : ForeignBlock(n, msg)
         \/ Send(n) \/ NoBlock(n) \/ CheckCrashes(n) \/ BlockInvalid(n)
         \/ BlockOK(n) \/ BlockBehind(n) \/ AheadTooFar(n) \/ RepairKnown(n)
         \/ RepairCut(n) \/ RepairDone(n) \/ RepairUnknown(n) \/ SpinAsk(n)
         \/ SpinAbort(n) \/ Requeue(n) \/ RequeueDone(n) \/ QuotaAlreadyFull(n)
         \/ DropTransaction(n) \/ AddTransaction(n) \/ QuotaNotFull(n)
         \/ MerkleAssertFails(n) \/ MineMiss(n) \/ MineHit(n)
  BY NextCases
<1>2. \A m \in Node : Extra(m)'
  <2>1. CASE Send(n) \/ AddTransaction(n) \/ RepairDone(n) BY <2>1, BroadcastExtra
  <2>2. CASE RepairKnown(n) BY <2>2, RepairKnownExtra
  <2>3. CASE RepairCut(n) BY <2>3, RepairCutExtra
  <2>4. CASE BlockOK(n) \/ MineHit(n) BY <2>4, GrowExtra
  <2>5. CASE \/ \E t \in Tx : CastVote(n, t)
             \/ \E msg \in Foreign : ForeignBlock(n, msg)
             \/ NoBlock(n) \/ CheckCrashes(n) \/ BlockInvalid(n) \/ BlockBehind(n)
             \/ AheadTooFar(n) \/ RepairUnknown(n) \/ SpinAsk(n) \/ SpinAbort(n)
             \/ Requeue(n) \/ RequeueDone(n) \/ QuotaAlreadyFull(n)
             \/ DropTransaction(n) \/ QuotaNotFull(n) \/ MerkleAssertFails(n)
             \/ MineMiss(n)
    <3>1. /\ UNCHANGED <<chain, chain_length, out, cut>>
          /\ \/ pc' = pc
             \/ \E m \in Node, p \in {"txn", "top", "mine", "spin", "dead"} :
                   MovesTo(m, p)
      BY <1>0, <2>5, QuietMoves
    <3> QED BY <1>0, <3>1, QuietExtra
  <2> QED BY <1>1, <2>1, <2>2, <2>3, <2>4, <2>5
<1> QED BY <1>2, QueueInv DEF LinkInv

\* So does a step that changes nothing.
LEMMA StutterLink ==
  ASSUME LinkInv, UNCHANGED vars
  PROVE  LinkInv'
<1>1. UNCHANGED <<chain, chain_length, bq, pc, out, cut>>
  BY DEF vars, bcvars, sendvars
<1>2. \A m \in Node : Extra(m)' BY <1>1, Framed DEF LinkInv
<1>3. \A m \in Node : QueueLimited(m)' BY <1>1 DEF LinkInv, QueueLimited
<1> QED BY <1>2, <1>3 DEF LinkInv

\* Both invariants hold throughout every behaviour of the network.
THEOREM LinkInvariance == Spec => [](Inv /\ LinkInv)
<1>1. Init => LinkInv BY InitLink
<1>2. Inv /\ LinkInv /\ [Next]_vars => LinkInv' BY StepLink, StutterLink
<1> QED BY <1>1, <1>2, Invariance, PTL DEF Spec

\* Where freed buffers keep their bytes, the chain is a hash chain: blocks
\* from peers, mined blocks and repairs leave every block's prev_block_SHA1
\* the finhash of the block below it.
THEOREM Linked == Spec => []HashLinked
<1>1. LinkInv => HashLinked BY DEF LinkInv, Extra, LinkedChain, HashLinked
<1> QED BY <1>1, LinkInvariance, PTL

\* No running miner has a chain beyond the limit of the asserts, and none is
\* sent a block from beyond it by a miner of the network.
THEOREM LimitKept == Spec => []NothingBeyondLimit
<1>1. ASSUME Inv, LinkInv PROVE NothingBeyondLimit
  <2>1. SUFFICES ASSUME NEW n \in Node, Running(n)
                 PROVE  /\ chain_length[n] <= MaxNumber
                        /\ Foreign = {} => \A i \in DOMAIN bq[n] :
                                             bq[n][i].block_number <= MaxNumber
    BY Zenon DEF NothingBeyondLimit
  <2>2. chain_length[n] <= MaxNumber BY <1>1, <2>1 DEF LinkInv, Extra, Limited
  <2>3. SUFFICES ASSUME Foreign = {}, NEW i \in DOMAIN bq[n]
                 PROVE  bq[n][i].block_number <= MaxNumber
    BY <2>2
  <2>4. Bounded(bq[n][i], chain_length[n])
    BY <1>1, <2>3, Zenon DEF LinkInv, QueueLimited
  <2>5. bq[n] \in Seq(Received) /\ chain_length[n] \in Nat /\ MaxNumber \in Nat
    BY <1>1, NodeAssumption DEF Inv, TypeOK
  <2>6. bq[n][i].block_number \in Nat BY <2>5 DEF Received, Block
  <2> QED BY <2>2, <2>4, <2>5, <2>6 DEF Bounded
<1> QED BY <1>1, LinkInvariance, PTL

\* A repair takes the chain back to a block that read like the one received,
\* and no further.
THEOREM RepairEnds == Spec => []RepairStopsAtBlock
<1>1. Inv /\ LinkInv => RepairStopsAtBlock
  BY DEF Inv, Control, LinkInv, Extra, RepairsTo, RepairStopsAtBlock
<1> QED BY <1>1, LinkInvariance, PTL
=============================================================================
