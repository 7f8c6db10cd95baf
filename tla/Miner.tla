------------------------------- MODULE Miner --------------------------------
(***************************************************************************)
(* A network of miners (peer.cpp): per node the processing thread, the     *)
(* gRPC handlers that feed its queues (server.cpp) and the RPCs it makes   *)
(* (client.cpp).  The queues are used through the atomic operations that   *)
(* SyncQueue implements.  Every loop over the peers finds one of the lists *)
(* that PeerList lets a node have.                                         *)
(*                                                                         *)
(* pc[n] is the point of n's processing thread in its loop:                *)
(*   top      about to pop the block queue                                 *)
(*   send     in BroadcastBlock or BroadcastTransaction, peers in left[n]  *)
(*   requeue  pushing the votes of the abandoned new_block back to tq      *)
(*   txn      past `if (docontinue)': about to take a transaction          *)
(*   mine     past the transaction: about to test quotafull                *)
(*   repair   in repair_blockchain, taking blocks off down to cut[n]       *)
(*   spin     in repair_blockchain's loop on an uninitialized pointer that *)
(*            passed its asserts: the node is followed no further, except  *)
(*            for what its requests do to its peers                        *)
(*   dead     the process has ended (assert, or a wild pointer)            *)
(***************************************************************************)
EXTENDS Blockchain, QueueOps

CONSTANTS Node,
          Peers,      \* the lists that peer_clients_ of each node may be
          Tail0,      \* per node, the bytes after STARTINGBLOCK
          Ballots,    \* the votes that booths bring to each node
          Foreign,    \* block messages that miners outside Node send
          MaxForeign, \* bound: how many of them each node receives
          MaxNumber   \* the largest block_number the asserts let through (5)

ASSUME NodeAssumption == /\ Peers \in [Node -> SUBSET Seq(Node)]
                         /\ Tail0 \in [Node -> Nat]
                         /\ Ballots \in [Node -> SUBSET Tx]
                         /\ Foreign \subseteq BlockMsg
                         /\ MaxForeign \in Nat
                         /\ MaxNumber \in Nat \ {0}

VARIABLES chain,        \* blocks_, genesis first
          chain_length,
          voted,
          tq,           \* transactions to process
          bq,           \* received blocks to process
          new_block,    \* transaction_array[0..max_ind) of the working block
          magic,        \* its magic
          quotafull,
          pc,
          out,          \* the block being broadcast or repaired for
          cut,          \* where in the chain repair_blockchain stops
          left,         \* peers the current broadcast has still to call
          next,         \* where the thread goes after the broadcast
          ballots,      \* votes that booths may still deliver, per node
          foreign       \* foreign blocks received so far, per node

bcvars == <<chain, chain_length, voted>>
wbvars == <<new_block, magic, quotafull>>
sendvars == <<out, cut, left, next>>
envvars == <<ballots, foreign>>
vars == <<bcvars, tq, bq, wbvars, pc, sendvars, envvars>>

\* `out' while no block is being broadcast.
NoBroadcast(n) == genesis(Tail0[n])

Init == /\ chain = [n \in Node |-> <<genesis(Tail0[n])>>]
        /\ chain_length = [n \in Node |-> 1]
        /\ voted = [n \in Node |-> {}]
        /\ tq = [n \in Node |-> <<>>]
        /\ bq = [n \in Node |-> <<>>]
        /\ new_block = [n \in Node |-> <<>>]
        /\ magic = [n \in Node |-> 0]
        /\ quotafull = [n \in Node |-> FALSE]
        /\ pc = [n \in Node |-> "top"]
        /\ out = [n \in Node |-> NoBroadcast(n)]
        /\ cut = [n \in Node |-> 0]
        /\ left = [n \in Node |-> <<>>]
        /\ next = [n \in Node |-> "top"]
        /\ ballots = Ballots
        /\ foreign = [n \in Node |-> 0]

Goto(n, point) == pc' = [pc EXCEPT ![n] = point]

\* The thread enters a broadcast of b (NoBroadcast(n) when it broadcasts the
\* last vote of new_block) and goes to point after its last RPC.
StartBroadcast(n, b, point) ==
  \E peers \in Peers[n] :
     /\ left' = [left EXCEPT ![n] = peers]
     /\ \/ /\ peers = <<>>
           /\ Goto(n, point)
           /\ out' = [out EXCEPT ![n] = NoBroadcast(n)]
           /\ UNCHANGED next
        \/ /\ peers # <<>>
           /\ Goto(n, "send")
           /\ out' = [out EXCEPT ![n] = b]
           /\ next' = [next EXCEPT ![n] = point]

-----------------------------------------------------------------------------
(* The gRPC handlers: each pushes what it decoded. *)

Running(n) == pc[n] # "dead"

HandleBlock(n, msg) ==
  \E array \in Uninitialized :
     bq' = [bq EXCEPT ![n] = push(@, decode_block(msg, array))]

HandleTransaction(n, t) == tq' = [tq EXCEPT ![n] = push(@, t)]

\* A voting booth broadcasts a vote: at most one RPC per vote and node.
CastVote(n, t) == /\ Running(n)
                  /\ t \in ballots[n]
                  /\ ballots' = [ballots EXCEPT ![n] = @ \ {t}]
                  /\ HandleTransaction(n, t)
                  /\ UNCHANGED <<bcvars, bq, wbvars, pc, sendvars, foreign>>

ForeignBlock(n, msg) == /\ Running(n)
                        /\ foreign[n] < MaxForeign
                        /\ foreign' = [foreign EXCEPT ![n] = @ + 1]
                        /\ HandleBlock(n, msg)
                        /\ UNCHANGED <<bcvars, tq, wbvars, pc, sendvars,
                                       ballots>>

-----------------------------------------------------------------------------
(* Broadcasts: one blocking RPC per peer; its status is ignored. *)

SendingTransaction(n) == next[n] = "mine"

DeliverTo(n, peer) ==
  \/ /\ SendingTransaction(n)
     /\ HandleTransaction(peer, back(new_block[n]))
     /\ UNCHANGED bq
  \/ /\ ~SendingTransaction(n)
     /\ \E msg \in encode_block(out[n]) : HandleBlock(peer, msg)
     /\ UNCHANGED tq

Send(n) ==
  /\ pc[n] = "send"
  /\ \/ Running(Head(left[n])) /\ DeliverTo(n, Head(left[n]))
     \/ UNCHANGED <<tq, bq>>
  /\ left' = [left EXCEPT ![n] = Tail(@)]
  /\ IF Len(left[n]) > 1
     THEN UNCHANGED <<pc, out, next>>
     ELSE /\ Goto(n, next[n])
          /\ out' = [out EXCEPT ![n] = NoBroadcast(n)]
          /\ next' = [next EXCEPT ![n] = "top"]
  /\ UNCHANGED <<bcvars, wbvars, cut, envvars>>

-----------------------------------------------------------------------------
(* The block part of the loop. *)

\* pop_nonblocking returns NULL.
NoBlock(n) == /\ pc[n] = "top"
              /\ bq[n] = <<>>
              /\ Goto(n, "txn")
              /\ UNCHANGED <<bcvars, tq, bq, wbvars, sendvars, envvars>>

\* bq holds pointers, and a pop leaves the block that it returned queued if
\* there are others: the number that add_block writes shows in the queue too.
Numbered(q, number) == [q EXCEPT ![Len(q)].block_number = number]

\* pop_nonblocking returns b, and check_block_validity returns code.
TakeBlock(n, code) ==
  /\ pc[n] = "top"
  /\ bq[n] # <<>>
  /\ code \in check_block_validity(chain[n], voted[n], back(bq[n]))
  /\ bq' = [bq EXCEPT ![n] =
              pop_front(IF code = "OK" THEN Numbered(@, chain_length[n] + 1)
                                       ELSE @)]

CheckCrashes(n) == /\ TakeBlock(n, "crash")
                   /\ Goto(n, "dead")
                   /\ UNCHANGED <<bcvars, tq, wbvars, sendvars, envvars>>

BlockInvalid(n) == /\ TakeBlock(n, "TRANSACTION_INVALID")
                   /\ UNCHANGED <<bcvars, tq, wbvars, pc, sendvars, envvars>>

\* Variant: the block is numbered before the length is counted up.
add_block_numbered_early(n, b) ==
  /\ chain_length' = [chain_length EXCEPT ![n] = @ + 1]
  /\ chain' = [chain EXCEPT ![n] =
                 Append(@, [b EXCEPT !.block_number = chain_length[n]])]
  /\ voted' = [voted EXCEPT ![n] = @ \cup Keys(b)]

add_block(n, b) ==
  /\ chain_length' = [chain_length EXCEPT ![n] = @ + 1]
  /\ chain' = [chain EXCEPT ![n] =
                 Append(@, [b EXCEPT !.block_number = chain_length[n] + 1])]
  /\ voted' = [voted EXCEPT ![n] = @ \cup Keys(b)]

\* Variant: the limit is off by one.
TooHighLate(b) == b.block_number > MaxNumber + 1

\* assert(false) when a block number passes MaxNumber ...
TooHigh(b) == b.block_number > MaxNumber

\* ... otherwise the block is broadcast and the thread goes on at point.
AssertAndBroadcast(n, b, point) ==
  \/ /\ TooHigh(b)
     /\ Goto(n, "dead")
     /\ UNCHANGED sendvars
  \/ /\ ~TooHigh(b)
     /\ StartBroadcast(n, b, point)
     /\ UNCHANGED cut

\* Variant: the working block survives a received block.
BlockOKKeepWork(n) ==
  /\ TakeBlock(n, "OK")
  /\ add_block(n, back(bq[n]))
  /\ AssertAndBroadcast(n, get_head_block(chain'[n]), "txn")
  /\ UNCHANGED <<tq, new_block, magic, quotafull, envvars>>

\* Variant: quotafull is not cleared.
BlockOKKeepQuota(n) ==
  /\ TakeBlock(n, "OK")
  /\ add_block(n, back(bq[n]))
  /\ AssertAndBroadcast(n, get_head_block(chain'[n]), "requeue")
  /\ UNCHANGED <<tq, new_block, magic, quotafull, envvars>>

BlockOK(n) ==
  /\ TakeBlock(n, "OK")
  /\ add_block(n, back(bq[n]))
  /\ AssertAndBroadcast(n, get_head_block(chain'[n]), "requeue")
  /\ quotafull' = [quotafull EXCEPT ![n] = FALSE]
  /\ UNCHANGED <<tq, new_block, magic, envvars>>

\* Variant: a block that is not needed is passed on all the same.
BlockBehindPassedOn(n) ==
  /\ TakeBlock(n, "PREV_BLOCK_NONMATCH")
  /\ back(bq[n]).block_number <= get_head_block(chain[n]).block_number
  /\ StartBroadcast(n, back(bq[n]), "top")
  /\ UNCHANGED <<bcvars, tq, wbvars, cut, envvars>>

\* PREV_BLOCK_NONMATCH and not higher than our head: the block is dropped.
BlockBehind(n) ==
  /\ TakeBlock(n, "PREV_BLOCK_NONMATCH")
  /\ back(bq[n]).block_number <= get_head_block(chain[n]).block_number
  /\ UNCHANGED <<bcvars, tq, wbvars, pc, sendvars, envvars>>

\* PREV_BLOCK_NONMATCH and higher than our head.
BlockAhead(n) ==
  /\ TakeBlock(n, "PREV_BLOCK_NONMATCH")
  /\ back(bq[n]).block_number > get_head_block(chain[n]).block_number

AheadTooFar(n) == /\ BlockAhead(n)
                  /\ back(bq[n]).block_number > MaxNumber
                  /\ Goto(n, "dead")
                  /\ UNCHANGED <<bcvars, tq, wbvars, sendvars, envvars>>

\* repair_blockchain when the chain holds the hash of b: the first test of
\* the loop succeeds, so blocks_to_add is empty.
RepairKnown(n) ==
  /\ BlockAhead(n)
  /\ back(bq[n]).block_number <= MaxNumber
  /\ \E i \in check_if_block_in_chain(chain[n], back(bq[n])) \ {0} :
       cut' = [cut EXCEPT ![n] = i]
  /\ out' = [out EXCEPT ![n] = back(bq[n])]
  /\ Goto(n, "repair")
  /\ UNCHANGED <<bcvars, tq, wbvars, left, next, envvars>>

\* Variant: the votes of the block taken off stay in voted.
RepairCutKeepVoted(n) ==
  /\ pc[n] = "repair"
  /\ Len(chain[n]) > cut[n]
  /\ tq' = [tq EXCEPT ![n] = @ \o Counted(get_head_block(chain[n]))]
  /\ chain' = [chain EXCEPT ![n] = Front(@)]
  /\ UNCHANGED <<chain_length, voted, bq, wbvars, pc, sendvars, envvars>>

\* Variant: the block at which the loop should stop goes too.
RepairCutOneMore(n) ==
  /\ pc[n] = "repair"
  /\ Len(chain[n]) >= cut[n]
  /\ voted' = [voted EXCEPT ![n] = @ \ Keys(get_head_block(chain[n]))]
  /\ tq' = [tq EXCEPT ![n] = @ \o Counted(get_head_block(chain[n]))]
  /\ chain' = [chain EXCEPT ![n] = Front(@)]
  /\ UNCHANGED <<chain_length, bq, wbvars, pc, sendvars, envvars>>

\* One round of `while (blocks_.begin() != it)'; chain_length stays.
RepairCut(n) ==
  /\ pc[n] = "repair"
  /\ Len(chain[n]) > cut[n]
  /\ voted' = [voted EXCEPT ![n] = @ \ Keys(get_head_block(chain[n]))]
  /\ tq' = [tq EXCEPT ![n] = @ \o Counted(get_head_block(chain[n]))]
  /\ chain' = [chain EXCEPT ![n] = Front(@)]
  /\ UNCHANGED <<chain_length, bq, wbvars, pc, sendvars, envvars>>

\* Nothing is added, and the block repaired for is broadcast.
RepairDone(n) ==
  /\ pc[n] = "repair"
  /\ Len(chain[n]) = cut[n]
  /\ cut' = [cut EXCEPT ![n] = 0]
  /\ StartBroadcast(n, out[n], "requeue")
  /\ quotafull' = [quotafull EXCEPT ![n] = FALSE]
  /\ UNCHANGED <<bcvars, tq, bq, new_block, magic, envvars>>

\* repair_blockchain when it does not: `block* current_block' inside the loop
\* shadows the outer one and is passed uninitialized, so the block tested
\* never changes.  A mined hash starts with a zero byte, which the asserts of
\* get_parent_block_from_neighbor refuse: the process ends.  Only recycled
\* bytes can let the pointer pass them; what the node's chain becomes then is
\* up to bytes that no code determines, and the model of the node stops there.
RepairUnknown(n) ==
  /\ BlockAhead(n)
  /\ back(bq[n]).block_number <= MaxNumber
  /\ 0 \in check_if_block_in_chain(chain[n], back(bq[n]))
  /\ \/ Goto(n, "dead")
     \/ Recycled # {} /\ Goto(n, "spin")
  /\ UNCHANGED <<bcvars, tq, wbvars, sendvars, envvars>>

\* A spinning node asks its peers for blocks.  A peer that finds its genesis
\* block ends while encoding it (NULL prev_block_SHA1 and merkle_root); a
\* peer that finds another block changes nothing.
SpinAsk(n) ==
  /\ pc[n] = "spin"
  /\ \E peers \in Peers[n] : \E peer \in ToSet(peers), h \in Recycled :
       /\ Running(peer)
       /\ 1 \in get_block(chain[peer], h)
       /\ Goto(peer, "dead")
  /\ UNCHANGED <<bcvars, tq, bq, wbvars, sendvars, envvars>>

\* No peer has the block, or a later assert fails.
SpinAbort(n) == /\ pc[n] = "spin"
                /\ Goto(n, "dead")
                /\ UNCHANGED <<bcvars, tq, bq, wbvars, sendvars, envvars>>

\* for (i < max_ind) tq->push(...); delete new_block; new_block = new block
Requeue(n) == /\ pc[n] = "requeue"
              /\ new_block[n] # <<>>
              /\ HandleTransaction(n, Head(new_block[n]))
              /\ new_block' = [new_block EXCEPT ![n] = Tail(@)]
              /\ UNCHANGED <<bcvars, bq, magic, quotafull, pc, sendvars,
                             envvars>>

\* Variant: the new block goes on with the old one's magic.
RequeueDoneKeepMagic(n) == /\ pc[n] = "requeue"
                           /\ new_block[n] = <<>>
                           /\ Goto(n, "txn")
                           /\ UNCHANGED <<bcvars, tq, bq, wbvars, sendvars,
                                          envvars>>

RequeueDone(n) == /\ pc[n] = "requeue"
                  /\ new_block[n] = <<>>
                  /\ magic' = [magic EXCEPT ![n] = 0]
                  /\ Goto(n, "txn")
                  /\ UNCHANGED <<bcvars, tq, bq, new_block, quotafull,
                                 sendvars, envvars>>

-----------------------------------------------------------------------------
(* The transaction part of the loop. *)

QuotaAlreadyFull(n) == /\ pc[n] = "txn"
                       /\ quotafull[n]
                       /\ Goto(n, "mine")
                       /\ UNCHANGED <<bcvars, tq, bq, wbvars, sendvars,
                                      envvars>>

\* tq->pop() blocks until there is a transaction.
TakeTransaction(n) == /\ pc[n] = "txn"
                      /\ ~quotafull[n]
                      /\ tq[n] # <<>>
                      /\ tq' = [tq EXCEPT ![n] = pop_front(@)]

\* Variant: the working block is not searched for the key.
InNewBlockUnsearched(n, key) == FALSE

InNewBlock(n, key) == \E i \in DOMAIN new_block[n] :
                         KeyOf[new_block[n][i]] = key

\* In the chain, or in the working block, already: thrown out.
DropTransaction(n) ==
  /\ TakeTransaction(n)
  /\ \/ KeyOf[back(tq[n])] \in voted[n]
     \/ InNewBlock(n, KeyOf[back(tq[n])])
  /\ Goto(n, "top")
  /\ UNCHANGED <<bcvars, bq, wbvars, sendvars, envvars>>

\* Variant: the quota is compared before max_ind is counted up.
FillsBlockLate(n) == Len(new_block[n]) = NUM_TRANSACTIONS_PER_BLOCK

FillsBlock(n) == Len(new_block[n]) + 1 = NUM_TRANSACTIONS_PER_BLOCK

AddTransaction(n) ==
  /\ TakeTransaction(n)
  /\ KeyOf[back(tq[n])] \notin voted[n]
  /\ ~InNewBlock(n, KeyOf[back(tq[n])])
  /\ new_block' = [new_block EXCEPT ![n] = Append(@, back(tq[n]))]
  /\ quotafull' = [quotafull EXCEPT ![n] = FillsBlock(n)]
  /\ StartBroadcast(n, NoBroadcast(n), "mine")
  /\ UNCHANGED <<bcvars, bq, magic, cut, envvars>>

-----------------------------------------------------------------------------
(* Mining. *)

QuotaNotFull(n) == /\ pc[n] = "mine"
                   /\ ~quotafull[n]
                   /\ Goto(n, "top")
                   /\ UNCHANGED <<bcvars, tq, bq, wbvars, sendvars, envvars>>

\* assert(data_to_hash[0] != 0) in calculate_finhash
MerkleAssertFails(n) ==
  /\ pc[n] = "mine"
  /\ quotafull[n]
  /\ calculate_merkle_root(new_block[n]) \in ZeroMerkle
  /\ Goto(n, "dead")
  /\ UNCHANGED <<bcvars, tq, bq, wbvars, sendvars, envvars>>

\* Variant: the zeros are not looked at.
HitsAny(n) == magic[n] + 1..magic[n] + NUM_MAGIC_TO_TRY

\* The magic numbers of this round that give enough leading zeros.
Hits(n) == {k \in magic[n] + 1..magic[n] + NUM_MAGIC_TO_TRY :
              enough_leading_zeros(calculate_finhash(new_block[n], k))}

CanMine(n) == /\ pc[n] = "mine"
              /\ quotafull[n]
              /\ calculate_merkle_root(new_block[n]) \notin ZeroMerkle

\* Variant: every round tries the same magic numbers.
MineMissNoAdvance(n) == /\ CanMine(n)
                        /\ Hits(n) = {}
                        /\ Goto(n, "top")
                        /\ UNCHANGED <<bcvars, tq, bq, wbvars, sendvars,
                                       envvars>>

MineMiss(n) == /\ CanMine(n)
               /\ Hits(n) = {}
               /\ magic' = [magic EXCEPT ![n] = @ + NUM_MAGIC_TO_TRY]
               /\ Goto(n, "top")
               /\ UNCHANGED <<bcvars, tq, bq, new_block, quotafull, sendvars,
                              envvars>>

\* The mined block: max_ind is set to 0 before the block is added and
\* broadcast, and prev_block_SHA1 is the head's own finhash pointer.
MinedBlock(n, k) ==
  [block_number |-> 0,
   prev_block_SHA1 |-> get_head_block(chain[n]).finhash,
   finhash |-> calculate_finhash(new_block[n], k),
   transaction_array |-> new_block[n],
   max_ind |-> 0,
   freed |-> IF "finhash" \in get_head_block(chain[n]).freed
             THEN {"prev_block_SHA1"} ELSE {}]

MineHit(n) ==
  /\ CanMine(n)
  /\ \E k \in Hits(n) : /\ \A j \in Hits(n) : k <= j
                        /\ add_block(n, MinedBlock(n, k))
  /\ AssertAndBroadcast(n, get_head_block(chain'[n]), "top")
  /\ quotafull' = [quotafull EXCEPT ![n] = FALSE]
  /\ new_block' = [new_block EXCEPT ![n] = <<>>]
  /\ magic' = [magic EXCEPT ![n] = 0]
  /\ UNCHANGED <<tq, bq, envvars>>

-----------------------------------------------------------------------------
ProcessBlock(n) == \/ NoBlock(n) \/ CheckCrashes(n) \/ BlockInvalid(n)
                   \/ BlockOK(n) \/ BlockBehind(n) \/ AheadTooFar(n)
                   \/ RepairKnown(n) \/ RepairCut(n) \/ RepairDone(n)
                   \/ RepairUnknown(n)
                   \/ Requeue(n) \/ RequeueDone(n)

ProcessTransaction(n) == \/ QuotaAlreadyFull(n) \/ DropTransaction(n)
                         \/ AddTransaction(n) \/ QuotaNotFull(n)
                         \/ MerkleAssertFails(n) \/ MineMiss(n) \/ MineHit(n)

\* One step of the processing thread, outside repair_blockchain's loop.
Process(n) == ProcessBlock(n) \/ ProcessTransaction(n) \/ Send(n)

Environment(n) == \/ \E t \in Tx : CastVote(n, t)
                  \/ \E msg \in Foreign : ForeignBlock(n, msg)

Next == \E n \in Node : \/ Process(n)
                        \/ SpinAsk(n) \/ SpinAbort(n)
                        \/ Environment(n)

Spec == Init /\ [][Next]_vars

\* The operating system keeps every processing thread running.  Booths and
\* foreign miners owe nothing, and nothing says that a spin ends.
FairSpec == Spec /\ \A n \in Node : WF_vars(Process(n))

-----------------------------------------------------------------------------
(* Properties. *)

Point == {"top", "send", "requeue", "txn", "mine", "repair", "spin",
          "dead"}

\* What processor.hpp declares: queues of decoded blocks and of votes, a chain
\* that keeps at least its genesis block, and a working block whose max_ind
\* stays within transaction_array.
TypeOK ==
  /\ chain \in [Node -> Seq(Block)]
  /\ chain_length \in [Node -> Nat]
  /\ voted \in [Node -> SUBSET Key]
  /\ tq \in [Node -> Seq(Tx)]
  /\ bq \in [Node -> Seq(Received)]
  /\ new_block \in [Node -> Seq(Tx)]
  /\ \A n \in Node : /\ chain[n] # <<>>
                     /\ Len(new_block[n]) <= NUM_TRANSACTIONS_PER_BLOCK
  /\ magic \in [Node -> Nat]
  /\ quotafull \in [Node -> BOOLEAN]
  /\ pc \in [Node -> Point]
  /\ out \in [Node -> Block]
  /\ cut \in [Node -> Nat]
  /\ left \in [Node -> Seq(Node)]
  /\ next \in [Node -> {"top", "requeue", "mine"}]
  /\ ballots \in [Node -> SUBSET Tx]
  /\ foreign \in [Node -> Nat]

\* The votes of a block in a chain are transactions: no wild pointer that a
\* received block brought along gets past verify_transactions, so neither
\* add_transactions_to_set nor a repair dereferences one.
ChainVotesReadable ==
  \A n \in Node : \A i \in 2..Len(chain[n]), s \in Slot :
     chain[n][i].transaction_array[s] \in Tx

\* The set `voted' is exactly the keys of the votes in the chain, through
\* additions and repairs (which erase keys and never look at other blocks).
VotedIsChain ==
  \A n \in Node :
     voted[n] = {k \in Key : \E i \in 2..Len(chain[n]) : k \in Keys(chain[n][i])}

VotesOnce(c) ==
  /\ \A i, j \in 2..Len(c) : i # j => Keys(c[i]) \cap Keys(c[j]) = {}
  /\ \A i \in 2..Len(c) : "finhash" \notin c[i].freed =>
       \A s, t \in Slot : KeyOf[c[i].transaction_array[s]]
                           = KeyOf[c[i].transaction_array[t]] => s = t

\* Nobody votes twice: no key has votes in two blocks of a chain, nor two
\* votes in one block that a node mined itself (a block whose finhash is not
\* that of a freed message).
OneVotePerKey == \A n \in Node : VotesOnce(chain[n])

\* Between a received block and the end of the requeueing, new_block is not
\* used for mining.
Abandoning(n) == \/ pc[n] \in {"dead", "requeue"}
                 \/ pc[n] = "send" /\ next[n] = "requeue"

\* The working block holds votes of different keys that are not in the chain,
\* even after blocks arrived and were accepted while it was being filled.
WorkingBlockFresh ==
  \A n \in Node : ~Abandoning(n) =>
     /\ \A i \in DOMAIN new_block[n] : KeyOf[new_block[n][i]] \notin voted[n]
     /\ \A i, j \in DOMAIN new_block[n] :
          KeyOf[new_block[n][i]] = KeyOf[new_block[n][j]] => i = j

\* quotafull tells the truth about the working block, so that mining never
\* hashes a slot that has not been written.
QuotaMeansFull ==
  \A n \in Node :
     IF Abandoning(n) THEN pc[n] # "dead" => ~quotafull[n]
     ELSE quotafull[n] <=> Len(new_block[n]) = NUM_TRANSACTIONS_PER_BLOCK

\* Block numbers ascend from 1 at the genesis block and end at or below
\* chain_length, repairs included: get_block(n) has at most one match.
BlockNumbersAscend ==
  \A n \in Node :
     /\ chain[n][1].block_number = 1
     /\ \A i \in 2..Len(chain[n]) :
          chain[n][i - 1].block_number < chain[n][i].block_number
     /\ get_head_block(chain[n]).block_number <= chain_length[n]

\* A repair takes the chain back to the block it was made for and no further:
\* the block at which it stops stays in the chain and has the hash that was
\* received, as far as the two can be read.
RepairStopsAtBlock ==
  \A n \in Node : pc[n] = "repair" =>
     /\ cut[n] \in 1..Len(chain[n])
     /\ ReadFinhash(chain[n][cut[n]]) \cap ReadFinhash(out[n]) # {}

\* Where freed buffers keep their bytes, every block's prev_block_SHA1 is the
\* finhash of the block below it.
HashLinked ==
  Recycled = {} =>
     \A n \in Node : \A i \in 2..Len(chain[n]) :
        chain[n][i].prev_block_SHA1 = chain[n][i - 1].finhash

\* The asserts keep the network from growing a chain beyond MaxNumber: no
\* running node has a longer one or has been sent a block from one.
NothingBeyondLimit ==
  \A n \in Node : Running(n) =>
     /\ chain_length[n] <= MaxNumber
     /\ Foreign = {} => \A i \in DOMAIN bq[n] : bq[n][i].block_number <= MaxNumber

\* Votes that booths have delivered, and votes that foreign blocks carry.
Delivered == UNION {Ballots[n] \ ballots[n] : n \in Node}
Carried == UNION {ToSet(msg.transaction_msg) : msg \in Foreign}

\* No vote is made up: what a node queues and mines was delivered to some node
\* by a booth or carried by a foreign block, and a block in a chain holds
\* besides such votes only those that stale pointers reach.
VotesAreCast ==
  \A n \in Node :
     /\ ToSet(tq[n]) \cup ToSet(new_block[n]) \subseteq Delivered \cup Carried
     /\ \A i \in 2..Len(chain[n]) : ToSet(chain[n][i].transaction_array)
                                       \subseteq Delivered \cup Carried \cup Stale

\* A hash that some miner has found by mining.
Found(hash) == hash[1] \in Prefix /\ enough_leading_zeros(hash)

\* Every block in a chain has a hash that took the work to find, although
\* check_block_validity never looks at the zeros of a received block: along
\* all broadcasts, repairs and decaying buffers, only foreign miners and
\* recycled bytes bring in another hash.
HashesFound ==
  \A n \in Node : \A i \in 2..Len(chain[n]) :
     \/ Found(chain[n][i].finhash)
     \/ chain[n][i].finhash \in Recycled \cup {msg.final_hash : msg \in Foreign}

\* The search for a magic number starts anew with every working block and has
\* not passed the first that will do: no count is left over from a block that
\* was abandoned.
MagicBelowFirst ==
  \A n \in Node :
     /\ quotafull[n] =>
          magic[n] < FirstMagic[calculate_merkle_root(new_block[n])]
     /\ ~quotafull[n] /\ ~Abandoning(n) => magic[n] = 0

\* A round of mining with no hit takes the thread from mine back to top.
Advances(n) ==
  quotafull[n] /\ quotafull'[n] =>
     /\ new_block'[n] = new_block[n]
     /\ IF pc[n] = "mine" /\ pc'[n] = "top" THEN magic'[n] > magic[n]
                                            ELSE magic'[n] = magic[n]

\* A full working block stays what it is until it is mined or abandoned, and
\* every round that does not find its magic number comes nearer to it.
MiningAdvances == [][\A n \in Node : Advances(n)]_vars

\* The voters of the blocks above genesis.
Voters(c) == [i \in 1..Len(c) - 1 |-> Keys(c[i + 1])]

\* The network keeps a ledger of voters per miner.
LG == INSTANCE Ledger WITH ledger <- [n \in Node |-> Voters(chain[n])],
                           ended <- [n \in Node |-> ~Running(n)]
ImplementsLedger == LG!Spec

Blocked(n) == pc[n] = "txn" /\ ~quotafull[n] /\ tq[n] = <<>>

\* The flood of re-broadcast blocks and transactions dies out, and every
\* processing thread ends up waiting for a transaction or dead, unless miners
\* go on telling each other for ever to repair (a repair broadcasts again a
\* block that it does not add).
FloodDiesOut == \/ <>[](\A n \in Node : Blocked(n) \/ ~Running(n))
                \/ []<><<\E n \in Node : RepairDone(n)>>_vars

\* A full working block is mined, or abandoned for a received block.
FullBlockResolved ==
  \A n \in Node : quotafull[n] ~> (~quotafull[n] \/ ~Running(n))

-----------------------------------------------------------------------------
(* Claims of the repository's comments that the code does not keep. *)

\* "The current length of the blockchain" (processor.hpp, chain_length).
ChainLengthIsLength == \A n \in Node : chain_length[n] = Len(chain[n])

\* "two distinct blocks do not share a hash" (processor.cpp, get_block).
DistinctBlocksDistinctHash ==
  \A n \in Node : \A i, j \in DOMAIN chain[n] :
     chain[n][i].finhash = chain[n][j].finhash => i = j

\* "used to determine the number of transactions in the block"
\* (processor.hpp, max_ind): a received block says how many votes it carries.
BlockCarriesItsVotes ==
  \A n \in Node : \A i \in DOMAIN bq[n] :
     bq[n][i].max_ind = NUM_TRANSACTIONS_PER_BLOCK

\* "Remove their transactions from the set, and readd them to the
\* transactions queue" (processor.cpp, repair_blockchain).
RemovedVotesReadded ==
  [][\A n \in Node : \A i \in Len(chain'[n]) + 1..Len(chain[n]) :
       ToSet(chain[n][i].transaction_array) \subseteq ToSet(tq'[n])]_vars

\* "This thread is responsible for processing the blocks that have been put
\* into the queues" (peer.cpp, processing_thread).
ReceivedBlocksProcessed ==
  \A n \in Node : bq[n] # <<>> ~> (bq[n] = <<>> \/ ~Running(n))
=============================================================================
