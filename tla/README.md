# OneVote: TLA+ models and proofs

OneVote is a voting system on a small peer-to-peer blockchain. Voting booths
broadcast votes (transactions), miners collect them into blocks, mine the blocks
and broadcast them, and every miner keeps a chain in which no public key should
vote twice. This directory models the parts of the C++ code that carry that
promise, checks them with TLC on small instances and proves the main properties
with TLAPS for all instances.

## Inventory

| component | state | operations | interacts with | what makes it correct |
|---|---|---|---|---|
| `synchronized_queue` (processor.cpp) | `queue_`, `lock_`, `cv_` | `push`, `pop` (blocking), `pop_nonblocking`, `empty` | shared by the gRPC handlers (push) and the processing thread (push and pop) | operations are atomic, no wakeup is lost, a waiting pop is served |
| `block`, hashing (processor.cpp, peer.cpp) | number, two hashes, votes, `max_ind`, magic | constructor, `calculate_merkle_root`, `calculate_finhash`, `leading_zeros` | mined by the processing thread | a block's hash identifies it |
| `blockchain` (processor.cpp) | `blocks_`, `chain_length`, `voted`, `q_ptr_` | `add_block`, `check_block_validity`, `repair_blockchain`, searches by hash | processing thread; `GetBlock` handler (unlocked) | no key votes twice, `voted` matches the chain, numbers ascend, blocks are linked |
| processing thread (peer.cpp) | working block, `quotafull`, its point in the loop | one loop: received block, transaction, mining round | pops both queues, calls the client | the working block is fresh and full when mined; it never gets stuck |
| server (server.cpp) | none of its own | handlers `BroadcastBlock`, `BroadcastTransaction`, `GetBlock`, `GetAddr`, `GetHeartbeat`, `GetTransaction` | push to the queues, read the chain, add peers | handlers only push complete values |
| client (client.cpp) | `peer_clients_` (unlocked) | broadcasts, `getBlock`, `addNewPeer`, `bootstrapPeers`, `getPeersList` | RPCs to other miners, status ignored | at most 10 different peers, not itself; broadcasts reach the peers |
| encoding (encoding_helpers.cpp) | none | `encode_*`, `decode_*` | between client or server and blocks | what is sent is what is received |
| voting booth (voting-booth.cpp) | none | bootstrap, broadcast one vote | client | the vote reaches a miner |
| rsa (rsa.cpp) | none | encrypt, decrypt | nobody: not linked | – |

The hard behaviours: handlers of many RPCs run beside the processing thread; a
received block may arrive at any point of the filling or mining of the working
block; handlers and the processing thread change the list of peers without a
lock; clients call each other while they are called; RPCs are lost without
notice; a miner that is behind repairs its chain; asserts end a process in the
middle of a step; decoded blocks carry dangling and uninitialised pointers; the
processing thread sleeps for votes while blocks wait. `PROJECT.json` lists them
under `hazards`, each at its line and with the properties aimed at it.

## Modules

| module | what it is |
|---|---|
| `QueueOps` | `push`, `back`, `pop_front` on sequences: the three `std::queue` calls the class makes |
| `AtomicQueue` | abstract specification of the queue: each operation is one step |
| `SyncQueue` | `synchronized_queue` step by step, per thread |
| `Blockchain` | blocks, hashing, encoding and the chain's checks, as operators |
| `Ledger` | abstract specification of the network: per miner a list of blocks of voters, in which a voter is recorded at most once |
| `Miner` | the network of miners: processing thread, handlers, broadcasts, repairs; composes `Blockchain` with queues used through `AtomicQueue`'s steps and with lists of peers as `PeerList` leaves them |
| `AtomicPeers` | abstract specification of a client's peers: what the comment above `addNewPeer` promises |
| `PeerList` | peer discovery and the voting booth: `addNewPeer` step by step, `bootstrapPeers`, `GetAddr`, the broadcast of a vote |
| `MCSyncQueue`, `MCMiner`, `MCPeerList` | values of the constants for TLC |
| `SyncQueueProofs`, `PeerListProofs` | theorems and proofs about `SyncQueue` and `PeerList` |
| `MinerProofs` | the main invariant of `Miner` and what follows from it |
| `MinerLinkProofs` | hash links, the limit, repairs |
| `MinerOriginProofs` | where votes and hashes come from |
| `MinerWorkProofs` | the search for a magic number |
| `LedgerProofs` | `Miner` implements `Ledger` |

### SyncQueue

`pc[t]` is the thread's point inside `push`, `pop` or `pop_nonblocking`: asking
for the mutex, each statement under it, parked in `pthread_cond_wait`, asking for
the mutex again. `Park` parks and releases the mutex in one step, as
`pthread_cond_wait` does; `Signal` wakes one waiter if there is one;
`SpuriousWake` is the return without a signal that POSIX allows. `arg` and `ret`
are the locals, `pushed` and `taken` are histories that properties speak of.
Both pops return `queue_.back()` and remove the front. The model keeps that.

### Blockchain

A chain is `blocks_` read from its back: the genesis block is `chain[1]`.

* *Hashing.* SHA-1 is an injective constructor. `calculate_merkle_root` puts the
  key of `transaction_array[0]` (its first 20 bytes) into every leaf, so the root
  is a function of that prefix. (As written, processor.cpp:38 casts a
  `std::string` to `unsigned char*`, which does not compile; the model takes its
  evident intent, the bytes of the key.) `finhash` is the pair of prefix and
  magic. Nothing else is hashed, and the model shows it. `FirstMagic` gives the
  least magic with enough leading zeros per prefix, `ZeroMerkle` the prefixes
  whose root begins with a zero byte (`assert(data_to_hash[0] != 0)`).
* *Encoding.* `encode_block` sends the first `max_ind` votes; `decode_block` fills
  as many slots and leaves the others as `new block` found them (`Uninitialized`).
  `BlockMsg` takes `num_transactions` to be the number of votes in the message,
  which is so in all that `encode_block` sends; `decode_block` does not check it.
* *Undefined behaviour.* A slot nobody wrote is `Wild` or a transaction of `Stale`
  that the memory held before; using a `Wild` one ends the process. Readable
  bytes that are no transaction and yet end nothing are left out. The hash
  pointers of a decoded block dangle (`freed`); each read gives the received bytes
  or those in `Recycled`. Both sets are parameters: with both empty the heap keeps
  freed bytes. The genesis hash has 13 written bytes of the 20 compared; the rest
  is `Tail0`, per node.

### Miner

`pc[n]` is the point of node n's processing thread in its loop: `top` (pop a
block), `txn` (pop a transaction), `mine`, `send` (inside a broadcast, one step
per RPC), `repair` (one step per block taken off), `requeue` (one step per vote
pushed back), `spin`, `dead`. Between any two steps other threads and nodes act:
handlers push into the queues (`HandleBlock`, `HandleTransaction`), booths deliver
votes (`CastVote`), miners outside the model send blocks (`ForeignBlock`).

| code | actions |
|---|---|
| `bq->pop_nonblocking`, `check_block_validity` | `NoBlock`, `TakeBlock` with its code, `CheckCrashes` |
| `case OK` | `BlockOK`, then `Send`*, `Requeue`*, `RequeueDone` |
| `case PREV_BLOCK_NONMATCH` | `BlockBehind`, `AheadTooFar`, `RepairKnown`, `RepairCut`*, `RepairDone`, `RepairUnknown` |
| `case TRANSACTION_INVALID` | `BlockInvalid` |
| `tq->pop` and the two searches for the key | `QuotaAlreadyFull`, `DropTransaction`, `AddTransaction` |
| mining | `QuotaNotFull`, `MerkleAssertFails`, `MineMiss`, `MineHit` |
| RPCs | `Send` (delivered, or lost with the status ignored) |
| `get_parent_block_from_neighbor` | `SpinAsk`, `SpinAbort` |

`repair_blockchain` never repairs with new blocks. If the chain has a block with
the hash of the received one, the blocks above it are taken off and nothing is
added. If not, the inner `current_block` shadows the outer one and is passed
uninitialised: mined hashes start with a zero byte, the asserts of
`get_parent_block_from_neighbor` refuse that, and the process ends. Only recycled
bytes let the pointer pass. The node is then in `spin`: it asks its peers for
blocks (which ends a peer that finds its genesis block, because `encode_block`
reads NULL pointers), and may end. Reads of recycled bytes could also let it leave
the loop with the received block in `blocks_to_add`, perhaps more than once; that
outcome is not followed, and the properties speak of a node up to the point where
it enters `spin`.

`bq` holds pointers. A pop returns the newest block and removes the oldest, so
the block it returns stays queued unless it is alone, and what the code then
writes into it shows in the queue: `add_block` sets its number. `TakeBlock` does
that to the queued block when it is accepted (`Numbered`). Nothing else that the
code writes reaches a block in `bq`.

`RepairCut` takes one block off and pushes its votes in one step: a vote that a
handler pushes at the same time comes before or after all of them. No property
depends on the order of votes in `tq`.

A loop over `peer_clients_` follows the nodes from the one that was first when it
began. `Peers[n]` is the set of lists that it may find; a broadcast picks one each
time, so lists may grow, shrink (a lost node) or hold a peer twice between two
broadcasts. `PeerList` says which lists there are, and its `VoteAtMostOnce` is why
`CastVote` delivers a vote to a node at most once.

`Ledger` is what all this comes to for the voters. `ImplementsLedger` maps a
miner's `ledger` to the sets of keys of its blocks above genesis and `ended` to
the end of its process: a received or a mined block is `Record`, which needs fresh
voters and room below the limit, a round of a repair is `TakeBack`, every way for
a process to end is `End`, and all other steps change no ledger. In particular no
step changes an earlier block, or two blocks at once.

### PeerList

Every client (a miner's, or a booth's) has its list `peers[c]` and two threads
that touch lists: its own thread (the processing thread, or the booth's `main`),
and the handler that serves its `GetAddr` call at another miner, `callee[c]`.

| code | actions |
|---|---|
| `addNewPeer`: the first `if` | `Refuse`, `Accept` |
| the loop over the list | `Found`, `NotFound` |
| `push_front` | `BeginPush` (reads the first node), `Link` |
| `bootstrapPeers` | `Bootstrap`, `Walk`, `CallGetAddr`, `GetAddrReturns`, `GetAddrFails`, `NextNewPeer`, `EndBootstrap` |
| the handler `GetAddr` | `CallGetAddr` (copies the list), the steps of `addNewPeer`, then `GetAddrReturns` or `DiscardReply` |
| the booth's broadcast and message | `SendVote`, `SayCast` |

* *Races.* Nothing locks the list. Two additions interleave between the test, the
  search and the two halves of `push_front`. `Linked` gives the lists that two
  overlapping `push_front`s may leave: the new node is put before the node that
  was first when it looked, and what was linked in between may be lost.
* *History.* `overlap[c]` says whether two additions have ever been past the first
  test on c's list at once; `answered`, `received` and `failed` record what the
  properties speak of.
* *Broken calls.* `GetAddrFails` ends a call before or while its handler runs; the
  status is ignored and the response is empty. The handler goes on, and its answer
  is discarded. One broken call per client is kept: the next one starts when that
  handler has ended (the bound in `CallGetAddr`).
* *Abstractions.* `size()` counts the nodes, as `std::list` does in g++ 4 and with
  the old ABI. The address in the metadata is read as the string that was sent.
  The limit of two in the request (`num_requested`) is read by nobody. `peerq` is
  never pushed to, so the loop over it adds nobody. A booth gives the dummy
  address as its own.

## Runs

| run | instance | checks |
|---|---|---|
| `sync_queue` | 3 threads, 2 of them popping, 2 values, 2 pushes | `TypeOK`, `NoLostWakeup`, `QueueIsBacklog`, `TakenWerePushed`; `ImplementsAtomicQueue` (refinement), `ParkedPopReturns` (liveness) |
| `miner_open` | 1 miner without peers, 2 votes per block, 4 votes of 3 voters, 2 of 4 foreign blocks, stale and recycled bytes, limit 4 | `TypeOK`, `ChainVotesReadable`, `VotedIsChain`, `OneVotePerKey`, `WorkingBlockFresh`, `QuotaMeansFull`, `BlockNumbersAscend`, `RepairStopsAtBlock`, `MagicBelowFirst`, `VotesAreCast`; `MiningAdvances` (action property) |
| `miner_network` | 2 miners, 1 vote per block, lost RPCs, recycled bytes, limit 3 | `NothingBeyondLimit`, `OneVotePerKey`, `HashesFound`; `ImplementsLedger` (refinement) |
| `miner_fair` | 2 miners, 1 vote per block, lost RPCs, fairness | `HashLinked`; `FloodDiesOut`, `FullBlockResolved` (liveness) |
| `peer_list` | 3 miners, 1 booth, lists of 2, one bootstrap of m1, m2 and the booth, broken calls, fairness | `TypeOK`, `PeersAreOthers`, `AddNewPeerInvariants`, `AnsweredIsKnown`, `VoteReachesFirstPeer`; `ImplementsAtomicPeers` (refinement), `BootstrapsEnd` (liveness) |

What they show: the queue is atomic, hands out what was pushed and wakes whoever
it must; a miner's chain,
`voted` and working block stay consistent whatever it receives and however its
buffers decay; a search for a magic number starts anew with every working block
and gets nearer to its end in every round; a repair takes off what lies above the
block it was made for and nothing else; no vote is made up, and among miners of
the network no block gets into a chain without the work although nobody looks at
the zeros of a received block (a foreign miner's block, or recycled bytes that are
read as a hash, may); two miners keep their ledgers, stop at the limit and calm down; the lists of peers are
right as long as additions do not overlap, and some promises (`PeersAreOthers`,
`VoteReachesFirstPeer`, `BootstrapsEnd`) hold even where they do.

Seven more runs find a claim of a comment violated by the code:

| run | comment | what the counterexample shows |
|---|---|---|
| `sync_queue_fifo` | "Pop from the front of the queue" | with two values queued, the newer is returned and the older removed |
| `miner_chain_length` | "The current length of the blockchain" | a repair shortens the chain, `chain_length` stays |
| `miner_hash` | "two distinct blocks do not share a hash" | two blocks of a chain with the same hash; all PEM keys share their first 20 bytes, so in practice every block has it |
| `miner_block_votes` | `max_ind` "is used to determine the number of transactions in the block" | a mined block is sent with `max_ind` 0 and no votes |
| `miner_readd` | "readd them to the transactions queue" | a repair drops the votes of the blocks it takes off |
| `peer_duplicates` | "None of the peers are duplicated" | a bootstrap and a `GetAddr` handler both search for the same peer before either pushes it |
| `miner_blocks_processed` | "responsible for processing the blocks that have been put into the queues" | a block waits for ever while the thread sleeps in `tq->pop()` |

### Bounds, and why they are enough

* Two pushes and two poppers: the smallest instance in which a pop can take the
  value another was woken for, a value can be queued beside a waiter, and the two
  ends of the queue differ. The proofs drop the bound.
* `miner_open` has the real shape of a working block (more than one vote), a voter
  with two votes, a voter whose Merkle root fails the assert, and foreign blocks
  that are accepted, that repeat a hash further up, of a received or of a mined
  block (so that a repair takes blocks off), and that exceed the limit. The
  foreign miners stand for any peers.
* In the two-miner runs a block holds one vote (8 in the code): the number only
  decides how many votes make a block, and with one every vote leads to mining and
  broadcasting, so that forks, repairs and floods happen within few votes. The
  Merkle tree, whose loop needs a power of two, is abstracted.
* A repair needs a received block with a number above the head's, and takes blocks
  off only if the block it finds lies below the head. In `miner_open` repairs take
  off one and two blocks, down to genesis, to received and to mined blocks. The
  hash of a received block may read like any recycled bytes, so that
  `RepairStopsAtBlock` says most where a repair stops at a mined block. In
  `miner_fair` no repair takes a block off.
  `HashLinked`, which is about bytes that are not recycled, was therefore also run
  with one miner, foreign blocks and the code's limit of 5, where they do (155,000
  states).
* The asserts of the code stop at block 5; `MaxNumber` scales it down to 3 or 4 so
  that the limit is reached. `NUM_MAGIC_TO_TRY` is 2 with first magic numbers 1
  and 3, so that blocks need one or two rounds.
* In the two-miner runs a loop over the peers finds the other miner or nobody yet.
  Lists that hold a peer twice were also run with `miner_fair`'s properties
  (322,000 states); the proofs cover all lists.
* In `peer_list` m1 is told of m2, m2 of m3, the booth of m1. m2's list gets its
  own first peer and, through a handler, m1, so that additions overlap and a list
  of `MAX_PEERS` (2; 10 in the code) is full; m1 and the booth learn of further
  miners and of themselves; m1 and m2 may wait for each other. `Rounds` bounds the
  bootstraps: one each, m3 none. A second bootstrap repeats the first on a longer
  list, and the proofs have no bound.
* In `peer_duplicates` m1 and m2 are told of each other, so that a bootstrap and a
  handler add the same miner at once.
* `VoteAtMostOnce` is proved and has no run. A list that names a miner twice has to
  reach a booth that still has room for both; in `peer_list` none does. With m1
  and m2 told of each other, a booth that asks m1, and lists of 3, it does, and TLC
  finds no violation (170,000 states).
* `MaxForeign` bounds the foreign blocks; `Ballots` the votes. `CHECK_DEADLOCK`
  is off: with all votes delivered every thread may sleep in `tq->pop()` for good,
  or have ended.

### Fairness

`SyncQueue!FairSpec`: a thread inside the class keeps running (weak fairness of
its steps) and one that asks for the mutex again and again while it becomes free
gets it (strong fairness of `Lock`; pthread mutexes do not starve for ever under
a preemptive scheduler). No call and no spurious wakeup is assumed.

`Miner!FairSpec`: weak fairness of each processing thread. Votes, foreign blocks
and the end of a spin are not assumed. Which of a step's outcomes happens (a lost
RPC, a byte read) is never subject to fairness.

`PeerList!FairSpec`: weak fairness of every client's own thread inside these
functions and of every handler. That a bootstrap starts is not assumed, nor that a
call which hangs breaks off (there is no deadline): a call ends because its handler
does. `BootstrapsEnd` is therefore about the circle in which clients wait for each
other, not about hung machines.

`FloodDiesOut` has an exception that the code really needs: a repair broadcasts
again the block it was made for although it adds nothing, so two miners that both
know its hash below their heads may tell each other to repair for ever.

## Proofs

All proofs are checked by TLAPS with Z3, Zenon and LS4.

**`SyncQueueProofs`** (any threads, finitely many; any values; any bound). The
inductive invariant `IInv` adds to `TypeOK`, `QueueIsBacklog`, `TakenWerePushed`
and `NoLostWakeup`: `LockInv` (exactly the holder of the mutex is inside), `ArgInv`, and `PopInv`
(past its test a pop has a nonempty queue, and what it read is still at the back).
`NoLostWakeup` counts: while someone waits, there are at least as many threads on
their way to the queue or to a signal as there are values. `TypeCorrect` is about
types only (with the fact that no pop hands out an unset `ret`); that the values
handed out were pushed, and none of them before the one removed for it, is
`TakenPushed`, from `PopInv` and `QueueIsBacklog`. `Refinement` shows that
every step is a step of `AtomicQueue` or leaves its variables alone; `PopInv` is
what makes the read of the back and the removal of the front one step.

**`MinerProofs`** (any network, votes, keys, block size, limits and foreign
blocks; any `Stale` and `Recycled`). The inductive invariant `Inv` is `TypeOK`,
`ChainInv` (`ChainVotesReadable`, `VotedIsChain`, `OneVotePerKey`,
`BlockNumbersAscend`) and, per node, `Work` (`WorkingBlockFresh` and
`QuotaMeansFull`) and `Control` (a broadcast in progress has a peer left and
something to send; a repair stops inside the chain). The parts need each other:

* a block passes `check_block_validity` only if all its slots are votes of keys
  not in `voted` (`ValidBlock`); with `voted` exact, its keys are in no other block;
* a mined block is the working block, and `Work` says that its keys are new and
  different;
* a repair erases the keys of the block it takes off, and `voted` stays exact
  only because those keys are in no other block (`RepairCutChain`);
* the working block survives a repair's cuts because `voted` only shrinks, and it
  is abandoned before a received block's keys could clash with it.

Assumptions are those on the constants only: types, `NUM_TRANSACTIONS_PER_BLOCK`
and `NUM_MAGIC_TO_TRY` positive, `Wild` no transaction, the names of the genesis
hash no key prefix. A block received from elsewhere may repeat a key *within*
itself (`verify_transactions` compares with `voted` only), which is why
`OneVotePerKey` promises uniqueness inside a block only for blocks the node mined.

**`MinerLinkProofs`** rests on `Inv` and adds `LinkInv`, again per node:
`LinkedChain` (if nothing is recycled), `Limited` (chain length and the block
being broadcast keep to the limit), `RepairsTo` (the block at the cut reads like
the block repaired for) and `QueueLimited` (if there are no foreign miners, what
waits in `bq` has a number up to the limit or up to the chain's length, which is
what `add_block` writes into a block that is still queued). `Limited` has to speak of `out`, because a block is
checked when it is added and delivered many steps later; `RepairsTo` needs
`Control`, which keeps the cut inside the chain while blocks are taken off.
`Linked`, `LimitKept` and `RepairEnds` follow.

**`MinerOriginProofs`** rests on `Inv` and adds `OriginInv`. A vote is `Cast` once
a booth has delivered it to some node or if a foreign block carries it; a
`GoodBlock` counts cast votes only, holds in its other slots cast votes or what
stale pointers reach, and has a hash that was found by mining, or came from a
foreign miner or from recycled bytes. `Origin(n, D)` says that everything a node
holds is of D or good for D: `tq`, the working block, `bq`, the chain, and `out`
while a block is being announced. `VotesAreCast` and `HashesFound` speak of less
and are not inductive: a vote comes back from a chain through a repair, a chain
gets its blocks from `bq`, and `bq` from another node's `out` many steps after
that node took the block over. The hash of a good block survives `encode_block`,
where dangling pointers are read, because what such a read can give is good too
(`GoodSent`). D is a parameter so that each step is proved for a fixed set of
votes: the set after the step, which holds the set before it (`CastGrows`).

**`MinerWorkProofs`** rests on `Inv` and shows that `MagicBelowFirst` is inductive
(`SearchInv`). A round without a hit has tried `NUM_MAGIC_TO_TRY` numbers in
vain, so the first that will do lies behind them (`MissSearch`); a vote that fills
the block finds `magic` at 0, because a block that is given up keeps its magic only
until `requeue` ends (`EndSearch`, `StartSearch`). With `MiningAdvances` this is
the safety half of `FullBlockResolved`: `FirstMagic - magic` is positive and falls
in every round.

**`LedgerProofs`** shows `ImplementsLedger` from `Inv`, `LinkInv` and `LengthInv`
(a chain has at most `chain_length` blocks, which with `Limited` leaves room for
the block recorded). That the recorded voters are fresh comes from `VotedIsChain`
with `ValidBlock` or `Work`; that a repair never takes genesis back from
`Control`. `VotersAppend` and `VotersFront` compute the mapped ledger after an
addition and a cut.

**`PeerListProofs`** (any miners and booths, any `MAX_PEERS`, any number of
bootstraps). The inductive invariant `Inv` is `TypeOK` and

* `AddInv(t)`, per thread: what is being added is another miner and, until
  additions overlap on the list, the thread is the only one past the test, there
  is room, past the search the address is not in the list, and the first node it
  read is still the first;
* `ClientInv(c)`: the list, and what a loop has still to visit, names other miners
  only, and the list is well formed until the first overlap; a call in progress
  has a handler at another miner, which adds the caller and nobody else; a miner
  that was answered, or whose answer is ready, is known to the one that answers;
* `BoothInv(b)`: nobody calls a booth, so its list never sees an overlap. Hence it
  has no duplicates, the rest of the broadcast holds no miner served already, and
  the first peer is in the list, or has been called.

`VoteAtMostOnce` therefore holds although the lists of miners may hold duplicates:
it is the booth's own list that counts. `Refinement` maps `known` to the set of
addresses in the list and `broken` to `overlap`: `Link` is `Add` before an overlap
and `AnyChange` after it, `Accept` is `Break` when it overlaps, and every other
step leaves both alone. All constants' assumptions are types, distinct names for
miners, booths and the dummy, and `MAX_PEERS > 0`.

Only model-checked: the liveness properties (`ParkedPopReturns`, `FloodDiesOut`,
`FullBlockResolved`, `BootstrapsEnd`) and the violations. Liveness under fairness
and `ENABLED` are outside the prover.

## Not modelled

* The bytes of hashing: SHA-1, the levels of the Merkle tree and the count of zero
  nibbles. The result is modelled by what it depends on. The tree's loop pairs
  neighbours and needs a power of two (8 in the code); the instances with 1 or 2
  votes per block rest on the abstraction.
* The data race of `GetBlock` on the nodes of `blocks_`: only `repair_blockchain`
  sends `GetBlock`, and only past an uninitialised pointer (`spin`), where the
  model stops following the sender.
* A node's chain after it has entered `spin` (see Miner).
* A walk over `peer_clients_` that reads a node while it is being linked: a new
  node is linked in front of where every walk starts, so a walk meets complete
  nodes only.
* rsa.cpp (not linked), heartbeats, `GetTransaction`, `verify_block_number`,
  `get_block(int)` (unimplemented, without effect or without a caller), logging,
  `verifier_public_key`, timestamps and the candidate voted for (no check reads
  them), the command line, and RPCs that never return.
