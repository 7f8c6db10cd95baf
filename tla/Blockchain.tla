----------------------------- MODULE Blockchain -----------------------------
(***************************************************************************)
(* Blocks and the blockchain class (processor.hpp, processor.cpp) and the  *)
(* conversions of encoding_helpers.cpp, as operators on values.            *)
(*                                                                         *)
(* A chain is the list blocks_ read from its back: chain[1] is the genesis *)
(* block and the last element is the head (blocks_.front()).               *)
(*                                                                         *)
(* SHA-1 is an injective constructor.  The Merkle tree hashes the first    *)
(* PUBLIC_KEY_SIZE bytes of transaction_array[0]'s key into every leaf, so *)
(* its root is determined by that prefix, and a block's finhash is the     *)
(* pair of the prefix and the magic number.  The hash covers neither the   *)
(* other votes nor the previous block.                                     *)
(*                                                                         *)
(* Undefined behaviour is a choice over what a build can produce:          *)
(*   - a slot of transaction_array that nothing has written is Wild, or    *)
(*     points to a transaction of Stale that the heap chunk held before;   *)
(*     using a Wild slot ends the process;                                 *)
(*   - prev_block_SHA1 and finhash of a decoded block point into a message *)
(*     that has been freed: reading them gives the bytes received or those *)
(*     of Recycled that have replaced them.                                *)
(* Stale = {} and Recycled = {} are the builds whose heap keeps freed      *)
(* bytes and hands out fresh chunks.                                       *)
(***************************************************************************)
EXTENDS Integers, Sequences, SequencesExt

CONSTANTS
  Tx,          \* transactions (votes)
  Key,         \* voters' public keys
  KeyOf,       \* sender_public_key of a transaction
  Prefix,      \* values of the first PUBLIC_KEY_SIZE bytes of a key
  PrefixOf,    \* ... of each key
  FirstMagic,  \* least magic whose hash has NUM_LEADING_ZEROS zeros
  ZeroMerkle,  \* prefixes whose Merkle root starts with a zero byte
  Wild,        \* a pointer that is no transaction
  Stale,       \* transactions that stale pointers may reach
  Recycled,    \* hashes that freed buffers may hold
  NUM_TRANSACTIONS_PER_BLOCK,
  NUM_MAGIC_TO_TRY

ASSUME TxAssumption == /\ KeyOf \in [Tx -> Key]
                       /\ Wild \notin Tx
                       /\ Stale \subseteq Tx
ASSUME PrefixAssumption == /\ PrefixOf \in [Key -> Prefix]
                           /\ {"STARTINGBLOCK", "NULL"} \cap Prefix = {}
                           /\ FirstMagic \in [Prefix -> Nat \ {0}]
                           /\ ZeroMerkle \subseteq Prefix
ASSUME SizeAssumption == /\ NUM_TRANSACTIONS_PER_BLOCK \in Nat \ {0}
                         /\ NUM_MAGIC_TO_TRY \in Nat \ {0}

Slot == 1..NUM_TRANSACTIONS_PER_BLOCK
Hash == (Prefix \cup {"STARTINGBLOCK", "NULL"}) \X Nat
ASSUME RecycledAssumption == Recycled \subseteq Hash

\* The first max_ind transactions of a block have been stored in it.
Block == {b \in [block_number : Nat, prev_block_SHA1 : Hash, finhash : Hash,
                 transaction_array : [Slot -> Tx \cup {Wild}],
                 max_ind : 0..NUM_TRANSACTIONS_PER_BLOCK,
                 freed : SUBSET {"prev_block_SHA1", "finhash"}] :
             \A i \in 1..b.max_ind : b.transaction_array[i] \in Tx}

\* What decode_block makes: both hashes are those of the freed message.
Received == {b \in Block : b.freed = {"prev_block_SHA1", "finhash"}}

\* A block on the wire (BlockMsg of node.proto), as encode_block fills it.
BlockMsg == {m \in [block_number : Nat, prev_block_sha1 : Hash,
                    final_hash : Hash,
                    num_transactions : 0..NUM_TRANSACTIONS_PER_BLOCK,
                    transaction_msg : Seq(Tx)] :
                Len(m.transaction_msg) = m.num_transactions}

-----------------------------------------------------------------------------
(* class block *)

calculate_merkle_root(txs) == PrefixOf[KeyOf[txs[1]]]

calculate_finhash(txs, magic) == <<calculate_merkle_root(txs), magic>>

\* leading_zeros(finhash) >= NUM_LEADING_ZEROS, for magic up to the first hit.
enough_leading_zeros(hash) == hash[2] = FirstMagic[hash[1]]

\* The first 13 bytes of a genesis hash are STARTINGBLOCK; the other 7 that
\* same_hash compares lie past what the constructor wrote (tail).
genesis(tail) == [block_number |-> 1, prev_block_SHA1 |-> <<"NULL", 0>>,
                  finhash |-> <<"STARTINGBLOCK", tail>>,
                  transaction_array |-> [i \in Slot |-> Wild],
                  max_ind |-> 0, freed |-> {}]

\* Variant: the loops go through all slots.
CountedAll(b) == b.transaction_array

\* The transactions that loops up to max_ind go through.
Counted(b) == SubSeq(b.transaction_array, 1, b.max_ind)

\* What a read of a hash field through its pointer can give.
ReadPrev(b) == {b.prev_block_SHA1}
                 \cup IF "prev_block_SHA1" \in b.freed THEN Recycled ELSE {}
ReadFinhash(b) == {b.finhash}
                    \cup IF "finhash" \in b.freed THEN Recycled ELSE {}

-----------------------------------------------------------------------------
(* encoding_helpers.cpp *)

\* One BlockMsg for each way the two hash fields can read.
encode_block(b) ==
  {[block_number |-> b.block_number, prev_block_sha1 |-> prev,
    final_hash |-> fin, num_transactions |-> b.max_ind,
    transaction_msg |-> Counted(b)] :
     prev \in ReadPrev(b), fin \in ReadFinhash(b)}

\* Contents of the array of `new block' before anything is stored in it.
Uninitialized == [Slot -> Stale \cup {Wild}]

decode_block(msg, array) ==
  [block_number |-> msg.block_number, prev_block_SHA1 |-> msg.prev_block_sha1,
   finhash |-> msg.final_hash,
   transaction_array |->
     [i \in Slot |-> IF i <= Len(msg.transaction_msg)
                     THEN msg.transaction_msg[i] ELSE array[i]],
   max_ind |-> msg.num_transactions,
   freed |-> {"prev_block_SHA1", "finhash"}]

-----------------------------------------------------------------------------
(* class blockchain *)

get_head_block(chain) == chain[Len(chain)]

\* Keys of the transactions of a block, as add_transactions_to_set and
\* remove_transactions_from_set insert and erase them (Miner's
\* ChainVotesReadable shows that neither meets a Wild slot).
Keys(b) == {KeyOf[t] : t \in {b.transaction_array[i] : i \in Slot} \ {Wild}}

\* verify_transactions looks at the slots in order and stops at the first
\* vote already cast; a Wild slot met before that ends the process.
Suspect(voted, b) == {i \in Slot : \/ b.transaction_array[i] = Wild
                                   \/ KeyOf[b.transaction_array[i]] \in voted}
FirstSuspect(voted, b) ==
  CHOOSE i \in Suspect(voted, b) : \A j \in Suspect(voted, b) : i <= j
\* Variant: only the first max_ind slots are looked at.
verify_counted_transactions(voted, b) ==
  IF \E i \in 1..b.max_ind : KeyOf[b.transaction_array[i]] \in voted
  THEN "invalid" ELSE "ok"
verify_transactions(voted, b) ==
  IF Suspect(voted, b) = {} THEN "ok"
  ELSE IF b.transaction_array[FirstSuspect(voted, b)] = Wild
       THEN "crash" ELSE "invalid"

\* Variant: the previous block may be anywhere in the chain.
PrevMatchesAnywhere(chain, b) ==
  {\E i \in DOMAIN chain : prev = chain[i].finhash : prev \in ReadPrev(b)}

\* The outcomes of same_hash(b->prev_block_SHA1, head->finhash).
PrevMatches(chain, b) ==
  {match \in BOOLEAN :
     \E prev \in ReadPrev(b), fin \in ReadFinhash(get_head_block(chain)) :
        match <=> prev = fin}

\* The outcomes of check_block_validity: a block_validity_code, or a crash.
check_block_validity(chain, voted, b) ==
  {CASE ~match -> "PREV_BLOCK_NONMATCH"
     [] match /\ verify_transactions(voted, b) = "ok" -> "OK"
     [] match /\ verify_transactions(voted, b) = "invalid"
          -> "TRANSACTION_INVALID"
     [] OTHER -> "crash" : match \in PrevMatches(chain, b)}

\* What the finhash fields of a chain can read as, all at once.
HashReads(chain) == {r \in [DOMAIN chain ->
                              {chain[i].finhash : i \in DOMAIN chain}
                                 \cup Recycled] :
                       \A i \in DOMAIN chain : r[i] \in ReadFinhash(chain[i])}
\* get_block(hash): the position of the first match from the head, 0 for NULL.
get_block(chain, hash) ==
  {i \in 0..Len(chain) : \E r \in HashReads(chain) :
     /\ i = 0 \/ r[i] = hash
     /\ \A j \in i + 1..Len(chain) : r[j] # hash}

\* check_if_block_in_chain searches in the same way for b's own hash.
check_if_block_in_chain(chain, b) ==
  UNION {get_block(chain, h) : h \in ReadFinhash(b)}

=============================================================================
