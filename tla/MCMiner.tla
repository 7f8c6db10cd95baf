------------------------------ MODULE MCMiner -------------------------------
(* Instances of Miner for TLC; the cfg files choose among these values. *)
EXTENDS Miner

\* Voter a sends two votes.
VoteSet == {"a1", "a2", "b1", "c1"}
Voter == {"a", "b", "c"}
VoterOf == [t \in VoteSet |-> CASE t \in {"a1", "a2"} -> "a"
                                [] t = "b1" -> "b"
                                [] t = "c1" -> "c"]

\* The keys of a and b agree in their first 20 bytes, as all PEM keys do.
PrefixSet == {"p1", "p2", "p3"}
SharedPrefix == [k \in Voter |-> IF k = "c" THEN "p2" ELSE "p1"]
OwnPrefix == [k \in Voter |-> CASE k = "a" -> "p1"
                                [] k = "b" -> "p3"
                                [] k = "c" -> "p2"]
Magics == [p \in PrefixSet |-> IF p = "p1" THEN 1 ELSE 3]

Msg(number, prev, hash) ==
  [block_number |-> number, prev_block_sha1 |-> prev, final_hash |-> hash,
   num_transactions |-> 0, transaction_msg |-> <<>>]

\* One miner whose peers are outside the model.  They send a block on its
\* genesis block, one from a chain that has that block's hash again further
\* up, one that does the same to the hash of a block it mines, and one beyond
\* the limit.
NoPeers == [n \in Node |-> {<<>>}]
AllVotes == [n \in Node |-> VoteSet]
ForeignBlocks == {Msg(2, <<"STARTINGBLOCK", 0>>, <<"p2", 3>>),
                  Msg(4, <<"p2", 3>>, <<"p2", 3>>),
                  Msg(4, <<"p1", 1>>, <<"p1", 1>>),
                  Msg(5, <<"p2", 3>>, <<"p1", 1>>)}

\* Two miners that learn of each other; the booths near them bring different
\* votes.
First == CHOOSE n \in Node : TRUE
Other(n) == CHOOSE m \in Node : m # n
Others == [n \in Node |-> {<<>>, <<Other(n)>>}]
TwoVotes == [n \in Node |-> IF n = First THEN {"a1"} ELSE {"c1"}]
ThreeVotes == [n \in Node |-> IF n = First THEN {"a1"} ELSE {"b1", "c1"}]

Tails == [n \in Node |-> 0]
RecycledBytes == {<<"STARTINGBLOCK", 0>>}
NoHash == {}
NoMsg == {}
=============================================================================
