SPECIFICATION FairSpec
CONSTANTS
  Tx <- VoteSet
  Key <- Voter
  KeyOf <- VoterOf
  Prefix <- PrefixSet
  PrefixOf <- OwnPrefix
  FirstMagic <- Magics
  ZeroMerkle = {}
  Wild = Wild
  Stale = {"c1"}
  Recycled <- NoHash
  NUM_TRANSACTIONS_PER_BLOCK = 2
  NUM_MAGIC_TO_TRY = 2
  Node = {m1}
  Peers <- NoPeers
  Tail0 <- Tails
  Ballots <- AllVotes
  Foreign <- ForeignBlocks
  MaxForeign = 2
  MaxNumber = 4
PROPERTY RemovedVotesReadded
CHECK_DEADLOCK FALSE
