SPECIFICATION Spec
CONSTANTS
  Tx <- VoteSet
  Key <- Voter
  KeyOf <- VoterOf
  Prefix <- PrefixSet
  PrefixOf <- SharedPrefix
  FirstMagic <- Magics
  ZeroMerkle = {}
  Wild = Wild
  Stale = {"c1"}
  Recycled <- RecycledBytes
  NUM_TRANSACTIONS_PER_BLOCK = 1
  NUM_MAGIC_TO_TRY = 2
  Node = {m1, m2}
  Peers <- Others
  Tail0 <- Tails
  Ballots <- TwoVotes
  Foreign <- NoMsg
  MaxForeign = 0
  MaxNumber = 3
INVARIANTS NothingBeyondLimit OneVotePerKey HashesFound
PROPERTIES ImplementsLedger
CHECK_DEADLOCK FALSE
