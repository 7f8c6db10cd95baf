SPECIFICATION FairSpec
CONSTANTS
  m1 = m1
  m2 = m2
  m3 = m3
  Miner = {m1, m2, m3}
  Booth = {b1}
  NOT_AN_IP_TOKEN = dummy
  FirstPeer <- InARow
  MAX_PEERS = 2
  Rounds <- Once
INVARIANTS
  TypeOK
  PeersAreOthers
  AddNewPeerInvariants
  AnsweredIsKnown
  VoteReachesFirstPeer
PROPERTIES ImplementsAtomicPeers BootstrapsEnd
CHECK_DEADLOCK FALSE
