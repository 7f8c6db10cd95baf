SPECIFICATION Spec
CONSTANTS
  m1 = m1
  m2 = m2
  m3 = m3
  Miner = {m1, m2, m3}
  Booth = {}
  NOT_AN_IP_TOKEN = dummy
  FirstPeer <- EachOther
  MAX_PEERS = 2
  Rounds <- Once
INVARIANT NoDuplicatePeers
CHECK_DEADLOCK FALSE
