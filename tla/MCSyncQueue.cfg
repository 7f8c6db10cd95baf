SPECIFICATION FairSpec
CONSTANTS
  Thread = {proc, proc2, rpc}
  Popper = {proc, proc2}
  Value = {v1, v2}
  Nobody = Nobody
  NoValue = NoValue
  MaxPush = 2
INVARIANTS TypeOK NoLostWakeup QueueIsBacklog TakenWerePushed
PROPERTIES ImplementsAtomicQueue ParkedPopReturns
CHECK_DEADLOCK FALSE
