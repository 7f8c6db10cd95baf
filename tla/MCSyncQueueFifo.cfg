SPECIFICATION Spec
CONSTANTS
  Thread = {proc, rpc}
  Popper = {proc}
  Value = {v1, v2}
  Nobody = Nobody
  NoValue = NoValue
  MaxPush = 2
INVARIANT PopFromFront
CHECK_DEADLOCK FALSE
