SPECIFICATION AllSpec
CONSTANTS
  QSize = 3
  Sized = FALSE
  IdSpace = 3
  NReq = 4
  Timeout = 1
  Retry = 2
  RetrySec = 2
  MaxFail = 0
  MaxBack = 0
CHECK_DEADLOCK FALSE
INVARIANTS QueueOK PoolOK RangeOK SessionsOK TwoStates
PROPERTY CallbackOnce
