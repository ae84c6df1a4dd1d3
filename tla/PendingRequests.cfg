CONSTANTS
  UINT32_MAX = 3
  Entries = {e1, e2, e3, e4}
  NoEntry = NoEntry
  Response = Response
  Shutdown = Shutdown
SPECIFICATION Spec
INVARIANT ReleasedOnce OwnReleaseOnly
CHECK_DEADLOCK FALSE
