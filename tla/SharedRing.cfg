\* 2^29 bytes per unit: capacity and NORMALIZE_THRESHOLD are both 2^30, u32 wraps at 2^32.
CONSTANTS
  Capacity = 2
  SeqModulus = 8
  Threshold = 2
  HeaderSize = 1
  Msgs = {m1}
  MaxAbandoned = 1
SPECIFICATION Spec
INVARIANT TypeOK NormalizeMutex NoFalseError NoStrandedReader RingHoldsQueue
PROPERTY ImplementsChannel
CHECK_DEADLOCK FALSE
