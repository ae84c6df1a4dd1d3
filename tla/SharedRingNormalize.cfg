CONSTANTS
  Capacity = 2
  SeqModulus = 8
  Threshold = 2
  HeaderSize = 1
  Msgs = {m1}
  MaxAbandoned = 0
SPECIFICATION Spec
INVARIANT UsedWithinCapacity
CHECK_DEADLOCK FALSE
