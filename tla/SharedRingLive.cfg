CONSTANTS
  Capacity = 1
  SeqModulus = 4
  Threshold = 1
  HeaderSize = 1
  Msgs = {m1}
  MaxAbandoned = 0
SPECIFICATION FairSpec
INVARIANT NoStrandedWriter
PROPERTY SendEnds FrameArrives
CHECK_DEADLOCK FALSE
