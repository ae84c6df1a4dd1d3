\* Sends with an AbortSignal: one aborted wait may leave its registration behind.
CONSTANTS
  Capacity = 1
  SeqModulus = 4
  Threshold = 1
  HeaderSize = 1
  Msgs = {m1}
  MaxAbandoned = 1
SPECIFICATION FairSpec
PROPERTY BlockedSendResumes
CHECK_DEADLOCK FALSE
