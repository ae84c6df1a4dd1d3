CONSTANTS
  Made = 3
  Notes = {2}
  Timed = {3}
  Slots = 1
  Abortable = {2}
  Oversize = {}
  Undecodable = {3}
  Unreadable = {}
  Closing = {3}
  ClientStops = {"abort"}
  BigAnswers = {1}
  MaxInFlight = 1
  MaxQueuedRequests = 1
  OverloadPolicy = "reject"
  NotifyErrorPolicy = "throw"
  ResponseTimeout = TRUE
  ServerMayClose = TRUE
SPECIFICATION FairSpec
PROPERTIES CallsSettle 
CHECK_DEADLOCK FALSE
