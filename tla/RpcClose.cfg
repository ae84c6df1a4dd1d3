CONSTANTS
  Made = 5
  Notes = {}
  Timed = {}
  Slots = 1
  Abortable = {}
  Oversize = {}
  Undecodable = {}
  Unreadable = {}
  Closing = {}
  ClientStops = {"close"}
  BigAnswers = {}
  MaxInFlight = 1
  MaxQueuedRequests = 1
  OverloadPolicy = "reject"
  NotifyErrorPolicy = "log"
  ResponseTimeout = FALSE
  ServerMayClose = FALSE
SPECIFICATION FairSpec
PROPERTY CloseSettles
CHECK_DEADLOCK FALSE
