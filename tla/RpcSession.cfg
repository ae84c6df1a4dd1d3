CONSTANTS
  Made = 4
  Notes = {}
  Timed = {2}
  Slots = 1
  Abortable = {2}
  Oversize = {1}
  Undecodable = {2}
  Unreadable = {3}
  Closing = {}
  ClientStops = {"close", "abort"}
  BigAnswers = {4}
  MaxInFlight = 1
  MaxQueuedRequests = 1
  OverloadPolicy = "queue"
  NotifyErrorPolicy = "log"
  ResponseTimeout = FALSE
  ServerMayClose = TRUE
SPECIFICATION Spec
INVARIANTS PendingIffUnsettled AnswersAreCompletions LimitsExact AccountedOnce ShutdownLeavesNothing
PROPERTIES ImplementsCalls KeepsToLayers
CHECK_DEADLOCK FALSE
