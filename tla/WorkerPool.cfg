CONSTANTS
  Size = 2
  Calls = {c1, c2}
  RespawnEnabled = TRUE
  MaxAttempts = 1
  BootErrors = {"crash", "other"}
  MaxBootstraps = 4
  MayClose = TRUE
SPECIFICATION FairSpec
INVARIANT BusyExact NoOrphanWorker ActiveIsWatched DeadMeansGivenUp
PROPERTY  WaitersServed
CHECK_DEADLOCK FALSE
