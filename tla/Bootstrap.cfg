CONSTANTS
    MaxAttempts = 2
    ClientContents <- MCClientContents
    WorkerContents <- MCWorkerContents
    MaxChanges = 1
    MaxMethodId = 2
SPECIFICATION FairSpec
CHECK_DEADLOCK FALSE
INVARIANTS ReadyMeansServed
PROPERTIES PreparedAsPassed  HandshakeEnds ThreadReleased
