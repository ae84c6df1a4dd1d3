SPECIFICATION Spec
CONSTANTS
    CacheMaxLength = 3
    CacheMaxEntries = 2
    SmallMax = 4
    MaxDepth = 3
    MaxMessage = 16
    Heap <- MCHeap
    Samples <- MCSamples
    Foreign <- MCForeign
    Thrown <- MCThrown
    Rooms <- MCRooms
    Envs <- MCEnvs
INVARIANTS
    CommittedAsEncoded FailsOnlyIfChanged ReadAsSent ReadersAgree 
