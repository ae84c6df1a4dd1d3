CONSTANTS
    Capacity = 16
    HeaderSize = 4
    Alignment = 2
    PrefixSize = 2
    Modulus = 32
    Starts = {20, 30}
    Writers = {"aligned", "trusted", "checked"}
    Sizes = {0, 1, 7, 12}
    MaxFrames = 3
    Thresholds <- MCThresholds
    TimelineLimit = 2
    BucketStarts <- MCBucketStarts
SPECIFICATION Spec
CHECK_DEADLOCK FALSE
INVARIANTS FramesArriveWhole EndsCountAlike TimelinesFaithful
 
