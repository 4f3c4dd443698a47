\* Follower node: what is still running once the node is done.
CONSTANTS
    Aggregator = FALSE
    ChanCap = 1
    MaxBlocks = 1
    MaxWriteErrors = 0
SPECIFICATION Spec
INVARIANT ReleasedWhenDone
CHECK_DEADLOCK FALSE
