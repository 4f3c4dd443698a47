\* One failing header-store write: the publish loop returns and the
\* aggregation loop blocks on the full channel.
CONSTANTS
    Aggregator = TRUE
    ChanCap = 1
    MaxBlocks = 3
    MaxWriteErrors = 1
SPECIFICATION Spec
PROPERTIES EventuallyPublished
CHECK_DEADLOCK FALSE
