\* Aggregator node whose publish loops may fail twice: the publish pipeline
\* under backpressure, and cancellation ending every goroutine.
CONSTANTS
    Aggregator = TRUE
    ChanCap = 1
    MaxBlocks = 3
    MaxWriteErrors = 2
SPECIFICATION Spec
INVARIANT StoresInOrder BoundedLag
PROPERTIES LoopsExitAfterCancel PublishedUnlessWriteFails
\* The node really stops: after a failed construction, or once every loop
\* has returned.
CHECK_DEADLOCK FALSE
