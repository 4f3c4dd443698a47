\* The DA grows while the follower reads, and one GetIDs or Get call may fail.
CONSTANTS
    MaxHeight = 3
    MaxDA = 3
    MaxFaults = 1
    Foreign = {}
    Growing = TRUE
SPECIFICATION Spec
INVARIANT CursorNeverSkipsContent
\* Retrieval really stops once the cursor has passed the last DA height.
CHECK_DEADLOCK FALSE
