\* The DA grows while the follower reads, foreign blobs of both kinds, one failing call.
CONSTANTS
    MaxHeight = 3
    MaxDA = 3
    MaxFaults = 1
    Foreign = {"junk", "bad"}
    Growing = TRUE
SPECIFICATION Spec
INVARIANTS TypeOK
\* Retrieval really stops once the cursor has passed the last DA height.
CHECK_DEADLOCK FALSE
