\* The DA is complete when the follower starts, with foreign junk but no failing calls.
CONSTANTS
    MaxHeight = 3
    MaxDA = 3
    MaxFaults = 0
    Foreign = {"junk"}
    Growing = FALSE
SPECIFICATION Spec
PROPERTY EventuallyApplied
\* Retrieval really stops once the cursor has passed the last DA height.
CHECK_DEADLOCK FALSE
