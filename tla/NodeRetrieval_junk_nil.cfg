\* A complete DA holding one foreign blob that does not unmarshal.
CONSTANTS
    MaxHeight = 3
    MaxDA = 3
    MaxFaults = 0
    Foreign = {"junk"}
    Growing = FALSE
SPECIFICATION Spec
INVARIANT SuccessCarriesBlocks
\* Retrieval really stops once the cursor has passed the last DA height.
CHECK_DEADLOCK FALSE
