\* A complete DA holding one foreign blob that FromProto rejects.
CONSTANTS
    MaxHeight = 3
    MaxDA = 3
    MaxFaults = 0
    Foreign = {"bad"}
    Growing = FALSE
SPECIFICATION Spec
PROPERTY EventuallyApplied
\* Retrieval really stops once the cursor has passed the last DA height.
CHECK_DEADLOCK FALSE
