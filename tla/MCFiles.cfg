\* A saved document whose preview is made and a file an order has used, one fault.
SPECIFICATION Spec
CONSTANTS
    Files = {a1, a2}
    Documents = {a1}
    Enabled = TRUE
    Ordered = {a1}
    Quota = 1
    MaxFaults = 1
INVARIANTS
    RowsMatchTheStore
    UsedFilesKeepBytes
    SavedWithinQuota
PROPERTIES
    HeldBytesStay
    IntentsFinish
