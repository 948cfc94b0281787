\* At most two failures, asked changes or refund requests of a job three shops can make.
SPECIFICATION Spec
CONSTANTS
    Shops = {s1, s2, s3}
    First = s1
    Prices = {8, 11, 14}
    Subtotal = 10
    Fee = 4
    CoverBps = 5000
    Extra = 2
    MaxIncidents = 2
INVARIANTS
    OpenTermsFollowTheShop
    MovesAreFunded
PROPERTIES
    AcceptanceEnds
\* The order ends.
CHECK_DEADLOCK FALSE
