\* A 75/25 order collected at GRIDGO Office with handover codes switched on.
SPECIFICATION FairSpec
CONSTANTS
    Subtotal = 3
    ServiceFee = 1
    DeliveryFee = 1
    DownpaymentBps = 7500
    RiderBps = 0
    FulfillmentMode = "pickup"
    HandoverOtpEnabled = TRUE
    Claims = {}
    Issues = {i1}
    MaxRequests = 1
INVARIANT
    BalanceSettledAtHandover
PROPERTY
    ElapsedWindowsClose
