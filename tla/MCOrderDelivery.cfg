\* A 75/25 delivery: subtotal 3 is paid in stages of 1, 1 and 1, the
\* downpayment brings 2 of it and the balance the last 1.
SPECIFICATION Spec
CONSTANTS
    Subtotal = 3
    ServiceFee = 1
    DeliveryFee = 1
    DownpaymentBps = 7500
    RiderBps = 8500
    FulfillmentMode = "delivery"
    HandoverOtpEnabled = FALSE
    Claims = {c1}
    Issues = {i1}
    MaxRequests = 2
INVARIANTS
    FundsCover
    BeforeProductionTruth
    HoldHasACause
    PaidOutMeansPaidIn
PROPERTIES
    StoppedOrdersStayStopped
    ClaimsHoldMoneyAndGoods
    LedgerSpec
