\* Operations cancels while the client's first transfer awaits confirmation.
SPECIFICATION Spec
CONSTANTS
    Subtotal = 3
    ServiceFee = 1
    DeliveryFee = 1
    DownpaymentBps = 7500
    RiderBps = 8500
    FulfillmentMode = "delivery"
    HandoverOtpEnabled = FALSE
    Claims = {}
    Issues = {i1}
    MaxRequests = 0
INVARIANT
    EverySubmissionReconcilable
