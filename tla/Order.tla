------------------------------- MODULE Order -------------------------------
(***************************************************************************)
(* One cart-checkout order (money model 3, payout plan 2) from the client's *)
(* transfer to the shop's last share: src/src/server.js, operational-model, *)
(* payout-plan, refunds and the handover modules.                           *)
(*                                                                          *)
(* Every request runs alone under the `gridgo-domain-mutation` lock and     *)
(* commits in one database transaction, so one action is one request (or    *)
(* one run of a background sweep) and the interleaving is that of the       *)
(* requests of the client, the shop, the rider and Operations.  Who may ask *)
(* is abstracted: some authorised account asks.  Amounts are centavos.      *)
(***************************************************************************)
EXTENDS Integers, FiniteSets

CONSTANTS
    Subtotal,            \* supplierSubtotalMinor, the shop's price
    ServiceFee,          \* serviceFeeMinor
    DeliveryFee,         \* deliveryFeeMinor
    DownpaymentBps,      \* downpaymentPercent * 100 at checkout
    RiderBps,            \* riderCommissionBps
    FulfillmentMode,     \* "delivery", or "pickup" at GRIDGO Office
    HandoverOtpEnabled,  \* settings.handoverOtpEnabled
    Claims,              \* claims Operations may raise by hand
    Issues,              \* problems the client may report; issue i owns claim i
    MaxRequests          \* bound: refund requests filed on the order

ASSUME OrderAssumption ==
    /\ Subtotal \in Nat
    /\ ServiceFee \in Nat
    /\ DeliveryFee \in Nat
    /\ DownpaymentBps \in {7500, 10000}
    /\ RiderBps \in 0..10000
    /\ FulfillmentMode \in {"delivery", "pickup"}
    /\ HandoverOtpEnabled \in BOOLEAN
    /\ Claims \cap Issues = {}
    /\ MaxRequests \in Nat

VARIABLES
    state,             \* order.state
    timeline,          \* the ProductionStates order.timeline has recorded
    cancelledAt,       \* order.cancelledAt is set
    issueWindow,       \* "none", "running" or "elapsed": issueWindowExpiresAt
    payments,          \* order.payments[code].status
    stages,            \* order.payoutMilestones[code].status
    claims,            \* store.claims[c].status, "none" before it is raised
    issues,            \* store.issues[i].status, "none" before it is reported
    payoutHold,        \* order.payoutHold
    shopHandover,      \* order.shopHandover: finished photos and their review
    forcedSteps,       \* the steps order.forcedSteps records
    pickupChecklist,   \* order.pickupChecklist.status
    refund,            \* the latest refund request
    filed,             \* how many refund requests have been filed
    settlements,       \* how many terminal refundSettlements the order has
    refunded,          \* their amounts by component, summed
    riderEntitlement,  \* the greatest riderEntitlementMinor among them
    settlementPaid,    \* refundSupplierPayouts that are released, summed
    pendingPayout      \* the refundSupplierPayout that is pending, or 0

lifecycle == <<state, timeline, cancelledAt>>
production == <<shopHandover, forcedSteps, pickupChecklist>>
cases == <<claims, issues, payoutHold>>
settlement == <<settlements, refunded, riderEntitlement, settlementPaid,
                pendingPayout>>
vars == <<lifecycle, issueWindow, payments, stages, cases, production,
          refund, filed, settlement>>

-----------------------------------------------------------------------------
(* The order's money, fixed at checkout.                                   *)

RoundBps(value, bps) == (value * bps + 5000) \div 10000

Payments == {"initial", "final_online"}
Components == {"principal", "fee", "delivery"}
StageCodes == {"production_started", "delivered", "issue_window"}

Total == Subtotal + ServiceFee + DeliveryFee
Downpayment == RoundBps(Total, DownpaymentBps)
PaidUpFront == Downpayment = Total

InitialFee == RoundBps(ServiceFee, DownpaymentBps)
InitialDelivery == RoundBps(DeliveryFee, DownpaymentBps)
InitialPrincipal == Downpayment - InitialFee - InitialDelivery

(* Only allocations of a positive amount are stored.                       *)
Stored(amount) == IF amount > 0 THEN amount ELSE 0

(* paymentAllocations: each instalment settles its share of every component*)
(* and the principal takes the rounding remainder.                         *)
Allocations ==
    [initial |->
        [principal |-> Stored(InitialPrincipal),
         fee |-> Stored(InitialFee),
         delivery |-> Stored(InitialDelivery)],
     final_online |->
        [principal |-> Stored(Subtotal - InitialPrincipal),
         fee |-> Stored(ServiceFee - InitialFee),
         delivery |-> Stored(DeliveryFee - InitialDelivery)]]

(* createPayoutMilestones under plan 2: 40, 35 and the remainder.          *)
StageAmounts ==
    [production_started |-> RoundBps(Subtotal, 4000),
     delivered |-> RoundBps(Subtotal, 3500),
     issue_window |-> Subtotal - RoundBps(Subtotal, 4000)
                               - RoundBps(Subtotal, 3500)]

RiderPayout == RoundBps(DeliveryFee, RiderBps)

-----------------------------------------------------------------------------
(* The states, and what may follow what.                                   *)

ProductionStates ==
    {"production", "supplier_self_qc", "ready_for_dispatch", "rider_assigned",
     "picked_up", "out_for_delivery", "awaiting_collection", "delivered",
     "issue_window_open", "completed", "payout_released"}
HandedToClient ==
    {"delivered", "issue_window_open", "completed", "payout_released"}
WindowClosed == {"completed", "payout_released"}
States ==
    ProductionStates \cup
    {"initial_payment_review", "awaiting_initial_payment", "submitted",
     "needs_qa", "client_correction", "proof_approval",
     "approved_for_matching", "supplier_assigned", "payment_authorized",
     "cancelled"}

(* TRANSITIONS without the states only quote-era orders reach, and without *)
(* a shop declining, which opens a shop recovery.                          *)
TRANSITIONS ==
    {<<"submitted", "needs_qa">>,
     <<"needs_qa", "client_correction">>, <<"needs_qa", "proof_approval">>,
     <<"needs_qa", "approved_for_matching">>,
     <<"needs_qa", "supplier_assigned">>, <<"needs_qa", "cancelled">>,
     <<"client_correction", "submitted">>, <<"client_correction", "needs_qa">>,
     <<"client_correction", "cancelled">>,
     <<"initial_payment_review", "cancelled">>,
     <<"proof_approval", "approved_for_matching">>,
     <<"proof_approval", "client_correction">>,
     <<"approved_for_matching", "supplier_assigned">>,
     <<"approved_for_matching", "cancelled">>,
     <<"supplier_assigned", "payment_authorized">>,
     <<"supplier_assigned", "cancelled">>,
     <<"payment_authorized", "production">>,
     <<"payment_authorized", "cancelled">>,
     <<"production", "ready_for_dispatch">>,
     <<"production", "supplier_self_qc">>,
     <<"supplier_self_qc", "ready_for_dispatch">>,
     <<"ready_for_dispatch", "rider_assigned">>,
     <<"picked_up", "out_for_delivery">>,
     <<"awaiting_collection", "delivered">>,
     <<"delivered", "issue_window_open">>,
     <<"completed", "payout_released">>}

PACKAGING_STATES == {"supplier_self_qc", "ready_for_dispatch"}

(* stage.states of payout plan 2: where a share may be released.           *)
DeliveredStates == HandedToClient
StageStates(s) ==
    CASE s = "production_started" -> ProductionStates
      [] s = "delivered" -> DeliveredStates
      [] s = "issue_window" -> WindowClosed

-----------------------------------------------------------------------------
(* What the handlers ask of the stored order.                              *)

(* paymentSettled: confirmed, or never owed.                               *)
PaymentSettled(p) == payments[p] \in {"confirmed", "not_required"}

CollectedFrom(p, c) == IF payments[p] = "confirmed" THEN Allocations[p][c] ELSE 0
Collected(c) == CollectedFrom("initial", c) + CollectedFrom("final_online", c)

ReleasedFrom(s) == IF stages[s] = "released" THEN StageAmounts[s] ELSE 0
ReleasedPrincipal ==
    ReleasedFrom("production_started") + ReleasedFrom("delivered")
        + ReleasedFrom("issue_window")

ActiveRefundStatuses ==
    {"requested", "reviewed", "approved", "destination_review",
     "payment_in_progress", "payment_unknown"}
RefundHold == refund.status \in ActiveRefundStatuses
Settled == settlements > 0

(* assertRefundWorkAllowed.  Its mutants forget a settled order once its   *)
(* refund is paid, and an order whose refund is still to be settled.       *)
WorkStoppedWhileOpen == RefundHold
WorkStoppedOnceSettled == Settled
WorkStopped == RefundHold \/ Settled

ActiveClaims(besides) ==
    {c \in (Claims \cup Issues) \ besides : claims[c] \in {"open", "payout_held"}}
(* claimBlocksHandover: the flag, or any claim, since raising a claim      *)
(* without a hold clears the flag of another.  The mutant trusts the flag. *)
ClaimHoldByFlag == payoutHold
ClaimHold == payoutHold \/ ActiveClaims({}) # {}
(* activePayoutHold of operational-model.js.                               *)
ActivePayoutHold == RefundHold \/ ClaimHold
OpenIssue == \E i \in Issues : issues[i] = "open"

ProductionStarted ==
    \/ state \in ProductionStates
    \/ timeline # {}
    \/ \E s \in StageCodes : stages[s] = "released"
HandoverCompleted ==
    issueWindow # "none" \/ state \in HandedToClient \/ "delivered" \in timeline
DeliveryCompleted ==
    \/ HandoverCompleted
    \/ state = "awaiting_collection"
    \/ "awaiting_collection" \in timeline

(* order.handover: minted by save when the order reaches the boundary where*)
(* the goods change hands, consumed by completeHandover.                   *)
HandoverMinted ==
    /\ HandoverOtpEnabled
    /\ IF FulfillmentMode = "delivery" THEN "ready_for_dispatch" \in timeline
                                       ELSE "awaiting_collection" \in timeline
HandoverPending == HandoverMinted /\ "delivered" \notin timeline

(* The commit every state change ends in: the row's new state and the      *)
(* cancellation stamp are written together, and the database check         *)
(* orders_cancellation_shape_check refuses the transaction, and with it    *)
(* the whole request, when they disagree.                                  *)
MoveTo(next, stamp) ==
    /\ stamp = (next = "cancelled")
    /\ state' = next
    /\ cancelledAt' = stamp
    /\ timeline' = timeline \cup ({next} \cap ProductionStates)

-----------------------------------------------------------------------------
(* Checkout has just placed the order.                                     *)

Init ==
    /\ state = "initial_payment_review"
    /\ timeline = {}
    /\ cancelledAt = FALSE
    /\ issueWindow = "none"
    /\ payments = [initial |-> "pending_confirmation",
                   final_online |-> IF PaidUpFront THEN "not_required"
                                                   ELSE "not_submitted"]
    /\ stages = [s \in StageCodes |-> "pending_pof"]
    /\ claims = [c \in Claims \cup Issues |-> "none"]
    /\ issues = [i \in Issues |-> "none"]
    /\ payoutHold = FALSE
    /\ shopHandover = "none"
    /\ forcedSteps = {}
    /\ pickupChecklist = "none"
    /\ refund = [status |-> "none", beforeProduction |-> FALSE,
                 destination |-> FALSE, settled |-> FALSE]
    /\ filed = 0
    /\ settlements = 0
    /\ refunded = [c \in Components |-> 0]
    /\ riderEntitlement = 0
    /\ settlementPaid = 0
    /\ pendingPayout = 0

-----------------------------------------------------------------------------
(* POST /orders/:id/transition                                             *)

(* A minted handover that nobody has proved refuses every later state.     *)
AnyHandoverAllows(next) == TRUE
HandoverAllows(next) == HandoverPending => next \notin HandedToClient

(* The transitions that ask nothing beyond the table.                      *)
Transition(next) ==
    /\ <<state, next>> \in TRANSITIONS
    /\ next \notin PACKAGING_STATES \cup {"cancelled", "payout_released"}
    /\ ~WorkStopped
    /\ HandoverAllows(next)
    /\ MoveTo(next, cancelledAt)
    /\ UNCHANGED <<issueWindow, payments, stages, cases, production, refund,
                   filed, settlement>>

(* Operations cancels: the decision is recorded, no money moves.           *)
CancelTransition ==
    /\ <<state, "cancelled">> \in TRANSITIONS
    /\ ~WorkStopped
    /\ MoveTo("cancelled", TRUE)
    /\ UNCHANGED <<issueWindow, payments, stages, cases, production, refund,
                   filed, settlement>>

(* handoverRequirements: what the shop must have shown GRIDGO.             *)
HandoverRequirements(next) ==
    /\ shopHandover \in {"finished", "approved"}
    /\ next = "ready_for_dispatch" => shopHandover = "approved"

(* productionTransitionReadiness: the shop shows its work, Operations      *)
(* forces the step and it is recorded; neither passes a claim hold.        *)
PackagingTransition(next, operations) ==
    /\ next \in PACKAGING_STATES
    /\ <<state, next>> \in TRANSITIONS
    /\ ~WorkStopped
    /\ ~ClaimHold
    /\ operations \/ HandoverRequirements(next)
    /\ MoveTo(next, cancelledAt)
    /\ forcedSteps' = IF operations THEN forcedSteps \cup {next} ELSE forcedSteps
    /\ UNCHANGED <<issueWindow, payments, stages, cases, shopHandover,
                   pickupChecklist, refund, filed, settlement>>

(* The mutant closes the payout over shares that only have their proof.    *)
NoShareLacksProof == \A s \in StageCodes : stages[s] # "pending_pof"
AllSharesReleased == \A s \in StageCodes : stages[s] = "released"

PayoutReleasedTransition ==
    /\ <<state, "payout_released">> \in TRANSITIONS
    /\ ~WorkStopped
    /\ HandoverAllows("payout_released")
    /\ ~ClaimHold
    /\ AllSharesReleased
    /\ MoveTo("payout_released", cancelledAt)
    /\ UNCHANGED <<issueWindow, payments, stages, cases, production, refund,
                   filed, settlement>>

-----------------------------------------------------------------------------
(* POST /orders/:id/payments/:code/{submit, confirm, reject}               *)

(* The work stop lets Operations settle a balance that was already sent    *)
(* when a refund was filed, until the refund is settled.                   *)
ReconciliationAllowed(p) ==
    ~WorkStopped \/ (p = "final_online" /\ RefundHold /\ ~Settled)

SubmitPayment(p) ==
    /\ ~WorkStopped
    /\ payments[p] = "not_submitted"
    /\ p = "initial" =>
          state \in {"awaiting_initial_payment", "initial_payment_review"}
    /\ p = "final_online" => payments.initial = "confirmed"
    /\ payments' = [payments EXCEPT ![p] = "pending_confirmation"]
    /\ MoveTo(IF p = "initial" THEN "initial_payment_review" ELSE state,
              cancelledAt)
    /\ UNCHANGED <<issueWindow, stages, cases, production, refund, filed,
                   settlement>>

ConfirmPayment(p) ==
    /\ ReconciliationAllowed(p)
    /\ payments[p] = "pending_confirmation"
    /\ payments' = [payments EXCEPT ![p] = "confirmed"]
    /\ MoveTo(IF p = "initial" THEN "needs_qa" ELSE state, cancelledAt)
    /\ UNCHANGED <<issueWindow, stages, cases, production, refund, filed,
                   settlement>>

RejectPayment(p) ==
    /\ ReconciliationAllowed(p)
    /\ payments[p] = "pending_confirmation"
    /\ payments' = [payments EXCEPT ![p] = "not_submitted"]
    /\ MoveTo(IF p = "initial" THEN "awaiting_initial_payment" ELSE state,
              cancelledAt)
    /\ UNCHANGED <<issueWindow, stages, cases, production, refund, filed,
                   settlement>>

-----------------------------------------------------------------------------
(* Production, dispatch and the goods changing hands.                      *)

(* POST /orders/:id/production-finished                                    *)
FinishProduction ==
    /\ ~WorkStopped
    /\ ~ClaimHold
    /\ state = "production"
    /\ shopHandover' = "finished"
    /\ MoveTo("supplier_self_qc", cancelledAt)
    /\ UNCHANGED <<issueWindow, payments, stages, cases, forcedSteps,
                   pickupChecklist, refund, filed, settlement>>

(* POST /orders/:id/production-review                                      *)
ReviewProduction(decision) ==
    /\ ~WorkStopped
    /\ ~ClaimHold
    /\ state = "supplier_self_qc"
    /\ shopHandover = "finished"
    /\ shopHandover' = decision
    /\ MoveTo(IF decision = "rejected" THEN "production" ELSE state, cancelledAt)
    /\ UNCHANGED <<issueWindow, payments, stages, cases, forcedSteps,
                   pickupChecklist, refund, filed, settlement>>

(* POST /dispatch/:id/accept                                               *)
AcceptDispatch ==
    /\ ~WorkStopped
    /\ state = "ready_for_dispatch"
    /\ MoveTo("rider_assigned", cancelledAt)
    /\ UNCHANGED <<issueWindow, payments, stages, cases, production, refund,
                   filed, settlement>>

(* POST /dispatch/:id/pickup-checklist: six checks, and the pieces counted.*)
(* An escalation is open exactly while the checklist is failed_escalated.  *)
CheckUnpacked(passed) ==
    /\ ~WorkStopped
    /\ state = "rider_assigned"
    /\ pickupChecklist # "failed_escalated"
    /\ ~ClaimHold
    /\ pickupChecklist' = IF passed THEN "inspected" ELSE "failed_escalated"
    /\ UNCHANGED <<lifecycle, issueWindow, payments, stages, cases,
                   shopHandover, forcedSteps, refund, filed, settlement>>

(* POST /dispatch/:id/pickup-confirm, with the packing photo and signature *)
ConfirmPickup ==
    /\ ~WorkStopped
    /\ state = "rider_assigned"
    /\ ~ClaimHold
    /\ pickupChecklist = "inspected"
    /\ pickupChecklist' = "passed"
    /\ MoveTo("picked_up", cancelledAt)
    /\ UNCHANGED <<issueWindow, payments, stages, cases, shopHandover,
                   forcedSteps, refund, filed, settlement>>

(* POST /escalations/:id/resolve: the six checks must be repeated.         *)
ResolveEscalation ==
    /\ pickupChecklist = "failed_escalated"
    /\ pickupChecklist' = "escalation_resolved"
    /\ UNCHANGED <<lifecycle, issueWindow, payments, stages, cases,
                   shopHandover, forcedSteps, refund, filed, settlement>>

(* completeHandover: delivered, and at once the issue window.              *)
CompleteHandover ==
    /\ ~cancelledAt
    /\ state' = "issue_window_open"
    /\ cancelledAt' = cancelledAt
    /\ timeline' = timeline \cup {"delivered", "issue_window_open"}
    /\ issueWindow' = "running"

(* recordDeliveryProof, and a proof attached to a stage by hand.           *)
WithProof(s) ==
    IF stages[s] = "pending_pof" THEN [stages EXCEPT ![s] = "pof_attached"]
                                 ELSE stages

(* Who waits for the balance at the door: the client of a delivery.  A     *)
(* collected job is only put on GRIDGO's shelf.                            *)
BalanceClearsDelivery ==
    FulfillmentMode = "delivery" => PaymentSettled("final_online")

(* POST /dispatch/:id/delivery, with the client's code when one was minted *)
RecordDelivery ==
    /\ ~WorkStopped
    /\ state \in {"picked_up", "out_for_delivery"}
    /\ BalanceClearsDelivery
    /\ stages' = WithProof("delivered")
    /\ IF FulfillmentMode = "pickup"
       THEN MoveTo("awaiting_collection", cancelledAt) /\ UNCHANGED issueWindow
       ELSE CompleteHandover
    /\ UNCHANGED <<payments, cases, production, refund, filed, settlement>>

(* The counter: POST /orders/:id/collection, or with a minted QR and code  *)
(* POST /staff/hub/claims.                                                 *)
CollectAtCounter ==
    /\ ~WorkStopped
    /\ state = "awaiting_collection"
    /\ PaymentSettled("final_online")
    /\ CompleteHandover
    /\ UNCHANGED <<payments, stages, cases, production, refund, filed,
                   settlement>>

-----------------------------------------------------------------------------
(* The issue window, issues and claims.                                    *)

IssueWindowElapses ==
    /\ issueWindow = "running"
    /\ issueWindow' = "elapsed"
    /\ UNCHANGED <<lifecycle, payments, stages, cases, production, refund,
                   filed, settlement>>

(* expireIssueWindows, one pass of the lifecycle sweep.  The mutant lets a *)
(* claim that was ever raised keep the window open.                        *)
CloseUnlessEverClaimed ==
    /\ state = "issue_window_open"
    /\ issueWindow = "elapsed"
    /\ ~ActivePayoutHold
    /\ \A c \in Claims \cup Issues : claims[c] = "none"
    /\ MoveTo("completed", cancelledAt)
    /\ UNCHANGED <<issueWindow, payments, stages, cases, production, refund,
                   filed, settlement>>
ExpireIssueWindow ==
    /\ state = "issue_window_open"
    /\ issueWindow = "elapsed"
    /\ ~ActivePayoutHold
    /\ MoveTo("completed", cancelledAt)
    /\ UNCHANGED <<issueWindow, payments, stages, cases, production, refund,
                   filed, settlement>>

(* POST /orders/:id/confirm: the client says the job is fine.              *)
ConfirmIssueWindow ==
    /\ ~WorkStopped
    /\ state = "issue_window_open"
    /\ ~OpenIssue
    /\ ~ActivePayoutHold
    /\ MoveTo("completed", cancelledAt)
    /\ UNCHANGED <<issueWindow, payments, stages, cases, production, refund,
                   filed, settlement>>

(* POST /orders/:id/issues: the report holds the payout with a claim of its*)
(* own.  The refund work stop lets it through.                             *)
ReportIssue(i) ==
    /\ state = "issue_window_open"
    /\ issueWindow = "running"
    /\ ~OpenIssue
    /\ issues[i] = "none"
    /\ issues' = [issues EXCEPT ![i] = "open"]
    /\ claims' = [claims EXCEPT ![i] = "payout_held"]
    /\ payoutHold' = TRUE
    /\ UNCHANGED <<lifecycle, issueWindow, payments, stages, production,
                   refund, filed, settlement>>

(* The hold stays while another claim is active.  The mutant never clears  *)
(* it.                                                                     *)
HoldStaysAlways(c) == payoutHold
HoldAfterRelease(c) == ActiveClaims({c}) # {}

(* POST /issues/:id/resolve, optionally releasing the issue's claim.       *)
ResolveIssue(i, outcome, releasePayout) ==
    /\ issues[i] = "open"
    /\ issues' = [issues EXCEPT ![i] = outcome]
    /\ IF releasePayout /\ i \in ActiveClaims({})
       THEN /\ claims' = [claims EXCEPT ![i] = "released"]
            /\ payoutHold' = HoldAfterRelease(i)
       ELSE UNCHANGED <<claims, payoutHold>>
    /\ UNCHANGED <<lifecycle, issueWindow, payments, stages, production,
                   refund, filed, settlement>>

(* POST /claims: the hold follows this claim alone, whatever the others.   *)
RaiseClaim(c, hold) ==
    /\ claims[c] = "none"
    /\ claims' = [claims EXCEPT ![c] = IF hold THEN "payout_held" ELSE "open"]
    /\ payoutHold' = hold
    /\ UNCHANGED <<lifecycle, issueWindow, payments, stages, issues,
                   production, refund, filed, settlement>>

(* POST /claims/:id/hold                                                   *)
HoldClaim(c) ==
    /\ claims[c] \in {"open", "payout_held"}
    /\ claims' = [claims EXCEPT ![c] = "payout_held"]
    /\ payoutHold' = TRUE
    /\ UNCHANGED <<lifecycle, issueWindow, payments, stages, issues,
                   production, refund, filed, settlement>>

(* POST /claims/:id/release, which a released claim also accepts.          *)
ReleaseClaim(c) ==
    /\ claims[c] # "none"
    /\ claims' = [claims EXCEPT ![c] = "released"]
    /\ payoutHold' = HoldAfterRelease(c)
    /\ UNCHANGED <<lifecycle, issueWindow, payments, stages, issues,
                   production, refund, filed, settlement>>

-----------------------------------------------------------------------------
(* The shop's money.                                                       *)

(* POST /files/:id/attach of a fulfilment_proof: the shop's photographs or *)
(* the rider's.  Neither a claim nor a refund stops the evidence.          *)
AttachProof(s) ==
    /\ s \in {"production_started", "delivered"}
    /\ s = "delivered" => "rider_assigned" \in timeline
    /\ stages' = WithProof(s)
    /\ UNCHANGED <<lifecycle, issueWindow, payments, cases, production, refund,
                   filed, settlement>>

(* GRIDGO never pays out money it has not collected.                       *)
PrincipalCovers(s) == ReleasedPrincipal + StageAmounts[s] <= Collected("principal")

(* releaseMilestone behind POST /orders/:id/milestones/:code/release       *)
ReleaseMilestone(s) ==
    /\ ~WorkStopped
    /\ stages[s] # "released"
    /\ ~ActivePayoutHold
    /\ s # "issue_window" => stages[s] = "pof_attached"
    /\ state \in StageStates(s)
    /\ PrincipalCovers(s)
    /\ stages' = [stages EXCEPT ![s] = "released"]
    /\ UNCHANGED <<lifecycle, issueWindow, payments, cases, production, refund,
                   filed, settlement>>

-----------------------------------------------------------------------------
(* Refund requests: src/src/refunds.js and refund-policy.js.               *)

(* POST /orders/:id/refund-requests, from any state with collected money.  *)
FileRefund(withDestination) ==
    /\ filed < MaxRequests
    /\ ~RefundHold
    /\ \E c \in Components : Collected(c) > 0
    /\ filed' = filed + 1
    /\ refund' = [status |-> "requested",
                  beforeProduction |-> ~ProductionStarted,
                  destination |-> withDestination,
                  settled |-> FALSE]
    /\ UNCHANGED <<lifecycle, issueWindow, payments, stages, cases, production,
                   settlement>>

(* The request as it is stored: only filing decides beforeProduction.      *)
RequestAs(status, destination, settled) ==
    [status |-> status, beforeProduction |-> refund.beforeProduction,
     destination |-> destination, settled |-> settled]

RefundMovesTo(status) ==
    /\ refund' = RequestAs(status, refund.destination, refund.settled)
    /\ UNCHANGED <<lifecycle, issueWindow, payments, stages, cases, production,
                   filed, settlement>>

(* PATCH /refund-requests/:id/destination: a new QR is reviewed again.     *)
ReplaceDestination ==
    /\ refund.status \in {"requested", "reviewed", "approved", "destination_review"}
    /\ refund' = RequestAs(IF refund.settled THEN "destination_review"
                                             ELSE "requested",
                           TRUE, refund.settled)
    /\ UNCHANGED <<lifecycle, issueWindow, payments, stages, cases, production,
                   filed, settlement>>

ReviewRefund ==
    /\ refund.status \in {"requested", "reviewed", "destination_review"}
    /\ refund.destination
    /\ RefundMovesTo(IF refund.settled THEN "approved" ELSE "reviewed")

(* reject and withdraw                                                     *)
CloseRefund(outcome) ==
    /\ refund.status \in {"requested", "reviewed"}
    /\ ~refund.settled
    /\ RefundMovesTo(outcome)

(* payment-attempts: one payer reserves the transfer.                      *)
ReserveTransfer ==
    /\ refund.status = "approved"
    /\ RefundMovesTo("payment_in_progress")

(* reconcile: the payer does not know, or knows that no money moved.       *)
ReconcileTransfer(outcome) ==
    /\ refund.status \in {"payment_in_progress", "payment_unknown"}
    /\ RefundMovesTo(IF outcome = "unknown" THEN "payment_unknown" ELSE "approved")

(* payments: the exact transfer is recorded with its receipt.              *)
RecordTransfer ==
    /\ refund.status \in {"payment_in_progress", "payment_unknown"}
    /\ RefundMovesTo("paid")

-----------------------------------------------------------------------------
(* settle: calculateRefundSettlement and the terminal settlement.          *)

Smaller(a, b) == IF a < b THEN a ELSE b
Larger(a, b) == IF a > b THEN a ELSE b

(* proportionalFee: cumulative, so the last refund gets the remainder.     *)
CumulativeFee(principal) ==
    IF Subtotal = 0 THEN 0
    ELSE (ServiceFee * principal + Subtotal \div 2) \div Subtotal
ProportionalFee(principal) ==
    IF Subtotal = 0 THEN 0
    ELSE Larger(0, Smaller(Collected("fee") - refunded.fee,
                           CumulativeFee(refunded.principal + principal)
                               - refunded.fee))

RefundableFee(principal) ==
    IF refund.beforeProduction THEN Collected("fee") - refunded.fee
                               ELSE ProportionalFee(principal)
RefundableDelivery(rider) ==
    IF DeliveryCompleted THEN 0
    ELSE Larger(0, Collected("delivery") - refunded.delivery - rider)

(* releasedMinor: what the shop already has.  The mutant forgets what an   *)
(* earlier settlement paid it.                                             *)
StagesReleasedOnly == ReleasedPrincipal
AlreadyPaidToShop == ReleasedPrincipal + settlementPaid

(* The amounts Operations and the shop agree on are allowed: `shop` and    *)
(* `rider` are their entitlements, `principal` what the client gets back.  *)
SettlementAllowed(shop, rider, principal) ==
    LET available == Collected("principal") - refunded.principal - shop IN
    /\ rider >= riderEntitlement
    /\ rider <= Collected("delivery") - refunded.delivery
    /\ DeliveryCompleted => rider >= RiderPayout
    /\ shop >= AlreadyPaidToShop
    /\ shop <= Collected("principal") - refunded.principal
    /\ refund.beforeProduction =>
          AlreadyPaidToShop = 0 /\ shop = 0 /\ rider = 0 /\ principal = available
    /\ principal <= available
    /\ principal + RefundableFee(principal) + RefundableDelivery(rider) > 0

(* Unreleased shares give way to the settlement.                           *)
StagesSuperseded ==
    [s \in StageCodes |->
        IF stages[s] = "released" THEN "released" ELSE "superseded"]

SettleRefund(shop, rider, principal) ==
    /\ refund.status = "reviewed"
    /\ ~refund.settled
    /\ \A p \in Payments : payments[p] # "pending_confirmation"
    /\ SettlementAllowed(shop, rider, principal)
    /\ refund' = RequestAs("approved", refund.destination, TRUE)
    /\ settlements' = settlements + 1
    /\ refunded' = [principal |-> refunded.principal + principal,
                    fee |-> refunded.fee + RefundableFee(principal),
                    delivery |-> refunded.delivery + RefundableDelivery(rider)]
    /\ riderEntitlement' = rider
    /\ pendingPayout' = shop - AlreadyPaidToShop
    /\ stages' = StagesSuperseded
    /\ IF HandoverCompleted THEN MoveTo("completed", cancelledAt)
                            ELSE MoveTo("cancelled", TRUE)
    /\ UNCHANGED <<issueWindow, payments, cases, production, filed,
                   settlementPaid>>

(* supplier-payout: independent of the client's transfer, never of a claim,*)
(* an open issue or a refund still to be decided.                          *)
PaySettlement ==
    /\ pendingPayout > 0
    /\ ~ClaimHold
    /\ ~OpenIssue
    /\ refund.status \notin {"requested", "reviewed"}
    /\ settlementPaid' = settlementPaid + pendingPayout
    /\ pendingPayout' = 0
    /\ UNCHANGED <<lifecycle, issueWindow, payments, stages, cases, production,
                   refund, filed, settlements, refunded, riderEntitlement>>

-----------------------------------------------------------------------------
FulfilmentNext ==
    \/ \E next \in States : Transition(next)
    \/ CancelTransition
    \/ \E next \in PACKAGING_STATES, operations \in BOOLEAN :
          PackagingTransition(next, operations)
    \/ FinishProduction
    \/ \E decision \in {"approved", "rejected"} : ReviewProduction(decision)
    \/ AcceptDispatch
    \/ \E passed \in BOOLEAN : CheckUnpacked(passed)
    \/ ConfirmPickup
    \/ ResolveEscalation
    \/ RecordDelivery
    \/ CollectAtCounter
    \/ IssueWindowElapses
    \/ ExpireIssueWindow
    \/ ConfirmIssueWindow

CaseNext ==
    \/ \E i \in Issues : ReportIssue(i)
    \/ \E i \in Issues, outcome \in {"resolved", "dismissed"},
          releasePayout \in BOOLEAN : ResolveIssue(i, outcome, releasePayout)
    \/ \E c \in Claims, hold \in BOOLEAN : RaiseClaim(c, hold)
    \/ \E c \in Claims \cup Issues : HoldClaim(c)
    \/ \E c \in Claims \cup Issues : ReleaseClaim(c)

MoneyNext ==
    \/ \E p \in Payments : SubmitPayment(p)
    \/ \E p \in Payments : ConfirmPayment(p)
    \/ \E p \in Payments : RejectPayment(p)
    \/ \E s \in StageCodes : AttachProof(s)
    \/ \E s \in StageCodes : ReleaseMilestone(s)
    \/ PayoutReleasedTransition
    \/ PaySettlement

RefundNext ==
    \/ \E withDestination \in BOOLEAN : FileRefund(withDestination)
    \/ ReplaceDestination
    \/ ReviewRefund
    \/ \E shop \in 0..Collected("principal"), rider \in 0..Collected("delivery"),
          principal \in 0..Collected("principal") :
          SettleRefund(shop, rider, principal)
    \/ \E outcome \in {"rejected", "withdrawn"} : CloseRefund(outcome)
    \/ ReserveTransfer
    \/ \E outcome \in {"unknown", "failed"} : ReconcileTransfer(outcome)
    \/ RecordTransfer

Next == FulfilmentNext \/ CaseNext \/ MoneyNext \/ RefundNext

Spec == Init /\ [][Next]_vars

(* Time passes and the lifecycle sweep keeps running (setInterval in       *)
(* server.js); no person is assumed to do anything.                        *)
Fairness == WF_vars(IssueWindowElapses) /\ WF_vars(ExpireIssueWindow)
FairSpec == Spec /\ Fairness

-----------------------------------------------------------------------------
(* Types.                                                                  *)

PaymentStatuses ==
    {"not_submitted", "pending_confirmation", "confirmed", "not_required"}
StageStatuses == {"pending_pof", "pof_attached", "released", "superseded"}
RefundStatuses ==
    ActiveRefundStatuses \cup {"none", "paid", "rejected", "withdrawn"}

(* Every variable holds a value the program stores in it.                  *)
TypeOK ==
    /\ state \in States
    /\ timeline \in SUBSET ProductionStates
    /\ cancelledAt \in BOOLEAN
    /\ issueWindow \in {"none", "running", "elapsed"}
    /\ payments \in [Payments -> PaymentStatuses]
    /\ stages \in [StageCodes -> StageStatuses]
    /\ claims \in [Claims \cup Issues -> {"none", "open", "payout_held", "released"}]
    /\ issues \in [Issues -> {"none", "open", "resolved", "dismissed"}]
    /\ payoutHold \in BOOLEAN
    /\ shopHandover \in {"none", "finished", "approved", "rejected"}
    /\ forcedSteps \in SUBSET PACKAGING_STATES
    /\ pickupChecklist \in {"none", "inspected", "failed_escalated",
                            "escalation_resolved", "passed"}
    /\ refund \in [status : RefundStatuses, beforeProduction : BOOLEAN,
                   destination : BOOLEAN, settled : BOOLEAN]
    /\ filed \in 0..MaxRequests
    /\ settlements \in Nat
    /\ refunded \in [Components -> Nat]
    /\ riderEntitlement \in Nat
    /\ settlementPaid \in Nat
    /\ pendingPayout \in Nat

-----------------------------------------------------------------------------
(* Safety.                                                                 *)

(* What the shop has been sent and promised, and what settlements return   *)
(* to the client and leave to the rider, never exceeds, component by       *)
(* component, what the client's confirmed transfers brought in: across     *)
(* stage releases, repeated settlements and settlement payouts.            *)
FundsCover ==
    /\ ReleasedPrincipal + settlementPaid + pendingPayout + refunded.principal
          <= Collected("principal")
    /\ refunded.fee <= Collected("fee")
    /\ refunded.delivery + riderEntitlement <= Collected("delivery")

(* A share that has been released is one the order earned: production      *)
(* started, the client had the goods, the issue window closed.  A later    *)
(* cancellation or settlement never makes it otherwise.                    *)
StagesFollowWork ==
    /\ stages["production_started"] = "released" => "production" \in timeline
    /\ stages["delivered"] = "released" => "delivered" \in timeline
    /\ stages["issue_window"] = "released" => "completed" \in timeline

(* A request filed as before production, which forces a full refund, stays *)
(* true while it is open: nobody starts production under it and no share   *)
(* is released.                                                            *)
BeforeProductionTruth ==
    RefundHold /\ ~refund.settled /\ refund.beforeProduction => ~ProductionStarted

(* A held payout always has an active claim behind it, so that Operations  *)
(* has something to release: the order is never held with nothing to lift. *)
HoldHasACause == payoutHold => ActiveClaims({}) # {}

(* Closing the supplier payout means the shop has its whole price and the  *)
(* client has paid for it.                                                 *)
PaidOutMeansPaidIn ==
    state = "payout_released" =>
        /\ ReleasedPrincipal = Subtotal
        /\ Collected("principal") >= Subtotal
        /\ settlements = 0

(* Goods leave the shop only after GRIDGO approved the photographs of them *)
(* in their final form, or Operations forced the step on the record.       *)
DispatchedWorkWasReviewed ==
    "ready_for_dispatch" \in timeline =>
        shopHandover = "approved" \/ "ready_for_dispatch" \in forcedSteps

(* "A collected job waits on our shelf. Only the counter can end it, and   *)
(* only once the client has settled what is left" (server.js TRANSITIONS); *)
(* a delivered one is held at the door the same way (RecordDelivery).      *)
BalanceSettledAtHandover ==
    "delivered" \in timeline => PaymentSettled("final_online")

(* "Both successful delivery and hub claim call the same delivery event: ... *)
(* open the configured issue window" (docs/HUB_HANDOVER_API.md): a client   *)
(* who has the goods was given a time to report a problem in, and a clock   *)
(* that ends it.                                                            *)
HandedGoodsHaveAWindow == "delivered" \in timeline => issueWindow # "none"

(* "Payment reconciliation must never restart a group Operations           *)
(* cancelled" (baskets.js), and a refund needs every transfer reconciled   *)
(* first: an instalment waiting for confirmation can be confirmed or       *)
(* rejected, unless a refund is being decided.                             *)
EverySubmissionReconcilable ==
    \A p \in Payments :
        payments[p] = "pending_confirmation" /\ ~WorkStopped =>
            ENABLED (ConfirmPayment(p) \/ RejectPayment(p))

(* From the moment a refund is filed until it is refused or withdrawn, and *)
(* for good once it is settled, nothing moves the order or pays a stage    *)
(* but a settlement, and superseded shares stay superseded.                *)
StoppedOrdersStayStopped ==
    [][ /\ (RefundHold \/ Settled) /\ settlements' = settlements =>
              UNCHANGED <<state, timeline, cancelledAt, ReleasedPrincipal>>
        /\ Settled => settlements' > 0 /\ UNCHANGED payments ]_vars

(* While any claim is active, whichever claims came, went or were raised   *)
(* without a hold beside it, the shop is paid nothing, the finished goods  *)
(* are neither reviewed nor packed nor handed to a rider, and the order is *)
(* not completed or its payout closed, except by settling a refund.        *)
ClaimsHoldMoneyAndGoods ==
    [][ ActiveClaims({}) # {} =>
            /\ UNCHANGED <<ReleasedPrincipal, settlementPaid, shopHandover>>
            /\ state' # state /\ settlements' = settlements =>
                  state' \notin PACKAGING_STATES \cup {"picked_up"} \cup WindowClosed ]_vars

-----------------------------------------------------------------------------
(* Liveness.                                                               *)

(* An elapsed issue window completes the order by itself once nothing      *)
(* holds its payout any more.                                              *)
ElapsedWindowsClose ==
    []<>ActivePayoutHold \/
        ((state = "issue_window_open" /\ issueWindow = "elapsed")
            ~> (state # "issue_window_open"))

-----------------------------------------------------------------------------
(* The order's principal is a ledger that keeps Escrow's promises.         *)
Ledger ==
    INSTANCE Escrow WITH
        received <- Collected("principal"),
        paid <- ReleasedPrincipal + settlementPaid,
        owed <- pendingPayout,
        returned <- refunded.principal,
        closed <- Settled
LedgerSpec == Ledger!Spec
=============================================================================
