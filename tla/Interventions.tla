---------------------------- MODULE Interventions ----------------------------
(***************************************************************************)
(* What may be agreed about a job after it was given to a shop:            *)
(* src/src/shop-recovery.js, shop-recovery-routes.js, shop-move-pricing.js,*)
(* order-changes.js, order-reschedule.js, the refund intake of refunds.js  *)
(* and the guards of save() in server.js.                                  *)
(*                                                                         *)
(* One order and its shop.  A shop that declines, cancels or does not      *)
(* answer within the hour opens a recovery: the client takes a substitute, *)
(* pays what it costs more, or asks for the money back.  The shop may ask  *)
(* for a change of the job with an extra price, and once for a later       *)
(* deadline, whose refusal opens a second way to another shop.  Each of    *)
(* these holds the work, and they meet in the same order.                  *)
(*                                                                         *)
(* An offer stands for the option of it the client takes; the price of a   *)
(* shop is what it asks for the client's lines.                            *)
(***************************************************************************)
EXTENDS Integers, FiniteSets

CONSTANTS
    Shops,          \* shops that can make the job
    First,          \* the shop it was given to
    Prices,         \* what a substitute may ask for it
    Subtotal,       \* the committed price of the job
    Fee,            \* GRIDGO's service fee, paid with it
    CoverBps,       \* setting: share of the fee that covers a dearer shop
    Extra,          \* what a change costs more
    MaxIncidents    \* bound: failures, changes and refund requests in all

ASSUME InterventionsAssumption ==
    /\ First \in Shops /\ IsFiniteSet(Shops)
    /\ Prices \subseteq Nat /\ Subtotal \in Nat \ {0} /\ Fee \in Nat
    /\ CoverBps \in 0..10000 /\ Extra \in Nat
    /\ MaxIncidents \in Nat

VARIABLES
    state,      \* of the order
    wasReady,   \* its timeline shows it was once ready for dispatch
    shop,       \* supplierId
    declined,   \* declinedBy: shops it is not offered to again
    paid,       \* the client's transfers are confirmed
    released,   \* stages paid to the shop
    adjustment, \* the sum of the stages' priceAdjustmentMinor
    extras,     \* principal of the changes whose transfer is confirmed
    deducted,   \* shops with an applied deduction for lateness
    acceptance, \* shopAcceptance
    recovery,   \* shopRecovery
    move,       \* the last of shopMoves
    change,     \* the last of the order's change requests
    resched,    \* rescheduleRequest
    refund,     \* the refund request that stops work; a closed one is "none"
    credit,     \* what becomes of the difference of a cheaper shop
    incidents   \* bound's counter

order == <<state, wasReady, shop, declined, paid>>
money == <<released, adjustment, extras, deducted>>
terms == <<change, incidents>>
refunding == <<refund, credit>>
vars == <<order, money, acceptance, recovery, move, terms, resched, refunding>>

----------------------------------------------------------------------------
(* The job                                                                  *)

\* CANCELLABLE_SHOP_STATES, without the states before the shop's answer that
\* only the legacy quotation flow has.  "production" stands for its quality
\* check too, "ready_for_dispatch" for an assigned rider, "delivered" for
\* everything after the pickup: these guards do not tell them apart.
CancellableShopStates ==
    {"supplier_assigned", "payment_authorized", "production",
     "ready_for_dispatch"}
ChangeStates == {"supplier_assigned", "payment_authorized", "production"}
States == CancellableShopStates \cup {"delivered", "completed", "cancelled"}

NextStates == [s \in States |->
    CASE s = "payment_authorized" -> {"production"}
      [] s = "production" -> {"ready_for_dispatch"}
      [] s = "ready_for_dispatch" -> {"delivered"}
      [] s = "delivered" -> {"completed"}
      [] OTHER -> {}]

HandedOver == {"delivered", "completed"}

WindowOpen(s, ready) == s \in ChangeStates /\ ~ready

RoundBps(value, bps) == (value * bps + 5000) \div 10000

StageCodes == {"production_started", "delivered", "issue_window"}
ShareBps == [production_started |-> 4000, delivered |-> 3500]
StageStates == [production_started |-> States \ {"supplier_assigned",
                                        "payment_authorized", "cancelled"},
                delivered |-> HandedOver,
                issue_window |-> {"completed"}]

\* An amount over the three stages; the last takes the remainder.
Spread(amount) ==
    [c \in StageCodes |->
        IF c \in DOMAIN ShareBps THEN RoundBps(amount, ShareBps[c])
        ELSE amount - RoundBps(amount, ShareBps.production_started)
                    - RoundBps(amount, ShareBps.delivered)]

\* createPayoutMilestones with what applyStagePriceAdjustment put on top.
StageAmount(c) ==
    Spread(Subtotal)[c] + (IF adjustment < 0 THEN -Spread(-adjustment)[c]
                           ELSE Spread(adjustment)[c])

StagesTotal == StageAmount("production_started") + StageAmount("delivered")
                   + StageAmount("issue_window")
ReleasedTotal ==
    LET Of(c) == IF c \in released THEN StageAmount(c) ELSE 0
    IN  Of("production_started") + Of("delivered") + Of("issue_window")

\* paidShopShare, hasReleasedShare.
PaidShopShare == extras > 0 \/ released # {}

----------------------------------------------------------------------------
(* Holds                                                                    *)

NoRecovery ==
    [n |-> 0, status |-> "none", fault |-> "shop", offer |-> {},
     current |-> FALSE, topUp |-> FALSE, refund |-> FALSE]
NoChange == [status |-> "none", shop |-> First, topUp |-> FALSE,
             dated |-> FALSE, stale |-> FALSE, amount |-> 0]
NoResched == [status |-> "none", resolution |-> "none", shop |-> First,
              overdue |-> FALSE, offer |-> {}, refund |-> FALSE]
NoMove == [of |-> 0, status |-> "none", price |-> Subtotal, cover |-> 0,
           pays |-> 0]

Held(r) == r.status \notin {"none", "accepted"}
RecoveryHeld == Held(recovery)

RescheduleHold ==
    /\ \/ resched.status = "declined"
       \/ resched.resolution = "operations_required"
    /\ resched.resolution \notin {"rematched", "resolved"}

RefundHold == refund \in {"open", "approved"}
RefundStop == refund \in {"open", "approved", "paid"}  \* or a settlement
WorkStopped == RescheduleHold \/ RecoveryHeld \/ RefundStop

OpenChanges == {"pending", "pending_payment", "pending_confirmation"}
ChangePaymentPending == change.status = "pending_confirmation"

\* The one payment a recovery waits for.
AwaitedTopUp(c, r, s, statuses) ==
    c.topUp /\ r.topUp /\ r.status \in statuses /\ c.shop = s

\* An unpaid row that goes: its window or its shop did.
Unavailable(c) ==
    /\ c.status \in {"pending", "pending_payment"}
    /\ \/ ~WindowOpen(state', wasReady')
       \/ /\ ~(c.shop = shop' /\ ~Held(recovery'))
          /\ ~AwaitedTopUp(c, recovery', shop',
                           {"awaiting_payment", "refund_requested"})

Closing(c) == IF Unavailable(c) THEN [c EXCEPT !.status = "closed"] ELSE c

\* save() without its guard on submitted transfers (a mutant).
SaveUnguarded(c) ==
    /\ shop' # shop => extras' = 0
    /\ change' = Closing(c)

\* What save() refuses and closes, c being the row as the handler leaves it:
\* a submitted transfer keeps its window, its shop and its recovery.
Save(c) ==
    /\ c.status = "pending_confirmation" =>
         /\ WindowOpen(state', wasReady')
         /\ shop' = shop
         /\ Held(recovery') =>
               AwaitedTopUp(c, recovery', shop', {"awaiting_payment"})
    /\ shop' # shop => extras' = 0
    /\ change' = Closing(c)

----------------------------------------------------------------------------
(* The shop's hour                                                          *)

FreshAcceptance(s) == [shop |-> s, status |-> "pending", overdue |-> FALSE]

Init ==
    /\ state = "supplier_assigned" /\ wasReady = FALSE
    /\ shop = First /\ declined = {} /\ paid \in BOOLEAN
    /\ released = {} /\ adjustment = 0 /\ extras = 0 /\ deducted = {}
    /\ acceptance = FreshAcceptance(First)
    /\ recovery = NoRecovery /\ move = NoMove
    /\ change = NoChange
    /\ resched = NoResched
    /\ refund = "none" /\ incidents = 0
    /\ credit = [status |-> "none", amount |-> 0]

\* One more of what happens at most so often.
Incident == incidents < MaxIncidents /\ incidents' = incidents + 1

AcceptanceLapses ==
    /\ acceptance.status = "pending" /\ ~acceptance.overdue
    /\ acceptance' = [acceptance EXCEPT !.overdue = TRUE]
    /\ UNCHANGED <<order, money, recovery, move, terms, resched, refunding>>

\* priceShopMove: what the substitute costs, whom.
Cap == IF ~paid THEN 0
       ELSE LET rate == RoundBps(Fee, CoverBps)
                left == Fee - move.cover
            IN  IF rate < left THEN rate ELSE left

Cover(price) == IF price <= Subtotal THEN 0
                ELSE IF price - Subtotal < Cap THEN price - Subtotal ELSE Cap

Pays(price) == IF price <= Subtotal THEN 0
               ELSE price - Subtotal - Cover(price)

\* A client-caused move only takes shops that are not dearer, and is paid at
\* the committed price.
Offers(fault, without) ==
    {{}} \cup {{[shop |-> s, price |-> p]} :
                  s \in Shops \ without,
                  p \in IF fault = "client" THEN {Subtotal} ELSE Prices}

\* Operations only review a share that was paid (a mutant).
RequiresOpsForShares == PaidShopShare

\* A paid share and an earlier priced move are for Operations to untangle.
RequiresOps == PaidShopShare \/ move.price # Subtotal

\* recordShopFailure; the caller saves.
RecordShopFailure(kind) ==
    /\ ~RescheduleHold
    /\ ~RecoveryHeld
    /\ state \in CancellableShopStates
    /\ ~RefundStop
    /\ LET fault == IF kind = "client" THEN "client" ELSE "shop" IN
       \E offer \in IF RequiresOps THEN {{}}
                    ELSE Offers(fault, declined \cup {shop}) :
          recovery' = [n |-> recovery.n + 1, fault |-> fault,
                       status |-> IF RequiresOps THEN "ops_review"
                                  ELSE "awaiting_client",
                       offer |-> offer, current |-> TRUE,
                       topUp |-> FALSE, refund |-> FALSE]
    /\ declined' = declined \cup {shop}
    /\ acceptance' = [acceptance EXCEPT !.status = "failed"]

\* The shop declines or cancels; Operations move a late job, or one GRIDGO or
\* the client has to move.
ShopFails(kind) ==
    /\ kind = "declined" => state = "supplier_assigned"
    /\ kind = "late" => state \in {"payment_authorized", "production"}
    /\ Incident
    /\ RecordShopFailure(kind)
    /\ UNCHANGED <<state, wasReady, shop, paid, money, move, resched,
                   refunding>>
    /\ Save(change)

\* expireShopAcceptances; a submitted transfer puts it off.
ExpireAcceptance ==
    /\ ~ChangePaymentPending
    /\ state = "supplier_assigned"
    /\ ~RecoveryHeld
    /\ ~RefundStop
    /\ acceptance.status = "pending" /\ acceptance.overdue
    /\ RecordShopFailure("timed_out")
    /\ UNCHANGED <<state, wasReady, shop, paid, money, move, incidents, resched,
                   refunding>>
    /\ Save(change)

\* The shop accepts in time; too late an answer is a timeout.
AcceptJob ==
    /\ state = "supplier_assigned" /\ paid
    /\ ~WorkStopped
    /\ IF acceptance.overdue
       THEN /\ RecordShopFailure("timed_out")
            /\ UNCHANGED state
       ELSE /\ state' = "payment_authorized"
            /\ acceptance' = [acceptance EXCEPT !.status = "accepted"]
            /\ UNCHANGED <<recovery, declined>>
    /\ UNCHANGED <<wasReady, shop, paid, money, move, incidents, resched,
                   refunding>>
    /\ Save(change)

Advance ==
    /\ ~WorkStopped
    /\ state' \in NextStates[state]
    /\ wasReady' = (wasReady \/ state' = "ready_for_dispatch")
    /\ UNCHANGED <<shop, declined, paid, money, acceptance, recovery, move,
                   incidents, resched, refunding>>
    /\ Save(change)

CancelOrder ==
    /\ state \in {"supplier_assigned", "payment_authorized"}
    /\ ~WorkStopped
    /\ state' = "cancelled"
    /\ UNCHANGED <<wasReady, shop, declined, paid, money, acceptance, recovery,
                   move, incidents, resched, refunding>>
    /\ Save(change)

----------------------------------------------------------------------------
(* Another shop                                                             *)

OfferLapses ==
    /\ recovery.status = "awaiting_client"
    /\ recovery.offer # {} /\ recovery.current
    /\ recovery' = [recovery EXCEPT !.current = FALSE]
    /\ UNCHANGED <<order, money, acceptance, move, terms, resched, refunding>>

MayAccept ==
    /\ recovery.status = "awaiting_client" /\ recovery.offer # {}
    /\ ~RescheduleHold
    /\ ~PaidShopShare
    /\ ~RefundStop
    /\ state \in CancellableShopStates

\* The shop, its date or its price is not what the client was shown.
RefreshOffer ==
    /\ MayAccept
    /\ \E offer \in Offers(recovery.fault, declined \cup {shop}) :
          recovery' = [recovery EXCEPT !.offer = offer, !.current = TRUE]
    /\ UNCHANGED <<order, money, acceptance, move, incidents, resched, refunding>>
    /\ Save(change)

\* reserveDifferenceRefund: only from principal that is there, beside no other
\* request.
CreditFor(price) ==
    IF price >= Subtotal THEN credit
    ELSE [status |-> IF ~paid \/ RefundHold \/ credit.status = "reserved"
                     THEN "reconcile" ELSE "reserved",
          amount |-> Subtotal - price]

TopUp(s, amount) ==
    [status |-> "pending_payment", shop |-> s, topUp |-> TRUE,
     dated |-> FALSE, stale |-> FALSE, amount |-> amount]

\* The new shop starts over; its stages are paid on its own price.  What the
\* client pays on top becomes a change of its own, and holds the work.  The
\* offer is not read again.
AcceptSubstitute ==
    /\ MayAccept
    /\ recovery.current
    /\ \E offer \in recovery.offer :
       LET pays == Pays(offer.price)
           cover == Cover(offer.price)
           row == TopUp(offer.shop, pays)
       IN /\ pays > 0 => WindowOpen("supplier_assigned", wasReady)
          /\ state' = "supplier_assigned"
          /\ shop' = offer.shop
          /\ adjustment' = IF offer.price < Subtotal
                           THEN offer.price - Subtotal ELSE cover
          /\ move' = [of |-> recovery.n, price |-> offer.price,
                      cover |-> cover, pays |-> pays,
                      status |-> IF pays > 0 THEN "awaiting_payment"
                                 ELSE "applied"]
          /\ credit' = CreditFor(offer.price)
          /\ IF pays > 0
             THEN /\ recovery' = [recovery EXCEPT !.topUp = TRUE, !.offer = {},
                                            !.status = "awaiting_payment"]
                  /\ UNCHANGED acceptance
             ELSE /\ recovery' = [recovery EXCEPT !.offer = {},
                                            !.status = "accepted"]
                  /\ acceptance' = FreshAcceptance(offer.shop)
          /\ UNCHANGED <<wasReady, declined, paid, released, extras, deducted,
                         incidents, resched, refund>>
          /\ Save(IF pays > 0 THEN row ELSE [change EXCEPT !.stale = TRUE])

----------------------------------------------------------------------------
(* Refunds                                                                  *)

Choosing == {"awaiting_client", "ops_review", "awaiting_payment"}

\* recordRecoveryRefundChoice, with the request it is made by.
RefundChosen(request) ==
    IF recovery.status \in Choosing
    THEN /\ recovery' = [recovery EXCEPT !.status = "refund_requested",
                                         !.refund = request]
         /\ move' = IF recovery.status = "awaiting_payment"
                       /\ move.of = recovery.n
                    THEN [move EXCEPT !.status = "refund_requested"] ELSE move
    ELSE UNCHANGED <<recovery, move>>

\* Intake: from the recovery, from a declined deadline, or on its own.
FileRefund ==
    /\ paid
    /\ ~ChangePaymentPending
    /\ ~RefundStop /\ credit.status # "reserved"
    /\ Incident
    /\ refund' = "open"
    /\ RefundChosen(TRUE)
    /\ UNCHANGED <<order, money, acceptance, credit>>
    /\ Save(change)

RequestRefund == FileRefund /\ UNCHANGED resched

\* Nothing was collected: the order is cancelled instead.
RefundUncollected ==
    /\ ~paid
    /\ recovery.status \in Choosing
    /\ state' = "cancelled"
    /\ RefundChosen(FALSE)
    /\ UNCHANGED <<wasReady, shop, declined, paid, money, acceptance, incidents,
                   resched, refunding>>
    /\ Save(change)

\* restoreRecoveryAfterWithdraw: back to the choice the client left.
Restored ==
    IF recovery.topUp /\ move.of = recovery.n
       /\ move.status = "refund_requested"
    THEN /\ move' = [move EXCEPT !.status = "awaiting_payment"]
         /\ recovery' = [recovery EXCEPT !.status = "awaiting_payment",
                                         !.refund = FALSE]
    ELSE /\ recovery' = [recovery EXCEPT !.status = "awaiting_client",
                                         !.refund = FALSE]
         /\ UNCHANGED move

WithdrawRefund ==
    /\ refund = "open"
    /\ refund' = "none"
    /\ IF recovery.refund THEN Restored ELSE UNCHANGED <<recovery, move>>
    /\ UNCHANGED <<order, money, acceptance, incidents, resched, credit>>
    /\ Save(change)

RejectRefund ==
    /\ refund = "open"
    /\ refund' = "none"
    /\ recovery' = IF recovery.refund
                   THEN [recovery EXCEPT !.status = "ops_review",
                                         !.refund = FALSE]
                   ELSE recovery
    /\ UNCHANGED <<order, money, acceptance, move, incidents, resched,
                   credit>>
    /\ Save(change)

\* A recovery's refund returns everything, so no share may be out.
SettleRefund ==
    /\ refund = "open"
    /\ recovery.refund => released = {}
    /\ refund' = "approved"
    /\ state' = IF state \in HandedOver THEN "completed" ELSE "cancelled"
    /\ UNCHANGED <<wasReady, shop, declined, paid, money, acceptance, recovery,
                   move, incidents, resched, credit>>
    /\ Save(change)

PayRefund ==
    /\ refund = "approved"
    /\ refund' = "paid"
    /\ recovery' = IF recovery.refund
                   THEN [recovery EXCEPT !.status = "refunded"] ELSE recovery
    /\ UNCHANGED <<order, money, acceptance, move, incidents, resched,
                   credit>>
    /\ Save(change)

PayCredit ==
    /\ credit.status = "reserved"
    /\ credit' = [credit EXCEPT !.status = "paid"]
    /\ UNCHANGED <<order, money, acceptance, recovery, move, incidents, resched,
                   refund>>
    /\ Save(change)

----------------------------------------------------------------------------
(* Changes of the job                                                       *)

\* The payment a recovery waits for passes the recovery's own hold.
ChangeAvailable(c) ==
    /\ WindowOpen(state, wasReady)
    /\ IF AwaitedTopUp(c, recovery, shop, {"awaiting_payment"})
       THEN ~RescheduleHold /\ ~RefundStop
       ELSE ~WorkStopped
    /\ resched.status # "pending"

kept == <<order, released, adjustment, deducted, acceptance, recovery, move,
          resched, refunding>>

CreateChange(amount, dated) ==
    /\ Incident
    /\ change.status \notin OpenChanges
    /\ ChangeAvailable(NoChange)
    /\ dated => deducted = {}
    /\ UNCHANGED <<kept, extras>>
    /\ Save([status |-> "pending", shop |-> shop, topUp |-> FALSE,
             dated |-> dated, stale |-> FALSE, amount |-> amount])

MayApply(c) == c.dated => ~c.stale /\ shop \notin deducted

DeclineChange ==
    /\ change.status \in {"pending", "pending_payment"}
    /\ change.shop = shop /\ ~change.topUp
    /\ UNCHANGED <<kept, extras, incidents>>
    /\ Save([change EXCEPT !.status = "declined"])

AgreeToChange ==
    /\ change.status = "pending"
    /\ change.shop = shop /\ ~change.topUp
    /\ ChangeAvailable(change)
    /\ change.amount = 0 => MayApply(change)
    /\ UNCHANGED <<kept, extras, incidents>>
    /\ Save([change EXCEPT !.status = IF change.amount = 0 THEN "applied"
                                      ELSE "pending_payment"])

SubmitTransfer ==
    /\ change.status = "pending_payment"
    /\ change.shop = shop
    /\ ChangeAvailable(change)
    /\ UNCHANGED <<kept, extras, incidents>>
    /\ Save([change EXCEPT !.status = "pending_confirmation"])

RejectTransfer ==
    /\ change.status = "pending_confirmation"
    /\ UNCHANGED <<kept, extras, incidents>>
    /\ Save([change EXCEPT !.status = "pending_payment"])

\* The collection and what it was for; the difference of a substitute ends
\* the recovery and starts the shop's hour.
ConfirmTransfer ==
    /\ change.status = "pending_confirmation"
    /\ change.shop = shop
    /\ ChangeAvailable(change)
    /\ MayApply(change)
    /\ extras' = extras + change.amount
    /\ IF AwaitedTopUp(change, recovery, shop, {"awaiting_payment"})
       THEN /\ move' = [move EXCEPT !.status = "applied"]
            /\ recovery' = [recovery EXCEPT !.status = "accepted"]
            /\ acceptance' = FreshAcceptance(shop)
       ELSE UNCHANGED <<move, recovery, acceptance>>
    /\ UNCHANGED <<order, released, adjustment, deducted, incidents, resched,
                   refunding>>
    /\ Save([change EXCEPT !.status = "applied"])

----------------------------------------------------------------------------
(* A later deadline                                                         *)

InProduction == state = "production"

others == <<order, money, acceptance, recovery, move, incidents, refunding>>

RequestDeadline ==
    /\ change.status \notin OpenChanges
    /\ resched.status = "none"
    /\ ~WorkStopped
    /\ InProduction
    /\ resched' = [NoResched EXCEPT !.status = "pending", !.shop = shop,
                     !.resolution = IF deducted # {} THEN "operations_required"
                                    ELSE "none"]
    /\ UNCHANGED others
    /\ Save(change)

DeadlineLapses ==
    /\ resched.status = "pending" /\ ~resched.overdue
    /\ resched' = [resched EXCEPT !.overdue = TRUE]
    /\ UNCHANGED <<others, change>>

\* expireRescheduleRequests, or an answer that comes too late.
ExpireDeadline ==
    /\ resched.status = "pending" /\ resched.overdue
    /\ resched' = [resched EXCEPT !.status = "expired"]
    /\ UNCHANGED others
    /\ Save(change)

\* An answer to whatever is pending (a mutant).
MayAnswerAnyShop ==
    /\ resched.status = "pending" /\ ~resched.overdue
    /\ ~RecoveryHeld
    /\ ~RefundStop

\* The answer still is for this shop and this production.
MayAnswer ==
    /\ resched.status = "pending" /\ ~resched.overdue
    /\ ~RecoveryHeld
    /\ ~RefundStop
    /\ InProduction
    /\ shop = resched.shop

AcceptDeadline ==
    /\ MayAnswer
    /\ IF deducted # {}
       THEN /\ resched' = [resched EXCEPT !.status = "operations_required",
                                    !.resolution = "operations_required"]
            /\ UNCHANGED others
            /\ Save(change)
       ELSE /\ resched' = [resched EXCEPT !.status = "accepted"]
            /\ UNCHANGED others
            /\ Save([change EXCEPT !.stale = TRUE])

\* A replacement that makes the same for the same price in time, or none.
Replacements == {{}} \cup {{s} : s \in Shops \ (declined \cup {shop})}

Offered(r, offer) ==
    [r EXCEPT !.offer = offer,
              !.resolution = IF offer = {} THEN "no_match"
                             ELSE "rematch_offered"]

DeclineDeadline ==
    /\ MayAnswer
    /\ LET answered == [resched EXCEPT !.status = "declined"] IN
       IF deducted # {} \/ PaidShopShare
       THEN resched' = [answered EXCEPT !.resolution = "operations_required"]
       ELSE \E offer \in Replacements : resched' = Offered(answered, offer)
    /\ UNCHANGED others
    /\ Save(change)

\* The code's branch for a deduction that came in between never runs: the
\* refusal is a hold, and a hold stops deductions.
MayRematch ==
    /\ ~RecoveryHeld
    /\ resched.status = "declined"
    /\ resched.resolution \in {"rematch_offered", "no_match"}
    /\ ~PaidShopShare

RefreshRematch ==
    /\ MayRematch
    /\ deducted = {} /\ ~RefundStop
    /\ \E offer \in Replacements : resched' = Offered(resched, offer)
    /\ UNCHANGED others
    /\ Save(change)

AcceptRematch ==
    /\ MayRematch
    /\ deducted = {} /\ ~RefundStop
    /\ \E s \in resched.offer :
          /\ shop' = s
          /\ acceptance' = FreshAcceptance(s)
    /\ declined' = declined \cup {shop}
    /\ state' = "supplier_assigned"
    /\ resched' = [resched EXCEPT !.resolution = "rematched", !.offer = {}]
    /\ UNCHANGED <<wasReady, paid, money, recovery, move, incidents, refunding>>
    /\ Save([change EXCEPT !.stale = TRUE])

RefundDeadline ==
    /\ resched.status = "declined"
    /\ resched.resolution \notin {"rematched", "resolved"}
    /\ ~resched.refund
    /\ FileRefund
    /\ resched' = [resched EXCEPT !.refund = TRUE,
                                  !.resolution = "refund_requested"]

ResolveDeadline ==
    /\ RescheduleHold
    /\ ~RefundStop
    /\ resched' = [resched EXCEPT !.resolution = "resolved",
                     !.status = IF @ = "pending" THEN "operations_required"
                                ELSE @]
    /\ UNCHANGED others
    /\ Save(change)

----------------------------------------------------------------------------
(* Money to the shop                                                        *)

\* assessProductionLapses takes its deduction; the amount is left out.
Deduct ==
    /\ state \in ChangeStates \ {"supplier_assigned"}
    /\ ~RecoveryHeld /\ ~RefundStop /\ ~RescheduleHold
    /\ shop \notin deducted
    /\ deducted' = deducted \cup {shop}
    /\ UNCHANGED <<order, released, adjustment, extras, acceptance, recovery,
                   move, incidents, resched, refunding>>
    /\ Save(change)

PrincipalCovers(c) == ReleasedTotal + StageAmount(c) <= IF paid THEN Subtotal
                                                        ELSE 0

\* releaseMilestone: never more than the client's principal that came in.
Release(c) ==
    /\ c \notin released
    /\ ~WorkStopped
    /\ state \in StageStates[c]
    /\ PrincipalCovers(c)
    /\ released' = released \cup {c}
    /\ UNCHANGED <<order, adjustment, extras, deducted, acceptance, recovery,
                   move, incidents, resched, refunding>>
    /\ Save(change)

----------------------------------------------------------------------------

JobNext ==
    \/ AcceptanceLapses
    \/ \E kind \in {"declined", "cancelled", "late", "gridgo", "client"} :
          ShopFails(kind)
    \/ ExpireAcceptance
    \/ AcceptJob
    \/ Advance
    \/ CancelOrder
    \/ Deduct
    \/ \E c \in StageCodes : Release(c)

RecoveryNext ==
    \/ OfferLapses
    \/ RefreshOffer
    \/ AcceptSubstitute
    \/ RequestRefund
    \/ RefundUncollected
    \/ WithdrawRefund
    \/ RejectRefund
    \/ SettleRefund
    \/ PayRefund
    \/ PayCredit

ChangeNext ==
    \/ \E amount \in {0, Extra}, dated \in BOOLEAN : CreateChange(amount, dated)
    \/ DeclineChange
    \/ AgreeToChange
    \/ SubmitTransfer
    \/ RejectTransfer
    \/ ConfirmTransfer

DeadlineNext ==
    \/ RequestDeadline
    \/ DeadlineLapses
    \/ ExpireDeadline
    \/ AcceptDeadline
    \/ DeclineDeadline
    \/ RefreshRematch
    \/ AcceptRematch
    \/ RefundDeadline
    \/ ResolveDeadline

Next == JobNext \/ RecoveryNext \/ ChangeNext \/ DeadlineNext

\* The lifecycle worker sweeps both deadlines every half minute.
Spec ==
    /\ Init /\ [][Next]_vars
    /\ WF_vars(ExpireAcceptance)
    /\ WF_vars(ExpireDeadline)

----------------------------------------------------------------------------
(* Properties                                                               *)

\* Every variable keeps its type.
TypeOK ==
    /\ state \in States /\ wasReady \in BOOLEAN
    /\ shop \in Shops /\ declined \subseteq Shops /\ paid \in BOOLEAN
    /\ released \subseteq StageCodes /\ deducted \subseteq Shops
    /\ adjustment \in Int /\ extras \in Nat
    /\ acceptance \in [shop : Shops, overdue : BOOLEAN,
                       status : {"pending", "accepted", "failed"}]
    /\ recovery \in [n : 0..Cardinality(Shops), fault : {"shop", "client"},
                     status : {"none", "accepted", "refund_requested",
                               "refunded"} \cup Choosing,
                     offer : Offers("shop", {}) \cup Offers("client", {}),
                     current : BOOLEAN, topUp : BOOLEAN, refund : BOOLEAN]
    /\ move \in [of : 0..Cardinality(Shops), price : Prices \cup {Subtotal},
                 status : {"none", "applied", "awaiting_payment",
                           "refund_requested"},
                 cover : Nat, pays : Nat]
    /\ change \in [status : OpenChanges \cup {"none", "applied", "declined",
                                              "closed"},
                   shop : Shops, topUp : BOOLEAN, dated : BOOLEAN,
                   stale : BOOLEAN, amount : Nat]
    /\ resched \in [status : {"none", "pending", "accepted", "declined",
                              "expired", "operations_required"},
                    resolution : {"none", "rematch_offered", "no_match",
                                  "operations_required", "rematched",
                                  "refund_requested", "resolved"},
                    shop : Shops, overdue : BOOLEAN,
                    offer : {{}} \cup {{s} : s \in Shops}, refund : BOOLEAN]
    /\ refund \in {"none", "open", "approved", "paid"}
    /\ incidents \in 0..MaxIncidents
    /\ credit \in [status : {"none", "reserved", "reconcile", "paid"},
                   amount : Nat]

\* What a shop and a client negotiate stays between them: an open change is
\* for the order's shop, in its window and on the dates it was made for, no
\* recovery holds the order unless it waits for that very payment, and no
\* refund runs beside a transfer Operations still have to decide.  A client
\* waits for its refund exactly while one runs, never beside a choice that
\* still can be made.
OpenTermsFollowTheShop ==
    /\ change.status \in OpenChanges =>
        /\ change.shop = shop
        /\ WindowOpen(state, wasReady)
        /\ change.dated => ~change.stale
        /\ RecoveryHeld => AwaitedTopUp(change, recovery, shop,
                             {"awaiting_payment", "refund_requested"})
        /\ ChangePaymentPending =>
             ~RefundStop /\ recovery.status # "refund_requested"
    /\ recovery.status = "refund_requested" =>
         \/ recovery.refund /\ refund \in {"open", "approved"}
         \/ ~paid /\ state = "cancelled"
    /\ recovery.status \in Choosing => ~RefundStop

\* Whoever makes the job is paid its own price, once, from money that is
\* there: the client's principal without what goes back to it, and a cover
\* that GRIDGO's collected fee holds.
MovesAreFunded ==
    /\ move.cover <= (IF paid THEN Fee ELSE 0)
    /\ paid /\ credit.status # "reconcile" =>
         StagesTotal <= Subtotal + move.cover - credit.amount
    /\ move.status = "applied" => StagesTotal + move.pays = move.price
    /\ move.status = "applied" /\ move.pays > 0 => extras >= move.pays

\* A shop that does not answer is found out, unless Operations still have a
\* transfer or a refund to decide: nothing makes the sweep stumble.
AcceptanceEnds ==
    (acceptance.status = "pending" /\ acceptance.overdue)
        ~> \/ acceptance.status # "pending"
           \/ state # "supplier_assigned"
           \/ ChangePaymentPending \/ RefundStop

=============================================================================
