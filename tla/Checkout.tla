------------------------------ MODULE Checkout ------------------------------
(***************************************************************************)
(* Vouchers, checkout and the payment of baskets: src/src/vouchers.js,     *)
(* voucher-routes.js, baskets.js, the voucher and checkout routes of       *)
(* order-match-routes.js, and the payment, cancellation and refund steps   *)
(* of server.js and refunds.js that touch a voucher.                       *)
(*                                                                         *)
(* One client owns the carts and the vouchers of one campaign.  A cart     *)
(* checks out into its groups: one order, or the orders of a basket that   *)
(* are paid as one.  Each handler runs under the domain lock and is one    *)
(* step.  Clocks only show in flags: a reservation's thirty minutes are    *)
(* over (lapsed), a voucher's validity is over (elapsed).  The rows of     *)
(* voucher_reservations are one record per cart: the latest one, which is *)
(* the only one a handler can still change, or read by its order ids; what *)
(* no handler reads of a row that is not reserved any more is forgotten.   *)
(***************************************************************************)
EXTENDS Integers, FiniteSets

CONSTANTS
    Vouchers,  \* issued to the client
    Covering,  \* the vouchers that leave nothing to pay (coversOrderTotal)
    Rewards,   \* the vouchers a tester reward issued
    Carts,     \* the client's draft carts
    GroupsOf,  \* the orders each cart checks out into
    Nothing    \* no voucher

Groups == UNION {GroupsOf[c] : c \in Carts}

ASSUME CheckoutAssumption ==
    /\ IsFiniteSet(Vouchers) /\ Nothing \notin Vouchers
    /\ Covering \subseteq Vouchers
    /\ Rewards \subseteq Vouchers
    /\ \A c \in Carts : GroupsOf[c] # {} /\ IsFiniteSet(GroupsOf[c])
    /\ \A c, d \in Carts : c # d => GroupsOf[c] \cap GroupsOf[d] = {}

VARIABLES
    campaign,     \* status of the campaign
    voucher,      \* status of each voucher
    elapsed,      \* vouchers past their expiresAt
    voided,       \* vouchers marked testerRewardVoided
    cart,         \* state of each cart
    choice,       \* voucherCartChoices: "auto", "removed" or the voucher
    reservation,  \* of each cart
    redemption,   \* of each cart's reservation
    basket,       \* payment status of each cart's basket
    payment,      \* status of each order's initial payment
    state,        \* of each order, "none" before checkout
    cancelled,    \* orders with cancelledAt
    refund        \* settlement of each order, with who caused it

wallet == <<campaign, voucher, elapsed, voided>>
orders == <<basket, payment, state, cancelled>>
vars == <<wallet, cart, choice, reservation, redemption, orders, refund>>

NoReservation ==
    [voucher |-> Nothing, status |-> "none", bound |-> FALSE, lapsed |-> FALSE]

NoRefund == [status |-> "none", fault |-> "none"]

Init ==
    /\ campaign = "active"
    /\ voucher = [v \in Vouchers |-> "available"]
    /\ elapsed = {}
    /\ voided = {}
    /\ cart = [c \in Carts |-> "draft"]
    /\ choice = [c \in Carts |-> "auto"]
    /\ reservation = [c \in Carts |-> NoReservation]
    /\ redemption = [c \in Carts |-> "none"]
    /\ basket = [c \in Carts |-> "none"]
    /\ payment = [g \in Groups |-> "none"]
    /\ state = [g \in Groups |-> "none"]
    /\ cancelled = {}
    /\ refund = [g \in Groups |-> NoRefund]

CartOf(g) == CHOOSE c \in Carts : g \in GroupsOf[c]
IsBasket(c) == Cardinality(GroupsOf[c]) > 1

-----------------------------------------------------------------------------
(* Reservations.  r is the table a handler has got to.                     *)

Reserved(r, c, v) == r[c].voucher = v /\ r[c].status = "reserved"
Live(r, c, v) == Reserved(r, c, v) /\ ~r[c].lapsed

Ended(row, status) ==
    IF row.bound THEN [row EXCEPT !.status = status, !.lapsed = FALSE]
                 ELSE NoReservation
Release(r, carts) ==
    [c \in Carts |-> IF c \in carts /\ r[c].status = "reserved"
                     THEN Ended(r[c], "released") ELSE r[c]]
ReleaseLapsed(r) == Release(r, {c \in Carts : r[c].lapsed})

(* availableVouchers                                                       *)
Available(r, c) ==
    {v \in Vouchers \ elapsed :
        /\ voucher[v] = "available"
        /\ campaign = "active" \/ Live(r, c, v)
        /\ \A d \in Carts \ {c} : ~Live(r, d, v)}

(* reserveVoucher.  A live reservation of the cart is used again, with the *)
(* expiry it has; an expired one of any cart is released first, which the  *)
(* mutant forgets.                                                         *)
ReservedBesideLapsed(r, c, v, bound) ==
    IF Live(r, c, v)
    THEN [r EXCEPT ![c].bound = bound]
    ELSE [r EXCEPT ![c] = [voucher |-> v, status |-> "reserved",
                           bound |-> bound, lapsed |-> FALSE]]
ReservedFor(r, c, v, bound) ==
    LET s == ReleaseLapsed(r) IN
    IF Reserved(s, c, v)
    THEN [s EXCEPT ![c].bound = bound]
    ELSE [s EXCEPT ![c] = [voucher |-> v, status |-> "reserved",
                           bound |-> bound, lapsed |-> FALSE]]

(* selectVoucher: what a cart may be priced with.  Which one is best, and  *)
(* whether it beats the organization discount, is left open.               *)
Candidates(c) ==
    CASE choice[c] = "removed" -> {}
      [] choice[c] = "auto" -> Available(reservation, c)
      [] OTHER -> {choice[c]} \cap Available(reservation, c)

-----------------------------------------------------------------------------
(* POST and DELETE /me/carts/:id/voucher.                                  *)

ChooseVoucher(c, v) ==
    LET released == Release(reservation, {c}) IN
    /\ cart[c] = "draft"
    /\ v \in Available(reservation, c)
    /\ v \in Available(released, c)
    /\ choice' = [choice EXCEPT ![c] = v]
    /\ reservation' = ReservedFor(released, c, v, FALSE)
    /\ UNCHANGED <<wallet, cart, redemption, orders, refund>>

RemoveVoucher(c) ==
    /\ cart[c] = "draft"
    /\ choice' = [choice EXCEPT ![c] = "removed"]
    /\ reservation' = Release(reservation, {c})
    /\ UNCHANGED <<wallet, cart, redemption, orders, refund>>

(* POST /me/carts/:id/checkout: checkoutBasket and checkout.  Every order  *)
(* comes with its transfer, to be confirmed, unless the voucher leaves     *)
(* nothing to pay: then it is redeemed at once (settleVoucherInitial).     *)
Checkout(c, v) ==
    LET zeroCash == v \in Covering
        paid == IF zeroCash THEN "confirmed" ELSE "pending_confirmation"
        step == IF zeroCash THEN "needs_qa" ELSE "initial_payment_review"
        promised == ReservedFor(reservation, c, v, TRUE)
    IN
    /\ cart[c] = "draft"
    /\ v \in Candidates(c) \cup {Nothing}
    /\ cart' = [cart EXCEPT ![c] = "checked_out"]
    /\ reservation' = CASE v = Nothing -> Release(reservation, {c})
                        [] zeroCash -> [promised EXCEPT ![c].status = "consumed"]
                        [] OTHER -> promised
    /\ voucher' = IF zeroCash THEN [voucher EXCEPT ![v] = "used"] ELSE voucher
    /\ redemption' = IF zeroCash THEN [redemption EXCEPT ![c] = "consumed"]
                                 ELSE redemption
    /\ basket' = IF IsBasket(c) THEN [basket EXCEPT ![c] = paid] ELSE basket
    /\ payment' = [g \in Groups |-> IF g \in GroupsOf[c] THEN paid ELSE payment[g]]
    /\ state' = [g \in Groups |-> IF g \in GroupsOf[c] THEN step ELSE state[g]]
    /\ UNCHANGED <<campaign, elapsed, voided, choice, cancelled, refund>>

-----------------------------------------------------------------------------
(* Confirmation redeems the voucher of the whole payment, or is refused.   *)

(* confirmVoucher                                                          *)
PromiseStands(c, paid) ==
    LET r == reservation[c] IN
    /\ r.status = "reserved" /\ ~r.lapsed
    /\ voucher[r.voucher] = "available"
    /\ r.voucher \notin elapsed
    /\ paid = GroupsOf[c]
    /\ \A g \in paid : state[g] # "cancelled"

RedeemVoucher(c, paid) ==
    IF reservation[c].bound
    THEN /\ PromiseStands(c, paid)
         /\ reservation' =
              [reservation EXCEPT ![c] = Ended(reservation[c], "consumed")]
         /\ voucher' = [voucher EXCEPT ![reservation[c].voucher] = "used"]
         /\ redemption' = [redemption EXCEPT ![c] = "consumed"]
    ELSE UNCHANGED <<reservation, voucher, redemption>>

(* POST /orders/:id/payments/initial/:action.  Groups of a basket are      *)
(* turned away.  A cancelled order cannot be moved: the request fails on   *)
(* orders_cancellation_shape_check when it is saved.  The mutant turns no  *)
(* group away.                                                             *)
AnyOrderPaid(g) == state[g] # "cancelled"
OrderPaidAlone(g) == state[g] # "cancelled" /\ ~IsBasket(CartOf(g))

MovePayment(paid, status, step) ==
    /\ payment' = [g \in Groups |-> IF g \in paid THEN status ELSE payment[g]]
    /\ state' = [g \in Groups |-> IF g \in paid /\ state[g] # "cancelled"
                                  THEN step ELSE state[g]]

SubmitOrder(g) ==
    /\ OrderPaidAlone(g)
    /\ state[g] \in {"awaiting_initial_payment", "initial_payment_review"}
    /\ payment[g] \notin {"pending_confirmation", "confirmed"}
    /\ MovePayment({g}, "pending_confirmation", "initial_payment_review")
    /\ UNCHANGED <<wallet, cart, choice, reservation, redemption, basket,
                   cancelled, refund>>

ConfirmOrder(g) ==
    /\ OrderPaidAlone(g)
    /\ payment[g] = "pending_confirmation"
    /\ RedeemVoucher(CartOf(g), {g})
    /\ MovePayment({g}, "confirmed", "needs_qa")
    /\ UNCHANGED <<campaign, elapsed, voided, cart, choice, basket, cancelled,
                   refund>>

RejectOrder(g) ==
    /\ OrderPaidAlone(g)
    /\ payment[g] = "pending_confirmation"
    /\ MovePayment({g}, "not_submitted", "awaiting_initial_payment")
    /\ UNCHANGED <<wallet, cart, choice, reservation, redemption, basket,
                   cancelled, refund>>

(* POST /baskets/:id/payment/:action: one payment, copied to every group.  *)
(* A group Operations cancelled gets the payment but not the step.         *)
SubmitBasket(c) ==
    /\ basket[c] = "not_submitted"
    /\ basket' = [basket EXCEPT ![c] = "pending_confirmation"]
    /\ MovePayment(GroupsOf[c], "pending_confirmation", "initial_payment_review")
    /\ UNCHANGED <<wallet, cart, choice, reservation, redemption, cancelled,
                   refund>>

ConfirmBasket(c) ==
    /\ basket[c] = "pending_confirmation"
    /\ RedeemVoucher(c, GroupsOf[c])
    /\ basket' = [basket EXCEPT ![c] = "confirmed"]
    /\ MovePayment(GroupsOf[c], "confirmed", "needs_qa")
    /\ UNCHANGED <<campaign, elapsed, voided, cart, choice, cancelled, refund>>

RejectBasket(c) ==
    /\ basket[c] = "pending_confirmation"
    /\ basket' = [basket EXCEPT ![c] = "not_submitted"]
    /\ MovePayment(GroupsOf[c], "not_submitted", "awaiting_initial_payment")
    /\ UNCHANGED <<wallet, cart, choice, reservation, redemption, cancelled,
                   refund>>

-----------------------------------------------------------------------------
(* Cancellation and refunds.                                               *)

(* POST /orders/:id/transition to cancelled, by staff: role "client" is a  *)
(* member of staff who cancels an order of their own.  Every save releases *)
(* the reservation of a checkout with a cancelled order, and forfeits the  *)
(* voucher when its own client cancelled (cancelVoucherReservations).      *)
CancelOrder(g, by) ==
    LET c == CartOf(g)
        r == reservation[c]
    IN
    /\ state[g] \in {"initial_payment_review", "needs_qa"}
    /\ state' = [state EXCEPT ![g] = "cancelled"]
    /\ cancelled' = cancelled \cup {g}
    /\ IF r.bound /\ r.status = "reserved"
       THEN /\ reservation' = Release(reservation, {c})
            /\ voucher' = IF by = "client"
                          THEN [voucher EXCEPT ![r.voucher] = "used"]
                          ELSE voucher
       ELSE UNCHANGED <<reservation, voucher>>
    /\ UNCHANGED <<campaign, elapsed, voided, cart, choice, redemption, basket,
                   payment, refund>>

Faults == {"client", "other"}

(* restoreVoucherForRefund, once the remedy of g is final.  A voucher is   *)
(* one wallet item: every group that spent it must be refunded without the *)
(* client's fault.  The mutant is content with the latest one.             *)
RemediedAlone(c, g, fault) == fault = "other"
Remedied(c, g, fault) ==
    fault = "other" /\ \A h \in GroupsOf[c] \ {g} :
        refund[h] = [status |-> "paid", fault |-> "other"]

RestoreVoucher(g, fault) ==
    LET c == CartOf(g)
        v == reservation[c].voucher
    IN
    IF /\ redemption[c] = "consumed"
       /\ Remedied(c, g, fault)
       /\ v \notin elapsed /\ voucher[v] = "used" /\ v \notin voided
    THEN /\ voucher' = [voucher EXCEPT ![v] = "available"]
         /\ redemption' = [redemption EXCEPT ![c] = "restored"]
    ELSE UNCHANGED <<voucher, redemption>>

(* POST /refund-requests/:id/settle of a paid order whose payments are all *)
(* reconciled.  Nothing is owed where the voucher paid everything, and the *)
(* remedy is final; otherwise it is once the transfer is recorded.  Without *)
(* a voucher nobody asks whose fault it was, and the order is cancelled.   *)
SettleRefund(g, fault) ==
    LET noCash == redemption[CartOf(g)] = "consumed"
                    /\ reservation[CartOf(g)].voucher \in Covering IN
    /\ reservation[CartOf(g)].bound
    /\ payment[g] = "confirmed"
    /\ refund[g] = NoRefund
    /\ refund' = [refund EXCEPT ![g] = [status |-> IF noCash THEN "paid" ELSE "settled",
                                        fault |-> fault]]
    /\ state' = [state EXCEPT ![g] = "cancelled"]
    /\ cancelled' = cancelled \cup {g}
    /\ IF noCash THEN RestoreVoucher(g, fault)
                 ELSE UNCHANGED <<voucher, redemption>>
    /\ UNCHANGED <<campaign, elapsed, voided, cart, choice, reservation, basket,
                   payment>>

(* POST /refund-requests/:id/payments                                      *)
RecordTransfer(g) ==
    /\ refund[g].status = "settled"
    /\ refund' = [refund EXCEPT ![g].status = "paid"]
    /\ RestoreVoucher(g, refund[g].fault)
    /\ UNCHANGED <<campaign, elapsed, voided, cart, choice, reservation, orders>>

-----------------------------------------------------------------------------
(* The wallet's administration, the clock and the sweep.                   *)

(* A submitted checkout must be reconciled before its voucher is voided,   *)
(* which the mutant does not ask.                                          *)
VoidableWhileAvailable(v) == voucher[v] = "available"
Voidable(v) ==
    /\ voucher[v] = "available"
    /\ \A c \in Carts : Reserved(reservation, c, v) => ~reservation[c].bound

(* POST /admin/vouchers/:id/void, and voidTesterReward for a reward: a     *)
(* used one stays used, and is marked never to come back.                  *)
VoidVoucher(v) ==
    /\ IF v \in Rewards
       THEN /\ voucher[v] = "available" => Voidable(v)
            /\ v \notin voided
            /\ voided' = voided \cup {v}
       ELSE Voidable(v) /\ UNCHANGED voided
    /\ IF voucher[v] = "available"
       THEN /\ voucher' = [voucher EXCEPT ![v] = "void"]
            /\ reservation' =
                 Release(reservation, {c \in Carts : reservation[c].voucher = v})
       ELSE UNCHANGED <<voucher, reservation>>
    /\ UNCHANGED <<campaign, elapsed, cart, choice, redemption, orders, refund>>

ReissueVoucher(v) ==
    /\ v \notin Rewards
    /\ voucher[v] = "void" /\ v \notin elapsed
    /\ voucher' = [voucher EXCEPT ![v] = "available"]
    /\ UNCHANGED <<campaign, elapsed, voided, cart, choice, reservation,
                   redemption, orders, refund>>

(* POST /admin/voucher-campaigns/:id/status                                *)
SetCampaign(next) ==
    /\ campaign # "ended" /\ next # campaign
    /\ campaign' = next
    /\ UNCHANGED <<voucher, elapsed, voided, cart, choice, reservation,
                   redemption, orders, refund>>

(* Thirty minutes pass, or the validity ends; a reservation never outlasts *)
(* its voucher.                                                            *)
Lapse(c) ==
    /\ reservation[c].status = "reserved" /\ ~reservation[c].lapsed
    /\ reservation' = [reservation EXCEPT ![c].lapsed = TRUE]
    /\ UNCHANGED <<wallet, cart, choice, redemption, orders, refund>>

Elapse(v) ==
    /\ v \notin elapsed
    /\ elapsed' = elapsed \cup {v}
    /\ reservation' =
         [c \in Carts |-> IF Reserved(reservation, c, v)
                          THEN [reservation[c] EXCEPT !.lapsed = TRUE]
                          ELSE reservation[c]]
    /\ UNCHANGED <<campaign, voucher, voided, cart, choice, redemption, orders,
                   refund>>

(* sweepVouchers, from the maintenance loop, when a reservation is due.    *)
(* The mutant sweeps carts only.                                           *)
DueUnbound == {c \in Carts : reservation[c].lapsed /\ ~reservation[c].bound}
Due == {c \in Carts : reservation[c].lapsed}
Sweep ==
    /\ \E c \in Due : reservation[c].status = "reserved"
    /\ reservation' = Release(reservation, Due)
    /\ UNCHANGED <<wallet, cart, choice, redemption, orders, refund>>

-----------------------------------------------------------------------------
Next ==
    \/ \E c \in Carts :
         \/ \E v \in Vouchers : ChooseVoucher(c, v)
         \/ RemoveVoucher(c)
         \/ \E v \in Vouchers \cup {Nothing} : Checkout(c, v)
         \/ SubmitBasket(c) \/ ConfirmBasket(c) \/ RejectBasket(c)
         \/ Lapse(c)
    \/ \E g \in Groups :
         \/ SubmitOrder(g) \/ ConfirmOrder(g) \/ RejectOrder(g)
         \/ \E by \in {"client", "staff"} : CancelOrder(g, by)
         \/ \E fault \in Faults : SettleRefund(g, fault)
         \/ RecordTransfer(g)
    \/ \E v \in Vouchers : VoidVoucher(v) \/ ReissueVoucher(v) \/ Elapse(v)
    \/ \E next \in {"active", "paused", "ended"} : SetCampaign(next)
    \/ Sweep

Spec == Init /\ [][Next]_vars

(* The clock does not stop, and the maintenance loop looks every minute.   *)
Fairness == WF_vars(Sweep) /\ \A c \in Carts : WF_vars(Lapse(c))
FairSpec == Spec /\ Fairness

-----------------------------------------------------------------------------
(* Properties.                                                             *)

PaymentStatuses == {"none", "not_submitted", "pending_confirmation", "confirmed"}

(* The shape of the stored records.                                        *)
TypeOK ==
    /\ campaign \in {"active", "paused", "ended"}
    /\ voucher \in [Vouchers -> {"available", "used", "void"}]
    /\ elapsed \subseteq Vouchers
    /\ voided \subseteq Rewards
    /\ cart \in [Carts -> {"draft", "checked_out"}]
    /\ choice \in [Carts -> {"auto", "removed"} \cup Vouchers]
    /\ reservation \in
         [Carts -> [voucher : Vouchers \cup {Nothing}, bound : BOOLEAN,
                    status : {"none", "reserved", "released", "consumed"},
                    lapsed : BOOLEAN]]
    /\ redemption \in [Carts -> {"none", "consumed", "restored"}]
    /\ basket \in [Carts -> PaymentStatuses]
    /\ payment \in [Groups -> PaymentStatuses]
    /\ state \in [Groups -> {"none", "initial_payment_review", "needs_qa",
                             "awaiting_initial_payment", "cancelled"}]
    /\ cancelled \subseteq Groups
    /\ refund \in [Groups -> [status : {"none", "settled", "paid"},
                              fault : Faults \cup {"none"}]]

(* One voucher funds one thing at a time, whatever carts, checkouts, late  *)
(* confirmations and restorations the client gets in between: it is        *)
(* promised to one cart, or spent by one checkout, or neither.  So the     *)
(* unique indexes voucher_one_reservation and voucher_one_use never fail a *)
(* request.                                                                *)
VouchersFundOnce ==
    \A v \in Vouchers :
        LET promised == {c \in Carts : Reserved(reservation, c, v)}
            spent == {c \in Carts : /\ reservation[c].voucher = v
                                    /\ redemption[c] = "consumed"}
        IN Cardinality(promised) + Cardinality(spent) <= 1

(* No order is accepted at a discount nobody funds: the voucher of a paid  *)
(* discounted checkout is spent on it, and it only goes back into the      *)
(* wallet when all of its groups were refunded without the client's fault. *)
DiscountsAreFunded ==
    \A c \in Carts :
        /\ reservation[c].bound /\ (\E g \in GroupsOf[c] : payment[g] = "confirmed")
              => redemption[c] # "none"
        /\ redemption[c] = "consumed" => voucher[reservation[c].voucher] = "used"
        /\ redemption[c] = "restored" =>
              \A g \in GroupsOf[c] : refund[g] = [status |-> "paid", fault |-> "other"]

(* The groups of a basket are paid as one and wait for it together, and    *)
(* reconciling the payment never restarts a group that was cancelled.      *)
StepOf(status) ==
    CASE status = "confirmed" -> "needs_qa"
      [] status = "pending_confirmation" -> "initial_payment_review"
      [] status = "not_submitted" -> "awaiting_initial_payment"
      [] OTHER -> "none"
GroupsMoveTogether ==
    \A c \in Carts : \A g \in GroupsOf[c] :
        /\ IsBasket(c) => payment[g] = basket[c]
        /\ state[g] = IF g \in cancelled THEN "cancelled"
                                        ELSE StepOf(payment[g])

(* What a submitted checkout was promised is only taken from it when its   *)
(* time is over or one of its orders was cancelled: not by another cart,   *)
(* the voucher's administration or the end of its campaign.                *)
SubmittedPromisesHold ==
    [][\A c \in Carts :
          reservation[c].bound /\ reservation[c].status = "reserved" =>
            \/ reservation'[c].status \in {"reserved", "consumed"}
            \/ reservation[c].lapsed
            \/ \E g \in GroupsOf[c] : state'[g] = "cancelled"]_vars

(* A submitted checkout does not hold its voucher for ever: it is spent or *)
(* released, even when nobody ever reconciles the payment.                 *)
SubmittedPromisesEnd ==
    \A c \in Carts :
        reservation[c].bound /\ reservation[c].status = "reserved"
            ~> reservation[c].status # "reserved"
=============================================================================
