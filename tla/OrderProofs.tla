---------------------------- MODULE OrderProofs ----------------------------
(***************************************************************************)
(* Theorems about an order and about what its parties hear of it: Order.tla*)
(* for every price, fee, payment split, set of claims and issues and number*)
(* of refunds, OrderCalls.tla for any riders, calls and limits, and        *)
(* Realtime.tla for any replicas, changes and faults.                      *)
(***************************************************************************)
EXTENDS Order, OrderCalls, Realtime, FiniteSetTheorems, TLAPS

-----------------------------------------------------------------------------
(* The amounts fixed at checkout.                                          *)

(* Rounding a share of an amount gives an amount.                          *)
LEMMA RoundBpsNat ==
    ASSUME NEW value \in Nat, NEW bps \in {7500, 10000, 4000, 3500}
    PROVE  RoundBps(value, bps) \in Nat
BY SMT DEF RoundBps

(* The allocations of both instalments are amounts, rounding included.     *)
LEMMA AllocationsNat ==
    \A p \in Payments, c \in Components : Allocations[p][c] \in Nat
<1>1. /\ InitialFee \in Nat
      /\ InitialDelivery \in Nat
      /\ InitialPrincipal \in Int
  BY RoundBpsNat, OrderAssumption, SMT
  DEF InitialFee, InitialDelivery, InitialPrincipal, Downpayment, Total
<1>2. \A a \in Int : Stored(a) \in Nat
  BY SMT DEF Stored
<1> QED
  BY <1>1, <1>2, OrderAssumption, SMT
  DEF Allocations, Payments, Components

(* The three payout stages are amounts and make up the shop's price.       *)
LEMMA StageAmountsSum ==
    /\ \A s \in StageCodes : StageAmounts[s] \in Nat
    /\ StageAmounts["production_started"] + StageAmounts["delivered"]
          + StageAmounts["issue_window"] = Subtotal
<1>1. /\ RoundBps(Subtotal, 4000) \in Nat
      /\ RoundBps(Subtotal, 3500) \in Nat
      /\ RoundBps(Subtotal, 4000) + RoundBps(Subtotal, 3500) <= Subtotal
  BY OrderAssumption, SMT DEF RoundBps
<1> QED
  BY <1>1, OrderAssumption, SMT DEF StageAmounts, StageCodes

(* What has been collected of a component is an amount.                    *)
LEMMA CollectedNat ==
    \A c \in Components : Collected(c) \in Nat
BY AllocationsNat, SMT DEF Collected, CollectedFrom, Payments

(* What the released stages come to is an amount.                          *)
LEMMA ReleasedNat == ReleasedPrincipal \in Nat
BY StageAmountsSum, SMT DEF ReleasedPrincipal, ReleasedFrom, StageCodes

-----------------------------------------------------------------------------
(* Before a settlement there is nothing a settlement could have recorded.  *)
Unsettled ==
    settlements = 0 =>
        /\ refunded = [c \in Components |-> 0]
        /\ riderEntitlement = 0
        /\ settlementPaid = 0
        /\ pendingPayout = 0
        /\ ~refund.settled
-----------------------------------------------------------------------------
(* Types.                                                                  *)

(* A commit stores a state, a stamp and a history of the right types.      *)
LEMMA MoveToType ==
    ASSUME TypeOK, NEW next \in States, NEW stamp \in BOOLEAN,
           MoveTo(next, stamp)
    PROVE  state' \in States /\ timeline' \in SUBSET ProductionStates
                             /\ cancelledAt' \in BOOLEAN
BY SMT DEF TypeOK, MoveTo

(* The amounts a settlement returns are amounts.                           *)
LEMMA RefundableNat ==
    ASSUME TypeOK, NEW principal \in Nat, NEW fare \in Nat
    PROVE  /\ RefundableFee(principal) \in Int
           /\ RefundableDelivery(fare) \in Nat
           /\ refunded.fee + RefundableFee(principal) \in Nat
           /\ refunded.fee <= Collected("fee") =>
                 refunded.fee + RefundableFee(principal) <= Collected("fee")
<1>1. Collected("fee") \in Nat /\ Collected("delivery") \in Nat
  BY CollectedNat DEF Components
<1>2. refunded.fee \in Nat /\ refunded.delivery \in Nat /\ refunded.principal \in Nat
  BY DEF TypeOK, Components
<1>3. CumulativeFee(refunded.principal + principal) \in Int
  BY <1>2, OrderAssumption, SMT DEF CumulativeFee
<1>4. /\ ProportionalFee(principal) \in Nat
      /\ refunded.fee <= Collected("fee") =>
            ProportionalFee(principal) <= Collected("fee") - refunded.fee
  BY <1>1, <1>2, <1>3, SMT DEF ProportionalFee, Larger, Smaller
<1>5. RefundableDelivery(fare) \in Nat
  BY <1>1, <1>2, SMT DEF RefundableDelivery, Larger
<1> QED
  BY <1>1, <1>2, <1>4, <1>5, SMT DEF RefundableFee

(* A request leaves every variable of its type.                            *)
LEMMA TypeStep == TypeOK /\ [Next]_vars => TypeOK'
<1> SUFFICES ASSUME TypeOK, [Next]_vars PROVE TypeOK'
  OBVIOUS
<1> USE DEF production, cases, settlement, lifecycle
<1>1. ASSUME NEW next \in States, Transition(next) PROVE TypeOK'
  BY <1>1, MoveToType, SMT DEF TypeOK, Transition
<1>2. ASSUME CancelTransition PROVE TypeOK'
  <2>1. "cancelled" \in States
    BY DEF States
  <2>2. /\ state' \in States
        /\ timeline' \in SUBSET ProductionStates
        /\ cancelledAt' \in BOOLEAN
    BY <1>2, <2>1, MoveToType DEF CancelTransition
  <2> QED
    BY <1>2, <2>2, SMT DEF TypeOK, CancelTransition
<1>3. ASSUME NEW next \in PACKAGING_STATES, NEW operations \in BOOLEAN,
             PackagingTransition(next, operations)
      PROVE  TypeOK'
  <2>1. next \in States
    BY SMT DEF PACKAGING_STATES, States, ProductionStates
  <2>2. forcedSteps' \in SUBSET PACKAGING_STATES
    BY <1>3, SMT DEF PackagingTransition, TypeOK
  <2> QED
    BY <1>3, <2>1, <2>2, MoveToType, SMT DEF TypeOK, PackagingTransition
<1>4. ASSUME PayoutReleasedTransition PROVE TypeOK'
  BY <1>4, MoveToType, SMT
  DEF TypeOK, PayoutReleasedTransition, States, ProductionStates
<1>5. ASSUME NEW p \in Payments, SubmitPayment(p) PROVE TypeOK'
  <2>1. payments' \in [Payments -> PaymentStatuses]
    BY <1>5, SMT DEF TypeOK, SubmitPayment, PaymentStatuses
  <2>2. /\ state' \in States
        /\ timeline' \in SUBSET ProductionStates
        /\ cancelledAt' \in BOOLEAN
    <3> DEFINE next == IF p = "initial" THEN "initial_payment_review" ELSE state
    <3>1. next \in States /\ cancelledAt \in BOOLEAN
      BY DEF TypeOK, States
    <3>2. MoveTo(next, cancelledAt)
      BY <1>5 DEF SubmitPayment
    <3> HIDE DEF next
    <3> QED
      BY <3>1, <3>2, MoveToType
  <2>3. UNCHANGED <<issueWindow, stages, claims, issues, payoutHold,
                    shopHandover, forcedSteps, pickupChecklist, refund, filed,
                    settlements, refunded, riderEntitlement, settlementPaid,
                    pendingPayout>>
    BY <1>5, Zenon DEF SubmitPayment
  <2> QED
    BY <2>1, <2>2, <2>3, SMT DEF TypeOK
<1>6. ASSUME NEW p \in Payments, ConfirmPayment(p) PROVE TypeOK'
  <2>1. payments' \in [Payments -> PaymentStatuses]
    BY <1>6, SMT DEF TypeOK, ConfirmPayment, PaymentStatuses
  <2>2. /\ state' \in States
        /\ timeline' \in SUBSET ProductionStates
        /\ cancelledAt' \in BOOLEAN
    <3> DEFINE next == IF p = "initial" THEN "needs_qa" ELSE state
    <3>1. next \in States /\ cancelledAt \in BOOLEAN
      BY DEF TypeOK, States
    <3>2. MoveTo(next, cancelledAt)
      BY <1>6 DEF ConfirmPayment
    <3> HIDE DEF next
    <3> QED
      BY <3>1, <3>2, MoveToType
  <2>3. UNCHANGED <<issueWindow, stages, claims, issues, payoutHold,
                    shopHandover, forcedSteps, pickupChecklist, refund, filed,
                    settlements, refunded, riderEntitlement, settlementPaid,
                    pendingPayout>>
    BY <1>6, Zenon DEF ConfirmPayment
  <2> QED
    BY <2>1, <2>2, <2>3, SMT DEF TypeOK
<1>7. ASSUME NEW p \in Payments, RejectPayment(p) PROVE TypeOK'
  <2>1. payments' \in [Payments -> PaymentStatuses]
    BY <1>7, SMT DEF TypeOK, RejectPayment, PaymentStatuses
  <2>2. /\ state' \in States
        /\ timeline' \in SUBSET ProductionStates
        /\ cancelledAt' \in BOOLEAN
    <3> DEFINE next == IF p = "initial" THEN "awaiting_initial_payment" ELSE state
    <3>1. next \in States /\ cancelledAt \in BOOLEAN
      BY DEF TypeOK, States
    <3>2. MoveTo(next, cancelledAt)
      BY <1>7 DEF RejectPayment
    <3> HIDE DEF next
    <3> QED
      BY <3>1, <3>2, MoveToType
  <2>3. UNCHANGED <<issueWindow, stages, claims, issues, payoutHold,
                    shopHandover, forcedSteps, pickupChecklist, refund, filed,
                    settlements, refunded, riderEntitlement, settlementPaid,
                    pendingPayout>>
    BY <1>7, Zenon DEF RejectPayment
  <2> QED
    BY <2>1, <2>2, <2>3, SMT DEF TypeOK
<1>8. ASSUME FinishProduction PROVE TypeOK'
  BY <1>8, MoveToType, SMT DEF TypeOK, FinishProduction, States, ProductionStates
<1>9. ASSUME NEW decision \in {"approved", "rejected"}, ReviewProduction(decision)
      PROVE  TypeOK'
  BY <1>9, MoveToType, SMT DEF TypeOK, ReviewProduction, States, ProductionStates
<1>10. ASSUME AcceptDispatch PROVE TypeOK'
  BY <1>10, MoveToType, SMT DEF TypeOK, AcceptDispatch, States, ProductionStates
<1>11. ASSUME NEW passed \in BOOLEAN, CheckUnpacked(passed) PROVE TypeOK'
  BY <1>11, SMT DEF TypeOK, CheckUnpacked
<1>12. ASSUME ConfirmPickup PROVE TypeOK'
  BY <1>12, MoveToType, SMT DEF TypeOK, ConfirmPickup, States, ProductionStates
<1>13. ASSUME ResolveEscalation PROVE TypeOK'
  BY <1>13, SMT DEF TypeOK, ResolveEscalation
<1>14. ASSUME RecordDelivery PROVE TypeOK'
  <2>1. stages' \in [StageCodes -> StageStatuses]
    <3>1. stages \in [StageCodes -> StageStatuses] /\ "pof_attached" \in StageStatuses
      BY DEF TypeOK, StageStatuses
    <3>2. [stages EXCEPT !["delivered"] = "pof_attached"] \in [StageCodes -> StageStatuses]
      BY <3>1
    <3> QED
      BY <1>14, <3>1, <3>2 DEF RecordDelivery, WithProof
  <2>2. CASE FulfillmentMode = "pickup"
    BY <1>14, <2>1, <2>2, MoveToType, SMT
    DEF TypeOK, RecordDelivery, States, ProductionStates
  <2>3. CASE FulfillmentMode # "pickup"
    <3>1. CompleteHandover
      BY <1>14, <2>3 DEF RecordDelivery
    <3> QED
      BY <1>14, <2>1, <3>1, SMT
      DEF TypeOK, RecordDelivery, CompleteHandover, States, ProductionStates
  <2> QED
    BY <2>2, <2>3
<1>15. ASSUME CollectAtCounter PROVE TypeOK'
  BY <1>15, SMT
  DEF TypeOK, CollectAtCounter, CompleteHandover, States, ProductionStates
<1>16. ASSUME IssueWindowElapses PROVE TypeOK'
  BY <1>16, SMT DEF TypeOK, IssueWindowElapses
<1>17. ASSUME ExpireIssueWindow PROVE TypeOK'
  BY <1>17, MoveToType, SMT DEF TypeOK, ExpireIssueWindow, States, ProductionStates
<1>18. ASSUME ConfirmIssueWindow PROVE TypeOK'
  BY <1>18, MoveToType, SMT DEF TypeOK, ConfirmIssueWindow, States, ProductionStates
<1>19. ASSUME NEW i \in Issues, ReportIssue(i) PROVE TypeOK'
  BY <1>19, SMT DEF TypeOK, ReportIssue
<1>20. ASSUME NEW i \in Issues, NEW outcome \in {"resolved", "dismissed"},
              NEW releasePayout \in BOOLEAN, ResolveIssue(i, outcome, releasePayout)
       PROVE  TypeOK'
  <2>1. /\ claims' \in [Claims \cup Issues -> {"none", "open", "payout_held", "released"}]
        /\ payoutHold' \in BOOLEAN
    <3>1. CASE releasePayout /\ i \in ActiveClaims({})
      BY <1>20, <3>1, SMT DEF TypeOK, ResolveIssue, HoldAfterRelease
    <3>2. CASE ~(releasePayout /\ i \in ActiveClaims({}))
      BY <1>20, <3>2, SMT DEF TypeOK, ResolveIssue
    <3> QED
      BY <3>1, <3>2
  <2>2. issues' \in [Issues -> {"none", "open", "resolved", "dismissed"}]
    BY <1>20, SMT DEF TypeOK, ResolveIssue
  <2>3. UNCHANGED <<state, timeline, cancelledAt, issueWindow, payments, stages,
                    shopHandover, forcedSteps, pickupChecklist, refund, filed,
                    settlements, refunded, riderEntitlement, settlementPaid,
                    pendingPayout>>
    BY <1>20, Zenon DEF ResolveIssue
  <2> QED
    BY <2>1, <2>2, <2>3, SMT DEF TypeOK
<1>21. ASSUME NEW c \in Claims, NEW hold \in BOOLEAN, RaiseClaim(c, hold)
       PROVE  TypeOK'
  BY <1>21, SMT DEF TypeOK, RaiseClaim
<1>22. ASSUME NEW c \in Claims \cup Issues, HoldClaim(c) PROVE TypeOK'
  BY <1>22, SMT DEF TypeOK, HoldClaim
<1>23. ASSUME NEW c \in Claims \cup Issues, ReleaseClaim(c) PROVE TypeOK'
  BY <1>23, SMT DEF TypeOK, ReleaseClaim, HoldAfterRelease
<1>24. ASSUME NEW s \in StageCodes, AttachProof(s) PROVE TypeOK'
  BY <1>24, SMT DEF TypeOK, AttachProof, WithProof, StageStatuses
<1>25. ASSUME NEW s \in StageCodes, ReleaseMilestone(s) PROVE TypeOK'
  BY <1>25, SMT DEF TypeOK, ReleaseMilestone, StageStatuses
<1>26. ASSUME PaySettlement PROVE TypeOK'
  BY <1>26, SMT DEF TypeOK, PaySettlement
<1>27. ASSUME NEW withDestination \in BOOLEAN, FileRefund(withDestination)
       PROVE  TypeOK'
  <2>1. (~ProductionStarted) \in BOOLEAN
    BY DEF ProductionStarted
  <2>2. filed' \in 0..MaxRequests
    BY <1>27, OrderAssumption, SMT DEF TypeOK, FileRefund
  <2>3. refund' \in [status : RefundStatuses, beforeProduction : BOOLEAN,
                     destination : BOOLEAN, settled : BOOLEAN]
    BY <1>27, <2>1, SMT DEF FileRefund, RefundStatuses, ActiveRefundStatuses
  <2> QED
    BY <1>27, <2>2, <2>3, SMT DEF TypeOK, FileRefund
<1>28. ASSUME ReplaceDestination PROVE TypeOK'
  BY <1>28, SMT
  DEF TypeOK, ReplaceDestination, RequestAs, RefundStatuses, ActiveRefundStatuses
<1>29. ASSUME NEW status \in RefundStatuses, RefundMovesTo(status) PROVE TypeOK'
  BY <1>29, SMT DEF TypeOK, RefundMovesTo, RequestAs
<1>30. ASSUME NEW shop \in Nat, NEW fare \in Nat, NEW principal \in Nat,
              SettleRefund(shop, fare, principal)
       PROVE  TypeOK'
  <2>1. refunded' \in [Components -> Nat]
    <3>1. /\ refunded.principal + principal \in Nat
          /\ refunded.fee + RefundableFee(principal) \in Nat
          /\ refunded.delivery + RefundableDelivery(fare) \in Nat
      BY RefundableNat, SMT DEF TypeOK, Components
    <3> QED
      BY <1>30, <3>1, SMT DEF SettleRefund, Components
  <2>2. pendingPayout' \in Nat
    BY <1>30, ReleasedNat, SMT
    DEF SettleRefund, SettlementAllowed, AlreadyPaidToShop, TypeOK
  <2>3. refund' \in [status : RefundStatuses, beforeProduction : BOOLEAN,
                     destination : BOOLEAN, settled : BOOLEAN]
    BY <1>30, SMT
    DEF SettleRefund, RequestAs, TypeOK, RefundStatuses, ActiveRefundStatuses
  <2>4. stages' \in [StageCodes -> StageStatuses]
    BY <1>30, SMT DEF SettleRefund, StagesSuperseded, StageStatuses
  <2>5. /\ state' \in States
        /\ timeline' \in SUBSET ProductionStates
        /\ cancelledAt' \in BOOLEAN
    <3>1. "completed" \in States /\ "cancelled" \in States
      BY DEF States, ProductionStates
    <3>2. cancelledAt \in BOOLEAN
      BY DEF TypeOK
    <3> QED
      BY <1>30, <3>1, <3>2, MoveToType DEF SettleRefund
  <2>6. settlements' \in Nat /\ riderEntitlement' \in Nat
    BY <1>30, SMT DEF SettleRefund, TypeOK
  <2>7. UNCHANGED <<issueWindow, payments, claims, issues, payoutHold,
                    shopHandover, forcedSteps, pickupChecklist, filed,
                    settlementPaid>>
    BY <1>30 DEF SettleRefund
  <2> QED
    BY <2>1, <2>2, <2>3, <2>4, <2>5, <2>6, <2>7, SMT DEF TypeOK
<1>31. CASE UNCHANGED vars
  BY <1>31, SMT DEF TypeOK, vars
<1> QED
  <2>1. ASSUME FulfilmentNext PROVE TypeOK'
    BY <2>1, <1>1, <1>2, <1>3, <1>8, <1>9, <1>10, <1>11, <1>12, <1>13, <1>14,
       <1>15, <1>16, <1>17, <1>18 DEF FulfilmentNext
  <2>2. ASSUME CaseNext PROVE TypeOK'
    BY <2>2, <1>19, <1>20, <1>21, <1>22, <1>23 DEF CaseNext
  <2>3. ASSUME MoneyNext PROVE TypeOK'
    BY <2>3, <1>4, <1>5, <1>6, <1>7, <1>24, <1>25, <1>26 DEF MoneyNext
  <2>4. ASSUME RefundNext PROVE TypeOK'
    <3>1. ASSUME ReviewRefund \/ (\E outcome \in {"rejected", "withdrawn"} : CloseRefund(outcome))
                 \/ ReserveTransfer
                 \/ (\E outcome \in {"unknown", "failed"} : ReconcileTransfer(outcome))
                 \/ RecordTransfer
          PROVE  \E status \in RefundStatuses : RefundMovesTo(status)
      BY <3>1 DEF ReviewRefund, CloseRefund, ReserveTransfer, ReconcileTransfer,
         RecordTransfer, RefundStatuses, ActiveRefundStatuses
    <3>2. ASSUME NEW shop \in 0..Collected("principal"),
                 NEW fare \in 0..Collected("delivery"),
                 NEW principal \in 0..Collected("principal")
          PROVE  shop \in Nat /\ fare \in Nat /\ principal \in Nat
      BY CollectedNat, SMT DEF Components
    <3> QED
      BY <2>4, <3>1, <3>2, <1>27, <1>28, <1>29, <1>30 DEF RefundNext
  <2> QED
    BY <2>1, <2>2, <2>3, <2>4, <1>31 DEF Next

(* Type correctness: every state the handlers can commit is well typed.    *)
THEOREM TypeCorrect == Spec => []TypeOK
<1>1. Init => TypeOK
  <2> SUFFICES ASSUME Init PROVE TypeOK
    OBVIOUS
  <2>1. payments \in [Payments -> PaymentStatuses]
    BY SMT DEF Init, Payments, PaymentStatuses
  <2>2. /\ stages \in [StageCodes -> StageStatuses]
        /\ claims \in [Claims \cup Issues -> {"none", "open", "payout_held", "released"}]
        /\ issues \in [Issues -> {"none", "open", "resolved", "dismissed"}]
        /\ refunded \in [Components -> Nat]
    BY SMT DEF Init, StageStatuses
  <2>3. refund \in [status : RefundStatuses, beforeProduction : BOOLEAN,
                    destination : BOOLEAN, settled : BOOLEAN]
    BY SMT DEF Init, RefundStatuses
  <2>4. /\ state \in States
        /\ timeline \in SUBSET ProductionStates
        /\ forcedSteps \in SUBSET PACKAGING_STATES
    BY DEF Init, States
  <2>5. /\ cancelledAt \in BOOLEAN
        /\ payoutHold \in BOOLEAN
        /\ issueWindow = "none"
        /\ shopHandover = "none"
        /\ pickupChecklist = "none"
    BY DEF Init
  <2>6. /\ filed \in 0..MaxRequests
        /\ settlements \in Nat /\ riderEntitlement \in Nat
        /\ settlementPaid \in Nat /\ pendingPayout \in Nat
    BY OrderAssumption, SMT DEF Init
  <2> QED
    BY <2>1, <2>2, <2>3, <2>4, <2>5, <2>6 DEF TypeOK
<1> QED
  BY <1>1, TypeStep, PTL DEF Spec
-----------------------------------------------------------------------------
(* The money.                                                              *)

(* The same stages released come to the same amount.                       *)
LEMMA ReleasedSame ==
    ASSUME \A s \in StageCodes : (stages[s] = "released") <=> (stages'[s] = "released")
    PROVE  ReleasedPrincipal' = ReleasedPrincipal
BY DEF ReleasedPrincipal, ReleasedFrom, StageCodes

(* A confirmed instalment is never taken back, so collections only grow.   *)
LEMMA CollectedGrows ==
    ASSUME \A p \in Payments : payments[p] = "confirmed" => payments'[p] = "confirmed"
    PROVE  \A c \in Components :
              Collected(c)' \in Nat /\ Collected(c)' >= Collected(c)
<1> SUFFICES ASSUME NEW c \in Components
             PROVE  Collected(c)' \in Nat /\ Collected(c)' >= Collected(c)
  OBVIOUS
<1>1. Allocations["initial"][c] \in Nat /\ Allocations["final_online"][c] \in Nat
  BY AllocationsNat DEF Payments
<1>2. Allocations' = Allocations
  BY DEF Allocations, InitialPrincipal, InitialFee, InitialDelivery, Downpayment,
         Total, RoundBps, Stored
<1> QED
  BY <1>1, <1>2, SMT DEF Collected, CollectedFrom, Payments

(* Releasing a stage adds its amount.                                      *)
LEMMA StageReleased ==
    ASSUME TypeOK, NEW s \in StageCodes, stages[s] # "released",
           stages' = [stages EXCEPT ![s] = "released"]
    PROVE  ReleasedPrincipal' = ReleasedPrincipal + StageAmounts[s]
<1>1. stages \in [StageCodes -> StageStatuses]
  BY DEF TypeOK
<1> QED
  BY <1>1, StageAmountsSum, SMT DEF ReleasedPrincipal, ReleasedFrom, StageCodes

(* Proof of fulfilment releases nothing.                                   *)
LEMMA WithProofSame ==
    ASSUME TypeOK, NEW s \in StageCodes, stages' = WithProof(s)
    PROVE  \A r \in StageCodes : (stages[r] = "released") <=> (stages'[r] = "released")
BY SMT DEF TypeOK, WithProof

(* What a request that moves no money leaves as it was.                    *)
MoneySettled ==
    /\ \A s \in StageCodes : (stages[s] = "released") <=> (stages'[s] = "released")
    /\ \A p \in Payments : payments[p] = "confirmed" => payments'[p] = "confirmed"
    /\ Settled => UNCHANGED payments
    /\ UNCHANGED settlement
    /\ refund'.settled => refund.settled

(* Every step moves no money, or is one of the three that do.              *)
LEMMA MoneyMoves ==
    ASSUME TypeOK, [Next]_vars
    PROVE  \/ MoneySettled
           \/ \E s \in StageCodes : ReleaseMilestone(s)
           \/ PaySettlement
           \/ \E shop, fare, principal \in Nat : SettleRefund(shop, fare, principal)
<1> USE DEF production, cases, lifecycle
<1>1. ASSUME UNCHANGED <<payments, stages, settlement, refund>> PROVE MoneySettled
  BY <1>1 DEF MoneySettled
<1>2. CASE FulfilmentNext
  <2>1. CASE RecordDelivery
    BY <2>1, WithProofSame DEF RecordDelivery, MoneySettled, StageCodes
  <2> QED
    BY <1>2, <1>1, <2>1
    DEF FulfilmentNext, Transition, CancelTransition, PackagingTransition,
        FinishProduction, ReviewProduction, AcceptDispatch, CheckUnpacked,
        ConfirmPickup, ResolveEscalation, CollectAtCounter, IssueWindowElapses,
        ExpireIssueWindow, ConfirmIssueWindow
<1>3. CASE CaseNext
  BY <1>3, <1>1
  DEF CaseNext, ReportIssue, ResolveIssue, RaiseClaim, HoldClaim, ReleaseClaim
<1>4. CASE MoneyNext
  <2>1. ASSUME NEW p \in Payments,
               SubmitPayment(p) \/ ConfirmPayment(p) \/ RejectPayment(p)
        PROVE  MoneySettled
    <3>1. \A q \in Payments : payments[q] = "confirmed" => payments'[q] = "confirmed"
      BY <2>1, SMT DEF SubmitPayment, ConfirmPayment, RejectPayment, TypeOK
    <3> QED
      BY <2>1, <3>1
      DEF SubmitPayment, ConfirmPayment, RejectPayment, ReconciliationAllowed,
          WorkStopped, MoneySettled
  <2>2. ASSUME NEW s \in StageCodes, AttachProof(s) PROVE MoneySettled
    BY <2>2, WithProofSame DEF AttachProof, MoneySettled
  <2>3. CASE PayoutReleasedTransition
    BY <2>3, <1>1 DEF PayoutReleasedTransition
  <2> QED
    BY <1>4, <2>1, <2>2, <2>3 DEF MoneyNext
<1>5. CASE RefundNext
  <2>1. ASSUME NEW withDestination \in BOOLEAN, FileRefund(withDestination)
        PROVE  MoneySettled
    BY <2>1 DEF FileRefund, MoneySettled
  <2>2. CASE ReplaceDestination
    BY <2>2 DEF ReplaceDestination, RequestAs, MoneySettled
  <2>3. ASSUME NEW status, RefundMovesTo(status) PROVE MoneySettled
    BY <2>3 DEF RefundMovesTo, RequestAs, MoneySettled
  <2>4. ASSUME NEW shop \in 0..Collected("principal"),
               NEW fare \in 0..Collected("delivery"),
               NEW principal \in 0..Collected("principal")
        PROVE  shop \in Nat /\ fare \in Nat /\ principal \in Nat
    BY CollectedNat, SMT DEF Components
  <2> QED
    BY <1>5, <2>1, <2>2, <2>3, <2>4
    DEF RefundNext, ReviewRefund, CloseRefund, ReserveTransfer,
        ReconcileTransfer, RecordTransfer
<1>6. CASE UNCHANGED vars
  BY <1>6, <1>1 DEF vars, settlement
<1> QED
  BY <1>2, <1>3, <1>4, <1>5, <1>6 DEF Next

(* The funds invariant needs to know that an unsettled order has nothing   *)
(* settled: releaseMilestone weighs a share against the other shares only, *)
(* which is sound because the work stop keeps it off a settled order.      *)
FundsInv == FundsCover /\ Unsettled

(* A request leaves the funds covered.                                     *)
LEMMA FundsStep == TypeOK /\ FundsInv /\ [Next]_vars => FundsInv'
<1> SUFFICES ASSUME TypeOK, FundsInv, [Next]_vars PROVE FundsInv'
  OBVIOUS
<1>1. /\ ReleasedPrincipal \in Nat
      /\ \A c \in Components : Collected(c) \in Nat
  BY ReleasedNat, CollectedNat
<1>2. /\ refunded \in [Components -> Nat] /\ refunded.principal \in Nat
      /\ refunded.fee \in Nat /\ refunded.delivery \in Nat
      /\ settlements \in Nat /\ riderEntitlement \in Nat
      /\ settlementPaid \in Nat /\ pendingPayout \in Nat
  BY DEF TypeOK, Components
<1>3. CASE MoneySettled
  <2>1. ReleasedPrincipal' = ReleasedPrincipal
    BY <1>3, ReleasedSame DEF MoneySettled
  <2>2. \A c \in Components : Collected(c)' \in Nat /\ Collected(c)' >= Collected(c)
    BY <1>3, CollectedGrows DEF MoneySettled
  <2>3. /\ Collected("principal")' \in Nat /\ Collected("principal")' >= Collected("principal")
        /\ Collected("fee")' \in Nat /\ Collected("fee")' >= Collected("fee")
        /\ Collected("delivery")' \in Nat /\ Collected("delivery")' >= Collected("delivery")
        /\ Collected("principal") \in Nat /\ Collected("fee") \in Nat
        /\ Collected("delivery") \in Nat
    BY <1>1, <2>2 DEF Components
  <2>4. /\ settlements' = settlements /\ refunded' = refunded
        /\ riderEntitlement' = riderEntitlement
        /\ settlementPaid' = settlementPaid /\ pendingPayout' = pendingPayout
    BY <1>3 DEF MoneySettled, settlement
  <2>5. FundsCover'
    BY <1>1, <1>2, <2>1, <2>3, <2>4, SMT DEF FundsInv, FundsCover
  <2>6. Unsettled'
    BY <1>3, <2>4 DEF FundsInv, Unsettled, MoneySettled
  <2> QED
    BY <2>5, <2>6 DEF FundsInv
<1>4. ASSUME NEW s \in StageCodes, ReleaseMilestone(s) PROVE FundsInv'
  <2>1. settlements = 0
    BY <1>2, <1>4, SMT DEF ReleaseMilestone, WorkStopped, Settled
  <2>2. /\ refunded = [c \in Components |-> 0]
        /\ refunded.principal = 0 /\ settlementPaid = 0 /\ pendingPayout = 0
    BY <2>1 DEF FundsInv, Unsettled, Components
  <2>3. ReleasedPrincipal' = ReleasedPrincipal + StageAmounts[s]
    BY <1>4, StageReleased DEF ReleaseMilestone
  <2>4. \A c \in Components : Collected(c)' = Collected(c)
    BY <1>4 DEF ReleaseMilestone, Collected, CollectedFrom
  <2>5. ReleasedPrincipal + StageAmounts[s] <= Collected("principal")
    BY <1>4 DEF ReleaseMilestone, PrincipalCovers
  <2>6. UNCHANGED <<settlement, refund>>
    BY <1>4 DEF ReleaseMilestone
  <2>7. StageAmounts[s] \in Nat
    BY StageAmountsSum
  <2>8. FundsCover'
    BY <1>1, <1>2, <2>2, <2>3, <2>4, <2>5, <2>6, <2>7, SMT
    DEF FundsInv, FundsCover, settlement, Components
  <2>9. Unsettled'
    BY <2>6 DEF FundsInv, Unsettled, settlement
  <2> QED
    BY <2>8, <2>9 DEF FundsInv
<1>5. CASE PaySettlement
  <2>1. ReleasedPrincipal' = ReleasedPrincipal
    BY <1>5, ReleasedSame DEF PaySettlement
  <2>2. \A c \in Components : Collected(c)' = Collected(c)
    BY <1>5 DEF PaySettlement, Collected, CollectedFrom
  <2>3. FundsCover'
    BY <1>1, <1>2, <1>5, <2>1, <2>2, SMT
    DEF FundsInv, FundsCover, PaySettlement, Components
  <2>4. settlements # 0
    BY <1>2, <1>5, SMT DEF FundsInv, Unsettled, PaySettlement
  <2>5. Unsettled'
    BY <1>5, <2>4 DEF Unsettled, PaySettlement
  <2> QED
    BY <2>3, <2>5 DEF FundsInv
<1>6. ASSUME NEW shop \in Nat, NEW fare \in Nat, NEW principal \in Nat,
             SettleRefund(shop, fare, principal)
      PROVE  FundsInv'
  <2>1. ReleasedPrincipal' = ReleasedPrincipal
    BY <1>6, ReleasedSame DEF SettleRefund, StagesSuperseded
  <2>2. \A c \in Components : Collected(c)' = Collected(c)
    BY <1>6 DEF SettleRefund, Collected, CollectedFrom
  <2>3. /\ refunded'.principal = refunded.principal + principal
        /\ refunded'.fee = refunded.fee + RefundableFee(principal)
        /\ refunded'.delivery = refunded.delivery + RefundableDelivery(fare)
        /\ riderEntitlement' = fare
        /\ pendingPayout' = shop - AlreadyPaidToShop
        /\ settlementPaid' = settlementPaid
        /\ settlements' = settlements + 1
    BY <1>6 DEF SettleRefund
  <2>4. /\ principal <= Collected("principal") - refunded.principal - shop
        /\ fare <= Collected("delivery") - refunded.delivery
    BY <1>6 DEF SettleRefund, SettlementAllowed
  <2>5. refunded.fee + RefundableFee(principal) <= Collected("fee")
    BY RefundableNat DEF FundsInv, FundsCover
  <2>6. refunded.delivery + RefundableDelivery(fare) + fare <= Collected("delivery")
    BY <1>1, <1>2, <2>4, SMT DEF RefundableDelivery, Larger, Components
  <2>7. FundsCover'
    BY <1>1, <1>2, <2>1, <2>2, <2>3, <2>4, <2>5, <2>6, SMT
    DEF FundsCover, AlreadyPaidToShop, Components
  <2>8. Unsettled'
    BY <1>2, <2>3, SMT DEF Unsettled
  <2> QED
    BY <2>7, <2>8 DEF FundsInv
<1> QED
  BY <1>3, <1>4, <1>5, <1>6, MoneyMoves

(* Checkout has collected nothing and owes nothing.                        *)
LEMMA FundsInitially == Init => FundsInv
<1> SUFFICES ASSUME Init PROVE FundsInv
  OBVIOUS
<1>1. ReleasedPrincipal = 0
  BY SMT DEF Init, ReleasedPrincipal, ReleasedFrom, StageCodes
<1>2. \A c \in Components : Collected(c) \in Nat
  BY CollectedNat
<1>3. FundsCover
  BY <1>1, <1>2, SMT DEF Init, FundsCover, Components
<1>4. Unsettled
  BY DEF Init, Unsettled
<1> QED
  BY <1>3, <1>4 DEF FundsInv

(* What the shop has been sent and promised, and what settlements return,  *)
(* never exceeds what the client's confirmed transfers brought in.         *)
THEOREM FundsAreCovered == Spec => []FundsCover
<1>1. FundsInv => FundsCover
  BY DEF FundsInv
<1> QED
  BY <1>1, FundsInitially, FundsStep, TypeCorrect, PTL DEF Spec

-----------------------------------------------------------------------------
(* The order implements the ledger.                                        *)

(* Every request is a step of the ledger or leaves it alone.               *)
LEMMA LedgerStep ==
    TypeOK /\ FundsInv /\ FundsInv' /\ [Next]_vars => [Ledger!Next]_(Ledger!vars)
<1> SUFFICES ASSUME TypeOK, FundsInv, FundsInv', [Next]_vars
             PROVE  [Ledger!Next]_(Ledger!vars)
  OBVIOUS
<1>1. /\ ReleasedPrincipal \in Nat /\ Collected("principal") \in Nat
      /\ settlements \in Nat /\ refunded.principal \in Nat
      /\ settlementPaid \in Nat /\ pendingPayout \in Nat
  BY ReleasedNat, CollectedNat DEF TypeOK, Components
<1>2. CASE MoneySettled
  <2>1. ReleasedPrincipal' = ReleasedPrincipal
    BY <1>2, ReleasedSame DEF MoneySettled
  <2>2. Collected("principal")' \in Nat /\ Collected("principal")' >= Collected("principal")
    BY <1>2, CollectedGrows DEF MoneySettled, Components
  <2>3. /\ settlements' = settlements /\ refunded' = refunded
        /\ settlementPaid' = settlementPaid /\ pendingPayout' = pendingPayout
    BY <1>2 DEF MoneySettled, settlement
  <2>4. Settled => Collected("principal")' = Collected("principal")
    BY <1>2 DEF MoneySettled, Collected, CollectedFrom
  <2>5. CASE Settled
    BY <2>1, <2>3, <2>4, <2>5 DEF Ledger!vars, Settled
  <2>6. CASE ~Settled
    BY <2>1, <2>2, <2>3, <2>6 DEF Ledger!Next, Ledger!Receive, Settled
  <2> QED
    BY <2>5, <2>6
<1>3. ASSUME NEW s \in StageCodes, ReleaseMilestone(s) PROVE Ledger!Next
  <2>1. settlements = 0 /\ ~Settled
    BY <1>1, <1>3, SMT DEF ReleaseMilestone, WorkStopped, Settled
  <2>2. settlementPaid = 0 /\ settlementPaid' = 0
    BY <1>3, <2>1 DEF FundsInv, Unsettled, ReleaseMilestone, settlement
  <2>3. ReleasedPrincipal' = ReleasedPrincipal + StageAmounts[s]
    BY <1>3, StageReleased DEF ReleaseMilestone
  <2>4. StageAmounts[s] \in Nat
    BY StageAmountsSum
  <2>5. ReleasedPrincipal + StageAmounts[s] <= Collected("principal")
    BY <1>3 DEF ReleaseMilestone, PrincipalCovers
  <2>6. Collected("principal")' = Collected("principal")
    BY <1>3 DEF ReleaseMilestone, Collected, CollectedFrom
  <2>7. UNCHANGED <<settlements, refunded, pendingPayout>>
    BY <1>3 DEF ReleaseMilestone, settlement
  <2>8. Ledger!PayShare
    BY <1>1, <2>1, <2>2, <2>3, <2>4, <2>5, <2>6, <2>7, SMT
    DEF Ledger!PayShare, Settled
  <2> QED
    BY <2>8 DEF Ledger!Next
<1>4. CASE PaySettlement
  <2>1. ReleasedPrincipal' = ReleasedPrincipal
    BY <1>4, ReleasedSame DEF PaySettlement
  <2>2. Collected("principal")' = Collected("principal")
    BY <1>4 DEF PaySettlement, Collected, CollectedFrom
  <2>3. Settled
    BY <1>1, <1>4, SMT DEF FundsInv, Unsettled, PaySettlement, Settled
  <2>4. Ledger!PaySettlement
    BY <1>1, <1>4, <2>1, <2>2, <2>3, SMT
    DEF Ledger!PaySettlement, PaySettlement, Settled
  <2> QED
    BY <2>4 DEF Ledger!Next
<1>5. ASSUME NEW shop \in Nat, NEW fare \in Nat, NEW principal \in Nat,
             SettleRefund(shop, fare, principal)
      PROVE  Ledger!Next
  <2>1. ReleasedPrincipal' = ReleasedPrincipal
    BY <1>5, ReleasedSame DEF SettleRefund, StagesSuperseded
  <2>2. Collected("principal")' = Collected("principal")
    BY <1>5 DEF SettleRefund, Collected, CollectedFrom
  <2>3. /\ refunded'.principal = refunded.principal + principal
        /\ pendingPayout' = shop - AlreadyPaidToShop
        /\ settlementPaid' = settlementPaid
        /\ settlements' = settlements + 1
    BY <1>5 DEF SettleRefund
  <2>4. /\ shop >= AlreadyPaidToShop
        /\ principal <= Collected("principal") - refunded.principal - shop
    BY <1>5 DEF SettleRefund, SettlementAllowed
  <2>5. Settled'
    BY <1>1, <2>3, SMT DEF Settled
  <2>6. Ledger!Settle
    BY <1>1, <2>1, <2>2, <2>3, <2>4, <2>5, SMT
    DEF Ledger!Settle, AlreadyPaidToShop
  <2> QED
    BY <2>6 DEF Ledger!Next
<1> QED
  BY <1>2, <1>3, <1>4, <1>5, MoneyMoves

(* The order's principal keeps the promises of Escrow.tla: no share after  *)
(* a settlement, nothing taken back, nothing paid that did not arrive.     *)
THEOREM OrderImplementsEscrow == Spec => LedgerSpec
<1>1. Init => FundsInv /\ Ledger!Init
  <2> SUFFICES ASSUME Init PROVE Ledger!Init
    BY FundsInitially
  <2>1. ReleasedPrincipal = 0
    BY SMT DEF Init, ReleasedPrincipal, ReleasedFrom, StageCodes
  <2>2. Collected("principal") = 0
    BY SMT DEF Init, Collected, CollectedFrom
  <2> QED
    BY <2>1, <2>2, SMT DEF Init, Ledger!Init, Settled, Components
<1> QED
  BY <1>1, FundsStep, LedgerStep, TypeCorrect, PTL DEF Spec, LedgerSpec, Ledger!Spec

-----------------------------------------------------------------------------
(***************************************************************************)
(* What an order's state, its history and its holds say about each other:  *)
(* theorems that rest on the path an order can have taken.                 *)
(***************************************************************************)
(* The path.                                                               *)

BeforeProduction == States \ (ProductionStates \cup {"cancelled"})
InShop == {"production", "supplier_self_qc"}

(* The stamp and the first instalment agree with the state.                *)
Stamps ==
    /\ cancelledAt = (state = "cancelled")
    /\ payments["initial"] # "confirmed" =>
          state \in {"initial_payment_review", "awaiting_initial_payment", "cancelled"}
    /\ Settled => state \in {"completed", "cancelled"}

(* The recorded history agrees with the state.                             *)
History ==
    /\ state \in BeforeProduction => timeline = {}
    /\ state \in ProductionStates => state \in timeline
    /\ timeline # {} => "production" \in timeline
    /\ state \in InShop => timeline \subseteq InShop
    /\ state \in HandedToClient \/ issueWindow # "none" => "delivered" \in timeline
    /\ state = "cancelled" => "delivered" \notin timeline
    /\ state \in WindowClosed => "completed" \in timeline
    /\ FulfillmentMode = "delivery" => "awaiting_collection" \notin timeline

Path == Stamps /\ History

(* A commit keeps the stamp and the state in agreement and never loses     *)
(* history.                                                                *)
LEMMA MoveToPath ==
    ASSUME NEW next \in States, NEW stamp, MoveTo(next, stamp)
    PROVE  /\ state' = next
           /\ cancelledAt' = (state' = "cancelled")
           /\ next \in ProductionStates => timeline' = timeline \cup {next}
           /\ next \notin ProductionStates => timeline' = timeline
BY DEF MoveTo

(* An order that moves on from `state` to `next`, its money as it was.     *)
MovesOn(next) ==
    /\ ~Settled
    /\ next \in States
    /\ MoveTo(next, next = "cancelled")
    /\ UNCHANGED <<issueWindow, payments, settlements>>

(* Where the table and the handlers may take an order without a settlement.*)
Roads ==
    TRANSITIONS \cup
    {<<"supplier_self_qc", "production">>,
     <<"supplier_self_qc", "supplier_self_qc">>,
     <<"rider_assigned", "picked_up">>,
     <<"issue_window_open", "completed">>}

(* Moving on along a road keeps the path.                                  *)
LEMMA RoadStep ==
    ASSUME TypeOK, Path, NEW next \in States, <<state, next>> \in Roads, MovesOn(next)
    PROVE  Path'
<1>1. /\ state' = next
      /\ cancelledAt' = (state' = "cancelled")
      /\ next \in ProductionStates => timeline' = timeline \cup {next}
      /\ next \notin ProductionStates => timeline' = timeline
  BY MoveToPath DEF MovesOn
<1>2. state # "initial_payment_review" => payments["initial"] = "confirmed"
  BY SMT DEF Path, Stamps, Roads, TRANSITIONS
<1>3. state = "initial_payment_review" => next = "cancelled"
  BY SMT DEF Roads, TRANSITIONS
<1>4. payments' = payments /\ ~Settled'
  BY DEF MovesOn, Settled
<1>5. Stamps'
  BY <1>1, <1>2, <1>3, <1>4 DEF Stamps
<1>6. History'
  BY <1>1, SMT
  DEF Path, History, MovesOn, Roads, TRANSITIONS, BeforeProduction, States,
      ProductionStates, InShop, HandedToClient, WindowClosed
<1> QED
  BY <1>5, <1>6 DEF Path

(* The goods change hands: delivered, and at once the issue window.        *)
LEMMA HandoverStep ==
    ASSUME TypeOK, Path, ~Settled, CompleteHandover,
           state \in {"picked_up", "out_for_delivery", "awaiting_collection"},
           UNCHANGED <<payments, settlements>>
    PROVE  Path'
<1>1. payments["initial"] = "confirmed"
  BY SMT DEF Path, Stamps
<1>2. Stamps'
  <2>1. cancelledAt' = FALSE /\ state' = "issue_window_open"
    BY DEF CompleteHandover, TypeOK
  <2> QED
    BY <1>1, <2>1 DEF Stamps, Settled
<1>3. History'
  BY SMT
  DEF Path, History, CompleteHandover, BeforeProduction, States,
      ProductionStates, InShop, HandedToClient, WindowClosed
<1> QED
  BY <1>2, <1>3 DEF Path

(* A settlement ends in cancelled, or in completed once the goods have     *)
(* changed hands.                                                          *)
LEMMA SettleStep ==
    ASSUME TypeOK, Path, NEW shop \in Nat, NEW fare \in Nat, NEW principal \in Nat,
           SettleRefund(shop, fare, principal)
    PROVE  Path'
<1>1. HandoverCompleted <=> "delivered" \in timeline
  BY SMT DEF HandoverCompleted, Path, History
<1>2. UNCHANGED <<issueWindow, payments>>
  BY DEF SettleRefund
<1>3. CASE HandoverCompleted
  <2>1. /\ state' = "completed"
        /\ cancelledAt' = (state' = "cancelled")
        /\ timeline' = timeline \cup {"completed"}
    BY <1>3, MoveToPath DEF SettleRefund, States, ProductionStates
  <2>2. payments["initial"] = "confirmed"
    BY <1>1, <1>3, SMT DEF Path, Stamps, History, BeforeProduction, States, ProductionStates
  <2>3. Stamps'
    BY <1>2, <2>1, <2>2 DEF Stamps
  <2>4. History'
    BY <1>1, <1>2, <1>3, <2>1, SMT
    DEF Path, History, BeforeProduction, States, ProductionStates, InShop,
        HandedToClient, WindowClosed
  <2> QED
    BY <2>3, <2>4 DEF Path
<1>4. CASE ~HandoverCompleted
  <2>1. /\ state' = "cancelled"
        /\ cancelledAt' = (state' = "cancelled")
        /\ timeline' = timeline
    BY <1>4, MoveToPath DEF SettleRefund, States, ProductionStates
  <2>2. Stamps'
    BY <2>1 DEF Stamps
  <2>3. History'
    BY <1>1, <1>2, <1>4, <2>1, SMT
    DEF Path, History, BeforeProduction, States, ProductionStates, InShop,
        HandedToClient, WindowClosed
  <2> QED
    BY <2>2, <2>3 DEF Path
<1> QED
  BY <1>3, <1>4

(* A payment request leaves the order where it is, except that the first   *)
(* instalment starts the order or sends the client back to pay.            *)
LEMMA PaymentStep ==
    ASSUME TypeOK, Path, NEW p \in Payments,
           SubmitPayment(p) \/ ConfirmPayment(p) \/ RejectPayment(p)
    PROVE  Path'
<1>1. ~Settled /\ UNCHANGED <<settlements, issueWindow>>
  BY DEF SubmitPayment, ConfirmPayment, RejectPayment, ReconciliationAllowed,
     WorkStopped, settlement
<1>2. CASE p = "initial"
  <2>1. payments["initial"] # "confirmed"
    BY <1>2 DEF SubmitPayment, ConfirmPayment, RejectPayment
  <2>2. \/ /\ MoveTo("initial_payment_review", cancelledAt)
           /\ payments'["initial"] # "confirmed"
        \/ /\ MoveTo("awaiting_initial_payment", cancelledAt)
           /\ payments'["initial"] # "confirmed"
        \/ MoveTo("needs_qa", cancelledAt) /\ payments'["initial"] = "confirmed"
    BY <1>2, SMT DEF SubmitPayment, ConfirmPayment, RejectPayment, TypeOK
  <2>3. /\ state' \in {"initial_payment_review", "awaiting_initial_payment", "needs_qa"}
        /\ cancelledAt' = (state' = "cancelled")
        /\ timeline' = timeline
        /\ ~cancelledAt
    BY <2>2, SMT DEF MoveTo, ProductionStates, TypeOK
  <2>4. timeline = {}
    <3>1. state # "cancelled"
      BY <2>3 DEF Path, Stamps
    <3> QED
      BY <2>1, <3>1, SMT
      DEF Path, Stamps, History, BeforeProduction, States, ProductionStates
  <2>5. payments'["initial"] # "confirmed" =>
           state' \in {"initial_payment_review", "awaiting_initial_payment", "cancelled"}
    BY <2>2 DEF MoveTo
  <2>6. Stamps'
    BY <1>1, <2>3, <2>5 DEF Stamps, Settled
  <2>7. History'
    BY <1>1, <2>3, <2>4, SMT
    DEF Path, History, BeforeProduction, States, ProductionStates, InShop,
        HandedToClient, WindowClosed
  <2> QED
    BY <2>6, <2>7 DEF Path
<1>3. CASE p = "final_online"
  <2>1. MoveTo(state, cancelledAt)
    BY <1>3 DEF SubmitPayment, ConfirmPayment, RejectPayment
  <2>2. payments'["initial"] = payments["initial"]
    BY <1>3, SMT DEF SubmitPayment, ConfirmPayment, RejectPayment, TypeOK, Payments
  <2>3. UNCHANGED <<state, timeline, cancelledAt>>
    BY <2>1 DEF MoveTo, Path, History
  <2> QED
    BY <1>1, <2>2, <2>3 DEF Path, Stamps, History, Settled
<1> QED
  BY <1>2, <1>3 DEF Payments

(* An order only ever gets where the table, a handler or a settlement      *)
(* takes it, so that its state tells what it has been through.             *)
LEMMA PathStep == TypeOK /\ Path /\ [Next]_vars => Path'
<1> SUFFICES ASSUME TypeOK, Path, [Next]_vars PROVE Path'
  OBVIOUS
<1> USE DEF production, cases, settlement
<1>1. ASSUME UNCHANGED <<lifecycle, payments, settlements>>,
             issueWindow' # "none" => issueWindow # "none"
      PROVE  Path'
  BY <1>1 DEF Path, Stamps, History, Settled, lifecycle
<1>2. ASSUME NEW next \in States, <<state, next>> \in Roads,
             MoveTo(next, cancelledAt) \/ MoveTo(next, TRUE), ~WorkStopped,
             UNCHANGED <<issueWindow, payments, settlements>>
      PROVE  Path'
  <2>1. MovesOn(next)
    BY <1>2 DEF MovesOn, MoveTo, WorkStopped
  <2> QED
    BY <1>2, <2>1, RoadStep
<1>3. CASE FulfilmentNext
  <2> USE DEF Roads
  <2>1. ASSUME NEW next \in States, Transition(next) PROVE Path'
    BY <2>1, <1>2 DEF Transition
  <2>2. CASE CancelTransition
    BY <2>2, <1>2 DEF CancelTransition, States
  <2>3. ASSUME NEW next \in PACKAGING_STATES, NEW operations \in BOOLEAN,
               PackagingTransition(next, operations)
        PROVE  Path'
    BY <2>3, <1>2 DEF PackagingTransition, PACKAGING_STATES, States, ProductionStates
  <2>4. CASE FinishProduction
    BY <2>4, <1>2 DEF FinishProduction, States, ProductionStates, TRANSITIONS
  <2>5. ASSUME NEW decision \in {"approved", "rejected"}, ReviewProduction(decision)
        PROVE  Path'
    BY <2>5, <1>2 DEF ReviewProduction, States, ProductionStates
  <2>6. CASE AcceptDispatch
    BY <2>6, <1>2 DEF AcceptDispatch, States, ProductionStates, TRANSITIONS
  <2>7. CASE ConfirmPickup
    BY <2>7, <1>2 DEF ConfirmPickup, States, ProductionStates
  <2>8. CASE RecordDelivery
    <3>1. CASE FulfillmentMode = "pickup"
      <4>1. /\ ~Settled /\ MoveTo("awaiting_collection", cancelledAt)
            /\ UNCHANGED <<issueWindow, payments, settlements>>
            /\ state \in {"picked_up", "out_for_delivery"}
        BY <2>8, <3>1 DEF RecordDelivery, WorkStopped
      <4>2. /\ state' = "awaiting_collection"
            /\ cancelledAt' = (state' = "cancelled")
            /\ timeline' = timeline \cup {"awaiting_collection"}
        BY <4>1, MoveToPath DEF States, ProductionStates
      <4>3. payments["initial"] = "confirmed"
        BY <4>1, SMT DEF Path, Stamps
      <4>4. Stamps'
        BY <4>1, <4>2, <4>3 DEF Stamps, Settled
      <4>5. History'
        BY <3>1, <4>1, <4>2, SMT
        DEF Path, History, BeforeProduction, States, ProductionStates, InShop,
            HandedToClient, WindowClosed
      <4> QED
        BY <4>4, <4>5 DEF Path
    <3>2. CASE FulfillmentMode # "pickup"
      BY <2>8, <3>2, HandoverStep DEF RecordDelivery, WorkStopped
    <3> QED
      BY <3>1, <3>2
  <2>9. CASE CollectAtCounter
    BY <2>9, HandoverStep DEF CollectAtCounter, WorkStopped
  <2>10. CASE ExpireIssueWindow
    <3>1. ~WorkStopped
      BY <2>10 DEF ExpireIssueWindow, ActivePayoutHold, WorkStopped, Path, Stamps
    <3> QED
      BY <2>10, <3>1, <1>2 DEF ExpireIssueWindow, States, ProductionStates
  <2>11. CASE ConfirmIssueWindow
    BY <2>11, <1>2 DEF ConfirmIssueWindow, States, ProductionStates
  <2>12. ASSUME NEW passed \in BOOLEAN, CheckUnpacked(passed) PROVE Path'
    BY <2>12, <1>1 DEF CheckUnpacked
  <2>13. CASE ResolveEscalation
    BY <2>13, <1>1 DEF ResolveEscalation
  <2>14. CASE IssueWindowElapses
    BY <2>14, <1>1 DEF IssueWindowElapses
  <2> QED
    BY <1>3, <2>1, <2>2, <2>3, <2>4, <2>5, <2>6, <2>7, <2>8, <2>9, <2>10,
       <2>11, <2>12, <2>13, <2>14 DEF FulfilmentNext
<1>4. CASE CaseNext
  BY <1>4, <1>1
  DEF CaseNext, ReportIssue, ResolveIssue, RaiseClaim, HoldClaim, ReleaseClaim
<1>5. CASE MoneyNext
  <2>1. CASE PayoutReleasedTransition
    BY <2>1, <1>2 DEF PayoutReleasedTransition, States, ProductionStates, Roads
  <2>2. ASSUME NEW s \in StageCodes, AttachProof(s) \/ ReleaseMilestone(s)
        PROVE  Path'
    BY <2>2, <1>1 DEF AttachProof, ReleaseMilestone
  <2>3. CASE PaySettlement
    BY <2>3, <1>1 DEF PaySettlement
  <2> QED
    BY <1>5, <2>1, <2>2, <2>3, PaymentStep DEF MoneyNext
<1>6. CASE RefundNext
  <2>1. ASSUME NEW shop \in 0..Collected("principal"),
               NEW fare \in 0..Collected("delivery"),
               NEW principal \in 0..Collected("principal")
        PROVE  shop \in Nat /\ fare \in Nat /\ principal \in Nat
    BY CollectedNat, SMT DEF Components
  <2>2. ASSUME NEW status, RefundMovesTo(status) PROVE Path'
    BY <2>2, <1>1 DEF RefundMovesTo
  <2> QED
    BY <1>6, <1>1, <2>1, <2>2, SettleStep
    DEF RefundNext, FileRefund, ReplaceDestination, ReviewRefund, CloseRefund,
        ReserveTransfer, ReconcileTransfer, RecordTransfer
<1>7. CASE UNCHANGED vars
  BY <1>7, <1>1 DEF vars
<1> QED
  BY <1>3, <1>4, <1>5, <1>6, <1>7 DEF Next

(* Every state the program can commit lies on the path.                    *)
THEOREM OrdersKeepTheirPath == Spec => []Path
<1>1. ASSUME Init PROVE Path
  <2>1. cancelledAt = (state = "cancelled")
    BY <1>1 DEF Init
  <2>2. Stamps
    BY <1>1, <2>1 DEF Init, Stamps, Settled
  <2>3. History
    BY <1>1, SMT
    DEF Init, History, States, ProductionStates, BeforeProduction, InShop,
        HandedToClient, WindowClosed
  <2> QED
    BY <2>2, <2>3 DEF Path
<1> QED
  BY <1>1, PathStep, TypeCorrect, PTL DEF Spec

-----------------------------------------------------------------------------
(* What a stopped order still lets happen.                                 *)

(* No request erases recorded history.                                     *)
LEMMA HistoryGrows == [Next]_vars => timeline \subseteq timeline'
<1> SUFFICES ASSUME [Next]_vars PROVE timeline \subseteq timeline'
  OBVIOUS
<1> USE DEF lifecycle
<1>1. CASE FulfilmentNext
  BY <1>1
  DEF FulfilmentNext, Transition, CancelTransition, PackagingTransition,
      FinishProduction, ReviewProduction, AcceptDispatch, CheckUnpacked,
      ConfirmPickup, ResolveEscalation, RecordDelivery, CollectAtCounter,
      IssueWindowElapses, ExpireIssueWindow, ConfirmIssueWindow,
      CompleteHandover, MoveTo
<1>2. CASE CaseNext
  BY <1>2
  DEF CaseNext, ReportIssue, ResolveIssue, RaiseClaim, HoldClaim, ReleaseClaim
<1>3. CASE MoneyNext
  BY <1>3
  DEF MoneyNext, SubmitPayment, ConfirmPayment, RejectPayment, AttachProof,
      ReleaseMilestone, PayoutReleasedTransition, PaySettlement, MoveTo
<1>4. CASE RefundNext
  BY <1>4
  DEF RefundNext, FileRefund, ReplaceDestination, ReviewRefund, SettleRefund,
      CloseRefund, ReserveTransfer, ReconcileTransfer, RecordTransfer,
      RefundMovesTo, MoveTo
<1>5. CASE UNCHANGED vars
  BY <1>5 DEF vars
<1> QED
  BY <1>1, <1>2, <1>3, <1>4, <1>5 DEF Next

(* While a refund is being decided, and after one is settled, only a       *)
(* settlement moves the order.                                             *)
LEMMA StoppedStep ==
    ASSUME TypeOK, Path, [Next]_vars, WorkStopped
    PROVE  \/ UNCHANGED lifecycle
           \/ \E shop, fare, principal \in Nat : SettleRefund(shop, fare, principal)
<1>1. ASSUME NEW p \in Payments,
             SubmitPayment(p) \/ ConfirmPayment(p) \/ RejectPayment(p)
      PROVE  UNCHANGED lifecycle
  <2>1. MoveTo(state, cancelledAt)
    BY <1>1
    DEF SubmitPayment, ConfirmPayment, RejectPayment, ReconciliationAllowed, Payments
  <2> QED
    BY <2>1 DEF MoveTo, Path, History, lifecycle
<1>2. ~FulfilmentNext \/ UNCHANGED lifecycle
  <2>1. ~ExpireIssueWindow
    BY DEF ExpireIssueWindow, ActivePayoutHold, WorkStopped, Path, Stamps
  <2> QED
    BY <2>1
    DEF FulfilmentNext, Transition, CancelTransition, PackagingTransition,
        FinishProduction, ReviewProduction, AcceptDispatch, CheckUnpacked,
        ConfirmPickup, ResolveEscalation, RecordDelivery, CollectAtCounter,
        IssueWindowElapses, ConfirmIssueWindow
<1>3. ~CaseNext \/ UNCHANGED lifecycle
  BY DEF CaseNext, ReportIssue, ResolveIssue, RaiseClaim, HoldClaim, ReleaseClaim
<1>4. ~MoneyNext \/ UNCHANGED lifecycle
  BY <1>1
  DEF MoneyNext, AttachProof, ReleaseMilestone, PayoutReleasedTransition, PaySettlement
<1>5. CASE RefundNext
  <2>1. ASSUME NEW shop \in 0..Collected("principal"),
               NEW fare \in 0..Collected("delivery"),
               NEW principal \in 0..Collected("principal")
        PROVE  shop \in Nat /\ fare \in Nat /\ principal \in Nat
    BY CollectedNat, SMT DEF Components
  <2> QED
    BY <1>5, <2>1
    DEF RefundNext, FileRefund, ReplaceDestination, ReviewRefund, CloseRefund,
        ReserveTransfer, ReconcileTransfer, RecordTransfer, RefundMovesTo
<1> QED
  BY <1>2, <1>3, <1>4, <1>5 DEF Next, vars

(* While a refund is being decided, and after one is settled, nothing      *)
(* releases a share.                                                       *)
LEMMA StoppedShares ==
    ASSUME TypeOK, [Next]_vars, WorkStopped
    PROVE  \A s \in StageCodes : (stages[s] = "released") <=> (stages'[s] = "released")
<1>1. ~\E s \in StageCodes : ReleaseMilestone(s)
  BY DEF ReleaseMilestone
<1>2. CASE MoneySettled
  BY <1>2 DEF MoneySettled
<1>3. CASE PaySettlement
  BY <1>3 DEF PaySettlement
<1>4. ASSUME NEW shop \in Nat, NEW fare \in Nat, NEW principal \in Nat,
             SettleRefund(shop, fare, principal)
      PROVE  \A s \in StageCodes : (stages[s] = "released") <=> (stages'[s] = "released")
  BY <1>4 DEF SettleRefund, StagesSuperseded
<1> QED
  BY <1>1, <1>2, <1>3, <1>4, MoneyMoves

(* From the filing of a refund until it is refused or withdrawn, and for   *)
(* good once it is settled, nothing moves the order or pays a share but a  *)
(* settlement, and a settled order's payments are never touched again.     *)
THEOREM StoppedStaysStopped == Spec => StoppedOrdersStayStopped
<1>1. TypeOK /\ Path /\ [Next]_vars =>
         [ /\ (RefundHold \/ Settled) /\ settlements' = settlements =>
                  UNCHANGED <<state, timeline, cancelledAt, ReleasedPrincipal>>
           /\ Settled => settlements' > 0 /\ UNCHANGED payments ]_vars
  <2> SUFFICES ASSUME TypeOK, Path, [Next]_vars
               PROVE  /\ (RefundHold \/ Settled) /\ settlements' = settlements =>
                            UNCHANGED <<state, timeline, cancelledAt, ReleasedPrincipal>>
                      /\ Settled => settlements' > 0 /\ UNCHANGED payments
    OBVIOUS
  <2>1. settlements \in Nat
    BY DEF TypeOK
  <2>2. ASSUME RefundHold \/ Settled, settlements' = settlements
        PROVE  UNCHANGED <<state, timeline, cancelledAt, ReleasedPrincipal>>
    <3>1. ~\E shop, fare, principal \in Nat : SettleRefund(shop, fare, principal)
      <4>1. ASSUME NEW shop, NEW fare, NEW principal,
                   SettleRefund(shop, fare, principal)
            PROVE  settlements' = settlements + 1
        BY <4>1 DEF SettleRefund
      <4> QED
        BY <2>1, <2>2, <4>1, SMT
    <3> QED
      BY <2>2, <3>1, StoppedStep, StoppedShares, ReleasedSame DEF WorkStopped, lifecycle
  <2>3. ASSUME Settled PROVE settlements' > 0 /\ UNCHANGED payments
    <3>1. CASE MoneySettled
      BY <2>3, <3>1 DEF MoneySettled, Settled, settlement
    <3>2. ASSUME NEW s \in StageCodes, ReleaseMilestone(s) PROVE FALSE
      BY <2>3, <3>2 DEF ReleaseMilestone, WorkStopped
    <3>3. CASE PaySettlement
      BY <2>3, <3>3 DEF PaySettlement, Settled
    <3>4. ASSUME NEW shop \in Nat, NEW fare \in Nat, NEW principal \in Nat,
                 SettleRefund(shop, fare, principal)
          PROVE  settlements' > 0 /\ UNCHANGED payments
      BY <2>1, <3>4, SMT DEF SettleRefund
    <3> QED
      BY <3>1, <3>2, <3>3, <3>4, MoneyMoves
  <2> QED
    BY <2>2, <2>3
<1> QED
  BY <1>1, TypeCorrect, OrdersKeepTheirPath, PTL DEF Spec, StoppedOrdersStayStopped

-----------------------------------------------------------------------------
(* What a claim holds.                                                     *)

HeldStates == PACKAGING_STATES \cup {"picked_up"} \cup WindowClosed

(* Under a claim nobody reviews the goods, and the order reaches a held    *)
(* state by a settlement only.                                             *)
LEMMA HeldStep ==
    ASSUME [Next]_vars, ClaimHold
    PROVE  /\ UNCHANGED shopHandover
           /\ \/ state' = state \/ state' \notin HeldStates
              \/ settlements' = settlements + 1
<1> USE DEF production, settlement, HeldStates, PACKAGING_STATES, WindowClosed
<1>1. CASE FulfilmentNext
  <2>1. ASSUME NEW next \in States, Transition(next)
        PROVE  UNCHANGED shopHandover /\ state' \notin HeldStates
    <3>1. next \notin HeldStates
      BY <2>1 DEF Transition, TRANSITIONS
    <3> QED
      BY <2>1, <3>1 DEF Transition, MoveTo
  <2>2. CASE RecordDelivery
    BY <2>2 DEF RecordDelivery, CompleteHandover, MoveTo
  <2>3. CASE CancelTransition \/ AcceptDispatch \/ CollectAtCounter
    BY <2>3 DEF CancelTransition, AcceptDispatch, CollectAtCounter,
       CompleteHandover, MoveTo
  <2>4. CASE ResolveEscalation \/ IssueWindowElapses
    BY <2>4 DEF ResolveEscalation, IssueWindowElapses, lifecycle
  <2>5. /\ ~FinishProduction /\ ~ConfirmPickup
        /\ ~ExpireIssueWindow /\ ~ConfirmIssueWindow
        /\ \A next, operations : ~PackagingTransition(next, operations)
        /\ \A decision : ~ReviewProduction(decision)
        /\ \A passed : ~CheckUnpacked(passed)
    BY DEF FinishProduction, ConfirmPickup, ExpireIssueWindow,
       ConfirmIssueWindow, ActivePayoutHold, PackagingTransition,
       ReviewProduction, CheckUnpacked
  <2> QED
    BY <1>1, <2>1, <2>2, <2>3, <2>4, <2>5 DEF FulfilmentNext
<1>2. CASE CaseNext
  BY <1>2 DEF CaseNext, ReportIssue, ResolveIssue, RaiseClaim, HoldClaim,
     ReleaseClaim, lifecycle
<1>3. CASE MoneyNext
  <2>1. ASSUME NEW p \in Payments,
               SubmitPayment(p) \/ ConfirmPayment(p) \/ RejectPayment(p)
        PROVE  /\ UNCHANGED shopHandover
               /\ state' = state \/ state' \notin HeldStates
    BY <2>1 DEF SubmitPayment, ConfirmPayment, RejectPayment, MoveTo
  <2>2. ~PayoutReleasedTransition
    BY DEF PayoutReleasedTransition
  <2> QED
    BY <1>3, <2>1, <2>2
    DEF MoneyNext, AttachProof, ReleaseMilestone, PaySettlement, lifecycle
<1>4. CASE RefundNext
  BY <1>4
  DEF RefundNext, FileRefund, ReplaceDestination, ReviewRefund, SettleRefund,
      CloseRefund, ReserveTransfer, ReconcileTransfer, RecordTransfer,
      RefundMovesTo, lifecycle
<1>5. CASE UNCHANGED vars
  BY <1>5 DEF vars, lifecycle
<1> QED
  BY <1>1, <1>2, <1>3, <1>4, <1>5 DEF Next

(* While any claim is active, the shop is paid nothing and the finished    *)
(* goods stay where they are, although the hold's flag may be down: only a *)
(* settlement completes the order.                                         *)
THEOREM ClaimsHold == Spec => ClaimsHoldMoneyAndGoods
<1>1. TypeOK /\ [Next]_vars =>
         [ ActiveClaims({}) # {} =>
              /\ UNCHANGED <<ReleasedPrincipal, settlementPaid, shopHandover>>
              /\ state' # state /\ settlements' = settlements =>
                    state' \notin PACKAGING_STATES \cup {"picked_up"} \cup WindowClosed ]_vars
  <2> SUFFICES ASSUME TypeOK, [Next]_vars, ActiveClaims({}) # {}
               PROVE  /\ UNCHANGED <<ReleasedPrincipal, settlementPaid, shopHandover>>
                      /\ state' # state /\ settlements' = settlements =>
                            state' \notin HeldStates
    BY DEF HeldStates
  <2>1. ClaimHold /\ settlements \in Nat
    BY DEF ClaimHold, TypeOK
  <2>2. UNCHANGED <<ReleasedPrincipal, settlementPaid>>
    <3>1. ~PaySettlement /\ ~\E s \in StageCodes : ReleaseMilestone(s)
      BY <2>1 DEF PaySettlement, ReleaseMilestone, ActivePayoutHold
    <3>2. CASE MoneySettled
      BY <3>2, ReleasedSame DEF MoneySettled, settlement
    <3>3. ASSUME NEW shop \in Nat, NEW fare \in Nat, NEW principal \in Nat,
                 SettleRefund(shop, fare, principal)
          PROVE  UNCHANGED <<ReleasedPrincipal, settlementPaid>>
      <4>1. \A s \in StageCodes : (stages[s] = "released") <=> (stages'[s] = "released")
        BY <3>3 DEF SettleRefund, StagesSuperseded
      <4> QED
        BY <3>3, <4>1, ReleasedSame DEF SettleRefund
    <3> QED
      BY <3>1, <3>2, <3>3, MoneyMoves
  <2>3. UNCHANGED shopHandover
    BY <2>1, HeldStep
  <2>4. state' # state /\ settlements' = settlements => state' \notin HeldStates
    BY <2>1, HeldStep
  <2> QED
    BY <2>2, <2>3, <2>4
<1> QED
  BY <1>1, TypeCorrect, PTL DEF Spec, ClaimsHoldMoneyAndGoods

-----------------------------------------------------------------------------
(* What the history proves of the money and the goods.                     *)

(* A released share is one the order earned, whatever happened since.      *)
THEOREM SharesWereEarned == Spec => []StagesFollowWork
<1>1. Init => StagesFollowWork
  BY DEF Init, StagesFollowWork, StageCodes
<1>2. TypeOK /\ Path /\ StagesFollowWork /\ [Next]_vars => StagesFollowWork'
  <2> SUFFICES ASSUME TypeOK, Path, StagesFollowWork, [Next]_vars
               PROVE  StagesFollowWork'
    OBVIOUS
  <2>1. timeline \subseteq timeline'
    BY HistoryGrows
  <2>2. ASSUME \A s \in StageCodes : (stages[s] = "released") <=> (stages'[s] = "released")
        PROVE  StagesFollowWork'
    BY <2>1, <2>2 DEF StagesFollowWork, StageCodes
  <2>3. ASSUME NEW s \in StageCodes, ReleaseMilestone(s) PROVE StagesFollowWork'
    <3>1. /\ s = "production_started" => "production" \in timeline
          /\ s = "delivered" => "delivered" \in timeline
          /\ s = "issue_window" => "completed" \in timeline
      BY <2>3, SMT
      DEF ReleaseMilestone, StageStates, DeliveredStates, HandedToClient,
          WindowClosed, ProductionStates, Path, History
    <3>2. \A r \in StageCodes : stages'[r] = "released" => r = s \/ stages[r] = "released"
      BY <2>3 DEF ReleaseMilestone, TypeOK
    <3> QED
      BY <2>1, <3>1, <3>2 DEF StagesFollowWork, StageCodes
  <2>4. CASE PaySettlement
    BY <2>2, <2>4 DEF PaySettlement
  <2>5. ASSUME NEW shop \in Nat, NEW fare \in Nat, NEW principal \in Nat,
               SettleRefund(shop, fare, principal)
        PROVE  StagesFollowWork'
    BY <2>2, <2>5 DEF SettleRefund, StagesSuperseded
  <2> QED
    BY <2>2, <2>3, <2>4, <2>5, MoneyMoves DEF MoneySettled
<1> QED
  BY <1>1, <1>2, TypeCorrect, OrdersKeepTheirPath, PTL DEF Spec

(* A refund filed as before production stays so while it is being decided. *)
THEOREM BeforeProductionStaysTrue == Spec => []BeforeProductionTruth
<1>1. Init => BeforeProductionTruth
  BY DEF Init, BeforeProductionTruth, RefundHold, ActiveRefundStatuses
<1>2. TypeOK /\ Path /\ BeforeProductionTruth /\ [Next]_vars => BeforeProductionTruth'
  <2> SUFFICES ASSUME TypeOK, Path, BeforeProductionTruth, [Next]_vars,
                      RefundHold', ~refund'.settled, refund'.beforeProduction
               PROVE  ~ProductionStarted'
    BY DEF BeforeProductionTruth
  <2>1. ASSUME NEW withDestination \in BOOLEAN, FileRefund(withDestination)
        PROVE  ~ProductionStarted'
    BY <2>1 DEF FileRefund, ProductionStarted, lifecycle
  <2>2. ASSUME RefundHold, ~refund.settled, refund.beforeProduction
        PROVE  ~ProductionStarted'
    <3>1. ~ProductionStarted /\ WorkStopped
      BY <2>2 DEF BeforeProductionTruth, WorkStopped
    <3>2. ~\E shop, fare, principal \in Nat : SettleRefund(shop, fare, principal)
      <4>1. ASSUME NEW shop, NEW fare, NEW principal,
                   SettleRefund(shop, fare, principal)
            PROVE  FALSE
        BY <4>1 DEF SettleRefund, RequestAs
      <4> QED
        BY <4>1
    <3>3. UNCHANGED lifecycle
      BY <3>1, <3>2, StoppedStep
    <3>4. \A s \in StageCodes : (stages[s] = "released") <=> (stages'[s] = "released")
      BY <3>1, StoppedShares
    <3> QED
      BY <3>1, <3>3, <3>4 DEF ProductionStarted, lifecycle
  <2>3. \/ RefundHold /\ ~refund.settled /\ refund.beforeProduction
        \/ \E withDestination \in BOOLEAN : FileRefund(withDestination)
    <3>1. CASE UNCHANGED refund
      BY <3>1 DEF RefundHold
    <3>2. CASE ReplaceDestination
      BY <3>2 DEF ReplaceDestination, RequestAs, RefundHold, ActiveRefundStatuses
    <3>3. ASSUME NEW status, RefundMovesTo(status), RefundHold
          PROVE  RefundHold /\ ~refund.settled /\ refund.beforeProduction
      BY <3>3 DEF RefundMovesTo, RequestAs
    <3>4. ASSUME ReviewRefund \/ ReserveTransfer \/ RecordTransfer
                 \/ (\E outcome \in {"rejected", "withdrawn"} : CloseRefund(outcome))
                 \/ (\E outcome \in {"unknown", "failed"} : ReconcileTransfer(outcome))
          PROVE  RefundHold /\ \E status : RefundMovesTo(status)
      BY <3>4
      DEF ReviewRefund, CloseRefund, ReserveTransfer, ReconcileTransfer,
          RecordTransfer, RefundHold, ActiveRefundStatuses
    <3>5. ASSUME NEW shop, NEW fare, NEW principal, SettleRefund(shop, fare, principal)
          PROVE  FALSE
      BY <3>5 DEF SettleRefund, RequestAs
    <3>6. CASE RefundNext
      BY <3>2, <3>3, <3>4, <3>5, <3>6 DEF RefundNext
    <3>7. FulfilmentNext \/ CaseNext \/ MoneyNext \/ UNCHANGED vars => UNCHANGED refund
      BY DEF FulfilmentNext, Transition, CancelTransition, PackagingTransition,
         FinishProduction, ReviewProduction, AcceptDispatch, CheckUnpacked,
         ConfirmPickup, ResolveEscalation, RecordDelivery, CollectAtCounter,
         IssueWindowElapses, ExpireIssueWindow, ConfirmIssueWindow,
         CaseNext, ReportIssue, ResolveIssue, RaiseClaim, HoldClaim, ReleaseClaim,
         MoneyNext, SubmitPayment, ConfirmPayment, RejectPayment, AttachProof,
         ReleaseMilestone, PayoutReleasedTransition, PaySettlement, vars
    <3> QED
      BY <3>1, <3>6, <3>7 DEF Next
  <2> QED
    BY <2>1, <2>2, <2>3
<1> QED
  BY <1>1, <1>2, TypeCorrect, OrdersKeepTheirPath, PTL DEF Spec

-----------------------------------------------------------------------------
(* Holds.                                                                  *)

(* A held payout always has an active claim that Operations can release.   *)
THEOREM HoldsHaveACause == Spec => []HoldHasACause
<1>1. Init => HoldHasACause
  BY DEF Init, HoldHasACause
<1>2. TypeOK /\ HoldHasACause /\ [Next]_vars => HoldHasACause'
  <2> SUFFICES ASSUME TypeOK, HoldHasACause, [Next]_vars PROVE HoldHasACause'
    OBVIOUS
  <2> USE DEF cases
  <2>1. ASSUME UNCHANGED <<claims, payoutHold>> PROVE HoldHasACause'
    BY <2>1 DEF HoldHasACause, ActiveClaims
  <2>2. ASSUME NEW c \in Claims \cup Issues, claims' = [claims EXCEPT ![c] = "payout_held"]
        PROVE  HoldHasACause'
    <3>1. claims'[c] = "payout_held"
      BY <2>2 DEF TypeOK
    <3> QED
      BY <3>1 DEF HoldHasACause, ActiveClaims
  <2>3. ASSUME NEW c \in Claims \cup Issues, claims' = [claims EXCEPT ![c] = "released"],
               payoutHold' = HoldAfterRelease(c)
        PROVE  HoldHasACause'
    <3>1. ActiveClaims({c}) \subseteq ActiveClaims({})'
      BY <2>3 DEF TypeOK, ActiveClaims
    <3> QED
      BY <2>3, <3>1 DEF HoldHasACause, HoldAfterRelease
  <2>4. CASE CaseNext
    <3>1. ASSUME NEW i \in Issues, ReportIssue(i) PROVE HoldHasACause'
      BY <2>2, <3>1 DEF ReportIssue
    <3>2. ASSUME NEW i \in Issues, NEW outcome \in {"resolved", "dismissed"},
                 NEW releasePayout \in BOOLEAN, ResolveIssue(i, outcome, releasePayout)
          PROVE  HoldHasACause'
      BY <2>1, <2>3, <3>2 DEF ResolveIssue
    <3>3. ASSUME NEW c \in Claims, NEW hold \in BOOLEAN, RaiseClaim(c, hold)
          PROVE  HoldHasACause'
      <4>1. CASE hold
        BY <2>2, <3>3, <4>1 DEF RaiseClaim
      <4>2. CASE ~hold
        BY <3>3, <4>2 DEF RaiseClaim, HoldHasACause
      <4> QED
        BY <4>1, <4>2
    <3>4. ASSUME NEW c \in Claims \cup Issues, HoldClaim(c) PROVE HoldHasACause'
      BY <2>2, <3>4 DEF HoldClaim
    <3>5. ASSUME NEW c \in Claims \cup Issues, ReleaseClaim(c) PROVE HoldHasACause'
      BY <2>3, <3>5 DEF ReleaseClaim
    <3> QED
      BY <2>4, <3>1, <3>2, <3>3, <3>4, <3>5 DEF CaseNext
  <2>5. CASE FulfilmentNext
    BY <2>1, <2>5
    DEF FulfilmentNext, Transition, CancelTransition, PackagingTransition,
        FinishProduction, ReviewProduction, AcceptDispatch, CheckUnpacked,
        ConfirmPickup, ResolveEscalation, RecordDelivery, CollectAtCounter,
        IssueWindowElapses, ExpireIssueWindow, ConfirmIssueWindow
  <2>6. CASE MoneyNext
    BY <2>1, <2>6
    DEF MoneyNext, SubmitPayment, ConfirmPayment, RejectPayment, AttachProof,
        ReleaseMilestone, PayoutReleasedTransition, PaySettlement
  <2>7. CASE RefundNext
    BY <2>1, <2>7
    DEF RefundNext, FileRefund, ReplaceDestination, ReviewRefund, SettleRefund,
        CloseRefund, ReserveTransfer, ReconcileTransfer, RecordTransfer,
        RefundMovesTo
  <2>8. CASE UNCHANGED vars
    BY <2>1, <2>8 DEF vars
  <2> QED
    BY <2>4, <2>5, <2>6, <2>7, <2>8 DEF Next
<1> QED
  BY <1>1, <1>2, TypeCorrect, PTL DEF Spec

-----------------------------------------------------------------------------
(* The payout, the review and the balance.                                 *)

(* The payout is closed over three released shares and no settlement.      *)
PaidOutInFull == state = "payout_released" => AllSharesReleased /\ settlements = 0

(* A closed payout is closed over the whole price, and the client paid it. *)
THEOREM PaidOutWasPaidIn == Spec => []PaidOutMeansPaidIn
<1>1. Init => PaidOutInFull
  BY DEF Init, PaidOutInFull
<1>2. TypeOK /\ Path /\ PaidOutInFull /\ [Next]_vars => PaidOutInFull'
  <2> SUFFICES ASSUME TypeOK, Path, PaidOutInFull, [Next]_vars,
                      state' = "payout_released"
               PROVE  AllSharesReleased' /\ settlements' = 0
    BY DEF PaidOutInFull
  <2>1. ASSUME NEW shop, NEW fare, NEW principal, SettleRefund(shop, fare, principal)
        PROVE  FALSE
    BY <2>1 DEF SettleRefund, MoveTo
  <2>2. CASE state = "payout_released"
    <3>1. AllSharesReleased /\ settlements = 0
      BY <2>2 DEF PaidOutInFull
    <3>2. ~\E s \in StageCodes : ReleaseMilestone(s)
      BY <3>1 DEF ReleaseMilestone, AllSharesReleased
    <3>3. ~PaySettlement \/ UNCHANGED <<stages, settlements>>
      BY DEF PaySettlement
    <3>4. ~MoneySettled \/ (AllSharesReleased' /\ settlements' = 0)
      BY <3>1 DEF MoneySettled, AllSharesReleased, settlement
    <3> QED
      BY <2>1, <3>1, <3>2, <3>3, <3>4, MoneyMoves DEF AllSharesReleased
  <2>3. CASE state # "payout_released"
    <3>1. PayoutReleasedTransition
      <4>1. ~FulfilmentNext
        <5>1. ~\E next \in States : Transition(next)
          BY DEF Transition, MoveTo
        <5>2. ~\E next \in PACKAGING_STATES, operations \in BOOLEAN :
                  PackagingTransition(next, operations)
          BY DEF PackagingTransition, PACKAGING_STATES, MoveTo
        <5>3. ~RecordDelivery /\ ~CollectAtCounter
          BY DEF RecordDelivery, CollectAtCounter, CompleteHandover, MoveTo
        <5>4. ~CancelTransition /\ ~FinishProduction /\ ~AcceptDispatch
              /\ ~ConfirmPickup /\ ~ExpireIssueWindow /\ ~ConfirmIssueWindow
          BY DEF CancelTransition, FinishProduction, AcceptDispatch, ConfirmPickup,
             ExpireIssueWindow, ConfirmIssueWindow, MoveTo
        <5>5. ~\E decision \in {"approved", "rejected"} : ReviewProduction(decision)
          BY DEF ReviewProduction, MoveTo
        <5>6. ~(\E passed \in BOOLEAN : CheckUnpacked(passed))
              /\ ~ResolveEscalation /\ ~IssueWindowElapses
          BY <2>3 DEF CheckUnpacked, ResolveEscalation, IssueWindowElapses, lifecycle
        <5> QED
          BY <5>1, <5>2, <5>3, <5>4, <5>5, <5>6 DEF FulfilmentNext
      <4>2. ~CaseNext
        BY <2>3
        DEF CaseNext, ReportIssue, ResolveIssue, RaiseClaim, HoldClaim,
            ReleaseClaim, lifecycle
      <4>3. ~RefundNext
        BY <2>1, <2>3
        DEF RefundNext, FileRefund, ReplaceDestination, ReviewRefund, CloseRefund,
            ReserveTransfer, ReconcileTransfer, RecordTransfer, RefundMovesTo, lifecycle
      <4>4. ~UNCHANGED vars
        BY <2>3 DEF vars, lifecycle
      <4>5. MoneyNext => PayoutReleasedTransition
        BY <2>3
        DEF MoneyNext, SubmitPayment, ConfirmPayment, RejectPayment, AttachProof,
            ReleaseMilestone, PaySettlement, MoveTo, lifecycle
      <4> QED
        BY <4>1, <4>2, <4>3, <4>4, <4>5 DEF Next
    <3>2. settlements = 0
      BY <3>1, SMT DEF PayoutReleasedTransition, WorkStopped, Settled, TypeOK
    <3> QED
      BY <3>1, <3>2 DEF PayoutReleasedTransition, AllSharesReleased, settlement
  <2> QED
    BY <2>2, <2>3
<1>3. TypeOK /\ FundsCover /\ PaidOutInFull => PaidOutMeansPaidIn
  <2> SUFFICES ASSUME TypeOK, FundsCover, PaidOutInFull, state = "payout_released"
               PROVE  /\ ReleasedPrincipal = Subtotal
                      /\ Collected("principal") >= Subtotal
                      /\ settlements = 0
    BY DEF PaidOutMeansPaidIn
  <2>1. ReleasedPrincipal = Subtotal
    BY StageAmountsSum
    DEF PaidOutInFull, AllSharesReleased, ReleasedPrincipal, ReleasedFrom, StageCodes
  <2>2. /\ Collected("principal") \in Nat /\ refunded.principal \in Nat
        /\ settlementPaid \in Nat /\ pendingPayout \in Nat
    BY CollectedNat DEF TypeOK, Components
  <2> QED
    BY <2>1, <2>2, OrderAssumption, SMT DEF PaidOutInFull, FundsCover
<1> QED
  BY <1>1, <1>2, <1>3, TypeCorrect, FundsAreCovered, OrdersKeepTheirPath, PTL DEF Spec

(* What left the shop had been approved, or Operations forced it on record.*)
THEOREM DispatchWasReviewed == Spec => []DispatchedWorkWasReviewed
<1>1. Init => DispatchedWorkWasReviewed
  BY DEF Init, DispatchedWorkWasReviewed
<1>2. TypeOK /\ Path /\ DispatchedWorkWasReviewed /\ [Next]_vars
         => DispatchedWorkWasReviewed'
  <2> SUFFICES ASSUME TypeOK, Path, DispatchedWorkWasReviewed, [Next]_vars
               PROVE  DispatchedWorkWasReviewed'
    OBVIOUS
  <2> USE DEF production, lifecycle
  <2>1. ASSUME UNCHANGED <<shopHandover, forcedSteps>>,
               "ready_for_dispatch" \in timeline' => "ready_for_dispatch" \in timeline
        PROVE  DispatchedWorkWasReviewed'
    BY <2>1 DEF DispatchedWorkWasReviewed
  <2>2. ASSUME NEW next, NEW stamp, MoveTo(next, stamp),
               next # "ready_for_dispatch" \/ next = state,
               UNCHANGED <<shopHandover, forcedSteps>>
        PROVE  DispatchedWorkWasReviewed'
    BY <2>1, <2>2 DEF MoveTo, Path, History
  <2>3. ASSUME NEW next \in PACKAGING_STATES, NEW operations \in BOOLEAN,
               PackagingTransition(next, operations)
        PROVE  DispatchedWorkWasReviewed'
    <3>1. UNCHANGED shopHandover /\ forcedSteps \subseteq forcedSteps'
      BY <2>3 DEF PackagingTransition
    <3>2. timeline' \subseteq timeline \cup {next}
      BY <2>3 DEF PackagingTransition, MoveTo
    <3>3. next = "ready_for_dispatch" =>
             shopHandover = "approved" \/ "ready_for_dispatch" \in forcedSteps'
      BY <2>3 DEF PackagingTransition, HandoverRequirements
    <3> QED
      BY <3>1, <3>2, <3>3 DEF DispatchedWorkWasReviewed
  <2>4. CASE \/ FinishProduction
             \/ \E decision \in {"approved", "rejected"} : ReviewProduction(decision)
    <3>1. "ready_for_dispatch" \notin timeline
      BY <2>4 DEF FinishProduction, ReviewProduction, Path, History, InShop
    <3>2. timeline' \subseteq timeline \cup {"production", "supplier_self_qc"}
      BY <2>4 DEF FinishProduction, ReviewProduction, MoveTo
    <3> QED
      BY <3>1, <3>2 DEF DispatchedWorkWasReviewed
  <2>5. CASE FulfilmentNext
    <3>1. CASE RecordDelivery \/ CollectAtCounter
      BY <2>1, <2>2, <3>1 DEF RecordDelivery, CollectAtCounter, CompleteHandover
    <3>2. CASE CheckUnpacked(TRUE) \/ CheckUnpacked(FALSE) \/ ResolveEscalation
               \/ IssueWindowElapses
      BY <2>1, <3>2 DEF CheckUnpacked, ResolveEscalation, IssueWindowElapses
    <3>3. ASSUME NEW next \in States, Transition(next) PROVE DispatchedWorkWasReviewed'
      BY <2>2, <3>3 DEF Transition, PACKAGING_STATES
    <3>4. CASE CancelTransition \/ AcceptDispatch \/ ConfirmPickup
               \/ ExpireIssueWindow \/ ConfirmIssueWindow
      BY <2>2, <3>4
      DEF CancelTransition, AcceptDispatch, ConfirmPickup, ExpireIssueWindow,
          ConfirmIssueWindow
    <3> QED
      BY <2>3, <2>4, <2>5, <3>1, <3>2, <3>3, <3>4 DEF FulfilmentNext
  <2>6. CASE CaseNext
    BY <2>1, <2>6
    DEF CaseNext, ReportIssue, ResolveIssue, RaiseClaim, HoldClaim, ReleaseClaim
  <2>7. CASE MoneyNext
    <3>1. ASSUME NEW p \in Payments,
                 SubmitPayment(p) \/ ConfirmPayment(p) \/ RejectPayment(p)
          PROVE  DispatchedWorkWasReviewed'
      <4>1. \E next : /\ MoveTo(next, cancelledAt)
                      /\ next # "ready_for_dispatch" \/ next = state
        BY <3>1 DEF SubmitPayment, ConfirmPayment, RejectPayment
      <4> QED
        BY <2>2, <3>1, <4>1 DEF SubmitPayment, ConfirmPayment, RejectPayment
    <3>2. CASE PayoutReleasedTransition
      BY <2>2, <3>2 DEF PayoutReleasedTransition
    <3> QED
      BY <2>1, <2>7, <3>1, <3>2 DEF MoneyNext, AttachProof, ReleaseMilestone, PaySettlement
  <2>8. CASE RefundNext
    <3>1. ASSUME NEW shop, NEW fare, NEW principal, SettleRefund(shop, fare, principal)
          PROVE  DispatchedWorkWasReviewed'
      BY <2>2, <3>1 DEF SettleRefund
    <3> QED
      BY <2>1, <2>8, <3>1
      DEF RefundNext, FileRefund, ReplaceDestination, ReviewRefund, CloseRefund,
          ReserveTransfer, ReconcileTransfer, RecordTransfer, RefundMovesTo
  <2>9. CASE UNCHANGED vars
    BY <2>1, <2>9 DEF vars
  <2> QED
    BY <2>5, <2>6, <2>7, <2>8, <2>9 DEF Next
<1> QED
  BY <1>1, <1>2, TypeCorrect, OrdersKeepTheirPath, PTL DEF Spec

(* A delivery waits for the balance at the door; a collected job waits for *)
(* it at the counter when handover codes are on.                           *)
BalanceGated == FulfillmentMode = "delivery" \/ HandoverOtpEnabled

(* An instalment that is settled stays settled.                            *)
LEMMA SettledPaymentsStay ==
    ASSUME TypeOK, [Next]_vars, PaymentSettled("final_online")
    PROVE  PaymentSettled("final_online")'
<1>1. ASSUME UNCHANGED payments PROVE PaymentSettled("final_online")'
  BY <1>1 DEF PaymentSettled
<1>2. ASSUME NEW p \in Payments,
             SubmitPayment(p) \/ ConfirmPayment(p) \/ RejectPayment(p)
      PROVE  PaymentSettled("final_online")'
  BY <1>2, SMT
  DEF SubmitPayment, ConfirmPayment, RejectPayment, PaymentSettled, TypeOK, Payments
<1>3. FulfilmentNext \/ CaseNext \/ RefundNext \/ UNCHANGED vars => UNCHANGED payments
  BY DEF FulfilmentNext, Transition, CancelTransition, PackagingTransition,
     FinishProduction, ReviewProduction, AcceptDispatch, CheckUnpacked,
     ConfirmPickup, ResolveEscalation, RecordDelivery, CollectAtCounter,
     IssueWindowElapses, ExpireIssueWindow, ConfirmIssueWindow,
     CaseNext, ReportIssue, ResolveIssue, RaiseClaim, HoldClaim, ReleaseClaim,
     RefundNext, FileRefund, ReplaceDestination, ReviewRefund, SettleRefund,
     CloseRefund, ReserveTransfer, ReconcileTransfer, RecordTransfer,
     RefundMovesTo, vars
<1>4. CASE MoneyNext
  BY <1>1, <1>2, <1>4
  DEF MoneyNext, AttachProof, ReleaseMilestone, PayoutReleasedTransition, PaySettlement
<1> QED
  BY <1>1, <1>3, <1>4 DEF Next

(* Only the two handovers, and the table out of awaiting_collection, record*)
(* an order as delivered.                                                  *)
LEMMA DeliveredBy ==
    ASSUME TypeOK, Path, [Next]_vars, "delivered" \in timeline',
           "delivered" \notin timeline
    PROVE  \/ RecordDelivery /\ FulfillmentMode # "pickup"
           \/ CollectAtCounter
           \/ Transition("delivered") /\ state = "awaiting_collection"
<1> USE DEF lifecycle
<1>1. state # "delivered"
  BY DEF Path, History, ProductionStates
<1>2. ASSUME NEW next, NEW stamp, MoveTo(next, stamp), next # "delivered" PROVE FALSE
  BY <1>2 DEF MoveTo
<1>3. ASSUME UNCHANGED timeline PROVE FALSE
  BY <1>3
<1>4. ASSUME NEW next \in States, Transition(next)
      PROVE  Transition("delivered") /\ state = "awaiting_collection"
  <2>1. next = "delivered"
    BY <1>2, <1>4 DEF Transition
  <2>2. <<state, "delivered">> \in TRANSITIONS
    BY <1>4, <2>1 DEF Transition
  <2>3. state = "awaiting_collection"
    BY <2>2, SMT DEF TRANSITIONS
  <2> QED
    BY <1>4, <2>1, <2>3
<1>5. CASE FulfilmentNext
  <2>1. ~CancelTransition /\ ~FinishProduction /\ ~AcceptDispatch
        /\ ~ConfirmPickup /\ ~ExpireIssueWindow /\ ~ConfirmIssueWindow
    BY <1>2
    DEF CancelTransition, FinishProduction, AcceptDispatch, ConfirmPickup,
        ExpireIssueWindow, ConfirmIssueWindow
  <2>2. ~\E decision \in {"approved", "rejected"} : ReviewProduction(decision)
    BY <1>1, <1>2 DEF ReviewProduction
  <2>3. ~\E next \in PACKAGING_STATES, operations \in BOOLEAN :
            PackagingTransition(next, operations)
    BY <1>2 DEF PackagingTransition, PACKAGING_STATES
  <2>4. ~(\E passed \in BOOLEAN : CheckUnpacked(passed))
        /\ ~ResolveEscalation /\ ~IssueWindowElapses
    BY <1>3 DEF CheckUnpacked, ResolveEscalation, IssueWindowElapses
  <2>5. RecordDelivery => FulfillmentMode # "pickup"
    BY <1>2 DEF RecordDelivery
  <2> QED
    BY <1>4, <1>5, <2>1, <2>2, <2>3, <2>4, <2>5 DEF FulfilmentNext
<1>6. ~CaseNext
  BY <1>3
  DEF CaseNext, ReportIssue, ResolveIssue, RaiseClaim, HoldClaim, ReleaseClaim
<1>7. ~MoneyNext
  <2>1. ASSUME NEW p \in Payments,
               SubmitPayment(p) \/ ConfirmPayment(p) \/ RejectPayment(p)
        PROVE  FALSE
    BY <1>1, <1>2, <2>1 DEF SubmitPayment, ConfirmPayment, RejectPayment
  <2> QED
    BY <1>2, <1>3, <2>1
    DEF MoneyNext, AttachProof, ReleaseMilestone, PayoutReleasedTransition, PaySettlement
<1>8. ~RefundNext
  <2>1. ASSUME NEW shop, NEW fare, NEW principal, SettleRefund(shop, fare, principal)
        PROVE  FALSE
    BY <1>2, <2>1 DEF SettleRefund
  <2> QED
    BY <1>3, <2>1
    DEF RefundNext, FileRefund, ReplaceDestination, ReviewRefund, CloseRefund,
        ReserveTransfer, ReconcileTransfer, RecordTransfer, RefundMovesTo
<1>9. ~UNCHANGED vars
  BY <1>3 DEF vars
<1> QED
  BY <1>5, <1>6, <1>7, <1>8, <1>9 DEF Next

(* Where the goods are gated, the table never takes an order out of        *)
(* awaiting_collection: the code is minted and nobody has proved it.       *)
LEMMA GatedCounter ==
    ASSUME TypeOK, Path, BalanceGated, "delivered" \notin timeline,
           state = "awaiting_collection"
    PROVE  ~Transition("delivered")
<1>1. FulfillmentMode \in {"delivery", "pickup"}
  BY OrderAssumption DEF OrderAssumption
<1>2. "awaiting_collection" \in timeline
  BY DEF Path, History, ProductionStates
<1>3. HandoverPending
  BY <1>1, <1>2 DEF HandoverPending, HandoverMinted, BalanceGated, Path, History
<1> QED
  BY <1>3 DEF Transition, HandoverAllows, HandedToClient

(* Where the balance is gated, no client has the goods without paying it.  *)
THEOREM BalanceIsSettled == Spec /\ BalanceGated => []BalanceSettledAtHandover
<1>1. Init => BalanceSettledAtHandover
  BY DEF Init, BalanceSettledAtHandover
<1>2. TypeOK /\ Path /\ BalanceGated /\ BalanceSettledAtHandover /\ [Next]_vars
         => BalanceSettledAtHandover'
  <2> SUFFICES ASSUME TypeOK, Path, BalanceGated, BalanceSettledAtHandover,
                      [Next]_vars, "delivered" \in timeline'
               PROVE  PaymentSettled("final_online")'
    BY DEF BalanceSettledAtHandover
  <2>1. PaymentSettled("final_online")
    <3>1. CASE "delivered" \in timeline
      BY <3>1 DEF BalanceSettledAtHandover
    <3>2. CASE "delivered" \notin timeline
      <4>1. FulfillmentMode \in {"delivery", "pickup"}
        BY OrderAssumption DEF OrderAssumption
      <4>2. CASE RecordDelivery /\ FulfillmentMode # "pickup"
        BY <4>1, <4>2 DEF RecordDelivery, BalanceClearsDelivery
      <4>3. CASE CollectAtCounter
        BY <4>3 DEF CollectAtCounter
      <4> QED
        BY <3>2, <4>2, <4>3, GatedCounter, DeliveredBy
    <3> QED
      BY <3>1, <3>2
  <2> QED
    BY <2>1, SettledPaymentsStay
<1>3. BalanceGated /\ [Next]_vars => BalanceGated'
  BY DEF BalanceGated
<1> QED
  BY <1>1, <1>2, <1>3, TypeCorrect, OrdersKeepTheirPath, PTL DEF Spec

(* An issue window that was opened is never forgotten.                     *)
LEMMA WindowStays ==
    ASSUME [Next]_vars, issueWindow # "none"
    PROVE  issueWindow' # "none"
<1>1. FulfilmentNext => issueWindow' # "none"
  BY DEF FulfilmentNext, Transition, CancelTransition, PackagingTransition,
     FinishProduction, ReviewProduction, AcceptDispatch, CheckUnpacked,
     ConfirmPickup, ResolveEscalation, RecordDelivery, CollectAtCounter,
     CompleteHandover, IssueWindowElapses, ExpireIssueWindow, ConfirmIssueWindow
<1>2. CaseNext \/ MoneyNext \/ RefundNext \/ UNCHANGED vars => UNCHANGED issueWindow
  BY DEF CaseNext, ReportIssue, ResolveIssue, RaiseClaim, HoldClaim, ReleaseClaim,
     MoneyNext, SubmitPayment, ConfirmPayment, RejectPayment, AttachProof,
     ReleaseMilestone, PayoutReleasedTransition, PaySettlement,
     RefundNext, FileRefund, ReplaceDestination, ReviewRefund, SettleRefund,
     CloseRefund, ReserveTransfer, ReconcileTransfer, RecordTransfer,
     RefundMovesTo, vars
<1> QED
  BY <1>1, <1>2 DEF Next

(* Where the goods are gated, a client who has them has an issue window.   *)
THEOREM ClientsGetTheirWindow ==
    Spec /\ BalanceGated => []HandedGoodsHaveAWindow
<1>1. Init => HandedGoodsHaveAWindow
  BY DEF Init, HandedGoodsHaveAWindow
<1>2. TypeOK /\ Path /\ BalanceGated /\ HandedGoodsHaveAWindow /\ [Next]_vars
         => HandedGoodsHaveAWindow'
  <2> SUFFICES ASSUME TypeOK, Path, BalanceGated, HandedGoodsHaveAWindow,
                      [Next]_vars, "delivered" \in timeline'
               PROVE  issueWindow' # "none"
    BY DEF HandedGoodsHaveAWindow
  <2>1. CASE "delivered" \in timeline
    BY <2>1, WindowStays DEF HandedGoodsHaveAWindow
  <2>2. CASE "delivered" \notin timeline
    <3>1. CASE RecordDelivery /\ FulfillmentMode # "pickup"
      BY <3>1 DEF RecordDelivery, CompleteHandover
    <3>2. CASE CollectAtCounter
      BY <3>2 DEF CollectAtCounter, CompleteHandover
    <3> QED
      BY <2>2, <3>1, <3>2, GatedCounter, DeliveredBy
  <2> QED
    BY <2>1, <2>2
<1>3. BalanceGated /\ [Next]_vars => BalanceGated'
  BY DEF BalanceGated
<1> QED
  BY <1>1, <1>2, <1>3, TypeCorrect, OrdersKeepTheirPath, PTL DEF Spec

-----------------------------------------------------------------------------
(* Calls made about the order.                                             *)

USE OrderCallsAssumption

(* What the order says of its riders and sides.                            *)
TypedWorld ==
    /\ work \in Works /\ aged \in BOOLEAN /\ changes \in 0..MaxChanges
    /\ rider \in SUBSET Riders /\ Cardinality(rider) <= 1
    /\ (work = "preparing") = (rider = {})
    /\ revoked \subseteq Doubtful

GoodRow ==
    {k \in Row : k.state # None =>
        /\ Cardinality(k.rider) = 1
        /\ k.caller \in {"rider", Counterpart(k.pair)}}

(* A row nobody has called on yet.                                         *)
LEMMA UnusedRow == Unused \in GoodRow /\ Unused.state = None
<1>1. << >> \in Seq(Signal)
  OBVIOUS
<1>2. 0 \in 0..Ring /\ 0 \in 0..Lease /\ 0 \in 0..Cap
  OBVIOUS
<1>3. Unused \in Row
  BY <1>1, <1>2 DEF Unused, Row, Pairs, Sides
<1> QED
  BY <1>3 DEF Unused, GoodRow

(* A call that is over is one with its pair and its rider.                 *)
LEMMA FinishedRow ==
    ASSUME NEW k \in GoodRow, k.state # None,
           NEW s \in Final
    PROVE  /\ Finished(k, s) \in GoodRow
           /\ Finished(k, s).state = s /\ s \notin Active
           /\ Finished(k, s).pair = k.pair
<1>1. /\ k \in Row /\ Cardinality(k.rider) = 1
      /\ k.pair \in Pairs /\ k.rider \in SUBSET Riders
  BY DEF GoodRow, Row
<1>2. Unused \in Row /\ Unused.caller = "rider"
  BY UnusedRow DEF GoodRow, Unused
<1>3. /\ Finished(k, s) \in Row
      /\ Finished(k, s).state = s /\ Finished(k, s).pair = k.pair
      /\ Finished(k, s).rider = k.rider /\ Finished(k, s).caller = "rider"
  BY <1>1, <1>2 DEF Finished, Row
<1> QED
  BY <1>1, <1>3 DEF GoodRow, Final, Active

(* Reconciling leaves a call alone or ends it, and what stays active is    *)
(* current.                                                                *)
LEMMA SettledRow ==
    ASSUME NEW k \in GoodRow, NEW w, NEW r, NEW gone
    PROVE  /\ SettledCall(k, w, r, gone) \in GoodRow
           /\ SettledCall(k, w, r, gone).pair = k.pair
           /\ SettledCall(k, w, r, gone).state = None => k.state = None
           /\ \/ SettledCall(k, w, r, gone) = k
              \/ /\ k.state \in Active
                 /\ SettledCall(k, w, r, gone).state \in Final
           /\ SettledCall(k, w, r, gone).state \in Active =>
                /\ SettledCall(k, w, r, gone) = k
                /\ CurrentParties(k, r, gone) /\ CallWindow(k.pair, w, r)
                /\ ~Overdue(k)
           /\ k.state \in Active => SettledCall(k, w, r, gone).state \in
                {k.state, "ended"} \cup
                (IF k.state = "ringing" THEN {"missed"} ELSE {})
<1>1. k.state \in Active => k.state # None
  BY DEF Active, None
<1>2. \A s \in {"ended", "missed"} : s \in Final
  BY DEF Final
<1>3. ASSUME k.state \in Active, NEW s \in {"ended", "missed"}
      PROVE  /\ Finished(k, s) \in GoodRow
             /\ Finished(k, s).state = s /\ s \notin Active
             /\ Finished(k, s).pair = k.pair
  BY <1>1, <1>2, <1>3, FinishedRow
<1>4. CASE k.state \notin Active
  BY <1>4 DEF SettledCall
<1>5. CASE k.state \in Active
  <2>1. CASE SettledCall(k, w, r, gone) = k
    <3>1. CurrentParties(k, r, gone) /\ CallWindow(k.pair, w, r) /\ ~Overdue(k)
      BY <1>3, <1>5, <2>1 DEF SettledCall
    <3> QED
      BY <1>5, <2>1, <3>1
  <2>2. CASE SettledCall(k, w, r, gone) # k
    <3>1. \/ SettledCall(k, w, r, gone) = Finished(k, "ended")
          \/ k.state = "ringing" /\ SettledCall(k, w, r, gone) = Finished(k, "missed")
      BY <1>5, <2>2 DEF SettledCall
    <3> QED
      BY <1>1, <1>2, <1>3, <1>5, <3>1 DEF Final, None
  <2> QED
    BY <2>1, <2>2
<1> QED
  BY <1>4, <1>5

(* The rows of the calls, and the states of the world they are read in.    *)
CallsInv == TypedWorld /\ call \in [Calls -> GoodRow] /\ ActiveCallsAreCurrent

(* What a request finds of a call after it reconciled.                     *)
LEMMA NowRow ==
    ASSUME CallsInv, NEW d \in Calls
    PROVE  /\ Now(d) \in GoodRow /\ Now(d).pair = call[d].pair
           /\ Now(d).state \in Active =>
                /\ Now(d) = call[d] /\ ~Overdue(call[d])
           /\ \/ Now(d) = call[d]
              \/ call[d].state \in Active /\ Now(d).state \in Final
           /\ call[d].state \in Active => Now(d).state \in
                {call[d].state, "ended"} \cup
                (IF call[d].state = "ringing" THEN {"missed"} ELSE {})
<1>1. call[d] \in GoodRow
  BY DEF CallsInv
<1> QED
  BY <1>1, SettledRow DEF Now

(* A request that leaves one call as it should be leaves all of them so.   *)
LEMMA AnswerStep ==
    ASSUME CallsInv, NEW c \in Calls, NEW k \in GoodRow, Answer(c, k),
           k.state \in Active =>
             /\ CurrentParties(k, rider, revoked)
             /\ CallWindow(k.pair, work, rider)
             /\ \A d \in Calls \ {c} : call[d].pair = k.pair
                                         => Now(d).state \notin Active
    PROVE  CallsInv'
<1>1. /\ call' = [d \in Calls |-> IF d = c THEN k ELSE Now(d)]
      /\ UNCHANGED <<work, rider, revoked, aged, changes>>
  BY DEF Answer, world
<1>2. call' \in [Calls -> GoodRow]
  BY <1>1, NowRow
<1>3. TypedWorld'
  BY <1>1 DEF CallsInv, TypedWorld
<1>4. ASSUME NEW d \in Calls, d # c, Now(d).state \in Active
      PROVE  /\ CurrentParties(Now(d), rider, revoked)
             /\ CallWindow(Now(d).pair, work, rider)
             /\ \A e \in Calls \ {d} : call[e].pair = call[d].pair
                                         => Now(e).state \notin Active
  <2>1. Now(d) = call[d] /\ call[d].state \in Active
    BY <1>4, NowRow
  <2>2. /\ CurrentParties(call[d], rider, revoked)
        /\ CallWindow(call[d].pair, work, rider)
        /\ \A e \in Calls \ {d} : call[e].pair = call[d].pair
                                    => call[e].state \notin Active
    BY <2>1 DEF CallsInv, ActiveCallsAreCurrent
  <2>3. \A e \in Calls : Now(e).state \in Active => call[e].state \in Active
    BY NowRow
  <2> QED
    BY <2>1, <2>2, <2>3
<1>5. \A d \in Calls : Now(d).pair = call[d].pair
  BY NowRow
<1>6. ActiveCallsAreCurrent'
  <2> SUFFICES ASSUME NEW d \in Calls, call'[d].state \in Active
               PROVE  /\ CurrentParties(call'[d], rider, revoked)
                      /\ CallWindow(call'[d].pair, work, rider)
                      /\ \A e \in Calls \ {d} : call'[e].pair = call'[d].pair
                                            => call'[e].state \notin Active
    BY <1>1 DEF ActiveCallsAreCurrent, CurrentParties, CallWindow
  <2>1. CASE d = c
    <3>1. call'[d] = k
      BY <1>1, <2>1
    <3>2. \A e \in Calls \ {d} : call'[e] = Now(e)
      BY <1>1, <2>1
    <3> QED
      BY <1>5, <2>1, <3>1, <3>2
  <2>2. CASE d # c
    <3>1. call'[d] = Now(d)
      BY <1>1, <2>2
    <3>2. /\ CurrentParties(Now(d), rider, revoked)
          /\ CallWindow(Now(d).pair, work, rider)
          /\ \A e \in Calls \ {d} : call[e].pair = call[d].pair
                                      => Now(e).state \notin Active
      BY <1>4, <2>2, <3>1
    <3>3. ASSUME NEW e \in Calls \ {d}, call'[e].pair = call'[d].pair
          PROVE  call'[e].state \notin Active
      <4>1. CASE e = c
        <5>1. call'[e] = k
          BY <1>1, <4>1
        <5> QED
          BY <1>5, <2>2, <3>1, <3>3, <4>1, <5>1
      <4>2. CASE e # c
        <5>1. call'[e] = Now(e)
          BY <1>1, <4>2
        <5> QED
          BY <1>5, <3>1, <3>2, <3>3, <5>1
      <4> QED
        BY <4>1, <4>2
    <3> QED
      BY <3>1, <3>2, <3>3
  <2> QED
    BY <2>1, <2>2
<1> QED
  BY <1>2, <1>3, <1>6 DEF CallsInv

(* A call that is active still keeps its place when only its row changes.  *)
LEMMA UsedStep ==
    ASSUME CallsInv, NEW c \in Calls, NEW side, NEW states,
           Usable(c, side, states),
           NEW k \in GoodRow, Answer(c, k),
           k.pair = call[c].pair, k.rider = call[c].rider
    PROVE  CallsInv'
<1>1. Now(c) = call[c] /\ call[c].state \in Active
  BY NowRow DEF Usable
<1>2. /\ CurrentParties(call[c], rider, revoked)
      /\ CallWindow(call[c].pair, work, rider)
      /\ \A d \in Calls \ {c} : call[d].pair = call[c].pair
                                  => call[d].state \notin Active
  BY <1>1 DEF CallsInv, ActiveCallsAreCurrent
<1>3. \A d \in Calls : Now(d).state \in Active => call[d].state \in Active
  BY NowRow
<1>4. CurrentParties(k, rider, revoked) /\ CallWindow(k.pair, work, rider)
  BY <1>2 DEF CurrentParties
<1> QED
  BY <1>2, <1>3, <1>4, AnswerStep

(* Rows with a field or two replaced.                                      *)
LEMMA RowWith ==
    ASSUME NEW k \in GoodRow, k.state # None,
           NEW m, m \in {[k EXCEPT !.state = "accepted", !.rang = 0,
                                  !.callerAge = 0, !.calleeAge = 0],
                        [k EXCEPT !.callerAge = 0],
                        [k EXCEPT !.calleeAge = 0]}
    PROVE  m \in GoodRow /\ m.pair = k.pair /\ m.rider = k.rider
<1>1. k \in Row /\ Cardinality(k.rider) = 1
      /\ k.caller \in {"rider", Counterpart(k.pair)}
  BY DEF GoodRow
<1>2. 0 \in 0..Ring /\ 0 \in 0..Lease
  OBVIOUS
<1>3. m \in Row /\ m.pair = k.pair /\ m.rider = k.rider
      /\ m.caller = k.caller
  BY <1>1, <1>2 DEF Row, Active
<1> QED
  BY <1>1, <1>3 DEF GoodRow

(* A signal is added to a row.                                             *)
LEMMA RowSignalled ==
    ASSUME NEW k \in GoodRow, k.state # None, NEW side \in Sides,
           NEW kind \in {"offer", "answer", "ice"}
    PROVE  LET m == [k EXCEPT !.signals =
                       Append(@, [by |-> side, kind |-> kind])]
           IN  m \in GoodRow /\ m.pair = k.pair /\ m.rider = k.rider
<1>1. k \in Row /\ Cardinality(k.rider) = 1
      /\ k.caller \in {"rider", Counterpart(k.pair)}
  BY DEF GoodRow
<1> DEFINE signals == Append(k.signals, [by |-> side, kind |-> kind])
           m == [k EXCEPT !.signals = signals]
<1>2. signals \in Seq(Signal)
  <2>1. [by |-> side, kind |-> kind] \in Signal
    BY DEF Signal
  <2> QED
    BY <1>1, <2>1 DEF Row
<1> HIDE DEF signals
<1>3. m \in Row /\ m.pair = k.pair /\ m.rider = k.rider
      /\ m.caller = k.caller /\ m.state = k.state
  BY <1>1, <1>2 DEF Row
<1>4. m \in GoodRow
  BY <1>1, <1>3 DEF GoodRow
<1> QED
  BY <1>3, <1>4 DEF signals

(* A new call rings for the order's rider.                                 *)
LEMMA StartStep ==
    ASSUME CallsInv, NEW c \in Calls, NEW pair \in Pairs, NEW caller \in Sides,
           Start(c, pair, caller)
    PROVE  CallsInv'
<1> DEFINE k == [Unused EXCEPT !.state = "ringing", !.pair = pair,
                               !.rider = rider, !.caller = caller]
<1>1. rider \in SUBSET Riders /\ Cardinality(rider) <= 1
  BY DEF CallsInv, TypedWorld
<1>2. /\ k \in Row /\ k.pair = pair /\ k.rider = rider /\ k.caller = caller
      /\ k.state = "ringing"
  BY <1>1, UnusedRow DEF Row, GoodRow, Active
<1>3. /\ caller \in {"rider", Counterpart(pair)}
      /\ CallWindow(pair, work, rider) /\ CurrentParties(k, rider, revoked)
      /\ \A d \in Calls : call[d].pair = pair => Now(d).state \notin Active
      /\ Answer(c, k)
  BY DEF Start
<1>4. Cardinality(rider) = 1
  <2>1. rider # {}
    BY <1>3 DEF CallWindow
  <2>2. IsFiniteSet(rider)
    BY <1>1, FS_Subset
  <2>3. Cardinality(rider) \in Nat /\ Cardinality(rider) # 0
    BY <2>1, <2>2, FS_CardinalityType, FS_EmptySet
  <2> QED
    BY <1>1, <2>3
<1>5. k \in GoodRow
  BY <1>2, <1>3, <1>4 DEF GoodRow
<1> HIDE DEF k
<1> QED
  BY <1>2, <1>3, <1>5, AnswerStep

(* A party answers, ends or keeps up a call, or signals in it.             *)
LEMMA PartyStep ==
    ASSUME CallsInv, NEW c \in Calls, NEW side \in Sides,
           NEW kind \in {"offer", "answer", "ice"},
           \/ Accept(c) \/ Decline(c) \/ Cancel(c)
           \/ End(c, side) \/ Heartbeat(c, side) \/ SendSignal(c, side, kind)
    PROVE  CallsInv'
<1> DEFINE k == call[c]
<1>1. ASSUME NEW s, NEW states, Usable(c, s, states)
      PROVE  /\ Now(c) = k /\ k \in GoodRow /\ k.state # None
             /\ k.state \in Active
  BY <1>1, NowRow DEF Usable, CallsInv, Active, None
<1>2. CASE Accept(c)
  <2> DEFINE m == [Now(c) EXCEPT !.state = "accepted", !.rang = 0,
                                 !.callerAge = 0, !.calleeAge = 0]
  <2>1. Usable(c, Callee(call[c]), {"ringing"}) /\ Answer(c, m)
    BY <1>2 DEF Accept
  <2>2. m \in GoodRow /\ m.pair = k.pair /\ m.rider = k.rider
    BY <1>1, <2>1, RowWith
  <2> HIDE DEF m
  <2> QED
    BY <2>1, <2>2, UsedStep
<1>3. ASSUME NEW s, NEW states, Usable(c, s, states),
             NEW f \in {"declined", "cancelled", "ended"},
             Answer(c, Finished(Now(c), f))
      PROVE  CallsInv'
  <2>1. Now(c) = k /\ k \in GoodRow /\ k.state # None
    BY <1>1, <1>3
  <2>2. f \in Final
    BY DEF Final
  <2>3. Finished(k, f) \in GoodRow /\ Finished(k, f).state \notin Active
    BY <2>1, <2>2, FinishedRow
  <2> QED
    BY <1>3, <2>1, <2>3, AnswerStep
<1>4. CASE Decline(c) \/ Cancel(c) \/ End(c, side)
  BY <1>3, <1>4 DEF Decline, Cancel, End
<1>5. CASE Heartbeat(c, side)
  <2> DEFINE m == IF side = call[c].caller
                  THEN [Now(c) EXCEPT !.callerAge = 0]
                  ELSE [Now(c) EXCEPT !.calleeAge = 0]
  <2>1. Usable(c, side, {"accepted"}) /\ Answer(c, m)
    BY <1>5 DEF Heartbeat
  <2>2. m \in GoodRow /\ m.pair = k.pair /\ m.rider = k.rider
    BY <1>1, <2>1, RowWith
  <2> HIDE DEF m
  <2> QED
    BY <2>1, <2>2, UsedStep
<1>6. CASE SendSignal(c, side, kind)
  <2> DEFINE m == [k EXCEPT !.signals =
                     Append(@, [by |-> side, kind |-> kind])]
  <2>1. Usable(c, side, Active) /\ Answer(c, m)
    BY <1>6 DEF SendSignal
  <2>2. k \in GoodRow /\ k.state # None
    BY <1>1, <2>1
  <2>3. m \in GoodRow /\ m.pair = k.pair /\ m.rider = k.rider
    BY <2>2, RowSignalled
  <2> HIDE DEF m
  <2> QED
    BY <2>1, <2>3, UsedStep
<1> QED
  BY <1>2, <1>4, <1>5, <1>6

(* What reconciling with the order, its rider and the accounts leaves.     *)
LEMMA Reconciled ==
    ASSUME CallsInv, TypedWorld',
           call' = [c \in Calls |-> SettledCall(call[c], work', rider', revoked')]
    PROVE  CallsInv'
<1>1. \A c \in Calls : call[c] \in GoodRow
  BY DEF CallsInv
<1>2. \A c \in Calls :
        /\ call'[c] \in GoodRow /\ call'[c].pair = call[c].pair
        /\ call'[c].state \in Active =>
             /\ call'[c] = call[c]
             /\ CurrentParties(call[c], rider', revoked')
             /\ CallWindow(call[c].pair, work', rider')
  BY <1>1, SettledRow
<1>3. call' \in [Calls -> GoodRow]
  BY <1>2
<1>4. ActiveCallsAreCurrent'
  <2> SUFFICES ASSUME NEW c \in Calls, call'[c].state \in Active
               PROVE  /\ CurrentParties(call'[c], rider', revoked')
                      /\ CallWindow(call'[c].pair, work', rider')
                      /\ \A d \in Calls \ {c} : call'[d].pair = call'[c].pair
                                            => call'[d].state \notin Active
    BY DEF ActiveCallsAreCurrent, CurrentParties, CallWindow
  <2>1. call[c].state \in Active
    BY <1>2
  <2>2. \A d \in Calls \ {c} : call[d].pair = call[c].pair
                               => call[d].state \notin Active
    BY <2>1 DEF CallsInv, ActiveCallsAreCurrent
  <2> QED
    BY <1>2, <2>2
<1> QED
  BY <1>3, <1>4 DEF CallsInv

(* The order moves on, changes hands, or an account is revoked.            *)
LEMMA SaveStep ==
    ASSUME CallsInv,
           \/ \E r \in Riders : AssignRider(r)
           \/ PickUp \/ HandOver \/ ResetDispatch
           \/ \E p \in Doubtful : Revoke(p) \/ Restore(p)
    PROVE  CallsInv'
<1>1. /\ \A r \in Riders : Cardinality({r}) = 1
      /\ Cardinality({}) = 0
  BY FS_Singleton, FS_EmptySet
<1>2. ASSUME NEW w \in Works, NEW r \in SUBSET Riders,
             NEW gone \in SUBSET Doubtful, SaveOrder(w, r, gone),
             Cardinality(r) <= 1, (w = "preparing") = (r = {})
      PROVE  CallsInv'
  <2>1. TypedWorld'
    BY <1>2 DEF SaveOrder, CallsInv, TypedWorld
  <2> QED
    BY <1>2, <2>1, Reconciled DEF SaveOrder
<1>3. /\ work \in Works /\ rider \in SUBSET Riders
      /\ revoked \in SUBSET Doubtful /\ Cardinality(rider) <= 1
      /\ (work = "preparing") = (rider = {})
  BY DEF CallsInv, TypedWorld
<1>4. /\ "preparing" \in Works /\ "rider_assigned" \in Works
      /\ "on_the_way" \in Works /\ "delivered" \in Works
  BY DEF Works
<1>5. ASSUME NEW r \in Riders, AssignRider(r) PROVE CallsInv'
  <2>1. {r} \in SUBSET Riders /\ {r} # {} /\ Cardinality({r}) <= 1
    BY <1>1
  <2> QED
    BY <1>2, <1>3, <1>4, <1>5, <2>1 DEF AssignRider
<1>6. CASE PickUp \/ HandOver
  BY <1>2, <1>3, <1>4, <1>6 DEF PickUp, HandOver
<1>7. CASE ResetDispatch
  <2>1. {} \in SUBSET Riders /\ Cardinality({}) <= 1
    BY <1>1
  <2> QED
    BY <1>2, <1>3, <1>4, <1>7, <2>1 DEF ResetDispatch
<1>8. ASSUME NEW p \in Doubtful, Revoke(p) \/ Restore(p) PROVE CallsInv'
  <2>1. /\ revoked \cup {p} \in SUBSET Doubtful
        /\ revoked \ {p} \in SUBSET Doubtful
    BY <1>3
  <2> QED
    BY <1>2, <1>3, <1>8, <2>1 DEF Revoke, Restore
<1> QED
  BY <1>5, <1>6, <1>7, <1>8

(* Rows that time or a purge leaves: the same call, or none.               *)
LEMMA RowsStep ==
    ASSUME CallsInv, TypedWorld', UNCHANGED <<work, rider, revoked>>,
           call' = [c \in Calls |-> call'[c]],
           \A c \in Calls :
              /\ call'[c] \in GoodRow
              /\ \/ call'[c].state = None
                 \/ /\ call'[c].state = call[c].state
                    /\ call'[c].pair = call[c].pair
                    /\ call'[c].rider = call[c].rider
    PROVE  CallsInv'
<1>1. call' \in [Calls -> GoodRow]
  OBVIOUS
<1>2. \A c \in Calls : call'[c].state \in Active =>
        /\ call[c].state \in Active
        /\ call'[c].pair = call[c].pair /\ call'[c].rider = call[c].rider
  BY DEF Active, None
<1>3. ActiveCallsAreCurrent'
  BY <1>2 DEF CallsInv, ActiveCallsAreCurrent, CurrentParties, CallWindow
<1> QED
  BY <1>1, <1>3 DEF CallsInv

(* Time passes for the calls that are active, each up to its limits.       *)
LEMMA Older ==
    ASSUME NEW k \in GoodRow, NEW m,
           \/ /\ k.state = "ringing"
              /\ m = [k EXCEPT !.rang = IF @ < Ring THEN @ + 1 ELSE Ring]
           \/ /\ k.state = "accepted"
              /\ m = [k EXCEPT
                   !.callerAge = IF @ < Lease THEN @ + 1 ELSE Lease,
                   !.calleeAge = IF @ < Lease THEN @ + 1 ELSE Lease,
                   !.talked = IF @ < Cap THEN @ + 1 ELSE Cap]
           \/ k.state \notin {"ringing", "accepted"} /\ m = k
    PROVE  /\ m \in GoodRow /\ m.state = k.state /\ m.pair = k.pair
           /\ m.rider = k.rider /\ m.signals = k.signals
           /\ Overdue(k) => Overdue(m)
<1>1. k \in Row
  BY DEF GoodRow
<1>2. /\ k.rang \in 0..Ring /\ k.callerAge \in 0..Lease
      /\ k.calleeAge \in 0..Lease /\ k.talked \in 0..Cap
  BY <1>1 DEF Row
<1>3. ASSUME NEW n \in Nat, NEW x \in 0..n
      PROVE  /\ (IF x < n THEN x + 1 ELSE n) \in 0..n
             /\ x >= n => (IF x < n THEN x + 1 ELSE n) >= n
  OBVIOUS
<1>4. CASE k.state = "ringing"
  <2> DEFINE r == IF k.rang < Ring THEN k.rang + 1 ELSE Ring
  <2>1. m = [k EXCEPT !.rang = r]
    BY <1>4
  <2>2. r \in 0..Ring /\ (k.rang >= Ring => r >= Ring)
    BY <1>2, <1>3
  <2> HIDE DEF r
  <2>3. m \in Row /\ m.state = k.state /\ m.pair = k.pair
        /\ m.rider = k.rider /\ m.caller = k.caller
        /\ m.signals = k.signals /\ m.rang = r
    BY <1>1, <2>1, <2>2 DEF Row
  <2>4. Overdue(k) => Overdue(m)
    BY <1>4, <2>2, <2>3 DEF Overdue
  <2> QED
    BY <2>3, <2>4 DEF GoodRow
<1>5. CASE k.state = "accepted"
  <2> DEFINE a == IF k.callerAge < Lease THEN k.callerAge + 1 ELSE Lease
             b == IF k.calleeAge < Lease THEN k.calleeAge + 1 ELSE Lease
             t == IF k.talked < Cap THEN k.talked + 1 ELSE Cap
  <2>1. m = [k EXCEPT !.callerAge = a, !.calleeAge = b, !.talked = t]
    BY <1>5
  <2>2. /\ a \in 0..Lease /\ (k.callerAge >= Lease => a >= Lease)
        /\ b \in 0..Lease /\ (k.calleeAge >= Lease => b >= Lease)
        /\ t \in 0..Cap /\ (k.talked >= Cap => t >= Cap)
    BY <1>2, <1>3
  <2> HIDE DEF a, b, t
  <2>3. m \in Row /\ m.state = k.state /\ m.pair = k.pair
        /\ m.rider = k.rider /\ m.caller = k.caller
        /\ m.signals = k.signals
        /\ m.callerAge = a /\ m.calleeAge = b /\ m.talked = t
    BY <1>1, <2>1, <2>2 DEF Row
  <2>4. Overdue(k) => Overdue(m)
    BY <1>5, <2>2, <2>3 DEF Overdue, LeaseOver
  <2> QED
    BY <2>3, <2>4 DEF GoodRow
<1>6. CASE k.state \notin {"ringing", "accepted"}
  BY <1>6
<1> QED
  BY <1>4, <1>5, <1>6

(* What a tick does to every row.                                          *)
LEMMA TickRows ==
    ASSUME CallsInv, Tick
    PROVE  /\ UNCHANGED <<work, rider, revoked, aged, changes>>
           /\ call' = [c \in Calls |-> call'[c]]
           /\ \A c \in Calls :
                /\ call'[c] \in GoodRow /\ call'[c].state = call[c].state
                /\ call'[c].pair = call[c].pair
                /\ call'[c].rider = call[c].rider
                /\ call'[c].signals = call[c].signals
                /\ Overdue(call[c]) => Overdue(call'[c])
<1>1. UNCHANGED <<work, rider, revoked, aged, changes>>
  BY DEF Tick, world
<1>2. call' = [c \in Calls |-> call'[c]]
  BY DEF Tick
<1>3. ASSUME NEW c \in Calls
      PROVE  \/ /\ call[c].state = "ringing"
                /\ call'[c] = [call[c] EXCEPT
                     !.rang = IF @ < Ring THEN @ + 1 ELSE Ring]
             \/ /\ call[c].state = "accepted"
                /\ call'[c] = [call[c] EXCEPT
                     !.callerAge = IF @ < Lease THEN @ + 1 ELSE Lease,
                     !.calleeAge = IF @ < Lease THEN @ + 1 ELSE Lease,
                     !.talked = IF @ < Cap THEN @ + 1 ELSE Cap]
             \/ /\ call[c].state \notin {"ringing", "accepted"}
                /\ call'[c] = call[c]
  BY <1>3 DEF Tick
<1>4. \A c \in Calls : call[c] \in GoodRow
  BY DEF CallsInv
<1>5. ASSUME NEW c \in Calls
      PROVE  /\ call'[c] \in GoodRow /\ call'[c].state = call[c].state
             /\ call'[c].pair = call[c].pair
             /\ call'[c].rider = call[c].rider
             /\ call'[c].signals = call[c].signals
             /\ Overdue(call[c]) => Overdue(call'[c])
  BY <1>3, <1>4, Older
<1> QED
  BY <1>1, <1>2, <1>5

(* Every step keeps the invariant.                                         *)
LEMMA CallsStep == CallsInv /\ [OCNext]_ocVars => CallsInv'
<1> SUFFICES ASSUME CallsInv, [OCNext]_ocVars PROVE CallsInv'
  OBVIOUS
<1>1. CASE UNCHANGED ocVars
  BY <1>1 DEF ocVars, world, CallsInv, TypedWorld, ActiveCallsAreCurrent,
     CurrentParties, CallWindow
<1>2. ASSUME NEW c \in Calls, NEW pair \in Pairs, NEW caller \in Sides,
             Start(c, pair, caller)
      PROVE  CallsInv'
  BY <1>2, StartStep
<1>3. ASSUME NEW c \in Calls, NEW side \in Sides,
             NEW kind \in {"offer", "answer", "ice"},
             \/ Accept(c) \/ Decline(c) \/ Cancel(c)
             \/ End(c, side) \/ Heartbeat(c, side)
             \/ SendSignal(c, side, kind)
      PROVE  CallsInv'
  BY <1>3, PartyStep
<1>4. CASE Reconcile
  <2>1. /\ UNCHANGED <<work, rider, revoked, aged, changes>>
        /\ call' = [c \in Calls |-> SettledCall(call[c], work, rider, revoked)]
    BY <1>4 DEF Reconcile, Now, world
  <2> QED
    BY <2>1, Reconciled DEF CallsInv, TypedWorld
<1>5. CASE DayEnds
  BY <1>5 DEF DayEnds, CallsInv, TypedWorld, ActiveCallsAreCurrent,
     CurrentParties, CallWindow
<1>6. CASE PurgeClosedCalls
  <2>1. /\ UNCHANGED <<work, rider, revoked, aged, changes>>
        /\ call' = [c \in Calls |-> call'[c]]
        /\ \A c \in Calls : call'[c] \in {call[c], Unused}
    BY <1>6 DEF PurgeClosedCalls, world
  <2> QED
    BY <2>1, UnusedRow, RowsStep DEF CallsInv, TypedWorld
<1>7. CASE Tick
  BY <1>7, TickRows, RowsStep DEF CallsInv, TypedWorld
<1>8. "rider" \in Sides /\ "ice" \in {"offer", "answer", "ice"}
  BY DEF Sides
<1> QED
  BY <1>1, <1>2, <1>3, <1>4, <1>5, <1>6, <1>7, <1>8, SaveStep DEF OCNext

(* The first state has no call.                                            *)
LEMMA CallsInitially == OCInit => CallsInv
<1> SUFFICES ASSUME OCInit PROVE CallsInv
  OBVIOUS
<1>1. Cardinality({}) = 0
  BY FS_EmptySet
<1>2. TypedWorld
  <2>1. work \in Works /\ aged \in BOOLEAN /\ changes \in 0..MaxChanges
    <3>1. work \in Works /\ aged \in BOOLEAN
      BY DEF OCInit, Works
    <3>2. changes = 0
      BY DEF OCInit
    <3> QED
      BY <3>1, <3>2
  <2>2. /\ work = "preparing" /\ rider = {} /\ revoked = {}
    BY DEF OCInit
  <2>3. rider \in SUBSET Riders /\ Cardinality(rider) <= 1
    BY <1>1, <2>2
  <2> QED
    BY <2>1, <2>2, <2>3 DEF TypedWorld
<1> QED
  BY <1>2, UnusedRow DEF OCInit, CallsInv, ActiveCallsAreCurrent, Active, None

(* The invariant holds of every reachable state.                           *)
LEMMA CallsInvariant == OCSpec => []CallsInv
BY CallsInitially, CallsStep, PTL DEF OCSpec

(* Every variable keeps its type.                                          *)
THEOREM CallsTypeCorrect == OCSpec => []OCTypeOK
<1>1. CallsInv => OCTypeOK
  BY DEF CallsInv, TypedWorld, GoodRow, OCTypeOK
<1> QED
  BY <1>1, CallsInvariant, PTL

(* Whatever reassigned the order, suspended an account or moved the order  *)
(* on, an active call is between its rider and its side, in its window.    *)
THEOREM CallsAreCurrent == OCSpec => []ActiveCallsAreCurrent
<1>1. CallsInv => ActiveCallsAreCurrent
  BY DEF CallsInv
<1> QED
  BY <1>1, CallsInvariant, PTL

-----------------------------------------------------------------------------
(* Deadlines.                                                              *)

(* What a late request, a sweep or time may make of an overdue call.       *)
Late(c) ==
    \/ call'[c] = call[c]
    \/ Overdue(call'[c]) /\ call'[c].state = call[c].state
         /\ call'[c].signals = call[c].signals
    \/ call'[c].state \in
         (IF call[c].state = "ringing" THEN {"missed", "ended"} ELSE {"ended"})

(* An overdue call is active, and over for any request that reconciles.    *)
LEMMA OverdueIsOver ==
    ASSUME CallsInv, NEW c \in Calls, Overdue(call[c])
    PROVE  /\ call[c].state \in Active /\ Now(c).state \notin Active
           /\ call'[c] = Now(c) => Late(c)
<1>1. call[c].state \in {"ringing", "accepted"}
  BY DEF Overdue
<1>2. call[c].state \in Active
  BY <1>1 DEF Active
<1>3. Now(c).state \notin Active
  BY NowRow
<1>4. Now(c).state \in {"ended"} \cup
        (IF call[c].state = "ringing" THEN {"missed"} ELSE {})
  BY <1>2, <1>3, NowRow
<1> QED
  BY <1>1, <1>2, <1>3, <1>4 DEF Late

(* No request of a party touches it.                                       *)
LEMMA OverdueAnswered ==
    ASSUME CallsInv, NEW d \in Calls, NEW k, Answer(d, k),
           Now(d).state \in Active \/ call[d].state = None,
           NEW c \in Calls, Overdue(call[c])
    PROVE  Late(c)
<1>1. c # d
  BY OverdueIsOver DEF Active, None
<1>2. call'[c] = Now(c)
  BY <1>1 DEF Answer
<1> QED
  BY <1>2, OverdueIsOver

(* A purge leaves it alone as well: while the call is active its window is *)
(* open, so its chat is.                                                   *)
LEMMA OverdueKept ==
    ASSUME CallsInv, NEW c \in Calls, Overdue(call[c]), PurgeClosedCalls
    PROVE  Late(c)
<1>1. /\ CurrentParties(call[c], rider, revoked)
      /\ CallWindow(call[c].pair, work, rider)
  BY OverdueIsOver DEF CallsInv, ActiveCallsAreCurrent
<1>2. call[c].pair \in Pairs
  BY DEF CallsInv, GoodRow, Row
<1>3. ~ChatClosed(call[c].pair, work, rider, aged)
  BY <1>1, <1>2 DEF CallWindow, ChatClosed, Pairs
<1>4. call'[c] = call[c]
  BY <1>1, <1>3 DEF PurgeClosedCalls
<1> QED
  BY <1>4 DEF Late

(* Nothing that arrives late revives or relabels a call.                   *)
THEOREM LateIsLate == OCSpec => DeadlinesAreFinal
<1>1. ASSUME CallsInv, [OCNext]_ocVars
      PROVE  [\A c \in Calls : Overdue(call[c]) => Late(c)]_ocVars
  <2> SUFFICES ASSUME OCNext, NEW c \in Calls, Overdue(call[c])
               PROVE  Late(c)
    BY <1>1
  <2>1. call[c] \in GoodRow
    BY <1>1 DEF CallsInv
  <2>2. ASSUME NEW d \in Calls, NEW pair \in Pairs, NEW caller \in Sides,
               Start(d, pair, caller)
        PROVE  Late(c)
    BY <1>1, <2>2, OverdueAnswered DEF Start
  <2>3. ASSUME NEW d \in Calls, NEW side \in Sides,
               NEW kind \in {"offer", "answer", "ice"},
               \/ Accept(d) \/ Decline(d) \/ Cancel(d)
               \/ End(d, side) \/ Heartbeat(d, side)
               \/ SendSignal(d, side, kind)
        PROVE  Late(c)
    BY <1>1, <2>3, OverdueAnswered DEF Accept, Decline, Cancel, End,
       Heartbeat, SendSignal, Usable
  <2>4. CASE Reconcile
    BY <1>1, <2>4, OverdueIsOver DEF Reconcile
  <2>5. ASSUME NEW w, NEW r, NEW gone, SaveOrder(w, r, gone)
        PROVE  Late(c)
    <3>1. call'[c] = SettledCall(call[c], w, r, gone)
      BY <2>5 DEF SaveOrder
    <3>2. /\ call[c].state \in Active
          /\ call'[c].state \in Active => ~Overdue(call[c])
          /\ call'[c].state \in {call[c].state, "ended"} \cup
               (IF call[c].state = "ringing" THEN {"missed"} ELSE {})
      BY <1>1, <2>1, <3>1, OverdueIsOver, SettledRow
    <3> QED
      BY <3>2 DEF Late
  <2>6. CASE \/ \E r \in Riders : AssignRider(r)
             \/ PickUp \/ HandOver \/ ResetDispatch
             \/ \E p \in Doubtful : Revoke(p) \/ Restore(p)
    BY <2>5, <2>6 DEF AssignRider, PickUp, HandOver, ResetDispatch, Revoke,
       Restore
  <2>7. CASE DayEnds
    BY <2>7 DEF DayEnds, Late
  <2>8. CASE PurgeClosedCalls
    BY <1>1, <2>8, OverdueKept
  <2>9. CASE Tick
    BY <1>1, <2>9, TickRows DEF Late
  <2>10. "rider" \in Sides /\ "ice" \in {"offer", "answer", "ice"}
    BY DEF Sides
  <2> QED
    BY <1>1, <2>2, <2>3, <2>4, <2>6, <2>7, <2>8, <2>9, <2>10 DEF OCNext
<1> QED
  BY <1>1, CallsInvariant, PTL DEF OCSpec, DeadlinesAreFinal, Late

-----------------------------------------------------------------------------
(* Changes, and the streams that are told of them.                         *)

USE RealtimeAssumption

(* One replica at a time has the lock, and it has a change left to make.   *)
LockInv ==
    \A p \in Replicas : txn[p].phase = "working" =>
        /\ version < MaxVersion
        /\ \A q \in Replicas : txn[q].phase = "working" => q = p

(* What the client may have, and what a stream may be.                     *)
Clients == [read : SUBSET (1..MaxVersion), told : SUBSET Resources,
            shown : SUBSET (1..MaxVersion), cursor : 0..MaxVersion]
Streams == [phase : Phases, at : SUBSET Replicas, loaded : 0..MaxVersion,
            missed : SUBSET CallChanges]
StreamInv(s) ==
    /\ s \in Streams /\ s.loaded <= version
    /\ Cardinality(s.at) = IF s.phase = "off" THEN 0 ELSE 1

(* What is still to be told was committed before it was written down.      *)
ToldInv ==
    /\ \A p \in Replicas : publishing[p] \in Seq(1..version)
    /\ \A p \in Replicas : chain[p] \in Seq(1..version)
    /\ stream.loaded <= version
    /\ client.read \subseteq 1..version

UpdatesInv == RTTypeOK /\ LockInv /\ ToldInv /\ OnlyCommittedIsShown

(* A pointer the replica of the stream does not get changes nothing else.  *)
LEMMA Missed ==
    ASSUME UpdatesInv
    PROVE  StreamInv(stream) /\ \A lost : StreamInv(Missing(lost))
<1>1. StreamInv(stream)
  BY DEF UpdatesInv, RTTypeOK, ToldInv, StreamInv, Streams
<1>2. ASSUME NEW lost PROVE StreamInv(Missing(lost))
  <2> DEFINE missed == stream.missed \cup (lost \cap CallChanges)
  <2>1. stream \in Streams /\ missed \in SUBSET CallChanges
    BY <1>1 DEF StreamInv, Streams
  <2>2. Missing(lost) = [stream EXCEPT !.missed = missed]
    BY DEF Missing
  <2> HIDE DEF missed
  <2>3. /\ Missing(lost) \in Streams
        /\ Missing(lost).loaded = stream.loaded
        /\ Missing(lost).at = stream.at
        /\ Missing(lost).phase = stream.phase
    BY <2>1, <2>2 DEF Streams
  <2> QED
    BY <1>1, <2>3 DEF StreamInv
<1> QED
  BY <1>1, <1>2

(* What a change names is a resource.                                      *)
LEMMA ResourceNamed == \A n : Resource(n) \in Resources
BY DEF Resource, Resources

(* A row of the client's inbox is shown.                                   *)
LEMMA Published ==
    ASSUME RTTypeOK, OnlyCommittedIsShown, ToldInv,
           NEW p \in Replicas, NEW n \in 1..version, Publish(p, n),
           version' = version
    PROVE  /\ client' \in Clients
           /\ OnlyCommittedIsShown' /\ client'.read \subseteq 1..version'
<1>1. /\ version \in Nat /\ version <= MaxVersion /\ MaxVersion \in Nat
      /\ client \in Clients
  BY DEF RTTypeOK, Clients
<1>2. CASE Open(p)
  <2> DEFINE told == client.told \cup {Resource(n)}
  <2>1. client' = [client EXCEPT !.shown = @ \cup {n}, !.cursor = n,
                                 !.told = told]
    BY <1>1, <1>2 DEF Publish, Told, Shown, Clients
  <2>2. told \in SUBSET Resources
    BY <1>1, ResourceNamed DEF Clients
  <2> HIDE DEF told
  <2>3. /\ client'.shown = client.shown \cup {n} /\ client'.cursor = n
        /\ client'.read = client.read
    BY <1>1, <2>1 DEF Clients
  <2>4. n \in 1..MaxVersion /\ n <= version /\ n \in 0..MaxVersion
    BY <1>1
  <2>5. client.shown \cup {n} \subseteq 1..MaxVersion
    BY <1>1, <2>4 DEF Clients
  <2>6. client' \in Clients
    BY <1>1, <2>1, <2>2, <2>4, <2>5 DEF Clients
  <2>7. OnlyCommittedIsShown' /\ client'.read \subseteq 1..version'
    BY <2>3, <2>4 DEF OnlyCommittedIsShown, ToldInv
  <2> QED
    BY <2>6, <2>7
<1>3. CASE ~Open(p)
  BY <1>1, <1>3 DEF Publish, OnlyCommittedIsShown, ToldInv
<1> QED
  BY <1>2, <1>3

(* What is queued leaves the queue from its front.                         *)
LEMMA Queues ==
    ASSUME NEW n \in Nat, NEW s \in Seq(1..n)
    PROVE  /\ s # << >> => Head(s) \in 1..n /\ Tail(s) \in Seq(1..n)
           /\ \A k \in 0..Len(s) : SubSeq(s, 1, k) \in Seq(1..n)
           /\ \A m \in Nat : n <= m => s \in Seq(1..m)
           /\ Append(s, n + 1) \in Seq(1..(n + 1))
           /\ << >> \in Seq(1..n)
<1>1. s # << >> => Head(s) \in 1..n /\ Tail(s) \in Seq(1..n)
  OBVIOUS
<1>2. ASSUME NEW k \in 0..Len(s) PROVE SubSeq(s, 1, k) \in Seq(1..n)
  OBVIOUS
<1>3. ASSUME NEW m \in Nat, n <= m PROVE s \in Seq(1..m)
  <2>1. 1..n \subseteq 1..m
    BY <1>3
  <2> QED
    BY <2>1
<1>4. Append(s, n + 1) \in Seq(1..(n + 1))
  <2>1. s \in Seq(1..(n + 1))
    BY <1>3
  <2> QED
    BY <2>1
<1> QED
  BY <1>1, <1>2, <1>3, <1>4

(* The first state.                                                        *)
LEMMA UpdatesInitially == RTInit => UpdatesInv
<1> SUFFICES ASSUME RTInit PROVE UpdatesInv
  OBVIOUS
<1>1. Cardinality({}) = 0
  BY FS_EmptySet
<1>2. RTTypeOK
  BY <1>1 DEF RTInit, RTTypeOK, Txn, Phases, Closed
<1> QED
  BY <1>2 DEF RTInit, UpdatesInv, LockInv, ToldInv, OnlyCommittedIsShown, Closed

(* A commit: the one step that raises the version.                         *)
LEMMA CommitStep ==
    ASSUME UpdatesInv, NEW p \in Replicas, Commit(p) \/ CommitUnanswered(p)
    PROVE  UpdatesInv'
<1>1. /\ Committed(p) /\ UNCHANGED <<listener, before, client>>
      /\ \/ publishing' = [publishing EXCEPT ![p] = Append(@, version + 1)]
         \/ UNCHANGED publishing
      /\ faults' \in 0..MaxFaults /\ deaf' \subseteq Replicas
  BY DEF Commit, CommitUnanswered, Fault, history, UpdatesInv, RTTypeOK
<1>2. /\ version \in Nat /\ version < MaxVersion /\ version' = version + 1
      /\ txn' = [txn EXCEPT ![p] = Idle]
  BY <1>1 DEF UpdatesInv, RTTypeOK, LockInv, Committed
<1>3. version' \in 0..MaxVersion /\ version <= version' /\ version' \in Nat
  BY <1>2
<1>4. \A q \in Replicas : publishing[q] \in Seq(1..version)
                          /\ chain[q] \in Seq(1..version)
  BY DEF UpdatesInv, ToldInv
<1>5. /\ \A q \in Replicas : publishing'[q] \in Seq(1..version')
      /\ publishing' \in [Replicas -> Seq(1..MaxVersion)]
  <2>1. \A q \in Replicas : publishing[q] \in Seq(1..version')
                            /\ Append(publishing[q], version + 1)
                                 \in Seq(1..version')
    BY <1>2, <1>3, <1>4, Queues
  <2>2. \A q \in Replicas : publishing'[q] \in Seq(1..version')
    BY <1>1, <2>1 DEF UpdatesInv, RTTypeOK
  <2>3. \A q \in Replicas : publishing'[q] \in Seq(1..MaxVersion)
    BY <1>3, <2>2, Queues
  <2>4. publishing' = [q \in Replicas |-> publishing'[q]]
    BY <1>1 DEF UpdatesInv, RTTypeOK
  <2> QED
    BY <2>2, <2>3, <2>4
<1>6. /\ \A q \in Replicas : chain'[q] \in Seq(1..version')
      /\ chain' \in [Replicas -> Seq(1..MaxVersion)]
  <2>1. \A q \in Replicas : chain[q] \in Seq(1..version')
                            /\ Append(chain[q], version + 1)
                                 \in Seq(1..version')
    BY <1>2, <1>3, <1>4, Queues
  <2>2. chain' = [q \in Replicas |->
                    IF q # p /\ listener[q] \in {"listening", "up"}
                    THEN Append(chain[q], version + 1) ELSE chain[q]]
    BY <1>1 DEF Committed, Listening
  <2>3. \A q \in Replicas : chain'[q] \in Seq(1..version')
    BY <2>1, <2>2
  <2>4. \A q \in Replicas : chain'[q] \in Seq(1..MaxVersion)
    BY <1>3, <2>3, Queues
  <2> QED
    BY <2>2, <2>3, <2>4
<1>7. StreamInv(stream')
  <2>1. stream' = stream \/ stream' = Missing({version + 1})
    BY <1>1 DEF Committed
  <2> QED
    BY <2>1, Missed
<1>8. RTTypeOK'
  BY <1>1, <1>2, <1>3, <1>5, <1>6, <1>7
     DEF UpdatesInv, RTTypeOK, Txn, Idle, StreamInv, Streams
<1>9. LockInv'
  BY <1>1, <1>2 DEF UpdatesInv, RTTypeOK, LockInv, Idle, Committed
<1>10. ToldInv' /\ OnlyCommittedIsShown'
  <2>1. /\ client.cursor \in Nat /\ stream'.loaded \in Nat
        /\ stream'.loaded <= version
    BY <1>7 DEF UpdatesInv, RTTypeOK, StreamInv, Streams
  <2>2. 1..version \subseteq 1..version'
    BY <1>2
  <2> QED
    BY <1>1, <1>2, <1>5, <1>6, <2>1, <2>2
       DEF UpdatesInv, ToldInv, OnlyCommittedIsShown
<1> QED
  BY <1>8, <1>9, <1>10 DEF UpdatesInv

(* A callback or a pointer is delivered to the stream.                     *)
LEMMA DeliveryStep ==
    ASSUME UpdatesInv, NEW p \in Replicas, AfterCommit(p) \/ Deliver(p)
    PROVE  UpdatesInv'
<1>1. version \in Nat /\ version <= MaxVersion
  BY DEF UpdatesInv, RTTypeOK
<1>2. /\ UNCHANGED <<version, txn, listener, before, stream, history>>
      /\ \E n \in 1..version : Publish(p, n)
      /\ \A q \in Replicas : publishing'[q] \in Seq(1..version)
                             /\ chain'[q] \in Seq(1..version)
      /\ publishing' = [q \in Replicas |-> publishing'[q]]
      /\ chain' = [q \in Replicas |-> chain'[q]]
  <2>1. CASE AfterCommit(p)
    <3>1. publishing[p] \in Seq(1..version)
      BY DEF UpdatesInv, ToldInv
    <3>2. /\ Head(publishing[p]) \in 1..version
          /\ Tail(publishing[p]) \in Seq(1..version)
      BY <1>1, <2>1, <3>1, Queues DEF AfterCommit
    <3> QED
      BY <2>1, <3>2 DEF AfterCommit, transport, UpdatesInv, ToldInv, RTTypeOK
  <2>2. CASE Deliver(p)
    <3>1. chain[p] \in Seq(1..version)
      BY DEF UpdatesInv, ToldInv
    <3>2. Head(chain[p]) \in 1..version /\ Tail(chain[p]) \in Seq(1..version)
      BY <1>1, <2>2, <3>1, Queues DEF Deliver
    <3> QED
      BY <2>2, <3>2 DEF Deliver, UpdatesInv, ToldInv, RTTypeOK
  <2> QED
    BY <2>1, <2>2
<1>3. /\ client' \in Clients
      /\ OnlyCommittedIsShown' /\ client'.read \subseteq 1..version'
  BY <1>2, Published DEF UpdatesInv
<1>4. \A q \in Replicas : publishing'[q] \in Seq(1..MaxVersion)
                          /\ chain'[q] \in Seq(1..MaxVersion)
  BY <1>1, <1>2, Queues
<1>5. RTTypeOK'
  BY <1>2, <1>3, <1>4 DEF UpdatesInv, RTTypeOK, history, Clients
<1> QED
  BY <1>2, <1>3, <1>5 DEF UpdatesInv, LockInv, ToldInv, history

(* The requests around a commit.                                           *)
LEMMA RequestStep ==
    ASSUME UpdatesInv, NEW p \in Replicas,
           Begin(p) \/ Save(p) \/ Rollback(p) \/ CommitNothing(p)
    PROVE  UpdatesInv'
<1>1. /\ UNCHANGED <<version, publishing, transport, stream, client, deaf>>
      /\ faults' \in 0..MaxFaults
  BY DEF Begin, Save, Rollback, CommitNothing, PlainFault, Fault, history,
     UpdatesInv, RTTypeOK
<1>2. txn' \in [Replicas -> Txn]
  <2>1. txn \in [Replicas -> Txn]
    BY DEF UpdatesInv, RTTypeOK
  <2>2. Idle \in Txn /\ [phase |-> "working", wrote |-> FALSE] \in Txn
    BY DEF Idle, Txn
  <2>3. [txn[p] EXCEPT !.wrote = TRUE] \in Txn
    BY <2>1 DEF Txn
  <2> QED
    BY <2>1, <2>2, <2>3 DEF Begin, Save, Rollback, CommitNothing
<1>3. LockInv'
  <2>1. CASE Begin(p)
    BY <1>1, <2>1 DEF Begin, Unlocked, UpdatesInv, RTTypeOK, LockInv
  <2>2. CASE ~Begin(p)
    <3>1. \A q \in Replicas : txn'[q].phase = "working" =>
                              txn[q].phase = "working"
      BY <2>2 DEF Save, Rollback, CommitNothing, Idle, UpdatesInv, RTTypeOK, Txn
    <3> QED
      BY <1>1, <3>1 DEF UpdatesInv, LockInv
  <2> QED
    BY <2>1, <2>2
<1>4. RTTypeOK'
  BY <1>1, <1>2 DEF UpdatesInv, RTTypeOK, transport
<1> QED
  BY <1>1, <1>3, <1>4 DEF UpdatesInv, ToldInv, OnlyCommittedIsShown, transport

(* The listener of a replica comes and goes, and what it had received.     *)
LEMMA ListenerStep ==
    ASSUME UpdatesInv, NEW p \in Replicas,
           \/ Listen(p) \/ ListenAgain(p) \/ Refresh(p) \/ ListenFails(p)
           \/ RefreshFails(p) \/ LoseListener(p) \/ DeliverFails(p)
    PROVE  UpdatesInv'
<1>1. /\ UNCHANGED <<version, txn, publishing>>
      /\ faults' \in 0..MaxFaults /\ deaf' \subseteq Replicas
      /\ client' = client \/ client' = Told(client, Resources \ {"calls"})
      /\ stream' = stream \/ \E lost : stream' = Missing(lost)
  <2>1. /\ UNCHANGED <<version, txn, publishing>>
        /\ client' = client \/ client' = Told(client, Resources \ {"calls"})
    BY DEF Listen, ListenAgain, Refresh, ListenFails, RefreshFails,
       LoseListener, DeliverFails
  <2>2. faults' \in 0..MaxFaults /\ deaf' \subseteq Replicas
    BY DEF Listen, ListenAgain, Refresh, ListenFails, RefreshFails,
       LoseListener, DeliverFails, PlainFault, Fault, history, UpdatesInv,
       RTTypeOK
  <2>3. CASE LoseListener(p)
    <3>1. PICK k \in 0..Len(chain[p]) :
            stream' = IF p \notin stream.at THEN stream
                      ELSE Missing({chain[p][i] : i \in (k+1)..Len(chain[p])})
      BY <2>3 DEF LoseListener
    <3> QED
      BY <2>1, <2>2, <3>1
  <2>4. CASE ~LoseListener(p)
    <3>1. stream' = stream \/ stream' = Missing({Head(chain[p])})
      BY <2>4 DEF Listen, ListenAgain, Refresh, ListenFails, RefreshFails,
         DeliverFails
    <3> QED
      BY <2>1, <2>2, <3>1
  <2> QED
    BY <2>3, <2>4
<1>2. /\ listener' \in [Replicas -> {"down", "retrying", "listening", "up"}]
      /\ before' \in [Replicas -> BOOLEAN]
  BY DEF Listen, ListenAgain, Refresh, ListenFails, RefreshFails,
     LoseListener, DeliverFails, UpdatesInv, RTTypeOK
<1>3. version \in Nat /\ version <= MaxVersion
  BY DEF UpdatesInv, RTTypeOK
<1>4. /\ chain' = [q \in Replicas |-> chain'[q]]
      /\ \A q \in Replicas : chain'[q] \in Seq(1..version)
  <2>1. \A q \in Replicas : chain[q] \in Seq(1..version)
    BY DEF UpdatesInv, ToldInv
  <2>2. CASE LoseListener(p)
    <3>1. PICK k \in 0..Len(chain[p]) :
                 chain' = [chain EXCEPT ![p] = SubSeq(@, 1, k)]
      BY <2>2 DEF LoseListener
    <3>2. SubSeq(chain[p], 1, k) \in Seq(1..version)
      BY <1>3, <2>1, Queues
    <3> QED
      BY <2>1, <3>1, <3>2 DEF UpdatesInv, RTTypeOK
  <2>3. CASE DeliverFails(p)
    <3>1. Tail(chain[p]) \in Seq(1..version)
      BY <1>3, <2>1, <2>3, Queues DEF DeliverFails
    <3> QED
      BY <2>1, <2>3, <3>1 DEF DeliverFails, UpdatesInv, RTTypeOK
  <2>4. CASE ~LoseListener(p) /\ ~DeliverFails(p)
    <3>1. UNCHANGED chain
      BY <2>4 DEF Listen, ListenAgain, Refresh, ListenFails, RefreshFails
    <3> QED
      BY <2>1, <3>1 DEF UpdatesInv, RTTypeOK
  <2> QED
    BY <2>2, <2>3, <2>4
<1>5. chain' \in [Replicas -> Seq(1..MaxVersion)]
  BY <1>3, <1>4, Queues
<1>6. /\ client' \in Clients
      /\ client'.shown = client.shown /\ client'.cursor = client.cursor
      /\ client'.read = client.read
  <2>1. client \in Clients
    BY DEF UpdatesInv, RTTypeOK, Clients
  <2> QED
    BY <1>1, <2>1 DEF Told, Clients
<1>7. StreamInv(stream')
  BY <1>1, Missed
<1>8. RTTypeOK'
  BY <1>1, <1>2, <1>5, <1>6, <1>7
     DEF UpdatesInv, RTTypeOK, Clients, StreamInv, Streams
<1> QED
  BY <1>1, <1>4, <1>6, <1>7, <1>8
     DEF UpdatesInv, LockInv, ToldInv, OnlyCommittedIsShown, StreamInv

(* No stream is a stream that may be.                                      *)
LEMMA ClosedStream == ASSUME version \in Nat PROVE StreamInv(Closed)
<1>1. /\ Closed \in Streams /\ Closed.at = {}
      /\ Closed.phase = "off" /\ Closed.loaded = 0
  BY DEF Closed, Streams, Phases
<1> QED
  BY <1>1, FS_EmptySet DEF StreamInv

(* The client's stream opens, subscribes and ends, and the client reads.   *)
LEMMA StreamStep ==
    ASSUME UpdatesInv,
           \/ \E p \in Replicas : OpenStream(p)
           \/ CloseStream \/ Subscribe \/ \E r \in Resources : Refetch(r)
    PROVE  UpdatesInv'
<1>1. version \in Nat /\ version \in 0..MaxVersion
  BY DEF UpdatesInv, RTTypeOK
<1>2. /\ UNCHANGED <<version, txn, publishing, transport, deaf>>
      /\ faults' \in 0..MaxFaults
  <2>1. faults \in 0..MaxFaults /\ MaxFaults \in Nat
    BY DEF UpdatesInv, RTTypeOK
  <2>2. ASSUME NEW r \in Resources, Refetch(r)
        PROVE  UNCHANGED <<version, txn, publishing, transport, deaf, faults>>
    BY <2>2 DEF Refetch, history
  <2>3. ASSUME NEW p \in Replicas, OpenStream(p)
        PROVE  UNCHANGED <<version, txn, publishing, transport, deaf, faults>>
    BY <2>3 DEF OpenStream, history
  <2>4. CASE CloseStream \/ Subscribe
    BY <2>1, <2>4 DEF CloseStream, Subscribe, PlainFault, Fault, history
  <2> QED
    BY <2>1, <2>2, <2>3, <2>4
<1>3. StreamInv(stream')
  <2>1. stream \in Streams /\ {} \in SUBSET CallChanges
    BY Missed DEF StreamInv
  <2>2. CASE \E p \in Replicas : OpenStream(p)
    <3>1. PICK p \in Replicas : OpenStream(p)
      BY <2>2
    <3>2. /\ stream' = [phase |-> "loading", at |-> {p}, loaded |-> version,
                        missed |-> {}]
          /\ Cardinality({p}) = 1
      BY <3>1, FS_Singleton DEF OpenStream
    <3>3. /\ stream'.phase = "loading" /\ stream'.at = {p}
          /\ stream'.loaded = version
      BY <3>2
    <3> QED
      BY <1>1, <2>1, <3>2, <3>3 DEF Phases, StreamInv, Streams
  <2>3. CASE CloseStream
    <3>1. stream' = Closed
      BY <2>3 DEF CloseStream
    <3> QED
      BY <1>1, <3>1, ClosedStream
  <2>4. CASE Subscribe
    <3>1. /\ stream.phase = "loading"
          /\ stream' = [stream EXCEPT !.phase = "open", !.missed = {}]
      BY <2>4 DEF Subscribe
    <3>2. /\ stream'.phase = "open" /\ stream'.at = stream.at
          /\ stream'.loaded = stream.loaded /\ stream' \in Streams
      BY <2>1, <3>1 DEF Streams, Phases
    <3> QED
      BY <3>1, <3>2, Missed DEF StreamInv
  <2>5. CASE \E r \in Resources : Refetch(r)
    BY <2>5, Missed DEF Refetch
  <2> QED
    BY <2>2, <2>3, <2>4, <2>5
<1>4. /\ client' \in Clients
      /\ OnlyCommittedIsShown' /\ client'.read \subseteq 1..version
  <2>1. /\ client \in Clients /\ client.read \subseteq 1..version
    BY DEF UpdatesInv, RTTypeOK, ToldInv, Clients
  <2>2. CASE Subscribe
    <3> DEFINE seen == client.shown \cup ((client.cursor + 1)..stream.loaded)
               last == IF stream.loaded > client.cursor THEN stream.loaded
                       ELSE client.cursor
    <3>1. client' = [client EXCEPT !.shown = seen, !.cursor = last,
                                   !.told = @ \cup Resources]
      BY <2>1, <2>2 DEF Subscribe, Told, Clients
    <3>2. /\ stream.loaded \in 0..MaxVersion /\ stream.loaded <= version
          /\ client.cursor <= version /\ client.shown \subseteq 1..version
      BY DEF UpdatesInv, RTTypeOK, ToldInv, OnlyCommittedIsShown
    <3>3. seen \subseteq 1..version /\ last <= version
          /\ last \in 0..MaxVersion
      BY <1>1, <2>1, <3>2 DEF Clients
    <3>4. seen \subseteq 1..MaxVersion
      BY <1>1, <3>3
    <3> HIDE DEF seen, last
    <3>5. /\ client' \in Clients /\ client'.shown = seen
          /\ client'.cursor = last /\ client'.read = client.read
      BY <2>1, <3>1, <3>3, <3>4 DEF Clients
    <3> QED
      BY <1>2, <2>1, <3>3, <3>5 DEF OnlyCommittedIsShown
  <2>3. ASSUME NEW r \in Resources, Refetch(r)
        PROVE  /\ client' \in Clients
               /\ OnlyCommittedIsShown' /\ client'.read \subseteq 1..version
    <3> DEFINE now == client.read \cup {n \in 1..version : Resource(n) = r}
    <3>1. client' = [client EXCEPT !.read = now, !.told = @ \ {r}]
      BY <2>3 DEF Refetch
    <3>2. now \subseteq 1..version /\ now \subseteq 1..MaxVersion
      BY <1>1, <2>1
    <3> HIDE DEF now
    <3>3. /\ client' \in Clients /\ client'.shown = client.shown
          /\ client'.cursor = client.cursor /\ client'.read = now
      BY <2>1, <3>1, <3>2 DEF Clients
    <3> QED
      BY <1>2, <3>2, <3>3 DEF UpdatesInv, OnlyCommittedIsShown
  <2>4. CASE CloseStream \/ \E p \in Replicas : OpenStream(p)
    <3>1. UNCHANGED client
      BY <2>4 DEF OpenStream, CloseStream
    <3> QED
      BY <1>2, <2>1, <3>1 DEF UpdatesInv, OnlyCommittedIsShown
  <2> QED
    BY <2>2, <2>3, <2>4
<1>5. RTTypeOK'
  BY <1>2, <1>3, <1>4
     DEF UpdatesInv, RTTypeOK, transport, Clients, StreamInv, Streams
<1> QED
  BY <1>2, <1>3, <1>4, <1>5
     DEF UpdatesInv, LockInv, ToldInv, transport, StreamInv

(* A process dies.                                                         *)
LEMMA CrashStep ==
    ASSUME UpdatesInv, NEW p \in Replicas, Crash(p)
    PROVE  UpdatesInv'
<1>1. version \in Nat /\ version <= MaxVersion
  BY DEF UpdatesInv, RTTypeOK
<1>2. /\ UNCHANGED <<version, client>>
      /\ faults' \in 0..MaxFaults /\ deaf' \subseteq Replicas
      /\ txn' = [txn EXCEPT ![p] = Idle]
      /\ txn' \in [Replicas -> Txn]
      /\ listener' \in [Replicas -> {"down", "retrying", "listening", "up"}]
      /\ before' \in [Replicas -> BOOLEAN]
  BY DEF Crash, Fault, Idle, UpdatesInv, RTTypeOK, Txn
<1>3. /\ publishing' = [publishing EXCEPT ![p] = << >>]
      /\ chain' = [chain EXCEPT ![p] = << >>]
  BY DEF Crash
<1>4. /\ publishing' \in [Replicas -> Seq(1..MaxVersion)]
      /\ chain' \in [Replicas -> Seq(1..MaxVersion)]
      /\ \A q \in Replicas : publishing'[q] \in Seq(1..version)
                             /\ chain'[q] \in Seq(1..version)
  <2>1. << >> \in Seq(1..version) /\ << >> \in Seq(1..MaxVersion)
    OBVIOUS
  <2> QED
    BY <1>3, <2>1 DEF UpdatesInv, RTTypeOK, ToldInv
<1>5. stream' \in {stream, Closed}
  BY DEF Crash
<1>6. StreamInv(stream')
  BY <1>1, <1>5, Missed, ClosedStream
<1>7. LockInv'
  BY <1>2 DEF UpdatesInv, RTTypeOK, LockInv, Idle
<1>8. RTTypeOK'
  BY <1>2, <1>4, <1>6 DEF UpdatesInv, RTTypeOK, StreamInv, Streams
<1> QED
  BY <1>2, <1>4, <1>6, <1>7, <1>8
     DEF UpdatesInv, ToldInv, OnlyCommittedIsShown, StreamInv

(* Every step keeps the invariant.                                         *)
LEMMA UpdatesStep == UpdatesInv /\ [RTNext]_rtVars => UpdatesInv'
<1> SUFFICES ASSUME UpdatesInv, [RTNext]_rtVars PROVE UpdatesInv'
  OBVIOUS
<1>1. CASE UNCHANGED rtVars
  BY <1>1 DEF rtVars, history, UpdatesInv, RTTypeOK, LockInv, ToldInv,
     OnlyCommittedIsShown
<1>2. CASE RTNext
  BY <1>2, CommitStep, DeliveryStep, RequestStep, ListenerStep, StreamStep,
     CrashStep DEF RTNext, Progress
<1> QED
  BY <1>1, <1>2

(* The invariant holds of every reachable state.                           *)
LEMMA UpdatesInvariant == RTSpec => []UpdatesInv
BY UpdatesInitially, UpdatesStep, PTL DEF RTSpec

(* Every variable keeps its type; the lock keeps versions in their bound.  *)
THEOREM UpdatesTypeCorrect == RTSpec => []RTTypeOK
BY UpdatesInvariant, PTL DEF UpdatesInv

(* No stream shows a change that is not committed, whatever process died,  *)
(* and whichever replica told it.                                          *)
THEOREM CommittedShown == RTSpec => []OnlyCommittedIsShown
BY UpdatesInvariant, PTL DEF UpdatesInv

=============================================================================
