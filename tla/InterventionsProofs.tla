------------------------ MODULE InterventionsProofs ------------------------
(***************************************************************************)
(* Theorems about Interventions.tla, for any shops, prices, fees and       *)
(* numbers of incidents: what was agreed follows the shop that makes the   *)
(* job, and every move to another shop is funded.                          *)
(***************************************************************************)
EXTENDS Interventions, FiniteSetTheorems, TLAPS

(* The constants as the proofs read them.                                  *)
LEMMA Constants ==
    /\ First \in Shops /\ IsFiniteSet(Shops)
    /\ Prices \subseteq Nat /\ Subtotal \in Nat /\ Subtotal > 0 /\ Fee \in Nat
    /\ CoverBps \in Nat /\ Extra \in Nat /\ MaxIncidents \in Nat
BY InterventionsAssumption

USE Constants

-----------------------------------------------------------------------------
(* Types: those of TypeOK, row by row, with failures counted apart.        *)

Acceptances == [shop : Shops, overdue : BOOLEAN,
                status : {"pending", "accepted", "failed"}]
OfferSets == Offers("shop", {}) \cup Offers("client", {})
Recoveries == [n : Nat, fault : {"shop", "client"},
               status : {"none", "accepted", "refund_requested", "refunded"}
                        \cup Choosing,
               offer : OfferSets, current : BOOLEAN, topUp : BOOLEAN,
               refund : BOOLEAN]
Moves == [of : Nat, price : Prices \cup {Subtotal},
          status : {"none", "applied", "awaiting_payment",
                    "refund_requested"},
          cover : Nat, pays : Nat]
Changes == [status : OpenChanges \cup {"none", "applied", "declined",
                                       "closed"},
            shop : Shops, topUp : BOOLEAN, dated : BOOLEAN,
            stale : BOOLEAN, amount : Nat]
Rescheds == [status : {"none", "pending", "accepted", "declined", "expired",
                       "operations_required"},
             resolution : {"none", "rematch_offered", "no_match",
                           "operations_required", "rematched",
                           "refund_requested", "resolved"},
             shop : Shops, overdue : BOOLEAN,
             offer : {{}} \cup {{s} : s \in Shops}, refund : BOOLEAN]
Credits == [status : {"none", "reserved", "reconcile", "paid"}, amount : Nat]

TypedOrder ==
    /\ state \in States /\ wasReady \in BOOLEAN
    /\ shop \in Shops /\ declined \subseteq Shops /\ paid \in BOOLEAN

TypedMoney ==
    /\ released \subseteq StageCodes /\ deducted \subseteq Shops
    /\ adjustment \in Int /\ extras \in Nat

TypedRows ==
    /\ acceptance \in Acceptances /\ recovery \in Recoveries
    /\ move \in Moves /\ change \in Changes /\ resched \in Rescheds
    /\ refund \in {"none", "open", "approved", "paid"}
    /\ credit \in Credits /\ incidents \in 0..MaxIncidents

Typed == TypedOrder /\ TypedMoney /\ TypedRows

-----------------------------------------------------------------------------
(* The operators.                                                          *)

(* A share of an amount is an amount.                                      *)
LEMMA RoundBpsNat ==
    ASSUME NEW v \in Nat, NEW b \in Nat
    PROVE  RoundBps(v, b) \in Nat
<1> DEFINE p == v * b
<1>1. p \in Nat
  OBVIOUS
<1> HIDE DEF p
<1>2. (p + 5000) \div 10000 \in Nat
  BY <1>1
<1> QED
  BY <1>2 DEF RoundBps, p

(* The last stage takes the remainder, so three stages are the amount.     *)
LEMMA SpreadAddsUp ==
    ASSUME NEW a \in Nat
    PROVE  /\ \A c \in StageCodes : Spread(a)[c] \in Int
           /\ Spread(a)["production_started"] + Spread(a)["delivered"]
                + Spread(a)["issue_window"] = a
<1> DEFINE x == RoundBps(a, 4000)
           y == RoundBps(a, 3500)
<1>1. x \in Nat
  BY RoundBpsNat, 4000 \in Nat
<1>2. y \in Nat
  BY RoundBpsNat, 3500 \in Nat
<1>3. /\ Spread(a)["production_started"] = x
      /\ Spread(a)["delivered"] = y
      /\ Spread(a)["issue_window"] = a - x - y
  BY DEF Spread, StageCodes, ShareBps
<1> HIDE DEF x, y
<1> QED
  BY <1>1, <1>2, <1>3 DEF StageCodes

(* The shop is promised the committed price and what its move changed.     *)
LEMMA StagesAddUp ==
    ASSUME adjustment \in Int
    PROVE  StagesTotal = Subtotal + adjustment
<1>1. /\ Spread(Subtotal)["production_started"] \in Int
      /\ Spread(Subtotal)["delivered"] \in Int
      /\ Spread(Subtotal)["issue_window"] \in Int
      /\ Spread(Subtotal)["production_started"] + Spread(Subtotal)["delivered"]
           + Spread(Subtotal)["issue_window"] = Subtotal
  BY SpreadAddsUp DEF StageCodes
<1>2. CASE adjustment < 0
  <2> DEFINE d == -adjustment
  <2>1. d \in Nat /\ adjustment = -d
    BY <1>2
  <2> HIDE DEF d
  <2>2. /\ Spread(d)["production_started"] \in Int
        /\ Spread(d)["delivered"] \in Int
        /\ Spread(d)["issue_window"] \in Int
        /\ Spread(d)["production_started"] + Spread(d)["delivered"]
             + Spread(d)["issue_window"] = d
    BY <2>1, SpreadAddsUp DEF StageCodes
  <2>3. \A c \in StageCodes :
          StageAmount(c) = Spread(Subtotal)[c] + (-Spread(d)[c])
    BY <1>2 DEF StageAmount, d
  <2>4. /\ StageAmount("production_started")
             = Spread(Subtotal)["production_started"]
                 - Spread(d)["production_started"]
        /\ StageAmount("delivered")
             = Spread(Subtotal)["delivered"] - Spread(d)["delivered"]
        /\ StageAmount("issue_window")
             = Spread(Subtotal)["issue_window"] - Spread(d)["issue_window"]
    BY <1>1, <2>2, <2>3 DEF StageCodes
  <2> QED
    BY <1>1, <2>1, <2>2, <2>4 DEF StagesTotal
<1>3. CASE ~(adjustment < 0)
  <2>1. adjustment \in Nat
    BY <1>3
  <2>2. /\ Spread(adjustment)["production_started"] \in Int
        /\ Spread(adjustment)["delivered"] \in Int
        /\ Spread(adjustment)["issue_window"] \in Int
        /\ Spread(adjustment)["production_started"] + Spread(adjustment)["delivered"]
             + Spread(adjustment)["issue_window"] = adjustment
    BY <2>1, SpreadAddsUp DEF StageCodes
  <2>3. \A c \in StageCodes :
          StageAmount(c) = Spread(Subtotal)[c] + Spread(adjustment)[c]
    BY <1>3 DEF StageAmount
  <2> QED
    BY <1>1, <2>1, <2>2, <2>3 DEF StagesTotal, StageCodes
<1> QED
  BY <1>2, <1>3

(* What GRIDGO's fee covers of a dearer shop, and what is left to pay.     *)
LEMMA CoverAndPay ==
    ASSUME Typed, move.cover <= (IF paid THEN Fee ELSE 0),
           NEW p \in Prices \cup {Subtotal}
    PROVE  /\ p \in Nat /\ Cover(p) \in Nat /\ Pays(p) \in Nat
           /\ p <= Subtotal => Cover(p) = 0 /\ Pays(p) = 0
           /\ p > Subtotal => Pays(p) = p - Subtotal - Cover(p)
           /\ Cover(p) <= (IF paid THEN Fee ELSE 0)
<1>1. p \in Nat /\ Subtotal \in Nat /\ Fee \in Nat
  OBVIOUS
<1>2. RoundBps(Fee, CoverBps) \in Nat
  BY RoundBpsNat
<1>3. move.cover \in Nat /\ paid \in BOOLEAN
  BY DEF Typed, TypedRows, TypedOrder, Moves
<1>4. Cap \in Nat /\ Cap <= (IF paid THEN Fee ELSE 0)
  BY <1>1, <1>2, <1>3 DEF Cap
<1> QED
  BY <1>1, <1>4 DEF Cover, Pays

(* An offer is nobody's or one shop's, outside those it excludes.          *)
LEMMA OfferOf ==
    ASSUME NEW f \in {"shop", "client"}, NEW w, NEW offer \in Offers(f, w)
    PROVE  /\ offer \in OfferSets
           /\ \A o \in offer : o.shop \in Shops \ w
<1>1. offer \in OfferSets
  BY DEF Offers, OfferSets
<1>2. \A o \in offer : o.shop \in Shops \ w
  BY DEF Offers
<1> QED
  BY <1>1, <1>2

(* What is offered names a shop and a price.                               *)
LEMMA OffersTyped ==
    ASSUME NEW offer \in OfferSets, NEW o \in offer
    PROVE  o.shop \in Shops /\ o.price \in Prices \cup {Subtotal}
BY DEF OfferSets, Offers

-----------------------------------------------------------------------------
(* Type correctness.                                                       *)

(* The first state has the types.                                          *)
LEMMA TypedInit == Init => Typed
<1> SUFFICES ASSUME Init PROVE Typed
  OBVIOUS
<1>1. TypedOrder
  BY DEF Init, TypedOrder, States, CancellableShopStates
<1>2. TypedMoney
  BY DEF Init, TypedMoney
<1>3. {} \in OfferSets
  BY DEF OfferSets, Offers
<1>4. recovery \in Recoveries
  BY <1>3 DEF Init, NoRecovery, Recoveries
<1>5. acceptance \in Acceptances /\ move \in Moves /\ change \in Changes
  BY DEF Init, FreshAcceptance, Acceptances, NoMove, Moves, NoChange, Changes
<1>6. resched \in Rescheds
  BY DEF Init, NoResched, Rescheds
<1>7. credit \in Credits /\ refund = "none" /\ incidents \in 0..MaxIncidents
  BY DEF Init, Credits
<1> QED
  BY <1>1, <1>4, <1>5, <1>6, <1>7, <1>2 DEF Typed, TypedRows

(* A save leaves a change request a change request.                        *)
LEMMA SavedTyped ==
    ASSUME NEW c \in Changes, Save(c)
    PROVE  change' \in Changes
<1>1. [c EXCEPT !.status = "closed"] \in Changes
  BY DEF Changes
<1> QED
  BY <1>1 DEF Save, Closing

(* Rows with one field or two replaced.                                    *)
LEMMA ChangeWith ==
    ASSUME NEW c \in Changes,
           NEW st \in OpenChanges \cup {"none", "applied", "declined",
                                        "closed"}
    PROVE  /\ [c EXCEPT !.status = st] \in Changes
           /\ [c EXCEPT !.stale = TRUE] \in Changes
BY DEF Changes

(* A recovery with another status, offer, or flag is a recovery.           *)
LEMMA RecoveryWith ==
    ASSUME NEW r \in Recoveries,
           NEW st \in {"none", "accepted", "refund_requested", "refunded"}
                      \cup Choosing,
           NEW b \in BOOLEAN, NEW offer \in OfferSets
    PROVE  /\ [r EXCEPT !.status = st] \in Recoveries
           /\ [r EXCEPT !.status = st, !.refund = b] \in Recoveries
           /\ [r EXCEPT !.current = b] \in Recoveries
           /\ [r EXCEPT !.offer = offer, !.current = b] \in Recoveries
           /\ [r EXCEPT !.offer = offer, !.status = st] \in Recoveries
           /\ [r EXCEPT !.topUp = b, !.offer = offer, !.status = st]
                \in Recoveries
BY DEF Recoveries

(* A deadline case with another answer or way out is one.                  *)
LEMMA ReschedWith ==
    ASSUME NEW r \in Rescheds,
           NEW st \in {"none", "pending", "accepted", "declined", "expired",
                       "operations_required"},
           NEW re \in {"none", "rematch_offered", "no_match",
                       "operations_required", "rematched",
                       "refund_requested", "resolved"},
           NEW offer \in {{}} \cup {{x} : x \in Shops}, NEW b \in BOOLEAN
    PROVE  /\ [r EXCEPT !.status = st] \in Rescheds
           /\ [r EXCEPT !.overdue = b] \in Rescheds
           /\ [r EXCEPT !.status = st, !.resolution = re] \in Rescheds
           /\ [r EXCEPT !.resolution = re, !.status = st] \in Rescheds
           /\ [r EXCEPT !.offer = offer, !.resolution = re] \in Rescheds
           /\ [r EXCEPT !.resolution = re, !.offer = offer] \in Rescheds
           /\ [r EXCEPT !.refund = b, !.resolution = re] \in Rescheds
<1>1. /\ [r EXCEPT !.status = st] \in Rescheds
      /\ [r EXCEPT !.overdue = b] \in Rescheds
  BY DEF Rescheds
<1>2. [r EXCEPT !.status = st, !.resolution = re] \in Rescheds
  BY DEF Rescheds
<1>3. [r EXCEPT !.resolution = re, !.status = st] \in Rescheds
  BY DEF Rescheds
<1>4. [r EXCEPT !.offer = offer, !.resolution = re] \in Rescheds
  BY DEF Rescheds
<1>5. [r EXCEPT !.resolution = re, !.offer = offer] \in Rescheds
  BY DEF Rescheds
<1>6. [r EXCEPT !.refund = b, !.resolution = re] \in Rescheds
  BY DEF Rescheds
<1> QED
  BY <1>1, <1>2, <1>3, <1>4, <1>5, <1>6

(* A failure is a recovery, and its shop is asked no more.                 *)
LEMMA FailureTyped ==
    ASSUME Typed, NEW kind, RecordShopFailure(kind)
    PROVE  /\ declined' \subseteq Shops
           /\ acceptance' \in Acceptances /\ recovery' \in Recoveries
<1>1. shop \in Shops /\ declined \subseteq Shops
  BY DEF Typed, TypedOrder
<1>2. acceptance \in Acceptances /\ recovery.n \in Nat
  BY DEF Typed, TypedRows, Recoveries
<1>3. declined' \subseteq Shops
  BY <1>1 DEF RecordShopFailure
<1>4. acceptance' \in Acceptances
  BY <1>2 DEF RecordShopFailure, Acceptances
<1> DEFINE fault == IF kind = "client" THEN "client" ELSE "shop"
<1>5. fault \in {"shop", "client"}
  OBVIOUS
<1>6. PICK offer \in IF RequiresOps THEN {{}}
                     ELSE Offers(fault, declined \cup {shop}) :
        recovery' = [n |-> recovery.n + 1, fault |-> fault,
                     status |-> IF RequiresOps THEN "ops_review"
                                ELSE "awaiting_client",
                     offer |-> offer, current |-> TRUE,
                     topUp |-> FALSE, refund |-> FALSE]
  BY DEF RecordShopFailure
<1> HIDE DEF fault
<1>7. offer \in OfferSets
  <2>1. {} \in OfferSets
    BY DEF OfferSets, Offers
  <2> QED
    BY <1>5, <2>1, OfferOf
<1>8. recovery' \in Recoveries
  BY <1>2, <1>5, <1>6, <1>7 DEF Recoveries, Choosing
<1> QED
  BY <1>3, <1>4, <1>8

(* Where a job may go.                                                     *)
LEMMA NextStatesAreStates ==
    \A s \in States : NextStates[s] \subseteq States
BY DEF NextStates, States, CancellableShopStates

(* The steps of the job.                                                   *)
LEMMA TypedJob == Typed /\ JobNext => Typed'
<1> SUFFICES ASSUME Typed, JobNext PROVE Typed'
  OBVIOUS
<1> USE DEF Typed
<1>1. change \in Changes /\ acceptance \in Acceptances
  BY DEF TypedRows
<1>2. CASE AcceptanceLapses
  <2>1. [acceptance EXCEPT !.overdue = TRUE] \in Acceptances
    BY <1>1 DEF Acceptances
  <2> QED
    BY <1>2, <2>1 DEF AcceptanceLapses, TypedOrder, TypedMoney, TypedRows,
       order, money, terms, refunding
<1>3. ASSUME NEW kind \in {"declined", "cancelled", "late", "gridgo",
                           "client"}, ShopFails(kind)
      PROVE  Typed'
  <2>1. /\ declined' \subseteq Shops
        /\ acceptance' \in Acceptances /\ recovery' \in Recoveries
    BY <1>3, FailureTyped DEF ShopFails
  <2>2. change' \in Changes
    BY <1>1, <1>3, SavedTyped DEF ShopFails
  <2> QED
    BY <1>3, <2>1, <2>2 DEF ShopFails, Incident, TypedOrder, TypedMoney,
       TypedRows, money, refunding
<1>4. CASE ExpireAcceptance
  <2>1. /\ declined' \subseteq Shops
        /\ acceptance' \in Acceptances /\ recovery' \in Recoveries
    BY <1>4, FailureTyped DEF ExpireAcceptance
  <2>2. change' \in Changes
    BY <1>1, <1>4, SavedTyped DEF ExpireAcceptance
  <2> QED
    BY <1>4, <2>1, <2>2 DEF ExpireAcceptance, TypedOrder, TypedMoney,
       TypedRows, money, refunding
<1>5. CASE AcceptJob
  <2>1. change' \in Changes
    BY <1>1, <1>5, SavedTyped DEF AcceptJob
  <2>2. CASE acceptance.overdue
    <3>1. /\ declined' \subseteq Shops
          /\ acceptance' \in Acceptances /\ recovery' \in Recoveries
      BY <1>5, <2>2, FailureTyped DEF AcceptJob
    <3> QED
      BY <1>5, <2>1, <2>2, <3>1 DEF AcceptJob, TypedOrder, TypedMoney,
         TypedRows, money, refunding
  <2>3. CASE ~acceptance.overdue
    <3>1. [acceptance EXCEPT !.status = "accepted"] \in Acceptances
      BY <1>1 DEF Acceptances
    <3> QED
      BY <1>5, <2>1, <2>3, <3>1 DEF AcceptJob, TypedOrder, TypedMoney,
         TypedRows, money, refunding, States, CancellableShopStates
  <2> QED
    BY <2>2, <2>3
<1>6. CASE Advance
  <2>1. change' \in Changes
    BY <1>1, <1>6, SavedTyped DEF Advance
  <2>2. state' \in States /\ wasReady' \in BOOLEAN
    BY <1>6, NextStatesAreStates DEF Advance, TypedOrder
  <2> QED
    BY <1>6, <2>1, <2>2 DEF Advance, TypedOrder, TypedMoney, TypedRows,
       money, refunding
<1>7. CASE CancelOrder
  <2>1. change' \in Changes
    BY <1>1, <1>7, SavedTyped DEF CancelOrder
  <2> QED
    BY <1>7, <2>1 DEF CancelOrder, TypedOrder, TypedMoney, TypedRows,
       money, refunding, States
<1>8. CASE Deduct
  <2>1. change' \in Changes
    BY <1>1, <1>8, SavedTyped DEF Deduct
  <2> QED
    BY <1>8, <2>1 DEF Deduct, TypedOrder, TypedMoney, TypedRows, order,
       refunding
<1>9. ASSUME NEW c \in StageCodes, Release(c)
      PROVE  Typed'
  <2>1. change' \in Changes
    BY <1>1, <1>9, SavedTyped DEF Release
  <2> QED
    BY <1>9, <2>1 DEF Release, TypedOrder, TypedMoney, TypedRows, order,
       refunding
<1> QED
  BY <1>2, <1>3, <1>4, <1>5, <1>6, <1>7, <1>8, <1>9 DEF JobNext

(* GRIDGO's cover stays within its collected fee.                          *)
CoverHeld == move.cover <= (IF paid THEN Fee ELSE 0)

(* What an accepted offer makes of the rows.                               *)
LEMMA SubstituteTyped ==
    ASSUME Typed, CoverHeld, AcceptSubstitute
    PROVE  Typed'
<1>1. PICK offer \in recovery.offer :
       LET pays == Pays(offer.price)
           cover == Cover(offer.price)
           row == TopUp(offer.shop, pays)
       IN /\ state' = "supplier_assigned"
          /\ shop' = offer.shop
          /\ adjustment' = IF offer.price < Subtotal
                           THEN offer.price - Subtotal ELSE cover
          /\ move' = [of |-> recovery.n, price |-> offer.price,
                      cover |-> cover, pays |-> pays,
                      status |-> IF pays > 0 THEN "awaiting_payment"
                                 ELSE "applied"]
          /\ credit' = CreditFor(offer.price)
          /\ IF pays > 0
             THEN /\ recovery' = [recovery EXCEPT !.topUp = TRUE, !.offer = {},
                                            !.status = "awaiting_payment"]
                  /\ UNCHANGED acceptance
             ELSE /\ recovery' = [recovery EXCEPT !.offer = {},
                                            !.status = "accepted"]
                  /\ acceptance' = FreshAcceptance(offer.shop)
          /\ UNCHANGED <<wasReady, declined, paid, released, extras, deducted,
                         incidents, resched, refund>>
          /\ Save(IF pays > 0 THEN row ELSE [change EXCEPT !.stale = TRUE])
  BY DEF AcceptSubstitute
<1>2. /\ recovery \in Recoveries /\ acceptance \in Acceptances
      /\ change \in Changes /\ credit \in Credits
  BY DEF Typed, TypedRows
<1>3. recovery.offer \in OfferSets /\ recovery.n \in Nat
  BY <1>2 DEF Recoveries
<1>4. offer.shop \in Shops /\ offer.price \in Prices \cup {Subtotal}
  BY <1>3, OffersTyped
<1>5. /\ offer.price \in Nat /\ Cover(offer.price) \in Nat
      /\ Pays(offer.price) \in Nat
  BY <1>4, CoverAndPay DEF CoverHeld
<1> DEFINE price == offer.price
           pays == Pays(price)
           cover == Cover(price)
<1>6. credit' \in Credits
  <2>1. credit' = CreditFor(price)
    BY <1>1
  <2>2. price < Subtotal => Subtotal - price \in Nat
    BY <1>5
  <2> QED
    BY <1>2, <1>5, <2>1, <2>2 DEF CreditFor, Credits
<1>7. move' \in Moves
  <2>1. move' = [of |-> recovery.n, price |-> price, cover |-> cover,
                 pays |-> pays,
                 status |-> IF pays > 0 THEN "awaiting_payment" ELSE "applied"]
    BY <1>1
  <2> HIDE DEF pays, cover, price
  <2>2. price \in Prices \cup {Subtotal} /\ cover \in Nat /\ pays \in Nat
    BY <1>4, <1>5 DEF pays, cover, price
  <2> QED
    BY <1>3, <2>1, <2>2 DEF Moves
<1>8. adjustment' \in Int
  BY <1>1, <1>5
<1>9. change' \in Changes
  <2>1. [change EXCEPT !.stale = TRUE] \in Changes
    BY <1>2 DEF Changes
  <2>2. TopUp(offer.shop, pays) \in Changes
    BY <1>4, <1>5 DEF TopUp, Changes, OpenChanges
  <2> QED
    BY <1>1, <2>1, <2>2, SavedTyped
<1>10. recovery' \in Recoveries /\ acceptance' \in Acceptances
  <2>1. {} \in OfferSets
    BY DEF OfferSets, Offers
  <2>2. /\ [recovery EXCEPT !.topUp = TRUE, !.offer = {},
                           !.status = "awaiting_payment"] \in Recoveries
        /\ [recovery EXCEPT !.offer = {}, !.status = "accepted"] \in Recoveries
    BY <1>2, <2>1, RecoveryWith DEF Choosing
  <2>3. FreshAcceptance(offer.shop) \in Acceptances
    BY <1>4 DEF FreshAcceptance, Acceptances
  <2> QED
    BY <1>1, <1>2, <2>2, <2>3
<1>11. /\ UNCHANGED <<wasReady, declined, paid, released, extras, deducted,
                      incidents, resched, refund>>
       /\ state' = "supplier_assigned" /\ shop' = offer.shop
  BY <1>1
<1>12. TypedOrder' /\ TypedMoney'
  <2>1. TypedOrder'
    BY <1>4, <1>11 DEF Typed, TypedOrder, States, CancellableShopStates
  <2>2. TypedMoney'
    BY <1>8, <1>11 DEF Typed, TypedMoney
  <2> QED
    BY <2>1, <2>2
<1>13. TypedRows'
  BY <1>6, <1>7, <1>9, <1>10, <1>11 DEF Typed, TypedRows
<1> QED
  BY <1>12, <1>13 DEF Typed

(* What filing a refund makes of them.                                     *)
LEMMA ChosenTyped ==
    ASSUME Typed, NEW b \in BOOLEAN, RefundChosen(b)
    PROVE  recovery' \in Recoveries /\ move' \in Moves
<1>1. recovery \in Recoveries /\ move \in Moves
  BY DEF Typed, TypedRows
<1>2. [move EXCEPT !.status = "refund_requested"] \in Moves
  BY <1>1 DEF Moves
<1>3. recovery.offer \in OfferSets
  BY <1>1 DEF Recoveries
<1>4. [recovery EXCEPT !.status = "refund_requested", !.refund = b]
        \in Recoveries
  BY <1>1, <1>3, RecoveryWith
<1> QED
  BY <1>1, <1>2, <1>4 DEF RefundChosen

(* A filed refund chooses, closes and saves rows of their types.           *)
LEMMA FiledTyped ==
    ASSUME Typed, FileRefund, resched' \in Rescheds
    PROVE  Typed'
<1>1. recovery' \in Recoveries /\ move' \in Moves
  BY ChosenTyped DEF FileRefund
<1>2. change' \in Changes
  BY SavedTyped DEF FileRefund, Typed, TypedRows
<1> QED
  BY <1>1, <1>2 DEF FileRefund, Incident, Typed, TypedOrder, TypedMoney,
     TypedRows, order, money

(* The steps of a recovery and of refunds.                                 *)
LEMMA TypedRecovery == Typed /\ CoverHeld /\ RecoveryNext => Typed'
<1> SUFFICES ASSUME Typed, CoverHeld, RecoveryNext PROVE Typed'
  OBVIOUS
<1> USE DEF Typed
<1>1. /\ change \in Changes /\ acceptance \in Acceptances
      /\ recovery \in Recoveries /\ move \in Moves /\ credit \in Credits
  BY DEF TypedRows
<1>2. recovery.offer \in OfferSets /\ recovery.fault \in {"shop", "client"}
  BY <1>1 DEF Recoveries
<1>3. CASE OfferLapses
  <2>1. recovery' \in Recoveries
    BY <1>1, <1>2, <1>3, RecoveryWith DEF OfferLapses
  <2> QED
    BY <1>3, <2>1 DEF OfferLapses, TypedOrder, TypedMoney, TypedRows,
       order, money, terms, refunding
<1>4. CASE RefreshOffer
  <2>1. change' \in Changes
    BY <1>1, <1>4, SavedTyped DEF RefreshOffer
  <2>2. PICK offer \in Offers(recovery.fault, declined \cup {shop}) :
          recovery' = [recovery EXCEPT !.offer = offer, !.current = TRUE]
    BY <1>4 DEF RefreshOffer
  <2>3. offer \in OfferSets
    BY <1>2, <2>2, OfferOf
  <2>4. recovery' \in Recoveries
    BY <1>1, <2>2, <2>3, RecoveryWith
  <2> QED
    BY <1>4, <2>1, <2>4 DEF RefreshOffer, TypedOrder, TypedMoney, TypedRows,
       order, money, refunding
<1>5. CASE AcceptSubstitute
  BY <1>5, SubstituteTyped
<1>6. CASE RequestRefund
  BY <1>6, FiledTyped DEF RequestRefund, TypedRows
<1>7. CASE RefundUncollected
  <2>1. recovery' \in Recoveries /\ move' \in Moves
    BY <1>7, ChosenTyped DEF RefundUncollected
  <2>2. change' \in Changes
    BY <1>1, <1>7, SavedTyped DEF RefundUncollected
  <2> QED
    BY <1>7, <2>1, <2>2 DEF RefundUncollected, TypedOrder, TypedMoney,
       TypedRows, money, refunding, States
<1>8. CASE WithdrawRefund
  <2>1. change' \in Changes
    BY <1>1, <1>8, SavedTyped DEF WithdrawRefund
  <2>2. recovery' \in Recoveries /\ move' \in Moves
    <3>1. [move EXCEPT !.status = "awaiting_payment"] \in Moves
      BY <1>1 DEF Moves
    <3>2. /\ [recovery EXCEPT !.status = "awaiting_payment",
                             !.refund = FALSE] \in Recoveries
          /\ [recovery EXCEPT !.status = "awaiting_client",
                             !.refund = FALSE] \in Recoveries
      BY <1>1, <1>2, RecoveryWith DEF Choosing
    <3> QED
      BY <1>1, <1>8, <3>1, <3>2 DEF WithdrawRefund, Restored
  <2> QED
    BY <1>8, <2>1, <2>2 DEF WithdrawRefund, TypedOrder, TypedMoney,
       TypedRows, order, money
<1>9. CASE RejectRefund
  <2>1. change' \in Changes
    BY <1>1, <1>9, SavedTyped DEF RejectRefund
  <2>2. recovery' \in Recoveries
    <3>1. [recovery EXCEPT !.status = "ops_review", !.refund = FALSE]
            \in Recoveries
      BY <1>1, <1>2, RecoveryWith DEF Choosing
    <3> QED
      BY <1>1, <1>9, <3>1 DEF RejectRefund
  <2> QED
    BY <1>9, <2>1, <2>2 DEF RejectRefund, TypedOrder, TypedMoney, TypedRows,
       order, money
<1>10. CASE SettleRefund
  <2>1. change' \in Changes
    BY <1>1, <1>10, SavedTyped DEF SettleRefund
  <2> QED
    BY <1>10, <2>1 DEF SettleRefund, TypedOrder, TypedMoney, TypedRows,
       money, States
<1>11. CASE PayRefund
  <2>1. change' \in Changes
    BY <1>1, <1>11, SavedTyped DEF PayRefund
  <2>2. recovery' \in Recoveries
    <3>1. [recovery EXCEPT !.status = "refunded"] \in Recoveries
      BY <1>1, <1>2, RecoveryWith
    <3> QED
      BY <1>1, <1>11, <3>1 DEF PayRefund
  <2> QED
    BY <1>11, <2>1, <2>2 DEF PayRefund, TypedOrder, TypedMoney, TypedRows,
       order, money
<1>12. CASE PayCredit
  <2>1. change' \in Changes
    BY <1>1, <1>12, SavedTyped DEF PayCredit
  <2>2. credit' \in Credits
    BY <1>1, <1>12 DEF PayCredit, Credits
  <2> QED
    BY <1>12, <2>1, <2>2 DEF PayCredit, TypedOrder, TypedMoney, TypedRows,
       order, money
<1> QED
  BY <1>3, <1>4, <1>5, <1>6, <1>7, <1>8, <1>9, <1>10, <1>11, <1>12
     DEF RecoveryNext

(* A submission, an answer or a decision about a change request.           *)
LEMMA TypedChange == Typed /\ ChangeNext => Typed'
<1> SUFFICES ASSUME Typed, ChangeNext PROVE Typed'
  OBVIOUS
<1> USE DEF Typed
<1>1. /\ change \in Changes /\ acceptance \in Acceptances
      /\ recovery \in Recoveries /\ move \in Moves
  BY DEF TypedRows
<1>2. change.amount \in Nat /\ recovery.offer \in OfferSets
  BY <1>1 DEF Changes, Recoveries
<1>3. ASSUME NEW amount \in {0, Extra}, NEW dated \in BOOLEAN,
             CreateChange(amount, dated)
      PROVE  Typed'
  <2>1. amount \in Nat /\ shop \in Shops
    BY DEF TypedOrder
  <2>2. [status |-> "pending", shop |-> shop, topUp |-> FALSE,
         dated |-> dated, stale |-> FALSE, amount |-> amount] \in Changes
    BY <2>1 DEF Changes, OpenChanges
  <2>3. change' \in Changes
    BY <1>3, <2>2, SavedTyped DEF CreateChange
  <2> QED
    BY <1>3, <2>3 DEF CreateChange, Incident, kept, TypedOrder, TypedMoney,
       TypedRows, order, refunding
<1>4. CASE DeclineChange
  <2>1. change' \in Changes
    BY <1>1, <1>4, SavedTyped, ChangeWith DEF DeclineChange
  <2> QED
    BY <1>4, <2>1 DEF DeclineChange, kept, TypedOrder, TypedMoney,
       TypedRows, order, refunding
<1>5. CASE AgreeToChange
  <2>1. [change EXCEPT !.status = IF change.amount = 0 THEN "applied"
                                  ELSE "pending_payment"] \in Changes
    BY <1>1, ChangeWith DEF OpenChanges
  <2>2. change' \in Changes
    BY <1>5, <2>1, SavedTyped DEF AgreeToChange
  <2> QED
    BY <1>5, <2>2 DEF AgreeToChange, kept, TypedOrder, TypedMoney,
       TypedRows, order, refunding
<1>6. CASE SubmitTransfer
  <2>1. change' \in Changes
    BY <1>1, <1>6, SavedTyped, ChangeWith DEF SubmitTransfer, OpenChanges
  <2> QED
    BY <1>6, <2>1 DEF SubmitTransfer, kept, TypedOrder, TypedMoney,
       TypedRows, order, refunding
<1>7. CASE RejectTransfer
  <2>1. change' \in Changes
    BY <1>1, <1>7, SavedTyped, ChangeWith DEF RejectTransfer, OpenChanges
  <2> QED
    BY <1>7, <2>1 DEF RejectTransfer, kept, TypedOrder, TypedMoney,
       TypedRows, order, refunding
<1>8. CASE ConfirmTransfer
  <2>1. change' \in Changes
    BY <1>1, <1>8, SavedTyped, ChangeWith DEF ConfirmTransfer
  <2>2. /\ recovery' \in Recoveries /\ move' \in Moves
        /\ acceptance' \in Acceptances
    <3>1. [move EXCEPT !.status = "applied"] \in Moves
      BY <1>1 DEF Moves
    <3>2. [recovery EXCEPT !.status = "accepted"] \in Recoveries
      BY <1>1, <1>2, RecoveryWith
    <3>3. FreshAcceptance(shop) \in Acceptances
      BY DEF FreshAcceptance, Acceptances, TypedOrder
    <3> QED
      BY <1>1, <1>8, <3>1, <3>2, <3>3 DEF ConfirmTransfer
  <2>3. extras' \in Nat
    BY <1>2, <1>8 DEF ConfirmTransfer, TypedMoney
  <2> QED
    BY <1>8, <2>1, <2>2, <2>3 DEF ConfirmTransfer, TypedOrder, TypedMoney,
       TypedRows, order, refunding
<1> QED
  BY <1>3, <1>4, <1>5, <1>6, <1>7, <1>8 DEF ChangeNext

(* The steps of a later deadline.                                          *)
LEMMA TypedDeadline == Typed /\ DeadlineNext => Typed'
<1> SUFFICES ASSUME Typed, DeadlineNext PROVE Typed'
  OBVIOUS
<1> USE DEF Typed
<1>1. change \in Changes /\ resched \in Rescheds /\ shop \in Shops
  BY DEF TypedRows, TypedOrder
<1>2. /\ [change EXCEPT !.stale = TRUE] \in Changes
      /\ {} \in {{}} \cup {{x} : x \in Shops}
  BY <1>1, ChangeWith
<1>3. ASSUME UNCHANGED others, resched' \in Rescheds, change' \in Changes
      PROVE  Typed'
  BY <1>3 DEF others, TypedOrder, TypedMoney, TypedRows, order, money,
     refunding
<1>4. \A offer \in Replacements : offer \in {{}} \cup {{x} : x \in Shops}
  BY DEF Replacements
<1>5. \A r \in Rescheds, offer \in Replacements :
        Offered(r, offer) \in Rescheds
  BY <1>4, ReschedWith DEF Offered
<1>6. CASE RequestDeadline
  <2>1. resched' \in Rescheds
    BY <1>1, <1>6 DEF RequestDeadline, NoResched, Rescheds
  <2> QED
    BY <1>1, <1>3, <1>6, <2>1, SavedTyped DEF RequestDeadline
<1>7. CASE DeadlineLapses
  <2>1. resched' \in Rescheds
    BY <1>1, <1>2, <1>7, ReschedWith DEF DeadlineLapses
  <2> QED
    BY <1>1, <1>3, <1>7, <2>1 DEF DeadlineLapses
<1>8. CASE ExpireDeadline
  <2>1. resched' \in Rescheds
    BY <1>1, <1>2, <1>8, ReschedWith DEF ExpireDeadline
  <2> QED
    BY <1>1, <1>3, <1>8, <2>1, SavedTyped DEF ExpireDeadline
<1>9. CASE AcceptDeadline
  <2>1. resched' \in Rescheds
    <3>1. /\ [resched EXCEPT !.status = "accepted"] \in Rescheds
          /\ [resched EXCEPT !.status = "operations_required",
                             !.resolution = "operations_required"] \in Rescheds
      BY <1>1 DEF Rescheds
    <3> QED
      BY <1>9, <3>1 DEF AcceptDeadline
  <2> QED
    BY <1>1, <1>2, <1>3, <1>9, <2>1, SavedTyped DEF AcceptDeadline
<1>10. CASE DeclineDeadline
  <2> DEFINE answered == [resched EXCEPT !.status = "declined"]
  <2>1. /\ answered \in Rescheds
        /\ [answered EXCEPT !.resolution = "operations_required"] \in Rescheds
    BY <1>1 DEF Rescheds
  <2> HIDE DEF answered
  <2>2. \/ resched' = [answered EXCEPT !.resolution = "operations_required"]
        \/ \E offer \in Replacements : resched' = Offered(answered, offer)
    BY <1>10 DEF DeclineDeadline, answered
  <2>3. resched' \in Rescheds
    BY <1>5, <2>1, <2>2
  <2> QED
    BY <1>1, <1>3, <1>10, <2>3, SavedTyped DEF DeclineDeadline
<1>11. CASE RefreshRematch
  <2>1. resched' \in Rescheds
    BY <1>1, <1>5, <1>11 DEF RefreshRematch
  <2> QED
    BY <1>1, <1>3, <1>11, <2>1, SavedTyped DEF RefreshRematch
<1>12. CASE AcceptRematch
  <2>1. resched' \in Rescheds
    BY <1>1, <1>2, <1>12, ReschedWith DEF AcceptRematch
  <2>2. PICK s \in resched.offer : shop' = s /\ acceptance' = FreshAcceptance(s)
    BY <1>12 DEF AcceptRematch
  <2>3. s \in Shops
    BY <1>1, <2>2 DEF Rescheds
  <2>4. acceptance' \in Acceptances
    BY <2>2, <2>3 DEF FreshAcceptance, Acceptances
  <2>5. change' \in Changes
    BY <1>2, <1>12, SavedTyped DEF AcceptRematch
  <2>6. TypedOrder'
    BY <1>1, <1>12, <2>2, <2>3 DEF AcceptRematch, TypedOrder, States,
       CancellableShopStates
  <2>7. TypedMoney' /\ TypedRows'
    BY <1>12, <2>1, <2>4, <2>5 DEF AcceptRematch, TypedMoney, TypedRows,
       money, refunding
  <2> QED
    BY <2>6, <2>7
<1>13. CASE RefundDeadline
  <2>1. resched' \in Rescheds
    BY <1>1, <1>2, <1>13, ReschedWith DEF RefundDeadline
  <2> QED
    BY <1>13, <2>1, FiledTyped DEF RefundDeadline
<1>14. CASE ResolveDeadline
  <2>1. resched.status \in {"none", "pending", "accepted", "declined",
                            "expired", "operations_required"}
    BY <1>1 DEF Rescheds
  <2>2. resched' = [resched EXCEPT !.resolution = "resolved",
           !.status = IF resched.status = "pending" THEN "operations_required"
                      ELSE resched.status]
    BY <1>14 DEF ResolveDeadline
  <2> DEFINE st == IF resched.status = "pending" THEN "operations_required"
                   ELSE resched.status
  <2>3. st \in {"none", "pending", "accepted", "declined", "expired",
                "operations_required"}
    BY <2>1
  <2> HIDE DEF st
  <2>4. resched' = [resched EXCEPT !.resolution = "resolved", !.status = st]
    BY <2>2 DEF st
  <2>5. resched' \in Rescheds
    BY <1>1, <2>3, <2>4 DEF Rescheds
  <2> QED
    BY <1>1, <1>3, <1>14, <2>5, SavedTyped DEF ResolveDeadline
<1> QED
  BY <1>6, <1>7, <1>8, <1>9, <1>10, <1>11, <1>12, <1>13, <1>14
     DEF DeadlineNext

(* Every step keeps the types, given that a cover is held.                 *)
LEMMA TypedStep == Typed /\ CoverHeld /\ [Next]_vars => Typed'
<1> SUFFICES ASSUME Typed, CoverHeld, [Next]_vars PROVE Typed'
  OBVIOUS
<1>1. CASE Next
  BY <1>1, TypedJob, TypedRecovery, TypedChange, TypedDeadline DEF Next
<1>2. CASE UNCHANGED vars
  BY <1>2 DEF vars, order, money, terms, refunding, Typed, TypedOrder,
     TypedMoney, TypedRows
<1> QED
  BY <1>1, <1>2

-----------------------------------------------------------------------------
(* The change request: what is open is for the order as it stands.         *)

OpenChange == change.status \in OpenChanges

(* An open change has the order's shop, its window, and the recovery that  *)
(* waits for it, if one holds the order.                                   *)
Followed ==
    OpenChange =>
        /\ change.shop = shop
        /\ WindowOpen(state, wasReady)
        /\ RecoveryHeld => AwaitedTopUp(change, recovery, shop,
                             {"awaiting_payment", "refund_requested"})
        /\ RecoveryHeld /\ ChangePaymentPending =>
             recovery.status = "awaiting_payment"

(* Dates move only while no dated change is open: a later deadline is not  *)
(* asked for beside one, nor is one made while a deadline is asked for.    *)
DatesStand ==
    OpenChange /\ change.dated => ~change.stale /\ resched.status # "pending"

(* An open top-up asks for what the last move left to the client.          *)
TopUpIsTheMove == OpenChange /\ change.topUp => change.amount = move.pays

(* A shop a recovery offers never had the job, and is not asked for it     *)
(* once the price was changed by a move.                                   *)
Waiting == {"awaiting_client", "ops_review", "refund_requested", "refunded"}

OfferStands ==
    recovery.offer # {} =>
        /\ recovery.status \in Waiting /\ ~recovery.topUp
        /\ move.price = Subtotal
        /\ \A o \in recovery.offer : o.shop \notin declined \cup {shop}

(* What a handler leaves of the row before it saves.                       *)
SameRow(c) ==
    \/ c = change
    \/ /\ c = [change EXCEPT !.stale = TRUE]
       /\ shop' # shop \/ resched.status = "pending"
    \/ \E st \in OpenChanges \cup {"none", "applied", "declined", "closed"} :
          /\ c = [change EXCEPT !.status = st]
          /\ OpenChange
          /\ ChangePaymentPending \/ change.shop = shop
          /\ st = "pending_confirmation" => ~RefundStop /\ UNCHANGED refund
NewRow(c) ==
    /\ c.status = "pending" /\ c.shop = shop
    /\ ~c.topUp /\ ~c.stale /\ resched.status # "pending"
    /\ UNCHANGED resched
TopUpRow(c) == c = TopUp(shop', move'.pays)

(* The flags of time touch nothing a change depends on.                    *)
Still ==
    /\ UNCHANGED <<state, wasReady, shop, move, change>>
    /\ recovery'.status = recovery.status /\ recovery'.topUp = recovery.topUp
    /\ resched'.status = resched.status

(* A save keeps an open row or closes it, and what it keeps fits.          *)
LEMMA SavedFollows ==
    ASSUME NEW c \in Changes, Save(c),
           c.status = "pending_confirmation" => c.shop = shop
    PROVE  /\ Followed'
           /\ change'.status \in OpenChanges => change' = c
<1> SUFFICES ASSUME change'.status \in OpenChanges
             PROVE  Followed' /\ change' = c
  BY DEF Followed, OpenChange
<1>1. ~Unavailable(c) /\ change' = c
  <2>1. [c EXCEPT !.status = "closed"].status = "closed"
    BY DEF Changes
  <2>2. "closed" \notin OpenChanges
    BY DEF OpenChanges
  <2> QED
    BY <2>1, <2>2 DEF Save, Closing
<1>2. CASE c.status = "pending_confirmation"
  <2>1. /\ WindowOpen(state', wasReady')
        /\ shop' = shop
        /\ Held(recovery') =>
              AwaitedTopUp(c, recovery', shop', {"awaiting_payment"})
    BY <1>2 DEF Save
  <2> QED
    BY <1>1, <1>2, <2>1 DEF Followed, AwaitedTopUp, RecoveryHeld
<1>3. CASE c.status \in {"pending", "pending_payment"}
  <2>1. /\ WindowOpen(state', wasReady')
        /\ \/ c.shop = shop' /\ ~Held(recovery')
           \/ AwaitedTopUp(c, recovery', shop',
                           {"awaiting_payment", "refund_requested"})
    BY <1>1, <1>3 DEF Unavailable
  <2>2. c.status # "pending_confirmation"
    BY <1>3
  <2> QED
    BY <1>1, <2>1, <2>2 DEF Followed, AwaitedTopUp, RecoveryHeld,
       ChangePaymentPending
<1> QED
  BY <1>1, <1>2, <1>3 DEF OpenChanges

(* Each step saves a row of one of these kinds, or is a flag of time.      *)
LEMMA JobSaves == JobNext => Still \/ Save(change)
<1> SUFFICES ASSUME JobNext PROVE Still \/ Save(change)
  OBVIOUS
<1>1. CASE AcceptanceLapses
  BY <1>1 DEF AcceptanceLapses, Still, order, terms
<1>2. CASE ~AcceptanceLapses
  BY <1>2 DEF JobNext, ShopFails, ExpireAcceptance, AcceptJob, Advance,
     CancelOrder, Deduct, Release
<1> QED
  BY <1>1, <1>2

(* A recovery leaves the change request its row, or asks for a top-up.     *)
LEMMA RecoverySaves ==
    ASSUME Typed, Typed', OfferStands, RecoveryNext
    PROVE  Still \/ \E c \in Changes : Save(c) /\ (SameRow(c) \/ TopUpRow(c))
<1>1. /\ change \in Changes /\ [change EXCEPT !.stale = TRUE] \in Changes
      /\ TopUp(shop', move'.pays) \in Changes
  <2>1. change \in Changes /\ shop' \in Shops /\ move'.pays \in Nat
    BY DEF Typed, TypedRows, TypedOrder, Moves
  <2> QED
    BY <2>1, ChangeWith DEF TopUp, Changes, OpenChanges
<1>2. CASE OfferLapses
  <2>1. recovery \in Recoveries
    BY DEF Typed, TypedRows
  <2> QED
    BY <1>2, <2>1 DEF OfferLapses, Still, order, terms, Recoveries
<1>3. CASE AcceptSubstitute
  <2>1. PICK offer \in recovery.offer :
          /\ shop' = offer.shop
          /\ move' = [of |-> recovery.n, price |-> offer.price,
                      cover |-> Cover(offer.price), pays |-> Pays(offer.price),
                      status |-> IF Pays(offer.price) > 0
                                 THEN "awaiting_payment" ELSE "applied"]
          /\ Save(IF Pays(offer.price) > 0
                  THEN TopUp(offer.shop, Pays(offer.price))
                  ELSE [change EXCEPT !.stale = TRUE])
    BY <1>3 DEF AcceptSubstitute
  <2>2. shop' # shop
    BY <2>1 DEF OfferStands
  <2>3. TopUp(offer.shop, Pays(offer.price)) = TopUp(shop', move'.pays)
    BY <2>1
  <2>4. CASE Pays(offer.price) > 0
    BY <1>1, <2>1, <2>3, <2>4 DEF TopUpRow
  <2>5. CASE ~(Pays(offer.price) > 0)
    BY <1>1, <2>1, <2>2, <2>5 DEF SameRow
  <2> QED
    BY <2>4, <2>5
<1>4. CASE ~OfferLapses /\ ~AcceptSubstitute
  <2>1. Save(change)
    BY <1>4 DEF RecoveryNext, RefreshOffer, RequestRefund, FileRefund,
       RefundUncollected, WithdrawRefund, RejectRefund, SettleRefund,
       PayRefund, PayCredit
  <2> QED
    BY <1>1, <2>1 DEF SameRow
<1> QED
  BY <1>2, <1>3, <1>4

(* What is asked, answered or paid keeps its row, or opens a new one.      *)
LEMMA ChangeSaves ==
    ASSUME Typed, ChangeNext
    PROVE  \E c \in Changes : Save(c) /\ (SameRow(c) \/ NewRow(c))
<1>1. change \in Changes /\ shop \in Shops
  BY DEF Typed, TypedRows, TypedOrder
<1>2. CASE \E amount \in {0, Extra}, dated \in BOOLEAN :
              CreateChange(amount, dated)
  <2>1. PICK amount \in {0, Extra}, dated \in BOOLEAN :
               CreateChange(amount, dated)
    BY <1>2
  <2> DEFINE c == [status |-> "pending", shop |-> shop, topUp |-> FALSE,
                   dated |-> dated, stale |-> FALSE, amount |-> amount]
  <2>2. /\ Save(c) /\ resched.status # "pending"
        /\ UNCHANGED resched
    BY <2>1 DEF CreateChange, ChangeAvailable, kept
  <2>3. NewRow(c)
    BY <2>2 DEF NewRow
  <2>4. amount \in Nat
    OBVIOUS
  <2>5. c \in Changes
    BY <1>1, <2>4 DEF Changes, OpenChanges
  <2> QED
    BY <2>2, <2>3, <2>5
<1>3. CASE DeclineChange
  <2>1. /\ Save([change EXCEPT !.status = "declined"])
        /\ OpenChange /\ change.shop = shop
    BY <1>3 DEF DeclineChange, OpenChange, OpenChanges
  <2>2. SameRow([change EXCEPT !.status = "declined"])
    BY <2>1 DEF SameRow
  <2> QED
    BY <1>1, <2>1, <2>2, ChangeWith
<1>4. CASE AgreeToChange
  <2> DEFINE st == IF change.amount = 0 THEN "applied" ELSE "pending_payment"
  <2>1. /\ Save([change EXCEPT !.status = st])
        /\ OpenChange /\ change.shop = shop
    BY <1>4 DEF AgreeToChange, OpenChange, OpenChanges
  <2>2. /\ st \in OpenChanges \cup {"none", "applied", "declined", "closed"}
        /\ st # "pending_confirmation"
    BY DEF OpenChanges
  <2> HIDE DEF st
  <2>3. SameRow([change EXCEPT !.status = st])
    BY <2>1, <2>2 DEF SameRow
  <2> QED
    BY <1>1, <2>1, <2>2, <2>3, ChangeWith
<1>5. CASE SubmitTransfer
  <2>1. /\ Save([change EXCEPT !.status = "pending_confirmation"])
        /\ OpenChange /\ change.shop = shop
        /\ ~RefundStop /\ UNCHANGED refund
    BY <1>5 DEF SubmitTransfer, OpenChange, OpenChanges, ChangeAvailable,
       WorkStopped, kept, refunding
  <2>2. "pending_confirmation" \in OpenChanges
    BY DEF OpenChanges
  <2>3. SameRow([change EXCEPT !.status = "pending_confirmation"])
    BY <2>1, <2>2 DEF SameRow
  <2> QED
    BY <1>1, <2>1, <2>2, <2>3, ChangeWith
<1>6. CASE RejectTransfer
  <2>1. /\ Save([change EXCEPT !.status = "pending_payment"])
        /\ OpenChange /\ ChangePaymentPending
    BY <1>6 DEF RejectTransfer, OpenChange, OpenChanges, ChangePaymentPending
  <2>2. "pending_payment" \in OpenChanges
    BY DEF OpenChanges
  <2>3. SameRow([change EXCEPT !.status = "pending_payment"])
    BY <2>1, <2>2 DEF SameRow
  <2> QED
    BY <1>1, <2>1, <2>2, <2>3, ChangeWith
<1>7. CASE ConfirmTransfer
  <2>1. /\ Save([change EXCEPT !.status = "applied"])
        /\ OpenChange /\ change.shop = shop
    BY <1>7 DEF ConfirmTransfer, OpenChange, OpenChanges
  <2>2. SameRow([change EXCEPT !.status = "applied"])
    BY <2>1 DEF SameRow
  <2> QED
    BY <1>1, <2>1, <2>2, ChangeWith
<1> QED
  BY <1>2, <1>3, <1>4, <1>5, <1>6, <1>7 DEF ChangeNext

(* A replacement that was offered for a deadline is another shop still.    *)
RematchStands ==
    resched.offer # {} /\ resched.resolution \in {"rematch_offered", "no_match"}
        => /\ resched.status = "declined"
           /\ resched.offer \cap (declined \cup {shop}) = {}

(* Deadlines open no change request.                                       *)
LEMMA DeadlineSaves ==
    ASSUME Typed, RematchStands, DeadlineNext
    PROVE  Still \/ \E c \in Changes : Save(c) /\ SameRow(c)
<1>1. resched \in Rescheds
  BY DEF Typed, TypedRows
<1>2. change \in Changes /\ [change EXCEPT !.stale = TRUE] \in Changes
  BY ChangeWith DEF Typed, TypedRows
<1>3. CASE DeadlineLapses
  BY <1>1, <1>3 DEF DeadlineLapses, Still, others, order, Rescheds
<1>4. CASE AcceptDeadline
  <2>1. resched.status = "pending"
    BY <1>4 DEF AcceptDeadline, MayAnswer
  <2>2. Save(change) \/ Save([change EXCEPT !.stale = TRUE])
    BY <1>4 DEF AcceptDeadline
  <2> QED
    BY <1>2, <2>1, <2>2 DEF SameRow
<1>5. CASE AcceptRematch
  <2>1. PICK s \in resched.offer : shop' = s
    BY <1>5 DEF AcceptRematch
  <2>2. s # shop
    BY <1>5, <2>1 DEF AcceptRematch, MayRematch, RematchStands
  <2>3. Save([change EXCEPT !.stale = TRUE])
    BY <1>5 DEF AcceptRematch
  <2> QED
    BY <1>2, <2>1, <2>2, <2>3 DEF SameRow
<1>6. CASE ~DeadlineLapses /\ ~AcceptDeadline /\ ~AcceptRematch
  <2>1. Save(change)
    BY <1>6 DEF DeadlineNext, RequestDeadline, ExpireDeadline,
       DeclineDeadline, RefreshRematch, RefundDeadline, FileRefund,
       ResolveDeadline
  <2> QED
    BY <1>2, <2>1 DEF SameRow
<1> QED
  BY <1>3, <1>4, <1>5, <1>6

(* Every step leaves time running or saves one of those rows.              *)
LEMMA StepSaves ==
    ASSUME Typed, Typed', OfferStands, RematchStands, Next
    PROVE  \/ Still
           \/ \E c \in Changes :
                 Save(c) /\ (SameRow(c) \/ NewRow(c) \/ TopUpRow(c))
<1>1. Save(change) => \E c \in Changes : Save(c) /\ SameRow(c)
  BY DEF SameRow, Typed, TypedRows
<1> QED
  BY <1>1, JobSaves, RecoverySaves, ChangeSaves, DeadlineSaves DEF Next

(* A deadline is asked for only when no change is open.                    *)
LEMMA DeadlineAsked ==
    ASSUME Typed, Next, resched'.status = "pending"
    PROVE  resched.status = "pending" \/ ~OpenChange
<1>1. resched \in Rescheds
  BY DEF Typed, TypedRows
<1>2. CASE JobNext
  BY <1>2 DEF JobNext, AcceptanceLapses, ShopFails, ExpireAcceptance,
     AcceptJob, Advance, CancelOrder, Deduct, Release
<1>3. CASE RecoveryNext
  BY <1>3 DEF RecoveryNext, OfferLapses, RefreshOffer, AcceptSubstitute,
     RequestRefund, RefundUncollected, WithdrawRefund, RejectRefund,
     SettleRefund, PayRefund, PayCredit
<1>4. CASE ChangeNext
  BY <1>4 DEF ChangeNext, CreateChange, DeclineChange, AgreeToChange,
     SubmitTransfer, RejectTransfer, ConfirmTransfer, kept
<1>5. CASE DeadlineNext
  <2>1. CASE RequestDeadline
    BY <2>1 DEF RequestDeadline, OpenChange
  <2>2. CASE DeadlineLapses \/ ExpireDeadline \/ AcceptDeadline
    BY <2>2 DEF DeadlineLapses, ExpireDeadline, AcceptDeadline, MayAnswer
  <2>3. CASE DeclineDeadline
    BY <2>3 DEF DeclineDeadline, MayAnswer
  <2>4. CASE RefreshRematch \/ AcceptRematch
    BY <1>1, <2>4 DEF RefreshRematch, AcceptRematch, Offered, MayRematch,
       Rescheds
  <2>5. CASE RefundDeadline \/ ResolveDeadline
    BY <1>1, <2>5 DEF RefundDeadline, ResolveDeadline, Rescheds
  <2> QED
    BY <1>5, <2>1, <2>2, <2>3, <2>4, <2>5 DEF DeadlineNext
<1> QED
  BY <1>2, <1>3, <1>4, <1>5 DEF Next

(* Only an accepted substitute changes what is left to pay, and it is      *)
(* another shop.                                                           *)
LEMMA PaysOrMoves ==
    ASSUME Typed, OfferStands, Next
    PROVE  move'.pays = move.pays \/ shop' # shop
<1>1. move \in Moves
  BY DEF Typed, TypedRows
<1>2. CASE AcceptSubstitute
  BY <1>2 DEF AcceptSubstitute, OfferStands
<1>3. CASE JobNext
  BY <1>3 DEF JobNext, AcceptanceLapses, ShopFails, ExpireAcceptance,
     AcceptJob, Advance, CancelOrder, Deduct, Release
<1>4. CASE RecoveryNext /\ ~AcceptSubstitute
  BY <1>1, <1>4 DEF RecoveryNext, OfferLapses, RefreshOffer, RequestRefund,
     FileRefund, RefundChosen, RefundUncollected, WithdrawRefund, Restored,
     RejectRefund, SettleRefund, PayRefund, PayCredit, Moves
<1>5. CASE ChangeNext
  BY <1>1, <1>5 DEF ChangeNext, CreateChange, DeclineChange, AgreeToChange,
     SubmitTransfer, RejectTransfer, ConfirmTransfer, kept, Moves
<1>6. CASE DeadlineNext
  BY <1>1, <1>6 DEF DeadlineNext, RequestDeadline, DeadlineLapses,
     ExpireDeadline, AcceptDeadline, DeclineDeadline, RefreshRematch,
     AcceptRematch, RefundDeadline, FileRefund, RefundChosen,
     ResolveDeadline, others, Moves
<1> QED
  BY <1>2, <1>3, <1>4, <1>5, <1>6 DEF Next

RowsInv == Followed /\ DatesStand /\ TopUpIsTheMove

(* A row that was open before and still is, is for the same shop.          *)
LEMMA SameRowKeeps ==
    ASSUME Typed, Followed, NEW c \in Changes, SameRow(c),
           c.status \in OpenChanges
    PROVE  /\ OpenChange
           /\ c.shop = shop /\ c.topUp = change.topUp
           /\ c.dated = change.dated /\ c.amount = change.amount
           /\ \/ c.stale = change.stale
              \/ shop' # shop \/ resched.status = "pending"
<1>1. change \in Changes
  BY DEF Typed, TypedRows
<1>2. CASE c = change
  BY <1>2 DEF OpenChange, Followed
<1>3. CASE /\ c = [change EXCEPT !.stale = TRUE]
           /\ shop' # shop \/ resched.status = "pending"
  <2>1. /\ c.status = change.status /\ c.shop = change.shop
        /\ c.topUp = change.topUp /\ c.dated = change.dated
        /\ c.amount = change.amount
    BY <1>1, <1>3 DEF Changes
  <2> QED
    BY <1>3, <2>1 DEF OpenChange, Followed
<1>4. CASE \E st \in OpenChanges \cup {"none", "applied", "declined",
                                       "closed"} :
             /\ c = [change EXCEPT !.status = st]
             /\ OpenChange
             /\ ChangePaymentPending \/ change.shop = shop
             /\ st = "pending_confirmation" => ~RefundStop /\ UNCHANGED refund
  <2>1. PICK st : c = [change EXCEPT !.status = st] /\ OpenChange
    BY <1>4
  <2>2. /\ c.shop = change.shop /\ c.stale = change.stale
        /\ c.topUp = change.topUp /\ c.dated = change.dated
        /\ c.amount = change.amount
    BY <1>1, <2>1 DEF Changes
  <2> QED
    BY <2>1, <2>2 DEF Followed
<1> QED
  BY <1>2, <1>3, <1>4 DEF SameRow

(* What is open follows the order through every step.                      *)
LEMMA RowsStep ==
    ASSUME Typed, Typed', OfferStands, RematchStands, RowsInv, Next
    PROVE  RowsInv'
<1> USE DEF RowsInv
<1>1. CASE Still
  <2>1. Followed'
    BY <1>1 DEF Still, Followed, OpenChange, WindowOpen, RecoveryHeld, Held,
       AwaitedTopUp, ChangePaymentPending
  <2> QED
    BY <1>1, <2>1 DEF Still, DatesStand, TopUpIsTheMove, OpenChange
<1>2. ASSUME NEW c \in Changes, Save(c),
             SameRow(c) \/ NewRow(c) \/ TopUpRow(c)
      PROVE  RowsInv'
  <2>1. c.status \in OpenChanges /\ SameRow(c) =>
          /\ OpenChange
          /\ c.shop = shop /\ c.topUp = change.topUp
          /\ c.dated = change.dated /\ c.amount = change.amount
          /\ \/ c.stale = change.stale
             \/ shop' # shop \/ resched.status = "pending"
    BY <1>2, SameRowKeeps
  <2>2. c.status = "pending_confirmation" => c.shop = shop
    <3>1. CASE SameRow(c)
      BY <2>1, <3>1 DEF OpenChanges
    <3>2. CASE NewRow(c)
      BY <3>2 DEF NewRow
    <3>3. CASE TopUpRow(c)
      BY <3>3 DEF TopUpRow, TopUp
    <3> QED
      BY <1>2, <3>1, <3>2, <3>3
  <2>3. /\ Followed'
        /\ change'.status \in OpenChanges => change' = c
    BY <1>2, <2>2, SavedFollows
  <2>4. DatesStand' /\ TopUpIsTheMove'
    <3> SUFFICES ASSUME change'.status \in OpenChanges
                 PROVE  /\ change'.dated => /\ ~change'.stale
                                            /\ resched'.status # "pending"
                        /\ change'.topUp => change'.amount = move'.pays
      BY DEF DatesStand, TopUpIsTheMove, OpenChange
    <3>1. change' = c /\ change'.shop = shop'
      BY <2>3 DEF Followed, OpenChange
    <3>2. CASE SameRow(c)
      <4>1. /\ OpenChange /\ shop' = shop
            /\ c.topUp = change.topUp /\ c.dated = change.dated
            /\ c.amount = change.amount
            /\ c.stale = change.stale \/ resched.status = "pending"
        BY <2>1, <3>1, <3>2
      <4>2. c.dated => ~c.stale /\ resched.status # "pending"
        BY <4>1 DEF DatesStand
      <4>3. c.dated => resched'.status # "pending"
        BY <4>1, <4>2, DeadlineAsked
      <4>4. move'.pays = move.pays
        BY <4>1, PaysOrMoves
      <4> QED
        BY <3>1, <4>1, <4>2, <4>3, <4>4 DEF TopUpIsTheMove
    <3>3. CASE NewRow(c)
      BY <3>1, <3>3 DEF NewRow
    <3>4. CASE TopUpRow(c)
      BY <3>1, <3>4 DEF TopUpRow, TopUp
    <3> QED
      BY <1>2, <3>2, <3>3, <3>4
  <2> QED
    BY <2>3, <2>4
<1> QED
  BY <1>1, <1>2, StepSaves

-----------------------------------------------------------------------------
(* Refunds: one at a time, never beside a choice or a transfer.            *)

(* A client's choice and a refund that runs.                               *)
ChoiceInv ==
    /\ recovery.status = "refund_requested" =>
         \/ recovery.refund /\ refund \in {"open", "approved"}
         \/ ~paid /\ state = "cancelled"
    /\ recovery.status \in Choosing => ~RefundStop

RefundsInv == (ChangePaymentPending => ~RefundStop) /\ ChoiceInv

(* Work stops for a refund when one is filed, and only then.               *)
LEMMA RefundFiled ==
    ASSUME Typed, Next, RefundStop', ~RefundStop
    PROVE  FileRefund
<1>1. CASE JobNext
  BY <1>1 DEF JobNext, AcceptanceLapses, ShopFails, ExpireAcceptance,
     AcceptJob, Advance, CancelOrder, Deduct, Release, refunding, RefundStop
<1>2. CASE RecoveryNext
  BY <1>2 DEF RecoveryNext, OfferLapses, RefreshOffer, AcceptSubstitute,
     RequestRefund, RefundUncollected, WithdrawRefund, RejectRefund,
     SettleRefund, PayRefund, PayCredit, refunding, RefundStop
<1>3. CASE ChangeNext
  BY <1>3 DEF ChangeNext, CreateChange, DeclineChange, AgreeToChange,
     SubmitTransfer, RejectTransfer, ConfirmTransfer, kept, refunding,
     RefundStop
<1>4. CASE DeadlineNext
  BY <1>4 DEF DeadlineNext, RequestDeadline, DeadlineLapses,
     ExpireDeadline, AcceptDeadline, DeclineDeadline, RefreshRematch,
     AcceptRematch, RefundDeadline, ResolveDeadline, others, refunding,
     RefundStop
<1> QED
  BY <1>1, <1>2, <1>3, <1>4 DEF Next

(* No transfer is submitted while a refund stops work, none is filed while *)
(* a transfer waits.                                                       *)
LEMMA NoRefundBeside ==
    ASSUME Typed, Typed', OfferStands, RematchStands, RowsInv, Next,
           ChangePaymentPending => ~RefundStop
    PROVE  ChangePaymentPending' => ~RefundStop'
<1> SUFFICES ASSUME ChangePaymentPending', RefundStop' PROVE FALSE
  OBVIOUS
<1>1. change \in Changes
  BY DEF Typed, TypedRows
<1>2. CASE ~RefundStop
  <2>1. FileRefund
    BY <1>2, RefundFiled
  <2>2. ~ChangePaymentPending /\ Save(change)
    BY <2>1 DEF FileRefund
  <2>3. change' = change \/ change' = [change EXCEPT !.status = "closed"]
    BY <2>2 DEF Save, Closing
  <2> QED
    BY <1>1, <2>2, <2>3 DEF ChangePaymentPending, Changes
<1>3. CASE RefundStop
  <2>1. change.status # "pending_confirmation"
    BY <1>3 DEF ChangePaymentPending
  <2>2. change'.status = "pending_confirmation"
    BY DEF ChangePaymentPending
  <2>3. CASE Still
    BY <2>1, <2>2, <2>3 DEF Still
  <2>4. ASSUME NEW c \in Changes, Save(c),
               SameRow(c) \/ NewRow(c) \/ TopUpRow(c)
        PROVE  FALSE
    <3>1. c.status = "pending_confirmation"
      BY <2>2, <2>4 DEF Save, Closing, Changes
    <3>2. CASE SameRow(c)
      BY <1>1, <1>3, <2>1, <3>1, <3>2 DEF SameRow, Changes
    <3>3. CASE NewRow(c) \/ TopUpRow(c)
      BY <3>1, <3>3 DEF NewRow, TopUpRow, TopUp
    <3> QED
      BY <2>4, <3>2, <3>3
  <2> QED
    BY <2>3, <2>4, StepSaves
<1> QED
  BY <1>2, <1>3

(* Steps that leave the recovery and the refund alone.                     *)
LEMMA ChoiceKept ==
    ASSUME ChoiceInv,
           recovery'.status = recovery.status,
           recovery'.refund = recovery.refund,
           UNCHANGED <<refund, paid>>,
           state' = state \/ ~RecoveryHeld
    PROVE  ChoiceInv'
BY DEF ChoiceInv, RefundStop, RecoveryHeld, Held

(* A failure opens a choice, where no refund runs.                         *)
LEMMA ChoiceOpens ==
    ASSUME NEW kind, RecordShopFailure(kind), UNCHANGED refund
    PROVE  ChoiceInv'
<1>1. /\ ~RefundStop
      /\ \E f, offer :
          recovery' = [n |-> recovery.n + 1, fault |-> f,
                       status |-> IF RequiresOps THEN "ops_review"
                                  ELSE "awaiting_client",
                       offer |-> offer, current |-> TRUE,
                       topUp |-> FALSE, refund |-> FALSE]
  BY DEF RecordShopFailure
<1> QED
  BY <1>1 DEF ChoiceInv, RefundStop

(* A filed refund takes the choice with it.                                *)
LEMMA ChoiceFiled ==
    ASSUME Typed, ChoiceInv, FileRefund
    PROVE  ChoiceInv'
<1>1. recovery \in Recoveries
  BY DEF Typed, TypedRows
<1>2. /\ refund' = "open" /\ RefundChosen(TRUE) /\ paid /\ ~RefundStop
      /\ UNCHANGED order
  BY DEF FileRefund
<1>3. CASE recovery.status \in Choosing
  <2>1. recovery' = [recovery EXCEPT !.status = "refund_requested",
                                     !.refund = TRUE]
    BY <1>2, <1>3 DEF RefundChosen
  <2>2. recovery'.status = "refund_requested" /\ recovery'.refund
    BY <1>1, <2>1 DEF Recoveries
  <2> QED
    BY <1>2, <2>2 DEF ChoiceInv, Choosing
<1>4. CASE recovery.status \notin Choosing
  <2>1. UNCHANGED recovery
    BY <1>2, <1>4 DEF RefundChosen
  <2>2. recovery.status # "refund_requested"
    BY <1>2 DEF ChoiceInv, RefundStop
  <2> QED
    BY <1>4, <2>1, <2>2 DEF ChoiceInv
<1> QED
  BY <1>3, <1>4

(* So a pending choice has no open refund beside it, after any step.       *)
LEMMA ChoiceStep ==
    ASSUME Typed, ChoiceInv, Next
    PROVE  ChoiceInv'
<1>1. recovery \in Recoveries
  BY DEF Typed, TypedRows
<1>2. CASE JobNext
  <2>1. ASSUME NEW kind, ShopFails(kind) PROVE ChoiceInv'
    BY <2>1, ChoiceOpens DEF ShopFails, refunding
  <2>2. CASE ExpireAcceptance
    BY <2>2, ChoiceOpens DEF ExpireAcceptance, refunding
  <2>3. CASE AcceptJob
    <3>1. CASE acceptance.overdue
      BY <2>3, <3>1, ChoiceOpens DEF AcceptJob, refunding
    <3>2. CASE ~acceptance.overdue
      BY <2>3, <3>2, ChoiceKept DEF AcceptJob, refunding, WorkStopped
    <3> QED
      BY <3>1, <3>2
  <2>4. CASE Advance \/ CancelOrder
    BY <2>4, ChoiceKept DEF Advance, CancelOrder, refunding, WorkStopped
  <2>5. CASE AcceptanceLapses \/ Deduct \/ \E c \in StageCodes : Release(c)
    BY <2>5, ChoiceKept DEF AcceptanceLapses, Deduct, Release, refunding,
       order
  <2> QED
    BY <1>2, <2>1, <2>2, <2>3, <2>4, <2>5 DEF JobNext
<1>3. CASE RecoveryNext
  <2>1. CASE OfferLapses \/ PayCredit
    BY <1>1, <2>1, ChoiceKept DEF OfferLapses, PayCredit, refunding, order,
       Recoveries
  <2>2. CASE RefreshOffer
    <3>1. PICK offer : recovery' = [recovery EXCEPT !.offer = offer,
                                                    !.current = TRUE]
      BY <2>2 DEF RefreshOffer
    <3>2. recovery'.status = recovery.status /\ recovery'.refund = recovery.refund
      BY <1>1, <3>1 DEF Recoveries
    <3> QED
      BY <2>2, <3>2, ChoiceKept DEF RefreshOffer, refunding, order
  <2>3. CASE AcceptSubstitute
    <3>1. ~RefundStop /\ UNCHANGED refund
      BY <2>3 DEF AcceptSubstitute, MayAccept
    <3>2. \/ recovery' = [recovery EXCEPT !.topUp = TRUE, !.offer = {},
                                          !.status = "awaiting_payment"]
          \/ recovery' = [recovery EXCEPT !.offer = {}, !.status = "accepted"]
      BY <2>3 DEF AcceptSubstitute
    <3>3. recovery'.status \in {"awaiting_payment", "accepted"}
      BY <1>1, <3>2 DEF Recoveries
    <3> QED
      BY <3>1, <3>3 DEF ChoiceInv, RefundStop
  <2>4. CASE RequestRefund
    BY <2>4, ChoiceFiled DEF RequestRefund
  <2>5. CASE RefundUncollected
    <3>1. recovery' = [recovery EXCEPT !.status = "refund_requested",
                                       !.refund = FALSE]
      BY <2>5 DEF RefundUncollected, RefundChosen
    <3>2. recovery'.status = "refund_requested"
      BY <1>1, <3>1 DEF Recoveries
    <3>3. ~paid' /\ state' = "cancelled"
      BY <2>5 DEF RefundUncollected
    <3> QED
      BY <3>2, <3>3 DEF ChoiceInv, Choosing
  <2>6. CASE WithdrawRefund
    <3>1. refund' = "none" /\ UNCHANGED <<state, paid>>
      BY <2>6 DEF WithdrawRefund, order
    <3>2. CASE recovery.refund
      <4>1. \/ recovery' = [recovery EXCEPT !.status = "awaiting_payment",
                                            !.refund = FALSE]
            \/ recovery' = [recovery EXCEPT !.status = "awaiting_client",
                                            !.refund = FALSE]
        BY <2>6, <3>2 DEF WithdrawRefund, Restored
      <4>2. recovery'.status \in {"awaiting_payment", "awaiting_client"}
        BY <1>1, <4>1 DEF Recoveries
      <4> QED
        BY <3>1, <4>2 DEF ChoiceInv, RefundStop
    <3>3. CASE ~recovery.refund
      <4>1. UNCHANGED recovery
        BY <2>6, <3>3 DEF WithdrawRefund
      <4> QED
        BY <3>1, <3>3, <4>1 DEF ChoiceInv, RefundStop
    <3> QED
      BY <3>2, <3>3
  <2>7. CASE RejectRefund
    <3>1. refund' = "none" /\ UNCHANGED <<state, paid>>
      BY <2>7 DEF RejectRefund, order
    <3>2. CASE recovery.refund
      <4>1. recovery'.status = "ops_review"
        BY <1>1, <2>7, <3>2 DEF RejectRefund, Recoveries
      <4> QED
        BY <3>1, <4>1 DEF ChoiceInv, RefundStop
    <3>3. CASE ~recovery.refund
      BY <2>7, <3>1, <3>3 DEF RejectRefund, ChoiceInv, RefundStop
    <3> QED
      BY <3>2, <3>3
  <2>8. CASE SettleRefund
    <3>1. /\ refund = "open" /\ refund' = "approved"
          /\ UNCHANGED <<recovery, paid>>
          /\ state = "cancelled" => state' = "cancelled"
      BY <2>8 DEF SettleRefund, HandedOver
    <3> QED
      BY <3>1 DEF ChoiceInv, RefundStop
  <2>9. CASE PayRefund
    <3>1. /\ refund = "approved" /\ refund' = "paid"
          /\ UNCHANGED <<state, paid>>
      BY <2>9 DEF PayRefund, order
    <3>2. CASE recovery.refund
      <4>1. recovery'.status = "refunded"
        BY <1>1, <2>9, <3>2 DEF PayRefund, Recoveries
      <4> QED
        BY <4>1 DEF ChoiceInv, Choosing
    <3>3. CASE ~recovery.refund
      BY <2>9, <3>1, <3>3 DEF PayRefund, ChoiceInv, RefundStop
    <3> QED
      BY <3>2, <3>3
  <2> QED
    BY <1>3, <2>1, <2>2, <2>3, <2>4, <2>5, <2>6, <2>7, <2>8, <2>9
       DEF RecoveryNext
<1>4. CASE ChangeNext
  <2>1. CASE ConfirmTransfer
    <3>1. \/ recovery' = [recovery EXCEPT !.status = "accepted"]
          \/ UNCHANGED recovery
      BY <2>1 DEF ConfirmTransfer
    <3>2. UNCHANGED <<state, paid, refund>>
      BY <2>1 DEF ConfirmTransfer, order, refunding
    <3>3. CASE recovery' = [recovery EXCEPT !.status = "accepted"]
      BY <1>1, <3>3 DEF Recoveries, ChoiceInv, Choosing
    <3>4. CASE UNCHANGED recovery
      BY <3>2, <3>4, ChoiceKept
    <3> QED
      BY <3>1, <3>3, <3>4
  <2>2. CASE ~ConfirmTransfer
    BY <1>4, <2>2, ChoiceKept DEF ChangeNext, CreateChange, DeclineChange,
       AgreeToChange, SubmitTransfer, RejectTransfer, kept, order, refunding
  <2> QED
    BY <2>1, <2>2
<1>5. CASE DeadlineNext
  <2>1. CASE RefundDeadline
    BY <2>1, ChoiceFiled DEF RefundDeadline
  <2>2. CASE AcceptRematch
    BY <2>2, ChoiceKept DEF AcceptRematch, MayRematch, refunding
  <2>3. CASE ~RefundDeadline /\ ~AcceptRematch
    <3>1. UNCHANGED others
      BY <1>5, <2>3 DEF DeadlineNext, RequestDeadline, DeadlineLapses,
         ExpireDeadline, AcceptDeadline, DeclineDeadline, RefreshRematch,
         ResolveDeadline
    <3> QED
      BY <3>1, ChoiceKept DEF others, order, refunding
  <2> QED
    BY <2>1, <2>2, <2>3
<1> QED
  BY <1>2, <1>3, <1>4, <1>5 DEF Next

(* A running refund has its choice and no transfer beside it.              *)
LEMMA RefundsStep ==
    ASSUME Typed, Typed', OfferStands, RematchStands, RowsInv, RefundsInv,
           Next
    PROVE  RefundsInv'
BY NoRefundBeside, ChoiceStep DEF RefundsInv

-----------------------------------------------------------------------------
(* Shops: who failed is not asked again.                                   *)

(* Each failure was of a shop of its own, and each move of a failure.      *)
Counted ==
    /\ recovery.n <= Cardinality(declined)
    /\ move.of <= recovery.n

(* The shop that has the job did not fail in it, unless a choice waits.    *)
WorkingShop ==
    shop \in declined => recovery.status \in Waiting /\ ~recovery.topUp

ShopsInv == Counted /\ WorkingShop /\ OfferStands

(* Steps that leave the shop, its offers and the price alone.              *)
LEMMA ShopsKept ==
    ASSUME ShopsInv, UNCHANGED <<shop, declined>>,
           recovery'.n = recovery.n, recovery'.offer = recovery.offer,
           recovery'.topUp = recovery.topUp,
           recovery'.status = recovery.status \/ recovery'.status \in Waiting,
           move'.of = move.of, move'.price = move.price
    PROVE  ShopsInv'
BY DEF ShopsInv, Counted, WorkingShop, OfferStands

(* A failure is one more shop that failed.                                 *)
LEMMA ShopFailed ==
    ASSUME Typed, ShopsInv, NEW kind, RecordShopFailure(kind),
           UNCHANGED <<shop, move>>
    PROVE  ShopsInv'
<1>1. /\ shop \in Shops /\ declined \subseteq Shops /\ recovery \in Recoveries
      /\ move \in Moves
  BY DEF Typed, TypedOrder, TypedRows
<1>2. ~RecoveryHeld /\ declined' = declined \cup {shop}
  BY DEF RecordShopFailure
<1>3. shop \notin declined
  BY <1>2 DEF ShopsInv, WorkingShop, RecoveryHeld, Held, Waiting
<1>4. /\ IsFiniteSet(declined)
      /\ Cardinality(declined') = Cardinality(declined) + 1
      /\ Cardinality(declined) \in Nat
  BY <1>1, <1>2, <1>3, FS_Subset, FS_AddElement, FS_CardinalityType
<1> DEFINE f == IF kind = "client" THEN "client" ELSE "shop"
<1>5. PICK offer \in IF RequiresOps THEN {{}}
                     ELSE Offers(f, declined \cup {shop}) :
        recovery' = [n |-> recovery.n + 1, fault |-> f,
                     status |-> IF RequiresOps THEN "ops_review"
                                ELSE "awaiting_client",
                     offer |-> offer, current |-> TRUE,
                     topUp |-> FALSE, refund |-> FALSE]
  BY DEF RecordShopFailure
<1>6. /\ recovery'.n = recovery.n + 1 /\ recovery'.offer = offer
      /\ recovery'.status \in Waiting /\ ~recovery'.topUp
  BY <1>5 DEF Waiting
<1>7. f \in {"shop", "client"}
  OBVIOUS
<1> HIDE DEF f
<1>8. Counted'
  <2>1. recovery.n \in Nat /\ move.of \in Nat
    BY <1>1 DEF Recoveries, Moves
  <2> QED
    BY <1>4, <1>6, <2>1 DEF ShopsInv, Counted
<1>9. OfferStands'
  <2>1. ASSUME offer # {} PROVE ~RequiresOps
    BY <1>5, <2>1
  <2>2. ASSUME offer # {}
        PROVE  /\ move.price = Subtotal
               /\ \A o \in offer : o.shop \notin declined \cup {shop}
    BY <1>5, <1>7, <2>1, <2>2, OfferOf DEF RequiresOps
  <2> QED
    BY <1>2, <1>6, <2>2 DEF OfferStands
<1> QED
  BY <1>6, <1>8, <1>9 DEF ShopsInv, WorkingShop

(* A substitute is a shop that did not fail.                               *)
LEMMA ShopReplaced ==
    ASSUME Typed, ShopsInv, AcceptSubstitute
    PROVE  ShopsInv'
<1>1. recovery \in Recoveries
  BY DEF Typed, TypedRows
<1>2. PICK offer \in recovery.offer :
        /\ shop' = offer.shop
        /\ move'.of = recovery.n
        /\ \/ recovery' = [recovery EXCEPT !.topUp = TRUE, !.offer = {},
                                           !.status = "awaiting_payment"]
           \/ recovery' = [recovery EXCEPT !.offer = {}, !.status = "accepted"]
        /\ UNCHANGED declined
  BY DEF AcceptSubstitute
<1>3. recovery'.n = recovery.n /\ recovery'.offer = {}
  BY <1>1, <1>2 DEF Recoveries
<1>4. shop' \notin declined'
  BY <1>2 DEF ShopsInv, OfferStands
<1>5. recovery.n \in Nat
  BY <1>1 DEF Recoveries
<1> QED
  BY <1>2, <1>3, <1>4, <1>5 DEF ShopsInv, Counted, WorkingShop, OfferStands

(* A filed refund waits: neither the shop nor its offer changes.           *)
LEMMA ShopsFiled ==
    ASSUME Typed, ShopsInv, NEW b, RefundChosen(b), UNCHANGED <<shop, declined>>
    PROVE  ShopsInv'
<1>1. recovery \in Recoveries /\ move \in Moves
  BY DEF Typed, TypedRows
<1>2. move'.of = move.of /\ move'.price = move.price
  BY <1>1 DEF RefundChosen, Moves
<1>3. CASE recovery.status \in Choosing
  <2>1. recovery' = [recovery EXCEPT !.status = "refund_requested",
                                     !.refund = b]
    BY <1>3 DEF RefundChosen
  <2>2. /\ recovery'.n = recovery.n /\ recovery'.offer = recovery.offer
        /\ recovery'.topUp = recovery.topUp
        /\ recovery'.status \in Waiting
    BY <1>1, <2>1 DEF Recoveries, Waiting
  <2> QED
    BY <1>2, <2>2, ShopsKept
<1>4. CASE recovery.status \notin Choosing
  BY <1>2, <1>4, ShopsKept DEF RefundChosen
<1> QED
  BY <1>3, <1>4

(* A withdrawn refund restores the choice, and the top-up only where the   *)
(* substitute has the job.                                                 *)
LEMMA ShopsRestored ==
    ASSUME Typed, ShopsInv, Restored, UNCHANGED <<shop, declined>>
    PROVE  ShopsInv'
<1>1. recovery \in Recoveries /\ move \in Moves
  BY DEF Typed, TypedRows
<1>2. move'.of = move.of /\ move'.price = move.price
  BY <1>1 DEF Restored, Moves
<1>3. CASE /\ recovery.topUp
           /\ recovery' = [recovery EXCEPT !.status = "awaiting_payment",
                                           !.refund = FALSE]
  <2>1. /\ recovery'.n = recovery.n /\ recovery'.offer = recovery.offer
        /\ recovery'.topUp = recovery.topUp
    BY <1>1, <1>3 DEF Recoveries
  <2>2. recovery.offer = {} /\ shop \notin declined
    BY <1>3 DEF ShopsInv, OfferStands, WorkingShop
  <2> QED
    BY <1>2, <2>1, <2>2 DEF ShopsInv, Counted, WorkingShop, OfferStands
<1>4. CASE recovery' = [recovery EXCEPT !.status = "awaiting_client",
                                        !.refund = FALSE]
  <2>1. /\ recovery'.n = recovery.n /\ recovery'.offer = recovery.offer
        /\ recovery'.topUp = recovery.topUp
        /\ recovery'.status \in Waiting
    BY <1>1, <1>4 DEF Recoveries, Waiting
  <2> QED
    BY <1>2, <2>1, ShopsKept
<1> QED
  BY <1>3, <1>4 DEF Restored

(* After any step the shop that works has not failed, and none is offered. *)
LEMMA ShopsStep ==
    ASSUME Typed, ShopsInv, RematchStands, Next
    PROVE  ShopsInv'
<1>1. recovery \in Recoveries /\ move \in Moves
  BY DEF Typed, TypedRows
<1>2. CASE JobNext
  <2>1. ASSUME NEW kind, ShopFails(kind) PROVE ShopsInv'
    BY <2>1, ShopFailed DEF ShopFails
  <2>2. CASE ExpireAcceptance
    BY <2>2, ShopFailed DEF ExpireAcceptance
  <2>3. CASE AcceptJob
    BY <2>3, ShopFailed, ShopsKept DEF AcceptJob
  <2>4. CASE \/ AcceptanceLapses \/ Advance \/ CancelOrder \/ Deduct
             \/ \E c \in StageCodes : Release(c)
    <3>1. UNCHANGED <<shop, declined, recovery, move>>
      BY <2>4 DEF AcceptanceLapses, Advance, CancelOrder, Deduct, Release,
         order
    <3> QED
      BY <3>1, ShopsKept
  <2> QED
    BY <1>2, <2>1, <2>2, <2>3, <2>4 DEF JobNext
<1>3. CASE RecoveryNext
  <2>1. CASE OfferLapses
    BY <1>1, <2>1, ShopsKept DEF OfferLapses, order, Recoveries
  <2>2. CASE RefreshOffer
    <3>1. PICK offer \in Offers(recovery.fault, declined \cup {shop}) :
            recovery' = [recovery EXCEPT !.offer = offer, !.current = TRUE]
      BY <2>2 DEF RefreshOffer
    <3>2. /\ recovery'.n = recovery.n /\ recovery'.offer = offer
          /\ recovery'.topUp = recovery.topUp
          /\ recovery'.status = recovery.status
      BY <1>1, <3>1 DEF Recoveries
    <3>3. \A o \in offer : o.shop \notin declined \cup {shop}
      <4>1. recovery.fault \in {"shop", "client"}
        BY <1>1 DEF Recoveries
      <4> QED
        BY <3>1, <4>1, OfferOf
    <3>4. /\ UNCHANGED <<shop, declined, move>>
          /\ recovery.offer # {}
      BY <2>2 DEF RefreshOffer, MayAccept, order
    <3> QED
      BY <3>2, <3>3, <3>4 DEF ShopsInv, Counted, WorkingShop, OfferStands
  <2>3. CASE AcceptSubstitute
    BY <2>3, ShopReplaced
  <2>4. CASE RequestRefund
    BY <2>4, ShopsFiled DEF RequestRefund, FileRefund, order
  <2>5. CASE RefundUncollected
    BY <2>5, ShopsFiled DEF RefundUncollected
  <2>6. CASE WithdrawRefund
    <3>1. UNCHANGED <<shop, declined>>
      BY <2>6 DEF WithdrawRefund, order
    <3>2. Restored \/ UNCHANGED <<recovery, move>>
      BY <2>6 DEF WithdrawRefund
    <3> QED
      BY <3>1, <3>2, ShopsRestored, ShopsKept
  <2>7. CASE RejectRefund
    <3>1. \/ recovery' = [recovery EXCEPT !.status = "ops_review",
                                          !.refund = FALSE]
          \/ UNCHANGED recovery
      BY <2>7 DEF RejectRefund
    <3>2. /\ recovery'.n = recovery.n /\ recovery'.offer = recovery.offer
          /\ recovery'.topUp = recovery.topUp
          /\ recovery'.status = recovery.status \/ recovery'.status \in Waiting
      BY <1>1, <3>1 DEF Recoveries, Waiting
    <3> QED
      BY <2>7, <3>2, ShopsKept DEF RejectRefund, order
  <2>8. CASE SettleRefund \/ PayCredit
    BY <2>8, ShopsKept DEF SettleRefund, PayCredit, order
  <2>9. CASE PayRefund
    <3>1. \/ recovery' = [recovery EXCEPT !.status = "refunded"]
          \/ UNCHANGED recovery
      BY <2>9 DEF PayRefund
    <3>2. /\ recovery'.n = recovery.n /\ recovery'.offer = recovery.offer
          /\ recovery'.topUp = recovery.topUp
          /\ recovery'.status = recovery.status \/ recovery'.status \in Waiting
      BY <1>1, <3>1 DEF Recoveries, Waiting
    <3> QED
      BY <2>9, <3>2, ShopsKept DEF PayRefund, order
  <2> QED
    BY <1>3, <2>1, <2>2, <2>3, <2>4, <2>5, <2>6, <2>7, <2>8, <2>9
       DEF RecoveryNext
<1>4. CASE ChangeNext
  <2>1. CASE ConfirmTransfer
    <3>1. UNCHANGED <<shop, declined>>
      BY <2>1 DEF ConfirmTransfer, order
    <3>2. CASE AwaitedTopUp(change, recovery, shop, {"awaiting_payment"})
      <4>1. /\ move' = [move EXCEPT !.status = "applied"]
            /\ recovery' = [recovery EXCEPT !.status = "accepted"]
        BY <2>1, <3>2 DEF ConfirmTransfer
      <4>2. /\ recovery'.n = recovery.n /\ recovery'.offer = recovery.offer
            /\ recovery'.topUp = recovery.topUp
            /\ move'.of = move.of /\ move'.price = move.price
        BY <1>1, <4>1 DEF Recoveries, Moves
      <4>3. shop \notin declined /\ recovery.offer = {}
        BY <3>2 DEF AwaitedTopUp, ShopsInv, WorkingShop, OfferStands
      <4> QED
        BY <3>1, <4>2, <4>3 DEF ShopsInv, Counted, WorkingShop, OfferStands
    <3>3. CASE ~AwaitedTopUp(change, recovery, shop, {"awaiting_payment"})
      BY <2>1, <3>1, <3>3, ShopsKept DEF ConfirmTransfer
    <3> QED
      BY <3>2, <3>3
  <2>2. CASE ~ConfirmTransfer
    BY <1>4, <2>2, ShopsKept DEF ChangeNext, CreateChange, DeclineChange,
       AgreeToChange, SubmitTransfer, RejectTransfer, kept, order
  <2> QED
    BY <2>1, <2>2
<1>5. CASE DeadlineNext
  <2>1. CASE RefundDeadline
    BY <2>1, ShopsFiled DEF RefundDeadline, FileRefund, order
  <2>2. CASE AcceptRematch
    <3>1. PICK s \in resched.offer : shop' = s
      BY <2>2 DEF AcceptRematch
    <3>2. /\ declined' = declined \cup {shop} /\ UNCHANGED <<recovery, move>>
          /\ ~RecoveryHeld
      BY <2>2 DEF AcceptRematch, MayRematch
    <3>3. shop' \notin declined'
      BY <2>2, <3>1, <3>2 DEF AcceptRematch, MayRematch, RematchStands
    <3>4. recovery.offer = {}
      BY <3>2 DEF ShopsInv, OfferStands, RecoveryHeld, Held, Waiting
    <3>5. Counted'
      <4>1. declined \subseteq Shops /\ shop \in Shops
        BY DEF Typed, TypedOrder
      <4>2. /\ Cardinality(declined) <= Cardinality(declined')
            /\ Cardinality(declined) \in Nat /\ Cardinality(declined') \in Nat
        BY <3>2, <4>1, FS_Subset, FS_AddElement, FS_CardinalityType
      <4>3. recovery.n \in Nat
        BY <1>1 DEF Recoveries
      <4> QED
        BY <3>2, <4>2, <4>3 DEF ShopsInv, Counted
    <3> QED
      BY <3>2, <3>3, <3>4, <3>5 DEF ShopsInv, WorkingShop, OfferStands
  <2>3. CASE ~RefundDeadline /\ ~AcceptRematch
    <3>1. UNCHANGED others
      BY <1>5, <2>3 DEF DeadlineNext, RequestDeadline, DeadlineLapses,
         ExpireDeadline, AcceptDeadline, DeclineDeadline, RefreshRematch,
         ResolveDeadline
    <3> QED
      BY <3>1, ShopsKept DEF others, order
  <2> QED
    BY <2>1, <2>2, <2>3
<1> QED
  BY <1>2, <1>3, <1>4, <1>5 DEF Next

(* Steps that leave the shops and the deadline's offer alone.              *)
LEMMA RematchKept ==
    ASSUME RematchStands, UNCHANGED <<shop, declined>>,
           resched'.status = resched.status, resched'.offer = resched.offer,
           resched'.resolution = resched.resolution
    PROVE  RematchStands'
BY DEF RematchStands

(* While a deadline's replacement is offered, nothing else moves the job.  *)
LEMMA RematchHolds ==
    ASSUME RematchStands, ~RescheduleHold, UNCHANGED resched
    PROVE  RematchStands'
BY DEF RematchStands, RescheduleHold

(* A replacement is offered among the shops that did not fail.             *)
LEMMA RematchOffered ==
    ASSUME NEW r \in Rescheds, r.status = "declined",
           NEW offer \in Replacements, resched' = Offered(r, offer),
           UNCHANGED <<shop, declined>>
    PROVE  RematchStands'
<1>1. resched'.offer = offer /\ resched'.status = "declined"
  BY DEF Offered, Rescheds
<1>2. offer \cap (declined \cup {shop}) = {}
  BY DEF Replacements
<1> QED
  BY <1>1, <1>2 DEF RematchStands

(* Whoever is offered after a refused deadline is a new shop.              *)
LEMMA RematchStep ==
    ASSUME Typed, RematchStands, Next
    PROVE  RematchStands'
<1>1. resched \in Rescheds
  BY DEF Typed, TypedRows
<1>2. CASE JobNext
  <2>1. ASSUME NEW kind, ShopFails(kind) PROVE RematchStands'
    BY <2>1, RematchHolds DEF ShopFails, RecordShopFailure
  <2>2. CASE ExpireAcceptance
    BY <2>2, RematchHolds DEF ExpireAcceptance, RecordShopFailure
  <2>3. CASE AcceptJob
    BY <2>3, RematchHolds DEF AcceptJob, WorkStopped
  <2>4. CASE \/ AcceptanceLapses \/ Advance \/ CancelOrder \/ Deduct
             \/ \E c \in StageCodes : Release(c)
    BY <2>4, RematchKept DEF AcceptanceLapses, Advance, CancelOrder, Deduct,
       Release, order
  <2> QED
    BY <1>2, <2>1, <2>2, <2>3, <2>4 DEF JobNext
<1>3. CASE RecoveryNext
  <2>1. CASE AcceptSubstitute
    BY <2>1, RematchHolds DEF AcceptSubstitute, MayAccept
  <2>2. CASE ~AcceptSubstitute
    <3>1. UNCHANGED <<shop, declined, resched>>
      BY <1>3, <2>2 DEF RecoveryNext, OfferLapses, RefreshOffer,
         RequestRefund, FileRefund, RefundUncollected, WithdrawRefund,
         RejectRefund, SettleRefund, PayRefund, PayCredit, order
    <3> QED
      BY <3>1, RematchKept
  <2> QED
    BY <2>1, <2>2
<1>4. CASE ChangeNext
  BY <1>4, RematchKept DEF ChangeNext, CreateChange, DeclineChange,
     AgreeToChange, SubmitTransfer, RejectTransfer, ConfirmTransfer, kept,
     order
<1>5. CASE DeadlineNext
  <2>1. CASE RequestDeadline
    <3>1. resched'.resolution \in {"operations_required", "none"}
      BY <2>1 DEF RequestDeadline, NoResched
    <3> QED
      BY <3>1 DEF RematchStands
  <2>2. CASE DeadlineLapses
    <3>1. UNCHANGED <<shop, declined>>
      BY <2>2 DEF DeadlineLapses, others, order
    <3>2. /\ resched'.status = resched.status
          /\ resched'.offer = resched.offer
          /\ resched'.resolution = resched.resolution
      BY <1>1, <2>2 DEF DeadlineLapses, Rescheds
    <3> QED
      BY <3>1, <3>2, RematchKept
  <2>3. CASE ExpireDeadline
    <3>1. /\ resched.status = "pending"
          /\ resched'.offer = resched.offer
          /\ resched'.resolution = resched.resolution
      BY <1>1, <2>3 DEF ExpireDeadline, Rescheds
    <3> QED
      BY <3>1 DEF RematchStands
  <2>4. CASE AcceptDeadline
    <3>1. /\ resched.status = "pending"
          /\ \/ resched' = [resched EXCEPT !.status = "accepted"]
             \/ resched' = [resched EXCEPT !.status = "operations_required",
                                           !.resolution = "operations_required"]
      BY <2>4 DEF AcceptDeadline, MayAnswer
    <3>2. /\ resched'.offer = resched.offer
          /\ \/ resched'.resolution = resched.resolution
             \/ resched'.resolution = "operations_required"
      BY <1>1, <3>1 DEF Rescheds
    <3> QED
      BY <3>1, <3>2 DEF RematchStands
  <2>5. CASE DeclineDeadline
    <3> DEFINE answered == [resched EXCEPT !.status = "declined"]
    <3>1. answered \in Rescheds /\ answered.status = "declined"
      BY <1>1 DEF Rescheds
    <3>2. UNCHANGED <<shop, declined>>
      BY <2>5 DEF DeclineDeadline, others, order
    <3>3. \/ resched' = [answered EXCEPT !.resolution = "operations_required"]
          \/ \E offer \in Replacements : resched' = Offered(answered, offer)
      BY <2>5 DEF DeclineDeadline
    <3> HIDE DEF answered
    <3>4. CASE resched' = [answered EXCEPT !.resolution = "operations_required"]
      <4>1. resched'.resolution = "operations_required"
        BY <3>1, <3>4 DEF Rescheds
      <4> QED
        BY <4>1 DEF RematchStands
    <3>5. CASE \E offer \in Replacements : resched' = Offered(answered, offer)
      BY <3>1, <3>2, <3>5, RematchOffered
    <3> QED
      BY <3>3, <3>4, <3>5
  <2>6. CASE RefreshRematch
    <3>1. /\ resched.status = "declined"
          /\ \E offer \in Replacements : resched' = Offered(resched, offer)
          /\ UNCHANGED <<shop, declined>>
      BY <2>6 DEF RefreshRematch, MayRematch, others, order
    <3> QED
      BY <1>1, <3>1, RematchOffered
  <2>7. CASE AcceptRematch
    <3>1. resched'.resolution = "rematched"
      BY <1>1, <2>7 DEF AcceptRematch, Rescheds
    <3> QED
      BY <3>1 DEF RematchStands
  <2>8. CASE RefundDeadline
    <3>1. resched'.resolution = "refund_requested"
      BY <1>1, <2>8 DEF RefundDeadline, Rescheds
    <3> QED
      BY <3>1 DEF RematchStands
  <2>9. CASE ResolveDeadline
    <3>1. resched'.resolution = "resolved"
      BY <1>1, <2>9 DEF ResolveDeadline, Rescheds
    <3> QED
      BY <3>1 DEF RematchStands
  <2> QED
    BY <1>5, <2>1, <2>2, <2>3, <2>4, <2>5, <2>6, <2>7, <2>8, <2>9
       DEF DeadlineNext
<1> QED
  BY <1>2, <1>3, <1>4, <1>5 DEF Next

-----------------------------------------------------------------------------
(* Money: what a move costs is divided between the three who bear it.      *)

(* The shop's price is the committed one, what GRIDGO covers and what the  *)
(* client pays on top, or what a cheaper shop leaves to the client.        *)
MoveAddsUp ==
    /\ move.price = Subtotal =>
         /\ move.cover = 0 /\ move.pays = 0
         /\ adjustment = 0 /\ credit.amount = 0
    /\ move.price < Subtotal =>
         /\ move.cover = 0 /\ move.pays = 0
         /\ adjustment = move.price - Subtotal
         /\ credit.amount = Subtotal - move.price
    /\ move.price > Subtotal =>
         /\ adjustment = move.cover /\ credit.amount = 0
         /\ move.pays = move.price - Subtotal - move.cover

(* An applied move's top-up is among what the client paid.                 *)
TopUpsPaid == move.status = "applied" /\ move.pays > 0 => extras >= move.pays

MoneyInv == CoverHeld /\ MoveAddsUp /\ TopUpsPaid

(* Steps that leave the move's terms alone and take nothing away.          *)
LEMMA MoneyKept ==
    ASSUME MoneyInv, UNCHANGED <<paid, adjustment>>,
           credit'.amount = credit.amount,
           move'.price = move.price, move'.cover = move.cover,
           move'.pays = move.pays, extras' = extras,
           move'.status = "applied" => move.status = "applied"
    PROVE  MoneyInv'
BY DEF MoneyInv, CoverHeld, MoveAddsUp, TopUpsPaid

(* A substitute's price is divided as it is accepted.                      *)
LEMMA MoneyMoved ==
    ASSUME Typed, OfferStands, MoneyInv, AcceptSubstitute
    PROVE  MoneyInv'
<1>1. PICK offer \in recovery.offer :
        /\ adjustment' = IF offer.price < Subtotal
                         THEN offer.price - Subtotal ELSE Cover(offer.price)
        /\ move' = [of |-> recovery.n, price |-> offer.price,
                    cover |-> Cover(offer.price), pays |-> Pays(offer.price),
                    status |-> IF Pays(offer.price) > 0
                               THEN "awaiting_payment" ELSE "applied"]
        /\ credit' = CreditFor(offer.price)
        /\ UNCHANGED paid
  BY DEF AcceptSubstitute
<1>2. recovery \in Recoveries /\ credit \in Credits /\ paid \in BOOLEAN
  BY DEF Typed, TypedRows, TypedOrder
<1>3. offer.price \in Prices \cup {Subtotal}
  <2>1. recovery.offer \in OfferSets
    BY <1>2 DEF Recoveries
  <2> QED
    BY <2>1, OffersTyped
<1> DEFINE p == offer.price
<1>4. /\ p \in Nat /\ Cover(p) \in Nat /\ Pays(p) \in Nat
      /\ p <= Subtotal => Cover(p) = 0 /\ Pays(p) = 0
      /\ p > Subtotal => Pays(p) = p - Subtotal - Cover(p)
      /\ Cover(p) <= (IF paid THEN Fee ELSE 0)
  BY <1>3, CoverAndPay DEF MoneyInv, CoverHeld
<1>5. credit.amount = 0
  BY <1>1 DEF OfferStands, MoneyInv, MoveAddsUp
<1>6. credit'.amount = IF p < Subtotal THEN Subtotal - p ELSE 0
  BY <1>1, <1>4, <1>5 DEF CreditFor
<1>7. /\ move'.price = p /\ move'.cover = Cover(p) /\ move'.pays = Pays(p)
      /\ move'.status = "applied" => ~(Pays(p) > 0)
      /\ adjustment' = IF p < Subtotal THEN p - Subtotal ELSE Cover(p)
      /\ paid' = paid
  BY <1>1
<1> HIDE DEF p
<1>8. CoverHeld'
  BY <1>4, <1>7 DEF CoverHeld
<1>9. MoveAddsUp'
  BY <1>4, <1>6, <1>7 DEF MoveAddsUp
<1>10. TopUpsPaid'
  BY <1>7 DEF TopUpsPaid
<1> QED
  BY <1>8, <1>9, <1>10 DEF MoneyInv

(* A move is applied once what it left to the client is confirmed.         *)
LEMMA MoneyConfirmed ==
    ASSUME Typed, TopUpIsTheMove, MoneyInv, ConfirmTransfer
    PROVE  MoneyInv'
<1>1. move \in Moves /\ change \in Changes /\ extras \in Nat
  BY DEF Typed, TypedRows, TypedMoney
<1>2. change.amount \in Nat /\ move.pays \in Nat
  BY <1>1 DEF Changes, Moves
<1>3. /\ UNCHANGED <<paid, adjustment, credit>>
      /\ extras' = extras + change.amount
      /\ move' = [move EXCEPT !.status = "applied"] \/ UNCHANGED move
  BY DEF ConfirmTransfer, order, refunding
<1>4. /\ move'.price = move.price /\ move'.cover = move.cover
      /\ move'.pays = move.pays
  BY <1>1, <1>3 DEF Moves
<1>5. CoverHeld' /\ MoveAddsUp'
  BY <1>3, <1>4 DEF MoneyInv, CoverHeld, MoveAddsUp
<1>6. TopUpsPaid'
  <2>1. CASE AwaitedTopUp(change, recovery, shop, {"awaiting_payment"})
    <3>1. OpenChange /\ change.topUp
      BY <2>1 DEF ConfirmTransfer, OpenChange, OpenChanges, AwaitedTopUp
    <3>2. change.amount = move.pays
      BY <3>1 DEF TopUpIsTheMove
    <3>3. extras + move.pays >= move.pays
      BY <1>1, <1>2
    <3> QED
      BY <1>3, <1>4, <3>2, <3>3 DEF TopUpsPaid
  <2>2. CASE ~AwaitedTopUp(change, recovery, shop, {"awaiting_payment"})
    <3>1. UNCHANGED move
      BY <2>2 DEF ConfirmTransfer
    <3> QED
      BY <1>1, <1>2, <1>3, <3>1 DEF MoneyInv, TopUpsPaid
  <2> QED
    BY <2>1, <2>2
<1> QED
  BY <1>5, <1>6 DEF MoneyInv

(* After any step what a move costs is still borne in full.                *)
LEMMA MoneyStep ==
    ASSUME Typed, OfferStands, TopUpIsTheMove, MoneyInv, Next
    PROVE  MoneyInv'
<1>1. move \in Moves /\ credit \in Credits
  BY DEF Typed, TypedRows
<1>2. CASE JobNext
  <2>1. UNCHANGED <<paid, adjustment, extras, credit, move>>
    BY <1>2 DEF JobNext, AcceptanceLapses, ShopFails, ExpireAcceptance,
       AcceptJob, Advance, CancelOrder, Deduct, Release, order, money,
       refunding
  <2> QED
    BY <2>1, MoneyKept
<1>3. CASE RecoveryNext
  <2>1. CASE AcceptSubstitute
    BY <2>1, MoneyMoved
  <2>2. CASE ~AcceptSubstitute
    <3>1. UNCHANGED <<paid, adjustment, extras>>
      BY <1>3, <2>2 DEF RecoveryNext, OfferLapses, RefreshOffer,
         RequestRefund, FileRefund, RefundUncollected, WithdrawRefund,
         RejectRefund, SettleRefund, PayRefund, PayCredit, order, money
    <3>2. credit'.amount = credit.amount
      BY <1>1, <1>3, <2>2 DEF RecoveryNext, OfferLapses, RefreshOffer,
         RequestRefund, FileRefund, RefundUncollected, WithdrawRefund,
         RejectRefund, SettleRefund, PayRefund, PayCredit, refunding, Credits
    <3>3. \/ move' = move
          \/ move' = [move EXCEPT !.status = "refund_requested"]
          \/ move' = [move EXCEPT !.status = "awaiting_payment"]
      BY <1>3, <2>2 DEF RecoveryNext, OfferLapses, RefreshOffer,
         RequestRefund, FileRefund, RefundChosen, RefundUncollected,
         WithdrawRefund, Restored, RejectRefund, SettleRefund, PayRefund,
         PayCredit
    <3>4. /\ move'.price = move.price /\ move'.cover = move.cover
          /\ move'.pays = move.pays
          /\ move'.status = "applied" => move.status = "applied"
      BY <1>1, <3>3 DEF Moves
    <3> QED
      BY <3>1, <3>2, <3>4, MoneyKept
  <2> QED
    BY <2>1, <2>2
<1>4. CASE ChangeNext
  <2>1. CASE ConfirmTransfer
    BY <2>1, MoneyConfirmed
  <2>2. CASE ~ConfirmTransfer
    <3>1. UNCHANGED <<paid, adjustment, extras, credit, move>>
      BY <1>4, <2>2 DEF ChangeNext, CreateChange, DeclineChange,
         AgreeToChange, SubmitTransfer, RejectTransfer, kept, order,
         refunding
    <3> QED
      BY <3>1, MoneyKept
  <2> QED
    BY <2>1, <2>2
<1>5. CASE DeadlineNext
  <2>1. UNCHANGED <<paid, adjustment, extras, credit>>
    BY <1>5 DEF DeadlineNext, RequestDeadline, DeadlineLapses,
       ExpireDeadline, AcceptDeadline, DeclineDeadline, RefreshRematch,
       AcceptRematch, RefundDeadline, FileRefund, ResolveDeadline, others,
       order, money, refunding
  <2>2. \/ move' = move
        \/ move' = [move EXCEPT !.status = "refund_requested"]
    BY <1>5 DEF DeadlineNext, RequestDeadline, DeadlineLapses,
       ExpireDeadline, AcceptDeadline, DeclineDeadline, RefreshRematch,
       AcceptRematch, RefundDeadline, FileRefund, RefundChosen,
       ResolveDeadline, others
  <2>3. /\ move'.price = move.price /\ move'.cover = move.cover
        /\ move'.pays = move.pays
        /\ move'.status = "applied" => move.status = "applied"
    BY <1>1, <2>2 DEF Moves
  <2> QED
    BY <2>1, <2>3, MoneyKept
<1> QED
  BY <1>2, <1>3, <1>4, <1>5 DEF Next

-----------------------------------------------------------------------------
(* The inductive invariant and the theorems.                               *)

Sound ==
    /\ Typed
    /\ RowsInv /\ RefundsInv
    /\ ShopsInv /\ RematchStands
    /\ MoneyInv

(* The first state is sound.                                               *)
LEMMA SoundInit == Init => Sound
<1> SUFFICES ASSUME Init PROVE Sound
  OBVIOUS
<1>1. Typed
  BY TypedInit
<1>2. change.status = "none" /\ recovery.status = "none" /\ refund = "none"
  BY DEF Init, NoChange, NoRecovery
<1>3. RowsInv /\ RefundsInv
  BY <1>2 DEF RowsInv, Followed, DatesStand, TopUpIsTheMove, OpenChange,
     OpenChanges, RefundsInv, ChoiceInv, ChangePaymentPending, Choosing
<1>4. ShopsInv
  <2>1. Cardinality({}) = 0
    BY FS_EmptySet
  <2>2. /\ declined = {} /\ recovery.n = 0 /\ recovery.offer = {}
        /\ move.of = 0
    BY DEF Init, NoRecovery, NoMove
  <2> QED
    BY <2>1, <2>2 DEF ShopsInv, Counted, WorkingShop, OfferStands
<1>5. RematchStands
  BY DEF Init, NoResched, RematchStands
<1>6. MoneyInv
  BY DEF Init, NoMove, MoneyInv, CoverHeld, MoveAddsUp, TopUpsPaid
<1> QED
  BY <1>1, <1>3, <1>4, <1>5, <1>6 DEF Sound

(* So is every state a step leads to.                                      *)
LEMMA SoundStep == Sound /\ [Next]_vars => Sound'
<1> SUFFICES ASSUME Sound, [Next]_vars PROVE Sound'
  OBVIOUS
<1>1. CASE Next
  <2>1. Typed'
    BY <1>1, TypedStep DEF Sound, MoneyInv
  <2>2. RowsInv' /\ RefundsInv'
    BY <1>1, <2>1, RowsStep, RefundsStep DEF Sound, ShopsInv
  <2>3. ShopsInv' /\ RematchStands'
    BY <1>1, ShopsStep, RematchStep DEF Sound
  <2>4. MoneyInv'
    BY <1>1, MoneyStep DEF Sound, ShopsInv, RowsInv
  <2> QED
    BY <2>1, <2>2, <2>3, <2>4 DEF Sound
<1>2. CASE UNCHANGED vars
  <2>1. Typed'
    BY <1>2, TypedStep DEF Sound, MoneyInv
  <2>2. RowsInv' /\ RefundsInv'
    BY <1>2 DEF Sound, vars, order, money, terms, refunding, RowsInv,
       Followed, DatesStand, TopUpIsTheMove, OpenChange, WindowOpen,
       RecoveryHeld, Held, AwaitedTopUp, RefundsInv, ChoiceInv, RefundStop,
       ChangePaymentPending
  <2>3. ShopsInv' /\ RematchStands' /\ MoneyInv'
    BY <1>2 DEF Sound, vars, order, money, terms, refunding, ShopsInv,
       Counted, WorkingShop, OfferStands, RematchStands, MoneyInv, CoverHeld,
       MoveAddsUp, TopUpsPaid
  <2> QED
    BY <2>1, <2>2, <2>3 DEF Sound
<1> QED
  BY <1>1, <1>2

(* So is every state there is.                                             *)
LEMMA AlwaysSound == Spec => []Sound
BY SoundInit, SoundStep, PTL DEF Spec

(* Every variable keeps its type: with each failure a shop fewer is left.  *)
THEOREM TypeCorrect == Spec => []TypeOK
<1>1. Sound => TypeOK
  <2> SUFFICES ASSUME Sound PROVE TypeOK
    OBVIOUS
  <2>1. Typed /\ Counted
    BY DEF Sound, ShopsInv
  <2>2. recovery \in Recoveries /\ move \in Moves /\ declined \subseteq Shops
    BY <2>1 DEF Typed, TypedRows, TypedOrder
  <2>3. /\ Cardinality(declined) <= Cardinality(Shops)
        /\ Cardinality(declined) \in Nat /\ Cardinality(Shops) \in Nat
    BY <2>2, FS_Subset, FS_CardinalityType
  <2>4. recovery.n \in Nat /\ move.of \in Nat
    BY <2>2 DEF Recoveries, Moves
  <2>5. recovery.n \in 0..Cardinality(Shops) /\ move.of \in 0..Cardinality(Shops)
    BY <2>1, <2>3, <2>4 DEF Counted
  <2>6. recovery \in [n : 0..Cardinality(Shops), fault : {"shop", "client"},
                      status : {"none", "accepted", "refund_requested",
                                "refunded"} \cup Choosing,
                      offer : OfferSets, current : BOOLEAN, topUp : BOOLEAN,
                      refund : BOOLEAN]
    BY <2>2, <2>5 DEF Recoveries
  <2>7. move \in [of : 0..Cardinality(Shops), price : Prices \cup {Subtotal},
                  status : {"none", "applied", "awaiting_payment",
                            "refund_requested"},
                  cover : Nat, pays : Nat]
    BY <2>2, <2>5 DEF Moves
  <2> QED
    BY <2>1, <2>6, <2>7 DEF TypeOK, Typed, TypedOrder, TypedMoney, TypedRows,
       OfferSets, Acceptances, Changes, Rescheds, Credits
<1> QED
  BY <1>1, AlwaysSound, PTL

(* What a shop and a client negotiate stays between them, and a client's   *)
(* refund never runs beside a choice or a transfer.                        *)
THEOREM TermsFollowTheShop == Spec => []OpenTermsFollowTheShop
<1>1. Sound => OpenTermsFollowTheShop
  BY DEF Sound, RowsInv, Followed, DatesStand, OpenChange, RefundsInv,
     ChoiceInv, OpenTermsFollowTheShop, RecoveryHeld, Held,
     ChangePaymentPending, OpenChanges
<1> QED
  BY <1>1, AlwaysSound, PTL

(* Whoever makes the job is paid its own price from money that is there.   *)
THEOREM MovesFunded == Spec => []MovesAreFunded
<1>1. Sound => MovesAreFunded
  <2> SUFFICES ASSUME Sound PROVE MovesAreFunded
    OBVIOUS
  <2>1. /\ adjustment \in Int /\ move.price \in Nat /\ move.cover \in Nat
        /\ move.pays \in Nat /\ credit.amount \in Nat
    BY DEF Sound, Typed, TypedMoney, TypedRows, Moves, Credits
  <2>2. StagesTotal = Subtotal + adjustment
    BY <2>1, StagesAddUp
  <2>3. StagesTotal <= Subtotal + move.cover - credit.amount
    BY <2>1, <2>2 DEF Sound, MoneyInv, MoveAddsUp
  <2>4. StagesTotal + move.pays = move.price
    BY <2>1, <2>2 DEF Sound, MoneyInv, MoveAddsUp
  <2> QED
    BY <2>3, <2>4 DEF Sound, MoneyInv, CoverHeld, TopUpsPaid, MovesAreFunded
<1> QED
  BY <1>1, AlwaysSound, PTL

=============================================================================
