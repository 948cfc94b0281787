------------------------------ MODULE MCOrder ------------------------------
(***************************************************************************)
(* Order.tla on the instances TLC checks.  The amounts are the smallest    *)
(* for which the money can go wrong, which the assumption spells out.      *)
(***************************************************************************)
EXTENDS Order

(* The downpayment covers some of the shop's price and not all of it, every*)
(* stage is worth something, there is a fee and a delivery to return, and  *)
(* two refunds can follow each other or meet a claim.                      *)
ASSUME InterestingInstance ==
    /\ 0 < InitialPrincipal /\ InitialPrincipal < Subtotal
    /\ \A s \in StageCodes : StageAmounts[s] > 0
    /\ StageAmounts["production_started"] <= InitialPrincipal
    /\ InitialFee > 0 /\ InitialDelivery > 0
    /\ FulfillmentMode = "delivery" => RiderPayout > 0
    /\ Issues # {}
=============================================================================
