---------------------------- MODULE MCCheckout ----------------------------
(* A basket of two groups and a cart of one, and two vouchers.             *)
EXTENDS Checkout

CONSTANTS c1, c2, g1, g2, g3

MCGroupsOf == [c \in {c1, c2} |-> IF c = c1 THEN {g1, g2} ELSE {g3}]
=============================================================================
