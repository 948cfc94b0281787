------------------------------ MODULE MCOffers ------------------------------
(* Two shops, two carts at once, and prices that may change.               *)
EXTENDS Offers, TLC

Interchangeable == Permutations(CartIds) \cup Permutations(Shops)
=============================================================================
