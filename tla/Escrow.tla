------------------------------- MODULE Escrow -------------------------------
(***************************************************************************)
(* What GRIDGO promises about the shop's price of one order, and nothing   *)
(* about how: money comes in from the client, leaves to the shop share by  *)
(* share, and once a refund settles the order the rest is divided between  *)
(* the shop and the client for good.  Order.tla is shown to implement this *)
(* specification.                                                          *)
(***************************************************************************)
EXTENDS Integers

VARIABLES received,  \* principal the client has paid and Operations confirmed
          paid,      \* principal recorded as sent to the shop
          owed,      \* principal a settlement has promised the shop, not sent
          returned,  \* principal settlements have given back to the client
          closed     \* a settlement has replaced the payout plan

vars == <<received, paid, owed, returned, closed>>

(* Every state of the ledger is made of non-negative amounts.              *)
TypeOK ==
    /\ received \in Nat
    /\ paid \in Nat
    /\ owed \in Nat
    /\ returned \in Nat
    /\ closed \in BOOLEAN

Init ==
    /\ received = 0
    /\ paid = 0
    /\ owed = 0
    /\ returned = 0
    /\ closed = FALSE

(* Operations confirms an instalment.  A settled order collects no more.   *)
Receive ==
    /\ ~closed
    /\ received' \in Nat
    /\ received' >= received
    /\ UNCHANGED <<paid, owed, returned, closed>>

(* A payout stage is released, out of money that has already arrived.      *)
PayShare ==
    /\ ~closed
    /\ paid' \in Nat
    /\ paid <= paid'
    /\ paid' <= received
    /\ UNCHANGED <<received, owed, returned, closed>>

(* A settlement divides what is left.  A later settlement may divide again *)
(* what an earlier one promised and has not sent, never what has moved.    *)
Settle ==
    /\ closed' = TRUE
    /\ owed' \in Nat
    /\ returned' \in Nat
    /\ returned <= returned'
    /\ paid + owed' + returned' <= received
    /\ UNCHANGED <<received, paid>>

(* The shop is sent exactly what the settlement promised it.               *)
PaySettlement ==
    /\ closed
    /\ owed > 0
    /\ paid' = paid + owed
    /\ owed' = 0
    /\ UNCHANGED <<received, returned, closed>>

Next == Receive \/ PayShare \/ Settle \/ PaySettlement

Spec == Init /\ [][Next]_vars

(* GRIDGO never pays out, promises or returns money it has not collected   *)
(* (operational-model.js releaseMilestone, refund-policy.js settlement).   *)
Covered == paid + owed + returned <= received
=============================================================================
