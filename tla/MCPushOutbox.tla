---------------------------- MODULE MCPushOutbox ----------------------------
(***************************************************************************)
(* PushOutbox.tla on the instance TLC checks, with one mishap at most: a   *)
(* crash, a failed query or a lease that lapses under a slow send.  None   *)
(* of them is fair, so the behaviours left out are only those with more.   *)
(***************************************************************************)
EXTENDS PushOutbox

OneMishapNext == Next /\ faults' + outlived' <= 1
OneMishapSpec == Init /\ [][OneMishapNext]_vars /\ Fairness
=============================================================================
