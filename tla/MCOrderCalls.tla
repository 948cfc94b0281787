---------------------------- MODULE MCOrderCalls ----------------------------
(***************************************************************************)
(* OrderCalls.tla on the instance TLC checks.                              *)
(***************************************************************************)
EXTENDS OrderCalls, TLC

=============================================================================
