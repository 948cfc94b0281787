-------------------------- MODULE MCRefundCommands --------------------------
(* The client and two members of Operations.                               *)
EXTENDS RefundCommands

CONSTANTS client, ops, super
=============================================================================
