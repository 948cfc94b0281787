----------------------------- MODULE MCRealtime -----------------------------
(***************************************************************************)
(* Realtime.tla on the instances TLC checks.                               *)
(***************************************************************************)
EXTENDS Realtime, TLC

=============================================================================
