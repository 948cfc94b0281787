------------------------------ MODULE MCFiles ------------------------------
(***************************************************************************)
(* Files.tla on the instance TLC checks.                                   *)
(***************************************************************************)
EXTENDS Files, TLC

=============================================================================
