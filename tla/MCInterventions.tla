--------------------------- MODULE MCInterventions ---------------------------
(***************************************************************************)
(* Interventions.tla on the instances TLC checks.                          *)
(***************************************************************************)
EXTENDS Interventions, TLC

=============================================================================
