--------------------------- MODULE MCCasePlanning ---------------------------
(* Instances of CasePlanning for TLC. *)
EXTENDS CasePlanning
=============================================================================
