------------------------------ MODULE MCRunner ------------------------------
(***************************************************************************)
(* Instances of Runner for TLC: programs launched within two seconds.      *)
(***************************************************************************)
EXTENDS Runner

CONSTANTS one, other
=============================================================================
