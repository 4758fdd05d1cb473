-------------------------------- MODULE MCClient -------------------------------
(* Instances of Client for TLC: two rows of one scope.                         *)
EXTENDS Client

CONSTANTS k1, k2
================================================================================
