------------------------------- MODULE MCOSL -------------------------------
(* Instances of OSL for TLC.                                               *)
EXTENDS OSL
=============================================================================
