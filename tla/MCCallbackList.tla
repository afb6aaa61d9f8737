--------------------------- MODULE MCCallbackList ---------------------------
(* Instances of CallbackList for TLC.                                      *)
EXTENDS CallbackList

CONSTANTS c1, c2, c3, c4
=============================================================================
