---------------------------- MODULE MCConsoleUI ----------------------------
(***************************************************************************)
(* Two clients; model values for them are not symmetric, for liveness.     *)
(***************************************************************************)
EXTENDS ConsoleUI
CONSTANTS c1, c2
=============================================================================
