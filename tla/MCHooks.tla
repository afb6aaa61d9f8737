------------------------------ MODULE MCHooks ------------------------------
(* Instances of Hooks for TLC.                                             *)
EXTENDS Hooks

CONSTANTS h1, h2, h3, h4
=============================================================================
