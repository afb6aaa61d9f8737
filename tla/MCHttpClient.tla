---------------------------- MODULE MCHttpClient ----------------------------
(* Instances of HttpClient for TLC.                                        *)
EXTENDS HttpClient

CONSTANTS u1, u2, u3

TwoMirrors == <<u1, u2>>
=============================================================================
