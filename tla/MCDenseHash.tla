---------------------------- MODULE MCDenseHash ----------------------------
(* Instances of DenseHash for TLC.                                         *)
EXTENDS DenseHash, TLC

CONSTANTS k1, k2, k3, k4, k5, v1, v2

(* k1, k2 and k5 collide in any size up to 16; k3 and k4 in small ones.    *)
Colliding == k1 :> 3 @@ k2 :> 3 @@ k3 :> 2 @@ k4 :> 6 @@ k5 :> 19

Stored    == {<<k1, v1>>, <<k1, v2>>, <<k2, v1>>, <<k3, v2>>, <<k4, v1>>}
TwoRanges == {<< <<k1, v1>>, <<k1, v2>> >>, << <<k2, v1>>, <<k3, v2>> >>}
=============================================================================
