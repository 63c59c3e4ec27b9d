----------------------------- MODULE MCMiniRedis ----------------------------
(* Three keys compete for two slots while the clock passes their deadline. *)
EXTENDS MiniRedis

CONSTANTS k1, k2, k3

ThreeKeys == {k1, k2, k3}
TwoValues == {1, 2}
OneValue == {1}
NoneOrOne == {0, 1}
=============================================================================
