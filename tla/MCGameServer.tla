---------------------------- MODULE MCGameServer ----------------------------
(* Instances of GameServer for TLC. *)
EXTENDS GameServer, TLC
CONSTANTS p1, p2, a, b
TwoPlayers == {p1, p2}
TwoMaps == {1, 2}
OneCaller == {a}
TwoCallers == {a, b}
=============================================================================
