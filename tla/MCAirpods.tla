----------------------------- MODULE MCAirpods ------------------------------
(* Instances of Airpods for TLC. *)
EXTENDS Airpods
CONSTANTS a, b
TwoCallers == {a, b}
=============================================================================
