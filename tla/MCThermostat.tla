---------------------------- MODULE MCThermostat ----------------------------
(* Instances of Thermostat for TLC. *)
EXTENDS Thermostat
CONSTANTS r1, a, b
OneRoom == {r1}
TwoCallers == {a, b}
=============================================================================
