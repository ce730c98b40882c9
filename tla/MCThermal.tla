----------------------------- MODULE MCThermal -----------------------------
(* Instances of Thermal for TLC. *)
EXTENDS Thermal, TLC

CONSTANTS i1, i2, l1, l2

=============================================================================
