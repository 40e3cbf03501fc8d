----------------------------- MODULE MCScenario -----------------------------
(* Scenario for TLC: the codes are model values.                           *)
EXTENDS Scenario

CONSTANTS good, bad

=============================================================================
