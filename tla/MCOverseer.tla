----------------------------- MODULE MCOverseer -----------------------------
(* Overseer for TLC: the doors and clients are model values.               *)
EXTENDS Overseer, TLC

CONSTANTS d1, d2, d3, d4, s1, r1, o1

DoorSymmetry == Permutations({d1, d2, d3, d4})

=============================================================================
