------------------------------- MODULE MCDoor -------------------------------
(* Door for TLC: model values for the connections, sets for MechInits.     *)
EXTENDS Door, TLC

CONSTANTS c1, c2, c3

AllMechs  == {"starting", "waiting", "elsewhere"}
ThreadUp  == {"waiting"}
Detached  == {"elsewhere"}

\* Connections are interchangeable: nothing compares them but for equality.
ConnSymmetry == Permutations(Conns)

=============================================================================
