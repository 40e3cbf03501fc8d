---------------------------- MODULE MCFireAlarm -----------------------------
(* FireAlarm for TLC: real port numbers, so that byte order matters.       *)
EXTENDS FireAlarm

\* 257 = 0x0101 and 514 = 0x0202 read the same both ways, 4001 = 0x0FA1 does not.
ThreePorts == {4001, 257, 514}

AllKinds == {"FIRE", "DOOR", "TEMP", "OTHER"}

=============================================================================
