---------------------------- MODULE MCFireSystem ----------------------------
(* FireSystem for TLC.                                                     *)
EXTENDS FireSystem, TLC

CONSTANTS d1, d2

\* Of the ports that simulator.c hands out, from 3000 on: 3001 = 0x0BB9 is misread
\* in host byte order, 3084 = 0x0C0C is the first that reads the same.
TwoPorts == d1 :> 3001 @@ d2 :> 3084

=============================================================================
