------------------------------ MODULE Registry ------------------------------
(***************************************************************************)
(* What the overseer promises about registrations: the fire alarm unit is  *)
(* told only of fail-safe doors that registered, and only after the unit   *)
(* registered itself.  src/Source/overseer.c implements it (module         *)
(* Overseer).                                                              *)
(***************************************************************************)
CONSTANTS SafeDoors, SecureDoors    \* the doors, by their configuration

VARIABLES
    listed,     \* the doors that registered
    announced,  \* the fire alarm unit registered
    sent        \* the doors the unit was sent a DOOR datagram of

vars == <<listed, announced, sent>>

Init == listed = {} /\ announced = FALSE /\ sent = {}

Register(d) == /\ listed' = listed \cup {d}
               /\ UNCHANGED <<announced, sent>>

Announce == announced' = TRUE /\ UNCHANGED <<listed, sent>>

Tell(d) == /\ announced /\ d \in listed
           /\ sent' = sent \cup {d}
           /\ UNCHANGED <<listed, announced>>

Next == \/ \E d \in SafeDoors \cup SecureDoors : Register(d)
        \/ Announce
        \/ \E d \in SafeDoors : Tell(d)

Spec == Init /\ [][Next]_vars

=============================================================================
