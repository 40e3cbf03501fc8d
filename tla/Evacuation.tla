----------------------------- MODULE Evacuation ------------------------------
(***************************************************************************)
(* What the overseer and the fire alarm unit promise together: a door is   *)
(* ordered open only if it registered as a fail-safe door, the unit was    *)
(* told of it, and somebody reported a fire.  overseer.c and firealarm.c   *)
(* implement it between them (module FireSystem).                          *)
(***************************************************************************)
CONSTANT SafeDoors

VARIABLES
    registered,     \* the doors the overseer lists
    known,          \* the doors the unit was told of
    reported,       \* a fire was reported
    opened          \* the doors that were ordered open

vars == <<registered, known, reported, opened>>

Init == registered = {} /\ known = {} /\ reported = FALSE /\ opened = {}

Register(d) == /\ registered' = registered \cup {d}
               /\ UNCHANGED <<known, reported, opened>>

Tell(d) == /\ d \in registered
           /\ known' = known \cup {d}
           /\ UNCHANGED <<registered, reported, opened>>

Report == reported' = TRUE /\ UNCHANGED <<registered, known, opened>>

Open(d) == /\ reported /\ d \in known
           /\ opened' = opened \cup {d}
           /\ UNCHANGED <<registered, known, reported>>

Next == \/ \E d \in SafeDoors : Register(d) \/ Tell(d) \/ Open(d)
        \/ Report

Spec == Init /\ [][Next]_vars

=============================================================================
