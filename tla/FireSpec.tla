------------------------------ MODULE FireSpec ------------------------------
(***************************************************************************)
(* What the fire alarm unit promises: once raised, the alarm is never      *)
(* taken back, and no door is ordered open before it is raised.            *)
(* src/Source/firealarm.c implements it (module FireAlarm).                *)
(***************************************************************************)
CONSTANT Ports      \* the doors, by the port they listen on

VARIABLES
    alarm,      \* '-' or 'A'
    ordered     \* the doors that were sent OPEN_EMERG#

vars == <<alarm, ordered>>

Init == alarm = "-" /\ ordered = {}

Raise == alarm' = "A" /\ UNCHANGED ordered

OrderOpen(p) == /\ alarm = "A"
                /\ ordered' = ordered \cup {p}
                /\ UNCHANGED alarm

Next == Raise \/ \E p \in Ports : OrderOpen(p)

Spec == Init /\ [][Next]_vars

=============================================================================
