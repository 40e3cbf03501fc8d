------------------------------ MODULE DoorSpec ------------------------------
(***************************************************************************)
(* What a door promises, whoever talks to it: it moves one leg at a time   *)
(* (closed, opening, open, closing), nothing moves it against the latch it *)
(* entered in an emergency (a fail-safe door: open; a fail-secure door:    *)
(* closed), and a forced move is what latches it.                          *)
(* The controller in src/Source/door.c together with the door's mechanism  *)
(* in src/Source/simulator.c implement it (module Door).                   *)
(***************************************************************************)

VARIABLES
    config,     \* "FAIL_SAFE" or "FAIL_SECURE", fixed when the door is built
    position,   \* where the door is
    latched     \* TRUE once the door is in emergency (or secure) mode

vars == <<config, position, latched>>

Configs   == {"FAIL_SAFE", "FAIL_SECURE"}
Positions == {"NUL", "C", "O", "c", "o"}

\* The positions a latched door may be in.
SafeSide == IF config = "FAIL_SAFE" THEN {"o", "O"} ELSE {"c", "C"}

TypeOK == /\ config \in Configs
          /\ position \in Positions
          /\ latched \in BOOLEAN

Init == /\ config \in Configs
        /\ position \in Positions
        /\ latched = FALSE

\* An ordinary order moves a door that is at rest, towards the other side.
Open == /\ position = "C"
        /\ position' = "o"
        /\ ~(latched /\ config = "FAIL_SECURE")
        /\ UNCHANGED <<config, latched>>

Close == /\ position = "O"
         /\ position' = "c"
         /\ ~(latched /\ config = "FAIL_SAFE")
         /\ UNCHANGED <<config, latched>>

\* An emergency order moves the door to its safe side from anywhere.
Force == /\ position' = IF config = "FAIL_SAFE" THEN "o" ELSE "c"
         /\ UNCHANGED <<config, latched>>

\* The mechanism ends the leg it is on.
Settle == /\ \/ position = "o" /\ position' = "O"
             \/ position = "c" /\ position' = "C"
          /\ UNCHANGED <<config, latched>>

\* The emergency becomes permanent; only a door already forced is latched.
Latch == /\ position \in SafeSide
         /\ latched' = TRUE
         /\ UNCHANGED <<config, position>>

Next == Open \/ Close \/ Force \/ Settle \/ Latch

Spec == Init /\ [][Next]_vars

\* A door does not stop half way.
FairSpec == Spec /\ WF_vars(Settle)

-----------------------------------------------------------------------------

\* A latched door stays on its safe side.
LatchHolds == latched => position \in SafeSide

=============================================================================
