----------------------------- MODULE FireSystem ------------------------------
(***************************************************************************)
(* The way of a fail-safe door from its registration to the fire: the      *)
(* overseer (module Overseer, src/Source/overseer.c) and the fire alarm    *)
(* unit (module FireAlarm, src/Source/firealarm.c), each step for step,    *)
(* with the datagrams between them.  A DOOR datagram the overseer sends is *)
(* one that arrives at the unit or is lost, and a DREG the overseer takes  *)
(* is one the unit sent.  FIRE comes from a pressed call point             *)
(* (src/Source/callpoint.c).                                               *)
(*                                                                         *)
(* Here every door listens, no socket call fails for want of resources and *)
(* the operator is silent: all that is in the modules of the components.   *)
(* What ends the unit is a door's port that it misreads.                   *)
(***************************************************************************)
EXTENDS Naturals, Sequences, FiniteSets

CONSTANTS
    SafeDoors, SecureDoors, Readers, Others, Unit, NoDoor,
    MaxDoors, MaxThreads, Lossy,
    PortOf,         \* the port of each fail-safe door
    MaxFailSafe, InboxMax, NetworkOrder

VARIABLES       \* the overseer (module Overseer)
    life, threads, pc, cur, i, match, dest, k, fa, listed, slots, cnt, at, j,
    main, listener, saved, sent, told, confirmed
VARIABLES       \* the unit (module FireAlarm)
    place,      \* its pc
    alarm, list, idx, inbox, up, ordered, dregs
VARIABLE
    pressed     \* a call point is pressed

O == INSTANCE Overseer WITH Faults <- FALSE
U == INSTANCE FireAlarm WITH
        pc <- place,
        Ports <- {PortOf[d] : d \in SafeDoors},
        Kinds <- {"FIRE", "DOOR"},
        Faults <- FALSE

overseerVars == <<life, threads, pc, cur, i, match, dest, k, fa, listed, slots,
                  cnt, at, j, main, listener, saved, sent, told, confirmed>>
unitVars == <<place, alarm, list, idx, inbox, up, ordered, dregs>>
vars     == <<overseerVars, unitVars, pressed>>

\* overseer.c puts ports into its datagrams in host byte order and the unit takes
\* them for network byte order: it reads the door's port only if its two bytes
\* are the same, or if the senders swap them (NetworkOrder).
Misread(d) == U!Dest(U!Field(PortOf[d])) # PortOf[d]

\* Every door has a port of its own, and no port is misread for that of another
\* door (none of 3000 to 3327, of which simulator.c takes its first ones, is).
ASSUME FireSystemAssumption ==
    /\ O!OverseerAssumption /\ U!FireAlarmAssumption
    /\ PortOf \in [SafeDoors -> Nat]
    /\ \A d, e \in SafeDoors : PortOf[d] = PortOf[e] => d = e
    /\ \A d, e \in SafeDoors : U!Dest(U!Field(PortOf[d])) = PortOf[e] => d = e

Init == /\ O!Init /\ U!Init
        /\ up = {PortOf[d] : d \in SafeDoors}
        /\ pressed = FALSE

-----------------------------------------------------------------------------
(* What one of the two does by itself.                                     *)

UnitStarts ==
    /\ U!Hello \/ U!Bind
    /\ UNCHANGED <<overseerVars, pressed>>

\* Before the fire: main.
UnitSteps ==
    /\ U!StoreDoor \/ U!SearchHangs \/ U!ListFull \/ U!RaiseAlarm
    /\ UNCHANGED <<overseerVars, pressed>>

\* In the fire: FIRE_protocal.
UnitOpens ==
    /\ U!OpenNext \/ U!OpenDone \/ U!OpenLate \/ U!IgnoreLate
    /\ UNCHANGED <<overseerVars, pressed>>

\* The unit's connection is there to be accepted once it said HELLO.
Accept(c) ==
    /\ c = Unit => place # "hello"
    /\ O!Accept(c)
    /\ UNCHANGED <<unitVars, pressed>>

\* What a handler does but for the datagrams it sends.
HandlerSteps(c) ==
    /\ \/ O!ServeReader(c) \/ O!ServeOther(c) \/ O!ServeSecure(c)
       \/ O!ServeSafe(c) \/ O!CheckAddress(c) \/ O!Save(c)
       \/ c = Unit /\ (O!WriteAddress \/ O!LoopTest \/ O!Fetch)
       \/ O!Resolve(c) \/ O!ScanTest(c) \/ O!ScanRead(c)
    /\ life' = "up"
    /\ UNCHANGED <<unitVars, pressed>>

\* TCP_listener starts a handler for the connection it accepted.
Spawns == O!Spawn /\ UNCHANGED <<unitVars, pressed>>

\* UDP_listener, but for what it takes from the unit.
ListenerSteps ==
    /\ O!Removal \/ O!NextDatagram
    /\ UNCHANGED <<unitVars, pressed>>

Press == ~pressed /\ pressed' = TRUE /\ UNCHANGED <<overseerVars, unitVars>>

-----------------------------------------------------------------------------
(* What goes between them.                                                 *)

\* The DOOR datagram of a door.
Door(d) == [type |-> "DOOR", port |-> U!Field(PortOf[d])]

TellUnit(c) ==
    /\ O!SendArrives(c)
    /\ U!Arrive(Door(cur[c]))
    /\ UNCHANGED pressed

\* Lost on the way, or on a socket that is not bound yet or has no room.
TellNobody(c) == O!SendLost(c) /\ UNCHANGED <<unitVars, pressed>>

\* A confirmation with a port in it.  Datagrams may be late and come twice.
TakeDreg(d) ==
    /\ [port |-> U!Field(PortOf[d]), whole |-> TRUE] \in dregs
    /\ O!TakeDreg(d)
    /\ UNCHANGED <<unitVars, pressed>>

\* A confirmation without: the port is what an earlier datagram left in the
\* buffer, or none.
TakeShortDreg ==
    /\ \E r \in dregs : ~r.whole
    /\ O!IgnoreDatagram \/ \E d \in confirmed : O!TakeDreg(d)
    /\ UNCHANGED <<unitVars, pressed>>

Fire ==
    /\ pressed
    /\ U!Arrive([type |-> "FIRE"])
    /\ UNCHANGED <<overseerVars, pressed>>

-----------------------------------------------------------------------------

Next == \/ UnitStarts \/ UnitSteps \/ UnitOpens \/ Spawns \/ ListenerSteps
        \/ \E c \in O!Clients : \/ Accept(c) \/ HandlerSteps(c)
                                \/ TellUnit(c) \/ TellNobody(c)
        \/ \E d \in SafeDoors : TakeDreg(d)
        \/ TakeShortDreg \/ Fire \/ Press

Spec == Init /\ [][Next]_vars

\* As in the modules of the components: the threads are scheduled, and of what
\* is sent without end, a DOOR datagram of the unit's handler, FIRE, or a
\* confirmation that can be had again and again, one arrives.  Of the handlers
\* of the doors nothing is assumed.
Fairness ==
    /\ WF_vars(UnitStarts \/ UnitSteps \/ UnitOpens) /\ WF_vars(ListenerSteps)
    /\ WF_vars(HandlerSteps(Unit) \/ TellUnit(Unit) \/ TellNobody(Unit))
    /\ SF_vars(TellUnit(Unit))
    /\ \A d \in SafeDoors : SF_vars(TakeDreg(d))
    /\ SF_vars(Fire)

FairSpec == Spec /\ Fairness

-----------------------------------------------------------------------------
(* Properties.                                                             *)

Opened(d) == PortOf[d] \in ordered
InList(d) == U!Listed(U!Field(PortOf[d]))
Waiting(d) == \E n \in DOMAIN inbox : inbox[n] = Door(d)
ListFull  == Len(list) = MaxFailSafe

\* A door is opened only if it registered, was told of, and there is a fire.
E == INSTANCE Evacuation WITH
        registered <- listed \cap SafeDoors, known <- told,
        reported <- pressed, opened <- {d \in SafeDoors : Opened(d)}
ImplementsEvacuation == E!Spec

\* A door whose datagram reached the unit stays known to it: the datagram
\* waits to be read, or the door is on the list, or was opened already, unless
\* the list ran full, the search hangs with the datagram in hand, or the door is
\* the one over whose misread port the unit ended.
ToldIsKept ==
    \A d \in told : \/ Waiting(d) \/ InList(d) \/ Opened(d)
                    \/ ListFull \/ place = "hung"
                    \/ place = "dead" /\ Misread(d)

\* When the unit has worked off its list in a fire, every door that the
\* overseer ever got a datagram through for is open or about to be; and one
\* that the overseer holds for confirmed is open.  A unit whose list holds a
\* misread port does not get there.
FireOpensTold ==
    place = "post" =>
        \A d \in told : Opened(d) \/ ListFull \/ (Waiting(d) /\ d \notin confirmed)

\* Once a fire is reported, every door the unit was told of is opened in the
\* end, whether it was told of before the alarm or during it, unless the list
\* ran full, the search hangs, or the unit ended over a door it was told of and
\* whose port it misreads: one such door takes the others with it.
ToldOpenInTheEnd ==
    \A d \in SafeDoors :
        pressed /\ d \in told
            ~> \/ Opened(d) \/ ListFull \/ place = "hung"
               \/ place = "dead" /\ \E e \in told : Misread(e)

\* Of the doors that wait when the unit registers, the first is resent until
\* the unit has it, and is taken off the queue if another waits behind it; a
\* fire, of which the unit's confirmations carry no port, ends that.
FirstSavedGetsThrough ==
    \A d \in SafeDoors :
        fa = "partial" /\ cnt > 1 /\ slots[0] = d
            ~> \/ d \in confirmed /\ ~O!Queued(d)
               \/ alarm = "A" \/ place = "hung"
-----------------------------------------------------------------------------
(* The inductive invariant behind the safety properties, with that of the      *)
(* overseer.                                                                    *)

\* The unit has this port from the overseer.
Known(f) == \E d \in told : f = U!Field(PortOf[d])

UnitTypes ==
    /\ place \in {"hello", "bind", "main", "fire", "post", "hung", "dead"}
    /\ list \in Seq(U!Fields) /\ Len(list) <= MaxFailSafe
    /\ idx \in 1 .. Len(list) + 1
    /\ inbox \in Seq(U!Datagrams)
    /\ up = {PortOf[d] : d \in SafeDoors}

\* What the unit holds came from the overseer, and a fire from a call point.
Origins ==
    /\ told \subseteq SafeDoors \cap listed
    /\ \A n \in DOMAIN list : Known(list[n])
    /\ \A n \in DOMAIN inbox :
          IF inbox[n].type = "DOOR" THEN Known(inbox[n].port) ELSE pressed
    /\ ordered \subseteq {PortOf[d] : d \in told}
    /\ place \in {"fire", "post"} => pressed

\* How far the unit is through its list.
Opening ==
    /\ place = "fire" => \A n \in 1 .. idx - 1 : U!Dest(list[n]) \in ordered
    /\ place = "post" => \A n \in DOMAIN list : U!Dest(list[n]) \in ordered

FireSystemInv == UnitTypes /\ Origins /\ Opening /\ ToldIsKept

\* What the overseer holds for confirmed, the unit confirmed.
ConfirmedByUnit ==
    \A d \in confirmed : [port |-> U!Field(PortOf[d]), whole |-> TRUE] \in dregs

-----------------------------------------------------------------------------
(* What the unit's own document promises beyond.                           *)

\* A list with room for every door has room for every door the overseer holds
\* for confirmed.
ConfirmedHasRoom ==
    Cardinality(SafeDoors) <= MaxFailSafe =>
        \A d \in confirmed : InList(d) \/ Opened(d)

=============================================================================
