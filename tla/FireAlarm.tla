----------------------------- MODULE FireAlarm ------------------------------
(***************************************************************************)
(* The fire alarm unit, src/Source/firealarm.c: it registers with the      *)
(* overseer, binds its UDP port, collects the fail-safe doors it is told   *)
(* of in a fixed array, and at the first FIRE datagram raises the alarm    *)
(* and sends every door OPEN_EMERG#, then every door it hears of later.    *)
(*                                                                         *)
(* The peers are the environment: datagrams arrive in any order and any    *)
(* number (what UDP loses never gets here, what is sent again comes        *)
(* twice); a door process may not listen yet, or no longer.                *)
(***************************************************************************)
EXTENDS Naturals, Sequences

CONSTANTS
    Ports,          \* 16-bit ports the fail-safe doors listen on
    MaxFailSafe,    \* size of door_list (MAX_FAIL_SAFE)
    InboxMax,       \* datagrams the socket's receive buffer takes
    Kinds,          \* headers that reach the socket
    NetworkOrder,   \* senders write door_port in network byte order; overseer.c
                    \* does not
    Faults          \* TRUE when socket calls may fail for want of resources

ASSUME FireAlarmAssumption ==
    /\ Ports \subseteq {p \in Nat : p < 65536}
    /\ MaxFailSafe \in Nat \ {0}
    /\ InboxMax \in Nat \ {0}
    /\ Kinds \subseteq {"FIRE", "DOOR", "TEMP", "OTHER"}
    /\ NetworkOrder \in BOOLEAN /\ Faults \in BOOLEAN

VARIABLES
    pc,         \* where the unit is: before, in and after the FIRE protocol
    alarm,      \* firealarm_shm.alarm
    list,       \* door_list[0 .. door_num - 1], by door_port
    idx,        \* FIRE_protocal's loop index, 1-based
    inbox,      \* datagrams received by the kernel and not read
    up,         \* doors that accept connections
    ordered,    \* doors that were sent OPEN_EMERG#
    dregs       \* confirmations sent to the overseer

vars == <<pc, alarm, list, idx, inbox, up, ordered, dregs>>

\* htons, ntohs: the two bytes of a 16-bit number change places.
Swap(v) == (v % 256) * 256 + v \div 256

\* door_port as the senders of DOOR datagrams write it.
Field(p) == IF NetworkOrder THEN Swap(p) ELSE p
Fields   == {Field(p) : p \in Ports}

\* The port send_emergency connects to: ntohs by its caller, ntohs on the way
\* into sin_port, and the kernel reads sin_port in network byte order.
Dest(f) == Swap(Swap(Swap(f)))

Datagrams == [type : Kinds \ {"DOOR"}] \cup
             [type : Kinds \cap {"DOOR"}, port : Fields]

Listed(f) == \E i \in DOMAIN list : list[i] = f

Init == /\ pc = "hello"
        /\ alarm = "-"
        /\ list = <<>>
        /\ idx = 1
        /\ inbox = <<>>
        /\ up \in SUBSET Ports
        /\ ordered = {}
        /\ dregs = {}

-----------------------------------------------------------------------------
(* The environment.                                                        *)

\* Only a bound socket with room in its buffer keeps what is sent to it.
Arrive(d) ==
    /\ pc \notin {"hello", "bind", "dead"}
    /\ Len(inbox) < InboxMax
    /\ inbox' = Append(inbox, d)
    /\ UNCHANGED <<pc, alarm, list, idx, up, ordered, dregs>>

\* A door registers before it binds and listens (door.c:44), so that the unit may
\* be told of it earlier ...
DoorListens(p) ==
    /\ p \notin up
    /\ up' = up \cup {p}
    /\ UNCHANGED <<pc, alarm, list, idx, inbox, ordered, dregs>>

\* ... and its process may end.
DoorStops(p) ==
    /\ p \in up
    /\ up' = up \ {p}
    /\ UNCHANGED <<pc, alarm, list, idx, inbox, ordered, dregs>>

-----------------------------------------------------------------------------
(* Start.                                                                  *)

\* HELLO goes to the overseer, and only then is the UDP port bound.
Hello ==
    /\ pc = "hello"
    /\ pc' \in {"bind"} \cup (IF Faults THEN {"dead"} ELSE {})
    /\ UNCHANGED <<alarm, list, idx, inbox, up, ordered, dregs>>

Bind ==
    /\ pc = "bind"
    /\ pc' \in {"main"} \cup (IF Faults THEN {"dead"} ELSE {})
    /\ UNCHANGED <<alarm, list, idx, inbox, up, ordered, dregs>>

-----------------------------------------------------------------------------
(* Before the fire: the loop of main.                                      *)

Receive(at, kind) ==
    /\ pc = at
    /\ inbox # <<>> /\ Head(inbox).type = kind
    /\ inbox' = Tail(inbox)

\* The door a DOOR datagram tells of.
Told == Head(inbox).port

Dreg(f, whole) == dregs' = dregs \cup {[port |-> f, whole |-> whole]}

\* Mutant of StoreDoor: the array bound is not tested.
StoreDoorUnbounded ==
    /\ Receive("main", "DOOR")
    /\ list' = Append(list, Told)
    /\ Dreg(Told, TRUE)
    /\ UNCHANGED <<pc, alarm, idx, up, ordered>>

\* Mutant of StoreDoor: the door is confirmed and the store forgotten.
StoreDoorForgets ==
    /\ Receive("main", "DOOR")
    /\ Len(list) < MaxFailSafe
    /\ Dreg(Told, TRUE)
    /\ UNCHANGED <<pc, alarm, list, idx, up, ordered>>

\* A door is told of and there is room.  The search for it looks only at the
\* first unused slot, so a door that is listed already is stored again.
StoreDoor ==
    /\ Receive("main", "DOOR")
    /\ Len(list) < MaxFailSafe
    /\ list' = Append(list, Told)
    /\ Dreg(Told, TRUE)
    /\ UNCHANGED <<pc, alarm, idx, up, ordered>>

\* The unused slot holds old bytes; if they are the very port by accident, the
\* loop never ends.
SearchHangs ==
    /\ Receive("main", "DOOR")
    /\ Len(list) \in 1 .. MaxFailSafe - 1
    /\ pc' = "hung"
    /\ UNCHANGED <<alarm, list, idx, up, ordered, dregs>>

\* No room: the door is not stored, but confirmed like any other.
ListFull ==
    /\ Receive("main", "DOOR")
    /\ Len(list) = MaxFailSafe
    /\ Dreg(Told, TRUE)
    /\ UNCHANGED <<pc, alarm, list, idx, up, ordered>>

SkipTemp ==
    /\ Receive("main", "TEMP")
    /\ UNCHANGED <<pc, alarm, list, idx, up, ordered, dregs>>

UnexpectedHeader ==
    /\ Receive("main", "OTHER")
    /\ pc' = "dead"
    /\ UNCHANGED <<alarm, list, idx, up, ordered, dregs>>

\* A socket call of the loop of main fails: recvfrom, or sendto of a DREG.
SocketFails ==
    /\ Faults /\ pc = "main"
    /\ pc' = "dead"
    /\ UNCHANGED <<alarm, list, idx, inbox, up, ordered, dregs>>

-----------------------------------------------------------------------------
(* The fire: FIRE_protocal.                                                *)

\* Mutant of RaiseAlarm: the alarm is raised after the doors, or never.
RaiseNothing ==
    /\ Receive("main", "FIRE")
    /\ pc' = "fire"
    /\ idx' = 1
    /\ UNCHANGED <<alarm, list, up, ordered, dregs>>

RaiseAlarm ==
    /\ Receive("main", "FIRE")
    /\ alarm' = "A"
    /\ pc' = "fire"
    /\ idx' = 1
    /\ UNCHANGED <<list, up, ordered, dregs>>

Reaches(f) == Dest(f) \in up

\* send_emergency: a socket that cannot be had and a door that does not accept are
\* only reported; the message is then sent on a bad descriptor, and send_message
\* ends the unit.
SendEmergency(f) ==
    \/ Reaches(f) /\ ordered' = ordered \cup {Dest(f)} /\ UNCHANGED pc
    \/ (Faults \/ ~Reaches(f)) /\ pc' = "dead" /\ UNCHANGED ordered

OpenNext ==
    /\ pc = "fire" /\ idx <= Len(list)
    /\ SendEmergency(list[idx])
    /\ idx' = idx + 1
    /\ UNCHANGED <<alarm, list, inbox, up, dregs>>

\* Mutant of OpenDone: the loop ends one door early.
OpenDoneEarly ==
    /\ pc = "fire" /\ idx >= Len(list)
    /\ pc' = "post"
    /\ UNCHANGED <<alarm, list, idx, inbox, up, ordered, dregs>>

OpenDone ==
    /\ pc = "fire" /\ idx > Len(list)
    /\ pc' = "post"
    /\ UNCHANGED <<alarm, list, idx, inbox, up, ordered, dregs>>

\* Mutant of OpenLate: the door is only confirmed, as before the fire.
OpenLateForgets ==
    /\ Receive("post", "DOOR")
    /\ Dreg(Told, FALSE)
    /\ UNCHANGED <<pc, alarm, list, idx, up, ordered>>

\* A door told of during the fire is opened at once and confirmed, by eight of
\* the datagram's twelve bytes: the port is not among them.  A confirmation that
\* cannot be sent is left out.
OpenLate ==
    /\ Receive("post", "DOOR")
    /\ SendEmergency(Told)
    /\ \/ pc' = "post" /\ Dreg(Told, FALSE)
       \/ (Faults \/ pc' = "dead") /\ UNCHANGED dregs
    /\ UNCHANGED <<alarm, list, idx, up>>

IgnoreLate ==
    /\ \E kind \in Kinds \ {"DOOR"} : Receive("post", kind)
    /\ UNCHANGED <<pc, alarm, list, idx, up, ordered, dregs>>

-----------------------------------------------------------------------------

Steps == \/ Hello \/ Bind
         \/ StoreDoor \/ SearchHangs \/ ListFull \/ SkipTemp \/ UnexpectedHeader
         \/ RaiseAlarm \/ OpenNext \/ OpenDone \/ OpenLate \/ IgnoreLate

Environment == \/ \E d \in Datagrams : Arrive(d)
               \/ \E p \in Ports : DoorListens(p) \/ DoorStops(p)

Next == Steps \/ SocketFails \/ Environment

Spec == Init /\ [][Next]_vars

\* The unit is scheduled; and a call point that was pressed sends FIRE without
\* end (callpoint.c), so that the buffer does not lose every one of them.
Fairness == /\ WF_vars(Steps)
            /\ SF_vars(Arrive([type |-> "FIRE"]))

FairSpec == Spec /\ Fairness

-----------------------------------------------------------------------------
(* Properties.                                                             *)

\* Types; the door list never outgrows its array, and the loop over it stays
\* inside.
TypeOK ==
    /\ pc \in {"hello", "bind", "main", "fire", "post", "hung", "dead"}
    /\ alarm \in {"-", "A"}
    /\ list \in Seq(Fields) /\ Len(list) <= MaxFailSafe
    /\ idx \in 1 .. Len(list) + 1
    /\ inbox \in Seq(Datagrams) /\ Len(inbox) <= InboxMax
    /\ up \in SUBSET Ports
    /\ ordered \in SUBSET Ports
    /\ dregs \in SUBSET [port : Fields, whole : BOOLEAN]

\* When the unit is through with its list, every door it ever confirmed to the
\* overseer was sent OPEN_EMERG#, unless the list had run full.
ConfirmedIsOpened ==
    pc = "post" =>
        \A r \in dregs : Dest(r.port) \in ordered \/ Len(list) = MaxFailSafe

\* The alarm comes before the doors, and for good.
Abs == INSTANCE FireSpec
ImplementsFireSpec == Abs!Spec

\* Once the alarm is raised the unit works off its list, however many datagrams
\* keep coming: every listed door is sent OPEN_EMERG# at the port that becomes of
\* it on the way (its own if the sender wrote network byte order), or the unit
\* ended over a door that cannot be reached or a call that failed.
ListIsWorkedOff ==
    \A f \in Fields :
        alarm = "A" /\ Listed(f) ~> Dest(f) \in ordered \/ pc = "dead"

\* A fire reported without end is heard, whatever else fills the buffer.
FireHeard == pc = "main" ~> alarm = "A" \/ pc \in {"dead", "hung"}

-----------------------------------------------------------------------------
(* The invariant that is inductive.                                        *)

\* Progress of the opening loop, and where every confirmed door is.
FireInv ==
    /\ TypeOK
    /\ ordered # {} \/ pc \in {"fire", "post"} => alarm = "A"
    /\ pc = "fire" => \A i \in 1 .. idx - 1 : Dest(list[i]) \in ordered
    /\ pc = "post" => \A i \in DOMAIN list : Dest(list[i]) \in ordered
    /\ \A r \in dregs : \/ Listed(r.port)
                        \/ Len(list) = MaxFailSafe
                        \/ Dest(r.port) \in ordered

=============================================================================
