-------------------------- MODULE FireAlarmProofs ---------------------------
(***************************************************************************)
(* Theorems about FireAlarm, for any set of doors, list and buffer size,   *)
(* byte order and any datagrams: FireInv is inductive; with it, every      *)
(* confirmed door is opened unless the list is full, and the unit          *)
(* implements FireSpec.  How port bytes are swapped plays no part there:   *)
(* Dest and Field stay closed up to the section on ports, which says what  *)
(* byte order a port must arrive in for its door to be reached.            *)
(***************************************************************************)
EXTENDS FireAlarm, TLAPS

LEMMA Sizes == MaxFailSafe \in Nat \ {0} /\ InboxMax \in Nat \ {0}
  BY FireAlarmAssumption DEF FireAlarmAssumption

LEMMA InitFire == Init => FireInv
<1> SUFFICES ASSUME Init PROVE FireInv
  OBVIOUS
<1>1. TypeOK
  BY Sizes DEF Init, TypeOK
<1> QED BY <1>1 DEF Init, FireInv

\* Receiving takes a datagram of the right kind off the buffer.
LEMMA ReceiveFacts ==
    ASSUME FireInv, NEW at, NEW kind, Receive(at, kind)
    PROVE  /\ Head(inbox) \in Datagrams
           /\ inbox' \in Seq(Datagrams) /\ Len(inbox') <= InboxMax
           /\ kind = "DOOR" => Told \in Fields
<1>1. inbox \in Seq(Datagrams) /\ inbox # <<>> /\ Len(inbox) <= InboxMax
  BY DEF FireInv, TypeOK, Receive
<1>2. /\ Head(inbox) \in Datagrams
      /\ Tail(inbox) \in Seq(Datagrams) /\ Len(Tail(inbox)) <= InboxMax
  BY <1>1, Sizes
<1>3. kind = "DOOR" => Told \in Fields
  BY <1>2 DEF Receive, Datagrams, Told
<1> QED BY <1>2, <1>3 DEF Receive

LEMMA DregType ==
    ASSUME NEW f \in Fields, NEW whole \in BOOLEAN
    PROVE  [port |-> f, whole |-> whole] \in [port : Fields, whole : BOOLEAN]
  OBVIOUS

\* Whatever leaves the doors' part of the state alone preserves FireInv.
LEMMA QuietStep ==
    ASSUME FireInv, UNCHANGED <<alarm, list, idx, ordered, dregs>>,
           inbox' \in Seq(Datagrams), Len(inbox') <= InboxMax, up' \in SUBSET Ports,
           \/ pc' = pc
           \/ pc' \in {"bind", "main", "hung", "dead"}
    PROVE  FireInv'
<1>1. TypeOK'
  BY DEF FireInv, TypeOK
<1>2. (\A r \in dregs : \/ Listed(r.port)
                        \/ Len(list) = MaxFailSafe
                        \/ Dest(r.port) \in ordered)'
  BY DEF FireInv, Listed
<1> QED BY <1>1, <1>2 DEF FireInv

LEMMA EnvironmentStep == FireInv /\ Environment => FireInv'
<1>1. ASSUME FireInv, NEW d \in Datagrams, Arrive(d) PROVE FireInv'
  <2>1. inbox \in Seq(Datagrams) /\ Len(inbox) < InboxMax
    BY <1>1 DEF Arrive, FireInv, TypeOK
  <2>2. inbox' \in Seq(Datagrams) /\ Len(inbox') <= InboxMax
    BY <1>1, <2>1, Sizes DEF Arrive
  <2>3. up' \in SUBSET Ports
    BY <1>1 DEF Arrive, FireInv, TypeOK
  <2> QED BY <1>1, <2>2, <2>3, QuietStep DEF Arrive
<1>2. ASSUME FireInv, NEW p \in Ports, DoorStops(p) PROVE FireInv'
  <2>1. inbox' \in Seq(Datagrams) /\ Len(inbox') <= InboxMax /\ up' \in SUBSET Ports
    BY <1>2 DEF DoorStops, FireInv, TypeOK
  <2> QED BY <1>2, <2>1, QuietStep DEF DoorStops
<1>3. ASSUME FireInv, NEW p \in Ports, DoorListens(p) PROVE FireInv'
  <2>1. inbox' \in Seq(Datagrams) /\ Len(inbox') <= InboxMax /\ up' \in SUBSET Ports
    BY <1>3 DEF DoorListens, FireInv, TypeOK
  <2> QED BY <1>3, <2>1, QuietStep DEF DoorListens
<1> QED BY <1>1, <1>2, <1>3 DEF Environment

\* A new entry at the end of the list: nothing listed is lost.
LEMMA StoreStep == FireInv /\ StoreDoor => FireInv'
<1> SUFFICES ASSUME FireInv, StoreDoor PROVE FireInv'
  OBVIOUS
<1>1. /\ Told \in Fields /\ pc = "main"
      /\ inbox' \in Seq(Datagrams) /\ Len(inbox') <= InboxMax
  BY ReceiveFacts DEF StoreDoor, Receive
<1>2. list \in Seq(Fields) /\ Len(list) < MaxFailSafe /\ list' = Append(list, Told)
  BY DEF StoreDoor, FireInv, TypeOK
<1>3. /\ list' \in Seq(Fields) /\ Len(list') = Len(list) + 1
      /\ Len(list') <= MaxFailSafe
      /\ \A i \in DOMAIN list : i \in DOMAIN list' /\ list'[i] = list[i]
      /\ Len(list') \in DOMAIN list' /\ list'[Len(list')] = Told
  BY <1>1, <1>2, Sizes
<1>4. dregs' = dregs \cup {[port |-> Told, whole |-> TRUE]}
  BY DEF StoreDoor, Dreg
<1>5. TypeOK'
  <2>1. idx \in 1 .. Len(list') + 1
    BY <1>2, <1>3 DEF FireInv, TypeOK
  <2>2. dregs' \in SUBSET [port : Fields, whole : BOOLEAN]
    BY <1>1, <1>4, DregType DEF FireInv, TypeOK
  <2>3. /\ pc' = "main" /\ alarm' \in {"-", "A"} /\ idx' = idx
        /\ up' \in SUBSET Ports /\ ordered' \in SUBSET Ports
    BY <1>1 DEF StoreDoor, FireInv, TypeOK
  <2> QED BY <1>1, <1>3, <2>1, <2>2, <2>3 DEF TypeOK
<1>6. \A g : Listed(g) => \E i \in DOMAIN list' : list'[i] = g
  BY <1>3 DEF Listed
<1>7. \E i \in DOMAIN list' : list'[i] = Told
  BY <1>3
<1>8. \A r \in dregs : Listed(r.port) \/ Dest(r.port) \in ordered
  BY <1>2 DEF FireInv
<1>9. \A r \in dregs' : \/ \E i \in DOMAIN list' : list'[i] = r.port
                       \/ Dest(r.port) \in ordered'
  <2> SUFFICES ASSUME NEW r \in dregs'
               PROVE  \/ \E i \in DOMAIN list' : list'[i] = r.port
                      \/ Dest(r.port) \in ordered'
    OBVIOUS
  <2>1. CASE r \in dregs
    BY <2>1, <1>6, <1>8 DEF StoreDoor
  <2>2. CASE r = [port |-> Told, whole |-> TRUE]
    BY <2>2, <1>7
  <2> QED BY <1>4, <2>1, <2>2
<1> QED BY <1>1, <1>5, <1>9 DEF StoreDoor, FireInv, Listed

LEMMA FullStep == FireInv /\ ListFull => FireInv'
<1> SUFFICES ASSUME FireInv, ListFull PROVE FireInv'
  OBVIOUS
<1>1. /\ Told \in Fields /\ pc = "main"
      /\ inbox' \in Seq(Datagrams) /\ Len(inbox') <= InboxMax
  BY ReceiveFacts DEF ListFull, Receive
<1>2. TypeOK'
  BY <1>1, DregType DEF ListFull, Dreg, FireInv, TypeOK
<1> QED BY <1>1, <1>2 DEF ListFull, FireInv

\* An entry of the list is opened, or the unit ends.
LEMMA OpenStep == FireInv /\ OpenNext => FireInv'
<1> SUFFICES ASSUME FireInv, OpenNext PROVE FireInv'
  OBVIOUS
<1>1. idx \in 1 .. Len(list) /\ idx' = idx + 1 /\ list \in Seq(Fields)
  BY DEF OpenNext, FireInv, TypeOK
<1>2. ordered \in SUBSET Ports /\ ordered \subseteq ordered' /\ ordered' \in SUBSET Ports
  BY DEF OpenNext, SendEmergency, Reaches, FireInv, TypeOK
<1>3. TypeOK'
  BY <1>1, <1>2 DEF OpenNext, SendEmergency, FireInv, TypeOK
<1>4. CASE pc' = "fire"
  <2>1. \A i \in 1 .. idx - 1 : Dest(list[i]) \in ordered
    BY DEF OpenNext, FireInv
  <2>2. Dest(list[idx]) \in ordered'
    BY <1>4 DEF OpenNext, SendEmergency
  <2>3. \A i \in 1 .. idx' - 1 : Dest(list[i]) \in ordered'
    BY <1>1, <1>2, <2>1, <2>2
  <2> QED BY <1>2, <1>3, <1>4, <2>3 DEF OpenNext, SendEmergency, FireInv, Listed
<1>5. CASE pc' = "dead"
  BY <1>2, <1>3, <1>5 DEF OpenNext, SendEmergency, FireInv, Listed
<1> QED BY <1>4, <1>5 DEF OpenNext, SendEmergency

\* The loop is over: all of the list was opened.
LEMMA DoneStep == FireInv /\ OpenDone => FireInv'
<1> SUFFICES ASSUME FireInv, OpenDone PROVE FireInv'
  OBVIOUS
<1>1. DOMAIN list = 1 .. idx - 1 /\ pc = "fire" /\ pc' = "post"
  BY DEF OpenDone, FireInv, TypeOK
<1>2. \A i \in DOMAIN list : Dest(list[i]) \in ordered
  BY <1>1 DEF FireInv
<1>3. TypeOK'
  BY <1>1 DEF OpenDone, FireInv, TypeOK
<1> QED BY <1>1, <1>2, <1>3 DEF OpenDone, FireInv, Listed

LEMMA LateStep == FireInv /\ OpenLate => FireInv'
<1> SUFFICES ASSUME FireInv, OpenLate PROVE FireInv'
  OBVIOUS
<1>1. /\ Told \in Fields /\ pc = "post"
      /\ inbox' \in Seq(Datagrams) /\ Len(inbox') <= InboxMax
  BY ReceiveFacts DEF OpenLate, Receive
<1>2. ordered \subseteq ordered' /\ ordered' \in SUBSET Ports
  BY DEF OpenLate, SendEmergency, Reaches, FireInv, TypeOK
<1>3. /\ dregs' \in {dregs, dregs \cup {[port |-> Told, whole |-> FALSE]}}
      /\ dregs' # dregs => Dest(Told) \in ordered'
  BY DEF OpenLate, SendEmergency, Dreg
<1>4. TypeOK'
  BY <1>1, <1>2, <1>3, DregType DEF OpenLate, SendEmergency, FireInv, TypeOK
<1>5. \A r \in dregs' : r \in dregs \/ Dest(r.port) \in ordered'
  <2> QED BY <1>3
<1> QED BY <1>1, <1>2, <1>4, <1>5 DEF OpenLate, SendEmergency, FireInv, Listed

LEMMA UnitStep == FireInv /\ (Steps \/ SocketFails) => FireInv'
<1> SUFFICES ASSUME FireInv, Steps \/ SocketFails PROVE FireInv'
  OBVIOUS
<1>1. inbox \in Seq(Datagrams) /\ Len(inbox) <= InboxMax /\ up \in SUBSET Ports
  BY DEF FireInv, TypeOK
<1>2. CASE Hello \/ Bind \/ SocketFails
  BY <1>1, <1>2, QuietStep DEF Hello, Bind, SocketFails
<1>3. CASE SearchHangs \/ SkipTemp \/ UnexpectedHeader
  BY <1>1, <1>3, QuietStep, ReceiveFacts DEF SearchHangs, SkipTemp, UnexpectedHeader
<1>4. CASE IgnoreLate
  BY <1>1, <1>4, QuietStep, ReceiveFacts DEF IgnoreLate
<1>5. CASE RaiseAlarm
  <2>1. inbox' \in Seq(Datagrams) /\ Len(inbox') <= InboxMax
    BY <1>5, ReceiveFacts DEF RaiseAlarm
  <2>2. TypeOK'
    BY <1>5, <2>1 DEF RaiseAlarm, FireInv, TypeOK
  <2> QED BY <1>5, <2>2 DEF RaiseAlarm, FireInv, Listed
<1> QED BY <1>2, <1>3, <1>4, <1>5, StoreStep, FullStep, OpenStep, DoneStep, LateStep
        DEF Steps

LEMMA NextFire == FireInv /\ [Next]_vars => FireInv'
<1>1. FireInv /\ UNCHANGED vars => FireInv'
  BY DEF vars, FireInv, TypeOK, Listed
<1> QED BY <1>1, UnitStep, EnvironmentStep DEF Next

THEOREM FireInvariant == Spec => []FireInv
  BY InitFire, NextFire, PTL DEF Spec

\* The list never outgrows its array, and the opening loop stays inside it.
THEOREM FireTypes == Spec => []TypeOK
<1>1. FireInv => TypeOK
  BY DEF FireInv
<1> QED BY <1>1, FireInvariant, PTL

\* After the fire, a confirmed door was opened or the list is full.
THEOREM FireOpensConfirmed == Spec => []ConfirmedIsOpened
<1>1. FireInv => ConfirmedIsOpened
  BY DEF FireInv, ConfirmedIsOpened, Listed
<1> QED BY <1>1, FireInvariant, PTL

\* No door is ordered open before the alarm, and the alarm stays.
THEOREM FireRefines == Spec => ImplementsFireSpec
<1>1. Init => Abs!Init
  BY DEF Init, Abs!Init
<1>2. FireInv /\ [Next]_vars => [Abs!Next]_(Abs!vars)
  <2> SUFFICES ASSUME FireInv, [Next]_vars PROVE Abs!Next \/ UNCHANGED Abs!vars
    OBVIOUS
  <2> USE DEF Abs!vars
  <2>1. CASE RaiseAlarm
    BY <2>1 DEF RaiseAlarm, Abs!Next, Abs!Raise
  <2>2. ASSUME NEW f, SendEmergency(f), alarm = "A", UNCHANGED alarm
        PROVE  Abs!Next \/ UNCHANGED Abs!vars
    <3>1. Reaches(f) => Dest(f) \in Ports
      BY DEF Reaches, FireInv, TypeOK
    <3> QED BY <2>2, <3>1 DEF SendEmergency, Abs!Next, Abs!OrderOpen
  <2>3. CASE OpenNext \/ OpenLate
    BY <2>2, <2>3 DEF OpenNext, OpenLate, FireInv, Receive
  <2>4. CASE UNCHANGED vars
    BY <2>4 DEF vars
  <2>5. CASE Environment
    BY <2>5 DEF Environment, Arrive, DoorListens, DoorStops
  <2>6. CASE \/ Hello \/ Bind \/ StoreDoor \/ SearchHangs \/ ListFull \/ SkipTemp
             \/ UnexpectedHeader \/ OpenDone \/ IgnoreLate \/ SocketFails
    BY <2>6 DEF Hello, Bind, StoreDoor, SearchHangs, ListFull, SkipTemp,
                UnexpectedHeader, OpenDone, IgnoreLate, SocketFails
  <2> QED BY <2>1, <2>3, <2>4, <2>5, <2>6 DEF Next, Steps
<1> QED BY <1>1, <1>2, FireInvariant, PTL DEF Spec, ImplementsFireSpec, Abs!Spec

-----------------------------------------------------------------------------
(* Ports.                                                                  *)

Words == {v \in Nat : v < 65536}

LEMMA BytesOf ==
    ASSUME NEW v \in Words
    PROVE  \E h, l \in 0 .. 255 : v = 256 * h + l /\ h = v \div 256 /\ l = v % 256
<1> PICK h \in Nat, l \in 0 .. 255 : v = 256 * h + l /\ h = v \div 256 /\ l = v % 256
  <2>1. v % 256 \in 0 .. 255
    BY DEF Words
  <2>2. v \div 256 \in Nat
    BY DEF Words
  <2>3. v = 256 * (v \div 256) + (v % 256)
    BY DEF Words
  <2> QED BY <2>1, <2>2, <2>3
<1>1. h \in 0 .. 255
  BY DEF Words
<1> WITNESS h \in 0 .. 255, l \in 0 .. 255
<1> QED OBVIOUS

LEMMA SwapTwice == ASSUME NEW v \in Words PROVE Swap(v) \in Words /\ Swap(Swap(v)) = v
<1> PICK h, l \in 0 .. 255 : v = 256 * h + l /\ h = v \div 256 /\ l = v % 256
  BY BytesOf
<1>1. Swap(v) = 256 * l + h
  BY DEF Swap
<1>2. Swap(256 * l + h) = 256 * h + l
  BY DEF Swap
<1> QED BY <1>1, <1>2 DEF Words

LEMMA PortsAreWords == Ports \subseteq Words
  BY FireAlarmAssumption DEF FireAlarmAssumption, Words

\* The three swaps on the way to connect leave one, which undoes the sender's
\* if it made one: a door is reached whatever its port.
THEOREM PortReached == NetworkOrder => \A p \in Ports : Dest(Field(p)) = p
  BY SwapTwice, PortsAreWords DEF Dest, Field

\* If the sender made none (overseer.c:356 against firealarm.c:33), just the
\* ports that read the same in either byte order are reached.
THEOREM PortMissed ==
    ~NetworkOrder => \A p \in Ports : Dest(Field(p)) = p <=> p % 256 = p \div 256
<1> SUFFICES ASSUME ~NetworkOrder, NEW p \in Ports
             PROVE  Dest(Field(p)) = p <=> p % 256 = p \div 256
  OBVIOUS
<1>1. Dest(Field(p)) = Swap(p)
  BY SwapTwice, PortsAreWords DEF Dest, Field
<1>2. p \in Words
  BY PortsAreWords
<1> PICK h, l \in 0 .. 255 : p = 256 * h + l /\ h = p \div 256 /\ l = p % 256
  BY <1>2, BytesOf
<1>3. Swap(p) = 256 * l + h
  BY DEF Swap
<1> QED BY <1>1, <1>3

\* In a fire the unit ends for one of three reasons (firealarm.c:11-23): a socket
\* call fails, a door does not listen, or the port of a door does not read the
\* same both ways and came in host byte order.  No datagram and no order of them
\* ends it otherwise.
THEOREM EndsOnlyOverADoor ==
    Spec => [][pc' = "dead" /\ pc \in {"fire", "post"} =>
                 \/ Faults
                 \/ up # Ports
                 \/ ~NetworkOrder /\ \E p \in Ports : p % 256 # p \div 256]_vars
<1> DEFINE Misread == ~NetworkOrder /\ \E p \in Ports : p % 256 # p \div 256
           Reason  == Faults \/ up # Ports \/ Misread
<1>1. FireInv /\ [Next]_vars
        => [pc' = "dead" /\ pc \in {"fire", "post"} => Reason]_vars
  <2> SUFFICES ASSUME FireInv, Next, pc \in {"fire", "post"}, pc' = "dead"
               PROVE  Reason
    BY DEF vars
  <2>1. ASSUME NEW f \in Fields, SendEmergency(f) PROVE Reason
    <3>1. Faults \/ ~Reaches(f)
      BY <2>1 DEF SendEmergency
    <3>2. PICK p \in Ports : f = Field(p)
      BY DEF Fields
    <3>3. CASE ~Reaches(f) /\ up = Ports
      <4>1. Dest(Field(p)) # p
        BY <3>2, <3>3 DEF Reaches
      <4>2. ~NetworkOrder
        BY <4>1, PortReached
      <4>3. p % 256 # p \div 256
        BY <4>1, <4>2, PortMissed
      <4> QED BY <4>2, <4>3
    <3> QED BY <3>1, <3>3
  <2>2. CASE OpenNext
    <3>1. list[idx] \in Fields
      BY <2>2 DEF OpenNext, FireInv, TypeOK
    <3> QED BY <2>1, <2>2, <3>1 DEF OpenNext
  <2>3. CASE OpenLate
    <3>1. Told \in Fields
      BY <2>3, ReceiveFacts DEF OpenLate
    <3> QED BY <2>1, <2>3, <3>1 DEF OpenLate
  <2>4. OpenNext \/ OpenLate
    BY DEF Next, Steps, Environment, SocketFails, Hello, Bind, StoreDoor, SearchHangs,
       ListFull, SkipTemp, UnexpectedHeader, RaiseAlarm, OpenDone, IgnoreLate, Receive,
       Arrive, DoorListens, DoorStops
  <2> QED BY <2>2, <2>3, <2>4
<1> QED BY <1>1, FireInvariant, PTL DEF Spec

\* FIRE_protocal comes to its end: the list it works through stays as it is, and
\* every step of the unit takes it one entry further, up to the last (the safety
\* half of ListIsWorkedOff, firealarm.c:32).
THEOREM OpeningMovesOn ==
    Spec => [][pc = "fire" =>
                 /\ list' = list /\ idx <= Len(list) + 1
                 /\ \/ idx' = idx + 1
                    \/ idx' = idx /\ pc' = "post"
                    \/ idx' = idx /\ Environment]_vars
<1> DEFINE MovesOn == pc = "fire" =>
                 /\ list' = list /\ idx <= Len(list) + 1
                 /\ \/ idx' = idx + 1
                    \/ idx' = idx /\ pc' = "post"
                    \/ idx' = idx /\ Environment
<1>1. FireInv /\ [Next]_vars => [MovesOn]_vars
  <2> SUFFICES ASSUME FireInv, Next, pc = "fire" PROVE MovesOn
    OBVIOUS
  <2>1. idx <= Len(list) + 1
    BY DEF FireInv, TypeOK
  <2>2. CASE OpenNext
    BY <2>1, <2>2 DEF OpenNext
  <2>3. CASE OpenDone
    BY <2>1, <2>3 DEF OpenDone
  <2>4. CASE Environment
    BY <2>1, <2>4 DEF Environment, Arrive, DoorListens, DoorStops
  <2> QED BY <2>2, <2>3, <2>4 DEF Next, Steps, SocketFails, Hello, Bind, StoreDoor,
       SearchHangs, ListFull, SkipTemp, UnexpectedHeader, RaiseAlarm, OpenLate, IgnoreLate,
       Receive
<1> QED BY <1>1, FireInvariant, PTL DEF Spec

=============================================================================
