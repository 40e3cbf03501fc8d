-------------------------- MODULE FireSystemProofs ---------------------------
(***************************************************************************)
(* Proofs about module FireSystem.  Every step of the composition is one   *)
(* of the overseer or leaves it alone, so that the overseer's invariant    *)
(* (module OverseerProofs) holds here too; with it, what the unit holds    *)
(* goes back to doors the overseer listed.                                 *)
(***************************************************************************)
EXTENDS FireSystem, TLAPS

OP == INSTANCE OverseerProofs WITH Faults <- FALSE
UP == INSTANCE FireAlarmProofs WITH
        pc <- place,
        Ports <- {PortOf[d] : d \in SafeDoors},
        Kinds <- {"FIRE", "DOOR"},
        Faults <- FALSE

LEMMA Assumption == OP!OverseerAssumption
  BY FireSystemAssumption
     DEF OP!OverseerAssumption, O!OverseerAssumption, OP!IsFiniteSet,
         O!IsFiniteSet, OP!Cardinality, O!Cardinality

LEMMA Constants ==
    /\ MaxFailSafe \in Nat \ {0} /\ InboxMax \in Nat \ {0}
    /\ PortOf \in [SafeDoors -> Nat]
    /\ \A d, e \in SafeDoors : PortOf[d] = PortOf[e] => d = e
    /\ \A d, e \in SafeDoors : U!Dest(U!Field(PortOf[d])) = PortOf[e] => d = e
  BY FireSystemAssumption DEF FireSystemAssumption, U!FireAlarmAssumption

-----------------------------------------------------------------------------
(* The overseer's part.                                                    *)

LEMMA AcceptIsOne == ASSUME NEW c \in O!Clients, Accept(c) PROVE OP!Next
<1>1. OP!Accept(c) /\ c \in OP!Clients
  BY DEF Accept, O!Accept, OP!Accept, O!Served, OP!Served, O!Go, OP!Go,
         O!Clients, OP!Clients, O!process, OP!process, O!queue, OP!queue,
         O!history, OP!history, O!Cardinality, OP!Cardinality
<1> QED BY <1>1 DEF OP!Next

LEMMA HandlerIsOne == ASSUME NEW c \in O!Clients, HandlerSteps(c) PROVE OP!Next
<1>1. OP!Handler(c) /\ c \in OP!Clients
  <2>1. c \in OP!Clients
    BY DEF O!Clients, OP!Clients
  <2>2. CASE O!ServeReader(c) \/ O!ServeOther(c) \/ O!ServeSecure(c) \/ O!ServeSafe(c)
    BY <2>1, <2>2
       DEF O!ServeReader, OP!ServeReader, O!ServeOther, OP!ServeOther,
           O!ServeSecure, OP!ServeSecure, O!ServeSafe, OP!ServeSafe, OP!Handler,
           O!Die, OP!Die, O!handlers, OP!handlers, O!Go, OP!Go,
           O!process, OP!process, O!queue, OP!queue, O!history, OP!history
  <2>3. CASE O!CheckAddress(c) \/ O!Save(c)
    BY <2>1, <2>3
       DEF O!CheckAddress, OP!CheckAddress, O!Save, OP!Save, OP!Handler,
           O!MutexFree, OP!MutexFree, O!Go, OP!Go,
           O!process, OP!process, O!queue, OP!queue, O!history, OP!history
  <2>4. CASE c = Unit /\ (O!WriteAddress \/ O!LoopTest \/ O!Fetch)
    BY <2>1, <2>4
       DEF O!WriteAddress, OP!WriteAddress, O!LoopTest, OP!LoopTest,
           O!Fetch, OP!Fetch, OP!Handler, O!Go, OP!Go,
           O!process, OP!process, O!queue, OP!queue, O!history, OP!history
  <2>5. CASE O!Resolve(c) \/ O!ScanTest(c) \/ O!ScanRead(c)
    BY <2>1, <2>5
       DEF O!Resolve, OP!Resolve, O!ScanTest, OP!ScanTest, O!ScanRead, OP!ScanRead,
           O!Return, OP!Return, O!Die, OP!Die, OP!Handler, OP!Register,
           O!handlers, OP!handlers, O!Go, OP!Go,
           O!process, OP!process, O!queue, OP!queue, O!history, OP!history
  <2> QED BY <2>1, <2>2, <2>3, <2>4, <2>5 DEF HandlerSteps
<1> QED BY <1>1 DEF OP!Next

LEMMA ListenerIsOne == ASSUME Spawns \/ ListenerSteps PROVE OP!Next
  BY DEF Spawns, ListenerSteps, O!Spawn, OP!Spawn, O!Removal, OP!Removal,
         O!RemoveTest, OP!RemoveTest, O!Shift, OP!Shift, O!Drop, OP!Drop,
         O!NextDatagram, OP!NextDatagram, OP!UDPListener, OP!Next,
         O!handlers, OP!handlers, O!process, OP!process, O!queue, OP!queue,
         O!history, OP!history

LEMMA TellIsOne ==
    ASSUME NEW c \in O!Clients, TellUnit(c) \/ TellNobody(c) PROVE OP!Next
<1>1. c \in OP!Clients
  BY DEF O!Clients, OP!Clients
<1>2. OP!SendArrives(c) \/ OP!SendLost(c)
  BY DEF TellUnit, TellNobody, O!SendArrives, OP!SendArrives, O!SendLost, OP!SendLost,
         O!SendDoor, OP!SendDoor, O!Go, OP!Go, O!process, OP!process,
         O!queue, OP!queue
<1> QED BY <1>1, <1>2 DEF OP!Next, OP!Handler, OP!Register

LEMMA DregIsOne ==
    ASSUME told \subseteq SafeDoors, confirmed \subseteq told,
           TakeShortDreg \/ \E d \in SafeDoors : TakeDreg(d)
    PROVE  OP!Next
<1>1. ASSUME NEW d \in SafeDoors, O!TakeDreg(d) PROVE OP!TakeDreg(d)
  BY <1>1 DEF O!TakeDreg, OP!TakeDreg, O!Queued, OP!Queued, O!process, OP!process,
              O!handlers, OP!handlers
<1>2. O!IgnoreDatagram => OP!IgnoreDatagram
  BY DEF O!IgnoreDatagram, OP!IgnoreDatagram, O!process, OP!process,
         O!handlers, OP!handlers, O!history, OP!history
<1> QED BY <1>1, <1>2 DEF TakeDreg, TakeShortDreg, OP!Next, OP!UDPListener

\* A step of the composition is one of the overseer, or none.
LEMMA OverseerStep ==
    ASSUME OP!OverseerInv, [Next]_vars PROVE [OP!Next]_(OP!vars)
<1>1. told \subseteq SafeDoors /\ confirmed \subseteq told
  BY DEF OP!OverseerInv, OP!TypeOK
<1>2. CASE UNCHANGED overseerVars
  BY <1>2 DEF overseerVars, OP!vars, OP!process, OP!handlers, OP!queue, OP!history
<1>3. CASE UnitStarts \/ UnitSteps \/ UnitOpens \/ Fire \/ Press \/ UNCHANGED vars
  BY <1>2, <1>3 DEF UnitStarts, UnitSteps, UnitOpens, Fire, Press, vars
<1> QED BY <1>1, <1>3, AcceptIsOne, HandlerIsOne, ListenerIsOne, TellIsOne, DregIsOne
        DEF Next

LEMMA OverseerKept == OP!OverseerInv /\ [Next]_vars => OP!OverseerInv'
  BY OverseerStep, Assumption, OP!NextOverseer

LEMMA OverseerStarts == Init => OP!OverseerInv
<1>1. Init => OP!Init
  BY DEF Init, O!Init, OP!Init, O!Indices, OP!Indices, O!Clients, OP!Clients
<1> QED BY <1>1, Assumption, OP!InitOverseer


-----------------------------------------------------------------------------
(* The unit's part.                                                        *)

LEMMA InitInv == Init => FireSystemInv
<1> SUFFICES ASSUME Init PROVE FireSystemInv
  OBVIOUS
<1>1. /\ told = {} /\ list = <<>> /\ inbox = <<>> /\ ordered = {} /\ idx = 1
      /\ place = "hello" /\ up = {PortOf[d] : d \in SafeDoors}
  BY DEF Init, O!Init, U!Init
<1>2. UnitTypes
  BY <1>1, Constants DEF UnitTypes
<1>3. Origins
  BY <1>1 DEF Origins
<1>4. Opening
  BY <1>1 DEF Opening
<1>5. ToldIsKept
  BY <1>1 DEF ToldIsKept
<1> QED BY <1>2, <1>3, <1>4, <1>5 DEF FireSystemInv

\* Steps that leave the unit alone.
LEMMA QuietStep ==
    ASSUME FireSystemInv, UNCHANGED unitVars, told' = told,
           listed \subseteq listed', pressed => pressed'
    PROVE  FireSystemInv'
<1> USE DEF unitVars
<1>1. UnitTypes'
  BY DEF FireSystemInv, UnitTypes
<1>2. Origins'
  BY DEF FireSystemInv, Origins, Known
<1>3. Opening'
  BY DEF FireSystemInv, Opening
<1>4. ToldIsKept'
  BY DEF FireSystemInv, ToldIsKept, Waiting, InList, U!Listed, Opened, ListFull
<1> QED BY <1>1, <1>2, <1>3, <1>4 DEF FireSystemInv

\* What the overseer does alone changes nothing for the unit.
LEMMA AcceptStep == ASSUME FireSystemInv, NEW c, Accept(c) PROVE FireSystemInv'
  BY QuietStep DEF Accept, O!Accept, O!history

LEMMA HandlerStep == ASSUME FireSystemInv, NEW c, HandlerSteps(c) PROVE FireSystemInv'
<1>1. listed \subseteq listed' /\ told' = told
  BY DEF HandlerSteps, O!ServeReader, O!ServeOther, O!ServeSecure, O!ServeSafe,
         O!CheckAddress, O!Save, O!WriteAddress, O!LoopTest, O!Fetch, O!Resolve,
         O!ScanTest, O!ScanRead, O!Die, O!history
<1> QED BY <1>1, QuietStep DEF HandlerSteps

LEMMA ListenerStep ==
    ASSUME FireSystemInv, Spawns \/ ListenerSteps PROVE FireSystemInv'
<1>1. listed' = listed /\ told' = told
  BY DEF Spawns, ListenerSteps, O!Spawn, O!Removal, O!RemoveTest, O!Shift, O!Drop,
         O!NextDatagram, O!history
<1> QED BY <1>1, QuietStep DEF Spawns, ListenerSteps

LEMMA LostStep == ASSUME FireSystemInv, NEW c, TellNobody(c) PROVE FireSystemInv'
  BY QuietStep DEF TellNobody, O!SendLost, O!SendDoor

LEMMA DregStep ==
    ASSUME FireSystemInv, TakeShortDreg \/ \E d \in SafeDoors : TakeDreg(d)
    PROVE  FireSystemInv'
<1>1. listed' = listed /\ told' = told /\ UNCHANGED <<unitVars, pressed>>
  BY DEF TakeShortDreg, TakeDreg, O!IgnoreDatagram, O!TakeDreg, O!history
<1> QED BY <1>1, QuietStep

\* A datagram that arrives leaves the others where they are.
LEMMA ArriveFacts ==
    ASSUME FireSystemInv, NEW g \in U!Datagrams, U!Arrive(g)
    PROVE  /\ inbox' \in Seq(U!Datagrams)
           /\ \A n \in DOMAIN inbox : n \in DOMAIN inbox' /\ inbox'[n] = inbox[n]
           /\ \A n \in DOMAIN inbox' : n \in DOMAIN inbox \/ inbox'[n] = g
           /\ \E n \in DOMAIN inbox' : inbox'[n] = g
<1>1. inbox \in Seq(U!Datagrams) /\ inbox' = Append(inbox, g)
  BY DEF FireSystemInv, UnitTypes, U!Arrive
<1>2. /\ inbox' \in Seq(U!Datagrams) /\ Len(inbox') = Len(inbox) + 1
      /\ \A n \in 1 .. Len(inbox) : inbox'[n] = inbox[n]
      /\ inbox'[Len(inbox) + 1] = g
  BY <1>1
<1>3. DOMAIN inbox = 1 .. Len(inbox) /\ DOMAIN inbox' = 1 .. Len(inbox')
  BY <1>1, <1>2
<1> QED BY <1>1, <1>2, <1>3

LEMMA PortField == ASSUME NEW d \in SafeDoors PROVE U!Field(PortOf[d]) \in U!Fields
  BY DEF U!Fields

LEMMA DoorDatagram == ASSUME NEW d \in SafeDoors PROVE Door(d) \in U!Datagrams
  BY PortField DEF Door, U!Datagrams

LEMMA FireStep == FireSystemInv /\ Fire => FireSystemInv'
<1> SUFFICES ASSUME FireSystemInv, Fire PROVE FireSystemInv'
  OBVIOUS
<1> DEFINE g == [type |-> "FIRE"]
<1>1. g \in U!Datagrams /\ g.type # "DOOR" /\ U!Arrive(g)
  BY DEF U!Datagrams, Fire
<1>2. /\ UNCHANGED <<place, list, idx, up, ordered, told, listed, pressed>>
      /\ pressed
  BY DEF Fire, U!Arrive, overseerVars
<1>3. /\ inbox' \in Seq(U!Datagrams)
      /\ \A n \in DOMAIN inbox : n \in DOMAIN inbox' /\ inbox'[n] = inbox[n]
      /\ \A n \in DOMAIN inbox' : n \in DOMAIN inbox \/ inbox'[n] = g
  BY <1>1, ArriveFacts
<1> HIDE DEF g
<1>4. UnitTypes'
  BY <1>2, <1>3 DEF FireSystemInv, UnitTypes
<1>5. Origins'
  BY <1>1, <1>2, <1>3 DEF FireSystemInv, Origins, Known
<1>6. Opening'
  BY <1>2 DEF FireSystemInv, Opening
<1>7. ToldIsKept'
  BY <1>2, <1>3 DEF FireSystemInv, ToldIsKept, Waiting, InList, U!Listed, Opened, ListFull
<1> QED BY <1>4, <1>5, <1>6, <1>7 DEF FireSystemInv

\* The door the unit is told of is one that its handler runs register_door on.
LEMMA ToldIsListed ==
    ASSUME OP!OverseerInv, NEW c \in O!Clients, TellUnit(c)
    PROVE  cur[c] \in SafeDoors \cap listed /\ told' = told \cup {cur[c]}
<1>1. c \in OP!Clients /\ OP!Registering(c)
  BY DEF TellUnit, O!SendArrives, O!SendDoor, OP!Registering, O!Clients, OP!Clients
<1> QED BY <1>1 DEF TellUnit, O!SendArrives, OP!OverseerInv, OP!HandlersInv

LEMMA TellStep ==
    ASSUME OP!OverseerInv, FireSystemInv, NEW c \in O!Clients, TellUnit(c)
    PROVE  FireSystemInv'
<1> PICK d \in SafeDoors \cap listed : d = cur[c] /\ told' = told \cup {d}
  BY ToldIsListed
<1>1. U!Arrive(Door(d)) /\ Door(d) \in U!Datagrams
  BY DoorDatagram DEF TellUnit
<1>2. UNCHANGED <<place, list, idx, up, ordered, listed, pressed>>
  BY <1>1 DEF U!Arrive, TellUnit, O!SendArrives, O!SendDoor
<1>3. /\ inbox' \in Seq(U!Datagrams)
      /\ \A n \in DOMAIN inbox : n \in DOMAIN inbox' /\ inbox'[n] = inbox[n]
      /\ \A n \in DOMAIN inbox' : n \in DOMAIN inbox \/ inbox'[n] = Door(d)
      /\ \E n \in DOMAIN inbox' : inbox'[n] = Door(d)
  BY <1>1, ArriveFacts
<1>4. Door(d).type = "DOOR" /\ Door(d).port = U!Field(PortOf[d])
  BY DEF Door
<1>5. UnitTypes'
  BY <1>2, <1>3 DEF FireSystemInv, UnitTypes
<1>6. Origins'
  <2>1. \A f : Known(f) => \E x \in told' : f = U!Field(PortOf[x])
    BY DEF Known
  <2>2. \A n \in DOMAIN inbox' :
            IF inbox'[n].type = "DOOR"
            THEN \E x \in told' : inbox'[n].port = U!Field(PortOf[x])
            ELSE pressed'
    <3> TAKE n \in DOMAIN inbox'
    <3>1. CASE inbox'[n] = Door(d)
      BY <3>1, <1>4
    <3>2. CASE n \in DOMAIN inbox
      <4>1. inbox'[n] = inbox[n] /\ pressed' = pressed
        BY <3>2, <1>2, <1>3
      <4>2. IF inbox[n].type = "DOOR" THEN Known(inbox[n].port) ELSE pressed
        BY <3>2 DEF FireSystemInv, Origins
      <4> QED BY <4>1, <4>2, <2>1
    <3> QED BY <3>1, <3>2, <1>3
  <2>3. \A n \in DOMAIN list' : \E x \in told' : list'[n] = U!Field(PortOf[x])
    BY <1>2, <2>1 DEF FireSystemInv, Origins
  <2>4. /\ told' \subseteq SafeDoors \cap listed'
        /\ ordered' \subseteq {PortOf[x] : x \in told'}
        /\ place' \in {"fire", "post"} => pressed'
    BY <1>2 DEF FireSystemInv, Origins
  <2> QED BY <2>2, <2>3, <2>4 DEF Origins, Known
<1>7. Opening'
  BY <1>2 DEF FireSystemInv, Opening
<1>8. ToldIsKept'
  BY <1>2, <1>3 DEF FireSystemInv, ToldIsKept, Waiting, InList, U!Listed, Opened, ListFull
<1> QED BY <1>5, <1>6, <1>7, <1>8 DEF FireSystemInv


\* A datagram is read: the others stay, and it came from the overseer or a
\* pressed call point.
LEMMA ReceiveFacts ==
    ASSUME FireSystemInv, NEW from, NEW kind, U!Receive(from, kind)
    PROVE  /\ inbox' \in Seq(U!Datagrams) /\ place = from
           /\ \A n \in DOMAIN inbox' : n + 1 \in DOMAIN inbox /\ inbox'[n] = inbox[n + 1]
           /\ \A n \in DOMAIN inbox : \/ inbox[n].type = kind /\ inbox[n] = Head(inbox)
                                     \/ \E m \in DOMAIN inbox' : inbox'[m] = inbox[n]
           /\ IF kind = "DOOR" THEN U!Told \in U!Fields /\ Known(U!Told) ELSE pressed
<1>1. /\ inbox \in Seq(U!Datagrams) /\ inbox # <<>> /\ inbox' = Tail(inbox)
      /\ Head(inbox).type = kind /\ place = from
  BY DEF FireSystemInv, UnitTypes, U!Receive
<1>2. /\ Len(inbox) \in Nat \ {0} /\ DOMAIN inbox = 1 .. Len(inbox)
      /\ Head(inbox) = inbox[1] /\ Head(inbox) \in U!Datagrams
      /\ inbox' \in Seq(U!Datagrams) /\ DOMAIN inbox' = 1 .. Len(inbox) - 1
      /\ \A n \in 1 .. Len(inbox) - 1 : inbox'[n] = inbox[n + 1]
  BY <1>1
<1>3. \A n \in DOMAIN inbox' : n + 1 \in DOMAIN inbox /\ inbox'[n] = inbox[n + 1]
  BY <1>2
<1>4. \A n \in DOMAIN inbox : \/ inbox[n].type = kind /\ inbox[n] = Head(inbox)
                             \/ \E m \in DOMAIN inbox' : inbox'[m] = inbox[n]
  <2> TAKE n \in DOMAIN inbox
  <2>1. CASE n = 1
    BY <1>1, <1>2, <2>1
  <2>2. CASE n # 1
    <3>1. n - 1 \in DOMAIN inbox' /\ (n - 1) + 1 = n
      BY <1>2, <2>2
    <3> QED BY <1>3, <3>1
  <2> QED BY <2>1, <2>2
<1>5. IF kind = "DOOR" THEN U!Told \in U!Fields /\ Known(U!Told) ELSE pressed
  <2>1. 1 \in DOMAIN inbox /\ inbox[1].type = kind /\ inbox[1] \in U!Datagrams
    BY <1>1, <1>2
  <2>2. IF kind = "DOOR" THEN Known(inbox[1].port) ELSE pressed
    BY <2>1 DEF FireSystemInv, Origins
  <2>3. kind = "DOOR" => inbox[1].port \in U!Fields
    BY <2>1 DEF U!Datagrams
  <2> QED BY <1>2, <2>2, <2>3 DEF U!Told
<1> QED BY <1>1, <1>2, <1>3, <1>4, <1>5

\* What remains in the buffer is as it was, and of the doors only the one just
\* told of waits no more.
LEMMA Remains ==
    ASSUME FireSystemInv, NEW from, NEW kind, U!Receive(from, kind),
           told' = told, pressed' = pressed
    PROVE  /\ \A n \in DOMAIN inbox' :
                 IF inbox'[n].type = "DOOR" THEN Known(inbox'[n].port) ELSE pressed'
           /\ \A d \in SafeDoors : Waiting(d) =>
                 \/ \E n \in DOMAIN inbox' : inbox'[n] = Door(d)
                 \/ kind = "DOOR" /\ U!Told = U!Field(PortOf[d])
<1>1. ASSUME NEW n \in DOMAIN inbox'
      PROVE  IF inbox'[n].type = "DOOR" THEN Known(inbox'[n].port) ELSE pressed'
  <2>1. n + 1 \in DOMAIN inbox /\ inbox'[n] = inbox[n + 1]
    BY ReceiveFacts
  <2>2. IF inbox[n + 1].type = "DOOR" THEN Known(inbox[n + 1].port) ELSE pressed
    BY <2>1 DEF FireSystemInv, Origins
  <2> QED BY <2>1, <2>2
<1>2. ASSUME NEW d \in SafeDoors, NEW n \in DOMAIN inbox, inbox[n] = Door(d)
      PROVE  \/ \E m \in DOMAIN inbox' : inbox'[m] = Door(d)
             \/ kind = "DOOR" /\ U!Told = U!Field(PortOf[d])
  <2>1. inbox[n].type = "DOOR" /\ inbox[n].port = U!Field(PortOf[d])
    BY <1>2 DEF Door
  <2> QED BY <1>2, <2>1, ReceiveFacts DEF U!Told
<1> QED BY <1>1, <1>2 DEF Waiting

\* A port the unit has from the overseer is a door's that it was told of, and the
\* unit reaches that door with it or none.
LEMMA KnownIsADoor ==
    ASSUME FireSystemInv, NEW f, Known(f)
    PROVE  /\ \E d \in told : f = U!Field(PortOf[d])
           /\ \A d \in told : f = U!Field(PortOf[d]) =>
                 IF U!Reaches(f) THEN U!Dest(f) = PortOf[d] ELSE Misread(d)
<1>1. \E d \in told : f = U!Field(PortOf[d])
  BY DEF Known
<1>2. ASSUME NEW d \in told, f = U!Field(PortOf[d]), U!Reaches(f)
      PROVE  U!Dest(f) = PortOf[d]
  <2>1. PICK e \in SafeDoors : U!Dest(f) = PortOf[e]
    BY <1>2 DEF U!Reaches, FireSystemInv, UnitTypes
  <2>2. d = e
    BY <1>2, <2>1, Constants DEF FireSystemInv, Origins
  <2> QED BY <2>1, <2>2
<1>3. ASSUME NEW d \in told, f = U!Field(PortOf[d]), ~U!Reaches(f)
      PROVE  Misread(d)
  <2>1. PortOf[d] \in up
    BY DEF FireSystemInv, UnitTypes, Origins
  <2> QED BY <1>3, <2>1 DEF U!Reaches, Misread
<1> QED BY <1>1, <1>2, <1>3

\* Steps that change neither the list nor who was opened.
LEMMA SameDoors ==
    ASSUME FireSystemInv, NEW from, NEW kind, U!Receive(from, kind),
           from \notin {"hung", "dead"},
           UNCHANGED <<list, up, ordered, told, listed, pressed>>,
           idx' \in {idx, 1},
           \/ place' = "hung"
           \/ place' = place /\ idx' = idx /\ kind # "DOOR"
           \/ place' = place /\ idx' = idx /\ ListFull
           \/ place' = "fire" /\ idx' = 1 /\ kind # "DOOR"
    PROVE  FireSystemInv'
<1>1. UnitTypes'
  <2>1. inbox' \in Seq(U!Datagrams)
    BY ReceiveFacts
  <2> QED BY <2>1 DEF FireSystemInv, UnitTypes
<1>2. Origins'
  <2>1. kind # "DOOR" => pressed
    BY ReceiveFacts
  <2> QED BY <2>1, Remains DEF FireSystemInv, Origins, Known
<1>3. Opening'
  BY DEF FireSystemInv, Opening
<1>4. ToldIsKept'
  <2>1. CASE place' = "hung"
    BY <2>1 DEF ToldIsKept
  <2>2. CASE ListFull
    BY <2>2 DEF ToldIsKept, ListFull
  <2>3. CASE kind # "DOOR" /\ ~ListFull
    <3>1. told \subseteq SafeDoors /\ place \notin {"hung", "dead"}
      BY ReceiveFacts DEF FireSystemInv, Origins
    <3>2. \A d \in told : Waiting(d) \/ InList(d) \/ Opened(d)
      BY <2>3, <3>1 DEF FireSystemInv, ToldIsKept
    <3>3. \A d \in told : \/ \E n \in DOMAIN inbox' : inbox'[n] = Door(d)
                          \/ InList(d) \/ Opened(d)
      BY <2>3, <3>1, <3>2, Remains
    <3> QED BY <3>3 DEF ToldIsKept, Waiting, InList, U!Listed, Opened
  <2> QED BY <2>1, <2>2, <2>3
<1> QED BY <1>1, <1>2, <1>3, <1>4 DEF FireSystemInv

LEMMA StartStep == FireSystemInv /\ UnitStarts => FireSystemInv'
<1> SUFFICES ASSUME FireSystemInv, UnitStarts PROVE FireSystemInv'
  OBVIOUS
<1>1. /\ UNCHANGED <<list, idx, inbox, up, ordered, told, listed, pressed>>
      /\ place' \in {"bind", "main"} /\ place \notin {"hung", "dead"}
  BY DEF UnitStarts, U!Hello, U!Bind, overseerVars
<1>2. UnitTypes'
  BY <1>1 DEF FireSystemInv, UnitTypes
<1>3. Origins'
  BY <1>1 DEF FireSystemInv, Origins, Known
<1>4. Opening'
  BY <1>1 DEF FireSystemInv, Opening
<1>5. ToldIsKept'
  BY <1>1 DEF FireSystemInv, ToldIsKept, Waiting, InList, U!Listed, Opened, ListFull
<1> QED BY <1>2, <1>3, <1>4, <1>5 DEF FireSystemInv

\* The door that was told of is the new last entry.
LEMMA StoreStep ==
    ASSUME FireSystemInv, U!StoreDoor, UNCHANGED <<overseerVars, pressed>>
    PROVE  FireSystemInv'
<1>1. /\ U!Receive("main", "DOOR") /\ list' = Append(list, U!Told)
      /\ Len(list) < MaxFailSafe
      /\ UNCHANGED <<place, idx, up, ordered, told, listed, pressed>>
  BY DEF U!StoreDoor, overseerVars
<1>2. /\ inbox' \in Seq(U!Datagrams) /\ place = "main"
      /\ U!Told \in U!Fields /\ Known(U!Told)
  BY <1>1, ReceiveFacts
<1>3. /\ list' \in Seq(U!Fields) /\ Len(list') = Len(list) + 1
      /\ Len(list') <= MaxFailSafe /\ idx \in 1 .. Len(list') + 1
      /\ \A n \in DOMAIN list : n \in DOMAIN list' /\ list'[n] = list[n]
      /\ \A n \in DOMAIN list' : n \in DOMAIN list \/ list'[n] = U!Told
      /\ \E n \in DOMAIN list' : list'[n] = U!Told
  <2>1. list \in Seq(U!Fields) /\ idx \in 1 .. Len(list) + 1
    BY DEF FireSystemInv, UnitTypes
  <2>2. /\ list' \in Seq(U!Fields) /\ Len(list') = Len(list) + 1 /\ Len(list) \in Nat
        /\ \A n \in 1 .. Len(list) : list'[n] = list[n]
        /\ list'[Len(list) + 1] = U!Told
    BY <1>1, <1>2, <2>1
  <2>3. DOMAIN list = 1 .. Len(list) /\ DOMAIN list' = 1 .. Len(list) + 1
    BY <2>1, <2>2
  <2>4. Len(list') <= MaxFailSafe /\ idx \in 1 .. Len(list') + 1
    BY <1>1, <2>1, <2>2, Constants
  <2> QED BY <2>2, <2>3, <2>4
<1>4. UnitTypes'
  BY <1>1, <1>2, <1>3 DEF FireSystemInv, UnitTypes
<1>5. Origins'
  <2>1. \A n \in DOMAIN list' : Known(list'[n])
    BY <1>2, <1>3 DEF FireSystemInv, Origins
  <2> QED BY <1>1, <1>2, <2>1, Remains DEF FireSystemInv, Origins, Known
<1>6. Opening'
  BY <1>1, <1>2 DEF FireSystemInv, Opening
<1>7. ToldIsKept'
  <2>1. ASSUME NEW d \in told
        PROVE  \/ \E n \in DOMAIN inbox' : inbox'[n] = Door(d)
               \/ \E n \in DOMAIN list' : list'[n] = U!Field(PortOf[d])
               \/ PortOf[d] \in ordered
    <3>1. d \in SafeDoors
      BY DEF FireSystemInv, Origins
    <3>2. Waiting(d) \/ InList(d) \/ Opened(d)
      BY <1>1, <1>2, Constants DEF FireSystemInv, UnitTypes, ToldIsKept, ListFull
    <3>3. CASE Waiting(d)
      BY <1>1, <1>3, <3>1, <3>3, Remains
    <3>4. CASE InList(d)
      BY <1>3, <3>4 DEF InList, U!Listed
    <3> QED BY <3>2, <3>3, <3>4 DEF Opened
  <2> QED BY <1>1, <2>1 DEF ToldIsKept, Waiting, InList, U!Listed, Opened
<1> QED BY <1>4, <1>5, <1>6, <1>7 DEF FireSystemInv


\* The doors that are sent OPEN_EMERG# are ones the unit was told of, and over a
\* port that it misreads it ends.
LEMMA OrderStep ==
    ASSUME FireSystemInv, NEW f, Known(f), U!SendEmergency(f), place \in {"fire", "post"}
    PROVE  /\ \/ /\ place' = place
                 /\ \E d \in told : ordered' = ordered \cup {PortOf[d]}
                 /\ U!Dest(f) \in ordered'
                 /\ \A d \in told : f = U!Field(PortOf[d]) => PortOf[d] \in ordered'
              \/ /\ place' = "dead" /\ ordered' = ordered
                 /\ \A d \in told : f = U!Field(PortOf[d]) => Misread(d)
           /\ ordered \subseteq ordered'
           /\ ordered' \subseteq {PortOf[d] : d \in told}
<1>1. ordered \subseteq {PortOf[d] : d \in told}
  BY DEF FireSystemInv, Origins
<1>2. PICK d \in told : f = U!Field(PortOf[d])
  BY KnownIsADoor
<1>3. CASE U!Reaches(f)
  <2>1. \A e \in told : f = U!Field(PortOf[e]) => U!Dest(f) = PortOf[e]
    BY <1>3, KnownIsADoor
  <2>2. place' = place /\ ordered' = ordered \cup {U!Dest(f)}
    BY <1>3 DEF U!SendEmergency
  <2> QED BY <1>1, <1>2, <2>1, <2>2
<1>4. CASE ~U!Reaches(f)
  <2>1. place' = "dead" /\ ordered' = ordered
    BY <1>4 DEF U!SendEmergency
  <2> QED BY <1>1, <1>4, <2>1, KnownIsADoor
<1> QED BY <1>3, <1>4

LEMMA OpenStep ==
    ASSUME FireSystemInv, U!OpenNext, UNCHANGED <<overseerVars, pressed>>
    PROVE  FireSystemInv'
<1>1. /\ place = "fire" /\ idx' = idx + 1 /\ U!SendEmergency(list[idx])
      /\ idx \in 1 .. Len(list) /\ DOMAIN list = 1 .. Len(list) /\ Len(list) \in Nat
      /\ UNCHANGED <<list, inbox, up, told, listed, pressed>>
  BY DEF U!OpenNext, overseerVars, FireSystemInv, UnitTypes
<1>2. Known(list[idx])
  BY <1>1 DEF FireSystemInv, Origins
<1>3. /\ place' \in {"fire", "dead"} /\ ordered \subseteq ordered'
      /\ place' = "fire" => U!Dest(list[idx]) \in ordered'
      /\ ordered' \subseteq {PortOf[d] : d \in told}
  BY <1>1, <1>2, OrderStep
<1>4. UnitTypes'
  <2>1. idx' \in 1 .. Len(list') + 1
    BY <1>1
  <2> QED BY <1>1, <1>3, <2>1 DEF FireSystemInv, UnitTypes
<1>5. Origins'
  <2>1. /\ told \subseteq SafeDoors \cap listed /\ pressed
        /\ \A n \in DOMAIN list : Known(list[n])
        /\ \A n \in DOMAIN inbox : inbox[n].type = "DOOR" => Known(inbox[n].port)
    BY <1>1 DEF FireSystemInv, Origins
  <2> QED BY <1>1, <1>3, <2>1 DEF Origins, Known
<1>6. Opening'
  <2>1. \A n \in 1 .. idx - 1 : U!Dest(list[n]) \in ordered
    BY <1>1 DEF FireSystemInv, Opening
  <2>2. \A n \in 1 .. idx' - 1 : n \in 1 .. idx - 1 \/ n = idx
    BY <1>1
  <2>3. place' = "fire" => \A n \in 1 .. idx' - 1 : U!Dest(list[n]) \in ordered'
    BY <1>3, <2>1, <2>2
  <2> QED BY <1>1, <1>3, <2>3 DEF Opening
<1>7. ToldIsKept'
  BY <1>1, <1>3 DEF FireSystemInv, ToldIsKept, Waiting, InList, U!Listed, Opened, ListFull
<1> QED BY <1>4, <1>5, <1>6, <1>7 DEF FireSystemInv

LEMMA DoneStep ==
    ASSUME FireSystemInv, U!OpenDone, UNCHANGED <<overseerVars, pressed>>
    PROVE  FireSystemInv'
<1>1. /\ place = "fire" /\ place' = "post" /\ DOMAIN list = 1 .. idx - 1
      /\ UNCHANGED <<idx, list, inbox, up, ordered, told, listed, pressed>>
  BY DEF U!OpenDone, overseerVars, FireSystemInv, UnitTypes
<1>2. UnitTypes'
  BY <1>1 DEF FireSystemInv, UnitTypes
<1>3. Origins'
  BY <1>1 DEF FireSystemInv, Origins, Known
<1>4. Opening'
  BY <1>1 DEF FireSystemInv, Opening
<1>5. ToldIsKept'
  BY <1>1 DEF FireSystemInv, ToldIsKept, Waiting, InList, U!Listed, Opened, ListFull
<1> QED BY <1>2, <1>3, <1>4, <1>5 DEF FireSystemInv

LEMMA LateStep ==
    ASSUME FireSystemInv, U!OpenLate, UNCHANGED <<overseerVars, pressed>>
    PROVE  FireSystemInv'
<1>1. /\ U!Receive("post", "DOOR") /\ U!SendEmergency(U!Told)
      /\ UNCHANGED <<idx, list, up, told, listed, pressed>>
  BY DEF U!OpenLate, overseerVars
<1>2. Known(U!Told) /\ place = "post" /\ inbox' \in Seq(U!Datagrams)
  BY <1>1, ReceiveFacts
<1>3. /\ place' \in {"post", "dead"} /\ ordered \subseteq ordered'
      /\ \A d \in told : U!Told = U!Field(PortOf[d]) =>
            PortOf[d] \in ordered' \/ (place' = "dead" /\ Misread(d))
      /\ ordered' \subseteq {PortOf[d] : d \in told}
  BY <1>1, <1>2, OrderStep
<1>4. UnitTypes'
  BY <1>1, <1>2, <1>3 DEF FireSystemInv, UnitTypes
<1>5. Origins'
  <2>1. /\ told \subseteq SafeDoors \cap listed /\ pressed
        /\ \A n \in DOMAIN list : Known(list[n])
    BY <1>2 DEF FireSystemInv, Origins
  <2>2. \A n \in DOMAIN inbox' : inbox'[n].type = "DOOR" => Known(inbox'[n].port)
    BY <1>1, Remains
  <2> QED BY <1>1, <1>3, <2>1, <2>2 DEF Origins, Known
<1>6. Opening'
  BY <1>1, <1>2, <1>3 DEF FireSystemInv, Opening
<1>7. ToldIsKept'
  <2>1. ASSUME NEW d \in told, Waiting(d)
        PROVE  \/ \E n \in DOMAIN inbox' : inbox'[n] = Door(d)
               \/ PortOf[d] \in ordered'
               \/ place' = "dead" /\ Misread(d)
    BY <1>1, <1>3, <2>1, Remains DEF FireSystemInv, Origins
  <2>2. \A d \in told : Waiting(d) \/ InList(d) \/ Opened(d) \/ ListFull
    BY <1>2 DEF FireSystemInv, ToldIsKept
  <2> QED BY <1>1, <1>3, <2>1, <2>2
          DEF ToldIsKept, Waiting, InList, U!Listed, Opened, ListFull, Misread
<1> QED BY <1>4, <1>5, <1>6, <1>7 DEF FireSystemInv

LEMMA UnitStep == FireSystemInv /\ (UnitSteps \/ UnitOpens) => FireSystemInv'
<1> SUFFICES ASSUME FireSystemInv, UnitSteps \/ UnitOpens PROVE FireSystemInv'
  OBVIOUS
<1>1. UNCHANGED <<overseerVars, pressed, told, listed>>
  BY DEF UnitSteps, UnitOpens, overseerVars
<1>2. CASE U!SearchHangs \/ U!ListFull
  <2>1. /\ U!Receive("main", "DOOR") /\ UNCHANGED <<list, idx, up, ordered>>
        /\ place' = "hung" \/ (place' = place /\ ListFull)
    <3>1. CASE U!SearchHangs
      BY <3>1 DEF U!SearchHangs
    <3>2. CASE U!ListFull
      BY <3>2 DEF U!ListFull, ListFull
    <3> QED BY <1>2, <3>1, <3>2
  <2> QED BY <1>1, <2>1, SameDoors
<1>3. CASE U!RaiseAlarm
  BY <1>1, <1>3, SameDoors DEF U!RaiseAlarm
<1>4. CASE U!IgnoreLate
  BY <1>1, <1>4, SameDoors DEF U!IgnoreLate
<1> QED BY <1>1, <1>2, <1>3, <1>4, StoreStep, OpenStep, DoneStep, LateStep
        DEF UnitSteps, UnitOpens

LEMMA NextInv == OP!OverseerInv /\ FireSystemInv /\ [Next]_vars => FireSystemInv'
<1> SUFFICES ASSUME OP!OverseerInv, FireSystemInv, [Next]_vars PROVE FireSystemInv'
  OBVIOUS
<1>1. CASE Press \/ UNCHANGED vars
  BY <1>1, QuietStep DEF Press, vars, overseerVars
<1>2. CASE \E c \in O!Clients : \/ Accept(c) \/ HandlerSteps(c)
                                \/ TellUnit(c) \/ TellNobody(c)
  BY <1>2, AcceptStep, HandlerStep, TellStep, LostStep
<1> QED BY <1>1, <1>2, StartStep, UnitStep, ListenerStep, DregStep, FireStep DEF Next

-----------------------------------------------------------------------------
(* The theorems.                                                           *)

\* The invariant of the composition, with the overseer's.
THEOREM FireSystemInvariant == Spec => [](OP!OverseerInv /\ FireSystemInv)
<1>1. OP!OverseerInv /\ FireSystemInv /\ [Next]_vars => (OP!OverseerInv /\ FireSystemInv)'
  BY OverseerKept, NextInv
<1> QED BY <1>1, OverseerStarts, InitInv, PTL DEF Spec

\* The overseer of the composition is an overseer: what module OverseerProofs shows
\* of overseer.c alone holds beside a unit, whatever this one does.
THEOREM OverseerWithin == Spec => OP!Spec
<1>1. Init => OP!Init
  BY DEF Init, O!Init, OP!Init, O!Indices, OP!Indices, O!Clients, OP!Clients
<1>2. OP!OverseerInv /\ [Next]_vars => [OP!Next]_(OP!vars)
  BY OverseerStep
<1> QED BY <1>1, <1>2, FireSystemInvariant, PTL DEF Spec, OP!Spec

LEMMA FireAlarmAssumed == UP!FireAlarmAssumption
  BY FireSystemAssumption DEF FireSystemAssumption, U!FireAlarmAssumption,
     UP!FireAlarmAssumption

LEMMA SameDatagrams == U!Datagrams = UP!Datagrams
  BY DEF U!Datagrams, UP!Datagrams, U!Fields, UP!Fields, U!Field, UP!Field, U!Swap, UP!Swap

LEMMA ArrivesAtOne == ASSUME NEW g \in U!Datagrams, U!Arrive(g) PROVE UP!Next
<1>1. UP!Arrive(g) /\ g \in UP!Datagrams
  BY SameDatagrams DEF U!Arrive, UP!Arrive
<1> QED BY <1>1 DEF UP!Next, UP!Environment

LEMMA UnitIsOne == ASSUME UnitSteps \/ UnitOpens \/ UnitStarts PROVE UP!Steps
<1>1. CASE UnitStarts
  BY <1>1 DEF UnitStarts, U!Hello, UP!Hello, U!Bind, UP!Bind, UP!Steps
<1>2. CASE U!StoreDoor \/ U!SearchHangs \/ U!ListFull
  BY <1>2 DEF U!StoreDoor, UP!StoreDoor, U!SearchHangs, UP!SearchHangs, U!ListFull,
     UP!ListFull, U!Receive, UP!Receive, U!Told, UP!Told, U!Dreg, UP!Dreg, UP!Steps
<1>3. CASE U!RaiseAlarm \/ U!OpenDone \/ U!IgnoreLate
  BY <1>3 DEF U!RaiseAlarm, UP!RaiseAlarm, U!OpenDone, UP!OpenDone, U!IgnoreLate,
     UP!IgnoreLate, U!Receive, UP!Receive, UP!Steps
<1>4. \A f : /\ U!SendEmergency(f) <=> UP!SendEmergency(f)
             /\ U!Reaches(f) <=> UP!Reaches(f)
  BY DEF U!SendEmergency, UP!SendEmergency, U!Reaches, UP!Reaches, U!Dest, UP!Dest,
     U!Swap, UP!Swap
<1>5. CASE U!OpenNext
  BY <1>4, <1>5 DEF U!OpenNext, UP!OpenNext, UP!Steps
<1>6. CASE U!OpenLate
  BY <1>4, <1>6 DEF U!OpenLate, UP!OpenLate, U!Receive, UP!Receive, U!Told, UP!Told,
     U!Dreg, UP!Dreg, UP!Steps
<1> QED BY <1>1, <1>2, <1>3, <1>5, <1>6 DEF UnitSteps, UnitOpens

\* The unit of the composition is a fire alarm unit, told of doors by this very
\* overseer and of fires by call points.
THEOREM FireAlarmWithin == Spec => UP!Spec
<1>1. Init => UP!Init
  BY DEF Init, U!Init, UP!Init
<1>2. OP!OverseerInv /\ [Next]_vars => [UP!Next]_(UP!vars)
  <2> SUFFICES ASSUME OP!OverseerInv, Next PROVE UP!Next \/ UNCHANGED UP!vars
    BY DEF vars, unitVars, UP!vars
  <2>1. CASE UnitSteps \/ UnitOpens \/ UnitStarts
    BY <2>1, UnitIsOne DEF UP!Next
  <2>2. CASE Fire
    <3>1. [type |-> "FIRE"] \in U!Datagrams
      BY DEF U!Datagrams
    <3> QED BY <2>2, <3>1, ArrivesAtOne DEF Fire
  <2>3. ASSUME NEW c \in O!Clients, TellUnit(c) PROVE UP!Next
    <3>1. PICK d \in SafeDoors : d = cur[c]
      BY <2>3, ToldIsListed
    <3>2. U!Arrive(Door(d)) /\ Door(d) \in U!Datagrams
      BY <2>3, <3>1, DoorDatagram DEF TellUnit
    <3> QED BY <3>2, ArrivesAtOne
  <2>4. CASE \/ Spawns \/ ListenerSteps \/ TakeShortDreg \/ Press
             \/ (\E c \in O!Clients : Accept(c) \/ HandlerSteps(c) \/ TellNobody(c))
             \/ (\E d \in SafeDoors : TakeDreg(d))
    BY <2>4 DEF Spawns, ListenerSteps, TakeShortDreg, Press, Accept, HandlerSteps, TellNobody,
       TakeDreg, unitVars, UP!vars
  <2> QED BY <2>1, <2>2, <2>3, <2>4 DEF Next
<1> QED BY <1>1, <1>2, FireSystemInvariant, PTL DEF Spec, UP!Spec

\* So the unit's promises hold here: a confirmed door is opened, and no door
\* before the alarm.
THEOREM UnitKeepsWord == Spec => []UP!ConfirmedIsOpened /\ UP!ImplementsFireSpec
  BY FireAlarmWithin, FireAlarmAssumed, UP!FireOpensConfirmed, UP!FireRefines, PTL

\* And the overseer's: the unit is told of registered fail-safe doors only, and
\* the datagrams of the doors that were saved go to the unit.
THEOREM OverseerKeepsWord == Spec => OP!ImplementsRegistry /\ OP!SavedGoToUnit
  BY OverseerWithin, Assumption, OP!OverseerRefines, OP!SavedReachUnit, PTL

\* No datagram that reached the unit is forgotten.
THEOREM ToldStaysKnown == Spec => []ToldIsKept
<1>1. FireSystemInv => ToldIsKept
  BY DEF FireSystemInv
<1> QED BY <1>1, FireSystemInvariant, PTL

LEMMA ConfirmedStep ==
    OP!OverseerInv /\ ConfirmedByUnit /\ [Next]_vars => ConfirmedByUnit'
<1> SUFFICES ASSUME OP!OverseerInv, ConfirmedByUnit, [Next]_vars PROVE ConfirmedByUnit'
  OBVIOUS
<1>1. dregs \subseteq dregs'
  <2>1. UnitSteps \/ UnitOpens => dregs \subseteq dregs'
    BY DEF UnitSteps, UnitOpens, U!StoreDoor, U!SearchHangs, U!ListFull, U!RaiseAlarm, U!OpenNext,
       U!OpenDone, U!OpenLate, U!IgnoreLate, U!Dreg
  <2>2. ~UnitSteps /\ ~UnitOpens => dregs' = dregs
    BY DEF Next, UnitStarts, U!Hello, U!Bind, Spawns, ListenerSteps, TakeShortDreg, Press, Accept,
       HandlerSteps, TellUnit, TellNobody, TakeDreg, Fire, U!Arrive, unitVars, vars
  <2> QED BY <2>1, <2>2
<1>2. ASSUME NEW d \in confirmed', d \notin confirmed
      PROVE  [port |-> U!Field(PortOf[d]), whole |-> TRUE] \in dregs
  <2>1. ASSUME NEW e \in SafeDoors, TakeDreg(e)
        PROVE  [port |-> U!Field(PortOf[d]), whole |-> TRUE] \in dregs
    <3>1. d = e
      BY <1>2, <2>1 DEF TakeDreg, O!TakeDreg
    <3> QED BY <2>1, <3>1 DEF TakeDreg
  <2>2. CASE TakeShortDreg
    BY <1>2, <2>2 DEF TakeShortDreg, O!IgnoreDatagram, O!TakeDreg, O!history
  <2>3. CASE ~TakeShortDreg /\ ~\E e \in SafeDoors : TakeDreg(e)
    <3>1. confirmed' = confirmed
      BY <2>3 DEF Next, UnitStarts, UnitSteps, UnitOpens, Spawns, ListenerSteps, Press, Accept, HandlerSteps,
         TellUnit, TellNobody, Fire, O!Spawn, O!Removal, O!RemoveTest, O!Shift, O!Drop,
         O!NextDatagram, O!Accept, O!ServeReader, O!ServeOther, O!ServeSecure, O!ServeSafe,
         O!CheckAddress, O!Save, O!WriteAddress, O!LoopTest, O!Fetch, O!Resolve, O!ScanTest,
         O!ScanRead, O!SendArrives, O!SendLost, O!SendDoor, O!Die, O!history, overseerVars,
         vars
    <3> QED BY <1>2, <3>1
  <2> QED BY <2>1, <2>2, <2>3
<1> QED BY <1>1, <1>2 DEF ConfirmedByUnit

\* After the fire, the doors the unit was told of are open: of one that a resend
\* still waits for, the overseer holds no confirmation unless it is open, too.
THEOREM ToldAreOpened == Spec => []FireOpensTold
<1>1. Init => ConfirmedByUnit
  BY DEF Init, O!Init, ConfirmedByUnit
<1>2. Spec => []ConfirmedByUnit
  BY <1>1, ConfirmedStep, FireSystemInvariant, PTL DEF Spec
<1>3. OP!OverseerInv /\ FireSystemInv /\ ConfirmedByUnit /\ UP!ConfirmedIsOpened
        => FireOpensTold
  <2> SUFFICES ASSUME OP!OverseerInv, FireSystemInv, ConfirmedByUnit, UP!ConfirmedIsOpened,
                      place = "post", NEW d \in told
               PROVE  Opened(d) \/ ListFull \/ (Waiting(d) /\ d \notin confirmed)
    BY DEF FireOpensTold
  <2>1. U!Dest(U!Field(PortOf[d])) \in ordered => PortOf[d] \in ordered
    BY Constants DEF FireSystemInv, Origins
  <2>2. Waiting(d) \/ InList(d) \/ Opened(d) \/ ListFull
    BY DEF FireSystemInv, ToldIsKept
  <2>3. InList(d) => Opened(d)
    BY <2>1 DEF FireSystemInv, Opening, InList, U!Listed, Opened
  <2>4. d \in confirmed => Opened(d) \/ ListFull
    <3>1. PICK r : r = [port |-> U!Field(PortOf[d]), whole |-> TRUE]
      OBVIOUS
    <3>2. UP!Dest(r.port) = U!Dest(U!Field(PortOf[d]))
      BY <3>1 DEF UP!Dest, U!Dest, UP!Swap, U!Swap
    <3> QED BY <2>1, <3>1, <3>2 DEF ConfirmedByUnit, UP!ConfirmedIsOpened, Opened, ListFull
  <2> QED BY <2>2, <2>3, <2>4
<1> QED BY <1>2, <1>3, FireSystemInvariant, UnitKeepsWord, PTL


-----------------------------------------------------------------------------
(* The refinement.                                                         *)

\* The doors that are open are the ones whose ports were ordered.
LEMMA OpenedGrows ==
    ASSUME FireSystemInv, NEW d \in told, ordered' = ordered \cup {PortOf[d]}
    PROVE  {e \in SafeDoors : Opened(e)}' = {e \in SafeDoors : Opened(e)} \cup {d}
<1>1. d \in SafeDoors /\ \A e \in SafeDoors : PortOf[e] = PortOf[d] => e = d
  BY Constants DEF FireSystemInv, Origins
<1>2. \A e \in SafeDoors : PortOf[e] \in ordered' <=> PortOf[e] \in ordered \/ e = d
  BY <1>1
<1> QED BY <1>1, <1>2 DEF Opened

\* An order of the unit opens a door it was told of, in a fire, or none.
LEMMA OpensOne ==
    ASSUME FireSystemInv, NEW f, Known(f), U!SendEmergency(f), place \in {"fire", "post"},
           UNCHANGED <<told, listed, pressed>>
    PROVE  E!Next \/ UNCHANGED E!vars
<1>1. CASE ordered' = ordered
  BY <1>1 DEF E!vars, Opened
<1>2. ASSUME NEW d \in told, ordered' = ordered \cup {PortOf[d]} PROVE E!Next
  <2>1. d \in SafeDoors /\ pressed
    BY DEF FireSystemInv, Origins
  <2>2. {e \in SafeDoors : Opened(e)}' = {e \in SafeDoors : Opened(e)} \cup {d}
    BY <1>2, OpenedGrows
  <2> QED BY <2>1, <2>2 DEF E!Next, E!Open
<1> QED BY <1>1, <1>2, OrderStep

\* What changes neither the orders nor the overseer's part is a stutter.
LEMMA StutterStep ==
    ASSUME UNCHANGED <<told, ordered, pressed>>, listed' \cap SafeDoors = listed \cap SafeDoors
    PROVE  UNCHANGED E!vars
  BY DEF E!vars, Opened

\* A step of the overseer alone registers a fail-safe door or none.
LEMMA RegistersOne ==
    ASSUME NEW c \in O!Clients, HandlerSteps(c)
    PROVE  E!Next \/ UNCHANGED E!vars
<1>1. UNCHANGED <<told, ordered, pressed>>
  BY DEF HandlerSteps, unitVars, O!ServeReader, O!ServeOther, O!ServeSecure, O!ServeSafe,
         O!CheckAddress, O!Save, O!WriteAddress, O!LoopTest, O!Fetch, O!Resolve,
         O!ScanTest, O!ScanRead, O!Die, O!history
<1>2. CASE O!ServeSafe(c)
  <2>1. c \in SafeDoors /\ listed' = listed \cup {c}
    BY <1>2 DEF O!ServeSafe
  <2>2. listed' \cap SafeDoors = (listed \cap SafeDoors) \cup {c}
    BY <2>1
  <2> QED BY <1>1, <2>1, <2>2 DEF E!Next, E!Register, Opened
<1>3. CASE ~O!ServeSafe(c)
  <2>1. listed' = listed
    <3>1. CASE O!ServeSecure(c)
      BY <3>1 DEF HandlerSteps, O!ServeSecure
    <3> QED BY <1>3, <3>1 DEF HandlerSteps, O!ServeReader, O!ServeOther,
          O!CheckAddress, O!Save, O!WriteAddress, O!LoopTest, O!Fetch, O!Resolve,
          O!ScanTest, O!ScanRead, O!Die
  <2> QED BY <1>1, <2>1, StutterStep
<1> QED BY <1>2, <1>3

LEMMA UnitOpensOne ==
    ASSUME FireSystemInv, UnitSteps \/ UnitOpens PROVE E!Next \/ UNCHANGED E!vars
<1>1. UNCHANGED <<told, listed, pressed>>
  BY DEF UnitSteps, UnitOpens, overseerVars
<1>2. CASE U!OpenNext
  <2>1. idx \in DOMAIN list /\ place = "fire" /\ U!SendEmergency(list[idx])
    BY <1>2 DEF U!OpenNext, FireSystemInv, UnitTypes
  <2>2. Known(list[idx])
    BY <2>1 DEF FireSystemInv, Origins
  <2> QED BY <1>1, <2>1, <2>2, OpensOne
<1>3. CASE U!OpenLate
  <2>1. U!Receive("post", "DOOR") /\ U!SendEmergency(U!Told)
    BY <1>3 DEF U!OpenLate
  <2>2. Known(U!Told) /\ place = "post"
    BY <2>1, ReceiveFacts
  <2> QED BY <1>1, <2>1, <2>2, OpensOne
<1>4. CASE ~U!OpenNext /\ ~U!OpenLate
  <2>1. ordered' = ordered
    BY <1>4 DEF UnitSteps, UnitOpens, U!StoreDoor, U!SearchHangs, U!ListFull, U!RaiseAlarm,
                U!OpenDone, U!IgnoreLate
  <2> QED BY <1>1, <2>1, StutterStep
<1> QED BY <1>2, <1>3, <1>4

\* Every door that is opened registered, was told of, and there is a fire.
THEOREM EvacuationRefined == Spec => ImplementsEvacuation
<1>1. Init => E!Init
  BY DEF Init, O!Init, U!Init, E!Init, Opened
<1>2. OP!OverseerInv /\ FireSystemInv /\ [Next]_vars => [E!Next]_(E!vars)
  <2> SUFFICES ASSUME OP!OverseerInv, FireSystemInv, [Next]_vars
               PROVE  E!Next \/ UNCHANGED E!vars
    OBVIOUS
  <2>1. CASE \/ UnitStarts \/ Spawns \/ ListenerSteps \/ TakeShortDreg \/ Fire
             \/ (\E c \in O!Clients : Accept(c) \/ TellNobody(c))
             \/ (\E d \in SafeDoors : TakeDreg(d)) \/ UNCHANGED vars
    <3>1. UNCHANGED <<told, listed, pressed>>
      BY <2>1 DEF UnitStarts, Spawns, ListenerSteps, TakeShortDreg, Fire, Accept, TellNobody,
                  TakeDreg, O!Spawn, O!Removal, O!RemoveTest, O!Shift, O!Drop,
                  O!NextDatagram, O!IgnoreDatagram, O!TakeDreg, O!Accept, O!SendLost,
                  O!SendDoor, O!history, vars, overseerVars
    <3>2. ordered' = ordered
      BY <2>1 DEF UnitStarts, Spawns, ListenerSteps, TakeShortDreg, Fire, Accept, TellNobody,
                  TakeDreg, U!Hello, U!Bind, U!Arrive, vars, unitVars
    <3> QED BY <3>1, <3>2, StutterStep
  <2>2. CASE UnitSteps \/ UnitOpens
    BY <2>2, UnitOpensOne
  <2>3. CASE \E c \in O!Clients : HandlerSteps(c)
    BY <2>3, RegistersOne
  <2>4. ASSUME NEW c \in O!Clients, TellUnit(c) PROVE E!Next
    <3>1. cur[c] \in SafeDoors \cap listed /\ told' = told \cup {cur[c]}
      BY <2>4, ToldIsListed
    <3>2. UNCHANGED <<listed, ordered, pressed>>
      BY <2>4 DEF TellUnit, O!SendArrives, O!SendDoor, U!Arrive
    <3> QED BY <3>1, <3>2 DEF E!Next, E!Tell, Opened
  <2>5. CASE Press
    BY <2>5 DEF Press, overseerVars, unitVars, E!Next, E!Report, Opened
  <2> QED BY <2>1, <2>2, <2>3, <2>4, <2>5 DEF Next
<1> QED BY <1>1, <1>2, FireSystemInvariant, PTL DEF Spec, ImplementsEvacuation, E!Spec

=============================================================================
