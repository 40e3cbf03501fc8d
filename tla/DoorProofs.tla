----------------------------- MODULE DoorProofs -----------------------------
(***************************************************************************)
(* Theorems about Door, for any number of connections, any descriptor      *)
(* limit, any start of the mechanism thread, with spurious wakeups or not. *)
(*                                                                         *)
(* DoorInv is the inductive invariant: types, the latch, the cached status *)
(* and what the order in hand says of the shared status.  Each group of    *)
(* steps (controller, mechanism, peers) preserves it by a lemma of its own.*)
(***************************************************************************)
EXTENDS Door, SequenceTheorems, TLAPS

USE DoorAssumption

LEMMA InitInv == Init => DoorInv
<1> SUFFICES ASSUME Init PROVE DoorInv
  OBVIOUS
<1>1. mech \in {"starting", "waiting", "elsewhere"} /\ status \in Statuses
  BY DEF Init, Statuses, DoorAssumption
<1>2. backlog \in Seq(Conns) /\ replies \in [Conns -> Seq(Answers)]
  BY DEF Init
<1>3. TypeOK
  BY <1>1, <1>2 DEF Init, TypeOK, PCs, Statuses, Mechs, Serving, Msgs
<1>4. EmergencyIsFinal /\ CachedNeverStale /\ Engaged
  BY <1>1 DEF Init, EmergencyIsFinal, CachedNeverStale, Engaged
<1> QED BY <1>3, <1>4 DEF DoorInv

\* Peers only touch the network.
LEMMA PeersStep == DoorInv /\ Peers => DoorInv'
<1> SUFFICES ASSUME DoorInv, NEW c \in Conns,
                    Connect(c) \/ PeerSends(c) \/ PeerCloses(c)
             PROVE  DoorInv'
  BY DEF Peers
<1>1. TypeOK'
  <2>1. CASE Connect(c)
    <3>1. peer' \in [Conns -> {"none", "open", "closed", "reset", "refused"}]
      BY <2>1 DEF Connect, DoorInv, TypeOK
    <3>2. backlog \in Seq(Conns) /\ Append(backlog, c) \in Seq(Conns)
      BY DEF DoorInv, TypeOK
    <3>3. backlog' = backlog \/ backlog' = Append(backlog, c)
      BY <2>1 DEF Connect
    <3> QED BY <2>1, <3>1, <3>2, <3>3
               DEF Connect, DoorInv, TypeOK, Serving, ctrlVars, shmVars
  <2>2. CASE PeerSends(c)
    BY <2>2 DEF PeerSends, DoorInv, TypeOK, Serving, ctrlVars, shmVars, Msgs
  <2>3. CASE PeerCloses(c)
    <3>1. peer' \in [Conns -> {"none", "open", "closed", "reset", "refused"}]
      BY <2>3 DEF PeerCloses, DoorInv, TypeOK
    <3>2. msg' \in [Conns -> Msgs \cup {"none"}]
      BY <2>3 DEF PeerCloses, DoorInv, TypeOK, Msgs
    <3> QED BY <2>3, <3>1, <3>2
         DEF PeerCloses, DoorInv, TypeOK, Serving, ctrlVars, shmVars
  <2> QED BY <2>1, <2>2, <2>3
<1>2. UNCHANGED <<config, ctrlVars, shmVars>>
  BY DEF Connect, PeerSends, PeerCloses
<1>3. Serving => msg'[cur] = msg[cur] \/ msg[cur] = "none"
  BY DEF Connect, PeerSends, PeerCloses, DoorInv, TypeOK
<1>4. Engaged'
  <2>1. pc \in {"update", "waiting", "woken"} => msg[cur] # "none" /\ msg'[cur] = msg[cur]
    BY <1>3 DEF DoorInv, Engaged, ForcedOrder, Serving
  <2> QED BY <1>2, <2>1 DEF DoorInv, Engaged, ForcedOrder, Barred, ctrlVars, shmVars
<1>5. EmergencyIsFinal' /\ CachedNeverStale'
  BY <1>2 DEF DoorInv, EmergencyIsFinal, CachedNeverStale, ctrlVars, shmVars
<1> QED BY <1>1, <1>4, <1>5 DEF DoorInv

\* The mechanism moves the status only from a leg to its end.
LEMMA MechPreserves == DoorInv /\ (Mech \/ MechSpurious) => DoorInv'
<1> SUFFICES ASSUME DoorInv, Mech \/ MechSpurious
             PROVE  DoorInv'
  OBVIOUS
<1> USE DEF DoorInv, MechStep, netVars
<1>1. CASE MechStart
  BY <1>1 DEF MechStart, TypeOK, EmergencyIsFinal, CachedNeverStale, Engaged,
              Mechs, Serving, ForcedOrder, Barred
<1>2. CASE MechWake
  BY <1>2 DEF MechWake, TypeOK, EmergencyIsFinal, CachedNeverStale, Engaged,
              Mechs, Serving, ForcedOrder, Barred
<1>3. CASE MechSpurious
  BY <1>3 DEF MechSpurious, TypeOK, EmergencyIsFinal, CachedNeverStale, Engaged,
              Mechs, Serving, ForcedOrder, Barred
<1>4. CASE MechFinish
  <2>1. status \notin AtRest /\ status' = Rest(status) /\ mech' = "waiting"
    BY <1>4 DEF MechFinish, Engaged
  <2>2. TypeOK'
    BY <1>4, <2>1 DEF MechFinish, TypeOK, Mechs, Serving, PCs, Statuses, Rest
  <2>3. EmergencyIsFinal'
    BY <1>4, <2>1 DEF MechFinish, EmergencyIsFinal, Rest
  <2>4. CachedNeverStale'
    BY <1>4, <2>1 DEF MechFinish, CachedNeverStale
  <2>5. Engaged'
    BY <1>4, <2>1 DEF MechFinish, Engaged, ForcedOrder, Barred, Rest, Goal, AtRest
  <2> QED BY <2>2, <2>3, <2>4, <2>5
<1> QED BY <1>1, <1>2, <1>3, <1>4 DEF Mech

-----------------------------------------------------------------------------

\* Where the controller is decides which step it can take: the steps that
\* only move the controller, with the cached status, the order in hand and
\* the flags as they were.
LEMMA SendType ==
    ASSUME TypeOK, NEW c \in Conns, NEW a \in Answers, Send(c, a)
    PROVE  /\ replies' \in [Conns -> Seq(Answers)]
           /\ peer' \in [Conns -> {"none", "open", "closed", "reset", "refused"}]
<1>1. replies[c] \in Seq(Answers) /\ Append(replies[c], a) \in Seq(Answers)
  BY DEF TypeOK
<1>2. replies' \in [Conns -> Seq(Answers)]
  BY <1>1 DEF Send, TypeOK
<1> QED BY <1>2 DEF Send, TypeOK

LEMMA DiePreserves ==
    DoorInv /\ Die /\ UNCHANGED <<peer, msg, replies>> => DoorInv'
<1> SUFFICES ASSUME DoorInv, Die, UNCHANGED <<peer, msg, replies>>
             PROVE  DoorInv'
  OBVIOUS
<1>1. TypeOK'
  BY DEF DoorInv, TypeOK, Die, shmVars, PCs, Serving
<1> QED BY <1>1 DEF DoorInv, EmergencyIsFinal, CachedNeverStale, Engaged, Die,
                   shmVars, ForcedOrder, Barred

LEMMA CtrlPreserves ==
    DoorInv /\ (Ctrl \/ RegisterFails \/ ListenFails \/ CtlSpurious) => DoorInv'
<1> SUFFICES ASSUME DoorInv, Ctrl \/ RegisterFails \/ ListenFails \/ CtlSpurious
             PROVE  DoorInv'
  OBVIOUS
<1> USE DEF DoorInv
<1>1. CASE Register
  BY <1>1 DEF Register, TypeOK, EmergencyIsFinal, CachedNeverStale, Engaged,
              shmVars, netVars, PCs, Serving, ForcedOrder, Barred
<1>2. CASE Listen
  BY <1>2 DEF Listen, TypeOK, EmergencyIsFinal, CachedNeverStale, Engaged,
              shmVars, netVars, PCs, Serving, ForcedOrder, Barred
<1>3. CASE RegisterFails \/ ListenFails \/ AcceptFails \/ FinishDies
  BY <1>3, DiePreserves DEF RegisterFails, ListenFails, AcceptFails, FinishDies
<1>4. CASE ReadStatus
  BY <1>4 DEF ReadStatus, TypeOK, EmergencyIsFinal, CachedNeverStale, Engaged,
              shmVars, netVars, PCs, Serving, ForcedOrder, Barred
<1>5. CASE Accept
  <2>1. Head(backlog) \in Conns /\ Tail(backlog) \in Seq(Conns)
    BY <1>5 DEF Accept, TypeOK
  <2>2. TypeOK'
    BY <1>5, <2>1 DEF Accept, TypeOK, shmVars, PCs, Serving
  <2> QED BY <1>5, <2>2 DEF Accept, EmergencyIsFinal, CachedNeverStale, Engaged,
                          shmVars, ForcedOrder, Barred
<1>6. ASSUME pc = "recv" PROVE cur \in Conns
  BY <1>6 DEF TypeOK, Serving
<1>7. CASE AnswerBarred
  <2>1. pc = "recv" /\ Send(cur, "EMERGENCY")
    BY <1>7 DEF AnswerBarred, Received
  <2>2. TypeOK'
    BY <1>6, <1>7, <2>1, SendType
       DEF AnswerBarred, Received, NextPeer, TypeOK, shmVars, PCs, Serving, Answers
  <2> QED BY <1>7, <2>1, <2>2
             DEF AnswerBarred, NextPeer, EmergencyIsFinal, CachedNeverStale,
                 Engaged, shmVars, ForcedOrder, Barred
<1>8. CASE AnswerAlready
  <2>1. pc = "recv" /\ Send(cur, "ALREADY")
    BY <1>8 DEF AnswerAlready, Received
  <2>2. TypeOK'
    BY <1>6, <1>8, <2>1, SendType
       DEF AnswerAlready, NextPeer, TypeOK, shmVars, PCs, Serving, Answers
  <2> QED BY <1>8, <2>1, <2>2
             DEF AnswerAlready, NextPeer, EmergencyIsFinal, CachedNeverStale,
                 Engaged, shmVars, ForcedOrder, Barred
<1>9. CASE BeginMove
  <2> PICK m \in {"OPEN", "CLOSE"} :
          /\ Received(m) /\ ~Barred(m)
          /\ cached \in AtRest \ {Rest(Goal(m))}
          /\ Send(cur, IF m = "OPEN" THEN "OPENING" ELSE "CLOSING")
    BY <1>9 DEF BeginMove
  <2>1. pc = "recv" /\ msg[cur] = m /\ status = cached
    BY DEF Received, CachedNeverStale
  <2>2. TypeOK'
    BY <1>6, <1>9, <2>1, SendType
       DEF BeginMove, TypeOK, shmVars, PCs, Serving, Answers
  <2>3. Engaged'
    BY <1>9, <2>1 DEF BeginMove, Engaged, shmVars, ForcedOrder, Barred
  <2> QED BY <1>9, <2>2, <2>3
             DEF BeginMove, EmergencyIsFinal, CachedNeverStale, shmVars
<1>10. CASE BeginForced
  BY <1>10 DEF BeginForced, Received, TypeOK, EmergencyIsFinal, CachedNeverStale,
               Engaged, shmVars, netVars, PCs, Serving, ForcedOrder, Barred
<1>11. CASE Ignore
  BY <1>11 DEF Ignore, NextPeer, TypeOK, EmergencyIsFinal, CachedNeverStale,
               Engaged, shmVars, netVars, PCs, Serving, ForcedOrder, Barred, Received
<1>12. CASE StartMove
  <2>1. /\ mech # "moving" /\ mech' # "moving" /\ pc' = "waiting"
        /\ status' = Goal(msg[cur]) /\ mech' \in Mechs
    BY <1>12 DEF StartMove, MutexFree, TypeOK, Mechs
  <2>2. TypeOK'
    BY <1>12, <2>1 DEF StartMove, TypeOK, netVars, PCs, Serving, Goal, Statuses
  <2>3. msg[cur] \in {"OPEN", "CLOSE", ForcedOrder}
    BY <1>12 DEF StartMove, Engaged
  <2>4. Engaged'
    BY <1>12, <2>1, <2>3 DEF StartMove, Engaged, netVars, ForcedOrder
  <2>5. EmergencyIsFinal'
    BY <1>12, <2>1 DEF StartMove, Engaged, EmergencyIsFinal, Barred, ForcedOrder,
                       Goal, netVars
  <2> QED BY <2>1, <2>2, <2>4, <2>5 DEF CachedNeverStale
<1>13. CASE CtlSpurious
  BY <1>13 DEF CtlSpurious, TypeOK, EmergencyIsFinal, CachedNeverStale, Engaged,
               shmVars, netVars, PCs, Serving, ForcedOrder, Barred
<1>14. CASE FinishMove
  <2>1. /\ pc = "woken" /\ cur \in Conns
        /\ Send(cur, IF msg[cur] = "OPEN" THEN "OPENED" ELSE "CLOSED")
    BY <1>14 DEF FinishMove, TypeOK, Serving
  <2>2. TypeOK'
    BY <1>14, <2>1, SendType
       DEF FinishMove, TypeOK, shmVars, PCs, Serving, Answers
  <2> QED BY <1>14, <2>2
             DEF FinishMove, EmergencyIsFinal, CachedNeverStale, Engaged, shmVars,
                 ForcedOrder, Barred
<1>15. CASE FinishForced
  <2>1. status \in {Goal(ForcedOrder), Rest(Goal(ForcedOrder))}
    BY <1>15 DEF FinishForced, Engaged
  <2>2. TypeOK'
    BY <1>15 DEF FinishForced, TypeOK, shmVars, netVars, PCs, Serving
  <2>3. EmergencyIsFinal'
    BY <1>15, <2>1 DEF FinishForced, EmergencyIsFinal, ForcedOrder, Goal, Rest,
                       shmVars, TypeOK
  <2> QED BY <1>15, <2>2, <2>3
             DEF FinishForced, CachedNeverStale, Engaged, shmVars, netVars
<1> QED BY <1>1, <1>2, <1>3, <1>4, <1>5, <1>7, <1>8, <1>9, <1>10, <1>11, <1>12,
           <1>13, <1>14, <1>15 DEF Ctrl

LEMMA NextInv == DoorInv /\ [Next]_vars => DoorInv'
<1> SUFFICES ASSUME DoorInv, [Next]_vars PROVE DoorInv'
  OBVIOUS
<1>1. CASE UNCHANGED vars
  BY <1>1 DEF vars, DoorInv, TypeOK, EmergencyIsFinal, CachedNeverStale, Engaged,
              Serving, ForcedOrder, Barred
<1>2. CASE Next
  BY <1>2, CtrlPreserves, MechPreserves, PeersStep DEF Next
<1> QED BY <1>1, <1>2

THEOREM DoorInvariant == Spec => []DoorInv
  BY InitInv, NextInv, PTL DEF Spec

\* The variables keep their types, and a connection being served is open.
THEOREM TypeCorrect == Spec => []TypeOK
<1>1. DoorInv => TypeOK
  BY DEF DoorInv
<1> QED BY <1>1, DoorInvariant, PTL

\* However the two threads interleave, and whatever orders arrive: a door in
\* emergency never closes, a secured door never opens.
THEOREM EmergencyForever == Spec => []EmergencyIsFinal
<1>1. DoorInv => EmergencyIsFinal
  BY DEF DoorInv
<1> QED BY <1>1, DoorInvariant, PTL

\* No order is judged by a stale status.
THEOREM NeverStale == Spec => []CachedNeverStale
<1>1. DoorInv => CachedNeverStale
  BY DEF DoorInv
<1> QED BY <1>1, DoorInvariant, PTL

-----------------------------------------------------------------------------
(* Refinement: the door and its controller implement DoorSpec.             *)

LEMMA InitRefines == Init => Abs!Init
  BY InitInv DEF Init, Abs!Init, Abs!Configs, Abs!Positions, DoorInv, TypeOK, Statuses

\* A step of the controller is an Open, a Close, a Force or a Latch, or leaves
\* what DoorSpec sees as it was.
LEMMA StepRefines == DoorInv /\ [Next]_vars => [Abs!Next]_(Abs!vars)
<1> SUFFICES ASSUME DoorInv, [Next]_vars
             PROVE  Abs!Next \/ UNCHANGED Abs!vars
  OBVIOUS
<1> USE DEF DoorInv, Abs!vars
<1>1. CASE UNCHANGED vars
  BY <1>1 DEF vars
<1>2. CASE Peers
  BY <1>2 DEF Peers, Connect, PeerSends, PeerCloses, ctrlVars, shmVars
<1>3. CASE StartMove
  <2>1. status' = Goal(msg[cur]) /\ UNCHANGED <<config, emergency, secure>>
    BY <1>3 DEF StartMove
  <2>2. CASE msg[cur] = ForcedOrder
    <3>1. Abs!Force
      BY <2>1, <2>2 DEF Abs!Force, ForcedOrder, Goal, TypeOK
    <3> QED BY <3>1 DEF Abs!Next
  <2>3. CASE msg[cur] = "OPEN" /\ msg[cur] # ForcedOrder
    <3>1. status = "C" /\ ~(config = "FAIL_SECURE" /\ secure)
      BY <1>3, <2>3 DEF StartMove, Engaged, Goal, Rest, AtRest, Barred
    <3>2. Abs!Open
      BY <2>1, <2>3, <3>1 DEF Abs!Open, Goal, EmergencyIsFinal
    <3> QED BY <3>2 DEF Abs!Next
  <2>4. CASE msg[cur] = "CLOSE" /\ msg[cur] # ForcedOrder
    <3>1. status = "O" /\ ~(config = "FAIL_SAFE" /\ emergency)
      BY <1>3, <2>4 DEF StartMove, Engaged, Goal, Rest, AtRest, Barred
    <3>2. Abs!Close
      BY <2>1, <2>4, <3>1 DEF Abs!Close, Goal, EmergencyIsFinal
    <3> QED BY <3>2 DEF Abs!Next
  <2> QED BY <1>3, <2>2, <2>3, <2>4 DEF StartMove, Engaged
<1>4. CASE FinishForced
  <2>1. status \in {Goal(ForcedOrder), Rest(Goal(ForcedOrder))}
    BY <1>4 DEF FinishForced, Engaged
  <2>2. Abs!Latch
    BY <1>4, <2>1 DEF FinishForced, Abs!Latch, Abs!SafeSide, ForcedOrder, Goal,
                      Rest, shmVars, TypeOK
  <2> QED BY <2>2 DEF Abs!Next
<1>5. CASE MechFinish
  <2>1. status \notin AtRest /\ status' = Rest(status)
    BY <1>5 DEF MechFinish, Engaged
  <2>2. CASE status \in {"o", "c"}
    <3>1. Abs!Settle
      BY <1>5, <2>1, <2>2 DEF MechFinish, MechStep, Abs!Settle, Rest
    <3> QED BY <3>1 DEF Abs!Next
  <2>3. CASE status \notin {"o", "c"}
    BY <1>5, <2>1, <2>3 DEF MechFinish, MechStep, Rest
  <2> QED BY <2>2, <2>3
<1>6. CASE MechStart \/ MechWake \/ MechSpurious
  BY <1>6 DEF MechStart, MechWake, MechSpurious, MechStep
<1>7. CASE \/ Register \/ Listen \/ ReadStatus \/ Accept \/ AnswerBarred
           \/ AnswerAlready \/ BeginMove \/ BeginForced \/ Ignore \/ FinishMove
           \/ CtlSpurious
  BY <1>7 DEF Register, Listen, ReadStatus, Accept, AnswerBarred, AnswerAlready,
              BeginMove, BeginForced, Ignore, FinishMove, CtlSpurious, shmVars
<1>8. CASE RegisterFails \/ ListenFails \/ AcceptFails \/ FinishDies
  BY <1>8 DEF RegisterFails, ListenFails, AcceptFails, FinishDies, Die, shmVars
<1> QED BY <1>1, <1>2, <1>3, <1>4, <1>5, <1>6, <1>7, <1>8 DEF Next, Ctrl, Mech

\* Controller, mechanism and shared status together are a door as DoorSpec
\* describes it, with the latch in the controller's two flags.
THEOREM Refinement == Spec => ImplementsDoorSpec
<1>1. DoorInv /\ DoorInv' /\ [Next]_vars => [Abs!Next]_(Abs!vars)
  BY StepRefines
<1> QED BY <1>1, InitRefines, DoorInvariant, PTL
           DEF Spec, ImplementsDoorSpec, Abs!Spec

-----------------------------------------------------------------------------
(* The handshake: what each thread finds when the other wakes it, wherever *)
(* the mechanism started and whether or not a wait returns by itself.      *)

LEMMA HandshakeInit == Init => Handshake
  BY DEF Init, Handshake

LEMMA HandshakeStep == DoorInv /\ Handshake /\ [Next]_vars => Handshake'
<1> SUFFICES ASSUME DoorInv, Handshake, [Next]_vars
             PROVE  Handshake'
  OBVIOUS
<1> USE DEF Handshake
<1>1. CASE UNCHANGED vars
  BY <1>1 DEF vars
<1>2. CASE Peers
  <2>1. UNCHANGED <<ctrlVars, shmVars>>
    BY <1>2 DEF Peers, Connect, PeerSends, PeerCloses
  <2>2. pc \in {"waiting", "woken"} => msg'[cur] = msg[cur]
    <3>1. pc \in {"waiting", "woken"} => msg[cur] # "none" /\ cur \in Conns
      BY DEF DoorInv, Engaged, ForcedOrder, TypeOK, Serving
    <3> QED BY <1>2, <3>1 DEF Peers, Connect, PeerSends, PeerCloses, DoorInv, TypeOK
  <2> QED BY <2>1, <2>2 DEF ctrlVars, shmVars
<1>3. CASE StartMove
  BY <1>3 DEF StartMove, netVars
<1>4. CASE FinishForced \/ FinishMove
  BY <1>4 DEF FinishForced, FinishMove, shmVars
<1>5. CASE MechStart \/ MechWake \/ MechSpurious
  BY <1>5 DEF MechStart, MechWake, MechSpurious, MechStep, netVars
<1>6. CASE MechFinish
  <2>1. /\ status' = Rest(status) /\ UNCHANGED <<msg, cur>>
        /\ pc' = IF pc = "waiting" THEN "woken" ELSE pc
    BY <1>6 DEF MechFinish, MechStep, netVars
  <2>2. \A m : Rest(Rest(Goal(m))) = Rest(Goal(m)) /\ Goal(m) \in {"o", "c"}
    BY DEF Rest, Goal
  <2>3. CASE pc = "waiting"
    BY <2>1, <2>3 DEF Arrived
  <2>4. CASE pc = "woken"
    BY <2>1, <2>2, <2>4 DEF Arrived
  <2> QED BY <2>1, <2>3, <2>4
<1>7. CASE \/ Register \/ Listen \/ ReadStatus \/ Accept \/ AnswerBarred
           \/ AnswerAlready \/ BeginMove \/ BeginForced \/ Ignore
  BY <1>7 DEF Register, Listen, ReadStatus, Accept, AnswerBarred, AnswerAlready,
              BeginMove, BeginForced, Ignore, Received, NextPeer, shmVars
<1>8. CASE RegisterFails \/ ListenFails \/ AcceptFails \/ FinishDies
  BY <1>8 DEF RegisterFails, ListenFails, AcceptFails, FinishDies, Die, shmVars
<1>9. CASE CtlSpurious
  BY <1>9 DEF CtlSpurious, shmVars, netVars, Arrived
<1> QED BY <1>1, <1>2, <1>3, <1>4, <1>5, <1>6, <1>7, <1>8, <1>9 DEF Next, Ctrl, Mech

\* A controller that waits set the status for the mechanism to work on, and one
\* that was woken finds it where the order leads (or, woken by nobody, on its way).
THEOREM HandshakeInvariant == Spec => [](DoorInv /\ Handshake)
<1>1. Init => DoorInv /\ Handshake
  BY InitInv, HandshakeInit
<1>2. DoorInv /\ Handshake /\ [Next]_vars => (DoorInv /\ Handshake)'
  BY NextInv, HandshakeStep
<1> QED BY <1>1, <1>2, PTL DEF Spec

\* Only a mechanism that starts to wait when it has been signalled already leaves
\* the controller waiting with it: update_status and door_status each change the
\* status and signal before they give the mutex back.
THEOREM NoWakeupLost == Spec => WakeupNotLost
<1> DEFINE Late == pc' = "waiting" /\ mech' = "waiting"
                     => pc = "waiting" /\ mech \in {"starting", "waiting"}
<1>1. DoorInv /\ Handshake /\ [Next]_vars => [Late]_vars
  <2> SUFFICES ASSUME DoorInv, Handshake, Next, pc' = "waiting", mech' = "waiting"
               PROVE  pc = "waiting" /\ mech \in {"starting", "waiting"}
    OBVIOUS
  <2>1. CASE Peers
    BY <2>1 DEF Peers, Connect, PeerSends, PeerCloses, ctrlVars, shmVars
  <2>2. CASE StartMove
    BY <2>2 DEF StartMove
  <2>3. CASE MechStart \/ MechSpurious
    BY <2>3 DEF MechStart, MechSpurious
  <2>4. CASE MechWake
    BY <2>4 DEF MechWake, Handshake, Goal, AtRest
  <2>5. CASE MechFinish
    BY <2>5 DEF MechFinish
  <2>6. CASE \/ Register \/ Listen \/ ReadStatus \/ Accept \/ AnswerBarred
             \/ AnswerAlready \/ BeginForced \/ BeginMove \/ Ignore \/ CtlSpurious
             \/ FinishMove \/ FinishForced
    BY <2>6 DEF Register, Listen, ReadStatus, Accept, AnswerBarred, AnswerAlready,
                BeginForced, BeginMove, Ignore, CtlSpurious, FinishMove, FinishForced,
                NextPeer
  <2>7. CASE RegisterFails \/ ListenFails \/ AcceptFails \/ FinishDies
    BY <2>7 DEF RegisterFails, ListenFails, AcceptFails, FinishDies, Die
  <2> QED BY <2>1, <2>2, <2>3, <2>4, <2>5, <2>6, <2>7 DEF Next, Ctrl, Mech
<1>2. Spec => [][Late]_vars
  BY <1>1, HandshakeInvariant, PTL DEF Spec
<1> QED BY <1>2 DEF WakeupNotLost

\* OPENED and CLOSED are true when they are sent, or nearly so if the wait for
\* cond_end returned by itself.
THEOREM ToldTheTruth == Spec => ToldWhenThere
<1> DEFINE Truth == \A c \in Conns : /\ Told(c, "OPENED") => status \in Arrived("o")
                                     /\ Told(c, "CLOSED") => status \in Arrived("c")
<1>1. DoorInv /\ Handshake /\ [Next]_vars => [Truth]_vars
  <2> SUFFICES ASSUME DoorInv, Handshake, Next, NEW c \in Conns, NEW m,
                      m \in {"OPENED", "CLOSED"}, Told(c, m)
               PROVE  status \in Arrived(IF m = "OPENED" THEN "o" ELSE "c")
    OBVIOUS
  <2>1. ASSUME NEW d \in Conns, NEW a \in Answers, Send(d, a)
        PROVE  d = c /\ a = m
    <3>1. replies \in [Conns -> Seq(Answers)]
      BY DEF DoorInv, TypeOK
    <3>2. d = c
      BY <2>1, <3>1 DEF Send, Told
    <3>3. replies'[c] = Append(replies[c], a) /\ replies[c] \in Seq(Answers)
      BY <2>1, <3>1, <3>2 DEF Send
    <3>4. replies'[c][Len(replies'[c])] = a
      BY <3>3
    <3> QED BY <3>2, <3>4 DEF Told
  <2>2. replies' # replies
    BY DEF Told
  <2>3. Serving => cur \in Conns
    BY DEF DoorInv, TypeOK
  <2>4. CASE FinishMove
    <3>1. c = cur /\ m = IF msg[cur] = "OPEN" THEN "OPENED" ELSE "CLOSED"
      BY <2>1, <2>3, <2>4 DEF FinishMove, Serving, Answers
    <3>2. status \in Arrived(Goal(msg[cur])) /\ msg[cur] \in {"OPEN", "CLOSE"}
      BY <2>4 DEF FinishMove, Handshake
    <3>3. Goal(msg[cur]) = IF m = "OPENED" THEN "o" ELSE "c"
      BY <3>1, <3>2 DEF Goal
    <3> QED BY <3>2, <3>3
  <2>5. CASE AnswerBarred \/ AnswerAlready \/ BeginMove
    BY <2>1, <2>3, <2>5 DEF AnswerBarred, AnswerAlready, BeginMove, Received,
                            Serving, Answers
  <2>6. FinishMove \/ AnswerBarred \/ AnswerAlready \/ BeginMove
    BY <2>2 DEF Next, Ctrl, Mech, Peers, Register, RegisterFails, Listen,
                ListenFails, ReadStatus, Accept, AcceptFails, BeginForced, Ignore,
                StartMove, CtlSpurious, FinishDies, FinishForced, MechStart,
                MechWake, MechFinish, MechSpurious, MechStep, Connect, PeerSends,
                PeerCloses, netVars
  <2> QED BY <2>4, <2>5, <2>6
<1>2. Spec => [][Truth]_vars
  BY <1>1, HandshakeInvariant, PTL DEF Spec
<1> QED BY <1>2 DEF ToldWhenThere

-----------------------------------------------------------------------------
(* What the peers hear.  Exchanges is inductive beside DoorInv: a reply is *)
(* only sent to the connection being served, of which Exchange says what   *)
(* was sent before.                                                        *)

LEMMA NotTheForced == ForcedOrder \notin {"OPEN", "CLOSE"}
  BY DEF ForcedOrder

\* A second word after a first.
LEMMA SecondWord ==
    ASSUME NEW S, NEW a \in S, NEW b \in S PROVE Append(<<a>>, b) = <<a, b>>
<1>1. <<a>> \in Seq(S) /\ Append(<<a>>, b) \in Seq(S) /\ <<a, b>> \in Seq(S)
  OBVIOUS
<1>2. Len(Append(<<a>>, b)) = 2 /\ Len(<<a, b>>) = 2
  OBVIOUS
<1>3. \A i \in 1..2 : Append(<<a>>, b)[i] = <<a, b>>[i]
  OBVIOUS
<1> QED BY <1>1, <1>2, <1>3, SeqEqual

LEMMA QueueAppend ==
    ASSUME backlog \in Seq(Conns), NEW c \in Conns, ~Waits(c),
           backlog' = Append(backlog, c)
    PROVE  /\ \A d : Waits(d)' <=> Waits(d) \/ d = c
           /\ (\A i, k \in DOMAIN backlog : backlog[i] = backlog[k] => i = k) =>
                 \A i, k \in DOMAIN backlog' : backlog'[i] = backlog'[k] => i = k
<1>1. /\ DOMAIN backlog' = 1 .. Len(backlog) + 1 /\ Len(backlog) \in Nat
      /\ DOMAIN backlog = 1 .. Len(backlog) /\ backlog'[Len(backlog) + 1] = c
      /\ \A i \in 1 .. Len(backlog) : backlog'[i] = backlog[i]
  OBVIOUS
<1>2. \A i \in DOMAIN backlog' : i \in DOMAIN backlog \/ i = Len(backlog) + 1
  BY <1>1
<1>3. DOMAIN backlog \subseteq DOMAIN backlog' /\ Len(backlog) + 1 \in DOMAIN backlog'
  BY <1>1
<1>4. \A d : Waits(d)' <=> Waits(d) \/ d = c
  BY <1>1, <1>2, <1>3 DEF Waits
<1> QED BY <1>1, <1>2, <1>4 DEF Waits

LEMMA QueueTail ==
    ASSUME backlog \in Seq(Conns), backlog # <<>>, backlog' = Tail(backlog),
           \A i, k \in DOMAIN backlog : backlog[i] = backlog[k] => i = k
    PROVE  /\ Waits(Head(backlog))
           /\ \A d : Waits(d)' <=> Waits(d) /\ d # Head(backlog)
           /\ \A i, k \in DOMAIN backlog' : backlog'[i] = backlog'[k] => i = k
<1>1. /\ Len(backlog) \in Nat \ {0} /\ DOMAIN backlog = 1 .. Len(backlog)
      /\ DOMAIN backlog' = 1 .. Len(backlog) - 1 /\ Head(backlog) = backlog[1]
      /\ \A i \in 1 .. Len(backlog) - 1 : backlog'[i] = backlog[i + 1]
  OBVIOUS
<1>2. Waits(Head(backlog))
  BY <1>1 DEF Waits
<1>3. ASSUME NEW d, Waits(d)' PROVE Waits(d) /\ d # Head(backlog)
  <2>1. PICK i \in 1 .. Len(backlog) - 1 : backlog[i + 1] = d
    BY <1>1, <1>3 DEF Waits
  <2>2. i + 1 \in DOMAIN backlog /\ i + 1 # 1 /\ 1 \in DOMAIN backlog
    BY <1>1
  <2> QED BY <1>1, <2>1, <2>2 DEF Waits
<1>4. ASSUME NEW d, Waits(d), d # Head(backlog) PROVE Waits(d)'
  <2>1. PICK i \in DOMAIN backlog : backlog[i] = d
    BY <1>4 DEF Waits
  <2>2. i - 1 \in DOMAIN backlog' /\ (i - 1) + 1 = i
    BY <1>1, <1>4, <2>1
  <2>3. backlog'[i - 1] = d
    BY <1>1, <2>1, <2>2
  <2> QED BY <2>2, <2>3 DEF Waits
<1>5. ASSUME NEW i \in DOMAIN backlog', NEW k \in DOMAIN backlog',
             backlog'[i] = backlog'[k]
      PROVE  i = k
  <2>1. i + 1 \in DOMAIN backlog /\ k + 1 \in DOMAIN backlog
        /\ backlog[i + 1] = backlog[k + 1]
    BY <1>1, <1>5
  <2> QED BY <1>1, <2>1
<1> QED BY <1>2, <1>3, <1>4, <1>5

LEMMA ExchangeInit == Init => Exchanges
<1> SUFFICES ASSUME Init PROVE Exchanges
  OBVIOUS
<1>1. \A c \in Conns : ~Waits(c)
  BY DEF Init, Waits
<1> QED BY <1>1
     DEF Init, Exchanges, Exchange, Leaked, Answered, Misnamed, Fitting, Remembered,
         Connected, Serving

\* A connection that is not served, before or after, with nothing said to it.
LEMMA Bystander ==
    ASSUME NEW c, Exchange(c), UNCHANGED <<replies[c], msg[c], peer[c]>>,
           ~(Serving /\ c = cur), ~(Serving' /\ c = cur'),
           pc # "dead", emergency => emergency', secure => secure',
           Waits(c)' <=> Waits(c), c \in fds' <=> c \in fds
    PROVE  Exchange(c)'
  BY DEF Exchange, Answered, Misnamed, Fitting, Leaked, Remembered, Connected, Serving

\* The controller or the mechanism moves on, and nothing is said.
LEMMA QuietExchange ==
    ASSUME Exchanges, UNCHANGED <<netVars, fds, cur, emergency, secure>>,
           \/ pc' = pc
           \/ ~Serving /\ ~Serving' /\ pc # "dead" /\ pc' # "dead"
           \/ pc \in {"update", "waiting", "woken"} /\ pc' \in {"waiting", "woken"}
           \/ pc = "recv" /\ pc' = "update" /\ msg[cur] \notin {"OPEN", "CLOSE"}
    PROVE  Exchanges'
<1>1. UNCHANGED <<backlog, peer, msg, replies>>
  BY DEF netVars
<1>2. ASSUME NEW c \in Conns PROVE Exchange(c)'
  <2>1. Exchange(c) /\ (Waits(c)' <=> Waits(c))
    BY <1>1 DEF Exchanges, Waits
  <2> QED BY <1>1, <2>1
       DEF Exchange, Answered, Misnamed, Fitting, Leaked, Remembered, Connected, Serving
<1> QED BY <1>1, <1>2 DEF Exchanges

LEMMA DieExchange ==
    ASSUME Exchanges, Die, UNCHANGED <<peer, msg, replies>>
    PROVE  Exchanges'
<1>1. pc' = "dead" /\ fds' = {} /\ backlog' = <<>> /\ UNCHANGED <<emergency, secure>>
  BY DEF Die
<1>2. \A c : ~Waits(c)'
  BY <1>1 DEF Waits
<1>3. ASSUME NEW c \in Conns PROVE Exchange(c)'
  <2>1. Exchange(c)
    BY DEF Exchanges
  <2> QED BY <1>1, <1>2, <2>1
       DEF Exchange, Answered, Misnamed, Fitting, Leaked, Remembered, Connected, Serving
<1>4. \A i, k \in DOMAIN backlog' : backlog'[i] = backlog'[k] => i = k
  BY <1>1
<1> QED BY <1>3, <1>4 DEF Exchanges

\* The connection being served gets its last answer, or none, and the
\* controller turns from it.
LEMMA LastWord ==
    ASSUME Exchanges, Serving, NEW c \in Conns, c = cur, c \in fds,
           UNCHANGED <<backlog, msg>>, cur' = NoConn, pc' \in {"accept", "read"},
           emergency => emergency', secure => secure',
           fds' \in {fds, fds \ {c}},
           \A d \in Conns \ {c} : UNCHANGED <<replies[d], peer[d]>>,
           peer'[c] = "none" => peer[c] = "none",
           Answered(c)', fds' # fds => Remembered(c)',
           c \in fds' => replies'[c] \in {<<>>, <<"ALREADY">>},
           msg[c] = "none" => replies'[c] = <<>>
    PROVE  Exchanges'
<1>1. \A d : Waits(d)' <=> Waits(d)
  BY DEF Waits
<1>2. ASSUME NEW d \in Conns \ {c} PROVE Exchange(d)'
  <2>1. Exchange(d)
    BY DEF Exchanges
  <2> QED BY <1>1, <2>1, Bystander DEF Serving
<1>3. Exchange(c)
  BY DEF Exchanges
<1>4. ~Waits(c) /\ peer[c] # "none"
  BY <1>3 DEF Exchange, Connected
<1>5. Remembered(c)'
  BY DEF Remembered, Connected
<1>6. ~Serving'
  BY DEF Serving
<1>7. Exchange(c)'
  BY <1>1, <1>4, <1>5, <1>6 DEF Exchange, Leaked
<1>8. \A d \in Conns : Exchange(d)'
  BY <1>2, <1>7
<1> QED BY <1>8 DEF Exchanges

\* What main sends is the next word of the exchange.
LEMMA CtrlExchange ==
    DoorInv /\ Exchanges /\ (Ctrl \/ RegisterFails \/ ListenFails \/ CtlSpurious)
        => Exchanges'
<1> SUFFICES ASSUME DoorInv, Exchanges,
                    Ctrl \/ RegisterFails \/ ListenFails \/ CtlSpurious
             PROVE  Exchanges'
  OBVIOUS
<1>1. CASE Register \/ Listen \/ ReadStatus \/ StartMove \/ CtlSpurious
  BY <1>1, QuietExchange DEF Register, Listen, ReadStatus, StartMove, CtlSpurious,
                             netVars, Serving
<1>2. CASE BeginForced
  BY <1>2, QuietExchange, NotTheForced DEF BeginForced, Received
<1>3. CASE RegisterFails \/ ListenFails \/ AcceptFails \/ FinishDies
  BY <1>3, DieExchange DEF RegisterFails, ListenFails, AcceptFails, FinishDies
<1>4. CASE Accept
  <2>1. /\ backlog \in Seq(Conns) /\ backlog # <<>> /\ backlog' = Tail(backlog)
        /\ \A i, k \in DOMAIN backlog : backlog[i] = backlog[k] => i = k
    BY <1>4 DEF Accept, DoorInv, TypeOK, Exchanges
  <2>2. PICK h \in Conns : h = Head(backlog)
    BY <2>1
  <2>3. /\ pc = "accept" /\ pc' = "recv" /\ cur' = h /\ fds' = fds \cup {h}
        /\ UNCHANGED <<emergency, secure, peer, msg, replies>>
    BY <1>4, <2>2 DEF Accept
  <2>4. /\ Waits(h) /\ \A d : Waits(d)' <=> Waits(d) /\ d # h
        /\ \A i, k \in DOMAIN backlog' : backlog'[i] = backlog'[k] => i = k
    BY <2>1, <2>2, QueueTail
  <2>5. ASSUME NEW c \in Conns PROVE Exchange(c)'
    <3>1. Exchange(c)
      BY DEF Exchanges
    <3>2. CASE c = h
      BY <2>3, <2>4, <3>1, <3>2
           DEF Exchange, Answered, Misnamed, Fitting, Leaked, Remembered,
               Connected, Serving
    <3>3. CASE c # h
      BY <2>3, <2>4, <3>1, <3>3, Bystander DEF Serving
    <3> QED BY <3>2, <3>3
  <2> QED BY <2>4, <2>5 DEF Exchanges
<1>5. ASSUME Serving PROVE /\ cur \in Conns /\ cur \in fds /\ Exchange(cur)
                           /\ replies \in [Conns -> Seq(Answers)]
                           /\ DOMAIN peer = Conns
  BY <1>5 DEF DoorInv, TypeOK, Exchanges
<1>6. ASSUME NEW c \in Conns, c = cur, NEW a, Send(cur, a), Serving
      PROVE  /\ \A d \in Conns \ {c} : UNCHANGED <<replies[d], peer[d]>>
             /\ peer'[c] = "none" => peer[c] = "none"
             /\ replies'[c] = Append(replies[c], a)
  BY <1>5, <1>6 DEF Send
<1>7. ASSUME pc = "recv" PROVE Serving /\ replies[cur] = <<>>
  BY <1>5, <1>7 DEF Serving, Exchange
<1>8. CASE AnswerBarred
  <2>1. PICK c \in Conns : c = cur /\ c \in fds
    BY <1>5, <1>7, <1>8 DEF AnswerBarred, Received
  <2>2. /\ pc = "recv" /\ pc' = "accept" /\ cur' = NoConn /\ fds' = fds \ {c}
        /\ UNCHANGED <<backlog, msg, emergency, secure>>
        /\ Send(cur, "EMERGENCY")
    BY <1>8, <2>1 DEF AnswerBarred, NextPeer, Received
  <2>3. \/ msg[c] = "CLOSE" /\ emergency
        \/ msg[c] = "OPEN" /\ secure
    BY <1>8, <2>1 DEF AnswerBarred, Received, Barred
  <2>4. Serving /\ replies[c] = <<>>
    BY <1>7, <2>1, <2>2
  <2>5. /\ \A d \in Conns \ {c} : UNCHANGED <<replies[d], peer[d]>>
        /\ peer'[c] = "none" => peer[c] = "none"
        /\ replies'[c] = <<"EMERGENCY">>
    BY <1>6, <2>1, <2>4, <2>2
  <2>6. Answered(c)' /\ Remembered(c)'
    BY <2>5, <2>2, <2>3 DEF Answered, Fitting, Misnamed, Remembered
  <2> QED BY <2>1, <2>4, <2>5, <2>6, <2>2, <2>3, LastWord
<1>9. CASE AnswerAlready
  <2>1. PICK c \in Conns : c = cur /\ c \in fds
    BY <1>5, <1>7, <1>9 DEF AnswerAlready, Received
  <2>2. /\ Serving /\ pc' = "accept" /\ cur' = NoConn /\ fds' = fds
        /\ UNCHANGED <<backlog, msg, emergency, secure>>
        /\ msg[c] \in {"OPEN", "CLOSE"}
        /\ Send(cur, "ALREADY") /\ replies[c] = <<>>
    BY <1>7, <1>9, <2>1 DEF AnswerAlready, NextPeer, Received
  <2>3. /\ \A d \in Conns \ {c} : UNCHANGED <<replies[d], peer[d]>>
        /\ peer'[c] = "none" => peer[c] = "none"
        /\ replies'[c] = <<"ALREADY">>
    BY <1>6, <2>1, <2>2
  <2>4. Answered(c)'
    BY <2>2, <2>3 DEF Answered, Fitting
  <2> QED BY <2>1, <2>2, <2>3, <2>4, LastWord
<1>10. CASE Ignore
  <2>1. /\ pc = "recv" /\ pc' = "accept" /\ cur' = NoConn /\ fds' = fds
        /\ UNCHANGED <<emergency, secure, backlog, peer, msg, replies>>
    BY <1>10 DEF Ignore, Received, NextPeer, netVars
  <2>2. PICK c \in Conns : c = cur /\ c \in fds /\ replies[c] = <<>> /\ Serving
    BY <1>5, <1>7, <2>1
  <2>3. Answered(c)'
    BY <2>1, <2>2 DEF Answered, Fitting
  <2> QED BY <2>1, <2>2, <2>3, LastWord
<1>11. CASE BeginMove
  <2>1. PICK m \in {"OPEN", "CLOSE"} :
          Received(m) /\ Send(cur, IF m = "OPEN" THEN "OPENING" ELSE "CLOSING")
    BY <1>11 DEF BeginMove
  <2>2. PICK c \in Conns : c = cur /\ c \in fds /\ replies[c] = <<>> /\ Serving
    BY <1>5, <1>7, <2>1 DEF Received
  <2>3. /\ pc = "recv" /\ pc' = "update" /\ cur' = c /\ msg[c] = m
        /\ UNCHANGED <<backlog, msg, emergency, secure, fds>>
    BY <1>11, <2>1, <2>2 DEF BeginMove, Received
  <2>4. /\ \A d \in Conns \ {c} : UNCHANGED <<replies[d], peer[d]>>
        /\ peer'[c] = "none" => peer[c] = "none"
        /\ replies'[c] = <<Moving(m)>>
    BY <1>6, <2>1, <2>2 DEF Moving
  <2>5. \A d : Waits(d)' <=> Waits(d)
    BY <2>3 DEF Waits
  <2>6. ASSUME NEW d \in Conns \ {c} PROVE Exchange(d)'
    <3>1. Exchange(d)
      BY DEF Exchanges
    <3> QED BY <2>2, <2>3, <2>4, <2>5, <3>1, Bystander
  <2>7. Exchange(c)
    BY DEF Exchanges
  <2>8. Exchange(c)'
    <3>1. Answered(c)' /\ Remembered(c)'
      BY <2>2, <2>3, <2>4 DEF Answered, Fitting, Remembered, Connected
    <3> QED BY <2>1, <2>2, <2>3, <2>4, <2>5, <2>7, <3>1
               DEF Exchange, Leaked, Serving, Connected
  <2>9. \A d \in Conns : Exchange(d)'
    BY <2>6, <2>8
  <2> QED BY <2>3, <2>9 DEF Exchanges
<1>12. CASE FinishMove
  <2>1. PICK c \in Conns : c = cur /\ c \in fds /\ Serving /\ Exchange(c)
    BY <1>5, <1>12 DEF FinishMove, Serving
  <2>2. /\ pc = "woken" /\ pc' = "read" /\ cur' = NoConn /\ fds' = fds \ {c}
        /\ UNCHANGED <<backlog, msg, emergency, secure>>
        /\ msg[c] \in {"OPEN", "CLOSE"} /\ Send(cur, Moved(msg[c]))
    BY <1>12, <2>1 DEF FinishMove, Moved
  <2>3. replies[c] = <<Moving(msg[c])>>
    BY <2>1, <2>2 DEF Exchange
  <2>4. /\ \A d \in Conns \ {c} : UNCHANGED <<replies[d], peer[d]>>
        /\ peer'[c] = "none" => peer[c] = "none"
        /\ replies'[c] = Append(replies[c], Moved(msg[c]))
    BY <1>6, <2>1, <2>2
  <2>6. replies'[c] = <<Moving(msg[c]), Moved(msg[c])>>
    <3>1. Moving(msg[c]) \in Answers /\ Moved(msg[c]) \in Answers
      BY DEF Moving, Moved, Answers
    <3> QED BY <2>3, <2>4, <3>1, SecondWord
  <2>5. Answered(c)' /\ Remembered(c)'
    BY <2>2, <2>6 DEF Answered, Fitting, Remembered, Moving, Moved
  <2> QED BY <2>1, <2>2, <2>4, <2>5, LastWord
<1>13. CASE FinishForced
  <2>1. /\ pc = "woken" /\ pc' = "read" /\ cur' = NoConn /\ fds' = fds
        /\ msg[cur] \notin {"OPEN", "CLOSE"}
        /\ emergency => emergency'
        /\ secure => secure'
        /\ UNCHANGED <<backlog, peer, msg, replies>>
    BY <1>13, NotTheForced DEF FinishForced, netVars
  <2>2. PICK c \in Conns : c = cur /\ c \in fds /\ Serving /\ Exchange(c)
    BY <1>5, <2>1 DEF Serving
  <2>3. replies[c] = <<>>
    BY <2>1, <2>2 DEF Exchange
  <2>4. Answered(c)'
    BY <2>1, <2>3 DEF Answered, Fitting
  <2> QED BY <2>1, <2>2, <2>3, <2>4, LastWord
<1> QED BY <1>1, <1>2, <1>3, <1>4, <1>8, <1>9, <1>10, <1>11, <1>12, <1>13 DEF Ctrl

\* A peer connects when it never did, and speaks when nothing was said to it.
LEMMA PeersExchange == DoorInv /\ Exchanges /\ Peers => Exchanges'
<1> SUFFICES ASSUME DoorInv, Exchanges, NEW c \in Conns,
                    Connect(c) \/ PeerSends(c) \/ PeerCloses(c)
             PROVE  Exchanges'
  BY DEF Peers
<1>1. UNCHANGED <<pc, cur, fds, emergency, secure, replies>>
  BY DEF Connect, PeerSends, PeerCloses, ctrlVars
<1>2. Exchange(c) /\ peer \in [Conns -> {"none", "open", "closed", "reset", "refused"}]
      /\ msg \in [Conns -> Msgs \cup {"none"}] /\ backlog \in Seq(Conns)
  BY DEF Exchanges, DoorInv, TypeOK
<1>3. CASE Connect(c) /\ pc \in {"listen", "dead"}
  <2>1. /\ UNCHANGED <<backlog, msg>> /\ peer[c] = "none" /\ peer'[c] = "refused"
        /\ \A d \in Conns \ {c} : peer'[d] = peer[d]
    BY <1>2, <1>3 DEF Connect
  <2>2. ASSUME NEW d \in Conns PROVE Exchange(d)'
    <3>1. Exchange(d) /\ (peer'[d] = "none" => peer[d] = "none")
      BY <2>1 DEF Exchanges
    <3> QED BY <1>1, <2>1, <3>1

                    DEF Exchange, Answered, Misnamed, Fitting, Leaked, Remembered,
                        Connected, Waits, Serving
  <2> QED BY <2>1, <2>2 DEF Exchanges
<1>4. CASE Connect(c) /\ pc \notin {"listen", "dead"}
  <2>1. /\ backlog' = Append(backlog, c) /\ UNCHANGED msg /\ peer[c] = "none"
        /\ peer'[c] = "open" /\ \A d \in Conns \ {c} : peer'[d] = peer[d]
    BY <1>2, <1>4 DEF Connect
  <2>2. ~Waits(c) /\ c \notin fds
    BY <1>2, <2>1 DEF Exchange, Connected
  <2>3. /\ \A d : Waits(d)' <=> Waits(d) \/ d = c
        /\ \A i, k \in DOMAIN backlog' : backlog'[i] = backlog'[k] => i = k
    BY <1>2, <2>1, <2>2, QueueAppend DEF Exchanges
  <2>4. replies[c] = <<>> 
    BY <1>2, <2>1 DEF Exchange
  <2>5. ASSUME NEW d \in Conns PROVE Exchange(d)'
    <3>1. Exchange(d)
      BY DEF Exchanges
    <3>2. CASE d = c
      BY <1>1, <2>1, <2>2, <2>3, <2>4, <3>1, <3>2

              DEF Exchange, Answered, Misnamed, Fitting, Leaked, Remembered,
                  Connected, Serving
    <3>3. CASE d # c
      BY <1>1, <2>1, <2>3, <3>1, <3>3

              DEF Exchange, Answered, Misnamed, Fitting, Leaked, Remembered,
                  Connected, Serving
    <3> QED BY <3>2, <3>3
  <2> QED BY <2>3, <2>5 DEF Exchanges
<1>5. CASE PeerSends(c) \/ PeerCloses(c)
  <2>1. /\ UNCHANGED backlog /\ Connected(c) /\ peer[c] # "none"
        /\ \A d \in Conns \ {c} : UNCHANGED <<msg[d], peer[d]>>
        /\ msg[c] # "none" => msg'[c] = msg[c]
        /\ msg'[c] # "none" /\ peer'[c] # "none"
    BY <1>2, <1>5 DEF PeerSends, PeerCloses, Orders
  <2>2. \A d : Waits(d)' <=> Waits(d)
    BY <2>1 DEF Waits
  <2>3. ASSUME NEW d \in Conns \ {c} PROVE Exchange(d)'
    <3>1. Exchange(d)
      BY DEF Exchanges
    <3> QED BY <1>1, <2>1, <2>2, <3>1

                    DEF Exchange, Answered, Misnamed, Fitting, Leaked, Remembered,
                        Connected, Serving
  <2>4. Connected(c)' 
    BY <1>1, <2>1, <2>2 DEF Connected
  <2>5. CASE msg[c] # "none"
    <3>1. Exchange(c)'
      BY <1>1, <1>2, <2>1, <2>2, <2>4, <2>5

              DEF Exchange, Answered, Misnamed, Fitting, Leaked, Remembered,
                  Connected, Serving
    <3>2. \A d \in Conns : Exchange(d)'
      BY <2>3, <3>1
    <3> QED BY <2>1, <3>2 DEF Exchanges
  <2>6. CASE msg[c] = "none"
    <3>1. replies[c] = <<>>
      BY <1>2, <2>6 DEF Exchange
    <3>2. Serving /\ c = cur => pc = "recv"
      BY <2>6 DEF Serving, DoorInv, Engaged, ForcedOrder
    <3>3. Exchange(c)'
      BY <1>1, <1>2, <2>1, <2>2, <2>4, <3>1, <3>2
         DEF Exchange, Answered, Misnamed, Fitting, Leaked, Remembered, Serving
    <3>4. \A d \in Conns : Exchange(d)'
      BY <2>3, <3>3
    <3> QED BY <2>1, <3>4 DEF Exchanges
  <2> QED BY <2>1, <2>3, <2>5, <2>6 DEF Exchanges
<1> QED BY <1>3, <1>4, <1>5

LEMMA NextExchange == DoorInv /\ Exchanges /\ [Next]_vars => Exchanges'
<1> SUFFICES ASSUME DoorInv, Exchanges, [Next]_vars PROVE Exchanges'
  OBVIOUS
<1>1. CASE UNCHANGED vars
  BY <1>1, QuietExchange DEF vars, netVars
<1>2. CASE Mech \/ MechSpurious
  BY <1>2, QuietExchange
       DEF Mech, MechStart, MechWake, MechFinish, MechSpurious, MechStep
<1> QED BY <1>1, <1>2, CtrlExchange, PeersExchange DEF Next

THEOREM ExchangesInvariant == Spec => []Exchanges
<1>1. DoorInv /\ Exchanges /\ [Next]_vars => Exchanges'
  BY NextExchange
<1> QED BY <1>1, ExchangeInit, DoorInvariant, PTL DEF Spec

\* What a peer hears fits what it asked and what the door did, but for the word
\* that a secured door refuses with (door.c:185).
THEOREM AnswersAlwaysFit == Spec => []AnswersFit
<1>1. Exchanges => AnswersFit
  BY DEF Exchanges, Exchange, AnswersFit
<1> QED BY <1>1, ExchangesInvariant, PTL

\* Only the connections that were answered ALREADY, or not at all, stay open when
\* the controller turns from them.
THEOREM OthersAreClosed == Spec => []NoOtherLeak
<1>1. Exchanges => NoOtherLeak
  BY DEF Exchanges, Exchange, NoOtherLeak
<1> QED BY <1>1, ExchangesInvariant, PTL

\* The door hangs up on no order without a final answer.
THEOREM NoOrderForgotten == Spec => []NoneForgotten
<1>1. Exchanges => NoneForgotten
  BY DEF Exchanges, Exchange, NoneForgotten
<1> QED BY <1>1, ExchangesInvariant, PTL

=============================================================================
