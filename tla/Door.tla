-------------------------------- MODULE Door --------------------------------
(***************************************************************************)
(* One door: its controller process (src/Source/door.c), the mechanism     *)
(* thread that moves it (door_status in src/Source/simulator.c) and the    *)
(* peers that connect to it (overseer, fire alarm unit: the environment).  *)
(*                                                                         *)
(* Controller and mechanism share one door_shm: a status character, a      *)
(* mutex and two condition variables.  The mechanism keeps the mutex while *)
(* the door moves, every other critical section is a single step here, so  *)
(* the mutex is free exactly when the mechanism is not moving.             *)
(***************************************************************************)
EXTENDS Naturals, Sequences, FiniteSets

CONSTANTS
    Conns,      \* TCP connections peers may make to the door, one each
    NoConn,     \* "sender_socket has no value yet"
    FdLimit,    \* descriptors the controller can hold open for connections
    MechInits,  \* what the mechanism thread may be doing at the start
    Spurious    \* TRUE when pthread_cond_wait may return without a signal

ASSUME DoorAssumption ==
    /\ NoConn \notin Conns
    /\ FdLimit \in Nat
    /\ MechInits \subseteq {"starting", "waiting", "elsewhere"}
    /\ Spurious \in BOOLEAN

VARIABLES
    config,     \* argv[3]: "FAIL_SAFE" or "FAIL_SECURE"
    pc,         \* where the controller is
    cached,     \* main's local `status`, read at the top of the outer loop
    emergency,  \* main's local `emergency`
    secure,     \* main's local `secure`
    cur,        \* the connection being served (sender_socket)
    fds,        \* connections the controller has accepted and not closed
    status,     \* door_shm.status
    mech,       \* where the mechanism thread is
    backlog,    \* connections waiting in the listen queue
    peer,       \* the other end of every connection
    msg,        \* the message each peer sent
    replies     \* the messages the controller sent on each connection

vars == <<config, pc, cached, emergency, secure, cur, fds, status, mech,
          backlog, peer, msg, replies>>

ctrlVars == <<pc, cached, emergency, secure, cur, fds>>
shmVars  == <<status, mech>>
netVars  == <<backlog, peer, msg, replies>>

Statuses == {"NUL", "C", "O", "c", "o"}
AtRest   == {"C", "O"}
Orders   == {"OPEN", "CLOSE", "OPEN_EMERG", "CLOSE_SECURE"}

\* A peer that closes without a message leaves receive_message with a buffer
\* of old bytes: no order, whatever it holds.
Msgs     == Orders \cup {"JUNK"}
\* The constants of utility.c that a door can answer with.
Answers  == {"OPENING", "OPENED", "CLOSING", "CLOSED", "ALREADY", "EMERGENCY",
             "SECURE"}
PCs      == {"register", "listen", "read", "accept", "recv", "update",
             "waiting", "woken", "dead"}
Mechs    == {"starting", "waiting", "woken", "moving", "elsewhere"}

\* The controller has a connection in its hands.
Serving == pc \in {"recv", "update", "waiting", "woken"}

MutexFree == mech # "moving"

\* The status an order makes the mechanism work towards, and where that ends.
Goal(m) == IF m \in {"OPEN", "OPEN_EMERG"} THEN "o" ELSE "c"
Rest(s) == CASE s = "o" -> "O" [] s = "c" -> "C" [] OTHER -> s

\* The order that forces this door into its emergency mode, and the one the
\* door refuses from then on.
ForcedOrder == IF config = "FAIL_SAFE" THEN "OPEN_EMERG" ELSE "CLOSE_SECURE"

\* Mutant of Barred: the test of the flag is dropped.
BarredNever(m) == FALSE
Barred(m) == \/ config = "FAIL_SAFE" /\ m = "CLOSE" /\ emergency
             \/ config = "FAIL_SECURE" /\ m = "OPEN" /\ secure

Init == /\ config \in {"FAIL_SAFE", "FAIL_SECURE"}
        /\ pc = "register"
        /\ cached = "NUL"
        /\ emergency = FALSE
        /\ secure = FALSE
        /\ cur = NoConn
        /\ fds = {}
        /\ mech \in MechInits
        /\ status \in IF mech = "elsewhere" THEN {"NUL", "o", "c"} ELSE {"C"}
        /\ backlog = <<>>
        /\ peer = [c \in Conns |-> "none"]
        /\ msg = [c \in Conns |-> "none"]
        /\ replies = [c \in Conns |-> <<>>]

-----------------------------------------------------------------------------
(* The peers and the network.                                              *)

\* The controller sends on c.  The kernel of a peer that is gone answers a
\* first message with a reset.
Send(c, a) ==
    /\ replies' = [replies EXCEPT ![c] = Append(@, a)]
    /\ peer' = [peer EXCEPT ![c] = IF @ = "closed" THEN "reset" ELSE @]

\* A peer connects.  It knows the address from the registration, so it may
\* try before the controller listens.
Connect(c) ==
    /\ peer[c] = "none"
    /\ pc # "register"
    /\ IF pc \in {"listen", "dead"}
       THEN /\ peer' = [peer EXCEPT ![c] = "refused"]
            /\ UNCHANGED backlog
       ELSE /\ peer' = [peer EXCEPT ![c] = "open"]
            /\ backlog' = Append(backlog, c)
    /\ UNCHANGED <<config, ctrlVars, shmVars, msg, replies>>

\* The connection is in the listen queue.
Waits(c) == \E i \in DOMAIN backlog : backlog[i] = c

\* The connection is known to the controller's kernel and not closed there.
Connected(c) == c \in fds \/ Waits(c)

PeerSends(c) ==
    /\ Connected(c) /\ peer[c] = "open" /\ msg[c] = "none"
    /\ \E m \in Orders : msg' = [msg EXCEPT ![c] = m]
    /\ UNCHANGED <<config, ctrlVars, shmVars, backlog, peer, replies>>

\* A peer that goes away with an answer unread resets the connection.
PeerCloses(c) ==
    /\ Connected(c) /\ peer[c] = "open"
    /\ \E p \in {"closed"} \cup (IF replies[c] = <<>> THEN {} ELSE {"reset"}) :
          peer' = [peer EXCEPT ![c] = p]
    /\ msg' = IF msg[c] = "none" THEN [msg EXCEPT ![c] = "JUNK"] ELSE msg
    /\ UNCHANGED <<config, ctrlVars, shmVars, backlog, replies>>

-----------------------------------------------------------------------------
(* The controller: main of door.c.                                         *)

\* The process is gone; its kernel closes every socket it had.
Die == /\ pc' = "dead"
       /\ cur' = NoConn
       /\ fds' = {}
       /\ backlog' = <<>>
       /\ UNCHANGED <<config, cached, emergency, secure, shmVars>>

\* The door announces itself to the overseer ...
Register ==
    /\ pc = "register"
    /\ pc' = "listen"
    /\ UNCHANGED <<config, cached, emergency, secure, cur, fds, shmVars, netVars>>

RegisterFails == pc = "register" /\ Die /\ UNCHANGED <<peer, msg, replies>>

\* ... and only then binds and listens.
Listen ==
    /\ pc = "listen"
    /\ pc' = "read"
    /\ UNCHANGED <<config, cached, emergency, secure, cur, fds, shmVars, netVars>>

ListenFails == pc = "listen" /\ Die /\ UNCHANGED <<peer, msg, replies>>

\* Top of the outer loop: the status is read once for many connections.
ReadStatus ==
    /\ pc = "read" /\ MutexFree
    /\ cached' = status
    /\ pc' = "accept"
    /\ UNCHANGED <<config, emergency, secure, cur, fds, shmVars, netVars>>

\* Mutant of Accept: the descriptor is lost.
AcceptUntracked ==
    /\ pc = "accept" /\ Cardinality(fds) < FdLimit
    /\ backlog # <<>>
    /\ cur' = Head(backlog)
    /\ backlog' = Tail(backlog)
    /\ pc' = "recv"
    /\ UNCHANGED <<config, cached, emergency, secure, fds, shmVars, peer, msg,
                   replies>>

Accept ==
    /\ pc = "accept" /\ Cardinality(fds) < FdLimit
    /\ backlog # <<>>
    /\ cur' = Head(backlog)
    /\ fds' = fds \cup {Head(backlog)}
    /\ backlog' = Tail(backlog)
    /\ pc' = "recv"
    /\ UNCHANGED <<config, cached, emergency, secure, shmVars, peer, msg, replies>>

\* accept takes its descriptor before it waits, so it fails at once.
AcceptFails == /\ pc = "accept" /\ Cardinality(fds) >= FdLimit
               /\ Die /\ UNCHANGED <<peer, msg, replies>>

Received(m) == pc = "recv" /\ msg[cur] = m

\* The next connection is accepted under the status read before.
NextPeer == pc' = "accept" /\ cur' = NoConn

\* The latched door refuses the order, and closes the connection: a secured door
\* says EMERGENCY too.
AnswerBarred ==
    /\ \E m \in {"OPEN", "CLOSE"} : Received(m) /\ Barred(m)
    /\ Send(cur, "EMERGENCY")
    /\ fds' = fds \ {cur}
    /\ NextPeer
    /\ UNCHANGED <<config, cached, emergency, secure, shmVars, backlog, msg>>

\* The door is there already: answered, and the connection is left open.
AnswerAlready ==
    /\ \E m \in {"OPEN", "CLOSE"} :
          Received(m) /\ ~Barred(m) /\ cached = Rest(Goal(m))
    /\ Send(cur, "ALREADY")
    /\ NextPeer
    /\ UNCHANGED <<config, cached, emergency, secure, fds, shmVars, backlog, msg>>

\* The order is taken on: the peer hears OPENING or CLOSING.
BeginMove ==
    /\ \E m \in {"OPEN", "CLOSE"} :
          /\ Received(m) /\ ~Barred(m)
          /\ cached \in AtRest \ {Rest(Goal(m))}
          /\ Send(cur, IF m = "OPEN" THEN "OPENING" ELSE "CLOSING")
    /\ pc' = "update"
    /\ UNCHANGED <<config, cached, emergency, secure, cur, fds, shmVars,
                   backlog, msg>>

\* Mutant of BeginForced: `emergency = true` before update_status.
BeginForcedLatched ==
    /\ Received(ForcedOrder)
    /\ emergency' = (emergency \/ config = "FAIL_SAFE")
    /\ secure' = (secure \/ config = "FAIL_SECURE")
    /\ pc' = "update"
    /\ UNCHANGED <<config, cached, cur, fds, shmVars, netVars>>

\* The emergency order is obeyed whatever the cached status, without a word.
BeginForced ==
    /\ Received(ForcedOrder)
    /\ pc' = "update"
    /\ UNCHANGED <<config, cached, emergency, secure, cur, fds, shmVars, netVars>>

\* Mutant of Ignore: an order that comes while the door moves is hung up on.
IgnoreHangsUp ==
    /\ \E m \in {"OPEN", "CLOSE"} :
          Received(m) /\ ~Barred(m) /\ cached \notin AtRest
    /\ fds' = fds \ {cur}
    /\ NextPeer
    /\ UNCHANGED <<config, cached, emergency, secure, shmVars, netVars>>

\* No branch of main matches: no answer, and the connection is left open.
Ignore ==
    /\ \/ Received("JUNK")
       \/ \E m \in {"OPEN_EMERG", "CLOSE_SECURE"} \ {ForcedOrder} : Received(m)
       \/ \E m \in {"OPEN", "CLOSE"} :
             Received(m) /\ ~Barred(m) /\ cached \notin AtRest
    /\ NextPeer
    /\ UNCHANGED <<config, cached, emergency, secure, fds, shmVars, netVars>>

\* Mutant of StartMove: update_status does not wait for cond_end.
StartMoveNoWait ==
    /\ pc = "update" /\ MutexFree
    /\ status' = Goal(msg[cur])
    /\ mech' = IF mech = "waiting" THEN "woken" ELSE mech
    /\ pc' = "woken"
    /\ UNCHANGED <<config, cached, emergency, secure, cur, fds, netVars>>

\* Mutant of StartMove: cond_start is not signalled.
StartMoveSilent ==
    /\ pc = "update" /\ MutexFree
    /\ status' = Goal(msg[cur])
    /\ pc' = "waiting"
    /\ UNCHANGED <<config, cached, emergency, secure, cur, fds, mech, netVars>>

\* update_status, up to pthread_cond_wait: the new status is in memory, the
\* mechanism is signalled if it waits, and the mutex is given back.
StartMove ==
    /\ pc = "update" /\ MutexFree
    /\ status' = Goal(msg[cur])
    /\ mech' = IF mech = "waiting" THEN "woken" ELSE mech
    /\ pc' = "waiting"
    /\ UNCHANGED <<config, cached, emergency, secure, cur, fds, netVars>>

\* pthread_cond_wait(cond_end) may return unsignalled, and no loop rechecks.
CtlSpurious ==
    /\ Spurious /\ pc = "waiting"
    /\ pc' = "woken"
    /\ UNCHANGED <<config, cached, emergency, secure, cur, fds, shmVars, netVars>>

\* Mutant of FinishMove: `continue` for `break`, the status is not read again.
FinishMoveStale ==
    /\ pc = "woken" /\ MutexFree
    /\ msg[cur] \in {"OPEN", "CLOSE"} /\ peer[cur] # "reset"
    /\ Send(cur, IF msg[cur] = "OPEN" THEN "OPENED" ELSE "CLOSED")
    /\ fds' = fds \ {cur}
    /\ NextPeer
    /\ UNCHANGED <<config, cached, emergency, secure, shmVars, backlog, msg>>

\* Mutant of FinishMove: the wrong constant is sent.
FinishMoveOpened ==
    /\ pc = "woken" /\ MutexFree
    /\ msg[cur] \in {"OPEN", "CLOSE"} /\ peer[cur] # "reset"
    /\ Send(cur, "OPENED")
    /\ fds' = fds \ {cur}
    /\ pc' = "read" /\ cur' = NoConn
    /\ UNCHANGED <<config, cached, emergency, secure, shmVars, backlog, msg>>

\* Mutant of FinishMove: the connection is not closed.
FinishMoveUnclosed ==
    /\ pc = "woken" /\ MutexFree
    /\ msg[cur] \in {"OPEN", "CLOSE"} /\ peer[cur] # "reset"
    /\ Send(cur, IF msg[cur] = "OPEN" THEN "OPENED" ELSE "CLOSED")
    /\ pc' = "read" /\ cur' = NoConn
    /\ UNCHANGED <<config, cached, emergency, secure, fds, shmVars, backlog, msg>>

\* The rest of an OPEN or a CLOSE: the peer hears that the door arrived.
FinishMove ==
    /\ pc = "woken" /\ MutexFree
    /\ msg[cur] \in {"OPEN", "CLOSE"} /\ peer[cur] # "reset"
    /\ Send(cur, IF msg[cur] = "OPEN" THEN "OPENED" ELSE "CLOSED")
    /\ fds' = fds \ {cur}
    /\ pc' = "read" /\ cur' = NoConn
    /\ UNCHANGED <<config, cached, emergency, secure, shmVars, backlog, msg>>

\* The peer reset the connection meanwhile: send fails, and so does the door.
FinishDies ==
    /\ pc = "woken" /\ MutexFree
    /\ msg[cur] \in {"OPEN", "CLOSE"} /\ peer[cur] = "reset"
    /\ Die /\ UNCHANGED <<peer, msg, replies>>

\* Mutant of FinishForced: the mode is not entered.
FinishForcedUnlatched ==
    /\ pc = "woken" /\ MutexFree
    /\ msg[cur] = ForcedOrder
    /\ pc' = "read" /\ cur' = NoConn
    /\ UNCHANGED <<config, cached, emergency, secure, fds, shmVars, netVars>>

\* The rest of a forced move: the mode is entered, the connection left open.
FinishForced ==
    /\ pc = "woken" /\ MutexFree
    /\ msg[cur] = ForcedOrder
    /\ emergency' = (emergency \/ config = "FAIL_SAFE")
    /\ secure' = (secure \/ config = "FAIL_SECURE")
    /\ pc' = "read" /\ cur' = NoConn
    /\ UNCHANGED <<config, cached, fds, shmVars, netVars>>

-----------------------------------------------------------------------------
(* The mechanism: door_status of simulator.c.                              *)

MechStep == UNCHANGED <<config, cached, emergency, secure, cur, fds, netVars>>

\* The thread reaches its first pthread_cond_wait.
MechStart == /\ mech = "starting"
             /\ mech' = "waiting"
             /\ MechStep /\ UNCHANGED <<pc, status>>

\* Mutant of MechWake: only opening is taken for a reason to move.
MechWakeOpening == /\ mech = "woken"
                   /\ mech' = IF status = "o" THEN "moving" ELSE "waiting"
                   /\ MechStep /\ UNCHANGED <<pc, status>>

\* Woken, the thread has the mutex again; at rest there is nothing to do.
MechWake == /\ mech = "woken"
            /\ mech' = IF status \in AtRest THEN "waiting" ELSE "moving"
            /\ MechStep /\ UNCHANGED <<pc, status>>

\* Mutant of MechFinish: cond_end is not signalled.
MechFinishSilent == /\ mech = "moving"
                    /\ status' = Rest(status)
                    /\ mech' = "waiting"
                    /\ MechStep /\ UNCHANGED pc

\* The leg is over, and cond_end is signalled.
MechFinish == /\ mech = "moving"
              /\ status' = Rest(status)
              /\ pc' = IF pc = "waiting" THEN "woken" ELSE pc
              /\ mech' = "waiting"
              /\ MechStep

MechSpurious == /\ Spurious /\ mech = "waiting"
                /\ mech' = "woken"
                /\ MechStep /\ UNCHANGED <<pc, status>>

-----------------------------------------------------------------------------

Ctrl == \/ Register \/ Listen \/ ReadStatus \/ Accept \/ AcceptFails
        \/ AnswerBarred \/ AnswerAlready \/ BeginMove \/ BeginForced \/ Ignore
        \/ StartMove \/ FinishMove \/ FinishDies \/ FinishForced

Mech == MechStart \/ MechWake \/ MechFinish

Peers == \E c \in Conns : Connect(c) \/ PeerSends(c) \/ PeerCloses(c)

Next == \/ Ctrl \/ RegisterFails \/ ListenFails \/ CtlSpurious
        \/ Mech \/ MechSpurious
        \/ Peers

Spec == Init /\ [][Next]_vars

\* Both processes are scheduled, and a peer the controller listens to does
\* not keep quiet for ever (every peer in src/ sends right after connecting).
Fairness == /\ WF_vars(Ctrl)
            /\ WF_vars(Mech)
            /\ \A c \in Conns : WF_vars(PeerSends(c) \/ (msg[c] = "none" /\ PeerCloses(c)))

FairSpec == Spec /\ Fairness

-----------------------------------------------------------------------------
(* Properties.                                                             *)

\* Every variable has the values its declaration in the C sources allows;
\* the controller has an accepted connection in its hands when it serves one.
TypeOK ==
    /\ config \in {"FAIL_SAFE", "FAIL_SECURE"}
    /\ pc \in PCs
    /\ cached \in Statuses
    /\ emergency \in BOOLEAN /\ secure \in BOOLEAN
    /\ cur \in Conns \cup {NoConn}
    /\ Serving => cur \in fds
    /\ fds \in SUBSET Conns
    /\ status \in Statuses
    /\ mech \in Mechs
    /\ backlog \in Seq(Conns)
    /\ peer \in [Conns -> {"none", "open", "closed", "reset", "refused"}]
    /\ msg \in [Conns -> Msgs \cup {"none"}]
    /\ replies \in [Conns -> Seq(Answers)]

\* Once a fail-safe door is in emergency it never again closes, and a secured
\* fail-secure door never again opens: whatever orders arrive, and however
\* early or late the two threads wake up.
EmergencyIsFinal ==
    /\ emergency => config = "FAIL_SAFE" /\ status \in {"o", "O"}
    /\ secure => config = "FAIL_SECURE" /\ status \in {"c", "C"}

\* The status main cached outside the lock is never stale when an order is
\* judged by it: if it says the door is at rest, the door is at rest there.
CachedNeverStale ==
    pc \in {"accept", "recv"} /\ cached \in AtRest => status = cached

\* A peer that ordered an OPEN or a CLOSE hears what the door protocol gives:
\* nothing yet; ALREADY; that the door moves and then that it arrived; EMERGENCY
\* if a CLOSE finds the door in emergency, SECURE if an OPEN finds it secured.
\* OPENING or CLOSING stands alone only while the door moves for that very peer,
\* or after the controller died.
Moving(m) == IF m = "OPEN" THEN "OPENING" ELSE "CLOSING"
Moved(m)  == IF m = "OPEN" THEN "OPENED" ELSE "CLOSED"
Fitting(c) ==
    \/ replies[c] = <<>>
    \/ /\ msg[c] \in {"OPEN", "CLOSE"}
       /\ \/ replies[c] \in {<<"ALREADY">>, <<Moving(msg[c]), Moved(msg[c])>>}
          \/ replies[c] = <<"EMERGENCY">> /\ msg[c] = "CLOSE" /\ emergency
          \/ replies[c] = <<"SECURE">> /\ msg[c] = "OPEN" /\ secure
          \/ /\ replies[c] = <<Moving(msg[c])>>
             /\ pc = "dead" \/ (c = cur /\ pc \in {"update", "waiting", "woken"})

\* The one answer of door.c that does not fit (line 185).
Misnamed(c) == replies[c] = <<"EMERGENCY">> /\ msg[c] = "OPEN" /\ secure

\* Every answer fits what was asked and what the door did, but for the word that
\* a secured door refuses with (SecureIsNamed is about that word).
Answered(c) == Fitting(c) \/ Misnamed(c)
AnswersFit  == \A c \in Conns : Answered(c)

\* A peer whose OPEN is refused hears that the door is secured, not that there is
\* an emergency: the overseer takes SECURE for an answer, and exits on EMERGENCY
\* (overseer.c:222).
SecureIsNamed == \A c \in Conns : ~Misnamed(c)

\* A peer that ordered a move is in the queue, or its connection is still
\* held, or it was given a final answer before the door hung up on it.
Remembered(c) ==
    pc # "dead" /\ msg[c] \in {"OPEN", "CLOSE"} /\ ~Connected(c)
    => replies[c] \in {<<Moving(msg[c]), Moved(msg[c])>>, <<"EMERGENCY">>, <<"ALREADY">>}
NoneForgotten == \A c \in Conns : Remembered(c)

\* The connections the door leaves open for good are those it never answered, or
\* answered ALREADY: every other exchange ends with its descriptor closed.
Leaked(c) == c \in fds /\ ~(Serving /\ c = cur)
NoOtherLeak == \A c \in Conns : Leaked(c) => replies[c] \in {<<>>, <<"ALREADY">>}

\* A peer told OPENED (CLOSED) hears it when the door is open (closed); if waits
\* return unsignalled, then at worst while it still opens (closes), never while
\* it is at the other end or on its way there.
Told(c, m) == replies'[c] # replies[c] /\ replies'[c][Len(replies'[c])] = m
Arrived(s) == IF Spurious THEN {s, Rest(s)} ELSE {Rest(s)}
ToldWhenThere ==
    [][\A c \in Conns : /\ Told(c, "OPENED") => status \in Arrived("o")
                        /\ Told(c, "CLOSED") => status \in Arrived("c")]_vars

\* The two threads come to sleep on each other in one way only: the mechanism
\* reaches its first pthread_cond_wait when the order has been signalled already.
\* Once it has waited, no signal of either is lost.
WakeupNotLost ==
    [][pc' = "waiting" /\ mech' = "waiting"
         => pc = "waiting" /\ mech \in {"starting", "waiting"}]_vars

\* A fail-safe door that takes an OPEN_EMERG off the wire ends up open and
\* in emergency: no peer, dead or alive, can abort it.
EmergencyOpens ==
    pc = "recv" /\ config = "FAIL_SAFE" /\ (cur # NoConn /\ msg[cur] = "OPEN_EMERG")
        ~> emergency /\ status = "O"

\* The controller always comes back to accept the next peer, unless a peer
\* that hung up early killed it.
PeerIsServed == Serving ~> pc \in {"accept", "dead"}

\* What the order being carried out and the mechanism say of the status: an
\* ordinary move begins at rest at the other end and is not barred; until the
\* controller goes on, the status is the goal of the order or where it ends.
Engaged ==
    /\ pc = "update" =>
          \/ msg[cur] = ForcedOrder
          \/ /\ msg[cur] \in {"OPEN", "CLOSE"} /\ ~Barred(msg[cur])
             /\ status \in AtRest \ {Rest(Goal(msg[cur]))}
    /\ pc \in {"waiting", "woken"} =>
          /\ msg[cur] \in {"OPEN", "CLOSE", ForcedOrder}
          /\ status \in {Goal(msg[cur]), Rest(Goal(msg[cur]))}
    /\ mech = "moving" => status \notin AtRest

\* The invariant that is inductive.
DoorInv == TypeOK /\ EmergencyIsFinal /\ CachedNeverStale /\ Engaged

\* Where each exchange is: nothing was said to a peer that waits or has said
\* nothing, and the one being served has heard that the door moves, if so.
Exchange(c) ==
    /\ Answered(c) /\ Remembered(c)
    /\ Leaked(c) => replies[c] \in {<<>>, <<"ALREADY">>}
    /\ Waits(c) => replies[c] = <<>> /\ c \notin fds
    /\ peer[c] = "none" => ~Connected(c) /\ msg[c] = "none"
    /\ msg[c] = "none" => replies[c] = <<>>
    /\ Serving /\ c = cur =>
          replies[c] = IF pc # "recv" /\ msg[c] \in {"OPEN", "CLOSE"}
                       THEN <<Moving(msg[c])>> ELSE <<>>
Exchanges ==
    /\ \A i, k \in DOMAIN backlog : backlog[i] = backlog[k] => i = k
    /\ \A c \in Conns : Exchange(c)

\* What the status is when the controller waits for cond_end, and when it was
\* signalled: while it waits nothing ends the leg without waking it.
Handshake ==
    /\ pc = "waiting" => status = Goal(msg[cur])
    /\ pc = "woken" => status \in Arrived(Goal(msg[cur]))

-----------------------------------------------------------------------------

\* The door as its environment sees it implements DoorSpec.
Abs == INSTANCE DoorSpec WITH position <- status, latched <- emergency \/ secure
ImplementsDoorSpec == Abs!Spec

\* Under fair scheduling every leg the door starts also comes to its end.
ImplementsFairDoorSpec == Abs!FairSpec

=============================================================================
