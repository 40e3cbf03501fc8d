------------------------------ MODULE Overseer ------------------------------
(***************************************************************************)
(* Registration in the overseer, src/Source/overseer.c: one thread per TCP *)
(* connection (handle_connection), the queue of fail-safe doors that wait  *)
(* for the fire alarm unit, the loop that resends a DOOR datagram          *)
(* (register_door), the thread that takes the DREG confirmations off the   *)
(* queue (UDP_listener), the thread that creates the handlers              *)
(* (TCP_listener) and the operator's commands (main).                      *)
(*                                                                         *)
(* Writers of door_queue hold its mutex, readers do not, and nobody locks  *)
(* firealarm_addr: every read and write of them is a step of its own.  All *)
(* handlers are alike until they accept, so a handler is named by the      *)
(* client it serves, and `threads` counts the ones that were created.      *)
(* exit() in any thread ends the process.                                  *)
(***************************************************************************)
EXTENDS Naturals, FiniteSets

CONSTANTS
    SafeDoors,      \* clients that register as DOOR ... FAIL_SAFE#
    SecureDoors,    \* clients that register as DOOR ... FAIL_SECURE#
    Readers,        \* card readers
    Others,         \* clients whose first word the overseer does not know
    Unit,           \* the fire alarm unit, as a client
    NoDoor,         \* an unused slot of the queue
    MaxDoors,       \* size of door_queue.doors (MAX_DOORS)
    MaxThreads,     \* size of the array of handler threads (MAX_THREADS)
    Lossy,          \* datagrams to the unit may be lost
    Faults          \* socket calls may fail, the operator may mistype

Clients == SafeDoors \cup SecureDoors \cup Readers \cup Others \cup {Unit}

ASSUME OverseerAssumption ==
    /\ IsFiniteSet(SafeDoors)
    /\ MaxDoors \in Nat /\ Cardinality(SafeDoors) <= MaxDoors
    /\ MaxThreads \in Nat
    /\ NoDoor \notin SafeDoors
    /\ SafeDoors \cap (SecureDoors \cup Readers \cup Others \cup {Unit}) = {}
    /\ SecureDoors \cap (Readers \cup Others \cup {Unit}) = {}
    /\ Unit \notin Readers \cup Others
    /\ Readers \cap Others = {}
    /\ Lossy \in BOOLEAN /\ Faults \in BOOLEAN

VARIABLES
    life,       \* "up", or "dead" after an exit() or a fault of the process
    threads,    \* handler threads created (thread_cnt)
    pc,         \* where the handler of each client is
    cur,        \* register_door's datagram, by the door it names
    i,          \* register_door's loop index
    match,      \* register_door's match
    dest,       \* where register_door sends to: the unit or elsewhere
    k,          \* loop index of the handler of the fire alarm unit
    fa,         \* firealarm_addr: "empty", "partial" or "whole"
    listed,     \* door_list, as the set of registered doors
    slots,      \* door_queue.doors, 0-based
    cnt,        \* door_queue.door_cnt
    at,         \* where UDP_listener is
    j,          \* UDP_listener's inner loop index
    main,       \* what the operator's thread does; "exiting" is shutdown_flag
    listener,   \* where TCP_listener is
    saved,      \* history: doors that were ever put in the queue
    sent,       \* history: doors the unit was sent a datagram of
    told,       \* history: doors such a datagram reached the unit of
    confirmed   \* history: doors whose DREG the overseer has taken

handlers == <<pc, cur, i, match, dest, k>>
queue    == <<slots, cnt, at, j>>
process  == <<threads, main, listener>>
history  == <<saved, sent, told, confirmed>>
vars     == <<life, process, handlers, fa, listed, queue, history>>

Indices == 0 .. MaxDoors - 1
\* UDP_listener alone holds door_queue.mutex for more than a step.
MutexFree == at \notin {"test", "shift", "drop"}
Queued(d) == \E n \in 0 .. cnt - 1 : slots[n] = d

Init == /\ life = "up"
        /\ threads = 0
        /\ pc = [c \in Clients |-> "outside"]
        /\ cur = [c \in Clients |-> NoDoor]
        /\ i = [c \in Clients |-> 0]
        /\ match = [c \in Clients |-> FALSE]
        /\ dest = [c \in Clients |-> "none"]
        /\ k = 0
        /\ fa = "empty"
        /\ listed = {}
        /\ slots = [n \in Indices |-> NoDoor]
        /\ cnt = 0
        /\ at = "recv"
        /\ j = 0
        /\ main = "idle"
        /\ listener = "spawning"
        /\ saved = {}
        /\ sent = {}
        /\ told = {}
        /\ confirmed = {}

Go(c, to) == pc' = [pc EXCEPT ![c] = to]

\* exit(), or a fault: every thread of the process is gone.
Die == /\ life' = "dead"
       /\ UNCHANGED <<process, handlers, fa, listed, queue, history>>

-----------------------------------------------------------------------------
(* TCP_listener.                                                           *)

\* A thread is created whether or not a client is there; when the array is
\* full the process ends.
Spawn ==
    /\ life = "up" /\ listener = "spawning" /\ main # "exiting"
    /\ threads < MaxThreads
    /\ threads' = threads + 1
    /\ UNCHANGED <<life, main, listener, handlers, fa, listed, queue, history>>

ThreadsExhausted ==
    /\ life = "up" /\ listener = "spawning" /\ main # "exiting"
    /\ threads = MaxThreads
    /\ Die

StopSpawning ==
    /\ life = "up" /\ listener = "spawning" /\ main = "exiting"
    /\ listener' = "joining"
    /\ UNCHANGED <<life, threads, main, handlers, fa, listed, queue, history>>

Served == {c \in Clients : pc[c] # "outside"}

\* Mutant of Joined: the handlers that nobody connected to are not waited for.
JoinedServed ==
    /\ life = "up" /\ listener = "joining"
    /\ \A c \in Served : pc[c] = "done"
    /\ listener' = "left"
    /\ UNCHANGED <<life, threads, main, handlers, fa, listed, queue, history>>

\* Every handler has returned, the ones that nobody ever connected to as well.
Joined ==
    /\ life = "up" /\ listener = "joining"
    /\ Cardinality(Served) = threads
    /\ \A c \in Served : pc[c] = "done"
    /\ listener' = "left"
    /\ UNCHANGED <<life, threads, main, handlers, fa, listed, queue, history>>

-----------------------------------------------------------------------------
(* handle_connection.                                                      *)

\* accept and receive_message, in a handler that has no client yet.
Accept(c) ==
    /\ life = "up" /\ pc[c] = "outside" /\ Cardinality(Served) < threads
    /\ Go(c, "accepted")
    /\ UNCHANGED <<life, process, cur, i, match, dest, k, fa, listed, queue, history>>

\* Neither of a card reader's two messages leads back to the end of
\* handle_connection: HELLO# ends in exit(0), and the qualifier of a scan is
\* compared with "SCANNED#", which no card reader sends, so it ends in exit(1).
ServeReader(c) == life = "up" /\ pc[c] = "accepted" /\ c \in Readers /\ Die

ServeOther(c) ==
    /\ life = "up" /\ pc[c] = "accepted" /\ c \in Others
    /\ Go(c, "done")
    /\ UNCHANGED <<life, process, cur, i, match, dest, k, fa, listed, queue, history>>

\* Mutant of ServeSecure: it goes on like for a fail-safe door.
ServeSecureLikeSafe(c) ==
    /\ life = "up" /\ pc[c] = "accepted" /\ c \in SecureDoors
    /\ listed' = listed \cup {c}
    /\ Go(c, "check")
    /\ UNCHANGED <<life, process, cur, i, match, dest, k, fa, queue, history>>

\* A fail-secure door is listed, and the process ends.
ServeSecure(c) ==
    /\ life = "up" /\ pc[c] = "accepted" /\ c \in SecureDoors
    /\ listed' = listed \cup {c}
    /\ life' = "dead"
    /\ UNCHANGED <<process, handlers, fa, queue, history>>

\* Mutant of ServeSafe: the door is not put in door_list.
ServeSafeUnlisted(c) ==
    /\ life = "up" /\ pc[c] = "accepted" /\ c \in SafeDoors
    /\ Go(c, "check")
    /\ UNCHANGED <<life, process, cur, i, match, dest, k, fa, listed, queue, history>>

ServeSafe(c) ==
    /\ life = "up" /\ pc[c] = "accepted" /\ c \in SafeDoors
    /\ listed' = listed \cup {c}
    /\ Go(c, "check")
    /\ UNCHANGED <<life, process, cur, i, match, dest, k, fa, queue, history>>

\* firealarm_addr is looked at, without a lock.
CheckAddress(c) ==
    /\ life = "up" /\ pc[c] = "check"
    /\ IF fa = "empty"
       THEN Go(c, "save") /\ UNCHANGED cur
       ELSE Go(c, "resolve") /\ cur' = [cur EXCEPT ![c] = c]
    /\ UNCHANGED <<life, process, i, match, dest, k, fa, listed, queue, history>>

Save(c) ==
    /\ life = "up" /\ pc[c] = "save" /\ MutexFree
    /\ slots' = [slots EXCEPT ![cnt] = c]
    /\ cnt' = cnt + 1
    /\ saved' = saved \cup {c}
    /\ Go(c, "done")
    /\ UNCHANGED <<life, process, cur, i, match, dest, k, fa, listed, at, j,
                   sent, told, confirmed>>

\* Mutant of WriteAddress: the loop over the queue skips its first entry.
WriteAddressFromOne ==
    \/ /\ life = "up" /\ pc[Unit] = "accepted"
       /\ fa' = "partial" /\ Go(Unit, "write") /\ UNCHANGED k
       /\ UNCHANGED <<life, process, cur, i, match, dest, listed, queue, history>>
    \/ /\ life = "up" /\ pc[Unit] = "write"
       /\ fa' = "whole" /\ Go(Unit, "loop") /\ k' = 1
       /\ UNCHANGED <<life, process, cur, i, match, dest, listed, queue, history>>

\* Mutant of WriteAddress: the loop starts while the address is being written.
WriteAddressLate ==
    \/ /\ life = "up" /\ pc[Unit] = "accepted"
       /\ fa' = "partial" /\ Go(Unit, "loop") /\ k' = 0
       /\ UNCHANGED <<life, process, cur, i, match, dest, listed, queue, history>>
    \/ /\ life = "up" /\ fa = "partial"
       /\ fa' = "whole" /\ UNCHANGED <<pc, k>>
       /\ UNCHANGED <<life, process, cur, i, match, dest, listed, queue, history>>

\* snprintf writes the address byte by byte; then the loop starts.
WriteAddress ==
    \/ /\ life = "up" /\ pc[Unit] = "accepted"
       /\ fa' = "partial" /\ Go(Unit, "write") /\ UNCHANGED k
       /\ UNCHANGED <<life, process, cur, i, match, dest, listed, queue, history>>
    \/ /\ life = "up" /\ pc[Unit] = "write"
       /\ fa' = "whole" /\ Go(Unit, "loop") /\ k' = 0
       /\ UNCHANGED <<life, process, cur, i, match, dest, listed, queue, history>>

LoopTest ==
    /\ life = "up" /\ pc[Unit] = "loop"
    /\ Go(Unit, IF k < cnt THEN "fetch" ELSE "done")
    /\ UNCHANGED <<life, process, cur, i, match, dest, k, fa, listed, queue, history>>

\* The argument of register_door is copied out of the queue.
Fetch ==
    /\ life = "up" /\ pc[Unit] = "fetch"
    /\ cur' = [cur EXCEPT ![Unit] = slots[k]]
    /\ Go(Unit, "resolve")
    /\ UNCHANGED <<life, process, i, match, dest, k, fa, listed, queue, history>>

-----------------------------------------------------------------------------
(* register_door.                                                          *)

Registering(c) == pc[c] \in {"resolve", "send", "scan", "read"}

\* The address is parsed.  A partial one has no port, which is a null pointer
\* to atoi, or a shorter number.
Resolve(c) ==
    /\ life = "up" /\ pc[c] = "resolve"
    /\ \/ /\ fa # "empty"
          /\ dest' = [dest EXCEPT ![c] = IF fa = "whole" THEN "unit" ELSE "elsewhere"]
          /\ Go(c, "send")
          /\ UNCHANGED <<life, process, cur, i, match, k, fa, listed, queue, history>>
       \/ fa # "whole" /\ Die

SendDoor(c) ==
    /\ life = "up" /\ pc[c] = "send"
    /\ Go(c, "scan")
    /\ i' = [i EXCEPT ![c] = 0]
    /\ match' = [match EXCEPT ![c] = FALSE]
    /\ sent' = IF dest[c] = "unit" THEN sent \cup {cur[c]} ELSE sent
    /\ UNCHANGED <<life, process, cur, dest, k, fa, listed, queue, saved, confirmed>>

SendArrives(c) == /\ SendDoor(c)
                  /\ dest[c] = "unit"
                  /\ told' = told \cup {cur[c]}

SendLost(c) == /\ SendDoor(c)
               /\ Lossy \/ dest[c] # "unit"
               /\ UNCHANGED told

\* register_door returns: a door's handler is through, the unit's handler
\* takes the next entry.
Return(c) ==
    /\ Go(c, IF c = Unit THEN "loop" ELSE "done")
    /\ k' = IF c = Unit THEN k + 1 ELSE k

\* Mutant of ScanTest: the loop goes on until there is a match.
ScanTestUntilMatch(c) ==
    /\ life = "up" /\ pc[c] = "scan"
    /\ \/ i[c] < cnt /\ Go(c, "read") /\ UNCHANGED k
       \/ i[c] >= cnt /\ ~match[c] /\ Go(c, "send") /\ UNCHANGED k
       \/ i[c] >= cnt /\ match[c] /\ Return(c)
    /\ UNCHANGED <<life, process, cur, i, match, dest, fa, listed, queue, history>>

\* The queue is looked through without its mutex; while the door is in it,
\* the datagram is sent again.
ScanTest(c) ==
    /\ life = "up" /\ pc[c] = "scan"
    /\ \/ i[c] < cnt /\ Go(c, "read") /\ UNCHANGED k
       \/ i[c] >= cnt /\ match[c] /\ Go(c, "send") /\ UNCHANGED k
       \/ i[c] >= cnt /\ ~match[c] /\ Return(c)
    /\ UNCHANGED <<life, process, cur, i, match, dest, fa, listed, queue, history>>

ScanRead(c) ==
    /\ life = "up" /\ pc[c] = "read"
    /\ match' = [match EXCEPT ![c] = @ \/ slots[i[c]] = cur[c]]
    /\ i' = [i EXCEPT ![c] = @ + 1]
    /\ Go(c, "scan")
    /\ UNCHANGED <<life, process, cur, dest, k, fa, listed, queue, history>>

-----------------------------------------------------------------------------
(* UDP_listener.                                                           *)

\* A DREG of a door the unit was told of: any number of them, at any time
\* after.  The first entry of that door is looked for, with the mutex.
TakeDreg(d) ==
    /\ life = "up" /\ at = "recv"
    /\ d \in told
    /\ confirmed' = confirmed \cup {d}
    /\ IF Queued(d)
       THEN /\ at' = "test"
            /\ \E n \in 0 .. cnt - 1 :
                 /\ slots[n] = d /\ \A h \in 0 .. n - 1 : slots[h] # d
                 /\ j' = n + 1
       ELSE at' = "again" /\ UNCHANGED j
    /\ UNCHANGED <<life, process, handlers, fa, listed, slots, cnt, saved, sent, told>>

\* A datagram of another kind, or a DREG that names no door.
IgnoreDatagram ==
    /\ life = "up" /\ at = "recv"
    /\ at' = "again"
    /\ UNCHANGED <<life, process, handlers, fa, listed, slots, cnt, j, history>>

\* The entries behind it move up by one, and the count goes down by one with
\* every entry that moves.
RemoveTest ==
    /\ life = "up" /\ at = "test"
    /\ at' = IF j < cnt THEN "shift" ELSE "again"
    /\ UNCHANGED <<life, process, handlers, fa, listed, slots, cnt, j, history>>

Shift ==
    /\ life = "up" /\ at = "shift"
    /\ slots' = [slots EXCEPT ![j - 1] = slots[j]]
    /\ at' = "drop"
    /\ UNCHANGED <<life, process, handlers, fa, listed, cnt, j, history>>

Drop ==
    /\ life = "up" /\ at = "drop"
    /\ cnt' = cnt - 1
    /\ j' = j + 1
    /\ at' = "test"
    /\ UNCHANGED <<life, process, handlers, fa, listed, slots, history>>

\* shutdown_flag is read between two datagrams.
NextDatagram ==
    /\ life = "up" /\ at = "again"
    /\ at' = IF main = "exiting" THEN "left" ELSE "recv"
    /\ UNCHANGED <<life, process, handlers, fa, listed, slots, cnt, j, history>>

-----------------------------------------------------------------------------
(* main: the operator's commands.                                          *)

\* FIRE ALARM: main never comes back from sending.  Without a whole address
\* the process faults, or the datagrams go elsewhere.
FireCommand ==
    /\ life = "up" /\ main = "idle"
    /\ \/ /\ fa # "empty"
          /\ main' = "firing"
          /\ UNCHANGED <<life, threads, listener, handlers, fa, listed, queue, history>>
       \/ fa # "whole" /\ Die

\* DOOR OPEN and DOOR CLOSE: for a door that is not listed the process ends.
\* (A listed door is sent the order; nothing here changes.)
OrderUnlisted(d) == life = "up" /\ main = "idle" /\ d \notin listed /\ Die

ExitCommand ==
    /\ life = "up" /\ main = "idle"
    /\ main' = "exiting"
    /\ UNCHANGED <<life, threads, listener, handlers, fa, listed, queue, history>>

\* main joins UDP_listener and TCP_listener, and returns.
Exit == /\ life = "up" /\ main = "exiting"
        /\ at = "left" /\ listener = "left"
        /\ Die

\* A socket call fails, in whichever thread.
Fault == life = "up" /\ Faults /\ Die

-----------------------------------------------------------------------------

Register(c) == Resolve(c) \/ SendArrives(c) \/ SendLost(c) \/ ScanTest(c) \/ ScanRead(c)

Handler(c) ==
    \/ ServeReader(c) \/ ServeOther(c) \/ ServeSecure(c)
    \/ ServeSafe(c) \/ CheckAddress(c) \/ Save(c)
    \/ c = Unit /\ (WriteAddress \/ LoopTest \/ Fetch)
    \/ Register(c)

Removal == RemoveTest \/ Shift \/ Drop

UDPListener == Removal \/ NextDatagram \/ IgnoreDatagram \/ \E d \in SafeDoors : TakeDreg(d)

Closing == StopSpawning \/ Joined

Commands == \/ FireCommand \/ ExitCommand \/ Exit
            \/ \E d \in SafeDoors \cup SecureDoors : OrderUnlisted(d)

Next == \/ Spawn \/ ThreadsExhausted \/ Closing
        \/ \E c \in Clients : Accept(c) \/ Handler(c)
        \/ UDPListener \/ Commands \/ Fault

Spec == Init /\ [][Next]_vars

\* Every thread that registers a door is scheduled, the mutex is handed on, and
\* of the datagrams of a door that is sent without end some arrive.  Nothing is
\* assumed of the clients, of the confirmations, or of the speed of
\* TCP_listener, which ends the process.
Fairness ==
    /\ \A c \in SafeDoors \cup {Unit} :
          WF_vars(Handler(c)) /\ SF_vars(SendArrives(c))
    /\ \A d \in SafeDoors : SF_vars(Save(d))
    /\ WF_vars(Removal \/ NextDatagram)
    /\ WF_vars(Closing) /\ WF_vars(Exit)

FairSpec == Spec /\ Fairness

-----------------------------------------------------------------------------
(* Properties.                                                             *)

\* Types; the count of the queue never passes the array, and every index a
\* thread uses is inside it, whatever another thread does in between.
TypeOK ==
    /\ life \in {"up", "dead"}
    /\ threads \in 0 .. MaxThreads
    /\ pc \in [Clients -> {"outside", "accepted", "check", "save", "resolve",
                          "send", "scan", "read", "write", "loop", "fetch", "done"}]
    /\ cur \in [Clients -> SafeDoors \cup {NoDoor}]
    /\ i \in [Clients -> 0 .. MaxDoors]
    /\ \A c \in Clients : pc[c] = "read" => i[c] < MaxDoors
    /\ match \in [Clients -> BOOLEAN]
    /\ dest \in [Clients -> {"none", "unit", "elsewhere"}]
    /\ k \in 0 .. MaxDoors /\ (pc[Unit] = "fetch" => k < MaxDoors)
    /\ fa \in {"empty", "partial", "whole"}
    /\ listed \in SUBSET (SafeDoors \cup SecureDoors)
    /\ slots \in [Indices -> SafeDoors \cup {NoDoor}]
    /\ cnt \in 0 .. MaxDoors
    /\ at \in {"recv", "test", "shift", "drop", "again", "left"}
    /\ j \in 0 .. MaxDoors /\ (at = "shift" => j \in 1 .. cnt - 1)
    /\ main \in {"idle", "firing", "exiting"}
    /\ listener \in {"spawning", "joining", "left"}
    /\ saved \in SUBSET SafeDoors /\ sent \in SUBSET SafeDoors
    /\ told \in SUBSET sent /\ confirmed \in SUBSET told

\* The unit is told only of registered fail-safe doors and only once it is
\* registered, though the queue is read without its mutex while entries move.
Abs == INSTANCE Registry WITH announced <- fa # "empty"
ImplementsRegistry == Abs!Spec

\* A half written address misleads only a door that registers at that moment: the
\* datagrams of the doors that were saved before all go to the unit.
SavedGoToUnit ==
    [][\A c \in Clients :
          cur[c] \in saved /\ pc[c] = "send" /\ pc'[c] = "scan" => cur[c] \in sent']_vars

\* EXIT cuts no client off: once the handlers are joined, every client that was
\* ever accepted is done with, and no handler is left to accept another.
ExitIsClean ==
    listener = "left" => \A c \in Clients : pc[c] \in {"outside", "done"}

\* A door that registers is done with, whatever happens to its datagram.
DoorServed ==
    \A d \in SafeDoors : pc[d] = "accepted" ~> pc[d] = "done" \/ life = "dead"

\* When the unit registers, the door that has waited longest is sent to it.
FirstSavedIsSent ==
    \A d \in SafeDoors :
        fa = "partial" /\ cnt > 0 /\ slots[0] = d ~> d \in sent \/ life = "dead"

-----------------------------------------------------------------------------
(* What the comments of overseer.c promise beyond.                         *)

\* A saved door stays saved until it is confirmed.
SavedIsKept ==
    at \in {"recv", "again"} => \A d \in saved \ confirmed : Queued(d)

\* A saved door is resent until it is confirmed: the unit's handler, which
\* looks for the door while entries move under its hands, leaves it only then.
ResentUntilConfirmed ==
    [][pc[Unit] = "scan" /\ pc'[Unit] = "loop" => cur[Unit] \in confirmed]_vars

-----------------------------------------------------------------------------
(* The invariant that is inductive.                                        *)

\* Only a fail-safe door's own handler or the unit's runs register_door, on a
\* listed door and with the unit registered.
HandlersInv ==
    /\ \A c \in Clients : Registering(c) =>
          /\ c \in SafeDoors \cup {Unit}
          /\ cur[c] \in SafeDoors \cap listed
          /\ fa # "empty"
    /\ \A c \in Clients :
          pc[c] \in {"check", "save"} => c \in SafeDoors \cap listed
    /\ pc[Unit] \in {"write", "loop", "fetch"} => fa # "empty"
    /\ Registering(Unit) \/ pc[Unit] = "fetch" => k < MaxDoors
    /\ pc[Unit] = "fetch" => slots[k] # NoDoor

\* The queue holds listed doors, and no more of them than ever entered it; a
\* removal stays inside.
QueueInv ==
    /\ \A n \in Indices : slots[n] # NoDoor => slots[n] \in listed
    /\ \A n \in Indices : n < cnt => slots[n] # NoDoor
    /\ \A d \in saved : pc[d] = "done"
    /\ cnt <= Cardinality(saved)
    /\ at = "test" => j > 0
    /\ at \in {"shift", "drop"} => 0 < j /\ j < cnt

OverseerInv == TypeOK /\ HandlersInv /\ QueueInv

\* The unit's handler goes round its loop with the whole address, and any other
\* handler registers the door it serves.
AddressInv ==
    /\ pc[Unit] \in {"loop", "fetch"} \/ Registering(Unit) => fa = "whole"
    /\ pc[Unit] \in {"send", "scan", "read"} => dest[Unit] = "unit"
    /\ \A c \in SafeDoors : Registering(c) => cur[c] = c

\* With two doors at most, a removal moves one entry, over a confirmed one.
KeptInv ==
    /\ \A d \in saved \ confirmed : Queued(d)
    /\ at \in {"test", "shift"} /\ j < cnt => slots[j - 1] \in confirmed
    /\ at = "drop" => slots[j - 1] = slots[j]

\* Nothing but saved doors is ever in the queue, and so a door that was not saved
\* never finds itself there.
LateInv ==
    /\ \A n \in Indices : slots[n] # NoDoor => slots[n] \in saved
    /\ \A d \in SafeDoors : ~match[d]

\* A removal has moved the last entry to the front, and no door is left to come.
Moved == /\ \A n \in Indices : slots[n] # NoDoor => slots[n] = slots[0]
         /\ SafeDoors \subseteq saved

\* With two doors at most, the unit's handler has the front of the queue in hand,
\* until a removal moves; a door that is not confirmed it finds there.
ResentInv ==
    /\ \A n \in Indices : n >= 2 => slots[n] = NoDoor
    /\ pc[Unit] = "fetch" \/ Registering(Unit) => cnt > 0
    /\ k >= 1 => Moved
    /\ Registering(Unit) =>
          /\ slots[0] = cur[Unit] \/ Moved
          /\ cur[Unit] \notin confirmed => slots[0] = cur[Unit]
    /\ pc[Unit] \in {"scan", "read"} /\ i[Unit] > 0 /\ ~match[Unit] =>
          Moved /\ cur[Unit] \in confirmed

\* Once they are joined, no handler is at work and none waits for a client.
ExitInv == listener = "left" => ExitIsClean /\ Cardinality(Served) = threads

=============================================================================
