------------------------------ MODULE Scenario ------------------------------
(***************************************************************************)
(* The simulator plays a scenario (main and run_event of                   *)
(* src/Source/simulator.c) to a card reader (src/Source/cardreader.c) and  *)
(* a call point (src/Source/callpoint.c), each of which shares a segment   *)
(* of memory, a mutex and its conditions with it.  The overseer, which     *)
(* answers the reader, is the environment.                                 *)
(*                                                                         *)
(* Either component keeps its mutex but for pthread_cond_wait; the         *)
(* simulator takes it for one step.  A process that exits leaves what it   *)
(* has locked locked.                                                      *)
(*                                                                         *)
(* main of this repository maps the memory and then puts a private copy in *)
(* its place (simulator.c:525), so that its events reach neither           *)
(* component.  The variable mapped tells that simulator from one that      *)
(* writes the memory the components map.                                   *)
(***************************************************************************)
EXTENDS Naturals, Sequences

CONSTANTS
    Codes,      \* card codes of 16 characters
    NoCode,     \* what a shorter code, or none, leaves in memory
    Allowed,    \* codes the overseer allows through this reader's door
    Length,     \* events in the longest scenario
    FdLimit,    \* sockets the reader can have open
    Spurious    \* TRUE when pthread_cond_wait may return without a signal

ASSUME ScenarioAssumption ==
    /\ NoCode \notin Codes
    /\ Allowed \subseteq Codes
    /\ Length \in Nat /\ FdLimit \in Nat
    /\ Spurious \in BOOLEAN

VARIABLES
    mapped,     \* the simulator writes the memory that the components map
    todo,       \* the events the simulator has not come to yet
    sim,        \* where the simulator is in the first of them
    scanned,    \* card_shm.scanned
    response,   \* card_shm.response
    reader,     \* where the card reader is
    left,       \* the reader exited with its mutex locked
    fds,        \* sockets the reader has open
    asked,      \* the code it sent last
    answer,     \* what came back on that connection
    status,     \* callpoint_shm.status
    point,      \* where the call point is
    fired       \* history: a FIRE datagram was sent

simVars    == <<mapped, todo, sim>>
cardVars   == <<scanned, response>>
readerVars == <<reader, left, fds, asked, answer>>
pointVars  == <<point, fired>>
vars       == <<simVars, cardVars, readerVars, status, pointVars>>

Scan(c) == [type |-> "CARD_SCAN", code |-> c]
Press   == [type |-> "CALLPOINT_TRIGGER"]
Events  == {Scan(c) : c \in Codes \cup {NoCode}} \cup {Press}

Answers == {"none", "ALLOWED", "DENIED", "OTHER", "CLOSED", "RESET"}

\* Mutant of CardFree: the reader polls for a scan and keeps the mutex.
CardFreePolling == reader = "hello" /\ ~left

\* Mutant of CardFree: the reader gives the mutex back while it waits for the
\* overseer.
CardFreeAwaiting == reader # "check" /\ ~left
CardFree  == reader \notin {"check", "await"} /\ ~left
PointFree == point \in {"start", "wait"}

Init == /\ mapped \in BOOLEAN
        /\ todo \in UNION {[1 .. n -> Events] : n \in 0 .. Length}
        /\ sim = "sleep"
        /\ scanned = NoCode
        /\ response = "NUL"
        /\ reader = "hello"
        /\ left = FALSE
        /\ fds = 0
        /\ asked = NoCode
        /\ answer = "none"
        /\ status = "-"
        /\ point = "start"
        /\ fired = FALSE

-----------------------------------------------------------------------------
(* The simulator: the loop of main, and run_event.                         *)

\* The time of the next event has come; if its timestamp is not later than
\* the one before, the simulator exits instead.
EventDue ==
    /\ sim = "sleep" /\ todo # <<>>
    /\ sim' \in {"lock", "exited"}
    /\ UNCHANGED <<mapped, todo, cardVars, readerVars, status, pointVars>>

\* Only a mapped mutex can be in the reader's hands, and only mapped memory is
\* what the reader reads.
WriteCode ==
    /\ sim = "lock" /\ (CardFree \/ ~mapped)
    /\ \E c \in Codes \cup {NoCode} :
          Head(todo) = Scan(c) /\ scanned' = IF mapped THEN c ELSE scanned
    /\ sim' = "signal"
    /\ UNCHANGED <<mapped, todo, response, readerVars, status, pointVars>>

\* response_cond is signalled, for which nobody waits.
SignalCard ==
    /\ sim = "signal" /\ Head(todo).type = "CARD_SCAN"
    /\ sim' = "sleep" /\ todo' = Tail(todo)
    /\ UNCHANGED <<mapped, cardVars, readerVars, status, pointVars>>

WriteStatus ==
    /\ sim = "lock" /\ Head(todo) = Press /\ (PointFree \/ ~mapped)
    /\ status' = IF mapped THEN "*" ELSE status
    /\ sim' = "signal"
    /\ UNCHANGED <<mapped, todo, cardVars, readerVars, pointVars>>

SignalPoint ==
    /\ sim = "signal" /\ Head(todo) = Press
    /\ point' = IF mapped /\ point = "wait" THEN "check" ELSE point
    /\ sim' = "sleep" /\ todo' = Tail(todo)
    /\ UNCHANGED <<mapped, cardVars, readerVars, status, fired>>

-----------------------------------------------------------------------------
(* The card reader.                                                        *)

\* The process exits, with its mutex locked or not.
ReaderExits(locked) ==
    /\ reader' = "dead" /\ left' = locked /\ fds' = 0
    /\ UNCHANGED <<asked, answer>>

Hello ==
    /\ reader = "hello"
    /\ \/ reader' = "check" /\ UNCHANGED <<left, fds, asked, answer>>
       \/ ReaderExits(FALSE)
    /\ UNCHANGED <<simVars, cardVars, status, pointVars>>

\* There is no code in memory: wait for scanned_cond.
Rest ==
    /\ reader = "check" /\ scanned = NoCode
    /\ reader' = "wait"
    /\ UNCHANGED <<simVars, cardVars, left, fds, asked, answer, status, pointVars>>

\* Mutant of Ask: the result of socket is not tested.
AskUnchecked ==
    /\ reader = "check" /\ scanned # NoCode
    /\ reader' = "await"
    /\ fds' = fds + 1
    /\ asked' = scanned
    /\ answer' = "none"
    /\ UNCHANGED <<simVars, cardVars, left, status, pointVars>>

Ask ==
    /\ reader = "check" /\ scanned # NoCode /\ fds < FdLimit
    /\ reader' = "await"
    /\ fds' = fds + 1
    /\ asked' = scanned
    /\ answer' = "none"
    /\ UNCHANGED <<simVars, cardVars, left, status, pointVars>>

\* Mutant of AskFails: a failing socket is reported, and the code tried again.
AskFailsAgain ==
    /\ reader = "check" /\ scanned # NoCode
    /\ fds < FdLimit /\ ReaderExits(FALSE)
    /\ UNCHANGED <<simVars, cardVars, status, pointVars>>

\* socket or connect fails, and the mutex stays locked; or send fails.
AskFails ==
    /\ reader = "check" /\ scanned # NoCode
    /\ ReaderExits(TRUE) \/ (fds < FdLimit /\ ReaderExits(FALSE))
    /\ UNCHANGED <<simVars, cardVars, status, pointVars>>

\* Nothing came within wait_time: the code is refused, and sent again at once
\* on a new socket.  The old one is forgotten.
GiveUp ==
    /\ reader = "await" /\ answer = "none"
    /\ response' = "N"
    /\ reader' = "check"
    /\ UNCHANGED <<simVars, scanned, left, fds, asked, answer, status, pointVars>>

\* The answer is published (and response_cond signalled).
Publish ==
    /\ reader = "await" /\ answer \in {"ALLOWED", "DENIED", "CLOSED"}
    /\ response' = IF answer = "ALLOWED" THEN "Y" ELSE "N"
    /\ fds' = fds - 1
    /\ reader' = "wait"
    /\ UNCHANGED <<simVars, scanned, left, asked, answer, status, pointVars>>

AnswerUnusable ==
    /\ reader = "await" /\ answer \in {"OTHER", "RESET"}
    /\ ReaderExits(answer = "OTHER")
    /\ UNCHANGED <<simVars, cardVars, status, pointVars>>

\* The only way on from pthread_cond_wait: nobody signals scanned_cond.  The
\* code in memory is sent again if it was sent before.
ReaderSpurious ==
    /\ Spurious /\ reader = "wait"
    /\ reader' = "check"
    /\ UNCHANGED <<simVars, cardVars, left, fds, asked, answer, status, pointVars>>

\* The overseer answers, or the connection ends.
OverseerAnswers ==
    /\ reader = "await" /\ answer = "none"
    /\ \E a \in Answers \ {"none"} :
          /\ a = "ALLOWED" => asked \in Allowed
          /\ answer' = a
    /\ UNCHANGED <<simVars, cardVars, reader, left, fds, asked, status, pointVars>>

-----------------------------------------------------------------------------
(* The call point.                                                         *)

\* Mutant of PointStart: it waits before it looks.
PointStartWaits ==
    /\ point = "start"
    /\ point' = "wait"
    /\ UNCHANGED <<simVars, cardVars, readerVars, status, fired>>

PointStart ==
    /\ point = "start"
    /\ point' = "check"
    /\ UNCHANGED <<simVars, cardVars, readerVars, status, fired>>

PointCheck ==
    /\ point = "check"
    /\ point' = IF status = "*" THEN "firing" ELSE "wait"
    /\ UNCHANGED <<simVars, cardVars, readerVars, status, fired>>

\* FIRE is sent without end, with the mutex locked ...
SendFire ==
    /\ point = "firing"
    /\ fired' = TRUE
    /\ UNCHANGED <<simVars, cardVars, readerVars, status, point>>

\* ... or until sendto fails.
SendFails ==
    /\ point = "firing"
    /\ point' = "dead"
    /\ UNCHANGED <<simVars, cardVars, readerVars, status, fired>>

PointSpurious ==
    /\ Spurious /\ point = "wait"
    /\ point' = "check"
    /\ UNCHANGED <<simVars, cardVars, readerVars, status, fired>>

-----------------------------------------------------------------------------

Simulator == EventDue \/ WriteCode \/ SignalCard \/ WriteStatus \/ SignalPoint

Reader == Hello \/ Rest \/ Ask \/ AskFails \/ GiveUp \/ Publish \/ AnswerUnusable

CallPoint == PointStart \/ PointCheck \/ SendFire

Next == \/ Simulator \/ Reader \/ CallPoint \/ SendFails
        \/ ReaderSpurious \/ PointSpurious \/ OverseerAnswers

Spec == Init /\ [][Next]_vars

\* Every process is scheduled, and gets a mutex that is free time and again.
\* Nothing is assumed of the overseer.
Fairness == /\ WF_vars(Simulator) /\ WF_vars(Reader) /\ WF_vars(CallPoint)
            /\ SF_vars(WriteCode) /\ SF_vars(WriteStatus)

FairSpec == Spec /\ Fairness

-----------------------------------------------------------------------------
(* Properties.                                                             *)

\* Types; the reader has no more sockets than the limit, and one while it waits
\* for an answer; only a reader that exited leaves its mutex locked.
TypeOK ==
    /\ mapped \in BOOLEAN
    /\ todo \in Seq(Events)
    /\ sim \in {"sleep", "lock", "signal", "exited"}
    /\ sim \in {"lock", "signal"} => todo # <<>>
    /\ scanned \in Codes \cup {NoCode}
    /\ response \in {"NUL", "Y", "N"}
    /\ reader \in {"hello", "check", "await", "wait", "dead"}
    /\ left \in BOOLEAN /\ (left => reader = "dead")
    /\ fds \in 0 .. FdLimit /\ (reader = "await" => fds > 0)
    /\ asked \in Codes \cup {NoCode}
    /\ answer \in Answers
    /\ status \in {"-", "*"}
    /\ point \in {"start", "check", "wait", "firing", "dead"}
    /\ fired \in BOOLEAN

\* Y is only ever published while the code in memory is one the overseer
\* allows: a scan during the wait for the answer cannot get in between.
YesOnlyIfAllowed ==
    [][reader = "await" /\ reader' = "wait" /\ response' = "Y" => scanned' \in Allowed]_vars

\* The call point never sleeps on a press: when the status is set while it
\* waits, the signal that wakes it is still to come.
PressNotLost ==
    status = "*" /\ point = "wait" => sim = "signal" /\ Head(todo) = Press

\* A press that the simulator makes in the memory the call point maps leads to
\* FIRE, whenever it comes, unless the call point's socket fails.  A press made
\* in the private copy of simulator.c:525 leads to nothing.
PressHeard ==
    mapped /\ sim = "signal" /\ Head(todo) = Press ~> fired \/ point = "dead"

\* The scenario is held up for good only where the code leaves a mutex locked:
\* by a reader that exited with its own (a scan), or by a call point that sounds
\* or stopped (a press).  A reader that waits, or the overseer's answer alone,
\* does not hold it up.
ScenarioGoesOn ==
    sim = "lock" ~> \/ sim # "lock"
                    \/ Head(todo) # Press /\ left
                    \/ Head(todo) = Press /\ point \in {"firing", "dead"}

\* A reader that sent a code is back at its wait in the end, or has exited, even
\* if the overseer never answers: each time it gives up, and sends the code
\* again, costs it one more socket.
ReaderComesBack == reader = "await" ~> reader \in {"wait", "dead"}

-----------------------------------------------------------------------------
(* The invariant that is inductive.                                        *)

\* While the reader waits for an answer, it is the code in memory that was
\* sent, and only an allowed one is allowed; a call point that reads a press
\* reads what the simulator wrote.
ScenarioInv ==
    /\ TypeOK
    /\ status = "*" => mapped
    /\ reader = "await" => asked = scanned
    /\ reader = "await" /\ answer = "ALLOWED" => asked \in Allowed

=============================================================================
