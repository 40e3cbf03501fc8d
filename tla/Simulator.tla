----------------------------- MODULE Simulator ------------------------------
(***************************************************************************)
(* The simulator from its scenario file to its end (main, init_components, *)
(* spawn, door_status and terminate of src/Source/simulator.c): it         *)
(* initialises the memory of every component the file names, reads the     *)
(* file again to start the components, one process and for a door also one *)
(* thread each, plays the events, and stops what it started.               *)
(*                                                                         *)
(* A file is a sequence of lines, a line a member of Lines.  What run_event*)
(* does to a component is module Scenario.  Since main replaces the mapped *)
(* memory by memory of its own, no process signals a door thread here and  *)
(* the status a thread reads is the one init_components wrote.             *)
(***************************************************************************)
EXTENDS Naturals, Sequences, FiniteSets

CONSTANTS
    Files,                              \* the scenario files
    MaxReaders, MaxDoors, MaxPoints,    \* the sizes of the arrays
    Spurious    \* TRUE when pthread_cond_wait may return without a signal

Kinds == {"overseer", "firealarm", "cardreader", "door", "callpoint"}

\* Lines that start with INIT: of a component, or of something spawn skips.
InitLines == Kinds \cup {"other"}

\* "event" is a line that run_event takes, "bad" one that it does not: its
\* time is not later than the last one, or fields are missing.  "INIT" is one that
\* names no component.
Lines == InitLines \cup {"SCENARIO", "event", "bad", "INIT"}

ASSUME SimulatorAssumption ==
    /\ Files \subseteq Seq(Lines)
    /\ MaxReaders \in Nat /\ MaxDoors \in Nat /\ MaxPoints \in Nat
    /\ Spurious \in BOOLEAN

VARIABLES
    file,       \* the file the simulator was given
    place,      \* where it is
    n,          \* the line it is at
    made,       \* the slots init_components initialised, per kind
    num,        \* overseer_num, firealarm_num, ...
    port,       \* port_num
    addr,       \* overseer_addr and firealarm_addr: the port in them, or 0
    started,    \* the processes, in the order of their start
    pids,       \* whose process id is in pids: an index of started, or 0 for
                \* that of a process the simulator did not start
    threads,    \* where the thread of each door is
    i,          \* the door, then the process, that terminate is at
    signalled   \* the processes that were sent SIGTERM

fileVars  == <<file, made>>
spawnVars == <<n, num, port, addr, started, pids>>
vars      == <<fileVars, place, spawnVars, threads, i, signalled>>

Slots == [overseer |-> 1, firealarm |-> 1, cardreader |-> MaxReaders,
          door |-> MaxDoors, callpoint |-> MaxPoints]
MaxComponents == 2 + MaxReaders + MaxDoors + MaxPoints

Doors == 0 .. MaxDoors - 1

\* shutdown_flag
Flag == place \in {"signal", "join", "kill", "returned"}

Init == /\ file \in Files
        /\ place = "init"
        /\ n = 1
        /\ made = [k \in Kinds |-> 0]
        /\ num = [k \in Kinds |-> 0]
        /\ port = 3000
        /\ addr = [overseer |-> 0, firealarm |-> 0]
        /\ started = <<>>
        /\ pids = <<>>
        /\ threads = [d \in Doors |-> "none"]
        /\ i = 0
        /\ signalled = {}

-----------------------------------------------------------------------------
(* init_components.                                                        *)

Scenarios == {m \in DOMAIN file : file[m] = "SCENARIO"}

\* The lines before the first SCENARIO line.
Header == {m \in DOMAIN file : \A s \in Scenarios : m < s}

\* Mutant of Initialised: a component that is not known ends the loop.
InitialisedKnown(k) ==
    {m \in Header : file[m] = k /\ \A o \in 1 .. m : file[o] # "other"}
Initialised(k) == {m \in Header : file[m] = k}

InitComponents ==
    /\ place = "init" /\ Scenarios # {}
    /\ \A m \in Header : file[m] # "INIT"
    /\ made' = [k \in Kinds |-> Cardinality(Initialised(k))]
    /\ place' = "spawn"
    /\ UNCHANGED <<file, spawnVars, threads, i, signalled>>

\* There is no SCENARIO line, an INIT line names no component, or more slots were
\* written than an array has and the memory behind it faulted.
InitFails ==
    /\ place = "init"
    /\ \/ Scenarios = {}
       \/ \E m \in Header : file[m] = "INIT"
       \/ \E k \in Kinds \ {"overseer", "firealarm"} :
             Cardinality(Initialised(k)) > Slots[k]
    /\ place' = "exited"
    /\ UNCHANGED <<fileVars, spawnVars, threads, i, signalled>>

-----------------------------------------------------------------------------
(* The loop of main, and spawn.                                            *)

AtLine == place = "spawn" /\ n <= Len(file)

\* Mutant of Refused: one door too many is let through.
RefusedLate(k) ==
    \/ k = "callpoint" /\ num["cardreader"] >= MaxPoints
    \/ k = "door" /\ num[k] > Slots[k]
    \/ k \notin {"callpoint", "door"} /\ num[k] >= Slots[k]

\* "Exceeded maximum number": of call points it is the readers that count.
Refused(k) ==
    IF k = "callpoint" THEN num["cardreader"] >= MaxPoints
                       ELSE num[k] >= Slots[k]

\* The address a process of kind k is given to connect or send to.
Peer(k) == IF k = "callpoint" THEN addr["firealarm"] ELSE addr["overseer"]

\* Mutant of FirstFits: any component may come first.
FirstFitsAny == TRUE
FirstFits == n = 1 => file[n] = "overseer"

\* A process: which component it is, which slot of the memory it was given,
\* its own address and that of its peer.
Processes == [kind : Kinds, slot : Nat, port : Nat, peer : Nat]

\* A component is started.  The overseer takes over the simulator's process
\* and its child goes on as the simulator: when the overseer is gone before
\* the child asks for its parent's id, that is another process's.
Spawn(k) ==
    /\ AtLine /\ file[n] = k /\ FirstFits /\ ~Refused(k)
    /\ LET own == IF k \in DOMAIN addr THEN [addr EXCEPT ![k] = port] ELSE addr
       IN  /\ addr' = own
           /\ started' = Append(started,
                  [kind |-> k, slot |-> num[k], port |-> port, peer |-> Peer(k)])
    /\ \/ pids' = Append(pids, Len(started) + 1)
       \/ k = "overseer" /\ pids' = Append(pids, 0)
    /\ threads' = IF k = "door" THEN [threads EXCEPT ![num[k]] = "start"]
                                ELSE threads
    /\ num' = [num EXCEPT ![k] = @ + 1]
    /\ port' = port + 1
    /\ n' = n + 1
    /\ UNCHANGED <<fileVars, place, i, signalled>>

\* A line that starts nothing.
PassLine ==
    /\ AtLine /\ FirstFits /\ file[n] \in {"other", "SCENARIO", "event"}
    /\ port' = IF file[n] = "other" THEN port + 1 ELSE port
    /\ n' = n + 1
    /\ UNCHANGED <<fileVars, place, num, addr, started, pids, threads, i, signalled>>

\* The simulator exits in the middle of the file and leaves what it started:
\* the first line is not the overseer's, there are too many of a component,
\* fields are missing or fork fails, or run_event refuses the line.
GiveUp ==
    /\ AtLine
    /\ ~FirstFits \/ file[n] \in Kinds \cup {"bad", "INIT"}
    /\ place' = "exited"
    /\ UNCHANGED <<fileVars, spawnVars, threads, i, signalled>>

FileEnds ==
    /\ place = "spawn" /\ n > Len(file)
    /\ place' = IF num["door"] = 0 THEN "kill" ELSE "signal"
    /\ i' = IF num["door"] = 0 THEN 1 ELSE 0
    /\ UNCHANGED <<fileVars, spawnVars, threads, signalled>>

-----------------------------------------------------------------------------
(* door_status: the thread of door d.  It has its mutex while it is at the *)
(* head of its loop, and keeps it when it leaves.                          *)

HasMutex(d) == threads[d] \in {"head", "left"}

Running == place \notin {"exited", "returned"}

ThreadLocks(d) ==
    /\ Running /\ threads[d] = "start"
    /\ threads' = [threads EXCEPT ![d] = "head"]
    /\ UNCHANGED <<fileVars, place, spawnVars, i, signalled>>

ThreadTests(d) ==
    /\ Running /\ threads[d] = "head"
    /\ threads' = [threads EXCEPT ![d] = IF Flag THEN "left" ELSE "wait"]
    /\ UNCHANGED <<fileVars, place, spawnVars, i, signalled>>

ThreadSpurious(d) ==
    /\ Running /\ Spurious /\ threads[d] = "wait"
    /\ threads' = [threads EXCEPT ![d] = "woken"]
    /\ UNCHANGED <<fileVars, place, spawnVars, i, signalled>>

\* It has its mutex again.  There is nothing to move: the status is 'C'.
ThreadReturns(d) ==
    /\ Running /\ threads[d] = "woken"
    /\ threads' = [threads EXCEPT ![d] = IF Flag THEN "left" ELSE "head"]
    /\ UNCHANGED <<fileVars, place, spawnVars, i, signalled>>

ThreadSteps(d) == ThreadLocks(d) \/ ThreadTests(d) \/ ThreadReturns(d)

-----------------------------------------------------------------------------
(* terminate.                                                              *)

\* Mutant of Signal: the signal is sent to the wrong condition.
SignalNobody ==
    /\ place = "signal" /\ ~HasMutex(i)
    /\ place' = "join"
    /\ UNCHANGED <<fileVars, spawnVars, threads, i, signalled>>

\* The mutex of a door is locked, its thread signalled, the mutex unlocked.
Signal ==
    /\ place = "signal" /\ ~HasMutex(i)
    /\ threads' = IF threads[i] = "wait" THEN [threads EXCEPT ![i] = "woken"]
                                         ELSE threads
    /\ place' = "join"
    /\ UNCHANGED <<fileVars, spawnVars, i, signalled>>

\* Mutant of Join: the thread is not waited for.
JoinNot ==
    /\ place = "join"
    /\ IF i + 1 < num["door"] THEN place' = "signal" /\ i' = i + 1
                              ELSE place' = "kill" /\ i' = 1
    /\ UNCHANGED <<fileVars, spawnVars, threads, signalled>>

Join ==
    /\ place = "join" /\ threads[i] = "left"
    /\ IF i + 1 < num["door"] THEN place' = "signal" /\ i' = i + 1
                              ELSE place' = "kill" /\ i' = 1
    /\ UNCHANGED <<fileVars, spawnVars, threads, signalled>>

\* SIGTERM to the next process that is on record.
Kill ==
    /\ place = "kill" /\ i <= Len(pids)
    /\ signalled' = signalled \cup ({pids[i]} \ {0})
    /\ i' = i + 1
    /\ UNCHANGED <<fileVars, place, spawnVars, threads>>

Return ==
    /\ place = "kill" /\ i > Len(pids)
    /\ place' = "returned"
    /\ UNCHANGED <<fileVars, spawnVars, threads, i, signalled>>

-----------------------------------------------------------------------------

Main == \/ InitComponents \/ InitFails \/ PassLine \/ GiveUp \/ FileEnds
        \/ \E k \in Kinds : Spawn(k)
        \/ Signal \/ Join \/ Kill \/ Return

Next == Main \/ \E d \in Doors : ThreadSteps(d) \/ ThreadSpurious(d)

Spec == Init /\ [][Next]_vars

\* The simulator and its threads are scheduled.
Fairness == WF_vars(Main) /\ \A d \in Doors : WF_vars(ThreadSteps(d))

FairSpec == Spec /\ Fairness

-----------------------------------------------------------------------------
(* Properties.                                                             *)

\* Types.  No array is indexed past its end: threads and pids have room for
\* every door and process spawn lets through, as long as there are not more
\* call points than there is memory for.
TypeOK ==
    /\ file \in Files
    /\ place \in {"init", "spawn", "signal", "join", "kill", "returned", "exited"}
    /\ n \in 1 .. Len(file) + 1
    /\ made \in [Kinds -> Nat]
    /\ num \in [Kinds -> Nat]
    /\ \A k \in Kinds \ {"callpoint"} : num[k] <= Slots[k]
    /\ port \in Nat
    /\ addr \in [{"overseer", "firealarm"} -> Nat]
    /\ started \in Seq(Processes)
    /\ pids \in Seq(Nat)
    /\ num["callpoint"] <= MaxPoints => Len(pids) <= MaxComponents
    /\ threads \in [Doors -> {"none", "start", "head", "wait", "woken", "left"}]
    /\ i \in Nat /\ (place \in {"signal", "join"} => i < num["door"])
    /\ signalled \subseteq DOMAIN started

\* The components are all named before the events.
InOrder == \A m \in DOMAIN file : file[m] \in Kinds => m \in Header

\* The two passes over the file agree: a process gets memory that was
\* initialised for its kind, and no two processes get the same.
SlotsFit ==
    InOrder =>
        \A p \in DOMAIN started :
            /\ started[p].slot < made[started[p].kind]
            /\ \A q \in DOMAIN started :
                  started[p].kind = started[q].kind
                  /\ started[p].slot = started[q].slot => p = q

\* The overseer is the first to be started, and one; whoever registers with it
\* was given its address; a call point that was started after the fire alarm
\* unit was given the unit's.
PeersKnown ==
    \A p \in DOMAIN started :
        /\ started[p].kind = "overseer" <=> p = 1
        /\ started[p].kind = "callpoint" =>
              \A q \in 1 .. p - 1 :
                  started[q].kind = "firealarm" => started[p].peer = started[q].port
        /\ started[p].kind \notin {"overseer", "callpoint"} =>
              started[p].peer = started[1].port

\* When the simulator returns, no thread of its is left in the memory it gives
\* back, and every process it started was told to end, save an overseer that
\* had ended before its process id was taken.
CleanEnd ==
    place = "returned" =>
        /\ \A d \in Doors : threads[d] \in {"none", "left"}
        /\ \A p \in DOMAIN started :
              p \in signalled \/ (started[p].kind = "overseer" /\ pids[p] = 0)

\* terminate waits for the mutex of a door whose thread took it along.
Stuck == place = "signal" /\ threads[i] = "left"

\* The simulator comes to an end, unless a thread has seen the flag by itself
\* and has left its loop, and kept its mutex, before terminate got there.
ComesToAnEnd == <>(place \in {"returned", "exited"} \/ Stuck)

-----------------------------------------------------------------------------
(* The inductive invariant behind them.                                    *)

\* How many lines of kind k were read.
Read(k) == {m \in 1 .. n - 1 : file[m] = k}

\* spawn counts what it reads, init_components what it will read.
CountsInv ==
    /\ n = 1 <=> started = <<>>
    /\ place = "init" => n = 1
    /\ \A k \in Kinds : num[k] = Cardinality(Read(k))
    /\ place \notin {"init", "exited"} =>
          \A k \in Kinds : made[k] = Cardinality(Initialised(k))
    /\ Len(pids) = Len(started)
    /\ Len(started) = num["overseer"] + num["firealarm"] + num["cardreader"]
                         + num["door"] + num["callpoint"]

\* What a process was started with, in terms of those before it.
ProcessesInv ==
    /\ \A p \in DOMAIN started :
          /\ started[p].slot < num[started[p].kind]
          /\ started[p].kind \in {"overseer", "firealarm"} =>
                addr[started[p].kind] = started[p].port
          /\ pids[p] = p \/ (started[p].kind = "overseer" /\ pids[p] = 0)
    /\ PeersKnown
    /\ SlotsFit
    /\ \A p, q \in DOMAIN started :
          started[p].kind = started[q].kind
          /\ started[p].slot = started[q].slot => p = q

\* How far terminate is.
StopInv ==
    /\ \A d \in Doors : threads[d] = "none" <=> num["door"] <= d
    /\ place \in {"signal", "join"} => \A d \in Doors : d < i => threads[d] = "left"
    /\ place \in {"kill", "returned"} =>
          \A d \in Doors : d < num["door"] => threads[d] = "left"
    /\ place = "kill" =>
          i > 0 /\ \A p \in DOMAIN pids : p < i => pids[p] \in signalled \cup {0}
    /\ place = "returned" => \A p \in DOMAIN pids : pids[p] \in signalled \cup {0}

SimulatorInv == TypeOK /\ CountsInv /\ ProcessesInv /\ StopInv

=============================================================================
