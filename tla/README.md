# Verification of the CAB403 building-safety system

The repository is a C implementation of a distributed safety and security
system for a building: one process per component, TCP and UDP between the
processes, and a segment of shared memory between every controller and the
simulated hardware.  This directory holds a TLA+ model of it, the TLC runs that
check the model and the proofs that TLAPS checks.  Paths below are relative to
`src/Source/`.

    tlc -workers 2 -config DoorSafety.cfg MCDoor      # a run
    tlapm DoorProofs.tla                              # the proofs of a module

## 1. Inventory

| component | source | state | operations | talks to |
|---|---|---|---|---|
| door controller | `door.c` | local copy of the status, `emergency`, `secure`, open descriptors | register, listen, OPEN / CLOSE / OPEN_EMERG / CLOSE_SECURE | overseer (TCP, registration), its peers (TCP), mechanism (shared memory) |
| door mechanism | `simulator.c` `door_status` | the shared `status` | wait, move, signal | door controller |
| fire alarm unit | `firealarm.c` | `door_list`, `alarm` | register, take FIRE / DOOR / TEMP datagrams, open every door | overseer, doors, call points |
| overseer, registration | `overseer.c` | `door_list`, `door_queue`, `firealarm_addr`, one thread per connection | handle a registration, resend DOOR datagrams, take DREG datagrams, operator commands | everybody |
| overseer, scans | `overseer.c` `handle_scan`, `check_access`, `get_door_id` | two text files | decide on a code, move the door | doors; no reader gets there (section 6) |
| call point | `callpoint.c` | shared `status` | wait for a press, then send FIRE for ever | fire alarm unit, simulator |
| card reader | `cardreader.c` | shared `scanned`, `response` | send a scanned code, wait, publish the answer, retry | overseer, simulator |
| destination select | `destselect.c` | as the card reader, and `floor_select` | as the card reader | overseer |
| simulator | `simulator.c` | shared segment, child processes, door threads | start the components, play the scenario, stop | all, through memory |
| temperature sensor | `tempsensor.c` | last reading | forward TEMP datagrams | sensors, fire alarm unit |
| elevator, camera | `elevator.c`, `camera.c` | none | return from `main` | nobody |
| common code | `utility.c`, `utility.h` | none | addresses, TCP messages, shared memory | - |

What is hard, and what makes each part correct:

- **Door.**  Two processes share a mutex and two conditions.  The controller
  judges the orders of many peers by a copy of the status made earlier, and
  waits for `cond_end` without a loop.  Correct means: the emergency latch is
  never undone, the copy is never wrong when used, answers fit orders, no
  wakeup is lost, an emergency order that was received is carried out whatever the
  peer does, descriptors are not leaked.
- **Fire alarm unit.**  A fixed array filled by datagrams that may be lost or
  repeated, a bounded receive buffer, doors that may not listen yet or no longer, port bytes that
  are swapped in four places.  Correct means: the array holds, what was
  confirmed to the overseer is opened in a fire, the alarm comes first, a fire
  is heard and worked through.
- **Overseer.**  A thread per connection, a queue whose readers take no mutex
  while another thread moves its entries, an address string that nobody locks,
  a resend loop that waits for a confirmation another thread takes.  Correct
  means: indices stay inside, the unit hears of registered fail-safe doors only,
  a saved door is resent until it is confirmed, no registration hangs.
- **Overseer and unit together.**  A door must get from its registration to the
  unit's list through a queue, a lossy socket, a resend loop and a confirmation,
  while another door, a fire or a full list comes in between.  Correct means: only
  a registered fail-safe door is opened and only in a fire, what reached the unit
  stays known to it and is opened once a fire is reported, the first saved door gets
  through.
- **Simulator.**  The scenario file is read twice, with two sets of counters, and the
  end of the program has to stop a thread per door and a process per component.
  Correct means: every component gets the memory that was initialised for it and
  the addresses it needs, no array is overrun, nothing is left running.
- **Card reader, call point and scenario.**  Shared memory again, a reader that
  keeps the mutex while it waits for the network, processes that exit with the
  mutex locked.  Correct means: an answer is published for the code it belongs
  to, a press is not missed, one component does not stop the scenario.

## 2. Modules

| module | models | checked by | proved in |
|---|---|---|---|
| `DoorSpec` | what a door promises | - | - |
| `Door` | controller, mechanism thread, peers | `MCDoor` | `DoorProofs` |
| `FireSpec` | what the unit promises | - | - |
| `FireAlarm` | fire alarm unit, doors and datagrams around it | `MCFireAlarm` | `FireAlarmProofs` |
| `Registry` | what registration promises | - | - |
| `Overseer` | every thread of registration and the operator | `MCOverseer` | `OverseerProofs` |
| `Evacuation` | what overseer and unit promise together | - | - |
| `FireSystem` | `Overseer` and `FireAlarm` composed, with the datagrams between them | `MCFireSystem` | `FireSystemProofs` |
| `Scenario` | `run_event` with card reader and call point | `MCScenario` | `ScenarioProofs` |
| `Simulator` | the simulator from its file to its end | `MCSimulator` | `SimulatorProofs` |

A definition that ends up unused in a specification and is commented "Mutant
of ..." is a plausible bug in the definition it names; replacing that
definition by it breaks the property it was written for.

### Door

`pc` is the controller's place in `main` of `door.c`: registering, listening,
reading the status (line 81), accepting, with a message, in `update_status`.
Every branch of the long `if` is an action (`AnswerBarred`, `AnswerAlready`,
`BeginMove`, `BeginForced`, `Ignore`); `StartMove` is `update_status` up to its
wait and `FinishMove` / `FinishForced` what follows.  `mech` is the place of
`door_status`.  The mechanism keeps the mutex while the door moves and every
other critical section is one step, so the mutex is free when `mech # "moving"`.
`cached` is the copy of the status that outlives the lock.  `fds` are accepted
and unclosed descriptors: several branches of the code do not close.  Peers
connect, send one message and may go away at any time, before or after an
answer, so that `send` may fail and end the controller (`FinishDies`).

`Fitting` says what a peer may hear: among the rest EMERGENCY for a CLOSE that finds
the door in emergency and SECURE for an OPEN that finds it secured, as `utility.c`
names the two, the door's document asks and `overseer.c:222` expects.  `door.c:185` sends EMERGENCY in
either case (`Misnamed`): `AnswersFit` is about every other answer, and
`SecureIsNamed`, about this one, fails (`door_secure`).  `NoOtherLeak` bounds what is left open:
connections without an answer (a forced move, no matching branch) or with ALREADY.

`MechInits` says what the mechanism thread may be doing at the start: at its
wait, not yet there (`starting`), or working on other memory (`elsewhere`),
which is what `simulator.c:525` makes of it.  `Spurious` lets
`pthread_cond_wait` return without a signal.  `WakeupNotLost` and `ToldWhenThere` hold for
each of these: the first names the one way into a deadlock (the mechanism comes to
its first wait after the signal), the second what is still true of OPENED when the
wait before it returned by itself.

`DoorSpec` is the door as seen from outside: a position that moves in legs and a
latch.  `Door` implements it with `position <- status` and
`latched <- emergency \/ secure`.

### FireAlarm

`pc` runs from `hello` and `bind` through the loop of `main` to `FIRE_protocal`
(`fire`) and the loop after it (`post`).  `inbox` is the kernel's receive buffer.
`list` is `door_list` by port; `StoreDoor`, `ListFull` and `SearchHangs` are the
three outcomes of a DOOR datagram, the last one being the read of an
uninitialised slot, which may or may not match.  `SendEmergency` is
`send_emergency`: a socket that cannot be had (`Faults`) or a door that does not accept ends the
unit, for it sends on a bad descriptor.  `up` are the doors that accept: one that registered may not
listen yet (`DoorListens`, `door.c:44`) and its process may end (`DoorStops`).  Ports are numbers
and `Swap` is `htons`, because the number of swaps matters: `Dest` is the port
that `connect` reaches.  `NetworkOrder` says whether senders write the port in
network order, as the unit's document asks, or in host order, as `overseer.c`
does, which is how the run has it.  `FireSpec` is the alarm that is raised once and before any door.

### Overseer

A handler is named by the client it serves; `threads` counts the handlers that
`TCP_listener` created.  Every access to `door_queue` and `firealarm_addr`
outside a mutex is a step of its own: the check of the address
(`CheckAddress`), the two halves of writing it (`WriteAddress`), the loop test
and the fetch of the unit's handler, the test and the read of the resend loop
(`ScanTest`, `ScanRead`), and the test, the move and the decrement of the
removal in `UDP_listener`, which holds the mutex.  `exit` in any thread sets
`life` to "dead".  `Registry` promises that the unit hears only of registered
fail-safe doors and only after it registered.

### FireSystem

The two modules are used as they are, by `INSTANCE`: the unit's `pc` is called
`place` here, and every step of the composition is a step of one of them or, where
something passes between them, of both.  `TellUnit` is `SendArrives` of the
overseer and `Arrive` of the unit in one step; a datagram that finds no socket or
no room is `TellNobody`.  A DREG may be taken by the overseer when the unit sent
one (`dregs` is never emptied: datagrams may be late and come twice).  During a
fire the unit's DREG has no port (`firealarm.c:66`), so `TakeShortDreg` removes
nothing or the door that an earlier datagram left in the overseer's buffer.
FIRE comes from a pressed call point.  Left out, and in the
components' own modules: failing socket calls, doors that do not accept, the operator.

`Misread` are the doors whose port the unit gets wrong: with host order, which
`overseer.c:356` sends, all whose two bytes differ.  Over the first of them in its
list, or told of in the fire, the unit ends, and the doors behind it stay closed
(`place = "dead"`).  `ToldOpenInTheEnd` has that as an outcome: a unit that is told of a misread door opens
those before it at most.  `FireOpensTold` speaks of a unit that came through its list, which one
that holds a misread port does not.  `FireSystemAssumption` leaves out ports that are misread for that of another
door; there are none from 3000 to 3327.

`Evacuation` is the promise of the two: opened doors were told of, registered and
fail-safe, and a fire was reported.  `FireSystem` implements it with
`registered <- listed \cap SafeDoors`, `known <- told`, `reported <- pressed`.

### Simulator

`place` runs from `init` (`init_components`, one step: nothing else exists yet) to
`spawn`, the loop over the lines, and through `signal`, `join` and `kill`, which
are `terminate`.  `made` counts the slots the first pass initialised, `num` those
the second pass handed out.  `started` lists the processes with slot and
addresses, `pids` whose id is on record: the overseer takes over the simulator's own
process and its child reads `getppid()` (`simulator.c:264`), which names another
process when the overseer has ended by then.  `threads` are the `door_status`
threads; they work on the memory of `simulator.c:525`, so that nothing but
`terminate` or a spurious wakeup moves them.  A file with more components
than an array holds makes `init_components` write past it: the process
faults (`InitFails`) or goes on and `spawn` refuses the component later.

### Scenario

`todo` is what is left of the scenario file, `sim` the place in `run_event`.
`mapped` says whether the simulator writes the memory that the components map.  `main`
maps it and then puts a private copy in its place (`simulator.c:525`): with `mapped`
FALSE, which is this repository's simulator, the events change nothing a component
reads and are held up by no component's mutex.  The components are programs of their own,
so that both values are played.
`reader` and `point` are the places in `cardreader.c` and `callpoint.c`.  Either
keeps its mutex except in `pthread_cond_wait`, so `CardFree` and `PointFree`
follow from the places; `left` records a reader that exited with the mutex
locked.  `Ask` and `AskFails` are the connection and the message; `GiveUp` is the
retry on `EAGAIN`, which forgets a socket; `Publish` writes the response.
A code shorter than 16 characters leaves a NUL in memory and counts as none.

## 3. Runs

| run | configuration | shows |
|---|---|---|
| `door_safety` | 3 connections, 2 descriptors, every start of the mechanism, spurious wakeups | latch, cached status, answers and descriptors hold; the one way to lose a wakeup; OPENED and CLOSED never said at the other end; `DoorSpec` is implemented |
| `door_live` | 3 connections, 3 descriptors, mechanism waiting, no spurious wakeup | OPENED and CLOSED are exactly true when sent, emergency orders and exchanges end, fair `DoorSpec` |
| `door_detached` | as the simulator leaves it: mechanism on other memory | `EmergencyOpens` fails: the controller waits for ever |
| `door_secure` | 2 connections, mechanism waiting | `SecureIsNamed` fails: a secured door refuses with EMERGENCY_MODE# |
| `fire` | 3 ports in host order, list of 2, buffer of 2, doors that start and stop, failing calls | array bound, confirmed doors opened, alarm first, fire heard, the list worked off or the unit ended |
| `overseer` | 2 fail-safe doors, one of every other client, 3 threads, losses and faults | indices inside, `Registry` implemented, saved doors go to the unit, EXIT cuts no client off, registrations end, the first saved door is sent |
| `overseer_queue` | 3 doors and the unit | `SavedIsKept` fails: confirming the first loses the third |
| `overseer_resend` | 4 doors and the unit | `ResentUntilConfirmed` fails: the unit's handler looks for the door in hand while entries move, misses it and leaves it unconfirmed |
| `fire_system` | 2 doors with ports 3001 and 3084 in host order, list of 2, buffer of 1, lost datagrams | `Evacuation` implemented; what reached the unit stays known and is opened; the first saved door gets through; every door told of is opened in the end, or the unit ended over a misread port |
| `fire_list_full` | the same | `ConfirmedHasRoom` fails: resends of one door fill the list and the other is confirmed and dropped |
| `scenario` | up to 3 events, 2 codes, 3 sockets, spurious wakeups, memory mapped or not | Y only for an allowed code in memory, no press slept on, presses in mapped memory heard, a reader comes back or exits, who may hold the scenario up |
| `simulator` | every file of up to 2 lines, and overseer, up to 3 INIT lines, SCENARIO and up to 1 line; 2 readers, 2 doors, 1 call point | slots, addresses and array bounds fit; a clean end, and an end at all |

**Bounds.**  Three connections give a peer being served, one queued and one that
comes or goes meanwhile, and two descriptors make the limit bite.  Three ports
on a list of two let a repeated door push another one out, and the third come
late; ports 257 and 514 read the same in both byte orders and 4001 does not.  In the
passing run of `Overseer` two doors let a removal move an entry under the unit's
handler while a third thread ends the process; that indices stay inside and that
`Registry` is implemented is proved for any number of doors.  Three saved doors are
the fewest for which a removal moves more than one entry, which is what
`overseer_queue` needs: with two, `SavedIsKept` and `ResentUntilConfirmed` are
theorems.  With three, `ResentUntilConfirmed` still holds, and it takes a
fourth that was saved after the unit began to register (two looked at the address
before it was written) for the door in hand to be moved out of sight.  In `FireSystem` one door can be sent directly and
one from the queue, in either order, and a list of two is already filled by the
resends of one; one port is misread, as all but a few from 3000 on are, and 3084 = 0x0C0C is
the first of them that is not, so that the unit comes through its list or ends over it.  Three events let a scan meet a reader that is starting, waiting for
the overseer, or gone, with a press behind it.  The simulator's files fill every array and
overrun it by one, put every kind of line in every place of a short file, and name
components behind the events.

Deadlock is not checked: the controller, the unit, the overseer and the
simulator all may end, and an ended process is a state without successors.

**Fairness.**  Processes and threads are scheduled (weak fairness).  In `Door`, a
peer the controller listens to sends or closes sooner or later: every peer in the
source sends right after connecting.  In `FireAlarm`, FIRE gets into the buffer if
there is room time and again, because a pressed call point never stops sending
(`callpoint.c:43`).  In `Overseer`, a mutex that is free again and again is got in
the end, and of a datagram sent without end some arrive; nothing is assumed of
clients, confirmations, or the pace at which `TCP_listener` creates threads.  In
`Scenario`, a free mutex is got in the end and nothing is assumed of the overseer.
`FireSystem` assumes that the unit, `UDP_listener` and the handler that serves the
unit are scheduled, and that of what is sent without end (a DOOR datagram of that
handler, FIRE, a confirmation) one arrives; of the doors' handlers nothing.  In
`Simulator` the main thread and the door threads are scheduled, and `ComesToAnEnd`
makes an exception for a thread that left its loop early with its mutex.
`door_live` is conditional on a mechanism that shares the controller's memory, and
`PressHeard` on mapped memory: for the door the other case is `door_detached`, for the call
point nothing of a press arrives.  `ListIsWorkedOff` and `ToldOpenInTheEnd` have the unit's
end among their outcomes, and `ScenarioGoesOn` names who may hold the scenario up: a reader that exited with its mutex
locked does, and an overseer that never answers makes it one in the end (`ReaderComesBack`: the
sockets run out).

## 4. Proofs

Every theorem holds for all values of the constants under the module's named
`ASSUME`, which the runs evaluate.

- `DoorProofs`.  `DoorInv` is the type invariant with `EmergencyIsFinal`,
  `CachedNeverStale` and `Engaged`.  `EmergencyIsFinal` alone is not inductive: the
  latch and a move are set in different steps, so one needs that an ordinary move
  in progress is not barred and that the status is the goal of the order in
  progress, which is `Engaged`; and that needs the copy to be right when the
  order was judged.  From it: `TypeCorrect`, `EmergencyForever`, `NeverStale`,
  `Refinement`.  `Handshake` (what the status is while the controller waits and when it was woken) is
  inductive on top of it, whatever the mechanism starts with, and gives `NoWakeupLost` and
  `ToldTheTruth`.  `Exchanges` says where
  each connection is in its exchange: a connection is at most once in the queue,
  nothing was said to one that waits or is silent, and the one being served has
  heard that the door moves exactly when it does.  On top of `DoorInv` it is
  inductive, and it gives `AnswersAlwaysFit`, `NoOrderForgotten` and `OthersAreClosed`; the lemma
  `Bystander` keeps every connection but the one a step is about.
- `FireAlarmProofs`.  `FireInv` adds to the types how far the opening loop is and
  where each confirmed door is: on the list, sent already, or lost to a full
  list.  From it: `FireTypes`, `FireOpensConfirmed`, `FireRefines`, where ports may
  be any words and swapped in any way.  The bytes come in with `SwapTwice` (`htons` is its
  own inverse): `PortReached` and `PortMissed` say which ports `connect` gets right for
  either choice of the sender, and `EndsOnlyOverADoor` what can end the unit in a fire: a
  failing call, a door that does not accept, a port that came in host order.
  `OpeningMovesOn` is the progress of `FIRE_protocal`: one entry further with every step.
- `OverseerProofs`.  `OverseerInv` is `HandlersInv` (who may be in
  `register_door`, and with what in hand) and `QueueInv` (used slots hold listed
  doors, the count never exceeds the number of doors ever saved, a removal stays
  inside).  The bound on the count is what makes an unlocked reader's index safe:
  `cnt` never grows past the number of doors, whatever the removal does to it.
  From it: `OverseerTypes`, `OverseerRefines`.  Four more invariants stand on it, each
  inductive together with it:
  `AddressInv` (the unit's handler has the whole address) gives `SavedReachUnit`;
  `LateInv` (nothing but saved doors is in the queue) gives `LateSentOnce`, that the
  resend loop of `overseer.c:266` is none for a late door;
  `ExitInv` (the joined handlers are as many as were created) gives `ExitAlwaysClean`.
  `KeptInv` and `ResentInv` mark where the two failing runs begin: with at most two
  fail-safe doors a removal moves one entry, over a confirmed one, and the
  unit's handler finds the door in hand in slot 0 until it is confirmed, so that
  `TwoSavedAreKept` and `TwoSavedAreResent` hold.  Both are false of four doors,
  and the first of three.
- `ScenarioProofs`.  `ScenarioInv`: while the reader waits for an answer the code
  in memory is the one it sent.  From it: `ScenarioTypes`, `YesIsEarned`.
  `PressAlwaysHeard` needs no more than that a press in memory is one in mapped memory: the call point keeps its mutex from its look at the
  status to its wait, so a press that finds it waiting has its signal still to send.
- `FireSystemProofs`.  Every step of the composition is a step of the overseer or
  leaves it alone (`OverseerStep`), so that `OverseerInv`, instantiated, holds here
  too.  It says that the door in a handler's hands when it sends is a listed
  fail-safe door, and `FireSystemInv` carries that on: what the unit's buffer and
  list hold and the ports it ordered open go back to doors it was told of
  (`Origins`), and the opening loop has done the entries behind it (`Opening`).
  In the same way the composition, seen through either instance, is a behaviour of that
  component (`OverseerWithin`, `FireAlarmWithin`): the theorems of the two modules
  carry over as they are, as `UnitKeepsWord` and `OverseerKeepsWord` show, and a door the
  unit confirmed to the overseer is opened (`ConfirmedByUnit`).
  `ToldIsKept` by itself is not inductive, for a datagram could name a port of no
  door.  A port leads to the door it was told for or to none (`KnownIsADoor`), and in the second case
  the unit ends (`OrderStep`), so that a list that was worked off has no misread port.  From it: `ToldStaysKnown`, `ToldAreOpened`, `EvacuationRefined`, for any number
  of doors and any sizes.
- `SimulatorProofs`.  The two passes are compared by counting: `CountsInv` says that
  `num` is the number of lines of a kind read so far and `made` the number of such
  lines before the events, so that a line still to be read (`ReadOne` and its
  neighbours) has a slot that was made.  `ProcessesInv` adds that slots are handed
  out once and the addresses are those of processes already started, `StopInv` how
  many threads have left and how many processes were signalled.  From them:
  `SimulatorTypes`, `SlotsAlwaysFit`, `PeersAlwaysKnown`, `EndsClean`.
  `MainGetsOn` measures what main has before it (`ToGo`: what is left of the file,
  then of the threads and processes): a natural number that each of its steps
  lowers and no thread raises, 4n + 3 at most for a file of n lines.
Only model-checked:

- everything under fairness (`EmergencyOpens`, `PeerIsServed`,
  `ImplementsFairDoorSpec`, `ListIsWorkedOff`, `FireHeard`, `DoorServed`,
  `FirstSavedIsSent`, `FirstSavedGetsThrough`, `ToldOpenInTheEnd`, `PressHeard`, `ScenarioGoesOn`,
  `ReaderComesBack`, `ComesToAnEnd`): liveness and ENABLED are out of the prover's reach, as
  are induction over data and RECURSIVE operators, of which no module has any.
  Of three of these the safety half is proved: that there is a step to take and that it
  is taken stays with TLC, that the steps lead to the end does not
  (`OpeningMovesOn`, `MainGetsOn`, `PressAlwaysHeard`).

Every safety property of a passing run is proved.

## 5. Where code and documents part

The failing runs above show five cases.  The model contains these others as
steps, without a run of their own:

- `door.c:44` registers before it binds and listens; a quick peer is refused.
- `door.c:105, 128, 153, 171` leave the connection open after ALREADY#, and
  `accept` fails when the descriptors run out.
- `door.c:142` sends an open door through opening again on OPEN_EMERG#.
- `simulator.c:181` waits for `cond_start` before it looks at the status: an order
  carried out before the thread's first wait leaves both sides waiting.
- `firealarm.c:168` searches the first unused slot only: a door told of again is
  stored again until the list is full, and a door that finds it full is
  confirmed and not stored; with matching old bytes the search never ends.
- `firealarm.c:33` and `overseer.c:356` write and read ports in different byte orders:
  with `NetworkOrder` FALSE the unit connects to a port nobody listens on and ends
  with the first door whose port changes when swapped.  Of the first hundred ports that `simulator.c` hands out
  (3000 on) only 3084 does not.
- `firealarm.c:66` sends eight bytes of a DREG, without the port.
- `firealarm.c:11-21` goes on to send on a bad descriptor when it has no socket or a door
  refuses, and ends.
- `simulator.c:525` replaces the mapped memory: besides the doors, no scan and no press reaches
  its component.
- `overseer.c:489` creates threads until the array is full and exits.
- `overseer.c:322, 331, 387` end the process for a card reader or a fail-secure door.
- `overseer.c:553` never removes the last entry: its door is resent for ever.
- `overseer.c:382` sends the datagram of a door that comes after the unit only once.
- `overseer.c:373` looks for the unit's address before it saves the door: a door
  saved after the unit's handler has gone through the queue is never sent.
- `overseer.c:408` writes the unit's address while other threads parse it.
- `overseer.c:711` waits on EXIT for threads that nothing wakes.
- `cardreader.c:97` retries at once with the mutex held and leaks the socket.
- `simulator.c:471` signals `response_cond` for a scanned card; the reader waits on
  `scanned_cond` and is not woken.
- `simulator.c:394` bounds the call points by the number of card readers: with no
  reader the bound never bites, with readers it bites too early.
- `simulator.c:495` joins a thread that may have left its loop with the mutex that the
  lines before lock.
- `simulator.c` exits at a line it refuses and leaves the processes it started running.

## 6. Not modelled, and plan

Elevator and camera return at once.  Argument parsing, the mapping of the
segment, the building of child command lines and the text formats are left out;
`send_message` and `receive_message` of `utility.c` are part of the actions that
call them.

The temperature sensor is never started by the simulator (`spawn` has no branch for
it).  Run by hand with a receiver it faults before its first datagram: the address
was cut by `strtok` once (`tempsensor.c:13`) and is cut again at line 119.
A model of what is behind that point would be of code that does not run.

`handle_scan` of the overseer, with `get_door_id` and `check_access`, is not modelled. A reader sends
`SCANNED <code>#`, which is not the `SCANNED#` that `overseer.c:324` compares with: the
overseer exits (`ServeReader`).  Only a message that ends in a bare `SCANNED#` gets further, with a
null code: then `strcmp` faults at the first word of `authorisation.txt` it compares
(`overseer.c:94`), or the scan is denied before and the process exits.  Nothing in the
repository sends that message, and ALLOWED is never said.  A model of what a code would
find there would be of code that does not run.

The destination select has the control of the card reader, statement for statement,
with a floor in the message.  No event of a scenario scans on a panel, so
`Scenario` plays the reader only.

Next:

1. A door or unit that restarts and registers again, in `Overseer`: `door_list` and
   `door_queue` have no bound then (`overseer.c:364`).
2. EXIT where handlers still wait (`overseer.c:711`): `ExitIsClean` says that it does
   not end too early; who could wake those handlers is not in the code.
3. Doors that do not listen yet in `FireSystem` (`door.c:44`): a fire between a door's
   registration and its `listen` ends the unit, as any door does that refuses.
4. Doors whose port is misread for that of another door, in `FireSystem`.
