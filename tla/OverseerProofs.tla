--------------------------- MODULE OverseerProofs ---------------------------
(***************************************************************************)
(* Theorems about Overseer, for any clients, queue and thread array: the   *)
(* queue's count and every index stay inside the array though readers take *)
(* no lock (OverseerTypes), and the unit is told of registered fail-safe   *)
(* doors only (OverseerRefines), which follow from OverseerInv.  Beside    *)
(* it: saved doors go to the unit though nobody locks its address, doors   *)
(* that come later are sent to it once, EXIT leaves no handler behind, and *)
(* two saved doors at most are kept and resent until they are confirmed.   *)
(***************************************************************************)
EXTENDS Overseer, FiniteSetTheorems, TLAPS

LEMMA Constants ==
    /\ MaxDoors \in Nat /\ MaxThreads \in Nat
    /\ NoDoor \notin SafeDoors /\ Unit \notin SafeDoors
    /\ SafeDoors \subseteq Clients /\ Unit \in Clients
    /\ \A c \in SecureDoors : c \notin SafeDoors /\ c # Unit
    /\ \A c \in Readers : c \notin SafeDoors /\ c # Unit
    /\ \A c \in Others : c \notin SafeDoors /\ c # Unit
  BY OverseerAssumption DEF OverseerAssumption, Clients

LEMMA InitOverseer == Init => OverseerInv
<1> SUFFICES ASSUME Init PROVE OverseerInv
  OBVIOUS
<1>1. TypeOK
  BY Constants DEF Init, TypeOK, Indices
<1>2. HandlersInv
  BY Constants DEF Init, HandlersInv, Registering
<1>3. QueueInv
  BY FS_EmptySet DEF Init, QueueInv, Indices
<1> QED BY <1>1, <1>2, <1>3 DEF OverseerInv

\* Steps of the threads that are no handlers, outside a removal.
LEMMA QuietStep ==
    ASSUME OverseerInv,
           UNCHANGED <<handlers, fa, listed, slots, cnt, j, history>>,
           life' \in {"up", "dead"}, threads' \in 0 .. MaxThreads,
           main' \in {"idle", "firing", "exiting"},
           listener' \in {"spawning", "joining", "left"},
           at' \in {at, "recv", "again", "left"}
    PROVE  OverseerInv'
<1> USE DEF handlers, history
<1>1. TypeOK'
  BY DEF OverseerInv, TypeOK
<1>2. HandlersInv'
  BY DEF OverseerInv, HandlersInv, Registering
<1>3. QueueInv'
  BY DEF OverseerInv, QueueInv
<1> QED BY <1>1, <1>2, <1>3 DEF OverseerInv

PCs == {"outside", "accepted", "check", "save", "resolve", "send", "scan",
        "read", "write", "loop", "fetch", "done"}

\* What a handler that goes to `to` must see to.
Arrives(c, to) ==
    /\ to \in {"resolve", "send", "scan", "read"} =>
          /\ c \in SafeDoors \cup {Unit}
          /\ cur'[c] \in SafeDoors \cap listed'
          /\ fa' # "empty"
    /\ to \in {"check", "save"} => c \in SafeDoors \cap listed'
    /\ c = Unit =>
          /\ to \in {"write", "loop", "fetch"} => fa' # "empty"
          /\ to \in {"resolve", "send", "scan", "read", "fetch"} => k' < MaxDoors
          /\ to = "fetch" => slots[k'] # NoDoor
    /\ c # Unit => k' = k
    /\ to = "read" => i'[c] < MaxDoors

\* A handler moves on without touching the queue.
LEMMA HandlerMoves ==
    ASSUME OverseerInv, NEW c \in Clients, NEW to \in PCs,
           Go(c, to), pc[c] # "done", Arrives(c, to),
           UNCHANGED <<process, queue, saved, confirmed>>,
           life' \in {"up", "dead"},
           cur' \in [Clients -> SafeDoors \cup {NoDoor}],
           i' \in [Clients -> 0 .. MaxDoors],
           match' \in [Clients -> BOOLEAN],
           dest' \in [Clients -> {"none", "unit", "elsewhere"}],
           k' \in 0 .. MaxDoors,
           fa' \in {"empty", "partial", "whole"}, fa # "empty" => fa' # "empty",
           listed \subseteq listed', listed' \in SUBSET (SafeDoors \cup SecureDoors),
           sent' \in SUBSET SafeDoors, told' \in SUBSET sent', told \subseteq told',
           \A e \in Clients \ {c} : cur'[e] = cur[e] /\ i'[e] = i[e]
    PROVE  OverseerInv'
<1>1. /\ pc \in [Clients -> PCs] /\ pc' = [pc EXCEPT ![c] = to]
      /\ Unit \in Clients /\ SafeDoors \subseteq Clients
  BY Constants DEF OverseerInv, TypeOK, Go, PCs
<1>2. /\ pc' \in [Clients -> PCs] /\ pc'[c] = to
      /\ \A e \in Clients \ {c} : pc'[e] = pc[e]
  BY <1>1
<1>3. TypeOK'
  <2>1. \A e \in Clients : pc'[e] = "read" => i'[e] < MaxDoors
    BY <1>2 DEF OverseerInv, TypeOK, Arrives
  <2>2. pc'[Unit] = "fetch" => k' < MaxDoors
    BY <1>1, <1>2 DEF OverseerInv, TypeOK, Arrives
  <2>3. confirmed' \in SUBSET told' /\ saved' \in SUBSET SafeDoors
    BY DEF OverseerInv, TypeOK
  <2>4. /\ threads' \in 0 .. MaxThreads
        /\ main' \in {"idle", "firing", "exiting"}
        /\ listener' \in {"spawning", "joining", "left"}
    BY DEF OverseerInv, TypeOK, process
  <2>5. /\ slots' \in [Indices -> SafeDoors \cup {NoDoor}]
        /\ cnt' \in 0 .. MaxDoors
        /\ at' \in {"recv", "test", "shift", "drop", "again", "left"}
        /\ j' \in 0 .. MaxDoors /\ (at' = "shift" => j' \in 1 .. cnt' - 1)
    BY DEF OverseerInv, TypeOK, queue
  <2> QED BY <1>2, <2>1, <2>2, <2>3, <2>4, <2>5 DEF TypeOK, PCs
<1>4. HandlersInv'
  <2>1. \A e \in Clients \ {c} : Registering(e)' =>
          /\ e \in SafeDoors \cup {Unit}
          /\ cur'[e] \in SafeDoors \cap listed'
          /\ fa' # "empty"
    BY <1>2 DEF OverseerInv, HandlersInv, Registering
  <2>2. Registering(c)' =>
          /\ c \in SafeDoors \cup {Unit}
          /\ cur'[c] \in SafeDoors \cap listed'
          /\ fa' # "empty"
    BY <1>2 DEF Registering, Arrives
  <2>3. \A e \in Clients :
          pc'[e] \in {"check", "save"} => e \in SafeDoors \cap listed'
    BY <1>2 DEF OverseerInv, HandlersInv, Arrives
  <2>4. CASE c = Unit
    <3>1. /\ pc'[Unit] \in {"write", "loop", "fetch"} => fa' # "empty"
          /\ Registering(Unit)' \/ pc'[Unit] = "fetch" => k' < MaxDoors
          /\ pc'[Unit] = "fetch" => slots'[k'] # NoDoor
      BY <1>2, <2>4 DEF Arrives, Registering, queue
    <3> QED BY <2>1, <2>2, <2>3, <3>1 DEF HandlersInv
  <2>5. CASE c # Unit
    <3>1. pc'[Unit] = pc[Unit] /\ k' = k /\ slots' = slots
      BY <1>1, <1>2, <2>5 DEF Arrives, queue
    <3>2. /\ pc'[Unit] \in {"write", "loop", "fetch"} => fa' # "empty"
          /\ Registering(Unit)' \/ pc'[Unit] = "fetch" => k' < MaxDoors
          /\ pc'[Unit] = "fetch" => slots'[k'] # NoDoor
      BY <3>1 DEF OverseerInv, HandlersInv, Registering
    <3> QED BY <2>1, <2>2, <2>3, <3>2 DEF HandlersInv
  <2> QED BY <2>4, <2>5
<1>5. QueueInv'
  <2>1. \A d \in saved : pc'[d] = "done"
    BY <1>1, <1>2 DEF OverseerInv, TypeOK, QueueInv
  <2> QED BY <2>1 DEF OverseerInv, QueueInv, queue
<1> QED BY <1>3, <1>4, <1>5 DEF OverseerInv

\* The types that every handler step leaves alone.
LEMMA HandlerTypes ==
    ASSUME OverseerInv
    PROVE  /\ life \in {"up", "dead"}
           /\ cur \in [Clients -> SafeDoors \cup {NoDoor}]
           /\ i \in [Clients -> 0 .. MaxDoors]
           /\ match \in [Clients -> BOOLEAN]
           /\ dest \in [Clients -> {"none", "unit", "elsewhere"}]
           /\ k \in 0 .. MaxDoors /\ cnt \in 0 .. MaxDoors
           /\ fa \in {"empty", "partial", "whole"}
           /\ listed \in SUBSET (SafeDoors \cup SecureDoors)
           /\ slots \in [Indices -> SafeDoors \cup {NoDoor}]
           /\ saved \in SUBSET SafeDoors /\ sent \in SUBSET SafeDoors
           /\ told \in SUBSET sent
  BY DEF OverseerInv, TypeOK

LEMMA DieStep == OverseerInv /\ Die => OverseerInv'
<1> SUFFICES ASSUME OverseerInv, Die PROVE OverseerInv'
  OBVIOUS
<1>1. /\ threads \in 0 .. MaxThreads /\ main \in {"idle", "firing", "exiting"}
      /\ listener \in {"spawning", "joining", "left"}
  BY DEF OverseerInv, TypeOK
<1> QED BY <1>1, QuietStep DEF Die, process, queue

LEMMA OtherThreadsStep ==
    OverseerInv /\ (\/ Spawn \/ ThreadsExhausted \/ Closing \/ Commands \/ Fault
                    \/ IgnoreDatagram \/ NextDatagram)
        => OverseerInv'
<1> SUFFICES ASSUME OverseerInv,
                    \/ Spawn \/ ThreadsExhausted \/ Closing \/ Commands \/ Fault
                    \/ IgnoreDatagram \/ NextDatagram
             PROVE  OverseerInv'
  OBVIOUS
<1>1. /\ life \in {"up", "dead"}
      /\ threads \in 0 .. MaxThreads /\ main \in {"idle", "firing", "exiting"}
      /\ listener \in {"spawning", "joining", "left"}
  BY DEF OverseerInv, TypeOK
<1>2. ASSUME Spawn PROVE OverseerInv'
  <2>1. threads' \in 0 .. MaxThreads
    BY <1>1, <1>2, Constants DEF Spawn
  <2> QED BY <1>1, <1>2, <2>1, QuietStep DEF Spawn, queue
<1>3. ASSUME Closing PROVE OverseerInv'
  BY <1>1, <1>3, QuietStep DEF Closing, StopSpawning, Joined, queue
<1>4. ASSUME IgnoreDatagram \/ NextDatagram PROVE OverseerInv'
  BY <1>1, <1>4, QuietStep DEF IgnoreDatagram, NextDatagram, process
<1>5. ASSUME Commands PROVE OverseerInv'
  <2>1. ASSUME main' \in {"firing", "exiting"},
               UNCHANGED <<life, threads, listener, handlers, fa, listed, queue, history>>
        PROVE  OverseerInv'
    BY <1>1, <2>1, QuietStep DEF queue
  <2> QED BY <1>5, <2>1, DieStep DEF Commands, FireCommand, ExitCommand, Exit, OrderUnlisted
<1> QED BY <1>2, <1>3, <1>4, <1>5, DieStep DEF ThreadsExhausted, Fault

\* Accepting, and the clients that are not the unit.
LEMMA ServeStep ==
    ASSUME OverseerInv, NEW c \in Clients,
           \/ Accept(c) \/ ServeReader(c) \/ ServeOther(c) \/ ServeSecure(c) \/ ServeSafe(c)
    PROVE  OverseerInv'
<1> USE HandlerTypes DEF PCs
<1>1. ASSUME Accept(c) PROVE OverseerInv'
  BY <1>1, HandlerMoves DEF Accept, Arrives, history
<1>2. ASSUME ServeReader(c) PROVE OverseerInv'
  BY <1>2, DieStep DEF ServeReader
<1>3. ASSUME ServeOther(c) PROVE OverseerInv'
  BY <1>3, HandlerMoves DEF ServeOther, Arrives, history
<1>4. ASSUME ServeSafe(c) PROVE OverseerInv'
  <2>1. /\ listed \subseteq listed' /\ listed' \in SUBSET (SafeDoors \cup SecureDoors)
        /\ c \in SafeDoors \cap listed' /\ c # Unit
    BY <1>4, Constants DEF ServeSafe
  <2> QED BY <1>4, <2>1, HandlerMoves DEF ServeSafe, Arrives, history
<1>5. ASSUME ServeSecure(c) PROVE OverseerInv'
  <2>1. listed \subseteq listed' /\ listed' \in SUBSET (SafeDoors \cup SecureDoors)
    BY <1>5 DEF ServeSecure
  <2>2. TypeOK'
    BY <1>5, <2>1 DEF ServeSecure, OverseerInv, TypeOK, process, handlers, queue, history
  <2>3. HandlersInv'
    BY <1>5, <2>1 DEF ServeSecure, OverseerInv, HandlersInv, Registering, handlers, queue
  <2>4. QueueInv'
    BY <1>5, <2>1 DEF ServeSecure, OverseerInv, QueueInv, handlers, queue, history
  <2> QED BY <2>2, <2>3, <2>4 DEF OverseerInv
<1> QED BY <1>1, <1>2, <1>3, <1>4, <1>5

LEMMA CheckStep ==
    ASSUME OverseerInv, NEW c \in Clients, CheckAddress(c) PROVE OverseerInv'
<1>1. c \in SafeDoors \cap listed /\ c # Unit /\ pc[c] = "check"
  BY Constants DEF CheckAddress, OverseerInv, HandlersInv
<1>2. CASE fa = "empty"
  BY <1>1, <1>2, HandlerTypes, HandlerMoves DEF CheckAddress, Arrives, PCs, history
<1>3. CASE fa # "empty"
  <2>1. /\ cur' \in [Clients -> SafeDoors \cup {NoDoor}] /\ cur'[c] = c
        /\ \A e \in Clients \ {c} : cur'[e] = cur[e]
    BY <1>1, <1>3, HandlerTypes DEF CheckAddress
  <2> QED BY <1>1, <1>3, <2>1, HandlerTypes, HandlerMoves
          DEF CheckAddress, Arrives, PCs, history
<1> QED BY <1>2, <1>3

\* The handler of the unit.
LEMMA UnitStep ==
    OverseerInv /\ (WriteAddress \/ LoopTest \/ Fetch) => OverseerInv'
<1> SUFFICES ASSUME OverseerInv, WriteAddress \/ LoopTest \/ Fetch PROVE OverseerInv'
  OBVIOUS
<1> USE HandlerTypes, Constants DEF PCs
<1>1. CASE WriteAddress
  BY <1>1, HandlerMoves DEF WriteAddress, Arrives, history
<1>2. CASE LoopTest
  <2>1. fa # "empty"
    BY <1>2 DEF LoopTest, OverseerInv, HandlersInv
  <2>2. CASE k < cnt
    <3>1. k < MaxDoors /\ k \in Indices
      BY <2>2 DEF Indices
    <3>2. slots[k] # NoDoor
      BY <2>2, <3>1 DEF OverseerInv, QueueInv
    <3> QED BY <1>2, <2>1, <2>2, <3>1, <3>2, HandlerMoves DEF LoopTest, Arrives, history
  <2>3. CASE ~(k < cnt)
    BY <1>2, <2>1, <2>3, HandlerMoves DEF LoopTest, Arrives, history
  <2> QED BY <2>2, <2>3
<1>3. CASE Fetch
  <2>1. fa # "empty" /\ k < MaxDoors /\ k \in Indices /\ slots[k] # NoDoor
    BY <1>3 DEF Fetch, OverseerInv, HandlersInv, Indices
  <2>2. slots[k] \in SafeDoors \cap listed
    BY <2>1 DEF OverseerInv, QueueInv
  <2>3. /\ cur' \in [Clients -> SafeDoors \cup {NoDoor}] /\ cur'[Unit] = slots[k]
        /\ \A e \in Clients \ {Unit} : cur'[e] = cur[e]
    BY <1>3, <2>2 DEF Fetch
  <2> QED BY <1>3, <2>1, <2>2, <2>3, HandlerMoves DEF Fetch, Arrives, history
<1> QED BY <1>1, <1>2, <1>3

\* register_door.
LEMMA RegisterStep ==
    ASSUME OverseerInv, NEW c \in Clients, Register(c) PROVE OverseerInv'
<1>1. Registering(c)
  BY DEF Register, Resolve, SendArrives, SendLost, SendDoor, ScanTest, ScanRead, Registering
<1>2. /\ c \in SafeDoors \cup {Unit} /\ cur[c] \in SafeDoors \cap listed /\ fa # "empty"
      /\ c = Unit => k < MaxDoors
      /\ pc[c] # "done"
  BY <1>1 DEF OverseerInv, HandlersInv, Registering
<1> USE HandlerTypes, Constants DEF PCs
<1>3. CASE Resolve(c)
  <2>1. CASE Die
    BY <2>1, DieStep
  <2>2. CASE ~Die
    <3>1. dest' \in [Clients -> {"none", "unit", "elsewhere"}]
      BY <1>3, <2>2 DEF Resolve
    <3> QED BY <1>2, <1>3, <2>2, <3>1, HandlerMoves DEF Resolve, Arrives, history
  <2> QED BY <2>1, <2>2
<1>4. CASE SendArrives(c) \/ SendLost(c)
  <2>1. SendDoor(c)
    BY <1>4 DEF SendArrives, SendLost
  <2>2. /\ sent' \in SUBSET SafeDoors /\ sent \subseteq sent'
        /\ told' \in SUBSET sent' /\ told \subseteq told'
    BY <1>2, <1>4 DEF SendArrives, SendLost, SendDoor
  <2>3. /\ i' \in [Clients -> 0 .. MaxDoors] /\ match' \in [Clients -> BOOLEAN]
        /\ \A e \in Clients \ {c} : i'[e] = i[e]
    BY <2>1 DEF SendDoor
  <2> QED BY <1>2, <2>1, <2>2, <2>3, HandlerMoves DEF SendDoor, Arrives
<1>5. CASE ScanTest(c)
  <2>1. CASE i[c] < cnt /\ Go(c, "read") /\ UNCHANGED k
    <3>1. i[c] < MaxDoors
      BY <2>1
    <3> QED BY <1>2, <1>5, <2>1, <3>1, HandlerMoves DEF ScanTest, Arrives, history
  <2>2. CASE Go(c, "send") /\ UNCHANGED k
    BY <1>2, <1>5, <2>2, HandlerMoves DEF ScanTest, Arrives, history
  <2>3. CASE Return(c) /\ c = Unit
    <3>1. k' = k + 1 /\ k' \in 0 .. MaxDoors
      BY <1>2, <2>3 DEF Return
    <3> QED BY <1>2, <1>5, <2>3, <3>1, HandlerMoves DEF ScanTest, Return, Arrives, history
  <2>4. CASE Return(c) /\ c # Unit
    BY <1>2, <1>5, <2>4, HandlerMoves DEF ScanTest, Return, Arrives, history
  <2> QED BY <1>5, <2>1, <2>2, <2>3, <2>4 DEF ScanTest
<1>6. CASE ScanRead(c)
  <2>1. i[c] < MaxDoors
    BY <1>6 DEF ScanRead, OverseerInv, TypeOK
  <2>2. /\ i' \in [Clients -> 0 .. MaxDoors]
        /\ \A e \in Clients \ {c} : i'[e] = i[e]
    BY <1>6, <2>1 DEF ScanRead
  <2>3. match' \in [Clients -> BOOLEAN]
    BY <1>6 DEF ScanRead
  <2> QED BY <1>2, <1>6, <2>2, <2>3, HandlerMoves DEF ScanRead, Arrives, history
<1> QED BY <1>3, <1>4, <1>5, <1>6 DEF Register

\* A door is put in the queue: there is room, for every door enters once.
LEMMA SaveStep ==
    ASSUME OverseerInv, NEW c \in Clients, Save(c) PROVE OverseerInv'
<1> USE HandlerTypes, Constants
<1>1. c \in SafeDoors /\ c \in listed /\ c # Unit /\ c # NoDoor /\ pc[c] = "save"
  BY DEF Save, OverseerInv, HandlersInv
<1>2. IsFiniteSet(SafeDoors) /\ Cardinality(SafeDoors) <= MaxDoors
  BY OverseerAssumption DEF OverseerAssumption
<1>3. c \notin saved /\ cnt <= Cardinality(saved)
  BY <1>1 DEF OverseerInv, QueueInv
<1>4. saved' = saved \cup {c} /\ saved' \subseteq SafeDoors
  BY <1>1 DEF Save
<1>5. IsFiniteSet(saved) /\ IsFiniteSet(saved')
  BY <1>2, <1>4, FS_Subset
<1>6. Cardinality(saved') = Cardinality(saved) + 1 /\ Cardinality(saved) \in Nat
  BY <1>3, <1>4, <1>5, FS_AddElement, FS_CardinalityType
<1>7. Cardinality(saved') <= MaxDoors
  <2>1. /\ Cardinality(saved') <= Cardinality(SafeDoors)
        /\ Cardinality(SafeDoors) \in Nat /\ Cardinality(saved') \in Nat
    BY <1>2, <1>4, <1>5, FS_Subset, FS_CardinalityType
  <2> QED BY <1>2, <2>1
<1>8. cnt \in Indices /\ cnt' = cnt + 1 /\ cnt' \in 0 .. MaxDoors /\ cnt' <= Cardinality(saved')
  BY <1>3, <1>6, <1>7 DEF Save, Indices
<1>9. /\ slots' \in [Indices -> SafeDoors \cup {NoDoor}]
      /\ slots'[cnt] = c
      /\ \A n \in Indices \ {cnt} : slots'[n] = slots[n]
  BY <1>1, <1>8 DEF Save
<1>10. /\ pc \in [Clients -> PCs] /\ pc' \in [Clients -> PCs] /\ pc'[c] = "done"
       /\ \A e \in Clients \ {c} : pc'[e] = pc[e]
  BY DEF Save, Go, OverseerInv, TypeOK, PCs
<1>11. /\ at \notin {"test", "shift", "drop"} /\ at' = at /\ j' = j
       /\ UNCHANGED <<life, threads, main, listener, cur, i, match, dest, k, fa, listed,
                      sent, told, confirmed>>
  BY DEF Save, MutexFree, process
<1>12. TypeOK'
  <2>1. /\ threads \in 0 .. MaxThreads /\ main \in {"idle", "firing", "exiting"}
        /\ listener \in {"spawning", "joining", "left"}
        /\ at \in {"recv", "test", "shift", "drop", "again", "left"} /\ j \in 0 .. MaxDoors
        /\ confirmed \in SUBSET told
    BY DEF OverseerInv, TypeOK
  <2>2. /\ \A e \in Clients : pc'[e] = "read" => i[e] < MaxDoors
        /\ pc'[Unit] = "fetch" => k < MaxDoors
    BY <1>1, <1>10 DEF OverseerInv, TypeOK
  <2> QED BY <1>4, <1>8, <1>9, <1>10, <1>11, <2>1, <2>2 DEF TypeOK, PCs
<1>13. HandlersInv'
  <2>1. \A e \in Clients : Registering(e)' => Registering(e)
    BY <1>10 DEF Registering
  <2>2. \A e \in Clients : pc'[e] \in {"check", "save"} => e \in SafeDoors \cap listed
    BY <1>10 DEF OverseerInv, HandlersInv
  <2>3. pc'[Unit] = pc[Unit] /\ (Registering(Unit)' <=> Registering(Unit))
    BY <1>1, <1>10 DEF Registering
  <2>4. pc[Unit] = "fetch" => slots'[k] # NoDoor
    <3>1. pc[Unit] = "fetch" => k \in Indices /\ slots[k] # NoDoor
      BY DEF OverseerInv, HandlersInv, Indices
    <3> QED BY <1>1, <1>9, <3>1
  <2> QED BY <1>11, <2>1, <2>2, <2>3, <2>4 DEF OverseerInv, HandlersInv
<1>14. QueueInv'
  <2>1. \A n \in Indices : slots'[n] # NoDoor => slots'[n] \in listed
    BY <1>1, <1>9 DEF OverseerInv, QueueInv
  <2>2. \A n \in Indices : n < cnt + 1 => slots'[n] # NoDoor
    BY <1>1, <1>8, <1>9 DEF OverseerInv, QueueInv, Indices
  <2>3. \A d \in saved' : pc'[d] = "done"
    BY <1>4, <1>10 DEF OverseerInv, QueueInv
  <2> QED BY <1>8, <1>11, <2>1, <2>2, <2>3 DEF QueueInv
<1> QED BY <1>12, <1>13, <1>14 DEF OverseerInv

\* A confirmation comes in, and the entry is taken out while readers read.
LEMMA DregStep ==
    ASSUME OverseerInv, NEW d \in SafeDoors, TakeDreg(d) PROVE OverseerInv'
<1> USE DEF handlers
<1>1. /\ at' \in {"test", "again"} /\ j' \in 0 .. MaxDoors /\ (at' = "test" => j' > 0)
      /\ confirmed' \in SUBSET told
  BY HandlerTypes, Constants DEF TakeDreg, OverseerInv, TypeOK
<1>2. TypeOK'
  BY <1>1 DEF TakeDreg, OverseerInv, TypeOK, process
<1>3. HandlersInv'
  BY DEF TakeDreg, OverseerInv, HandlersInv, Registering
<1>4. QueueInv'
  BY <1>1 DEF TakeDreg, OverseerInv, QueueInv
<1> QED BY <1>2, <1>3, <1>4 DEF OverseerInv

LEMMA RemovalStep == OverseerInv /\ Removal => OverseerInv'
<1> SUFFICES ASSUME OverseerInv, Removal PROVE OverseerInv'
  OBVIOUS
<1> USE HandlerTypes, Constants DEF handlers, history
<1>1. j \in 0 .. MaxDoors /\ (at \in {"shift", "drop"} => 0 < j /\ j < cnt)
  BY DEF OverseerInv, TypeOK, QueueInv
<1>2. CASE RemoveTest
  <2>1. at' \in {"shift", "again"} /\ (at' = "shift" => 0 < j /\ j < cnt)
    BY <1>2 DEF RemoveTest, OverseerInv, QueueInv
  <2>2. TypeOK'
    BY <1>1, <1>2, <2>1 DEF RemoveTest, OverseerInv, TypeOK, process
  <2>3. HandlersInv'
    BY <1>2 DEF RemoveTest, OverseerInv, HandlersInv, Registering
  <2>4. QueueInv'
    BY <1>2, <2>1 DEF RemoveTest, OverseerInv, QueueInv
  <2> QED BY <2>2, <2>3, <2>4 DEF OverseerInv
<1>3. CASE Shift
  <2>1. j - 1 \in Indices /\ j \in Indices /\ j < cnt
    BY <1>1, <1>3 DEF Shift, Indices
  <2>2. slots[j] # NoDoor /\ slots[j] \in SafeDoors \cap listed
    BY <2>1 DEF OverseerInv, QueueInv
  <2>3. /\ slots' \in [Indices -> SafeDoors \cup {NoDoor}]
        /\ slots'[j - 1] = slots[j]
        /\ \A n \in Indices \ {j - 1} : slots'[n] = slots[n]
    BY <1>3, <2>1, <2>2 DEF Shift
  <2>4. TypeOK'
    BY <1>3, <2>3 DEF Shift, OverseerInv, TypeOK, process
  <2>5. HandlersInv'
    <3>1. pc[Unit] = "fetch" => k \in Indices /\ slots'[k] # NoDoor
      BY <2>2, <2>3 DEF OverseerInv, HandlersInv, Indices
    <3> QED BY <1>3, <3>1 DEF Shift, OverseerInv, HandlersInv, Registering
  <2>6. QueueInv'
    <3>1. \A n \in Indices : /\ slots'[n] # NoDoor => slots'[n] \in listed
                             /\ n < cnt => slots'[n] # NoDoor
      BY <2>2, <2>3 DEF OverseerInv, QueueInv
    <3> QED BY <1>1, <1>3, <3>1 DEF Shift, OverseerInv, QueueInv
  <2> QED BY <2>4, <2>5, <2>6 DEF OverseerInv
<1>4. CASE Drop
  <2>1. /\ cnt' = cnt - 1 /\ cnt' \in 0 .. MaxDoors /\ cnt' < cnt
        /\ j' = j + 1 /\ j' \in 0 .. MaxDoors /\ j' > 0 /\ at' = "test"
    BY <1>1, <1>4 DEF Drop
  <2>2. TypeOK'
    BY <1>4, <2>1 DEF Drop, OverseerInv, TypeOK, process
  <2>3. HandlersInv'
    BY <1>4 DEF Drop, OverseerInv, HandlersInv, Registering
  <2>4. QueueInv'
    <3>1. \A n \in Indices : n < cnt' => slots[n] # NoDoor
      BY <2>1 DEF OverseerInv, QueueInv, Indices
    <3>2. cnt' <= Cardinality(saved)
      <4>1. IsFiniteSet(saved)
        BY OverseerAssumption, FS_Subset DEF OverseerAssumption
      <4>2. Cardinality(saved) \in Nat
        BY <4>1, FS_CardinalityType
      <4> QED BY <2>1, <4>2 DEF OverseerInv, QueueInv
    <3> QED BY <1>4, <2>1, <3>1, <3>2 DEF Drop, OverseerInv, QueueInv
  <2> QED BY <2>2, <2>3, <2>4 DEF OverseerInv
<1> QED BY <1>2, <1>3, <1>4 DEF Removal

LEMMA NextOverseer == OverseerInv /\ [Next]_vars => OverseerInv'
<1> SUFFICES ASSUME OverseerInv, [Next]_vars PROVE OverseerInv'
  OBVIOUS
<1>1. CASE UNCHANGED vars
  <2>1. /\ life \in {"up", "dead"}
        /\ threads \in 0 .. MaxThreads /\ main \in {"idle", "firing", "exiting"}
        /\ listener \in {"spawning", "joining", "left"}
    BY DEF OverseerInv, TypeOK
  <2> QED BY <1>1, <2>1, QuietStep DEF vars, process, queue
<1>2. ASSUME NEW c \in Clients, Accept(c) \/ Handler(c) PROVE OverseerInv'
  BY <1>2, ServeStep, CheckStep, SaveStep, UnitStep, RegisterStep DEF Handler
<1>3. CASE UDPListener
  BY <1>3, RemovalStep, DregStep, OtherThreadsStep DEF UDPListener
<1> QED BY <1>1, <1>2, <1>3, OtherThreadsStep DEF Next

THEOREM OverseerInvariant == Spec => []OverseerInv
  BY InitOverseer, NextOverseer, PTL DEF Spec

\* The queue and every index into it stay inside the array.
THEOREM OverseerTypes == Spec => []TypeOK
<1>1. OverseerInv => TypeOK
  BY DEF OverseerInv
<1> QED BY <1>1, OverseerInvariant, PTL

-----------------------------------------------------------------------------
(* The address of the unit.                                                *)

\* The threads that are no handlers touch neither the address nor a handler.
LEMMA OthersKeep ==
    ASSUME \/ Spawn \/ ThreadsExhausted \/ Closing \/ UDPListener \/ Commands \/ Fault
           \/ UNCHANGED vars
    PROVE  UNCHANGED <<pc, cur, dest, fa, saved>>
<1> USE DEF handlers, history
<1>1. CASE Spawn \/ ThreadsExhausted \/ Closing \/ Fault \/ UNCHANGED vars
  BY <1>1 DEF Spawn, ThreadsExhausted, Closing, StopSpawning, Joined, Fault, Die, vars
<1>2. CASE Commands
  BY <1>2 DEF Commands, FireCommand, ExitCommand, Exit, OrderUnlisted, Die
<1>3. CASE UDPListener
  BY <1>3 DEF UDPListener, Removal, RemoveTest, Shift, Drop, NextDatagram, IgnoreDatagram,
              TakeDreg
<1> QED BY <1>1, <1>2, <1>3

LEMMA PCsType == OverseerInv => pc \in [Clients -> PCs]
  BY DEF OverseerInv, TypeOK, PCs

\* A door's handler looks at the address and leaves it alone.
LEMMA DoorAddressStep ==
    ASSUME OverseerInv, AddressInv, NEW c \in Clients \ {Unit}, Accept(c) \/ Handler(c)
    PROVE  AddressInv'
<1> USE Constants, HandlerTypes, PCsType
<1>1. fa' = fa /\ pc'[Unit] = pc[Unit] /\ dest'[Unit] = dest[Unit]
  BY DEF Accept, Handler, ServeReader, ServeOther, ServeSecure, ServeSafe, CheckAddress, Save,
         Register, Resolve, SendArrives, SendLost, SendDoor, ScanTest, Return, ScanRead, Die,
         handlers, Go
<1>2. ASSUME NEW e \in SafeDoors, Registering(e)' PROVE cur'[e] = e
  <2>1. CASE e # c
    <3>1. pc'[e] = pc[e] /\ cur'[e] = cur[e]
      BY <2>1 DEF Accept, Handler, ServeReader, ServeOther, ServeSecure, ServeSafe,
             CheckAddress, Save, Register, Resolve, SendArrives, SendLost, SendDoor,
             ScanTest, Return, ScanRead, Die, handlers, Go
    <3> QED BY <1>2, <3>1 DEF AddressInv, Registering
  <2>2. CASE e = c /\ CheckAddress(c)
    BY <1>2, <2>2 DEF CheckAddress, Go, Registering
  <2>3. CASE e = c /\ ~CheckAddress(c)
    <3>1. Registering(e) /\ cur'[e] = cur[e]
      BY <1>2, <2>3 DEF Accept, Handler, ServeReader, ServeOther, ServeSecure, ServeSafe,
             Save, Register, Resolve, SendArrives, SendLost, SendDoor,
             ScanTest, Return, ScanRead, Die, handlers, Go, Registering
    <3> QED BY <3>1 DEF AddressInv
  <2> QED BY <2>1, <2>2, <2>3
<1> QED BY <1>1, <1>2 DEF AddressInv, Registering

\* The unit's handler writes the address once, before it looks at the queue.
LEMMA UnitAddressStep ==
    ASSUME OverseerInv, AddressInv, Accept(Unit) \/ Handler(Unit)
    PROVE  AddressInv'
<1> USE Constants, HandlerTypes, PCsType
<1>1. Unit \notin SecureDoors \cup SafeDoors
  OBVIOUS
<1>2. \A e \in SafeDoors : pc'[e] = pc[e] /\ cur'[e] = cur[e]
  BY DEF Accept, Handler, ServeReader, ServeOther, ServeSecure, ServeSafe, CheckAddress, Save,
         WriteAddress, LoopTest, Fetch,
         Register, Resolve, SendArrives, SendLost, SendDoor, ScanTest, Return, ScanRead, Die,
         handlers, Go
<1>3. pc'[Unit] \in {"loop", "fetch"} \/ Registering(Unit)' => fa' = "whole"
  <2>1. CASE WriteAddress
    BY <2>1 DEF WriteAddress, Go, Registering
  <2>2. CASE CheckAddress(Unit)
    BY <1>1, <2>2 DEF CheckAddress, OverseerInv, HandlersInv
  <2>3. CASE ~WriteAddress /\ ~CheckAddress(Unit)
    <3>1. fa' = fa
      BY <2>3 DEF Accept, Handler, ServeReader, ServeOther, ServeSecure, ServeSafe, Save,
         LoopTest, Fetch, Register, Resolve, SendArrives, SendLost, SendDoor, ScanTest,
         ScanRead, Die
    <3>2. pc'[Unit] \in {"loop", "fetch"} \/ Registering(Unit)'
            => pc[Unit] \in {"loop", "fetch"} \/ Registering(Unit)
      BY <1>1, <2>3 DEF Accept, Handler, ServeReader, ServeOther, ServeSecure, ServeSafe, Save,
         LoopTest, Fetch, Register, Resolve, SendArrives, SendLost, SendDoor, ScanTest,
         Return, ScanRead, Die, handlers, Go, Registering
    <3> QED BY <3>1, <3>2 DEF AddressInv
  <2> QED BY <2>1, <2>2, <2>3
<1>4. pc'[Unit] \in {"send", "scan", "read"} => dest'[Unit] = "unit"
  <2>1. CASE Resolve(Unit)
    <3>1. fa = "whole"
      BY <2>1 DEF Resolve, AddressInv, Registering
    <3> QED BY <2>1, <3>1 DEF Resolve, Die, handlers, AddressInv
  <2>2. CASE SendArrives(Unit) \/ SendLost(Unit) \/ ScanTest(Unit) \/ ScanRead(Unit)
    BY <2>2 DEF SendArrives, SendLost, SendDoor, ScanTest, ScanRead, AddressInv
  <2>3. CASE ~Register(Unit)
    <3>1. dest' = dest
      BY <2>3 DEF Accept, Handler, ServeReader, ServeOther, ServeSecure, ServeSafe,
         CheckAddress, Save, WriteAddress, LoopTest, Fetch, Die, handlers
    <3>2. pc'[Unit] \notin {"send", "scan", "read"} \/ pc'[Unit] = pc[Unit]
      BY <2>3 DEF Accept, Handler, ServeReader, ServeOther, ServeSecure, ServeSafe,
         CheckAddress, Save, WriteAddress, LoopTest, Fetch, Die, handlers, Go
    <3> QED BY <3>1, <3>2 DEF AddressInv
  <2> QED BY <2>1, <2>2, <2>3 DEF Register
<1> QED BY <1>2, <1>3, <1>4 DEF AddressInv, Registering

LEMMA NextAddress == OverseerInv /\ AddressInv /\ [Next]_vars => AddressInv'
<1> SUFFICES ASSUME OverseerInv, AddressInv, [Next]_vars PROVE AddressInv'
  OBVIOUS
<1>1. ASSUME UNCHANGED <<pc, cur, dest, fa, saved>> PROVE AddressInv'
  BY <1>1 DEF AddressInv, Registering
<1> QED BY <1>1, OthersKeep, DoorAddressStep, UnitAddressStep DEF Next

\* AddressInv holds in every reachable state.
THEOREM AddressInvariant == Spec => []AddressInv
<1>1. Init => AddressInv
  BY Constants DEF Init, AddressInv, Registering
<1> QED BY <1>1, NextAddress, OverseerInvariant, PTL DEF Spec

\* The datagrams of the doors that were saved go to the unit and nowhere else:
\* the half written address (overseer.c:408) misleads new doors only.
THEOREM SavedReachUnit == Spec => SavedGoToUnit
<1>1. OverseerInv /\ AddressInv /\ [Next]_vars
        => [\A c \in Clients : cur[c] \in saved /\ pc[c] = "send" /\ pc'[c] = "scan"
                                 => cur[c] \in sent']_vars
  <2> SUFFICES ASSUME OverseerInv, AddressInv, Next, NEW c \in Clients,
                      cur[c] \in saved, pc[c] = "send", pc'[c] = "scan"
               PROVE  cur[c] \in sent'
    BY DEF vars
  <2>1. c \in SafeDoors \cup {Unit}
    BY DEF OverseerInv, HandlersInv, Registering
  <2>2. c = Unit
    <3>1. \A d \in saved : pc[d] = "done"
      BY DEF OverseerInv, QueueInv
    <3>2. c \in SafeDoors => cur[c] = c
      BY DEF AddressInv, Registering
    <3> QED BY <2>1, <3>1, <3>2
  <2>3. dest[Unit] = "unit"
    BY <2>2 DEF AddressInv
  <2>4. pc' # pc
    OBVIOUS
  <2>5. PICK e \in Clients : Accept(e) \/ Handler(e)
    BY <2>4, OthersKeep DEF Next
  <2>6. SendArrives(c) \/ SendLost(c)
    BY <2>5, PCsType, Constants DEF Accept, Handler, ServeReader, ServeOther, ServeSecure,
       ServeSafe, CheckAddress, Save, WriteAddress, LoopTest, Fetch, Register, Resolve,
       SendArrives, SendLost, SendDoor, ScanTest, Return, ScanRead, Die, handlers, Go
  <2> QED BY <2>2, <2>3, <2>6 DEF SendArrives, SendLost, SendDoor
<1> QED BY <1>1, OverseerInvariant, AddressInvariant, PTL DEF Spec, SavedGoToUnit

-----------------------------------------------------------------------------
(* Doors that come after the unit.                                         *)

LEMMA LateSlots ==
    ASSUME OverseerInv, LateInv, [Next]_vars
    PROVE  \A n \in Indices : slots'[n] # NoDoor => slots'[n] \in saved'
<1> USE HandlerTypes, Constants
<1>1. CASE UNCHANGED <<slots, saved>>
  BY <1>1 DEF LateInv
<1>2. ASSUME NEW c \in Clients, Save(c)
      PROVE  \A n \in Indices : slots'[n] # NoDoor => slots'[n] \in saved'
  BY <1>2 DEF Save, LateInv
<1>3. CASE Shift
  <2>1. j \in Indices /\ j - 1 \in Indices
    BY <1>3 DEF Shift, OverseerInv, TypeOK, QueueInv, Indices
  <2> QED BY <1>3, <2>1 DEF Shift, LateInv, history
<1> QED BY <1>1, <1>2, <1>3 DEF Next, Spawn, ThreadsExhausted, Closing, StopSpawning, Joined,
       UDPListener, Removal, RemoveTest, Drop, NextDatagram, IgnoreDatagram, TakeDreg,
       Commands, FireCommand, ExitCommand, Exit, OrderUnlisted, Fault, Die, Accept, Handler,
       ServeReader, ServeOther, ServeSecure, ServeSafe, CheckAddress, WriteAddress, LoopTest,
       Fetch, Register, Resolve, SendArrives, SendLost, SendDoor, ScanTest, ScanRead,
       queue, history, vars

\* A door's own handler registers a door that is not in the queue.
LEMMA LateUnmatched ==
    ASSUME OverseerInv, AddressInv, LateInv, [Next]_vars PROVE \A d \in SafeDoors : ~match'[d]
<1> USE HandlerTypes, Constants
<1>1. CASE UNCHANGED match
  BY <1>1 DEF LateInv
<1>2. ASSUME NEW c \in Clients, SendArrives(c) \/ SendLost(c)
      PROVE  \A d \in SafeDoors : ~match'[d]
  BY <1>2 DEF SendArrives, SendLost, SendDoor, LateInv
<1>3. ASSUME NEW c \in Clients, ScanRead(c), c \in SafeDoors
      PROVE  \A d \in SafeDoors : ~match'[d]
  <2>1. cur[c] = c /\ i[c] \in Indices
    BY <1>3 DEF ScanRead, AddressInv, Registering, OverseerInv, TypeOK, Indices
  <2>2. c \notin saved
    BY <1>3 DEF ScanRead, OverseerInv, QueueInv
  <2>3. slots[i[c]] # c
    BY <1>3, <2>1, <2>2 DEF LateInv
  <2> QED BY <1>3, <2>1, <2>3 DEF ScanRead, LateInv
<1>4. ASSUME NEW c \in Clients, ScanRead(c), c \notin SafeDoors
      PROVE  \A d \in SafeDoors : ~match'[d]
  BY <1>4 DEF ScanRead, LateInv
<1> QED BY <1>1, <1>2, <1>3, <1>4 DEF Next, Spawn, ThreadsExhausted, Closing, StopSpawning,
       Joined, UDPListener, Removal, RemoveTest, Shift, Drop, NextDatagram, IgnoreDatagram,
       TakeDreg, Commands, FireCommand, ExitCommand, Exit, OrderUnlisted, Fault, Die, Accept,
       Handler, ServeReader, ServeOther, ServeSecure, ServeSafe, CheckAddress, Save,
       WriteAddress, LoopTest, Fetch, Register, Resolve, ScanTest, handlers, vars

\* A door that comes after the fire alarm unit (overseer.c:382) is sent to it
\* once: the loop that is to send it "until a datagram is sent back" finds it
\* missing from the queue it never entered.  A datagram that is lost is lost.
THEOREM LateSentOnce ==
    Spec => [][\A d \in SafeDoors : pc[d] = "scan" => pc'[d] # "send"]_vars
<1>1. Init => LateInv
  BY Constants DEF Init, LateInv
<1>2. OverseerInv /\ AddressInv /\ LateInv /\ [Next]_vars => LateInv'
  BY LateSlots, LateUnmatched DEF LateInv
<1>3. OverseerInv /\ LateInv /\ [Next]_vars
        => [\A d \in SafeDoors : pc[d] = "scan" => pc'[d] # "send"]_vars
  <2> SUFFICES ASSUME OverseerInv, LateInv, Next, NEW d \in SafeDoors,
                      pc[d] = "scan", pc'[d] = "send"
               PROVE  FALSE
    BY DEF vars
  <2>1. PICK e \in Clients : Accept(e) \/ Handler(e)
    BY OthersKeep DEF Next
  <2>2. ScanTest(d) /\ match[d]
    BY <2>1, PCsType, Constants DEF Accept, Handler, ServeReader, ServeOther, ServeSecure,
       ServeSafe, CheckAddress, Save, WriteAddress, LoopTest, Fetch, Register, Resolve,
       SendArrives, SendLost, SendDoor, ScanTest, Return, ScanRead, Die, handlers, Go
  <2> QED BY <2>2 DEF LateInv
<1> QED BY <1>1, <1>2, <1>3, OverseerInvariant, AddressInvariant, PTL DEF Spec

-----------------------------------------------------------------------------
(* The end of the handlers.                                                *)

LEMMA NextExit == OverseerInv /\ ExitInv /\ [Next]_vars => ExitInv'
<1> SUFFICES ASSUME OverseerInv, ExitInv, [Next]_vars, listener' = "left"
             PROVE  ExitIsClean' /\ Cardinality(Served)' = threads'
  BY DEF ExitInv
<1>1. CASE Joined
  BY <1>1 DEF Joined, handlers, ExitIsClean, Served
<1>2. CASE ~Joined
  <2>1. listener = "left"
    BY <1>2 DEF Next, Spawn, ThreadsExhausted, Closing, StopSpawning, UDPListener, Removal,
       RemoveTest, Shift, Drop, NextDatagram, IgnoreDatagram, TakeDreg, Commands, FireCommand,
       ExitCommand, Exit, OrderUnlisted, Fault, Die, Accept, Handler, ServeReader, ServeOther,
       ServeSecure, ServeSafe, CheckAddress, Save, WriteAddress, LoopTest, Fetch, Register,
       Resolve, SendArrives, SendLost, SendDoor, ScanTest, ScanRead, process, vars
  <2>2. /\ \A c \in Clients : pc[c] \in {"outside", "done"}
        /\ Cardinality(Served) = threads
    BY <2>1 DEF ExitInv, ExitIsClean
  <2>3. pc' = pc /\ threads' = threads
    <3>1. ASSUME NEW c \in Clients PROVE ~Accept(c) /\ ~Handler(c)
      <4>1. ~Accept(c)
        <5>1. threads \in Nat /\ ~(Cardinality(Served) < threads)
          BY <2>2, Constants DEF OverseerInv, TypeOK
        <5> QED BY <5>1 DEF Accept
      <4>2. ~Handler(c)
        BY <2>2, Constants DEF Handler, ServeReader, ServeOther, ServeSecure, ServeSafe,
           CheckAddress, Save, WriteAddress, LoopTest, Fetch, Register, Resolve, SendArrives,
           SendLost, SendDoor, ScanTest, ScanRead
      <4> QED BY <4>1, <4>2
    <3>2. pc' = pc
      BY <3>1, OthersKeep DEF Next
    <3>3. threads' = threads
      BY <2>1, <3>1 DEF Next, Spawn, ThreadsExhausted, Closing, StopSpawning, Joined,
         UDPListener, Removal, RemoveTest, Shift, Drop, NextDatagram, IgnoreDatagram, TakeDreg,
         Commands, FireCommand, ExitCommand, Exit, OrderUnlisted, Fault, Die, process, vars
    <3> QED BY <3>2, <3>3
  <2> QED BY <2>2, <2>3 DEF ExitIsClean, Served
<1> QED BY <1>1, <1>2

\* EXIT (overseer.c:711) ends the process with no client in the middle of its
\* registration and no handler that could still accept one.
THEOREM ExitAlwaysClean == Spec => []ExitIsClean
<1>1. Init => ExitInv
  BY DEF Init, ExitInv
<1>2. Spec => []ExitInv
  BY <1>1, NextExit, OverseerInvariant, PTL DEF Spec
<1>3. ExitInv => ExitIsClean
  BY DEF ExitInv, ExitIsClean
<1> QED BY <1>2, <1>3, PTL

-----------------------------------------------------------------------------
(* What a removal keeps, when there are two doors at most.                 *)

LEMMA AtMostTwo ==
    ASSUME OverseerInv, Cardinality(SafeDoors) <= 2
    PROVE  cnt \in 0 .. 2 /\ (cnt = MaxDoors \/ cnt \in Indices) /\ 0 .. cnt - 1 \subseteq Indices
<1>1. IsFiniteSet(SafeDoors) /\ saved \subseteq SafeDoors
  BY HandlerTypes, OverseerAssumption DEF OverseerAssumption
<1>2. /\ Cardinality(saved) <= Cardinality(SafeDoors)
      /\ Cardinality(saved) \in Nat /\ Cardinality(SafeDoors) \in Nat
  BY <1>1, FS_Subset, FS_CardinalityType
<1> QED BY <1>2, Constants, HandlerTypes DEF OverseerInv, QueueInv, Indices

LEMMA KeptSave ==
    ASSUME OverseerInv, KeptInv, NEW c \in Clients, Save(c), cnt \in Indices PROVE KeptInv'
<1>1. /\ cnt' = cnt + 1 /\ saved' = saved \cup {c} /\ cnt \in Nat
      /\ at \notin {"test", "shift", "drop"} /\ UNCHANGED <<at, confirmed>>
  BY HandlerTypes, Constants DEF Save, MutexFree
<1>2. slots'[cnt] = c /\ \A n \in Indices \ {cnt} : slots'[n] = slots[n]
  BY HandlerTypes, Constants DEF Save, Indices
<1>3. ASSUME NEW d \in saved' \ confirmed
      PROVE  \E n \in 0 .. cnt' - 1 : slots'[n] = d
  <2>1. CASE d = c
    BY <1>1, <1>2, <2>1
  <2>2. CASE d \in saved
    <3>1. PICK n \in 0 .. cnt - 1 : slots[n] = d
      BY <1>3, <2>2 DEF KeptInv, Queued
    <3>2. n \in Indices \ {cnt} /\ n \in 0 .. cnt' - 1
      BY <1>1, <3>1, Constants DEF Indices
    <3> QED BY <1>2, <3>1, <3>2
  <2> QED BY <1>1, <1>3, <2>1, <2>2
<1> QED BY <1>1, <1>3 DEF KeptInv, Queued

LEMMA KeptDreg ==
    ASSUME OverseerInv, KeptInv, NEW d \in SafeDoors, TakeDreg(d) PROVE KeptInv'
<1>1. /\ UNCHANGED <<slots, cnt, saved>> /\ confirmed' = confirmed \cup {d}
      /\ at' \in {"test", "again"}
  BY DEF TakeDreg
<1>2. at' = "test" => j' - 1 \in 0 .. cnt - 1 /\ slots[j' - 1] = d
  <2> SUFFICES ASSUME at' = "test" PROVE j' - 1 \in 0 .. cnt - 1 /\ slots[j' - 1] = d
    OBVIOUS
  <2>1. PICK n \in 0 .. cnt - 1 : slots[n] = d /\ j' = n + 1
    BY DEF TakeDreg
  <2> QED BY <2>1
<1> QED BY <1>1, <1>2 DEF KeptInv, Queued

LEMMA KeptRemoval ==
    ASSUME OverseerInv, KeptInv, Removal, cnt \in 0 .. 2, 0 .. cnt - 1 \subseteq Indices
    PROVE  KeptInv'
<1>1. j \in Nat /\ (at = "test" => j > 0) /\ (at \in {"shift", "drop"} => j = 1 /\ cnt = 2)
  BY Constants DEF OverseerInv, TypeOK, QueueInv
<1>2. UNCHANGED <<saved, confirmed>>
  BY DEF Removal, RemoveTest, Shift, Drop, history
<1>3. CASE RemoveTest
  BY <1>1, <1>2, <1>3 DEF RemoveTest, KeptInv, Queued
<1>4. CASE Shift
  <2>1. 0 \in Indices /\ 1 \in Indices /\ slots \in [Indices -> SafeDoors \cup {NoDoor}]
    BY <1>1, <1>4, HandlerTypes DEF Shift
  <2>2. /\ slots'[0] = slots[1] /\ slots'[1] = slots[1] /\ slots[0] \in confirmed
        /\ at' = "drop" /\ j' = 1 /\ cnt' = 2 /\ cnt = 2
    BY <1>1, <1>4, <2>1 DEF Shift, KeptInv
  <2>3. ASSUME NEW d \in saved \ confirmed PROVE slots'[1] = d
    <3>1. PICK n \in 0 .. 1 : slots[n] = d
      BY <2>2 DEF KeptInv, Queued
    <3>2. n = 0 \/ n = 1
      OBVIOUS
    <3> QED BY <2>2, <3>1, <3>2
  <2> QED BY <1>2, <2>2, <2>3 DEF KeptInv, Queued
<1>5. CASE Drop
  <2>1. /\ cnt = 2 /\ cnt' = 1 /\ j' = 2 /\ at' = "test" /\ slots' = slots
        /\ slots[0] = slots[1]
    BY <1>1, <1>5 DEF Drop, KeptInv
  <2>2. ASSUME NEW d \in saved \ confirmed PROVE slots[0] = d
    <3>1. PICK n \in 0 .. 1 : slots[n] = d
      BY <2>1 DEF KeptInv, Queued
    <3>2. n = 0 \/ n = 1
      OBVIOUS
    <3> QED BY <2>1, <3>1, <3>2
  <2> QED BY <1>2, <2>1, <2>2 DEF KeptInv, Queued
<1> QED BY <1>3, <1>4, <1>5 DEF Removal

LEMMA NextKept ==
    ASSUME Cardinality(SafeDoors) <= 2, OverseerInv, OverseerInv', KeptInv, [Next]_vars
    PROVE  KeptInv'
<1>1. ASSUME UNCHANGED <<slots, cnt, j, saved, confirmed>>, at' \in {at, "again", "recv", "left"}
      PROVE  KeptInv'
  BY <1>1 DEF KeptInv, Queued
<1>2. ASSUME NEW c \in Clients, Accept(c) \/ Handler(c) PROVE KeptInv'
  <2>1. CASE Save(c)
    <3>1. cnt' = cnt + 1 /\ cnt' \in 0 .. MaxDoors
      BY <2>1 DEF Save, OverseerInv, TypeOK
    <3>2. cnt \in Indices
      BY <3>1, HandlerTypes, Constants DEF Indices
    <3> QED BY <2>1, <3>2, KeptSave
  <2>2. CASE ~Save(c)
    <3>1. UNCHANGED <<slots, cnt, j, saved, confirmed, at>>
      BY <1>2, <2>2 DEF Accept, Handler, ServeReader, ServeOther, ServeSecure, ServeSafe,
         CheckAddress, WriteAddress, LoopTest, Fetch, Register, Resolve, SendArrives, SendLost,
         SendDoor, ScanTest, ScanRead, Die, queue, history
    <3> QED BY <1>1, <3>1
  <2> QED BY <2>1, <2>2
<1>3. CASE \/ Spawn \/ ThreadsExhausted \/ Closing \/ Commands \/ Fault
           \/ IgnoreDatagram \/ NextDatagram \/ UNCHANGED vars
  BY <1>1, <1>3 DEF Spawn, ThreadsExhausted, Closing, StopSpawning, Joined, Commands,
     FireCommand, ExitCommand, Exit, OrderUnlisted, Fault, Die, IgnoreDatagram, NextDatagram,
     queue, history, vars
<1> QED BY <1>2, <1>3, AtMostTwo, KeptDreg, KeptRemoval DEF Next, UDPListener

LEMMA TwoKept == Cardinality(SafeDoors) <= 2 => (Spec => []KeptInv)
<1> SUFFICES ASSUME Cardinality(SafeDoors) <= 2 PROVE Spec => []KeptInv
  OBVIOUS
<1>1. Init => KeptInv
  BY DEF Init, KeptInv, Queued
<1>2. OverseerInv /\ OverseerInv' /\ KeptInv /\ [Next]_vars => KeptInv'
  BY NextKept
<1> QED BY <1>1, <1>2, OverseerInvariant, PTL DEF Spec

\* The comment of overseer.c:374 holds of two fail-safe doors: a removal that has
\* one entry to move takes one off the count.  With three, overseer.c:553 drops
\* a door that nobody confirmed (run overseer_queue).
THEOREM TwoSavedAreKept == Cardinality(SafeDoors) <= 2 => (Spec => []SavedIsKept)
<1>1. KeptInv => SavedIsKept
  BY DEF KeptInv, SavedIsKept
<1> QED BY <1>1, TwoKept, PTL

\* The unit's handler under a removal: with two doors at most, the one that is
\* overwritten is confirmed and the one that moves is the last.
LEMMA ResentShift ==
    ASSUME Cardinality(SafeDoors) <= 2, OverseerInv, KeptInv, ResentInv, Shift
    PROVE  ResentInv'
<1> USE HandlerTypes, Constants
<1>1. /\ cnt \in 0 .. 2 /\ 0 .. cnt - 1 \subseteq Indices /\ j \in 0 .. MaxDoors
      /\ 0 < j /\ j < cnt
  BY AtMostTwo DEF Shift, OverseerInv, TypeOK, QueueInv
<1>2. /\ j = 1 /\ cnt = 2 /\ 0 \in Indices /\ 1 \in Indices
      /\ slots[0] \in confirmed
  BY <1>1 DEF Shift, KeptInv
<1>3. /\ slots'[0] = slots[1] /\ \A n \in Indices \ {0} : slots'[n] = slots[n]
      /\ UNCHANGED <<handlers, fa, listed, cnt, history>>
  BY <1>2 DEF Shift
<1>4. SafeDoors \subseteq saved
  <2>1. IsFiniteSet(SafeDoors) /\ saved \subseteq SafeDoors
    BY OverseerAssumption DEF OverseerAssumption
  <2>2. Cardinality(saved) \in Nat /\ Cardinality(SafeDoors) \in Nat
    BY <2>1, FS_Subset, FS_CardinalityType
  <2>3. Cardinality(saved) >= Cardinality(SafeDoors)
    BY <1>2, <2>2 DEF OverseerInv, QueueInv
  <2> QED BY <2>1, <2>2, <2>3, FS_Subset
<1>5. \A n \in Indices : n >= 2 => slots'[n] = NoDoor
  BY <1>3 DEF ResentInv
<1>6. Moved'
  <2>1. \A n \in Indices : n = 0 \/ n = 1 \/ n >= 2
    BY DEF Indices
  <2> QED BY <1>2, <1>3, <1>4, <1>5, <2>1 DEF Moved, history
<1>7. Registering(Unit) => cur[Unit] \in confirmed
  BY <1>2 DEF ResentInv
<1> QED BY <1>3, <1>5, <1>6, <1>7 DEF ResentInv, Registering, handlers, history

LEMMA ResentSave ==
    ASSUME Cardinality(SafeDoors) <= 2, OverseerInv, OverseerInv', ResentInv,
           NEW c \in Clients, Save(c)
    PROVE  ResentInv'
<1> USE HandlerTypes, Constants
<1>1. c \in SafeDoors /\ c # Unit /\ pc[c] = "save" /\ c \notin saved
  BY DEF Save, OverseerInv, HandlersInv, QueueInv
<1>2. ~Moved
  BY <1>1 DEF Moved
<1>3. cnt' = cnt + 1 /\ cnt' \in 0 .. 2
  <2>1. cnt' = cnt + 1 /\ cnt' \in 0 .. MaxDoors /\ cnt' <= Cardinality(saved')
        /\ saved' \subseteq SafeDoors
    BY DEF Save, OverseerInv, TypeOK, QueueInv
  <2>2. IsFiniteSet(SafeDoors)
    BY OverseerAssumption DEF OverseerAssumption
  <2>3. /\ Cardinality(saved') <= Cardinality(SafeDoors)
        /\ Cardinality(saved') \in Nat /\ Cardinality(SafeDoors) \in Nat
    BY <2>1, <2>2, FS_Subset, FS_CardinalityType
  <2> QED BY <2>1, <2>3
<1>4. cnt \in {0, 1} /\ \A n \in Indices : n # cnt => slots'[n] = slots[n]
  BY <1>3 DEF Save
<1>5. pc'[Unit] = pc[Unit] /\ UNCHANGED <<cur, i, match, k, confirmed>>
  BY <1>1, PCsType DEF Save, Go
<1>6. pc[Unit] = "fetch" \/ Registering(Unit) => slots'[0] = slots[0]
  <2>1. pc[Unit] = "fetch" \/ Registering(Unit) => cnt = 1 /\ 0 \in Indices
    BY <1>4 DEF ResentInv, Indices
  <2> QED BY <1>4, <2>1
<1>7. \A n \in Indices : n >= 2 => slots'[n] = NoDoor
  BY <1>4 DEF ResentInv
<1> QED BY <1>2, <1>3, <1>5, <1>6, <1>7 DEF ResentInv, Registering

\* The handler of the unit itself.
LEMMA ResentUnit ==
    ASSUME OverseerInv, ResentInv, Accept(Unit) \/ Handler(Unit), ~Save(Unit)
    PROVE  ResentInv'
<1> USE HandlerTypes, Constants
<1>1. UNCHANGED <<slots, cnt, saved, confirmed>>
  BY DEF Accept, Handler, ServeReader, ServeOther, ServeSecure, ServeSafe, CheckAddress,
         WriteAddress, LoopTest, Fetch, Register, Resolve, SendArrives, SendLost, SendDoor,
         ScanTest, ScanRead, Die, queue, history
<1>2. /\ Moved' <=> Moved
      /\ \A n \in Indices : n >= 2 => slots[n] = NoDoor
      /\ k >= 1 => Moved
  BY <1>1 DEF Moved, ResentInv
<1>3. pc \in [Clients -> PCs] /\ Unit \in Clients
  BY PCsType
<1> USE DEF Go, Registering
<1>4. CASE \/ Accept(Unit) \/ ServeReader(Unit) \/ ServeOther(Unit) \/ ServeSecure(Unit)
           \/ ServeSafe(Unit) \/ CheckAddress(Unit)
  <2>1. CASE Accept(Unit) \/ ServeReader(Unit) \/ ServeOther(Unit)
    BY <1>1, <1>2, <1>3, <2>1 DEF Accept, ServeReader, ServeOther, Die, handlers, ResentInv
  <2> QED BY <1>4, <2>1 DEF ServeSecure, ServeSafe, CheckAddress, OverseerInv, HandlersInv
<1>5. CASE WriteAddress
  BY <1>1, <1>2, <1>3, <1>5 DEF WriteAddress, ResentInv
<1>6. CASE LoopTest
  BY <1>1, <1>2, <1>3, <1>6 DEF LoopTest, ResentInv
<1>7. CASE Fetch
  <2>1. slots[k] = slots[0]
    <3>1. k \in Indices /\ slots[k] # NoDoor
      BY <1>7 DEF Fetch, OverseerInv, HandlersInv, Indices
    <3> QED BY <1>2, <3>1 DEF Moved
  <2>2. cur'[Unit] = slots[0] /\ pc'[Unit] = "resolve" /\ k' = k /\ cnt > 0
    BY <1>3, <1>7, <2>1 DEF Fetch, ResentInv
  <2> QED BY <1>1, <1>2, <2>2 DEF ResentInv
<1>8. CASE Resolve(Unit)
  BY <1>1, <1>2, <1>3, <1>8 DEF Resolve, Die, handlers, ResentInv
<1>9. CASE SendArrives(Unit) \/ SendLost(Unit)
  <2>1. /\ pc[Unit] = "send" /\ pc'[Unit] = "scan" /\ i'[Unit] = 0
        /\ UNCHANGED <<cur, k>>
    BY <1>3, <1>9 DEF SendArrives, SendLost, SendDoor
  <2> QED BY <1>1, <1>2, <2>1 DEF ResentInv
<1>10. CASE ScanTest(Unit)
  <2>1. pc[Unit] = "scan" /\ UNCHANGED <<cur, i, match>> /\ cnt > 0 /\ i[Unit] \in Nat
    BY <1>10 DEF ScanTest, ResentInv
  <2>2. CASE pc'[Unit] \in {"read", "send"} /\ k' = k
    BY <1>1, <1>2, <2>1, <2>2 DEF ResentInv
  <2>3. CASE pc'[Unit] = "loop" /\ i[Unit] >= cnt /\ ~match[Unit]
    <3>1. Moved
      BY <2>1, <2>3 DEF ResentInv
    <3> QED BY <1>1, <1>2, <2>3, <3>1 DEF ResentInv
  <2> QED BY <1>3, <1>10, <2>2, <2>3 DEF ScanTest, Return
<1>11. CASE ScanRead(Unit)
  <2>1. /\ pc[Unit] = "read" /\ pc'[Unit] = "scan" /\ UNCHANGED <<cur, k>>
        /\ i[Unit] \in Nat /\ i'[Unit] = i[Unit] + 1
    BY <1>3, <1>11 DEF ScanRead
  <2>2. match'[Unit] = (match[Unit] \/ slots[i[Unit]] = cur[Unit])
    BY <1>11, Zenon DEF ScanRead
  <2>3. ~match'[Unit] => Moved /\ cur[Unit] \in confirmed
    <3>1. CASE i[Unit] = 0
      BY <2>1, <2>2, <3>1 DEF ResentInv
    <3>2. CASE i[Unit] > 0
      BY <2>1, <2>2, <3>2 DEF ResentInv
    <3> QED BY <2>1, <3>1, <3>2
  <2> QED BY <1>1, <1>2, <2>1, <2>3 DEF ResentInv
<1> QED BY <1>4, <1>5, <1>6, <1>7, <1>8, <1>9, <1>10, <1>11 DEF Handler, Register

LEMMA NextResent ==
    ASSUME Cardinality(SafeDoors) <= 2, OverseerInv, OverseerInv', KeptInv, ResentInv,
           [Next]_vars
    PROVE  ResentInv'
<1> USE HandlerTypes, Constants
<1>1. ASSUME UNCHANGED <<slots, saved, k>>, pc'[Unit] = pc[Unit], cur'[Unit] = cur[Unit],
             i'[Unit] = i[Unit], match'[Unit] = match[Unit], confirmed \subseteq confirmed',
             cnt > 0 => cnt' > 0
      PROVE  ResentInv'
  BY <1>1 DEF ResentInv, Moved, Registering
<1>2. ASSUME NEW c \in Clients, Accept(c) \/ Handler(c) PROVE ResentInv'
  <2>1. CASE c # Unit /\ ~Save(c)
    <3>1. /\ UNCHANGED <<slots, saved, k, cnt, confirmed>> /\ pc'[Unit] = pc[Unit]
          /\ cur'[Unit] = cur[Unit] /\ i'[Unit] = i[Unit] /\ match'[Unit] = match[Unit]
      BY <1>2, <2>1, PCsType DEF Accept, Handler, ServeReader, ServeOther, ServeSecure,
         ServeSafe, CheckAddress, Register, Resolve, SendArrives, SendLost, SendDoor, ScanTest,
         Return, ScanRead, Die, Go, handlers, queue, history
    <3> QED BY <1>1, <3>1
  <2> QED BY <1>2, <2>1, ResentSave, ResentUnit
<1>3. CASE UDPListener
  <2>1. CASE Shift
    BY <2>1, ResentShift
  <2>2. CASE Drop
    <3>1. cnt > 0 => cnt' > 0
      BY <2>2 DEF Drop, OverseerInv, TypeOK, QueueInv
    <3> QED BY <1>1, <2>2, <3>1 DEF Drop, handlers, history
  <2>3. ASSUME NEW d \in SafeDoors, TakeDreg(d) PROVE ResentInv'
    BY <1>1, <2>3 DEF TakeDreg, handlers
  <2>4. CASE RemoveTest \/ NextDatagram \/ IgnoreDatagram
    BY <1>1, <2>4 DEF RemoveTest, NextDatagram, IgnoreDatagram, handlers, history
  <2> QED BY <1>3, <2>1, <2>2, <2>3, <2>4 DEF UDPListener, Removal
<1>4. CASE Spawn \/ ThreadsExhausted \/ Closing \/ Commands \/ Fault \/ UNCHANGED vars
  BY <1>1, <1>4 DEF Spawn, ThreadsExhausted, Closing, StopSpawning, Joined, Commands,
     FireCommand, ExitCommand, Exit, OrderUnlisted, Fault, Die, handlers, queue, history, vars
<1> QED BY <1>2, <1>3, <1>4 DEF Next

\* With two fail-safe doors the comment of overseer.c:242 holds too of the doors
\* that were saved: the unit's handler leaves such a door only when a datagram
\* was sent back.  (With four, it loses one that moves: run overseer_resend.)
THEOREM TwoSavedAreResent ==
    Cardinality(SafeDoors) <= 2 => (Spec => ResentUntilConfirmed)
<1> SUFFICES ASSUME Cardinality(SafeDoors) <= 2 PROVE Spec => ResentUntilConfirmed
  OBVIOUS
<1>1. Init => ResentInv
  <2> SUFFICES ASSUME Init PROVE ResentInv
    OBVIOUS
  <2>1. pc[Unit] = "outside"
    BY Constants DEF Init
  <2> QED BY <2>1 DEF Init, ResentInv, Registering
<1>2. OverseerInv /\ OverseerInv' /\ KeptInv /\ ResentInv /\ [Next]_vars => ResentInv'
  BY NextResent
<1>3. OverseerInv /\ ResentInv /\ [Next]_vars
        => [pc[Unit] = "scan" /\ pc'[Unit] = "loop" => cur[Unit] \in confirmed]_vars
  <2> SUFFICES ASSUME OverseerInv, ResentInv, Next, pc[Unit] = "scan", pc'[Unit] = "loop"
               PROVE  cur[Unit] \in confirmed
    BY DEF vars
  <2>1. PICK e \in Clients : Accept(e) \/ Handler(e)
    BY OthersKeep DEF Next
  <2>2. ScanTest(Unit) /\ i[Unit] >= cnt /\ ~match[Unit]
    BY <2>1, PCsType, Constants DEF Accept, Handler, ServeReader, ServeOther, ServeSecure,
       ServeSafe, CheckAddress, Save, WriteAddress, LoopTest, Fetch, Register, Resolve,
       SendArrives, SendLost, SendDoor, ScanTest, Return, ScanRead, Die, handlers, Go
  <2>3. i[Unit] > 0
    BY <2>2, HandlerTypes, Constants DEF ResentInv, Registering
  <2> QED BY <2>2, <2>3 DEF ResentInv
<1> QED BY <1>1, <1>2, <1>3, TwoKept, OverseerInvariant, PTL DEF Spec, ResentUntilConfirmed

-----------------------------------------------------------------------------
(* The refinement.                                                         *)

\* The unit is told of registered fail-safe doors only, once it is registered.
THEOREM OverseerRefines == Spec => ImplementsRegistry
<1>1. Init => Abs!Init
  BY DEF Init, Abs!Init
<1>2. OverseerInv /\ [Next]_vars => [Abs!Next]_(Abs!vars)
  <2> SUFFICES ASSUME OverseerInv, [Next]_vars PROVE Abs!Next \/ UNCHANGED Abs!vars
    OBVIOUS
  <2> USE DEF Abs!vars
  <2>1. ASSUME UNCHANGED <<fa, listed, sent>> PROVE UNCHANGED Abs!vars
    BY <2>1
  <2>2. ASSUME NEW c \in Clients, Accept(c) \/ Handler(c)
        PROVE  Abs!Next \/ UNCHANGED Abs!vars
    <3>1. CASE ServeSafe(c) \/ ServeSecure(c)
      BY <3>1 DEF ServeSafe, ServeSecure, history, Abs!Next, Abs!Register
    <3>2. CASE WriteAddress
      BY <3>2 DEF WriteAddress, history, Abs!Next, Abs!Announce
    <3>3. CASE SendArrives(c) \/ SendLost(c)
      <4>1. fa # "empty" /\ cur[c] \in SafeDoors \cap listed
        BY <3>3 DEF SendArrives, SendLost, SendDoor, OverseerInv, HandlersInv, Registering
      <4>2. sent' \in {sent, sent \cup {cur[c]}} /\ UNCHANGED <<fa, listed>>
        BY <3>3 DEF SendArrives, SendLost, SendDoor
      <4> QED BY <4>1, <4>2 DEF Abs!Next, Abs!Tell
    <3>4. CASE \/ Accept(c) \/ ServeReader(c) \/ ServeOther(c) \/ CheckAddress(c) \/ Save(c)
               \/ LoopTest \/ Fetch \/ Resolve(c) \/ ScanTest(c) \/ ScanRead(c)
      BY <2>1, <3>4 DEF Accept, ServeReader, ServeOther, CheckAddress, Save, LoopTest,
                        Fetch, Resolve, ScanTest, ScanRead, Die, history
    <3> QED BY <2>2, <3>1, <3>2, <3>3, <3>4 DEF Handler, Register
  <2>3. CASE Spawn \/ ThreadsExhausted \/ Closing \/ Commands \/ Fault
    BY <2>1, <2>3 DEF Spawn, ThreadsExhausted, Closing, StopSpawning, Joined, Commands,
                      FireCommand, ExitCommand, Exit, OrderUnlisted, Fault, Die, history
  <2>4. CASE UDPListener
    BY <2>1, <2>4 DEF UDPListener, Removal, RemoveTest, Shift, Drop, NextDatagram,
                      IgnoreDatagram, TakeDreg, history
  <2>5. CASE UNCHANGED vars
    BY <2>1, <2>5 DEF vars, history
  <2> QED BY <2>2, <2>3, <2>4, <2>5 DEF Next
<1> QED BY <1>1, <1>2, OverseerInvariant, PTL DEF Spec, ImplementsRegistry, Abs!Spec

=============================================================================
