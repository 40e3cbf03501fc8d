-------------------------- MODULE SimulatorProofs ---------------------------
(***************************************************************************)
(* Theorems about Simulator, for any scenario files and any sizes of the   *)
(* arrays.  SimulatorInv is inductive.  The argument is the counting: what *)
(* spawn has started of a kind is what it read of the kind, so that in a   *)
(* file that names its components first init_components has initialised a  *)
(* slot for it.                                                            *)
(***************************************************************************)
EXTENDS Simulator, FiniteSetTheorems, TLAPS

LEMMA Constants ==
    /\ Files \subseteq Seq(Lines)
    /\ MaxReaders \in Nat /\ MaxDoors \in Nat /\ MaxPoints \in Nat
  BY SimulatorAssumption DEF SimulatorAssumption

LEMMA FileFacts ==
    ASSUME TypeOK
    PROVE  /\ file \in Seq(Lines) /\ Len(file) \in Nat
           /\ DOMAIN file = 1 .. Len(file)
           /\ IsFiniteSet(DOMAIN file)
<1>1. file \in Seq(Lines)
  BY Constants DEF TypeOK
<1> QED BY <1>1, FS_Interval

\* Of the lines of one kind, reading one more counts one more, or none.
LEMMA ReadOne ==
    ASSUME TypeOK, n' = n + 1, n <= Len(file), file' = file, NEW k
    PROVE  /\ Cardinality(Read(k)) \in Nat
           /\ Cardinality(Read(k)') =
                 IF file[n] = k THEN Cardinality(Read(k)) + 1 ELSE Cardinality(Read(k))
<1>1. n \in Nat \ {0}
  BY FileFacts DEF TypeOK
<1>2. IsFiniteSet(1 .. n - 1) /\ Read(k) \subseteq 1 .. n - 1
  BY <1>1, FS_Interval DEF Read
<1>3. IsFiniteSet(Read(k)) /\ Cardinality(Read(k)) \in Nat
  BY <1>2, FS_Subset, FS_CardinalityType
<1>4. Read(k)' = {m \in 1 .. n : file[m] = k}
  BY <1>1 DEF Read
<1>5. CASE file[n] = k
  <2>1. Read(k)' = Read(k) \cup {n} /\ n \notin Read(k)
    BY <1>1, <1>4, <1>5 DEF Read
  <2> QED BY <2>1, <1>3, <1>5, FS_AddElement
<1>6. CASE file[n] # k
  <2>1. Read(k)' = Read(k)
    BY <1>1, <1>4, <1>6 DEF Read
  <2> QED BY <2>1, <1>3, <1>6
<1> QED BY <1>5, <1>6

\* A line of a component that is still to be read was initialised, when the
\* components come first.
LEMMA ReadLess ==
    ASSUME TypeOK, InOrder, n <= Len(file), NEW k \in Kinds, file[n] = k
    PROVE  Cardinality(Read(k)) < Cardinality(Initialised(k))
<1>1. n \in Nat \ {0} /\ n \in DOMAIN file
  BY FileFacts DEF TypeOK
<1>2. Initialised(k) \subseteq DOMAIN file
  BY DEF Initialised, Header
<1>3. IsFiniteSet(Initialised(k)) /\ Cardinality(Initialised(k)) \in Nat
  BY <1>2, FileFacts, FS_Subset, FS_CardinalityType
<1>4. Read(k) \subseteq Initialised(k)
  BY <1>1, FileFacts DEF Read, Initialised, InOrder
<1>5. n \in Initialised(k) /\ n \notin Read(k)
  BY <1>1 DEF Read, Initialised, InOrder
<1> QED BY <1>3, <1>4, <1>5, FS_Subset, FS_CardinalityType

LEMMA InitialisedNat ==
    ASSUME TypeOK, NEW k
    PROVE  Cardinality(Initialised(k)) \in Nat
<1>1. Initialised(k) \subseteq DOMAIN file
  BY DEF Initialised, Header
<1> QED BY <1>1, FileFacts, FS_Subset, FS_CardinalityType

-----------------------------------------------------------------------------
(* SimulatorInv is inductive.                                              *)

LEMMA InitSimulator == Init => SimulatorInv
<1> SUFFICES ASSUME Init PROVE SimulatorInv
  OBVIOUS
<1>1. file \in Seq(Lines) /\ 1 \in 1 .. Len(file) + 1
  BY Constants DEF Init
<1>2. \A k \in Kinds \ {"callpoint"} : 0 <= Slots[k]
  BY Constants DEF Slots, Kinds
<1>3. MaxComponents \in Nat
  BY Constants DEF MaxComponents
<1>4. TypeOK
  BY <1>1, <1>2, <1>3 DEF Init, TypeOK
<1>5. \A k \in Kinds : Cardinality(Read(k)) = 0
  <2>1. \A k : Read(k) = {}
    BY DEF Init, Read
  <2> QED BY <2>1, FS_EmptySet
<1>6. CountsInv
  BY <1>5 DEF Init, CountsInv, Kinds
<1>7. ProcessesInv
  BY DEF Init, ProcessesInv, PeersKnown, SlotsFit
<1>8. StopInv
  BY Constants DEF Init, StopInv, Doors, Kinds
<1> QED BY <1>4, <1>6, <1>7, <1>8 DEF SimulatorInv

\* The steps of terminate and of the threads leave the processes alone.
LEMMA QuietStep ==
    ASSUME SimulatorInv, UNCHANGED <<fileVars, spawnVars>>,
           place # "init", place' # "init", place = "exited" => place' = "exited"
    PROVE  CountsInv' /\ ProcessesInv'
<1>1. UNCHANGED <<file, made, n, num, port, addr, started, pids>>
  BY DEF fileVars, spawnVars
<1>2. InOrder' = InOrder
  BY <1>1 DEF InOrder, Header, Scenarios
<1>3. ProcessesInv'
  BY <1>1, <1>2 DEF SimulatorInv, ProcessesInv, PeersKnown, SlotsFit
<1>4. \A k : Read(k)' = Read(k) /\ Initialised(k)' = Initialised(k)
  BY <1>1 DEF Read, Initialised, Header, Scenarios
<1>5. CountsInv'
  BY <1>1, <1>4 DEF SimulatorInv, CountsInv
<1> QED BY <1>3, <1>5

LEMMA InitStep == SimulatorInv /\ (InitComponents \/ InitFails) => SimulatorInv'
<1> SUFFICES ASSUME SimulatorInv, InitComponents \/ InitFails PROVE SimulatorInv'
  OBVIOUS
<1>1. place = "init" /\ n = 1 /\ started = <<>> /\ pids = <<>>
  <2>1. pids = <<>>
    BY DEF InitComponents, InitFails, SimulatorInv, TypeOK, CountsInv
  <2> QED BY <2>1 DEF InitComponents, InitFails, SimulatorInv, CountsInv
<1>2. UNCHANGED <<file, n, num, port, addr, started, pids, threads, i, signalled>>
      /\ place' \in {"spawn", "exited"}
  BY DEF InitComponents, InitFails, fileVars, spawnVars
<1>3. made' \in [Kinds -> Nat]
      /\ (place' = "spawn" => \A k \in Kinds : made'[k] = Cardinality(Initialised(k)))
  BY InitialisedNat DEF InitComponents, InitFails, fileVars, SimulatorInv, TypeOK
<1>4. TypeOK'
  BY <1>1, <1>2, <1>3 DEF SimulatorInv, TypeOK
<1>5. \A k : Read(k)' = Read(k) /\ Initialised(k)' = Initialised(k)
  BY <1>2 DEF Read, Initialised, Header, Scenarios
<1>6. CountsInv'
  BY <1>1, <1>2, <1>3, <1>5 DEF SimulatorInv, CountsInv
<1>7. ProcessesInv'
  BY <1>1, <1>2 DEF ProcessesInv, PeersKnown, SlotsFit
<1>8. StopInv'
  BY <1>1, <1>2 DEF SimulatorInv, StopInv
<1> QED BY <1>4, <1>6, <1>7, <1>8 DEF SimulatorInv

LEMMA NumTypes ==
    ASSUME TypeOK
    PROVE  /\ n \in Nat \ {0}
           /\ \A k \in Kinds : num[k] \in Nat
           /\ started \in Seq(Processes)
           /\ pids \in Seq(Nat) /\ port \in Nat
           /\ Len(started) \in Nat /\ DOMAIN started = 1 .. Len(started)
  BY FileFacts DEF TypeOK

\* A line that starts nothing changes no count.
LEMMA PassStep == SimulatorInv /\ PassLine => SimulatorInv'
<1> SUFFICES ASSUME SimulatorInv, PassLine PROVE SimulatorInv'
  OBVIOUS
<1>1. /\ place = "spawn" /\ n <= Len(file) /\ file[n] \notin Kinds
      /\ n # 1 /\ n' = n + 1 /\ port' \in {port, port + 1}
      /\ UNCHANGED <<file, made, place, num, addr, started, pids, threads, i, signalled>>
      /\ TypeOK
  BY DEF PassLine, AtLine, FirstFits, Kinds, fileVars, SimulatorInv
<1>2. TypeOK'
  <2>1. n' \in 1 .. Len(file) + 1 /\ port' \in Nat
    BY <1>1, NumTypes, FileFacts
  <2> QED BY <1>1, <2>1 DEF TypeOK
<1>3. \A k \in Kinds : Cardinality(Read(k)') = Cardinality(Read(k))
  BY <1>1, ReadOne
<1>4. \A k : Initialised(k)' = Initialised(k)
  BY <1>1 DEF Initialised, Header, Scenarios
<1>5. CountsInv'
  <2>1. n' # 1
    BY <1>1, NumTypes
  <2> QED BY <1>1, <1>3, <1>4, <2>1 DEF SimulatorInv, CountsInv
<1>6. InOrder' = InOrder
  BY <1>1 DEF InOrder, Header, Scenarios
<1>7. ProcessesInv'
  BY <1>1, <1>6 DEF SimulatorInv, ProcessesInv, PeersKnown, SlotsFit
<1>8. StopInv'
  BY <1>1 DEF SimulatorInv, StopInv
<1> QED BY <1>2, <1>5, <1>7, <1>8 DEF SimulatorInv

LEMMA GiveUpStep == SimulatorInv /\ GiveUp => SimulatorInv'
<1> SUFFICES ASSUME SimulatorInv, GiveUp PROVE SimulatorInv'
  OBVIOUS
<1>1. place = "spawn" /\ place' = "exited"
      /\ UNCHANGED <<fileVars, spawnVars, threads, i, signalled>>
  BY DEF GiveUp, AtLine
<1>2. TypeOK' /\ StopInv'
  BY <1>1 DEF SimulatorInv, TypeOK, StopInv, fileVars, spawnVars
<1> QED BY <1>1, <1>2, QuietStep DEF SimulatorInv

LEMMA EndStep == SimulatorInv /\ FileEnds => SimulatorInv'
<1> SUFFICES ASSUME SimulatorInv, FileEnds PROVE SimulatorInv'
  OBVIOUS
<1>1. place = "spawn" /\ UNCHANGED <<fileVars, spawnVars, threads, signalled>>
      /\ UNCHANGED <<file, made, n, num, port, addr, started, pids>>
  BY DEF FileEnds, fileVars, spawnVars
<1>2. \/ num["door"] = 0 /\ place' = "kill" /\ i' = 1
      \/ num["door"] > 0 /\ place' = "signal" /\ i' = 0
  BY NumTypes DEF FileEnds, SimulatorInv, Kinds
<1>3. TypeOK'
  BY <1>1, <1>2 DEF SimulatorInv, TypeOK
<1>4. \A p \in DOMAIN pids : ~(p < 1)
  BY NumTypes DEF SimulatorInv
<1>5. StopInv'
  BY <1>1, <1>2, <1>4 DEF SimulatorInv, StopInv, Doors
<1> QED BY <1>1, <1>2, <1>3, <1>5, QuietStep DEF SimulatorInv

\* A thread leaves its loop, but does not come back.
LEMMA ThreadStep ==
    ASSUME SimulatorInv, NEW d \in Doors, ThreadSteps(d) \/ ThreadSpurious(d)
    PROVE  SimulatorInv'
<1>1. /\ threads[d] \notin {"none", "left"}
      /\ \E t \in {"head", "left", "wait", "woken"} :
            threads' = [threads EXCEPT ![d] = t]
      /\ UNCHANGED <<fileVars, place, spawnVars, i, signalled>>
      /\ UNCHANGED <<file, made, n, num, port, addr, started, pids>>
  BY DEF ThreadSteps, ThreadLocks, ThreadTests, ThreadReturns, ThreadSpurious,
         fileVars, spawnVars
<1>2. TypeOK'
  BY <1>1 DEF SimulatorInv, TypeOK
<1>3. StopInv'
  BY <1>1 DEF SimulatorInv, StopInv, TypeOK
<1>4. CountsInv' /\ ProcessesInv'
  <2>1. CASE place # "init"
    BY <1>1, <2>1, QuietStep
  <2>2. CASE place = "init"
    <3>1. \A k : Read(k)' = Read(k)
      BY <1>1 DEF Read
    <3>2. CountsInv'
      BY <1>1, <2>2, <3>1 DEF SimulatorInv, CountsInv
    <3>3. ProcessesInv'
      BY <1>1 DEF SimulatorInv, ProcessesInv, PeersKnown, SlotsFit, InOrder,
                  Header, Scenarios
    <3> QED BY <3>2, <3>3
  <2> QED BY <2>1, <2>2
<1> QED BY <1>2, <1>3, <1>4 DEF SimulatorInv

\* terminate goes from door to door, and then from process to process.
LEMMA TerminateStep == SimulatorInv /\ (Signal \/ Join \/ Kill \/ Return) => SimulatorInv'
<1> SUFFICES ASSUME SimulatorInv, Signal \/ Join \/ Kill \/ Return
             PROVE  SimulatorInv'
  OBVIOUS
<1>1. UNCHANGED <<fileVars, spawnVars>> /\ place \in {"signal", "join", "kill"}
      /\ place' \in {"signal", "join", "kill", "returned"}
      /\ UNCHANGED <<file, made, n, num, port, addr, started, pids>>
  BY DEF Signal, Join, Kill, Return, fileVars, spawnVars
<1>2. CountsInv' /\ ProcessesInv'
  BY <1>1, QuietStep
<1>3. TypeOK /\ i \in Nat /\ num["door"] \in Nat /\ num["door"] <= MaxDoors
  <2>1. TypeOK /\ i \in Nat /\ num["door"] <= Slots["door"]
    BY DEF SimulatorInv, TypeOK, Kinds
  <2>2. Slots["door"] = MaxDoors
    BY DEF Slots
  <2> QED BY <2>1, <2>2, NumTypes DEF Kinds
<1>4. CASE Signal
  <2>1. i \in Doors /\ threads[i] # "none" /\ i < num["door"] /\ place = "signal"
    BY <1>3, <1>4, Constants DEF Signal, SimulatorInv, TypeOK, Doors, StopInv
  <2>2. TypeOK'
    BY <1>4, <2>1, <1>1 DEF Signal, SimulatorInv, TypeOK
  <2>3. StopInv'
    BY <1>1, <1>3, <1>4, <2>1 DEF Signal, SimulatorInv, StopInv, TypeOK
  <2> QED BY <1>2, <2>2, <2>3 DEF SimulatorInv
<1>5. CASE Join
  <2>1. i < num["door"] /\ place = "join" /\ threads[i] = "left"
        /\ UNCHANGED <<threads, signalled>>
    BY <1>5 DEF Join, SimulatorInv, TypeOK
  <2>2. CASE i + 1 < num["door"]
    <3>1. place' = "signal" /\ i' = i + 1
      BY <1>5, <2>2 DEF Join
    <3>2. TypeOK'
      BY <1>1, <1>3, <2>1, <2>2, <3>1 DEF TypeOK
    <3>3. \A d \in Doors : d < i' => threads[d] = "left"
      BY <1>3, <2>1, <3>1, Constants DEF SimulatorInv, StopInv, Doors
    <3>4. StopInv'
      BY <1>1, <2>1, <3>1, <3>3 DEF SimulatorInv, StopInv
    <3> QED BY <1>2, <3>2, <3>4 DEF SimulatorInv
  <2>3. CASE ~(i + 1 < num["door"])
    <3>1. place' = "kill" /\ i' = 1
      BY <1>5, <2>3 DEF Join
    <3>2. TypeOK'
      BY <1>1, <1>3, <2>1, <3>1 DEF TypeOK
    <3>3. \A d \in Doors : d < num["door"] => threads[d] = "left"
      BY <1>3, <2>1, <2>3, Constants DEF SimulatorInv, StopInv, Doors
    <3>4. \A p \in DOMAIN pids : ~(p < 1)
      BY <1>3, NumTypes
    <3>5. StopInv'
      BY <1>1, <2>1, <3>1, <3>3, <3>4 DEF SimulatorInv, StopInv
    <3> QED BY <1>2, <3>2, <3>5 DEF SimulatorInv
  <2> QED BY <2>2, <2>3
<1>6. CASE Kill
  <2>1. /\ place = "kill" /\ place' = "kill" /\ i <= Len(pids) /\ i > 0
        /\ signalled' = signalled \cup ({pids[i]} \ {0}) /\ i' = i + 1
        /\ UNCHANGED threads
    BY <1>6 DEF Kill, SimulatorInv, StopInv
  <2>2. pids \in Seq(Nat) /\ Len(pids) = Len(started) /\ i \in DOMAIN pids
        /\ i \in DOMAIN started
    BY <1>3, <2>1, NumTypes DEF SimulatorInv, CountsInv
  <2>3. pids[i] \in {0, i}
    BY <2>2 DEF SimulatorInv, ProcessesInv
  <2>4. TypeOK'
    <3>1. i' \in Nat /\ signalled' \subseteq DOMAIN started
      <4>1. signalled \subseteq DOMAIN started
        BY <1>3 DEF TypeOK
      <4> QED BY <1>3, <2>1, <2>2, <2>3, <4>1
    <3> QED BY <1>1, <1>3, <2>1, <3>1 DEF TypeOK
  <2>5. \A p \in DOMAIN pids : p < i' => pids[p] \in signalled' \cup {0}
    BY <1>3, <2>1, <2>2, <2>3 DEF SimulatorInv, StopInv
  <2>6. StopInv'
    BY <1>1, <1>3, <2>1, <2>5 DEF SimulatorInv, StopInv
  <2> QED BY <1>2, <2>4, <2>6 DEF SimulatorInv
<1>7. CASE Return
  <2>1. place = "kill" /\ place' = "returned" /\ i > Len(pids)
        /\ UNCHANGED <<threads, i, signalled>>
    BY <1>7 DEF Return
  <2>2. \A p \in DOMAIN pids : p < i
    BY <1>3, <2>1, NumTypes
  <2>3. TypeOK'
    BY <1>1, <1>3, <2>1 DEF TypeOK
  <2>4. StopInv'
    BY <1>1, <2>1, <2>2 DEF SimulatorInv, StopInv
  <2> QED BY <1>2, <2>3, <2>4 DEF SimulatorInv
<1> QED BY <1>4, <1>5, <1>6, <1>7

\* What spawn writes when it starts a component.
LEMMA SpawnStep == ASSUME SimulatorInv, NEW k \in Kinds, Spawn(k) PROVE SimulatorInv'
<1>a. PICK new : new = [kind |-> k, slot |-> num[k], port |-> port, peer |-> Peer(k)]
  OBVIOUS
<1>b. PICK N : N = Len(started)
  OBVIOUS
<1>1. /\ place = "spawn" /\ place' = "spawn" /\ n <= Len(file) /\ file[n] = k
      /\ FirstFits /\ ~Refused(k) /\ n' = n + 1 /\ port' = port + 1
      /\ num' = [num EXCEPT ![k] = @ + 1]
      /\ started' = Append(started, new)
      /\ addr' = IF k \in DOMAIN addr THEN [addr EXCEPT ![k] = port] ELSE addr
      /\ threads' = IF k = "door" THEN [threads EXCEPT ![num[k]] = "start"] ELSE threads
      /\ UNCHANGED <<file, made, i, signalled>>
      /\ TypeOK
  BY <1>a DEF Spawn, AtLine, fileVars, SimulatorInv
<1>2. PICK id \in {0, N + 1} : pids' = Append(pids, id) /\ (id = 0 => k = "overseer")
  BY <1>b DEF Spawn
<1>3. /\ N \in Nat /\ num[k] \in Nat /\ port \in Nat /\ n \in Nat \ {0}
      /\ started \in Seq(Processes)
      /\ pids \in Seq(Nat) /\ Len(pids) = N /\ DOMAIN started = 1 .. N
      /\ n = 1 <=> N = 0
  BY <1>b, <1>1, NumTypes DEF SimulatorInv, CountsInv
<1>4. new \in Processes
  <2>1. Peer(k) \in Nat
    BY <1>1 DEF Peer, TypeOK
  <2> QED BY <1>a, <1>3, <2>1 DEF Processes
<1>5. /\ DOMAIN started' = 1 .. N + 1 /\ started'[N + 1] = new
      /\ started' \in Seq(Processes)
      /\ \A p \in 1 .. N : started'[p] = started[p]
      /\ Len(started') = N + 1
  BY <1>b, <1>1, <1>3, <1>4
<1>6. /\ pids' \in Seq(Nat) /\ Len(pids') = N + 1 /\ pids'[N + 1] = id
      /\ \A p \in 1 .. N : pids'[p] = pids[p]
  BY <1>2, <1>3
<1>7. /\ num'[k] = num[k] + 1 /\ \A l \in Kinds \ {k} : num'[l] = num[l]
      /\ num \in [Kinds -> Nat] /\ num' \in [Kinds -> Nat]
  <2>1. num \in [Kinds -> Nat]
    BY <1>1 DEF TypeOK
  <2>2. num' = [num EXCEPT ![k] = num[k] + 1]
    BY <1>1
  <2>3. num[k] + 1 \in Nat
    BY <1>3
  <2> QED BY <2>1, <2>2, <2>3
<1>8. k # "callpoint" => num[k] < Slots[k]
  <2>1. k # "callpoint" => Slots[k] \in Nat
    BY Constants DEF Slots, Kinds
  <2> QED BY <1>1, <1>3, <2>1 DEF Refused
<1>9. CountsInv'
  <2>1. \A l \in Kinds : num'[l] = Cardinality(Read(l)')
    <3> TAKE l \in Kinds
    <3>1. num[l] = Cardinality(Read(l))
      BY DEF SimulatorInv, CountsInv
    <3>2. Cardinality(Read(l)') = IF file[n] = l THEN Cardinality(Read(l)) + 1
                                                 ELSE Cardinality(Read(l))
      BY <1>1, ReadOne
    <3> QED BY <1>1, <1>7, <3>1, <3>2
  <2>2. \A l : Initialised(l)' = Initialised(l)
    BY <1>1 DEF Initialised, Header, Scenarios
  <2>3. n' # 1 /\ started' # <<>>
    <3>1. n' # 1
      BY <1>1, <1>3
    <3>2. Len(started') # 0
      BY <1>3, <1>5
    <3> QED BY <3>1, <3>2
  <2>4. Len(started') = num'["overseer"] + num'["firealarm"] + num'["cardreader"]
                          + num'["door"] + num'["callpoint"]
    <3>1. N = num["overseer"] + num["firealarm"] + num["cardreader"]
                + num["door"] + num["callpoint"]
      BY <1>b DEF SimulatorInv, CountsInv
    <3>2. ASSUME NEW l \in Kinds
          PROVE  num[l] \in Nat /\ num'[l] = IF l = k THEN num[l] + 1 ELSE num[l]
      BY <1>7
    <3>3. PICK a, b, c, d, e :
             /\ a = num["overseer"] /\ b = num["firealarm"] /\ c = num["cardreader"]
             /\ d = num["door"] /\ e = num["callpoint"]
      OBVIOUS
    <3>4. a \in Nat /\ b \in Nat /\ c \in Nat /\ d \in Nat /\ e \in Nat
      BY <3>2, <3>3 DEF Kinds
    <3>5. /\ num'["overseer"] = IF k = "overseer" THEN a + 1 ELSE a
          /\ num'["firealarm"] = IF k = "firealarm" THEN b + 1 ELSE b
          /\ num'["cardreader"] = IF k = "cardreader" THEN c + 1 ELSE c
          /\ num'["door"] = IF k = "door" THEN d + 1 ELSE d
          /\ num'["callpoint"] = IF k = "callpoint" THEN e + 1 ELSE e
      BY <3>2, <3>3 DEF Kinds
    <3>6. N = a + b + c + d + e
      BY <3>1, <3>3
    <3>7. k \in {"overseer", "firealarm", "cardreader", "door", "callpoint"}
      BY DEF Kinds
    <3> QED BY <1>5, <3>4, <3>5, <3>6, <3>7
  <2>5. place # "exited" => \A l \in Kinds : made[l] = Cardinality(Initialised(l))
    BY <1>1 DEF SimulatorInv, CountsInv
  <2> QED BY <1>1, <1>5, <1>6, <2>1, <2>2, <2>3, <2>4, <2>5 DEF CountsInv
<1>10. TypeOK'
  <2>1. n' \in 1 .. Len(file) + 1 /\ port' \in Nat
    BY <1>1, <1>3, FileFacts
  <2>2. \A l \in Kinds \ {"callpoint"} : num'[l] <= Slots[l]
    <3> TAKE l \in Kinds \ {"callpoint"}
    <3>1. num[l] <= Slots[l]
      BY <1>1 DEF TypeOK
    <3>2. Slots[l] \in Nat
      BY Constants DEF Slots, Kinds
    <3> QED BY <1>3, <1>7, <1>8, <3>1, <3>2
  <2>3. num'["callpoint"] <= MaxPoints => Len(pids') <= MaxComponents
    <3>1. /\ num'["overseer"] <= 1 /\ num'["firealarm"] <= 1
          /\ num'["cardreader"] <= MaxReaders /\ num'["door"] <= MaxDoors
      BY <2>2 DEF Slots, Kinds
    <3>2. Len(pids') = num'["overseer"] + num'["firealarm"] + num'["cardreader"]
                         + num'["door"] + num'["callpoint"]
      BY <1>9 DEF CountsInv
    <3>3. PICK a, b, c, d, e :
             /\ a = num'["overseer"] /\ b = num'["firealarm"]
             /\ c = num'["cardreader"] /\ d = num'["door"] /\ e = num'["callpoint"]
      OBVIOUS
    <3>4. a \in Nat /\ b \in Nat /\ c \in Nat /\ d \in Nat /\ e \in Nat
      BY <1>7, <3>3 DEF Kinds
    <3>5. MaxReaders \in Nat /\ MaxDoors \in Nat /\ MaxPoints \in Nat
      BY Constants
    <3>6. a + b + c + d + e <= 2 + MaxReaders + MaxDoors + e
      BY <3>1, <3>3, <3>4, <3>5
    <3>7. Len(pids') = a + b + c + d + e
      BY <3>2, <3>3
    <3> QED BY <3>3, <3>4, <3>5, <3>6, <3>7 DEF MaxComponents
  <2>4. addr' \in [{"overseer", "firealarm"} -> Nat]
    BY <1>1, <1>3 DEF TypeOK
  <2>5. threads' \in [Doors -> {"none", "start", "head", "wait", "woken", "left"}]
    BY <1>1 DEF TypeOK
  <2>6. signalled' \subseteq DOMAIN started'
    BY <1>1, <1>3, <1>5 DEF TypeOK
  <2> QED BY <1>1, <1>5, <1>6, <1>7, <2>1, <2>2, <2>3, <2>4, <2>5, <2>6 DEF TypeOK
<1>11. StopInv'
  <2>1. k = "door" => num[k] \in Doors
    BY <1>3, <1>8, Constants DEF Doors, Slots
  <2>2. ASSUME NEW d \in Doors PROVE threads'[d] = "none" <=> num'["door"] <= d
    <3>1. threads[d] = "none" <=> num["door"] <= d
      BY DEF SimulatorInv, StopInv
    <3>2. CASE k = "door"
      <4>1. threads'[d] = IF d = num[k] THEN "start" ELSE threads[d]
        BY <1>1, <3>2 DEF TypeOK
      <4> QED BY <1>3, <1>7, <2>1, <3>1, <3>2, <4>1 DEF Doors
    <3>3. CASE k # "door"
      BY <1>1, <1>7, <3>1, <3>3 DEF Kinds
    <3> QED BY <3>2, <3>3
  <2> QED BY <1>1, <2>2 DEF StopInv
<1>12. \A p \in 1 .. N : started[p].slot < num[started[p].kind]
                          /\ started[p] \in Processes
  <2>1. \A p \in 1 .. N : started[p].slot < num[started[p].kind]
    BY <1>3 DEF SimulatorInv, ProcessesInv
  <2>2. \A p \in 1 .. N : started[p] \in Processes
    BY <1>b, <1>3
  <2> QED BY <2>1, <2>2
<1>13. k = "overseer" <=> N = 0
  <2>1. N = 0 => k = "overseer"
    BY <1>1, <1>3 DEF FirstFits
  <2>2. N > 0 => started[1].kind = "overseer"
    BY <1>3 DEF SimulatorInv, ProcessesInv, PeersKnown
  <2>3. k = "overseer" => num[k] = 0
    BY <1>3, <1>8 DEF Slots
  <2>4. N > 0 => num["overseer"] # 0
    <3> HAVE N > 0
    <3>1. 1 \in 1 .. N
      BY <1>3
    <3>2. started[1].slot \in Nat /\ started[1].slot < num["overseer"]
      BY <1>12, <2>2, <3>1 DEF Processes
    <3>3. num["overseer"] \in Nat
      BY <1>7 DEF Kinds
    <3> QED BY <3>2, <3>3
  <2> QED BY <1>3, <2>1, <2>3, <2>4
<1>14. \A p \in 1 .. N : started[p].kind \in {"overseer", "firealarm"} =>
                              k # started[p].kind /\ addr[started[p].kind] = started[p].port
  <2> TAKE p \in 1 .. N
  <2> HAVE started[p].kind \in {"overseer", "firealarm"}
  <2>1. addr[started[p].kind] = started[p].port
    BY <1>3 DEF SimulatorInv, ProcessesInv
  <2>2. k = started[p].kind => num[k] = 0
    BY <1>3, <1>8 DEF Slots
  <2>3. started[p].slot \in Nat /\ started[p].slot < num[started[p].kind]
    BY <1>12 DEF Processes
  <2> QED BY <2>1, <2>2, <2>3
<1>15. PeersKnown'
  <2>1. Peer(k) = IF k = "callpoint" THEN addr["firealarm"] ELSE addr["overseer"]
    BY DEF Peer
  <2>2. new.kind = k /\ new.peer = Peer(k)
    BY <1>a
  <2>3. PeersKnown
    BY DEF SimulatorInv, ProcessesInv
  <2>4. N > 0 => started[1].kind = "overseer"
    BY <1>3, <2>3 DEF PeersKnown
  <2> QED BY <1>3, <1>5, <1>13, <1>14, <2>1, <2>2, <2>3, <2>4 DEF PeersKnown
<1>16. \A p, q \in 1 .. N + 1 : started'[p].kind = started'[q].kind
                                 /\ started'[p].slot = started'[q].slot => p = q
  <2>1. new.kind = k /\ new.slot = num[k]
    BY <1>a
  <2>2. \A p, q \in 1 .. N : started[p].kind = started[q].kind
                              /\ started[p].slot = started[q].slot => p = q
    BY <1>3 DEF SimulatorInv, ProcessesInv
  <2>3. \A p \in 1 .. N : ~(started[p].kind = k /\ started[p].slot = num[k])
    BY <1>3, <1>12
  <2>4. \A p \in 1 .. N + 1 : p \in 1 .. N \/ p = N + 1
    BY <1>3
  <2> QED BY <1>5, <2>1, <2>2, <2>3, <2>4
<1>17. SlotsFit'
  <2>1. InOrder' = InOrder
    BY <1>1 DEF InOrder, Header, Scenarios
  <2>2. SlotsFit
    BY DEF SimulatorInv, ProcessesInv
  <2>3. InOrder => num[k] < made[k]
    <3>1. num[k] = Cardinality(Read(k)) /\ made[k] = Cardinality(Initialised(k))
      BY <1>1 DEF SimulatorInv, CountsInv
    <3> QED BY <1>1, <3>1, ReadLess
  <2>4. new.kind = k /\ new.slot = num[k]
    BY <1>a
  <2>5. \A p \in 1 .. N + 1 : p \in 1 .. N \/ p = N + 1
    BY <1>3
  <2>6. InOrder => \A p \in 1 .. N + 1 : started'[p].slot < made[started'[p].kind]
    BY <1>3, <1>5, <2>2, <2>3, <2>4, <2>5 DEF SlotsFit
  <2> QED BY <1>1, <1>5, <1>16, <2>1, <2>6 DEF SlotsFit
<1>18. ProcessesInv'
  <2>1. ASSUME NEW p \in 1 .. N + 1
        PROVE  /\ started'[p].slot < num'[started'[p].kind]
               /\ started'[p].kind \in {"overseer", "firealarm"} =>
                     addr'[started'[p].kind] = started'[p].port
               /\ pids'[p] = p \/ (started'[p].kind = "overseer" /\ pids'[p] = 0)
    <3>1. CASE p = N + 1
      <4>1. new.kind = k /\ new.slot = num[k] /\ new.port = port
        BY <1>a
      <4>2. k \in {"overseer", "firealarm"} => addr'[k] = port
        BY <1>1 DEF TypeOK
      <4> QED BY <1>2, <1>3, <1>5, <1>6, <1>7, <3>1, <4>1, <4>2
    <3>2. CASE p \in 1 .. N
      <4>1. started[p].kind \in {"overseer", "firealarm"} =>
               addr'[started[p].kind] = addr[started[p].kind]
        BY <1>1, <1>14, <3>2 DEF TypeOK
      <4>2. pids[p] = p \/ (started[p].kind = "overseer" /\ pids[p] = 0)
        BY <1>3, <3>2 DEF SimulatorInv, ProcessesInv
      <4>3. num[started[p].kind] <= num'[started[p].kind]
            /\ num[started[p].kind] \in Nat /\ num'[started[p].kind] \in Nat
            /\ started[p].slot \in Nat
        <5>1. started[p].kind \in Kinds /\ started[p].slot \in Nat
          BY <1>12, <3>2 DEF Processes
        <5>2. \A l \in Kinds : num[l] \in Nat /\ num'[l] \in Nat
          BY <1>7
        <5>3. \A l \in Kinds : num[l] <= num'[l]
          <6> TAKE l \in Kinds
          <6>1. l = k \/ num'[l] = num[l]
            BY <1>7
          <6> QED BY <1>7, <5>2, <6>1
        <5> QED BY <5>1, <5>2, <5>3
      <4> QED BY <1>5, <1>6, <1>12, <1>14, <3>2, <4>1, <4>2, <4>3
    <3> QED BY <1>3, <3>1, <3>2
  <2> QED BY <1>5, <1>15, <1>16, <1>17, <2>1 DEF ProcessesInv
<1> QED BY <1>9, <1>10, <1>11, <1>18 DEF SimulatorInv

LEMMA NextSimulator == SimulatorInv /\ [Next]_vars => SimulatorInv'
<1>1. SimulatorInv /\ UNCHANGED vars => SimulatorInv'
  <2> SUFFICES ASSUME SimulatorInv, UNCHANGED vars PROVE SimulatorInv'
    OBVIOUS
  <2>1. /\ UNCHANGED <<file, made, place, n, num, port, addr, started, pids>>
        /\ UNCHANGED <<threads, i, signalled>>
    BY DEF vars, fileVars, spawnVars
  <2>2. TypeOK' /\ StopInv'
    BY <2>1 DEF SimulatorInv, TypeOK, StopInv
  <2>3. CountsInv'
    <3>1. \A k : Read(k)' = Read(k) /\ Initialised(k)' = Initialised(k)
      BY <2>1 DEF Read, Initialised, Header, Scenarios
    <3> QED BY <2>1, <3>1 DEF SimulatorInv, CountsInv
  <2>4. ProcessesInv'
    BY <2>1 DEF SimulatorInv, ProcessesInv, PeersKnown, SlotsFit, InOrder, Header,
                Scenarios
  <2> QED BY <2>2, <2>3, <2>4 DEF SimulatorInv
<1>2. SimulatorInv /\ Main => SimulatorInv'
  BY InitStep, SpawnStep, PassStep, GiveUpStep, EndStep, TerminateStep DEF Main
<1> QED BY <1>1, <1>2, ThreadStep DEF Next

THEOREM SimulatorInvariant == Spec => []SimulatorInv
  BY InitSimulator, NextSimulator, PTL DEF Spec

\* No array of the simulator is written past its end, but for call points.
THEOREM SimulatorTypes == Spec => []TypeOK
<1>1. SimulatorInv => TypeOK
  BY DEF SimulatorInv
<1> QED BY <1>1, SimulatorInvariant, PTL

\* Every process gets memory of its own that was initialised for its kind
\* (init_components and spawn).
THEOREM SlotsAlwaysFit == Spec => []SlotsFit
<1>1. SimulatorInv => SlotsFit
  BY DEF SimulatorInv, ProcessesInv
<1> QED BY <1>1, SimulatorInvariant, PTL

\* Every process is given the address of whom it talks to (spawn).
THEOREM PeersAlwaysKnown == Spec => []PeersKnown
<1>1. SimulatorInv => PeersKnown
  BY DEF SimulatorInv, ProcessesInv
<1> QED BY <1>1, SimulatorInvariant, PTL

\* When terminate is through, threads and processes are (terminate).
THEOREM EndsClean == Spec => []CleanEnd
<1>1. ASSUME SimulatorInv PROVE CleanEnd
  <2> SUFFICES ASSUME place = "returned" PROVE CleanEnd
    BY DEF CleanEnd
  <2>1. ASSUME NEW d \in Doors PROVE threads[d] \in {"none", "left"}
    <3>1. num["door"] \in Nat /\ d \in Int
      BY <1>1, NumTypes, Constants DEF SimulatorInv, Kinds, Doors
    <3> QED BY <1>1, <3>1 DEF SimulatorInv, StopInv
  <2>2. ASSUME NEW p \in DOMAIN started
        PROVE  p \in signalled \/ (started[p].kind = "overseer" /\ pids[p] = 0)
    <3>1. p \in DOMAIN pids /\ p # 0
      BY <1>1, NumTypes DEF SimulatorInv, CountsInv
    <3>2. pids[p] = p \/ (started[p].kind = "overseer" /\ pids[p] = 0)
      BY <1>1 DEF SimulatorInv, ProcessesInv
    <3> QED BY <1>1, <3>1, <3>2 DEF SimulatorInv, StopInv
  <2> QED BY <2>1, <2>2 DEF CleanEnd
<1> QED BY <1>1, SimulatorInvariant, PTL

-----------------------------------------------------------------------------
(* The simulator gets on.                                                  *)

\* Steps of main that are left at most, when it is at place p with so many lines,
\* doors and processes, and at number at of them: one for a line, and for a line
\* may come a door to signal and to join and a process to kill.
Ahead(p, lines, doors, procs, at) ==
    [init     |-> 4 * lines + 2 * doors + procs + 3,
     spawn    |-> 4 * lines + 2 * doors + procs + 2,
     signal   |-> 2 * (doors - at) + procs + 1,
     join     |-> 2 * (doors - at) + procs,
     kill     |-> procs + 2 - at,
     returned |-> 0,
     exited   |-> 0][p]

ToGo == Ahead(place, Len(file) + 1 - n, num["door"], Len(pids), i)

KillInv == place = "kill" => i <= Len(pids) + 1

LEMMA AheadNat ==
    ASSUME NEW l \in Nat, NEW D \in Nat, NEW L \in Nat, NEW at
    PROVE  /\ Ahead("init", l, D, L, at) \in Nat /\ Ahead("spawn", l, D, L, at) \in Nat
           /\ Ahead("returned", l, D, L, at) = 0 /\ Ahead("exited", l, D, L, at) = 0
<1>1. 4 * l + 2 * D + L + 3 \in Nat /\ 4 * l + 2 * D + L + 2 \in Nat
  OBVIOUS
<1> QED BY <1>1 DEF Ahead

\* A line more is read, with a door more or not, and a process more or not.
LEMMA AheadLine ==
    ASSUME NEW l \in Nat, NEW D \in Nat, NEW L \in Nat, NEW at,
           NEW b \in Nat, NEW E \in Nat, NEW M \in Nat, l = b + 1, E <= D + 1, M <= L + 1
    PROVE  Ahead("spawn", b, E, M, at) < Ahead("spawn", l, D, L, at)
<1>1. 4 * b + 2 * E + M + 2 < 4 * l + 2 * D + L + 2
  OBVIOUS
<1> QED BY <1>1 DEF Ahead

\* The numbers ToGo is made of.
LEMMA Measures ==
    ASSUME SimulatorInv
    PROVE  /\ Len(file) \in Nat /\ n \in Nat /\ Len(file) + 1 - n \in Nat
           /\ num["door"] \in Nat /\ Len(pids) \in Nat /\ i \in Nat
           /\ place \in {"signal", "join"} => i < num["door"]
           /\ place \in {"init", "spawn", "signal", "join", "kill", "returned", "exited"}
<1>1. TypeOK /\ "door" \in Kinds
  BY DEF SimulatorInv, Kinds
<1> QED BY <1>1, NumTypes, FileFacts DEF TypeOK

LEMMA ToGoNat == SimulatorInv /\ KillInv => ToGo \in Nat
<1> SUFFICES ASSUME SimulatorInv, KillInv PROVE ToGo \in Nat
  OBVIOUS
<1> PICK l \in Nat, D \in Nat, L \in Nat :
        l = Len(file) + 1 - n /\ D = num["door"] /\ L = Len(pids)
  BY Measures
<1>1. /\ l \in Nat /\ D \in Nat /\ L \in Nat /\ i \in Nat
      /\ place \in {"signal", "join"} => i < D
      /\ place = "kill" => i <= L + 1
      /\ place \in {"init", "spawn", "signal", "join", "kill", "returned", "exited"}
  BY Measures DEF KillInv
<1>2. place \in {"signal", "join"} =>
         Ahead("signal", l, D, L, i) \in Nat /\ Ahead("join", l, D, L, i) \in Nat
  BY <1>1 DEF Ahead
<1>3. place = "kill" => Ahead("kill", l, D, L, i) \in Nat
  BY <1>1 DEF Ahead
<1> QED BY <1>1, <1>2, <1>3, AheadNat DEF ToGo

LEMMA MainStep ==
    ASSUME SimulatorInv, KillInv, Main PROVE KillInv' /\ ToGo' < ToGo
<1> PICK l \in Nat, D \in Nat, L \in Nat :
        l = Len(file) + 1 - n /\ D = num["door"] /\ L = Len(pids)
  BY Measures
<1>1. /\ l \in Nat /\ D \in Nat /\ L \in Nat /\ i \in Nat /\ n \in Nat /\ Len(file) \in Nat
      /\ place \in {"signal", "join"} => i < D
      /\ place = "kill" => i <= L + 1
      /\ file' = file
  BY Measures DEF KillInv, Main, InitComponents, InitFails, PassLine, GiveUp, FileEnds, Spawn,
     Signal, Join, Kill, Return, fileVars
<1>2. ToGo = Ahead(place, l, D, L, i)
  BY DEF ToGo
\* It is enough to look at the numbers.
<1>3. ASSUME NEW p, NEW b \in Nat, NEW E \in Nat, NEW M \in Nat, NEW a \in Nat,
             place' = p, Len(file') + 1 - n' = b, num'["door"] = E, Len(pids') = M, i' = a,
             p = "kill" => a <= M + 1,
             Ahead(p, b, E, M, a) < Ahead(place, l, D, L, i)
      PROVE  KillInv' /\ ToGo' < ToGo
  BY <1>2, <1>3 DEF KillInv, ToGo
<1>4. ASSUME UNCHANGED <<n, num, pids>>, NEW p, NEW a \in Nat, place' = p, i' = a,
             p = "kill" => a <= L + 1,
             Ahead(p, l, D, L, a) < Ahead(place, l, D, L, i)
      PROVE  KillInv' /\ ToGo' < ToGo
  BY <1>1, <1>3, <1>4
<1>5. ASSUME place = "spawn", place' = "spawn", l > 0, n' = n + 1, i' = i,
             NEW E \in {D, D + 1}, num'["door"] = E, NEW M \in {L, L + 1}, Len(pids') = M
      PROVE  KillInv' /\ ToGo' < ToGo
  <2>1. PICK b \in Nat : l = b + 1 /\ Len(file') + 1 - n' = b
    BY <1>1, <1>5
  <2>2. E \in Nat /\ M \in Nat /\ E <= D + 1 /\ M <= L + 1
    BY <1>1, <1>5
  <2>3. Ahead("spawn", b, E, M, i) < Ahead("spawn", l, D, L, i)
    BY <1>1, <2>1, <2>2, AheadLine
  <2> QED BY <1>1, <1>3, <1>5, <2>1, <2>2, <2>3
<1>6. CASE InitComponents
  <2>1. place = "init" /\ place' = "spawn" /\ UNCHANGED <<n, num, pids, i>>
    BY <1>6 DEF InitComponents, spawnVars
  <2>2. Ahead("spawn", l, D, L, i) < Ahead("init", l, D, L, i)
    BY <1>1 DEF Ahead
  <2> QED BY <1>1, <1>4, <2>1, <2>2
<1>7. CASE InitFails \/ GiveUp
  <2>1. place \in {"init", "spawn"} /\ place' = "exited" /\ UNCHANGED <<n, num, pids, i>>
    BY <1>7 DEF InitFails, GiveUp, AtLine, spawnVars
  <2>2. /\ Ahead("exited", l, D, L, i) < Ahead("init", l, D, L, i)
        /\ Ahead("exited", l, D, L, i) < Ahead("spawn", l, D, L, i)
    BY <1>1 DEF Ahead
  <2> QED BY <1>1, <1>4, <2>1, <2>2
<1>8. CASE PassLine
  <2>1. /\ place = "spawn" /\ place' = "spawn" /\ n <= Len(file) /\ n' = n + 1
        /\ UNCHANGED <<num, pids, i>>
    BY <1>8 DEF PassLine, AtLine
  <2> QED BY <1>1, <1>5, <2>1
<1>9. ASSUME NEW k \in Kinds, Spawn(k) PROVE KillInv' /\ ToGo' < ToGo
  <2>1. /\ place = "spawn" /\ place' = "spawn" /\ n <= Len(file) /\ n' = n + 1 /\ i' = i
        /\ num' = [num EXCEPT ![k] = @ + 1]
    BY <1>9 DEF Spawn, AtLine
  <2>2. Len(pids') = L + 1
    BY <1>9, NumTypes DEF Spawn, SimulatorInv
  <2>3. num'["door"] \in {D, D + 1}
    BY <2>1 DEF SimulatorInv, TypeOK, Kinds
  <2> QED BY <1>1, <1>5, <2>1, <2>2, <2>3
<1>10. CASE FileEnds
  <2>1. /\ place = "spawn" /\ UNCHANGED <<n, num, pids>>
        /\ \/ D = 0 /\ place' = "kill" /\ i' = 1
           \/ D # 0 /\ place' = "signal" /\ i' = 0
    BY <1>10 DEF FileEnds, spawnVars
  <2>2. /\ D = 0 => Ahead("kill", l, D, L, 1) < Ahead("spawn", l, D, L, i)
        /\ Ahead("signal", l, D, L, 0) < Ahead("spawn", l, D, L, i)
    BY <1>1 DEF Ahead
  <2> QED BY <1>1, <1>4, <2>1, <2>2
<1>11. CASE Signal
  <2>1. place = "signal" /\ place' = "join" /\ UNCHANGED <<n, num, pids, i>>
    BY <1>11 DEF Signal, spawnVars
  <2>2. Ahead("join", l, D, L, i) < Ahead("signal", l, D, L, i)
    BY <1>1, <2>1 DEF Ahead
  <2> QED BY <1>1, <1>4, <2>1, <2>2
<1>12. CASE Join
  <2>1. /\ place = "join" /\ UNCHANGED <<n, num, pids>>
        /\ \/ place' = "signal" /\ i' = i + 1
           \/ place' = "kill" /\ i' = 1
    BY <1>12 DEF Join, spawnVars
  <2>2. /\ Ahead("signal", l, D, L, i + 1) < Ahead("join", l, D, L, i)
        /\ Ahead("kill", l, D, L, 1) < Ahead("join", l, D, L, i)
    BY <1>1, <2>1 DEF Ahead
  <2> QED BY <1>1, <1>4, <2>1, <2>2
<1>13. CASE Kill
  <2>1. /\ place = "kill" /\ place' = "kill" /\ i <= L /\ i' = i + 1
        /\ UNCHANGED <<n, num, pids>>
    BY <1>13 DEF Kill, spawnVars
  <2>2. Ahead("kill", l, D, L, i + 1) < Ahead("kill", l, D, L, i)
    BY <1>1 DEF Ahead
  <2> QED BY <1>1, <1>4, <2>1, <2>2
<1>14. CASE Return
  <2>1. place = "kill" /\ place' = "returned" /\ UNCHANGED <<n, num, pids, i>>
    BY <1>14 DEF Return, spawnVars
  <2>2. Ahead("returned", l, D, L, i) < Ahead("kill", l, D, L, i)
    BY <1>1, <2>1 DEF Ahead
  <2> QED BY <1>1, <1>4, <2>1, <2>2
<1> QED BY <1>6, <1>7, <1>8, <1>9, <1>10, <1>11, <1>12, <1>13, <1>14 DEF Main

LEMMA ThreadsLeave ==
    ASSUME KillInv,
           UNCHANGED vars \/ \E d \in Doors : ThreadSteps(d) \/ ThreadSpurious(d)
    PROVE  KillInv' /\ ToGo' = ToGo
<1>1. UNCHANGED <<file, place, n, num, pids, i>>
  BY DEF ThreadSteps, ThreadLocks, ThreadTests, ThreadReturns, ThreadSpurious, vars, fileVars,
         spawnVars
<1> QED BY <1>1 DEF KillInv, ToGo

\* Every step of main takes it nearer to its end and no thread takes it back, so
\* that of a file of n lines it makes 4n + 3 steps at most: the only thing that
\* can keep it (ComesToAnEnd) is a wait for a mutex or for a thread.
THEOREM MainGetsOn ==
    Spec => /\ [](ToGo \in Nat)
            /\ [][\/ ToGo' < ToGo
                  \/ ToGo' = ToGo /\ \E d \in Doors : ThreadSteps(d) \/ ThreadSpurious(d)]_vars
<1>1. Init => KillInv
  BY DEF Init, KillInv
<1>2. SimulatorInv /\ KillInv /\ [Next]_vars => KillInv'
  BY MainStep, ThreadsLeave DEF Next
<1>3. SimulatorInv /\ KillInv /\ [Next]_vars
        => [\/ ToGo' < ToGo
            \/ ToGo' = ToGo /\ \E d \in Doors : ThreadSteps(d) \/ ThreadSpurious(d)]_vars
  BY MainStep, ThreadsLeave DEF Next
<1> QED BY <1>1, <1>2, <1>3, ToGoNat, SimulatorInvariant, PTL DEF Spec

=============================================================================
