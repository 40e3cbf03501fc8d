--------------------------- MODULE ScenarioProofs ---------------------------
(***************************************************************************)
(* Theorems about Scenario, for any codes, any length of the scenario and  *)
(* any number of sockets: ScenarioInv is inductive, and with it a Y is     *)
(* only published for a code the overseer allows.  The argument is the     *)
(* reader's mutex: from the moment it sends a code until it publishes the  *)
(* answer, nobody else writes the memory; a simulator that keeps to a      *)
(* private copy (simulator.c:525) never writes it.                         *)
(***************************************************************************)
EXTENDS Scenario, TLAPS

LEMMA Constants ==
    /\ NoCode \notin Codes /\ Allowed \subseteq Codes
    /\ FdLimit \in Nat /\ Length \in Nat
  BY ScenarioAssumption DEF ScenarioAssumption

LEMMA InitScenario == Init => ScenarioInv
<1> SUFFICES ASSUME Init PROVE ScenarioInv
  OBVIOUS
<1>1. todo \in Seq(Events)
  <2>1. PICK n \in 0 .. Length : todo \in [1 .. n -> Events]
    BY DEF Init
  <2>2. n \in Nat
    BY <2>1, Constants
  <2> QED BY <2>1, <2>2
<1>2. fds \in 0 .. FdLimit
  BY Constants DEF Init
<1>3. TypeOK
  BY <1>1, <1>2, Zenon DEF Init, TypeOK, Answers
<1> QED BY <1>3 DEF Init, ScenarioInv

\* The simulator writes a code only when the reader does not hold the mutex.
LEMMA SimulatorStep == ScenarioInv /\ Simulator => ScenarioInv'
<1> SUFFICES ASSUME ScenarioInv, Simulator PROVE ScenarioInv'
  OBVIOUS
<1> USE DEF ScenarioInv, TypeOK, simVars, cardVars, readerVars, pointVars
<1>1. CASE EventDue
  BY <1>1 DEF EventDue
<1>2. CASE WriteCode
  <2>1. /\ UNCHANGED <<mapped, todo, response, readerVars, status, pointVars>>
        /\ sim = "lock" /\ sim' = "signal" /\ scanned' \in Codes \cup {NoCode}
    BY <1>2 DEF WriteCode
  <2>2. reader = "await" => scanned' = scanned
    BY <1>2 DEF WriteCode, CardFree
  <2> QED BY <2>1, <2>2
<1>3. CASE SignalCard
  <2>1. todo # <<>> /\ Tail(todo) \in Seq(Events)
    BY <1>3 DEF SignalCard
  <2> QED BY <1>3, <2>1 DEF SignalCard
<1>4. CASE WriteStatus
  BY <1>4 DEF WriteStatus
<1>5. CASE SignalPoint
  <2>1. todo # <<>> /\ Tail(todo) \in Seq(Events)
    BY <1>5 DEF SignalPoint
  <2> QED BY <1>5, <2>1 DEF SignalPoint
<1> QED BY <1>1, <1>2, <1>3, <1>4, <1>5 DEF Simulator

LEMMA ExitStep ==
    ASSUME ScenarioInv, NEW locked \in BOOLEAN, ReaderExits(locked),
           UNCHANGED <<simVars, cardVars, status, pointVars>>
    PROVE  ScenarioInv'
<1>1. fds' \in 0 .. FdLimit /\ reader' = "dead" /\ left' \in BOOLEAN
  <2>1. 0 \in 0 .. FdLimit
    BY Constants
  <2> QED BY <2>1, Zenon DEF ReaderExits
<1> QED BY <1>1 DEF ReaderExits, ScenarioInv, TypeOK, simVars, cardVars, pointVars

\* A code is sent from memory, and the reader goes on to wait or exits when
\* the answer is there.
LEMMA ReaderStep ==
    ScenarioInv /\ (Reader \/ ReaderSpurious \/ OverseerAnswers) => ScenarioInv'
<1> SUFFICES ASSUME ScenarioInv, Reader \/ ReaderSpurious \/ OverseerAnswers
             PROVE  ScenarioInv'
  OBVIOUS
<1> USE Constants DEF ScenarioInv, TypeOK, simVars, cardVars, readerVars, pointVars
<1>1. CASE Hello
  <2>1. CASE ReaderExits(FALSE)
    BY <1>1, <2>1, ExitStep, Zenon DEF Hello
  <2>2. CASE reader' = "check" /\ UNCHANGED <<left, fds, asked, answer>>
    BY <1>1, <2>2 DEF Hello
  <2> QED BY <1>1, <2>1, <2>2, Zenon DEF Hello
<1>2. CASE Rest
  BY <1>2 DEF Rest
<1>3. CASE Ask
  <2>1. fds' \in 0 .. FdLimit /\ fds' > 0
    BY <1>3 DEF Ask
  <2>2. answer' = "none" /\ asked' = scanned /\ reader' = "await" /\ scanned' = scanned
    BY <1>3 DEF Ask
  <2>3. TypeOK'
    BY <1>3, <2>1, <2>2 DEF Ask, Answers
  <2>4. UNCHANGED <<mapped, status>>
    BY <1>3 DEF Ask
  <2> QED BY <2>2, <2>3, <2>4
<1>4. CASE AskFails
  <2>1. ASSUME NEW locked \in BOOLEAN, ReaderExits(locked) PROVE ScenarioInv'
    BY <1>4, <2>1, ExitStep, Zenon DEF AskFails
  <2> QED BY <1>4, <2>1, Zenon DEF AskFails
<1>5. CASE GiveUp
  BY <1>5 DEF GiveUp
<1>6. CASE Publish
  <2>1. fds' \in 0 .. FdLimit
    BY <1>6 DEF Publish
  <2> QED BY <1>6, <2>1 DEF Publish
<1>7. CASE AnswerUnusable
  BY <1>7 DEF AnswerUnusable, ReaderExits
<1>8. CASE ReaderSpurious
  BY <1>8 DEF ReaderSpurious
<1>9. CASE OverseerAnswers
  BY <1>9 DEF OverseerAnswers
<1> QED BY <1>1, <1>2, <1>3, <1>4, <1>5, <1>6, <1>7, <1>8, <1>9 DEF Reader

LEMMA PointStep ==
    ScenarioInv /\ (CallPoint \/ SendFails \/ PointSpurious) => ScenarioInv'
<1> SUFFICES ASSUME ScenarioInv, CallPoint \/ SendFails \/ PointSpurious
             PROVE  ScenarioInv'
  OBVIOUS
<1>1. /\ UNCHANGED <<simVars, cardVars, readerVars, status>>
      /\ point' \in {"start", "check", "wait", "firing", "dead"}
      /\ fired' \in BOOLEAN
  BY DEF ScenarioInv, TypeOK, CallPoint, PointStart, PointCheck, SendFire, SendFails,
         PointSpurious
<1> QED BY <1>1 DEF ScenarioInv, TypeOK, simVars, cardVars, readerVars

LEMMA ScenarioStep == ScenarioInv /\ [Next]_vars => ScenarioInv'
<1>1. ASSUME ScenarioInv, UNCHANGED vars PROVE ScenarioInv'
  BY <1>1 DEF ScenarioInv, TypeOK, vars, simVars, cardVars, readerVars, pointVars
<1> QED BY <1>1, SimulatorStep, ReaderStep, PointStep DEF Next

\* ScenarioInv holds in every reachable state: what is in flight is the code
\* in memory (cardreader.c keeps its mutex while it waits for the overseer).
THEOREM ScenarioInvariant == Spec => []ScenarioInv
  BY InitScenario, ScenarioStep, PTL DEF Spec

\* The types, the sockets within their limit, and who may leave a mutex locked.
THEOREM ScenarioTypes == Spec => []TypeOK
<1>1. ScenarioInv => TypeOK
  BY DEF ScenarioInv
<1> QED BY <1>1, ScenarioInvariant, PTL

\* callpoint.c looks at the status before it waits, and keeps its mutex from the
\* look to the wait: a press that reaches its memory comes before the look, or its
\* signal after the wait.
THEOREM PressAlwaysHeard == Spec => []PressNotLost
<1>1. Init => PressNotLost
  BY DEF Init, PressNotLost
<1>2. ScenarioInv /\ PressNotLost /\ [Next]_vars => PressNotLost'
  <2> SUFFICES ASSUME ScenarioInv, PressNotLost, [Next]_vars,
                      status' = "*", point' = "wait"
               PROVE  sim' = "signal" /\ Head(todo') = Press
    BY DEF PressNotLost
  <2>1. CASE WriteStatus
    BY <2>1 DEF WriteStatus
  <2>2. CASE PointCheck
    BY <2>2 DEF PointCheck
  <2>6. CASE SignalPoint
    <3>1. status = "*" /\ mapped
      BY <2>6 DEF SignalPoint, ScenarioInv
    <3> QED BY <2>6, <3>1 DEF SignalPoint, ScenarioInv, TypeOK
  <2>3. CASE EventDue \/ WriteCode \/ SignalCard
    <3>1. ~(sim = "signal" /\ Head(todo) = Press)
      BY <2>3 DEF EventDue, WriteCode, SignalCard, Press
    <3>2. UNCHANGED <<status, point>>
      BY <2>3 DEF EventDue, WriteCode, SignalCard, pointVars
    <3> QED BY <3>1, <3>2 DEF PressNotLost
  <2>4. CASE Reader \/ ReaderSpurious \/ OverseerAnswers \/ UNCHANGED vars
    <3>1. UNCHANGED <<todo, sim, status, point>>
      BY <2>4 DEF Reader, Hello, Rest, Ask, AskFails, GiveUp, Publish, AnswerUnusable,
         ReaderSpurious, OverseerAnswers, simVars, pointVars, vars
    <3> QED BY <3>1 DEF PressNotLost
  <2>5. CASE PointStart \/ SendFire \/ SendFails \/ PointSpurious
    BY <2>5 DEF PointStart, SendFire, SendFails, PointSpurious
  <2> QED BY <2>1, <2>2, <2>3, <2>4, <2>5, <2>6 DEF Next, Simulator, CallPoint
<1> QED BY <1>1, <1>2, ScenarioInvariant, PTL DEF Spec

\* cardreader.c publishes Y only while the code in memory is an allowed one.
THEOREM YesIsEarned == Spec => YesOnlyIfAllowed
<1>1. ScenarioInv /\ [Next]_vars
        => [reader = "await" /\ reader' = "wait" /\ response' = "Y"
              => scanned' \in Allowed]_vars
  <2> SUFFICES ASSUME ScenarioInv, Next,
                      reader = "await", reader' = "wait", response' = "Y"
               PROVE  scanned' \in Allowed
    BY DEF vars
  <2>1. Publish
    BY DEF Next, Simulator, EventDue, WriteCode, SignalCard, WriteStatus, SignalPoint,
           Reader, Hello, Rest, Ask, AskFails, GiveUp, AnswerUnusable, ReaderExits,
           CallPoint, PointStart, PointCheck, SendFire, SendFails, PointSpurious,
           ReaderSpurious, OverseerAnswers, readerVars
  <2>2. answer = "ALLOWED" /\ scanned' = scanned
    BY <2>1 DEF Publish
  <2> QED BY <2>2 DEF ScenarioInv
<1> QED BY <1>1, ScenarioInvariant, PTL DEF Spec, YesOnlyIfAllowed

=============================================================================
