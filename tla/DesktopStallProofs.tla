------------------------- MODULE DesktopStallProofs -------------------------
(***************************************************************************)
(* Proofs about DesktopStall, for every timeout and bound: its types, that *)
(* no restart request is removed unserved, that the watchdog starts no     *)
(* watcher of a runtime being replaced, that only a stalled turn is        *)
(* interrupted, and that interrupts of an unmoved turn are spaced.         *)
(***************************************************************************)
EXTENDS DesktopStall, TLAPS

-----------------------------------------------------------------------------
(* Ages and records.                                                       *)

\* The longer of two numbers is one of them, and the shorter too.
LEMMA MaxOfTwo ==
    ASSUME NEW a \in Int, NEW b \in Int
    PROVE  Max({a, b}) = IF a >= b THEN a ELSE b
  <1> DEFINE m == IF a >= b THEN a ELSE b
  <1>1. m \in {a, b} /\ \A y \in {a, b} : m >= y
    OBVIOUS
  <1>2. \A x \in {a, b} : (\A y \in {a, b} : x >= y) => x = m
    OBVIOUS
  <1> QED BY <1>1, <1>2 DEF Max

LEMMA MinOfTwo ==
    ASSUME NEW a \in Int, NEW b \in Int
    PROVE  Min({a, b}) = IF a <= b THEN a ELSE b
  <1> DEFINE m == IF a <= b THEN a ELSE b
  <1>1. m \in {a, b} /\ \A y \in {a, b} : m <= y
    OBVIOUS
  <1>2. \A x \in {a, b} : (\A y \in {a, b} : x <= y) => x = m
    OBVIOUS
  <1> QED BY <1>1, <1>2 DEF Min

\* No timeout is longer than Longest.
LEMMA LongestBounds ==
    /\ Longest \in Nat
    /\ Longest >= SettlingTime
    /\ Longest >= OperationTimeout
    /\ Longest >= StallTimeout
  BY StallAssumption, MaxOfTwo DEF Longest

\* An age that grows stays an age.
LEMMA OlderIs ==
    ASSUME NEW age \in Ages
    PROVE  /\ Older(age) = IF age = Longest THEN Longest ELSE age + 1
           /\ Older(age) \in Ages
           /\ Older(age) >= age
  <1>1. age \in Nat /\ age <= Longest
    BY LongestBounds DEF Ages
  <1>2. Older(age) = IF age + 1 <= Longest THEN age + 1 ELSE Longest
    BY <1>1, LongestBounds, MinOfTwo DEF Older
  <1> QED BY <1>1, <1>2, LongestBounds DEF Ages

LEMMA AgeBounds ==
    /\ 0 \in Ages /\ Longest \in Ages
    /\ \A age \in Ages : age \in Nat /\ age <= Longest
  BY LongestBounds DEF Ages

\* The records the passes leave.
LEMMA ObservationsLeft ==
    /\ NoObservation \in Observations
    /\ NoObservation.count = 0 /\ NoObservation.age = 0
    /\ NoObservation.settling = Longest
  BY AgeBounds DEF NoObservation, Observations

LEMMA RecordedIs ==
    ASSUME NEW age \in Ages
    PROVE  LET o == [NoObservation EXCEPT !.age = age, !.count = 1]
           IN  /\ o \in Observations
               /\ o.count = 1 /\ o.age = age /\ o.settling = Longest
  <1> DEFINE o == [NoObservation EXCEPT !.age = age]
  <1>1. [NoObservation EXCEPT !.age = age, !.count = 1]
            = [o EXCEPT !.count = 1]
    BY Zenon
  <1>2. o \in Observations /\ o.age = age /\ o.settling = Longest
    BY ObservationsLeft DEF Observations
  <1> HIDE DEF o
  <1>3. LET p == [o EXCEPT !.count = 1]
        IN  /\ p \in Observations
            /\ p.count = 1 /\ p.age = age /\ p.settling = Longest
    BY <1>2 DEF Observations
  <1> QED BY <1>1, <1>3, Zenon

LEMMA ObservationFields ==
    ASSUME NEW o \in Observations
    PROVE  /\ o.age \in Ages /\ o.settling \in Ages
           /\ o.count \in Nat
           /\ o.count > 0 \/ o.count = 0
  BY DEF Observations

LEMMA CountedIs ==
    ASSUME NEW o \in Observations
    PROVE  LET n == [o EXCEPT !.count = 2]
           IN  /\ n \in Observations
               /\ n.count = 2 /\ n.age = o.age /\ n.settling = o.settling
  BY DEF Observations

LEMMA SettlingIs ==
    ASSUME NEW o \in Observations, NEW age \in Ages
    PROVE  LET n == [o EXCEPT !.settling = age]
           IN  /\ n \in Observations
               /\ n.count = o.count /\ n.age = o.age /\ n.settling = age
  BY DEF Observations

LEMMA AgedIs ==
    ASSUME NEW o \in Observations
    PROVE  LET n == [o EXCEPT !.age = Older(@), !.settling = Older(@)]
           IN  /\ n \in Observations
               /\ n.count = o.count
               /\ n.age = Older(o.age) /\ n.settling = Older(o.settling)
  BY OlderIs DEF Observations

-----------------------------------------------------------------------------
(* TypeOK is inductive as it stands; its parts by what they are about.      *)

\* The thread and the App Server.
WorldType ==
    /\ serverUp \in BOOLEAN /\ goalActive \in BOOLEAN
    /\ thread \in ThreadStates
    /\ ~thread.active => thread = Idle
    /\ thread.operating => thread.listed
    /\ thread.active => serverUp = TRUE

\* The record of the activity and how old it was when it was made.
RecordType ==
    /\ observation \in Observations
    /\ lag \in Ages
    /\ observation.count > 0 => thread.active
    /\ observation.count = 0 => observation = NoObservation /\ lag = 0

\* The pass and the process it runs in.
PassType ==
    /\ pc \in {"idle", "connect", "observe", "fresh", "interrupt", "save"}
    /\ dry \in BOOLEAN /\ connected \in BOOLEAN /\ sameTurn \in BOOLEAN
    /\ passAge \in Ages /\ stalledFor \in Ages /\ settledFor \in Ages
    /\ watcher \in BOOLEAN /\ moved \in BOOLEAN
    /\ pc # "idle" /\ dry = FALSE => watcher = TRUE
    /\ dry = TRUE => pc \in {"connect", "observe"}

\* The scripts, the marker and the request they share.
HostType ==
    /\ triggered \in BOOLEAN
    /\ watchdog \in {"off", "stale", "checked", "stopped", "started", "ensured"}
    /\ marker \in {"none", "live", "stale"}
    /\ installer \in {"off", "draining", "stopping", "replacing", "started"}
    /\ request \in BOOLEAN /\ owed \in BOOLEAN

\* Clocks and budgets.
CountType ==
    /\ quiet \in Ages /\ sinceAck \in Ages
    /\ turns \in 0 .. MaxTurns
    /\ visits \in 0 .. MaxVisits
    /\ faults \in 0 .. MaxFaults

TypeInv == WorldType /\ RecordType /\ PassType /\ HostType /\ CountType

LEMMA TypeParts == TypeInv <=> TypeOK
  <1>1. TypeInv => TypeOK
    BY DEF TypeInv, TypeOK, WorldType, RecordType, PassType, HostType, CountType
  <1>2. TypeOK => TypeInv
    BY DEF TypeInv, TypeOK, WorldType, RecordType, PassType, HostType, CountType
  <1> QED BY <1>1, <1>2, Zenon

LEMMA IdleIs ==
    /\ Idle \in ThreadStates
    /\ Idle.active = FALSE /\ Idle.listed = FALSE /\ Idle.operating = FALSE
    /\ Idle.hung = FALSE
  BY DEF Idle, ThreadStates

LEMMA TypeInit == Init => TypeInv
  <1> SUFFICES ASSUME Init PROVE TypeInv
    OBVIOUS
  <1>1. WorldType
    BY IdleIs DEF Init, WorldType
  <1>2. RecordType
    BY ObservationsLeft, AgeBounds DEF Init, RecordType
  <1>3. PassType
    BY AgeBounds DEF Init, PassType
  <1>4. HostType
    BY DEF Init, HostType
  <1>5. CountType
    BY AgeBounds, StallAssumption DEF Init, CountType
  <1> QED BY <1>1, <1>2, <1>3, <1>4, <1>5, Zenon DEF TypeInv

\* The thread: what Codex does to it and what ends its turn.
LEMMA WorldTypeStep ==
    ASSUME TypeInv, [Next]_vars
    PROVE  WorldType'
  <1> USE DEF TypeInv
  <1>1. CASE UNCHANGED worldVars
    BY <1>1 DEF WorldType, worldVars
  <1>2. CASE TurnBegins
    <2>1. PICK listed \in BOOLEAN, operating \in BOOLEAN :
              /\ operating => listed
              /\ thread' = [active |-> TRUE, listed |-> listed,
                            operating |-> operating, hung |-> FALSE]
      BY <1>2, Zenon DEF TurnBegins
    <2>2. serverUp' = TRUE /\ goalActive' = goalActive
      BY <1>2 DEF TurnBegins, WorldType
    <2> QED BY <2>1, <2>2 DEF WorldType, ThreadStates
  <1>3. CASE TurnProgresses
    <2>1. PICK operating \in BOOLEAN :
              /\ operating => thread.listed
              /\ thread' = [thread EXCEPT !.operating = operating]
      BY <1>3, Zenon DEF TurnProgresses
    <2>2. UNCHANGED <<serverUp, goalActive>> /\ thread.active = TRUE
      BY <1>3 DEF TurnProgresses, WorldType, ThreadStates
    <2> QED BY <2>1, <2>2 DEF WorldType, ThreadStates
  <1>4. CASE TurnHangs
    BY <1>4 DEF TurnHangs, WorldType, ThreadStates
  <1>5. CASE GoalChanges
    BY <1>5 DEF GoalChanges, WorldType
  <1>6. CASE thread' = Idle /\ goalActive' = goalActive /\ serverUp' \in BOOLEAN
    BY <1>6, IdleIs DEF WorldType
  <1>7. CASE serverUp' = TRUE /\ UNCHANGED <<thread, goalActive>>
    BY <1>7 DEF WorldType
  <1>8. CASE InterruptAnswered \/ TurnEnds \/ ServerCrashes \/ StopAppServer
    <2>1. serverUp' \in BOOLEAN
      BY <1>8 DEF WorldType, InterruptAnswered, TurnEnds, ServerCrashes,
         StopAppServer, ServerGone
    <2> QED BY <1>6, <1>7, <1>1, <1>8, <2>1, Zenon
         DEF InterruptAnswered, TurnEnds, ServerCrashes, StopAppServer,
             ServerGone, TurnGone, worldVars
  <1>9. CASE StartAppServer \/ InstallerStartsTasks
    BY <1>7, <1>9, Zenon DEF StartAppServer, InstallerStartsTasks
  <1>10. CASE \/ BeginPass \/ BeginDryPass \/ Connect \/ TransportFails
              \/ CallFails \/ Observe \/ Read \/ InterruptFails
              \/ SaveInterrupt \/ Tick \/ UNCHANGED vars
    BY <1>10, <1>1, Zenon
       DEF BeginPass, BeginDryPass, Begin, Connect, TransportFails, CallFails,
           Observe, ObserveNothing, ObserveProgress, ObserveWithinWindow,
           ObserveStall, Read, FreshGone, FreshProgress, FreshOperation,
           FreshNoTurn, FreshStall, InterruptFails, SaveInterrupt,
           EndObserving, Tick, vars
  <1>11. CASE \/ WatcherDies \/ TaskTrigger \/ WatchdogBegins
              \/ RemoveStaleMarker \/ MoveRequest \/ EnsureWatcher
              \/ WatchdogDies \/ InstallerBegins \/ InstallerStopsTasks
              \/ InstallerEnds \/ InstallerFails \/ InstallerKilled
    BY <1>11, <1>1, Zenon
       DEF WatcherDies, TaskTrigger, WatchdogBegins, RemoveStaleMarker,
           MoveRequest, EnsureWatcher, WatchdogDies, InstallerBegins,
           InstallerStopsTasks, InstallerEnds, InstallerFails, InstallerKilled
  <1> QED
    BY <1>2, <1>3, <1>4, <1>5, <1>8, <1>9, <1>10, <1>11, Zenon
       DEF Next, PassStep, World, WatchdogStep, InstallerStep

\* What a pass, Codex and the clock leave alone, and what the scripts do.
LEMMA PassFootprint ==
    ASSUME BeginPass \/ BeginDryPass \/ PassStep
    PROVE  /\ UNCHANGED <<watcher, watchdog, marker, installer, triggered,
                          goalActive, turns, serverUp>>
           /\ UNCHANGED <<request, owed>> \/ RequestRestart
  BY Zenon
     DEF BeginPass, BeginDryPass, Begin, PassStep, Connect, TransportFails,
         CallFails, Observe, ObserveNothing, ObserveProgress,
         ObserveWithinWindow, ObserveStall, Read, FreshGone, FreshProgress,
         FreshOperation, FreshNoTurn, FreshStall, InterruptAnswered,
         InterruptFails, SaveInterrupt, EndObserving, hostVars, worldVars,
         budgetVars, ghostVars

LEMMA CodexFootprint ==
    ASSUME World \/ Tick
    PROVE  /\ UNCHANGED <<request, owed, watcher, watchdog, marker, installer,
                          triggered>>
           /\ UNCHANGED <<pc, dry, stalledFor, settledFor>>
  BY Zenon
     DEF World, TurnBegins, TurnProgresses, TurnHangs, TurnEnds, GoalChanges,
         ServerCrashes, Tick, hostVars, ghostVars, passVars

LEMMA ScriptFootprint ==
    ASSUME \/ WatcherDies \/ TaskTrigger \/ WatchdogStep \/ WatchdogDies
           \/ InstallerBegins \/ InstallerStep \/ InstallerFails
           \/ InstallerKilled
    PROVE  /\ UNCHANGED <<goalActive, turns>>
           /\ \/ /\ UNCHANGED <<observation, lag, quiet, thread>>
                 /\ ForgetPass \/ UNCHANGED <<passVars, moved>>
              \/ /\ ServerGone
                 /\ UNCHANGED <<pc, dry, passAge, stalledFor, settledFor>>
  BY Zenon
     DEF WatcherDies, TaskTrigger, WatchdogStep, WatchdogBegins,
         RemoveStaleMarker, StopAppServer, StartAppServer, MoveRequest,
         EnsureWatcher, WatchdogDies, InstallerBegins, InstallerStep,
         InstallerStopsTasks, StopTasks, InstallerStartsTasks, InstallerEnds,
         InstallerFails, InstallerKilled, StopWatcher, worldVars, budgetVars,
         ghostVars

\* The scripts.
LEMMA HostTypeStep ==
    ASSUME TypeInv, [Next]_vars
    PROVE  HostType'
  <1> USE DEF TypeInv
  <1>1. CASE BeginPass \/ BeginDryPass \/ PassStep
    <2>1. UNCHANGED <<watchdog, marker, installer, triggered>>
      BY <1>1, PassFootprint, Zenon
    <2>2. \/ UNCHANGED <<request, owed>>
          \/ request' = TRUE /\ owed' = (owed \/ ~request)
      BY <1>1, PassFootprint, Zenon DEF RequestRestart
    <2>3. request' \in BOOLEAN /\ owed' \in BOOLEAN
      BY <2>2 DEF HostType
    <2> QED BY <2>1, <2>3 DEF HostType
  <1>2. CASE World \/ Tick
    BY <1>2, CodexFootprint DEF HostType
  <1>3. CASE WatcherDies \/ TaskTrigger \/ EnsureWatcher \/ WatchdogDies
    BY <1>3 DEF WatcherDies, TaskTrigger, EnsureWatcher, WatchdogDies,
       StopWatcher, HostType, ghostVars
  <1>4. CASE WatchdogBegins \/ RemoveStaleMarker \/ StopAppServer
    BY <1>4 DEF WatchdogBegins, RemoveStaleMarker, StopAppServer, HostType,
       ghostVars
  <1>5. CASE StartAppServer \/ MoveRequest
    BY <1>5 DEF StartAppServer, MoveRequest, HostType, ghostVars
  <1>6. CASE InstallerBegins \/ InstallerStartsTasks \/ InstallerEnds
    BY <1>6 DEF InstallerBegins, InstallerStartsTasks, InstallerEnds,
       HostType, ghostVars
  <1>7. CASE InstallerStopsTasks
    BY <1>7 DEF InstallerStopsTasks, StopTasks, StopWatcher, HostType
  <1>8. CASE InstallerFails \/ InstallerKilled
    BY <1>8 DEF InstallerFails, InstallerKilled, HostType, ghostVars
  <1>9. CASE UNCHANGED vars
    BY <1>9 DEF HostType, vars, hostVars, ghostVars
  <1> QED
    BY <1>1, <1>2, <1>3, <1>4, <1>5, <1>6, <1>7, <1>8, <1>9, Zenon
       DEF Next, WatchdogStep, InstallerStep

\* The record: left alone, dropped, made anew, counted, or marked with an
\* interrupt; and it grows older.
LEMMA RecordDropped ==
    ASSUME DropObservation
    PROVE  RecordType'
  BY ObservationsLeft, AgeBounds DEF DropObservation, RecordType

LEMMA RecordMade ==
    ASSUME TypeInv, RecordProgress, thread' = thread, thread.active
    PROVE  RecordType'
  <1>1. passAge \in Ages
    BY DEF TypeInv, PassType
  <1>2. /\ observation' \in Observations /\ observation'.count = 1
        /\ lag' \in Ages
    BY <1>1, RecordedIs, Zenon DEF RecordProgress
  <1> QED BY <1>2 DEF RecordType

LEMMA RecordChanged ==
    ASSUME TypeInv, thread' = thread, lag' = lag,
           observation' \in Observations, observation.count > 0,
           observation'.count > 0
    PROVE  RecordType'
  BY DEF TypeInv, RecordType

LEMMA RecordKept ==
    ASSUME TypeInv, UNCHANGED <<observation, lag>>,
           thread' = thread \/ thread'.active
    PROVE  RecordType'
  BY DEF TypeInv, RecordType

LEMMA RecordTypeStep ==
    ASSUME TypeInv, [Next]_vars
    PROVE  RecordType'
  <1>1. CASE ObserveNothing \/ FreshGone
    BY <1>1, RecordDropped, Zenon DEF ObserveNothing, FreshGone
  <1>2. CASE ObserveProgress \/ FreshProgress
    BY <1>2, RecordMade, RecordKept, Zenon
       DEF ObserveProgress, FreshProgress, EndObserving, worldVars, Supervised
  <1>3. CASE ObserveWithinWindow \/ ObserveStall
    <2>1. /\ observation.count > 0 /\ UNCHANGED <<lag, thread>>
          /\ observation' = observation \/ observation' = Counted
      BY <1>3, Zenon DEF ObserveWithinWindow, ObserveStall, EndObserving,
         worldVars, ghostVars
    <2>2. Counted \in Observations /\ Counted.count = 2
      BY CountedIs, Zenon DEF Counted, TypeInv, RecordType
    <2>3. observation' \in Observations /\ observation'.count > 0
      BY <2>1, <2>2 DEF TypeInv, RecordType
    <2> QED BY <2>1, <2>3, RecordChanged, Zenon
  <1>4. CASE SaveInterrupt
    <2>1. UNCHANGED <<lag, thread>>
      BY <1>4, Zenon DEF SaveInterrupt, EndObserving, worldVars
    <2>2. CASE observation.count = 0
      BY <1>4, <2>1, <2>2, RecordKept, Zenon DEF SaveInterrupt
    <2>3. CASE observation.count # 0
      <3>1. observation.count > 0 /\ observation \in Observations
        BY <2>3, ObservationFields DEF TypeInv, RecordType
      <3>2. observation' = [observation EXCEPT !.settling = passAge]
        BY <1>4, <2>3, Zenon DEF SaveInterrupt
      <3>3. passAge \in Ages
        BY DEF TypeInv, PassType
      <3>4. observation' \in Observations
            /\ observation'.count = observation.count
        BY <3>1, <3>2, <3>3, SettlingIs, Zenon
      <3> QED BY <2>1, <3>1, <3>4, RecordChanged, Zenon
    <2> QED BY <2>2, <2>3, Zenon
  <1>5. CASE Tick
    <2>1. UNCHANGED <<lag, thread>>
      BY <1>5, Zenon DEF Tick, worldVars
    <2>2. CASE observation.count = 0
      BY <1>5, <2>1, <2>2, RecordKept, Zenon DEF Tick
    <2>3. CASE observation.count # 0
      <3>1. observation.count > 0 /\ observation \in Observations
        BY <2>3, ObservationFields DEF TypeInv, RecordType
      <3>2. observation' = [observation EXCEPT !.age = Older(@),
                                               !.settling = Older(@)]
        BY <1>5, <2>3, Zenon DEF Tick
      <3>3. observation' \in Observations
            /\ observation'.count = observation.count
        BY <3>1, <3>2, AgedIs, Zenon
      <3> QED BY <2>1, <3>1, <3>3, RecordChanged, Zenon
    <2> QED BY <2>2, <2>3, Zenon
  <1>6. CASE TurnBegins \/ TurnProgresses \/ TurnEnds \/ GoalChanges
             \/ ServerCrashes
    BY <1>6, RecordDropped, Zenon
       DEF TurnBegins, TurnProgresses, TurnEnds, GoalChanges, ServerCrashes,
           ServerGone, TurnGone
  <1>7. CASE TurnHangs
    <2>1. thread'.active
      BY <1>7 DEF TurnHangs, TypeInv, WorldType, ThreadStates
    <2> QED BY <1>7, <2>1, RecordKept, Zenon DEF TurnHangs, ghostVars
  <1>8. CASE InterruptAnswered
    BY <1>8, RecordDropped, RecordKept, Zenon DEF InterruptAnswered, TurnGone
  <1>9. CASE \/ BeginPass \/ BeginDryPass \/ Connect \/ TransportFails
             \/ CallFails \/ FreshOperation \/ FreshNoTurn \/ FreshStall
             \/ InterruptFails
    BY <1>9, RecordKept, Zenon
       DEF BeginPass, BeginDryPass, Begin, Connect, TransportFails, CallFails,
           FreshOperation, FreshNoTurn, FreshStall, InterruptFails,
           EndObserving, worldVars, ghostVars
  <1>10. CASE \/ WatcherDies \/ TaskTrigger \/ WatchdogStep \/ WatchdogDies
              \/ InstallerBegins \/ InstallerStep \/ InstallerFails
              \/ InstallerKilled
    BY <1>10, ScriptFootprint, RecordKept, RecordDropped, Zenon
       DEF ServerGone, TurnGone
  <1>11. CASE UNCHANGED vars
    BY <1>11, RecordKept, Zenon DEF vars, worldVars, ghostVars
  <1> QED
    BY <1>1, <1>2, <1>3, <1>4, <1>5, <1>6, <1>7, <1>8, <1>9, <1>10, <1>11,
       Zenon DEF Next, PassStep, Observe, Read, World

\* The pass and its process: a pass that has ended satisfies it, whatever
\* becomes of the watcher,
LEMMA PassForgotten ==
    ASSUME ForgetPass, watcher' \in BOOLEAN
    PROVE  PassType'
  BY AgeBounds DEF ForgetPass, PassType

\* ... and one that goes on as long as its watcher does.
LEMMA PassGoesOn ==
    ASSUME TypeInv, UNCHANGED <<pc, dry, watcher, stalledFor, settledFor>>,
           connected' \in BOOLEAN, sameTurn' \in BOOLEAN, moved' \in BOOLEAN,
           passAge' \in Ages
    PROVE  PassType'
  BY DEF TypeInv, PassType

LEMMA PassMoves ==
    ASSUME TypeInv,
           pc' \in {"connect", "observe", "fresh", "interrupt", "save"},
           pc # "idle", dry' = dry,
           dry = TRUE => pc' \in {"connect", "observe"},
           UNCHANGED <<watcher, stalledFor, settledFor, passAge>>,
           connected' \in BOOLEAN, sameTurn' \in BOOLEAN, moved' \in BOOLEAN
    PROVE  PassType'
  BY DEF TypeInv, PassType

LEMMA PassTypeStep ==
    ASSUME TypeInv, [Next]_vars
    PROVE  PassType'
  <1>1. /\ passAge \in Ages /\ watcher \in BOOLEAN /\ connected \in BOOLEAN
        /\ sameTurn \in BOOLEAN /\ moved \in BOOLEAN
        /\ observation.age \in Ages /\ observation.settling \in Ages
    BY ObservationFields, Zenon DEF TypeInv, PassType, RecordType
  <1>2. CASE BeginPass
    <2>1. /\ pc' = "connect" /\ dry' = FALSE /\ passAge' = 0
          /\ stalledFor' = observation.age
          /\ settledFor' = observation.settling
          /\ watcher /\ UNCHANGED <<watcher, connected, sameTurn, moved>>
      BY <1>2, Zenon DEF BeginPass, Begin, hostVars, ghostVars
    <2> QED BY <1>1, <2>1, AgeBounds DEF PassType
  <1>3. CASE BeginDryPass
    <2>1. /\ pc' = "connect" /\ dry' = TRUE /\ passAge' = 0
          /\ stalledFor' = observation.age
          /\ settledFor' = observation.settling
          /\ UNCHANGED <<watcher, connected, sameTurn, moved>>
      BY <1>3, Zenon DEF BeginDryPass, Begin, hostVars, ghostVars
    <2> QED BY <1>1, <2>1, AgeBounds DEF PassType
  <1>4. CASE Connect
    <2>1. /\ pc = "connect" /\ connected' = TRUE /\ pc' = "observe"
          /\ UNCHANGED <<dry, watcher, passAge, stalledFor, settledFor,
                         sameTurn, moved>>
      BY <1>4, Zenon DEF Connect, hostVars, ghostVars
    <2> QED BY <1>1, <2>1 DEF TypeInv, PassType
  <1>5. CASE ObserveStall
    <2>1. /\ pc = "observe" /\ pc' = "fresh" /\ dry = FALSE
          /\ UNCHANGED <<dry, watcher, connected, passAge, stalledFor,
                         settledFor, sameTurn, moved>>
      BY <1>5 DEF ObserveStall, InterruptDue, hostVars, ghostVars, TypeInv,
         PassType
    <2> QED BY <1>1, <2>1 DEF TypeInv, PassType
  <1>6. CASE FreshStall
    <2>1. /\ pc = "fresh" /\ pc' = "interrupt"
          /\ sameTurn' = TRUE /\ moved' = FALSE
          /\ UNCHANGED <<dry, watcher, connected, passAge, stalledFor,
                         settledFor>>
      BY <1>6, Zenon DEF FreshStall, hostVars
    <2> QED BY <1>1, <2>1 DEF TypeInv, PassType
  <1>7. CASE InterruptAnswered
    <2>1. /\ pc = "interrupt" /\ pc' = "save"
          /\ UNCHANGED <<dry, watcher, connected, passAge, stalledFor,
                         settledFor, moved>>
          /\ sameTurn' = sameTurn \/ sameTurn' = FALSE
      BY <1>7, Zenon DEF InterruptAnswered, TurnGone, hostVars
    <2> QED BY <1>1, <2>1 DEF TypeInv, PassType
  <1>8. CASE \/ TransportFails \/ CallFails \/ ObserveNothing
             \/ ObserveProgress \/ ObserveWithinWindow \/ FreshGone
             \/ FreshProgress \/ FreshOperation \/ FreshNoTurn
             \/ InterruptFails \/ SaveInterrupt
    <2>1. ForgetPass /\ watcher' = watcher
      BY <1>8, Zenon DEF TransportFails, CallFails, ObserveNothing,
         ObserveProgress, ObserveWithinWindow, FreshGone, FreshProgress,
         FreshOperation, FreshNoTurn, InterruptFails, SaveInterrupt,
         EndObserving, hostVars
    <2> QED BY <1>1, <2>1, PassForgotten
  <1>9. CASE World
    <2>1. /\ UNCHANGED <<watcher, pc, dry, stalledFor, settledFor>>
          /\ UNCHANGED passAge
          /\ connected' = connected \/ connected' = FALSE
          /\ sameTurn' = sameTurn \/ sameTurn' = FALSE
          /\ moved' = moved \/ moved' = TRUE
      BY <1>9, Zenon DEF World, TurnBegins, TurnProgresses, TurnHangs,
         TurnEnds, GoalChanges, ServerCrashes, ServerGone, TurnGone, hostVars,
         passVars, ghostVars
    <2> QED BY <1>1, <2>1, PassGoesOn
  <1>10. CASE Tick
    <2>1. /\ UNCHANGED <<watcher, pc, dry, stalledFor, settledFor, connected,
                         sameTurn, moved>>
          /\ passAge' = 0 \/ passAge' = Older(passAge)
      BY <1>10, Zenon DEF Tick, hostVars
    <2>2. passAge' \in Ages
      BY <1>1, <2>1, OlderIs, AgeBounds, Zenon
    <2> QED BY <1>1, <2>1, <2>2, PassGoesOn, Zenon
  <1>11. CASE WatcherDies \/ InstallerStopsTasks
    <2>1. \/ UNCHANGED <<watcher, passVars, moved>>
          \/ watcher' = FALSE /\ ForgetPass
          \/ watcher' = watcher /\ UNCHANGED <<passVars, moved>>
          \/ /\ watcher = FALSE /\ watcher' = FALSE
             /\ UNCHANGED <<passVars, moved>>
      BY <1>1, <1>11
         DEF WatcherDies, InstallerStopsTasks, StopTasks, StopWatcher
    <2>2. CASE ForgetPass /\ watcher' = FALSE
      BY <2>2, PassForgotten, Zenon
    <2>3. CASE UNCHANGED <<watcher, passVars, moved>>
      BY <1>1, <2>3, PassGoesOn DEF passVars
    <2> QED BY <2>1, <2>2, <2>3, Zenon
  <1>12. CASE TaskTrigger
    BY <1>12 DEF TaskTrigger, passVars, TypeInv, PassType
  <1>13. CASE EnsureWatcher \/ InstallerStartsTasks \/ InstallerFails
    <2>1. /\ UNCHANGED <<passVars, moved>>
          /\ watcher' = watcher \/ watcher' = (watcher \/ pc = "idle")
      BY <1>13, Zenon DEF EnsureWatcher, InstallerStartsTasks, InstallerFails,
         StartWatcher, ghostVars
    <2> QED BY <2>1 DEF passVars, TypeInv, PassType
  <1>14. CASE \/ WatchdogBegins \/ RemoveStaleMarker \/ StopAppServer
              \/ StartAppServer \/ MoveRequest \/ WatchdogDies
              \/ InstallerBegins \/ InstallerEnds \/ InstallerKilled
              \/ UNCHANGED vars
    <2>1. /\ UNCHANGED <<watcher, pc, dry, passAge, stalledFor, settledFor>>
          /\ connected' = connected \/ connected' = FALSE
          /\ sameTurn' = sameTurn \/ sameTurn' = FALSE
          /\ moved' = moved \/ moved' = TRUE
      BY <1>14, Zenon DEF WatchdogBegins, RemoveStaleMarker, StopAppServer,
         StartAppServer, MoveRequest, WatchdogDies, InstallerBegins,
         InstallerEnds, InstallerKilled, ServerGone, TurnGone, passVars,
         hostVars, ghostVars, vars
    <2> QED BY <1>1, <2>1, PassGoesOn
  <1> QED
    BY <1>2, <1>3, <1>4, <1>5, <1>6, <1>7, <1>8, <1>9, <1>10, <1>11, <1>12,
       <1>13, <1>14, Zenon
       DEF Next, PassStep, Observe, Read, WatchdogStep, InstallerStep

\* Clocks and budgets: how any step may change them.
LEMMA CountChanges ==
    ASSUME [Next]_vars
    PROVE  /\ quiet' = quiet \/ quiet' = 0 \/ quiet' = Older(quiet)
           /\ \/ sinceAck' = sinceAck \/ sinceAck' = Longest
              \/ sinceAck' = Older(sinceAck) \/ sinceAck' = passAge
           /\ turns' = turns \/ (turns < MaxTurns /\ turns' = turns + 1)
           /\ visits' = visits \/ (visits < MaxVisits /\ visits' = visits + 1)
           /\ faults' = faults \/ Fault
  <1> USE DEF Next, vars, budgetVars, ghostVars, BeginPass, BeginDryPass, Begin,
        PassStep, Connect, TransportFails, CallFails, Observe, ObserveNothing,
        ObserveProgress, ObserveWithinWindow, ObserveStall, Read, FreshGone,
        FreshProgress, FreshOperation, FreshNoTurn, FreshStall,
        InterruptAnswered, InterruptFails, SaveInterrupt, EndObserving,
        TurnGone, Tick, World, TurnBegins, TurnProgresses, TurnHangs, TurnEnds,
        GoalChanges, ServerCrashes, ServerGone, WatcherDies, TaskTrigger,
        WatchdogStep, WatchdogBegins, RemoveStaleMarker, StopAppServer,
        StartAppServer, MoveRequest, EnsureWatcher, WatchdogDies,
        InstallerBegins, InstallerStep, InstallerStopsTasks,
        InstallerStartsTasks, InstallerEnds, InstallerFails, InstallerKilled
  <1>1. quiet' = quiet \/ quiet' = 0 \/ quiet' = Older(quiet)
    BY Zenon
  <1>2. \/ sinceAck' = sinceAck \/ sinceAck' = Longest
        \/ sinceAck' = Older(sinceAck) \/ sinceAck' = passAge
    BY Zenon
  <1>3. turns' = turns \/ (turns < MaxTurns /\ turns' = turns + 1)
    BY Zenon
  <1>4. visits' = visits \/ (visits < MaxVisits /\ visits' = visits + 1)
    BY Zenon
  <1>5. faults' = faults \/ Fault
    BY Zenon
  <1> QED BY <1>1, <1>2, <1>3, <1>4, <1>5, Zenon

LEMMA CountTypeStep ==
    ASSUME TypeInv, [Next]_vars
    PROVE  CountType'
  <1>1. /\ passAge \in Ages /\ quiet \in Ages /\ sinceAck \in Ages
        /\ 0 \in Ages /\ Longest \in Ages
    BY AgeBounds, Zenon DEF TypeInv, PassType, CountType
  <1>2. quiet' \in Ages
    BY <1>1, CountChanges, OlderIs, Zenon
  <1>3. sinceAck' \in Ages
    BY <1>1, CountChanges, OlderIs, Zenon
  <1>4. turns' \in 0 .. MaxTurns
    BY CountChanges, StallAssumption DEF TypeInv, CountType
  <1>5. visits' \in 0 .. MaxVisits
    BY CountChanges, StallAssumption DEF TypeInv, CountType
  <1>6. faults' \in 0 .. MaxFaults
    BY CountChanges, StallAssumption DEF TypeInv, CountType, Fault
  <1> QED BY <1>2, <1>3, <1>4, <1>5, <1>6, Zenon DEF CountType

LEMMA TypeStep ==
    ASSUME TypeInv, [Next]_vars
    PROVE  TypeInv'
  BY WorldTypeStep, RecordTypeStep, PassTypeStep, HostTypeStep, CountTypeStep,
     Zenon DEF TypeInv

\* Type correctness, with what ties the parts together: only an active thread
\* has a turn and a record, a real pass runs only in the watcher, and a dry run
\* never gets as far as an interrupt (engine.py:1842-2003).
THEOREM TypeCorrect == Spec => []TypeOK
  <1>1. TypeInv /\ [Next]_vars => TypeInv'
    BY TypeStep, Zenon
  <1>2. TypeInv => TypeOK
    BY TypeParts, Zenon
  <1> QED BY TypeInit, <1>1, <1>2, PTL DEF Spec

-----------------------------------------------------------------------------
(* What makes RequestsServedBeforeRemoved inductive: from the stop of the  *)
(* App Server to the removal of the request the request stays, so that     *)
(* whoever asks again meanwhile finds it and leaves it alone.              *)

RestartInv ==
    watchdog \in {"stopped", "started"} => request = TRUE /\ owed = FALSE

\* The steps by what they do to the request: nothing,
LEMMA KeepStep ==
    ASSUME RestartInv, UNCHANGED <<request, owed>>,
           \/ watchdog' = watchdog
           \/ watchdog' \notin {"stopped", "started"}
           \/ watchdog = "stopped"
    PROVE  RestartInv'
  BY DEF RestartInv

\* ... or ask for a restart.
LEMMA AskStep ==
    ASSUME RestartInv, RequestRestart, watchdog' = watchdog
    PROVE  RestartInv' /\ request'
  <1>1. request' = TRUE /\ owed' = (owed \/ ~request)
    BY Zenon DEF RequestRestart
  <1>2. ASSUME watchdog' \in {"stopped", "started"} PROVE owed' = FALSE
    BY <1>1, <1>2, Zenon DEF RestartInv
  <1> QED BY <1>1, <1>2, Zenon DEF RestartInv

-----------------------------------------------------------------------------
LEMMA GuardianStep ==
    ASSUME RestartInv, BeginPass \/ BeginDryPass \/ PassStep
    PROVE  RestartInv' /\ (request => request')
  <1>1. CASE TransportFails \/ FreshNoTurn \/ InterruptFails
    <2>1. RequestRestart /\ watchdog' = watchdog
      BY <1>1, Zenon DEF TransportFails, FreshNoTurn, InterruptFails, hostVars
    <2> QED BY <2>1, AskStep, Zenon
  <1>2. CASE \/ BeginPass \/ BeginDryPass \/ Connect \/ CallFails
             \/ ObserveNothing \/ ObserveProgress \/ ObserveWithinWindow
             \/ ObserveStall \/ FreshGone \/ FreshProgress \/ FreshOperation
             \/ FreshStall \/ InterruptAnswered \/ SaveInterrupt
    <2>1. UNCHANGED <<request, owed, watchdog>>
      BY <1>2, Zenon DEF BeginPass, BeginDryPass, Begin, Connect, CallFails,
           ObserveNothing, ObserveProgress, ObserveWithinWindow, ObserveStall,
           FreshGone, FreshProgress, FreshOperation, FreshStall,
           InterruptAnswered, SaveInterrupt, EndObserving, hostVars, ghostVars
    <2> QED BY <2>1, KeepStep, Zenon
  <1> QED BY <1>1, <1>2, Zenon DEF PassStep, Observe, Read

LEMMA CodexStep ==
    ASSUME RestartInv, World \/ Tick
    PROVE  RestartInv' /\ (request => request')
  <1>1. UNCHANGED <<request, owed, watchdog>>
    BY Zenon DEF World, TurnBegins, TurnProgresses, TurnHangs, TurnEnds,
       GoalChanges, ServerCrashes, Tick, hostVars, ghostVars
  <1> QED BY <1>1, KeepStep, Zenon

LEMMA WatchdogRestarts ==
    ASSUME RestartInv, WatchdogStep \/ WatchdogDies
    PROVE  RestartInv' /\ (request /\ ~request' => ~owed)
  <1>1. CASE \/ WatchdogBegins \/ RemoveStaleMarker \/ StartAppServer
             \/ EnsureWatcher \/ WatchdogDies
    <2>1. UNCHANGED <<request, owed>>
      BY <1>1, Zenon DEF WatchdogBegins, RemoveStaleMarker, StartAppServer,
           EnsureWatcher, WatchdogDies, ghostVars
    <2>2. watchdog' \notin {"stopped", "started"} \/ watchdog = "stopped"
      BY <1>1 DEF WatchdogBegins, RemoveStaleMarker, StartAppServer,
           EnsureWatcher, WatchdogDies
    <2> QED BY <2>1, <2>2, KeepStep, Zenon
  <1>2. CASE StopAppServer
    <2>1. request /\ UNCHANGED request /\ owed' = FALSE
      BY <1>2, Zenon DEF StopAppServer
    <2> QED BY <2>1, Zenon DEF RestartInv
  <1>3. CASE MoveRequest
    <2>1. watchdog = "started" /\ watchdog' = "ensured"
      BY <1>3, Zenon DEF MoveRequest
    <2>2. owed = FALSE
      BY <2>1, Zenon DEF RestartInv
    <2>3. RestartInv'
      BY <2>1 DEF RestartInv
    <2> QED BY <2>2, <2>3, Zenon
  <1> QED BY <1>1, <1>2, <1>3, Zenon DEF WatchdogStep

LEMMA HostStep ==
    ASSUME RestartInv,
           \/ WatcherDies \/ TaskTrigger \/ InstallerBegins \/ InstallerStep
           \/ InstallerFails \/ InstallerKilled \/ UNCHANGED vars
    PROVE  RestartInv' /\ (request => request')
  <1>1. UNCHANGED <<request, owed>>
    BY Zenon DEF WatcherDies, TaskTrigger, InstallerBegins, InstallerStep,
       InstallerStopsTasks, InstallerStartsTasks, InstallerEnds,
       InstallerFails, InstallerKilled, vars, ghostVars
  <1>2. watchdog' = watchdog \/ watchdog' = "off"
    BY Zenon DEF WatcherDies, TaskTrigger, InstallerBegins, InstallerStep,
       InstallerStopsTasks, StopTasks, InstallerStartsTasks, InstallerEnds,
       InstallerFails, InstallerKilled, vars, hostVars
  <1>3. watchdog' = watchdog \/ watchdog' \notin {"stopped", "started"}
    BY <1>2
  <1> QED BY <1>1, <1>3, KeepStep, Zenon

\* The watchdog moves a request away only if it stopped the App Server after
\* the request was written, for every timeout and number of faults, and wherever
\* watcher, watchdog and installer are killed (watchdog-windows.ps1:189-196).
THEOREM RequestsServed == Spec => RequestsServedBeforeRemoved
  <1>1. Init => RestartInv
    BY DEF Init, RestartInv
  <1>2. ASSUME RestartInv, [Next]_vars
        PROVE  RestartInv' /\ (request /\ ~request' => ~owed)
    BY <1>2, GuardianStep, CodexStep, WatchdogRestarts, HostStep, Zenon DEF Next
  <1>3. RestartInv /\ [Next]_vars => [request /\ ~request' => ~owed]_vars
    BY <1>2, Zenon
  <1> QED BY <1>1, <1>2, <1>3, PTL DEF Spec, RequestsServedBeforeRemoved

-----------------------------------------------------------------------------
(* What makes NoOldWatcherDuringReplacement inductive: once the watchdog's   *)
(* task is stopped no other begins while the marker of the installer stands, *)
(* so that nobody but the task's own trigger starts a watcher.               *)

InstallerInv ==
    installer \in {"stopping", "replacing"} /\ marker = "live"
        => watchdog = "off"

OldWatcherInv == InstallerInv /\ NoOldWatcherDuringReplacement

LEMMA InstallerAlone ==
    ASSUME TypeInv, OldWatcherInv, [Next]_vars
    PROVE  OldWatcherInv'
  <1> USE DEF OldWatcherInv, InstallerInv, NoOldWatcherDuringReplacement
  <1>1. CASE BeginPass \/ BeginDryPass \/ PassStep
    BY <1>1, PassFootprint
  <1>2. CASE World \/ Tick
    BY <1>2, CodexFootprint
  <1>3. CASE WatcherDies
    BY <1>3 DEF WatcherDies, StopWatcher
  <1>4. CASE TaskTrigger
    BY <1>4 DEF TaskTrigger
  <1>5. CASE WatchdogBegins \/ RemoveStaleMarker \/ StopAppServer
             \/ StartAppServer \/ MoveRequest \/ WatchdogDies
    BY <1>5 DEF WatchdogBegins, MarkerOfLiveInstaller, RemoveStaleMarker,
       StopAppServer, StartAppServer, MoveRequest, WatchdogDies, ghostVars
  <1>6. CASE EnsureWatcher
    BY <1>6 DEF EnsureWatcher, ghostVars
  <1>7. CASE InstallerBegins \/ InstallerStartsTasks \/ InstallerEnds
             \/ InstallerFails \/ InstallerKilled
    BY <1>7 DEF InstallerBegins, InstallerStartsTasks, InstallerEnds,
       InstallerFails, InstallerKilled
  <1>8. CASE InstallerStopsTasks
    BY <1>8 DEF InstallerStopsTasks, StopTasks, StopWatcher
  <1>9. CASE UNCHANGED vars
    BY <1>9 DEF vars, hostVars, ghostVars
  <1> QED
    BY <1>1, <1>2, <1>3, <1>4, <1>5, <1>6, <1>7, <1>8, <1>9, Zenon
       DEF Next, WatchdogStep, InstallerStep

\* While the marker of the installer stands, the watchdog starts no watcher of
\* the runtime being replaced, however many scripts are killed on the way
\* (README.md:48-50).
THEOREM NoOldWatcher == Spec => []NoOldWatcherDuringReplacement
  <1>1. Init => OldWatcherInv
    BY DEF Init, OldWatcherInv, InstallerInv, NoOldWatcherDuringReplacement
  <1>2. TypeInv /\ OldWatcherInv /\ [Next]_vars => TypeInv' /\ OldWatcherInv'
    BY TypeStep, InstallerAlone, Zenon
  <1>3. OldWatcherInv => NoOldWatcherDuringReplacement
    BY Zenon DEF OldWatcherInv
  <1> QED BY TypeInit, <1>1, <1>2, <1>3, PTL DEF Spec

-----------------------------------------------------------------------------
(* What makes OnlyStalledTurnsInterrupted inductive.  The age a record shows *)
(* is owed to quiet but for the time the recording pass had run, and so is   *)
(* the age a pass took from it while the record stands; past the fresh read  *)
(* the timeout of the turn has been compared, unless the turn has moved.     *)

AgeInv == observation.age <= quiet + lag

SeenInv ==
    /\ pc \in {"connect", "observe", "fresh", "interrupt"}
    /\ observation.count > 0
    => stalledFor <= quiet + lag

DueInv ==
    pc \in {"fresh", "interrupt"}
        => stalledFor >= StallTimeout /\ settledFor >= SettlingTime

ReadInv ==
    pc = "interrupt" /\ moved = FALSE
        => observation.count > 0 /\ goalActive /\ stalledFor >= LimitOf(thread)

StallInv == AgeInv /\ SeenInv /\ DueInv /\ ReadInv

\* The times as numbers.
LEMMA Numbers ==
    ASSUME TypeInv
    PROVE  /\ observation.age \in Nat /\ observation.settling \in Nat
           /\ observation.count \in Nat /\ observation.count <= 2
           /\ observation.settling <= Longest
           /\ quiet \in Nat /\ lag \in Nat /\ sinceAck \in Nat
           /\ passAge \in Nat /\ stalledFor \in Nat /\ settledFor \in Nat
           /\ sinceAck <= Longest /\ settledFor <= Longest
           /\ passAge <= Longest /\ Longest \in Nat
  <1>1. /\ observation.age \in Ages /\ observation.settling \in Ages
        /\ observation.count \in 0 .. 2
    BY DEF TypeInv, RecordType, Observations
  <1>2. /\ quiet \in Ages /\ lag \in Ages /\ sinceAck \in Ages
        /\ passAge \in Ages /\ stalledFor \in Ages /\ settledFor \in Ages
    BY Zenon DEF TypeInv, CountType, RecordType, PassType
  <1>3. /\ observation.age \in Nat /\ observation.settling \in Nat
        /\ quiet \in Nat /\ lag \in Nat /\ sinceAck \in Nat
        /\ passAge \in Nat /\ stalledFor \in Nat /\ settledFor \in Nat
        /\ observation.settling <= Longest
        /\ sinceAck <= Longest /\ settledFor <= Longest
        /\ passAge <= Longest
    BY <1>1, <1>2, AgeBounds, Zenon
  <1> QED BY <1>1, <1>3, LongestBounds

LEMMA StallDropped ==
    ASSUME TypeInv', StallInv, DropObservation,
           moved' = TRUE \/ pc' # "interrupt",
           \/ UNCHANGED <<pc, stalledFor, settledFor>>
           \/ pc' \notin {"fresh", "interrupt"}
    PROVE  StallInv'
  <1>1. lag' = 0
    BY Zenon DEF DropObservation
  <1>2. observation'.count = 0 /\ observation'.age = 0
    BY ObservationsLeft, Zenon DEF DropObservation
  <1>3. AgeInv'
    <2>1. quiet' \in Nat
      BY AgeBounds DEF TypeInv, CountType
    <2>2. \A q \in Nat : 0 <= q + 0
      OBVIOUS
    <2> QED BY <1>1, <1>2, <2>1, <2>2, Zenon DEF AgeInv
  <1>4. SeenInv'
    <2>1. ~(observation'.count > 0)
      BY <1>2
    <2> QED BY <2>1 DEF SeenInv
  <1>5. DueInv'
    BY DEF StallInv, DueInv
  <1>6. ReadInv'
    BY DEF ReadInv
  <1> QED BY <1>3, <1>4, <1>5, <1>6, Zenon DEF StallInv

LEMMA StallEnded ==
    ASSUME pc' \in {"idle", "save"}, AgeInv'
    PROVE  StallInv'
  BY DEF StallInv, SeenInv, DueInv, ReadInv

LEMMA StallKept ==
    ASSUME StallInv, UNCHANGED <<observation, lag, quiet, thread, goalActive>>,
           \/ ForgetPass
           \/ UNCHANGED <<passVars, moved>>
    PROVE  StallInv'
  <1>1. CASE ForgetPass
    BY <1>1, StallEnded DEF ForgetPass, StallInv, AgeInv
  <1>2. CASE UNCHANGED <<passVars, moved>>
    BY <1>2 DEF passVars, StallInv, AgeInv, SeenInv, DueInv, ReadInv
  <1> QED BY <1>1, <1>2, Zenon

LEMMA StallStep ==
    ASSUME TypeInv, TypeInv', StallInv, [Next]_vars
    PROVE  StallInv'
  <1>1. CASE BeginPass \/ BeginDryPass
    <2>1. /\ pc' = "connect" /\ stalledFor' = observation.age
          /\ UNCHANGED <<observation, lag, quiet>>
      BY <1>1, Zenon DEF BeginPass, BeginDryPass, Begin, ghostVars
    <2> QED BY <2>1 DEF StallInv, AgeInv, SeenInv, DueInv, ReadInv
  <1>2. CASE Connect
    <2>1. /\ pc = "connect" /\ pc' = "observe"
          /\ UNCHANGED <<observation, lag, quiet, stalledFor>>
      BY <1>2, Zenon DEF Connect, ghostVars
    <2> QED BY <2>1 DEF StallInv, AgeInv, SeenInv, DueInv, ReadInv
  <1>3. CASE ObserveStall
    <2>1. /\ pc = "observe" /\ pc' = "fresh"
          /\ UNCHANGED <<lag, quiet, stalledFor, settledFor>>
          /\ observation.count > 0
          /\ observation' = Counted
          /\ Stalled /\ ~Settling
      BY <1>3, Zenon DEF ObserveStall, InterruptDue, ghostVars
    <2>2. observation'.age = observation.age
      BY <2>1, CountedIs, Zenon DEF Counted, TypeInv, RecordType
    <2>3. AgeInv'
      BY <2>1, <2>2 DEF StallInv, AgeInv
    <2>4. stalledFor <= quiet + lag
      BY <2>1 DEF StallInv, SeenInv
    <2>5. SeenInv'
      BY <2>1, <2>4 DEF SeenInv
    <2>6. DueInv'
      BY <2>1, Numbers, StallAssumption DEF DueInv, Stalled, Settling
    <2> QED BY <2>1, <2>3, <2>5, <2>6 DEF StallInv, ReadInv
  <1>4. CASE FreshStall
    <2>1. /\ pc = "fresh" /\ pc' = "interrupt"
          /\ UNCHANGED <<observation, lag, quiet, stalledFor, settledFor,
                         thread, goalActive>>
          /\ Supervised /\ ~ActivityChanged /\ ~OperationMayRun
      BY <1>4, Zenon DEF FreshStall, worldVars
    <2>2. observation.count > 0
      BY <2>1, Numbers DEF ActivityChanged
    <2>3. stalledFor >= LimitOf(thread)
      BY <2>1, Numbers, StallAssumption
         DEF LimitOf, OperationMayRun, StallInv, DueInv
    <2> QED BY <2>1, <2>2, <2>3
            DEF StallInv, AgeInv, SeenInv, DueInv, ReadInv, Supervised
  <1>5. CASE \/ TransportFails \/ CallFails \/ FreshOperation \/ FreshNoTurn
             \/ InterruptFails
    BY <1>5, StallKept, Zenon
       DEF TransportFails, CallFails, FreshOperation, FreshNoTurn,
           InterruptFails, EndObserving, worldVars
  <1>6. CASE ObserveNothing \/ FreshGone
    BY <1>6, StallDropped
       DEF ObserveNothing, FreshGone, EndObserving, ForgetPass
  <1>7. CASE ObserveProgress \/ FreshProgress
    <2>1. CASE RecordProgress /\ EndObserving
      <3>1. observation'.age = passAge /\ lag' = passAge /\ quiet' = quiet
        BY <2>1, RecordedIs, Zenon
           DEF RecordProgress, EndObserving, TypeInv, PassType
      <3>2. AgeInv'
        BY <3>1, Numbers DEF AgeInv
      <3> QED BY <2>1, <3>2, StallEnded DEF EndObserving, ForgetPass
    <2>2. CASE UNCHANGED <<observation, lag>> /\ EndObserving
      BY <2>2, StallKept, Zenon DEF EndObserving, worldVars
    <2> QED BY <1>7, <2>1, <2>2, Zenon DEF ObserveProgress, FreshProgress
  <1>8. CASE ObserveWithinWindow \/ SaveInterrupt
    <2>1. UNCHANGED <<lag, quiet>> /\ pc' = "idle"
      BY <1>8, Zenon DEF ObserveWithinWindow, SaveInterrupt, EndObserving,
         ForgetPass
    <2>2. \/ observation' = observation \/ observation' = Counted
          \/ observation' = [observation EXCEPT !.settling = passAge]
      BY <1>8, Zenon DEF ObserveWithinWindow, SaveInterrupt
    <2>3. observation'.age = observation.age
      <3>1. observation \in Observations /\ passAge \in Ages
        BY Zenon DEF TypeInv, RecordType, PassType
      <3>2. Counted.age = observation.age
        BY <3>1, CountedIs, Zenon DEF Counted
      <3>3. [observation EXCEPT !.settling = passAge].age = observation.age
        BY <3>1, SettlingIs, Zenon
      <3> QED BY <2>2, <3>2, <3>3, Zenon
    <2>4. AgeInv'
      BY <2>1, <2>3 DEF StallInv, AgeInv
    <2> QED BY <2>1, <2>4, StallEnded
  <1>9. CASE InterruptAnswered
    <2>1. CASE TurnGone
      BY <1>9, <2>1, StallDropped DEF InterruptAnswered, TurnGone
    <2>2. CASE UNCHANGED <<observation, lag, quiet>>
      BY <1>9, <2>2, StallEnded DEF InterruptAnswered, StallInv, AgeInv
    <2> QED BY <1>9, <2>1, <2>2, Zenon DEF InterruptAnswered
  <1>10. CASE TurnBegins \/ TurnProgresses \/ TurnEnds \/ GoalChanges
              \/ ServerCrashes
    <2>1. DropObservation /\ moved' = TRUE
      BY <1>10, Zenon DEF TurnBegins, TurnProgresses, TurnEnds, GoalChanges,
         ServerCrashes, ServerGone, TurnGone
    <2>2. UNCHANGED <<pc, stalledFor, settledFor>>
      BY <1>10, CodexFootprint, Zenon DEF World
    <2> QED BY <2>1, <2>2, StallDropped, Zenon
  <1>11. CASE TurnHangs
    <2>1. /\ UNCHANGED <<observation, lag, quiet, goalActive, pc, stalledFor,
                         settledFor, moved>>
          /\ thread' = [thread EXCEPT !.hung = TRUE]
      BY <1>11, Zenon DEF TurnHangs, passVars, ghostVars
    <2>2. thread'.operating = thread.operating
      BY <2>1 DEF TypeInv, WorldType, ThreadStates
    <2>3. LimitOf(thread') = LimitOf(thread)
      BY <2>2 DEF LimitOf
    <2> QED BY <2>1, <2>3 DEF StallInv, AgeInv, SeenInv, DueInv, ReadInv
  <1>12. CASE Tick
    <2>1. UNCHANGED <<lag, thread, goalActive, pc, stalledFor, settledFor,
                      moved>>
      BY <1>12, Zenon DEF Tick, worldVars
    <2>2. CASE observation.count = 0
      <3>1. observation' = NoObservation /\ lag' = 0
        BY <1>12, <2>2, Zenon DEF Tick, TypeInv, RecordType
      <3>2. DropObservation
        BY <3>1, Zenon DEF DropObservation
      <3>3. moved' = TRUE \/ pc' # "interrupt"
        BY <2>1, <2>2 DEF StallInv, ReadInv, TypeInv, PassType
      <3> QED BY <2>1, <3>2, <3>3, StallDropped, Zenon
    <2>3. CASE observation.count # 0
      <3>1. observation' = [observation EXCEPT !.age = Older(@),
                                               !.settling = Older(@)]
        BY <1>12, <2>3, Zenon DEF Tick
      <3>2. /\ observation'.count = observation.count
            /\ observation'.age = Older(observation.age)
        BY <3>1, AgedIs, Zenon DEF TypeInv, RecordType
      <3>3. thread.active
        BY <2>3, Numbers DEF TypeInv, RecordType
      <3>4. quiet' = Older(quiet)
        BY <1>12, <3>3, Zenon DEF Tick
      <3>5. /\ Older(quiet) = IF quiet = Longest THEN Longest ELSE quiet + 1
            /\ Older(observation.age) = IF observation.age = Longest
                                        THEN Longest ELSE observation.age + 1
        BY OlderIs, ObservationFields, Zenon
           DEF TypeInv, RecordType, CountType
      <3>6. /\ observation.age <= Longest /\ quiet <= Longest
        BY AgeBounds, ObservationFields
           DEF TypeInv, RecordType, CountType
      <3>7. AgeInv'
        BY <2>1, <3>2, <3>4, <3>5, <3>6, Numbers DEF StallInv, AgeInv
      <3>8. SeenInv'
        BY <2>1, <3>2, <3>4, <3>5, <3>6, Numbers DEF StallInv, SeenInv
      <3> QED BY <2>1, <3>2, <3>7, <3>8 DEF StallInv, DueInv, ReadInv
    <2> QED BY <2>2, <2>3, Zenon
  <1>13. CASE \/ WatcherDies \/ TaskTrigger \/ WatchdogStep \/ WatchdogDies
              \/ InstallerBegins \/ InstallerStep \/ InstallerFails
              \/ InstallerKilled
    <2>1. CASE ServerGone /\ UNCHANGED <<pc, dry, passAge, stalledFor,
                                         settledFor>>
      BY <2>1, StallDropped, Zenon DEF ServerGone, TurnGone
    <2> QED BY <1>13, <2>1, ScriptFootprint, StallKept, Zenon
  <1>14. CASE UNCHANGED vars
    BY <1>14, StallKept, Zenon DEF vars, worldVars, ghostVars
  <1> QED
    BY <1>1, <1>2, <1>3, <1>4, <1>5, <1>6, <1>7, <1>8, <1>9, <1>10, <1>11,
       <1>12, <1>13, <1>14, Zenon DEF Next, PassStep, Observe, Read, World

\* A turn that the pass has seen to the end of its fresh read is interrupted
\* only after the timeout that applies to it, short of the time the recording
\* pass had run, or if it moved after the fresh read, for every timeout and
\* wherever the pass, the watcher or the App Server fails (engine.py:1934-2003).
THEOREM StalledTurnsOnly == Spec => OnlyStalledTurnsInterrupted
  <1>1. Init => StallInv
    <2> SUFFICES ASSUME Init PROVE StallInv
      OBVIOUS
    <2>1. observation.age = 0 /\ quiet = 0 /\ lag = 0 /\ pc = "idle"
      BY ObservationsLeft, Zenon DEF Init
    <2> QED BY <2>1 DEF StallInv, AgeInv, SeenInv, DueInv, ReadInv
  <1>2. ASSUME TypeInv, StallInv, [Next]_vars
        PROVE  TypeInv' /\ StallInv'
    BY <1>2, TypeStep, StallStep, Zenon
  <1>3. ASSUME TypeInv, StallInv
        PROVE  pc = "interrupt" => moved \/ quiet + lag >= LimitOf(thread)
    <2> SUFFICES ASSUME pc = "interrupt", ~moved
                 PROVE  quiet + lag >= LimitOf(thread)
      OBVIOUS
    <2>1. moved = FALSE
      BY <1>3, Zenon DEF TypeInv, PassType
    <2>2. observation.count > 0 /\ stalledFor >= LimitOf(thread)
      BY <1>3, <2>1 DEF StallInv, ReadInv
    <2>3. stalledFor <= quiet + lag
      BY <1>3, <2>2 DEF StallInv, SeenInv
    <2>4. LimitOf(thread) \in Nat
      BY StallAssumption DEF LimitOf
    <2> QED BY <1>3, <2>2, <2>3, <2>4, Numbers
  <1>4. TypeInv /\ StallInv /\ [Next]_vars
        => [pc = "interrupt" /\ pc' = "save"
                => moved \/ quiet + lag >= LimitOf(thread)]_vars
    BY <1>3, Zenon
  <1> QED
    BY TypeInit, <1>1, <1>2, <1>4, PTL DEF Spec, OnlyStalledTurnsInterrupted

-----------------------------------------------------------------------------
(* What makes InterruptsSpaced inductive: a turn that has not moved since it *)
(* was interrupted has its record still and an active Goal; what the record  *)
(* shows of the interrupt, and what a pass took of it, is no longer ago than *)
(* the interrupt; and while the record of it is yet to be saved the pass is  *)
(* no older than that.                                                       *)

UnmovedInv == sinceAck < Longest => observation.count > 0 /\ goalActive

SavedInv == pc # "save" => observation.settling <= sinceAck

TakenInv == pc \notin {"idle", "save"} => settledFor <= sinceAck

SavingInv == pc = "save" => passAge <= sinceAck

SpacingInv == UnmovedInv /\ SavedInv /\ TakenInv /\ SavingInv

\* Nothing is owed to an interrupt once the turn has moved.
LEMMA SpacingReset ==
    ASSUME TypeInv', sinceAck' = Longest
    PROVE  SpacingInv'
  <1>1. /\ observation.settling' <= Longest /\ settledFor' <= Longest
        /\ passAge' <= Longest
    <2>1. /\ observation'.settling \in Ages /\ settledFor' \in Ages
          /\ passAge' \in Ages
      BY ObservationFields, Zenon DEF TypeInv, RecordType, PassType
    <2> QED BY <2>1, AgeBounds, Zenon
  <1>2. Longest \in Nat
    BY LongestBounds
  <1> QED
    BY <1>1, <1>2 DEF SpacingInv, UnmovedInv, SavedInv, TakenInv, SavingInv

\* A record goes, or is made anew, only when the turn has moved.
LEMMA UnmovedKeepsRecord ==
    ASSUME TypeInv, SpacingInv, ~Supervised \/ observation.count = 0
    PROVE  sinceAck = Longest
  <1>1. CASE observation.count = 0
    BY <1>1, Numbers DEF SpacingInv, UnmovedInv
  <1>2. CASE observation.count > 0
    BY <1>2, Numbers DEF SpacingInv, UnmovedInv, Supervised, TypeInv, RecordType
  <1> QED BY <1>1, <1>2, Numbers

LEMMA SpacingKept ==
    ASSUME SpacingInv, UNCHANGED <<observation, goalActive, sinceAck>>,
           \/ pc' = "idle" /\ pc # "save"
           \/ UNCHANGED <<pc, settledFor, passAge>>
           \/ /\ pc \notin {"idle", "save"} /\ pc' # "save"
              /\ UNCHANGED settledFor
    PROVE  SpacingInv'
  BY DEF SpacingInv, UnmovedInv, SavedInv, TakenInv, SavingInv

LEMMA SpacingStep ==
    ASSUME TypeInv, TypeInv', StallInv, SpacingInv, [Next]_vars
    PROVE  SpacingInv'
  <1>1. CASE BeginPass \/ BeginDryPass
    <2>1. /\ pc = "idle" /\ pc' = "connect"
          /\ settledFor' = observation.settling
          /\ UNCHANGED <<observation, goalActive, sinceAck>>
      BY <1>1, Zenon DEF BeginPass, BeginDryPass, Begin, ghostVars, worldVars
    <2> QED BY <2>1 DEF SpacingInv, UnmovedInv, SavedInv, TakenInv, SavingInv
  <1>2. CASE Connect \/ FreshStall
    <2>1. /\ pc \in {"connect", "fresh"} /\ pc' \in {"observe", "interrupt"}
          /\ UNCHANGED <<observation, goalActive, sinceAck, settledFor>>
      BY <1>2 DEF Connect, FreshStall, ghostVars, worldVars
    <2> QED BY <2>1, SpacingKept
  <1>3. CASE ObserveStall
    <2>1. /\ pc = "observe" /\ pc' = "fresh"
          /\ UNCHANGED <<settledFor, goalActive, sinceAck>>
          /\ observation.count > 0
          /\ observation' = Counted
      BY <1>3, Zenon DEF ObserveStall, ghostVars, worldVars
    <2>2. /\ observation'.settling = observation.settling
          /\ observation'.count = 2
      BY <2>1, CountedIs, Zenon DEF Counted, TypeInv, RecordType
    <2> QED
      BY <2>1, <2>2 DEF SpacingInv, UnmovedInv, SavedInv, TakenInv, SavingInv
  <1>4. CASE \/ TransportFails \/ CallFails \/ FreshOperation \/ FreshNoTurn
             \/ InterruptFails
    <2>1. /\ pc # "save" /\ pc' = "idle"
          /\ UNCHANGED <<observation, goalActive, sinceAck>>
      BY <1>4
         DEF TransportFails, Unreachable, CallFails, FreshOperation,
             FreshNoTurn, InterruptFails, EndObserving, ForgetPass, worldVars
    <2> QED BY <2>1, SpacingKept
  <1>5. CASE ObserveNothing \/ FreshGone \/ ObserveProgress \/ FreshProgress
    <2>1. ~Supervised \/ observation.count = 0
      BY <1>5, Zenon DEF ObserveNothing, FreshGone, ObserveProgress,
         FreshProgress, ActivityChanged
    <2>2. sinceAck' = Longest
      BY <1>5, <2>1, UnmovedKeepsRecord, Zenon
         DEF ObserveNothing, FreshGone, ObserveProgress, FreshProgress,
             EndObserving
    <2> QED BY <2>2, SpacingReset, Zenon
  <1>6. CASE ObserveWithinWindow
    <2>1. /\ pc = "observe" /\ pc' = "idle"
          /\ UNCHANGED <<goalActive, sinceAck>>
          /\ observation.count > 0
          /\ observation' = observation \/ observation' = Counted
      BY <1>6, Zenon DEF ObserveWithinWindow, EndObserving, ForgetPass,
         worldVars
    <2>2. Counted.settling = observation.settling /\ Counted.count = 2
      BY CountedIs, Zenon DEF Counted, TypeInv, RecordType
    <2>3. /\ observation'.settling = observation.settling
          /\ observation'.count > 0
      BY <2>1, <2>2
    <2> QED
      BY <2>1, <2>3 DEF SpacingInv, UnmovedInv, SavedInv, TakenInv, SavingInv
  <1>7. CASE SaveInterrupt
    <2>1. CASE observation.count = 0
      <3>1. sinceAck' = Longest
        BY <1>7, <2>1, UnmovedKeepsRecord, Zenon DEF SaveInterrupt, EndObserving
      <3> QED BY <3>1, SpacingReset, Zenon
    <2>2. CASE observation.count # 0
      <3>1. /\ pc = "save" /\ pc' = "idle"
            /\ UNCHANGED <<goalActive, sinceAck>>
            /\ observation' = [observation EXCEPT !.settling = passAge]
        BY <1>7, <2>2, Zenon DEF SaveInterrupt, EndObserving, ForgetPass,
           worldVars
      <3>2. /\ observation'.settling = passAge
            /\ observation'.count = observation.count
        BY <3>1, SettlingIs, Zenon DEF TypeInv, RecordType, PassType
      <3> QED
        BY <3>1, <3>2 DEF SpacingInv, UnmovedInv, SavedInv, TakenInv, SavingInv
    <2> QED BY <2>1, <2>2, Zenon
  <1>8. CASE InterruptAnswered
    <2>1. CASE sinceAck' = Longest
      BY <2>1, SpacingReset, Zenon
    <2>2. CASE /\ ~moved /\ sinceAck' = passAge
               /\ UNCHANGED <<observation, goalActive, passAge>>
      <3>1. pc = "interrupt" /\ pc' = "save" /\ moved = FALSE
        BY <1>8, <2>2, Zenon DEF InterruptAnswered, TypeInv, PassType
      <3>2. observation.count > 0 /\ goalActive
        BY <3>1 DEF StallInv, ReadInv
      <3>3. passAge \in Nat
        BY Numbers, Zenon
      <3> QED
        BY <2>2, <3>1, <3>2, <3>3
           DEF SpacingInv, UnmovedInv, SavedInv, TakenInv, SavingInv
    <2> QED BY <1>8, <2>1, <2>2, Zenon DEF InterruptAnswered, TurnGone
  <1>9. CASE TurnProgresses \/ TurnEnds \/ GoalChanges \/ ServerCrashes
    <2>1. sinceAck' = Longest
      BY <1>9, Zenon DEF TurnProgresses, TurnEnds, GoalChanges, ServerCrashes,
         ServerGone, TurnGone
    <2> QED BY <2>1, SpacingReset, Zenon
  <1>10. CASE TurnBegins
    <2>1. ~Supervised /\ sinceAck' = sinceAck
      BY <1>10, Zenon DEF TurnBegins, Supervised
    <2> QED BY <2>1, UnmovedKeepsRecord, SpacingReset, Zenon
  <1>11. CASE TurnHangs
    <2>1. UNCHANGED <<observation, goalActive, sinceAck, pc, settledFor,
                      passAge>>
      BY <1>11, Zenon DEF TurnHangs, passVars, ghostVars
    <2> QED BY <2>1, SpacingKept, Zenon
  <1>12. CASE Tick
    <2>1. CASE observation.count = 0
      <3>1. sinceAck = Longest
        BY <2>1, UnmovedKeepsRecord, Zenon
      <3>2. sinceAck' = Longest
        BY <1>12, <3>1, OlderIs, AgeBounds, Zenon DEF Tick
      <3> QED BY <3>2, SpacingReset, Zenon
    <2>2. CASE observation.count # 0
      <3>1. /\ observation' = [observation EXCEPT !.age = Older(@),
                                                  !.settling = Older(@)]
            /\ UNCHANGED <<goalActive, pc, settledFor>>
            /\ passAge' = IF pc = "idle" THEN 0 ELSE Older(passAge)
            /\ sinceAck' = Older(sinceAck)
        BY <1>12, <2>2, Zenon DEF Tick, worldVars
      <3>2. /\ observation'.count = observation.count
            /\ observation'.settling = Older(observation.settling)
        BY <3>1, AgedIs, Zenon DEF TypeInv, RecordType
      <3>3. /\ Older(sinceAck) = IF sinceAck = Longest
                                 THEN Longest ELSE sinceAck + 1
            /\ Older(passAge) = IF passAge = Longest
                                THEN Longest ELSE passAge + 1
            /\ Older(observation.settling) =
                   IF observation.settling = Longest
                   THEN Longest ELSE observation.settling + 1
        BY OlderIs, ObservationFields, Zenon
           DEF TypeInv, RecordType, CountType, PassType
      <3>4. UnmovedInv'
        BY <3>1, <3>2, <3>3, Numbers DEF SpacingInv, UnmovedInv
      <3>5. SavedInv'
        BY <3>1, <3>2, <3>3, Numbers DEF SpacingInv, SavedInv
      <3>6. TakenInv'
        BY <3>1, <3>3, Numbers DEF SpacingInv, TakenInv
      <3>7. SavingInv'
        BY <3>1, <3>3, Numbers DEF SpacingInv, SavingInv
      <3> QED BY <3>4, <3>5, <3>6, <3>7, Zenon DEF SpacingInv
    <2> QED BY <2>1, <2>2, Zenon
  <1>13. CASE WatcherDies \/ InstallerStopsTasks
    <2>1. /\ UNCHANGED <<observation, goalActive>>
          /\ sinceAck' = Longest \/ sinceAck' = sinceAck
      BY <1>13, Zenon DEF WatcherDies, InstallerStopsTasks, worldVars
    <2>2. CASE sinceAck' = Longest
      BY <2>2, SpacingReset, Zenon
    <2>3. CASE UNCHANGED <<pc, settledFor, passAge, sinceAck>>
      BY <2>1, <2>3, SpacingKept, Zenon
    <2>4. CASE pc' = "idle" /\ pc # "save" /\ sinceAck' = sinceAck
      BY <2>1, <2>4, SpacingKept, Zenon
    <2>5. \/ UNCHANGED <<pc, settledFor, passAge>>
          \/ pc' = "idle" /\ watcher' # watcher
      BY <1>13 DEF WatcherDies, InstallerStopsTasks, StopTasks, StopWatcher,
         ForgetPass, passVars, TypeInv, PassType
    <2>6. watcher' # watcher /\ pc = "save" => sinceAck' = Longest
      BY <1>13, Zenon DEF WatcherDies, InstallerStopsTasks
    <2> QED BY <2>1, <2>2, <2>3, <2>4, <2>5, <2>6, Zenon
  <1>14. CASE WatchdogStep
    <2>1. CASE StopAppServer
      <3>1. sinceAck' = Longest
        BY <2>1, Zenon DEF StopAppServer, ServerGone, TurnGone
      <3> QED BY <3>1, SpacingReset, Zenon
    <2>2. CASE \/ WatchdogBegins \/ RemoveStaleMarker \/ StartAppServer
               \/ MoveRequest \/ EnsureWatcher
      <3>1. UNCHANGED <<observation, goalActive, sinceAck, pc, settledFor,
                        passAge>>
        BY <2>2, Zenon DEF WatchdogBegins, RemoveStaleMarker, StartAppServer,
           MoveRequest, EnsureWatcher, passVars, worldVars, ghostVars
      <3> QED BY <3>1, SpacingKept, Zenon
    <2> QED BY <1>14, <2>1, <2>2, Zenon DEF WatchdogStep
  <1>15. CASE \/ TaskTrigger \/ WatchdogDies \/ InstallerBegins
              \/ InstallerStartsTasks \/ InstallerEnds \/ InstallerFails
              \/ InstallerKilled \/ UNCHANGED vars
    <2>1. UNCHANGED <<observation, goalActive, sinceAck, pc, settledFor,
                      passAge>>
      BY <1>15, Zenon DEF TaskTrigger, WatchdogDies, InstallerBegins,
         InstallerStartsTasks, InstallerEnds, InstallerFails, InstallerKilled,
         vars, passVars, worldVars, ghostVars
    <2> QED BY <2>1, SpacingKept, Zenon
  <1> QED
    BY <1>1, <1>2, <1>3, <1>4, <1>5, <1>6, <1>7, <1>8, <1>9, <1>10, <1>11,
       <1>12, <1>13, <1>14, <1>15, Zenon
       DEF Next, PassStep, Observe, Read, World, InstallerStep

\* An interrupt is not repeated on a turn that has not moved since the read
\* before the last one until that one's settling time has passed, for every
\* timeout and however many passes, crashes and installer runs come between,
\* unless a crash took the record of it (engine.py:1886-1900).
THEOREM InterruptsApart == Spec => InterruptsSpaced
  <1>1. Init => StallInv /\ SpacingInv
    <2> SUFFICES ASSUME Init PROVE StallInv /\ SpacingInv
      OBVIOUS
    <2>1. /\ observation.age = 0 /\ observation.settling = Longest
          /\ quiet = 0 /\ lag = 0 /\ pc = "idle" /\ sinceAck = Longest
      BY ObservationsLeft, Zenon DEF Init
    <2>2. StallInv
      BY <2>1 DEF StallInv, AgeInv, SeenInv, DueInv, ReadInv
    <2>3. SpacingInv
      BY <2>1, LongestBounds
         DEF SpacingInv, UnmovedInv, SavedInv, TakenInv, SavingInv
    <2> QED BY <2>2, <2>3, Zenon
  <1>2. ASSUME TypeInv, StallInv, SpacingInv, [Next]_vars
        PROVE  TypeInv' /\ StallInv' /\ SpacingInv'
    BY <1>2, TypeStep, StallStep, SpacingStep, Zenon
  <1>3. ASSUME TypeInv, StallInv, SpacingInv
        PROVE  pc = "interrupt" => sinceAck >= SettlingTime
    <2> SUFFICES ASSUME pc = "interrupt" PROVE sinceAck >= SettlingTime
      OBVIOUS
    <2>1. settledFor >= SettlingTime /\ settledFor <= sinceAck
      BY <1>3 DEF StallInv, DueInv, SpacingInv, TakenInv
    <2> QED BY <1>3, <2>1, Numbers, StallAssumption
  <1>4. TypeInv /\ StallInv /\ SpacingInv /\ [Next]_vars
        => [pc = "interrupt" /\ pc' = "save" => sinceAck >= SettlingTime]_vars
    BY <1>3, Zenon
  <1> QED BY TypeInit, <1>1, <1>2, <1>4, PTL DEF Spec, InterruptsSpaced
=============================================================================
