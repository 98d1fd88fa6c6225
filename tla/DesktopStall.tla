---------------------------- MODULE DesktopStall ----------------------------
(***************************************************************************)
(* A watched Desktop thread whose turn is active: the supervision that     *)
(* interrupts a turn without progress, the restart request it leaves when  *)
(* it cannot, the watchdog that serves the request, and the installer      *)
(* whose maintenance marker holds both back.                               *)
(*                                                                         *)
(* Time is counted in ticks and ages up to the longest timeout.  A record  *)
(* of another fingerprint than the current one is replaced just as if      *)
(* there were none, so a record is dropped when the activity changes.      *)
(* Observations are saved as soon as they change: one copy stands for the  *)
(* file's and the pass's.                                                  *)
(***************************************************************************)
EXTENDS Integers, FiniteSetsExt

CONSTANTS
    StallTimeout,      \* desktop_stall_timeout_seconds, in ticks
    OperationTimeout,  \* desktop_operation_stall_timeout_seconds, in ticks
    SettlingTime,      \* max(60, desktop_stall_timeout_seconds), in ticks
    MaxTurns,          \* bound on the turns of the thread
    MaxVisits,         \* bound on installer runs and passes by hand
    MaxFaults          \* bound on failed calls, kills and crashes

ASSUME StallAssumption ==
    /\ StallTimeout \in Nat \ {0}
    /\ OperationTimeout \in Nat /\ OperationTimeout >= StallTimeout
    /\ SettlingTime \in Nat /\ SettlingTime >= StallTimeout
    /\ MaxTurns \in Nat
    /\ MaxVisits \in Nat
    /\ MaxFaults \in Nat

Longest == Max({OperationTimeout, SettlingTime})
Ages == 0 .. Longest
Older(age) == Min({age + 1, Longest})

\* A record of desktop_active_observations with the current fingerprint: age is
\* the time since last_progress_at, count unchanged_observations up to two (none
\* without a record), settling the time since last_interrupt_at (Longest also
\* when there is none).
Observations == [age : Ages, count : 0 .. 2, settling : Ages]
NoObservation == [age |-> 0, count |-> 0, settling |-> Longest]

\* The thread: status active or not, a turn inProgress in its list or not,
\* whether that turn runs an operation, and whether it hangs.
ThreadStates ==
    [active : BOOLEAN, listed : BOOLEAN, operating : BOOLEAN, hung : BOOLEAN]
Idle ==
    [active |-> FALSE, listed |-> FALSE, operating |-> FALSE, hung |-> FALSE]

VARIABLES
    observation,  \* desktop_active_observations of the thread
    request,      \* app-server-restart.request exists
    pc,           \* where the Guardian pass stands
    dry,          \* dry_run of the pass: `run-once --dry-run`, not the watcher's
    connected,    \* the pass's connection leads to the running App Server
    passAge,      \* time since the pass took now
    stalledFor,   \* age of the observation at that time
    settledFor,   \* settling of the observation at that time
    sameTurn,     \* fresh_turn_id is still the turn in progress
    watcher,      \* the Desktop watcher process runs
    watchdog,     \* where the watchdog script stands
    marker,       \* maintenance.lock: none, of a live installer, of a dead one
    installer,    \* where the installer stands
    serverUp,     \* the shared App Server listens
    thread,       \* App Server: the thread
    goalActive,   \* App Server: its Goal is active
    turns,        \* used part of MaxTurns
    visits,       \* used part of MaxVisits
    faults,       \* used part of MaxFaults
    quiet,        \* ghost: time since the turn last made progress
    lag,          \* ghost: age of the pass that recorded the observation then
    moved,        \* ghost: there was progress since the pass's fresh read
    owed,         \* ghost: no restart has begun since the request was written
    sinceAck,     \* ghost: time since the pass began that interrupted the
                  \* unmoved turn (Longest also when there is none)
    triggered     \* ghost: the watcher was started by its task's own trigger

passVars == <<pc, dry, connected, passAge, stalledFor, settledFor,
              sameTurn>>
hostVars == <<watcher, watchdog, marker, installer>>
worldVars == <<serverUp, thread, goalActive>>
budgetVars == <<turns, visits, faults>>
ghostVars == <<quiet, lag, moved, owed, sinceAck, triggered>>

vars == <<observation, request, passVars, hostVars, worldVars, budgetVars,
          ghostVars>>

Fault ==
    /\ faults < MaxFaults
    /\ faults' = faults + 1

-----------------------------------------------------------------------------
Init ==
    /\ observation = NoObservation
    /\ request = FALSE
    /\ pc = "idle"
    /\ dry = FALSE
    /\ connected = FALSE
    /\ passAge = 0
    /\ stalledFor = 0
    /\ settledFor = 0
    /\ sameTurn = FALSE
    /\ watcher = TRUE
    /\ watchdog = "off"
    /\ marker = "none"
    /\ installer = "off"
    /\ serverUp = TRUE
    /\ thread = Idle
    /\ goalActive = TRUE
    /\ turns = 0
    /\ visits = 0
    /\ faults = 0
    /\ quiet = 0
    /\ lag = 0
    /\ moved = FALSE
    /\ owed = FALSE
    /\ sinceAck = Longest
    /\ triggered = FALSE

\* A pass ends, or its process does.
ForgetPass ==
    /\ pc' = "idle"
    /\ dry' = FALSE
    /\ connected' = FALSE
    /\ passAge' = 0
    /\ stalledFor' = 0
    /\ settledFor' = 0
    /\ sameTurn' = FALSE
    /\ moved' = FALSE

-----------------------------------------------------------------------------
(* The Guardian pass. *)

Begin(mode) ==
    /\ pc = "idle"
    /\ marker = "none"
    /\ pc' = "connect"
    /\ dry' = mode
    /\ passAge' = 0
    /\ stalledFor' = observation.age
    /\ settledFor' = observation.settling
    /\ UNCHANGED <<observation, request, connected, sameTurn, hostVars,
                   worldVars, turns, faults, ghostVars>>

\* _watch looks for the marker, then run_once takes the time.
BeginPass ==
    /\ watcher
    /\ Begin(FALSE)
    /\ UNCHANGED visits

\* `run-once --dry-run` does a single pass when no watcher holds the lease.
BeginDryPass ==
    /\ ~watcher
    /\ visits < MaxVisits
    /\ visits' = visits + 1
    /\ Begin(TRUE)

Connect ==
    /\ pc = "connect"
    /\ serverUp
    /\ connected' = TRUE
    /\ pc' = "observe"
    /\ UNCHANGED <<observation, request, dry, passAge, stalledFor, settledFor,
                   sameTurn, hostVars, worldVars, budgetVars, ghostVars>>

\* Variant: a request overwrites the one that is there.
RequestRestartAnew ==
    /\ request' = TRUE
    /\ owed' = TRUE

\* _request_app_server_restart leaves a request that is there alone.
RequestRestart ==
    /\ request' = TRUE
    /\ owed' = (owed \/ ~request)

\* The connection cannot be made, or the one there was is broken.
Unreachable ==
    \/ pc = "connect" /\ ~serverUp
    \/ pc \in {"observe", "fresh"} /\ ~connected

\* A transport failure asks for a restart, in a dry run too, and the pass ends.
TransportFails ==
    /\ \/ /\ Unreachable
          /\ UNCHANGED faults
       \/ /\ pc \in {"connect", "observe", "fresh"}
          /\ Fault
    /\ RequestRestart
    /\ ForgetPass
    /\ UNCHANGED <<observation, hostVars, worldVars, turns, visits, quiet, lag,
                   sinceAck, triggered>>

\* Any other failure ends the pass too: an error the App Server answers with,
\* or one that is not told from it, as when the upgrade is cut off.
CallFails ==
    /\ pc \in {"connect", "observe", "fresh"}
    /\ Fault
    /\ ForgetPass
    /\ UNCHANGED <<observation, request, hostVars, worldVars, turns, visits,
                   quiet, lag, owed, sinceAck, triggered>>

\* The pass ends having left observation' behind.
EndObserving ==
    /\ ForgetPass
    /\ UNCHANGED <<request, hostVars, worldVars, budgetVars, quiet, owed,
                   sinceAck, triggered>>

DropObservation ==
    /\ observation' = NoObservation
    /\ lag' = 0

Supervised == goalActive /\ thread.active

\* Neither an active thread nor an active Goal: the observation goes, in a
\* dry run too.
ObserveNothing ==
    /\ pc = "observe"
    /\ connected
    /\ ~Supervised
    /\ DropObservation
    /\ EndObserving

\* last_progress_at is the time the pass began.
RecordProgress ==
    /\ observation' =
           [NoObservation EXCEPT !.age = passAge, !.count = 1]
    /\ lag' = passAge

\* The first look at this activity, or there was progress since the last.
ObserveProgress ==
    /\ pc = "observe"
    /\ connected
    /\ Supervised
    /\ observation.count = 0
    /\ IF dry THEN UNCHANGED <<observation, lag>> ELSE RecordProgress
    /\ EndObserving

\* The first thread/read comes without turns, so an operation does not show
\* and the shorter timeout applies to this decision.  It is the second look at
\* least.
Stalled == stalledFor >= StallTimeout

\* Variant: an earlier interrupt is given no time.
NeverSettling == FALSE

Settling == settledFor < SettlingTime

\* Variant: a dry run interrupts too.
InterruptDueAnyway == Stalled /\ ~Settling

InterruptDue == Stalled /\ ~Settling /\ ~dry

Counted == [observation EXCEPT !.count = 2]

ObserveWithinWindow ==
    /\ pc = "observe"
    /\ connected
    /\ Supervised
    /\ observation.count > 0
    /\ ~InterruptDue
    /\ observation' = IF dry THEN observation ELSE Counted
    /\ UNCHANGED lag
    /\ EndObserving

ObserveStall ==
    /\ pc = "observe"
    /\ connected
    /\ Supervised
    /\ observation.count > 0
    /\ InterruptDue
    /\ observation' = Counted
    /\ pc' = "fresh"
    /\ UNCHANGED <<request, dry, connected, passAge, stalledFor, settledFor,
                   sameTurn, hostVars, worldVars, budgetVars, ghostVars>>

-----------------------------------------------------------------------------
(* The fresh read and the interrupt. *)

FreshGone ==
    /\ pc = "fresh"
    /\ connected
    /\ ~Supervised
    /\ DropObservation
    /\ EndObserving

\* Variant: the fingerprint of the fresh read is not compared.
NotCompared == FALSE

ActivityChanged == observation.count = 0

FreshProgress ==
    /\ pc = "fresh"
    /\ connected
    /\ Supervised
    /\ ActivityChanged
    /\ RecordProgress
    /\ EndObserving

OperationMayRun == thread.operating /\ stalledFor < OperationTimeout

FreshOperation ==
    /\ pc = "fresh"
    /\ connected
    /\ Supervised
    /\ ~ActivityChanged
    /\ OperationMayRun
    /\ UNCHANGED <<observation, lag>>
    /\ EndObserving

\* Active, but without a turn to interrupt.
FreshNoTurn ==
    /\ pc = "fresh"
    /\ connected
    /\ Supervised
    /\ ~ActivityChanged
    /\ ~thread.listed
    /\ RequestRestart
    /\ ForgetPass
    /\ UNCHANGED <<observation, hostVars, worldVars, budgetVars, quiet, lag,
                   sinceAck, triggered>>

FreshStall ==
    /\ pc = "fresh"
    /\ connected
    /\ Supervised
    /\ ~ActivityChanged
    /\ ~OperationMayRun
    /\ thread.listed
    /\ pc' = "interrupt"
    /\ sameTurn' = TRUE
    /\ moved' = FALSE
    /\ UNCHANGED <<observation, request, dry, connected, passAge, stalledFor,
                   settledFor, hostVars, worldVars, budgetVars, quiet, lag,
                   owed, sinceAck, triggered>>

\* The thread is idle again.
TurnGone ==
    /\ thread' = Idle
    /\ sameTurn' = FALSE
    /\ DropObservation
    /\ quiet' = 0
    /\ sinceAck' = Longest

\* turn/interrupt is answered, and the turn ends or, at fault, goes on.
InterruptAnswered ==
    /\ pc = "interrupt"
    /\ connected
    /\ sameTurn
    /\ \/ /\ TurnGone
          /\ UNCHANGED faults
       \/ /\ Fault
          /\ sinceAck' = IF moved THEN Longest ELSE passAge
          /\ UNCHANGED <<thread, sameTurn, observation, lag, quiet>>
    /\ pc' = "save"
    /\ UNCHANGED <<request, dry, connected, passAge, stalledFor, settledFor,
                   hostVars, serverUp, goalActive, turns, visits, moved,
                   owed, triggered>>

\* It fails: the connection is broken, the turn has ended, or at fault.
InterruptFails ==
    /\ pc = "interrupt"
    /\ \/ ~(connected /\ sameTurn) /\ UNCHANGED faults
       \/ Fault
    /\ RequestRestart
    /\ ForgetPass
    /\ UNCHANGED <<observation, hostVars, worldVars, turns, visits, quiet, lag,
                   sinceAck, triggered>>

\* last_interrupt_at is the time the pass began.
SaveInterrupt ==
    /\ pc = "save"
    /\ observation' =
           IF observation.count = 0 THEN observation
           ELSE [observation EXCEPT !.settling = passAge]
    /\ UNCHANGED lag
    /\ EndObserving

Read == \/ FreshGone
        \/ FreshProgress
        \/ FreshOperation
        \/ FreshNoTurn
        \/ FreshStall

Observe == \/ ObserveNothing
           \/ ObserveProgress
           \/ ObserveWithinWindow
           \/ ObserveStall

PassStep == \/ Connect
            \/ TransportFails
            \/ CallFails
            \/ Observe
            \/ Read
            \/ InterruptAnswered
            \/ InterruptFails
            \/ SaveInterrupt

-----------------------------------------------------------------------------
(* Codex: the App Server, its turns and the Goal. *)

TurnBegins ==
    /\ serverUp
    /\ ~thread.active
    /\ turns < MaxTurns
    /\ turns' = turns + 1
    /\ \E listed, operating \in BOOLEAN :
           /\ operating => listed
           /\ thread' = [active |-> TRUE, listed |-> listed,
                         operating |-> operating, hung |-> FALSE]
    /\ DropObservation
    /\ quiet' = 0
    /\ moved' = TRUE
    /\ UNCHANGED <<request, passVars, hostVars, serverUp, goalActive, visits,
                   faults, owed, sinceAck, triggered>>

TurnProgresses ==
    /\ thread.active /\ ~thread.hung
    /\ \E operating \in BOOLEAN :
           /\ operating => thread.listed
           /\ thread' = [thread EXCEPT !.operating = operating]
    /\ DropObservation
    /\ quiet' = 0
    /\ moved' = TRUE
    /\ sinceAck' = Longest
    /\ UNCHANGED <<request, passVars, hostVars, serverUp, goalActive,
                   budgetVars, owed, triggered>>

TurnHangs ==
    /\ thread.active
    /\ thread' = [thread EXCEPT !.hung = TRUE]
    /\ UNCHANGED <<observation, request, passVars, hostVars, serverUp,
                   goalActive, budgetVars, ghostVars>>

TurnEnds ==
    /\ thread.active /\ ~thread.hung
    /\ TurnGone
    /\ moved' = TRUE
    /\ UNCHANGED <<request, pc, dry, connected, passAge, stalledFor,
                   settledFor, hostVars, serverUp, goalActive, budgetVars,
                   owed, triggered>>

\* The Goal is paused or made active again.
GoalChanges ==
    /\ visits < MaxVisits
    /\ visits' = visits + 1
    /\ goalActive' = ~goalActive
    /\ DropObservation
    /\ moved' = TRUE
    /\ sinceAck' = Longest
    /\ UNCHANGED <<request, passVars, hostVars, serverUp, thread, turns,
                   faults, quiet, owed, triggered>>

\* The App Server goes down, with every connection and every turn.
ServerGone ==
    /\ serverUp' = FALSE
    /\ connected' = FALSE
    /\ TurnGone
    /\ moved' = TRUE

ServerCrashes ==
    /\ serverUp
    /\ Fault
    /\ ServerGone
    /\ UNCHANGED <<request, pc, dry, passAge, stalledFor, settledFor, hostVars,
                   goalActive, turns, visits, owed, triggered>>

Tick ==
    /\ observation' =
           IF observation.count = 0 THEN observation
           ELSE [observation EXCEPT !.age = Older(@), !.settling = Older(@)]
    /\ passAge' = IF pc = "idle" THEN 0 ELSE Older(passAge)
    /\ quiet' = IF thread.active THEN Older(quiet) ELSE 0
    /\ sinceAck' = Older(sinceAck)
    /\ UNCHANGED <<request, pc, dry, connected, stalledFor, settledFor,
                   sameTurn, hostVars, worldVars, budgetVars, lag, moved, owed,
                   triggered>>

World == \/ TurnBegins
         \/ TurnProgresses
         \/ TurnHangs
         \/ TurnEnds
         \/ GoalChanges
         \/ ServerCrashes

-----------------------------------------------------------------------------
(* The watcher's task. *)

\* A watcher that finds the lease taken leaves again.
StartWatcher == watcher' = (watcher \/ pc = "idle")

StopWatcher ==
    /\ watcher' = FALSE
    /\ triggered' = FALSE
    /\ IF watcher THEN ForgetPass ELSE UNCHANGED <<passVars, moved>>

WatcherDies ==
    /\ watcher
    /\ Fault
    /\ StopWatcher
    /\ sinceAck' = IF pc = "save" THEN Longest ELSE sinceAck
    /\ UNCHANGED <<observation, request, watchdog, marker, installer,
                   worldVars, turns, visits, quiet, lag, owed>>

\* The task has an interval trigger of its own.
TaskTrigger ==
    /\ ~watcher
    /\ pc = "idle"
    /\ watcher' = TRUE
    /\ triggered' = TRUE
    /\ UNCHANGED <<observation, request, passVars, watchdog, marker, installer,
                   worldVars, budgetVars, quiet, lag, moved, owed, sinceAck>>

-----------------------------------------------------------------------------
(* The watchdog script. *)

\* Variant: a marker holds the watchdog back whosever it is.
MarkerHolds == marker # "none"

MarkerOfLiveInstaller == marker = "live"

WatchdogBegins ==
    /\ watchdog = "off"
    /\ ~MarkerOfLiveInstaller
    /\ watchdog' = IF marker = "none" THEN "checked" ELSE "stale"
    /\ UNCHANGED <<observation, request, passVars, watcher, marker, installer,
                   worldVars, budgetVars, ghostVars>>

\* The marker is removed without another look.
RemoveStaleMarker ==
    /\ watchdog = "stale"
    /\ marker' = "none"
    /\ watchdog' = "checked"
    /\ UNCHANGED <<observation, request, passVars, watcher, installer,
                   worldVars, budgetVars, ghostVars>>

StopAppServer ==
    /\ watchdog = "checked"
    /\ request
    /\ watchdog' = "stopped"
    /\ ServerGone
    /\ owed' = FALSE
    /\ UNCHANGED <<request, pc, dry, passAge, stalledFor, settledFor, watcher,
                   marker, installer, goalActive, budgetVars, triggered>>

StartAppServer ==
    /\ \/ watchdog = "stopped" /\ watchdog' = "started"
       \/ watchdog = "checked" /\ ~request /\ watchdog' = "ensured"
    /\ serverUp' = TRUE
    /\ UNCHANGED <<observation, request, passVars, watcher, marker, installer,
                   thread, goalActive, budgetVars, ghostVars>>

MoveRequest ==
    /\ watchdog = "started"
    /\ request' = FALSE
    /\ watchdog' = "ensured"
    /\ UNCHANGED <<observation, passVars, watcher, marker, installer,
                   worldVars, budgetVars, ghostVars>>

EnsureWatcher ==
    /\ watchdog = "ensured"
    /\ StartWatcher
    /\ watchdog' = "off"
    /\ UNCHANGED <<observation, request, passVars, marker, installer,
                   worldVars, budgetVars, ghostVars>>

WatchdogStep == \/ WatchdogBegins
                \/ RemoveStaleMarker
                \/ StopAppServer
                \/ StartAppServer
                \/ MoveRequest
                \/ EnsureWatcher

\* A step of the script throws, or its task reaches the time limit.
WatchdogDies ==
    /\ watchdog # "off"
    /\ Fault
    /\ watchdog' = "off"
    /\ UNCHANGED <<observation, request, passVars, watcher, marker, installer,
                   worldVars, turns, visits, ghostVars>>

-----------------------------------------------------------------------------
(* The installer. *)

InstallerBegins ==
    /\ installer = "off"
    /\ visits < MaxVisits
    /\ visits' = visits + 1
    /\ installer' = "draining"
    /\ marker' = "live"
    /\ UNCHANGED <<observation, request, passVars, watcher, watchdog,
                   worldVars, turns, faults, ghostVars>>

\* Variant: the watcher's task is stopped before the watchdog's.
StopWatcherFirst ==
    \/ /\ installer = "draining"
       /\ installer' = "stopping"
       /\ UNCHANGED watchdog
       /\ StopWatcher
    \/ /\ installer = "stopping"
       /\ installer' = "replacing"
       /\ watchdog' = "off"
       /\ UNCHANGED <<watcher, triggered, passVars, moved>>

\* Once nothing spawned by recovery runs, the tasks are stopped in order.  A
\* pass over the shared App Server has spawned nothing and is not waited for.
StopTasks ==
    \/ /\ installer = "draining"
       /\ installer' = "stopping"
       /\ watchdog' = "off"
       /\ UNCHANGED <<watcher, triggered, passVars, moved>>
    \/ /\ installer = "stopping"
       /\ installer' = "replacing"
       /\ UNCHANGED watchdog
       /\ StopWatcher

InstallerStopsTasks ==
    /\ StopTasks
    /\ sinceAck' = IF watcher' # watcher /\ pc = "save"
                   THEN Longest ELSE sinceAck
    /\ UNCHANGED <<observation, request, marker, worldVars, budgetVars, quiet,
                   lag, owed>>

\* The new runtime is there; the App Server and the watcher are started.
InstallerStartsTasks ==
    /\ installer = "replacing"
    /\ installer' = "started"
    /\ serverUp' = TRUE
    /\ StartWatcher
    /\ UNCHANGED <<observation, request, passVars, watchdog, marker, thread,
                   goalActive, budgetVars, ghostVars>>

InstallerEnds ==
    /\ installer = "started"
    /\ installer' = "off"
    /\ marker' = "none"
    /\ UNCHANGED <<observation, request, passVars, watcher, watchdog,
                   worldVars, budgetVars, ghostVars>>

\* Its trap: the marker goes and the tasks it has stopped are started.
InstallerFails ==
    /\ installer # "off"
    /\ Fault
    /\ installer' = "off"
    /\ marker' = "none"
    /\ IF installer = "draining" THEN UNCHANGED watcher ELSE StartWatcher
    /\ UNCHANGED <<observation, request, passVars, watchdog, worldVars, turns,
                   visits, ghostVars>>

InstallerKilled ==
    /\ installer # "off"
    /\ Fault
    /\ installer' = "off"
    /\ marker' = IF marker = "live" THEN "stale" ELSE marker
    /\ UNCHANGED <<observation, request, passVars, watcher, watchdog,
                   worldVars, turns, visits, ghostVars>>

InstallerStep == \/ InstallerStopsTasks
                 \/ InstallerStartsTasks
                 \/ InstallerEnds

-----------------------------------------------------------------------------
Next == \/ BeginPass
        \/ BeginDryPass
        \/ PassStep
        \/ World
        \/ Tick
        \/ WatcherDies
        \/ TaskTrigger
        \/ WatchdogStep
        \/ WatchdogDies
        \/ InstallerBegins
        \/ InstallerStep
        \/ InstallerFails
        \/ InstallerKilled

Spec == Init /\ [][Next]_vars

\* The watcher loops; a process that has begun goes on; the watchdog's task is
\* triggered every minute, and time passes.
Fairness ==
    /\ SF_vars(BeginPass)
    /\ WF_vars(PassStep)
    /\ WF_vars(Tick)
    /\ WF_vars(WatchdogStep)
    /\ WF_vars(InstallerStep)

FairSpec == Spec /\ Fairness

-----------------------------------------------------------------------------
(* Properties. *)

TypeOK ==
    /\ observation \in Observations
    /\ request \in BOOLEAN /\ owed \in BOOLEAN
    /\ pc \in {"idle", "connect", "observe", "fresh", "interrupt", "save"}
    /\ dry \in BOOLEAN /\ connected \in BOOLEAN /\ sameTurn \in BOOLEAN
    /\ {passAge, stalledFor, settledFor, quiet, lag, sinceAck} \subseteq Ages
    /\ watcher \in BOOLEAN /\ triggered \in BOOLEAN /\ moved \in BOOLEAN
    /\ watchdog \in {"off", "stale", "checked", "stopped", "started", "ensured"}
    /\ marker \in {"none", "live", "stale"}
    /\ installer \in {"off", "draining", "stopping", "replacing", "started"}
    /\ serverUp \in BOOLEAN /\ goalActive \in BOOLEAN
    /\ thread \in ThreadStates
    /\ turns \in 0 .. MaxTurns
    /\ visits \in 0 .. MaxVisits
    /\ faults \in 0 .. MaxFaults
    \* Only an active thread has a turn, and only a listed turn an operation.
    /\ ~thread.active => thread = Idle
    /\ thread.operating => thread.listed
    /\ thread.active => serverUp
    \* A pass runs in the watcher or by hand, and only a real one interrupts.
    /\ pc # "idle" /\ ~dry => watcher
    /\ dry => pc \in {"connect", "observe"}
    \* A record is current only while there is a turn, and empty without one.
    /\ observation.count > 0 => thread.active
    /\ observation.count = 0 => observation = NoObservation /\ lag = 0

LimitOf(turn) == IF turn.operating THEN OperationTimeout ELSE StallTimeout

\* A turn that the pass has seen to the end of its fresh read is interrupted
\* only after the timeout that applies to it (engine.py:1934-2003), short of
\* the time the recording pass had run, or if it moved after the fresh read.
OnlyStalledTurnsInterrupted ==
    [][pc = "interrupt" /\ pc' = "save"
           => moved \/ quiet + lag >= LimitOf(thread)]_vars

\* An interrupt is not repeated on a turn that has not moved since the read
\* before the last one until that one's settling time has passed
\* (engine.py:1886-1900), however the passes are spread and restarted, unless a
\* crash took the record of it.  Only an interrupt that was acknowledged counts:
\* after one that failed or timed out a restart is requested instead (2041-2074)
\* and the next may follow at once.
InterruptsSpaced ==
    [][pc = "interrupt" /\ pc' = "save" => sinceAck >= SettlingTime]_vars

\* The watchdog moves a request away only if it stopped the App Server after
\* the request was written (watchdog-windows.ps1:189-196): a request made while
\* it works is either the one it serves or stays for its next run.
RequestsServedBeforeRemoved == [][request /\ ~request' => ~owed]_vars

\* While the marker of the installer stands, the watchdog starts no watcher of
\* the runtime being replaced (README.md:48-50): one is there only if the
\* task's own trigger started it.
NoOldWatcherDuringReplacement ==
    installer = "replacing" /\ marker = "live" /\ watcher => triggered

\* A hung turn of an active Goal does not stay: it is interrupted, or the App
\* Server restarted, through failed calls, crashes, installer runs and markers
\* left behind (README.md:88-93).
HungTurnsResolved ==
    thread.hung /\ goalActive ~> ~thread.hung \/ ~goalActive
=============================================================================
