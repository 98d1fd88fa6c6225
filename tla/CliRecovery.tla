---------------------------- MODULE CliRecovery ----------------------------
(***************************************************************************)
(* One cli_turn target of RecoveryEngine.run_once: the health transition,  *)
(* the arming of a recovery, the pass of _recover_target over the threads  *)
(* of an isolated App Server, and the crash or failed call that may cut    *)
(* the pass at any step.  The pass runs while users, the Codex CLI and the *)
(* network go on, so every value it read may be stale when it is used.     *)
(*                                                                         *)
(* disk is what StateStore.save last wrote for the target, mem the copy    *)
(* the running pass works on.  The pass holds the state lock throughout,   *)
(* so one pass is active at a time.                                        *)
(***************************************************************************)
EXTENDS HealthTransition, RecoveryLedger

CONSTANTS
    AllowedThreads,     \* threads whose source is in allowed_sources
    StartModes,         \* values target.start_recovery_turn may have
    CapacityEnabled,    \* model_capacity_fallback_models is not empty
    PassModes,          \* the dry_run values passes are started with
    OrphanTurns,        \* an App Server may die under a turn
    InheritedActions,   \* records an older version may have left behind
    MaxUnhealthy,       \* bound on consecutive_unhealthy
    MaxDisturbances,    \* bound on what users and the clock do to threads
    MaxFaults           \* bound on failed calls and crashes

ASSUME AllowedThreadsAssumption == AllowedThreads \subseteq Threads
ASSUME FlagsAssumption ==
    /\ StartModes \subseteq BOOLEAN
    /\ CapacityEnabled \in BOOLEAN
    /\ OrphanTurns \in BOOLEAN
    /\ PassModes \subseteq BOOLEAN
ASSUME InheritedActionsAssumption == InheritedActions \subseteq RecordActions
ASSUME BoundsAssumption ==
    /\ MaxUnhealthy \in Nat
    /\ MaxDisturbances \in Nat
    /\ MaxFaults \in Nat

None == "none"

\* How the last turn of a thread stands, as far as thread_eligibility tells:
\* "networkFailure" is failed or interrupted with a network error, "otherEnd"
\* every other end (completed, another error, a prompt policy rejection).
TurnStates == {"none", "inProgress", "networkFailure", "otherEnd"}

\* What read_thread returns: status "active" or one of idle, systemError and
\* notLoaded; the last turn; older than max_thread_age_seconds or not.
ThreadViews ==
    [active : BOOLEAN, last : TurnStates, stale : BOOLEAN]

NewThread == [active |-> FALSE, last |-> "none", stale |-> FALSE]
RunningThread == [active |-> TRUE, last |-> "inProgress", stale |-> FALSE]

PassPoints ==
    {"capacity", "arm", "claim", "next", "goal", "resume", "resumed",
     "reread", "regoal", "start", "started", "settle", "settleGoal"}

VARIABLES
    startTurns,   \* target.start_recovery_turn, fixed by the configuration
    disk,         \* persisted target record
    mem,          \* the pass's copy of it
    pc,           \* where the pass stands
    dry,          \* dry_run of the pass
    recoverNow,   \* transition.recover_now of the pass
    todo,         \* summaries not visited yet
    cur,          \* thread being visited
    view,         \* last read_thread of cur
    hadError,     \* had_error
    waiting,      \* recovery_waiting
    idleSeen,     \* idle_observations of _wait_until_settled
    thread,       \* App Server: state of each thread
    goalActive,   \* App Server: threads whose Goal is active
    netUp,        \* the health probe would succeed
    cliUp,        \* a Codex CLI process of the target runs
    disturbances, \* used part of MaxDisturbances
    faults,       \* used part of MaxFaults
    closed,       \* ghost: generations whose recovery completed
    starts,       \* ghost: turn/start per thread in this generation
    mishaps,      \* ghost: supervisions of such a turn that were cut off
    begun,        \* ghost: turn begun on cur since the last read_thread
    woken         \* ghost: threads whose last turn this pass's resume woke

passVars == <<dry, recoverNow, todo, cur, view, hadError, waiting, idleSeen>>
worldVars == <<startTurns, thread, goalActive, netUp, cliUp>>
budgetVars == <<disturbances, faults>>
ghostVars == <<closed, starts, mishaps, begun, woken>>

vars == <<disk, mem, pc, passVars, worldVars, budgetVars, ghostVars>>

-----------------------------------------------------------------------------
(* The target record. *)

Targets ==
    [health : Healths,
     consecutive_healthy : 0 .. RequiredSuccesses,
     consecutive_unhealthy : 0 .. MaxUnhealthy,
     outage_generation : Generations,
     recovery_pending : BOOLEAN,
     recovered : Ledgers]

FreshTarget ==
    [health |-> FreshHealth.health,
     consecutive_healthy |-> FreshHealth.consecutive_healthy,
     consecutive_unhealthy |-> FreshHealth.consecutive_unhealthy,
     outage_generation |-> FreshHealth.outage_generation,
     recovery_pending |-> FreshHealth.recovery_pending,
     recovered |-> EmptyLedger]

\* What an older version left behind after one outage: it took records for
\* final that are staged today.
InheritedTarget(records) ==
    [FreshTarget EXCEPT
        !.health = "up",
        !.consecutive_healthy = RequiredSuccesses,
        !.outage_generation = 1,
        !.recovered = [EmptyLedger EXCEPT ![1] = records]]

Record(t) == mem.recovered[mem.outage_generation][t]

\* _has_staged_recovery
HasStaged(r) == StagedThreads(r.recovered, r.outage_generation) # {}

\* The record still asks some later pass to recover.
Owed(r) ==
    \/ r.recovery_pending
    \/ startTurns /\ HasStaged(r)

\* Variant for the runs' fault checks: a completed turn is not final.
TerminalButTurns(action) ==
    \/ action \in TerminalActions \ {"turn_completed"}
    \/ action \in StagedActions /\ ~startTurns

\* "terminal" in the loop of _recover_target.
Terminal(action) ==
    \/ action \in TerminalActions
    \/ action \in StagedActions /\ ~startTurns

Marked(r, t, action) ==
    [r EXCEPT !.recovered =
        MarkRecovered(@, r.outage_generation, t, action)]

\* mark_recovered followed by store.save.
Mark(t, action) ==
    /\ mem' = Marked(mem, t, action)
    /\ disk' = Marked(mem, t, action)

-----------------------------------------------------------------------------
(* thread_eligibility, its checks in the order of the code. *)

Reason(t, seen, active, already_recovered) ==
    IF already_recovered THEN "already_recovered"
    ELSE IF ~active THEN "goal_changed"
    ELSE IF seen.stale THEN "thread_stale"
    ELSE IF seen.active THEN "thread_active"
    ELSE IF t \notin AllowedThreads THEN "source"
    ELSE IF seen.last = "none" THEN "turn_missing"
    ELSE IF seen.last = "inProgress" THEN "turn_in_progress"
    ELSE IF seen.last = "otherEnd" THEN "turn_not_network_failure"
    ELSE "eligible"

\* _is_safety_rejection
SafetyRejection(reason) == reason \in {"source", "turn_not_network_failure"}

\* _WAITING_RECOVERY_REASONS
WaitingReasons == {"thread_active", "turn_in_progress"}

-----------------------------------------------------------------------------
Quiet ==
    /\ pc = "idle"
    /\ dry = FALSE
    /\ recoverNow = FALSE
    /\ todo = {}
    /\ cur = None
    /\ view = NewThread
    /\ hadError = FALSE
    /\ waiting = FALSE
    /\ idleSeen = 0

Init ==
    /\ startTurns \in StartModes
    /\ thread \in [Threads -> {NewThread, RunningThread}]
    /\ \/ disk = FreshTarget /\ closed = {}
       \/ \E records \in [Threads -> InheritedActions] :
            /\ MaxOutages > 0
            /\ \A t \in Threads : records[t] # "none" => thread[t] # NewThread
            /\ disk = InheritedTarget(records)
            /\ closed = IF Owed(disk) THEN {} ELSE {1}
    /\ mem = disk
    /\ Quiet
    /\ goalActive = Threads
    /\ netUp = TRUE
    /\ cliUp = FALSE
    /\ disturbances = 0
    /\ faults = 0
    /\ starts = [t \in Threads |-> 0]
    /\ mishaps = [t \in Threads |-> 0]
    /\ begun = FALSE
    /\ woken = {}

-----------------------------------------------------------------------------
(* The start of run_once: the probe, then the record under the lock. *)

ForgetPass ==
    /\ pc' = "idle"
    /\ dry' = FALSE
    /\ recoverNow' = FALSE
    /\ todo' = {}
    /\ cur' = None
    /\ view' = NewThread
    /\ hadError' = FALSE
    /\ waiting' = FALSE
    /\ idleSeen' = 0
    /\ begun' = FALSE
    /\ woken' = {}

\* The probe fails: the transition is saved and the pass is over.
UnhealthyPass ==
    /\ pc = "idle"
    /\ ~netUp
    /\ disk.consecutive_unhealthy < MaxUnhealthy
    /\ OutageDeclared(disk) => disk.outage_generation < MaxOutages
    /\ disk' = ProbeFailed(disk)
    /\ mem' = ProbeFailed(disk)
    /\ starts' = IF OutageDeclared(disk)
                 THEN [t \in Threads |-> 0] ELSE starts
    /\ mishaps' = IF OutageDeclared(disk)
                  THEN [t \in Threads |-> 0] ELSE mishaps
    /\ UNCHANGED <<pc, passVars, worldVars, budgetVars, closed, begun, woken>>

\* The probe succeeds but the end of the outage is not confirmed yet.
ConfirmingPass ==
    /\ pc = "idle"
    /\ netUp
    /\ ProbeSucceeded(disk).health = "down"
    /\ disk' = ProbeSucceeded(disk)
    /\ mem' = ProbeSucceeded(disk)
    /\ UNCHANGED <<pc, passVars, worldVars, budgetVars, ghostVars>>

\* The probe succeeds and the target is up: the pass goes on, nothing is
\* saved yet.
HealthyPass(mode) ==
    /\ pc = "idle"
    /\ netUp
    /\ ProbeSucceeded(disk).health = "up"
    /\ mem' = ProbeSucceeded(disk)
    /\ pc' = "capacity"
    /\ dry' = mode
    /\ recoverNow' = RecoverNow(disk)
    /\ UNCHANGED <<disk, todo, cur, view, hadError, waiting, idleSeen,
                   worldVars, budgetVars, ghostVars>>

\* _recover_model_capacity, as far as this record goes: it may save the
\* whole state, with the transition this pass has just made.
CapacityPass ==
    /\ pc = "capacity"
    /\ pc' = "arm"
    /\ \/ UNCHANGED disk
       \/ CapacityEnabled /\ ~dry /\ disk' = mem
    /\ UNCHANGED <<mem, passVars, worldVars, budgetVars, ghostVars>>

-----------------------------------------------------------------------------
(* run_once between the capacity pass and _recover_target. *)

\* Nothing is pending and nothing was left half done: save and be done.
NothingToRecover ==
    /\ pc = "arm"
    /\ ~recoverNow
    /\ ~(startTurns /\ HasStaged(mem))
    /\ ~mem.recovery_pending
    /\ disk' = mem
    /\ ForgetPass
    /\ UNCHANGED <<mem, worldVars, budgetVars, closed, starts, mishaps>>

\* The outage has just ended: the recovery is persisted before it begins.
ArmAfterOutage ==
    /\ pc = "arm"
    /\ recoverNow
    /\ mem' = [mem EXCEPT !.recovery_pending = TRUE]
    /\ disk' = [mem EXCEPT !.recovery_pending = TRUE]
    /\ pc' = "claim"
    /\ UNCHANGED <<passVars, worldVars, budgetVars, ghostVars>>

\* A recovery is still pending, or staged records reopen one.
ResumeRecovery ==
    /\ pc = "arm"
    /\ ~recoverNow
    /\ \/ mem.recovery_pending
       \/ startTurns /\ HasStaged(mem)
    /\ mem' = [mem EXCEPT !.recovery_pending = TRUE]
    /\ pc' = "claim"
    /\ UNCHANGED <<disk, passVars, worldVars, budgetVars, ghostVars>>

\* Variant: an incomplete pass clears the pending flag as well.
EndPassAnyway(complete) ==
    LET final == [mem EXCEPT !.recovery_pending = FALSE]
    IN  /\ mem' = final
        /\ disk' = final
        /\ closed' = IF complete /\ ~dry
                     THEN closed \cup {mem.outage_generation}
                     ELSE closed
        /\ ForgetPass
        /\ UNCHANGED <<worldVars, starts, mishaps>>

\* The return of _recover_target and the save at the end of run_once.
EndPass(complete) ==
    LET final == IF complete /\ ~dry
                 THEN [mem EXCEPT !.recovery_pending = FALSE]
                 ELSE mem
    IN  /\ mem' = final
        /\ disk' = final
        /\ closed' = IF complete /\ ~dry
                     THEN closed \cup {mem.outage_generation}
                     ELSE closed
        /\ ForgetPass
        /\ UNCHANGED <<worldVars, starts, mishaps>>

\* A running Codex CLI of the target owns its threads: wait for it.
DeferToCli ==
    /\ pc = "claim"
    /\ cliUp
    /\ EndPass(FALSE)
    /\ UNCHANGED budgetVars

\* Starting the App Server, or thread/list, fails.
ClaimFails ==
    /\ pc = "claim"
    /\ ~cliUp
    /\ faults < MaxFaults
    /\ faults' = faults + 1
    /\ EndPass(FALSE)
    /\ UNCHANGED disturbances

\* Variant: staged threads missing from the list are not visited.
ListThreadsOnly ==
    /\ pc = "claim"
    /\ ~cliUp
    /\ todo' \in SUBSET Threads
    /\ pc' = "next"
    /\ UNCHANGED <<disk, mem, dry, recoverNow, cur, view, hadError, waiting,
                   idleSeen, worldVars, budgetVars, ghostVars>>

\* thread/list returns some threads; staged threads missing from the list
\* are visited all the same.
ListThreads ==
    /\ pc = "claim"
    /\ ~cliUp
    /\ \E listed \in SUBSET Threads :
         todo' = listed \cup StagedThreads(mem.recovered, mem.outage_generation)
    /\ pc' = "next"
    /\ UNCHANGED <<disk, mem, dry, recoverNow, cur, view, hadError, waiting,
                   idleSeen, worldVars, budgetVars, ghostVars>>

\* thread/read of the next thread.
ReadThread(t) ==
    /\ pc = "next"
    /\ t \in todo
    /\ todo' = todo \ {t}
    /\ cur' = t
    /\ view' = thread[t]
    /\ begun' = FALSE
    /\ pc' = "goal"
    /\ UNCHANGED <<disk, mem, dry, recoverNow, hadError, waiting, idleSeen,
                   worldVars, budgetVars, closed, starts, mishaps, woken>>

FinishPass ==
    /\ pc = "next"
    /\ todo = {}
    /\ EndPass(~hadError /\ ~waiting)
    /\ UNCHANGED budgetVars

-----------------------------------------------------------------------------
(* One visit of the loop: the decision. *)

GoalIsActive == cur \in goalActive
Decision == Reason(cur, view, GoalIsActive, Terminal(Record(cur)))
WasStaged == Record(cur) \in StagedActions

NextThread ==
    /\ pc' = "next"
    /\ UNCHANGED <<dry, recoverNow, todo, cur, view, hadError, idleSeen,
                   worldVars, budgetVars, ghostVars>>

\* A staged thread whose Goal changed or that grew stale is given up.
GiveUp ==
    /\ pc = "goal"
    /\ WasStaged
    /\ Decision \in {"goal_changed", "thread_stale"}
    /\ IF dry
       THEN UNCHANGED <<disk, mem>>
       ELSE Mark(cur, IF Decision = "thread_stale"
                      THEN "thread_resumed_stale"
                      ELSE "thread_resumed_goal_changed")
    /\ UNCHANGED waiting
    /\ NextThread

\* A staged thread that must not be continued any more.
SkipForSafety ==
    /\ pc = "goal"
    /\ WasStaged
    /\ SafetyRejection(Decision)
    /\ IF dry
       THEN UNCHANGED <<disk, mem>>
       ELSE Mark(cur, "recovery_skipped_safety")
    /\ UNCHANGED waiting
    /\ NextThread

\* Variant: every thread that is not final keeps the recovery pending.
SkipAndWait ==
    /\ pc = "goal"
    /\ Decision # "eligible"
    /\ WasStaged =>
         /\ Decision \notin {"goal_changed", "thread_stale"}
         /\ ~SafetyRejection(Decision)
    /\ waiting' = (waiting \/ ~Terminal(Record(cur)))
    /\ UNCHANGED <<disk, mem>>
    /\ NextThread

\* Any other thread that is not eligible is skipped; an active one keeps
\* the recovery pending.
Skip ==
    /\ pc = "goal"
    /\ Decision # "eligible"
    /\ WasStaged =>
         /\ Decision \notin {"goal_changed", "thread_stale"}
         /\ ~SafetyRejection(Decision)
    /\ waiting' = \/ waiting
                  \/ /\ startTurns
                     /\ ~Terminal(Record(cur))
                     /\ Decision \in WaitingReasons
    /\ UNCHANGED <<disk, mem>>
    /\ NextThread

\* A dry run only reports what it would do.
ReportOnly ==
    /\ pc = "goal"
    /\ Decision = "eligible"
    /\ dry
    /\ UNCHANGED <<disk, mem, waiting>>
    /\ NextThread

Decide ==
    /\ pc = "goal"
    /\ Decision = "eligible"
    /\ ~dry
    /\ pc' = "resume"
    /\ UNCHANGED <<disk, mem, passVars, worldVars, budgetVars, ghostVars>>

-----------------------------------------------------------------------------
(* One visit of the loop: thread/resume, the grace period, turn/start. *)

TurnBegins(t) ==
    /\ thread' = [thread EXCEPT ![t] = RunningThread]
    /\ begun' = (begun \/ t = cur)

\* What thread/resume does to an idle thread: load it, or load it and bring
\* its turn back online.
ServerResumes(t) ==
    \/ UNCHANGED <<thread, begun, woken>>
    \/ /\ ~thread[t].active
       /\ TurnBegins(t)
       /\ woken' = woken \cup {t}

ResumeThread ==
    /\ pc = "resume"
    /\ ServerResumes(cur)
    /\ pc' = "resumed"
    /\ UNCHANGED <<disk, mem, passVars, startTurns, goalActive, netUp, cliUp, budgetVars,
                   closed, starts, mishaps>>

\* The answer of thread/resume is lost.
ResumeReplyLost ==
    /\ pc = "resume"
    /\ faults < MaxFaults
    /\ faults' = faults + 1
    /\ ServerResumes(cur)
    /\ hadError' = TRUE
    /\ pc' = "next"
    /\ UNCHANGED <<disk, mem, dry, recoverNow, todo, cur, view, waiting,
                   idleSeen, startTurns, goalActive, netUp, cliUp, disturbances,
                   closed, starts, mishaps>>

RecordResume ==
    /\ pc = "resumed"
    /\ Mark(cur, "thread_resumed")
    /\ pc' = "reread"
    /\ UNCHANGED <<passVars, worldVars, budgetVars, ghostVars>>

\* thread/read after resume_grace_seconds.
RereadThread ==
    /\ pc = "reread"
    /\ view' = thread[cur]
    /\ begun' = FALSE
    /\ pc' = "regoal"
    /\ UNCHANGED <<disk, mem, dry, recoverNow, todo, cur, hadError, waiting,
                   idleSeen, worldVars, budgetVars, closed, starts, mishaps,
                   woken>>

\* thread/goal/get after the resume: the Goal is no longer active.
GoalChangedByResume ==
    /\ pc = "regoal"
    /\ ~GoalIsActive
    /\ Mark(cur, "thread_resumed_goal_changed")
    /\ UNCHANGED waiting
    /\ NextThread

\* The resume brought a turn online: follow it.
FollowResumedTurn ==
    /\ pc = "regoal"
    /\ GoalIsActive
    /\ view.active
    /\ Mark(cur, "thread_resumed_active")
    /\ idleSeen' = 0
    /\ pc' = "settle"
    /\ UNCHANGED <<dry, recoverNow, todo, cur, view, hadError, waiting,
                   worldVars, budgetVars, ghostVars>>

\* Loading the thread is all the target asks for.
StopAtResume ==
    /\ pc = "regoal"
    /\ GoalIsActive
    /\ ~view.active
    /\ ~startTurns
    /\ Mark(cur, "thread_resumed")
    /\ UNCHANGED waiting
    /\ NextThread

\* Variant: the thread's state after the resume is not looked at.
PrepareStartBlindly ==
    /\ pc = "regoal"
    /\ GoalIsActive
    /\ startTurns
    /\ pc' = "start"
    /\ UNCHANGED <<disk, mem, passVars, worldVars, budgetVars, ghostVars>>

PrepareStart ==
    /\ pc = "regoal"
    /\ GoalIsActive
    /\ ~view.active
    /\ startTurns
    /\ pc' = "start"
    /\ UNCHANGED <<disk, mem, passVars, worldVars, budgetVars, ghostVars>>

ServerStartsTurn(t) ==
    /\ TurnBegins(t)
    /\ woken' = woken \ {t}
    /\ starts' = [starts EXCEPT ![t] = @ + 1]

StartTurn ==
    /\ pc = "start"
    /\ ServerStartsTurn(cur)
    /\ pc' = "started"
    /\ UNCHANGED <<disk, mem, passVars, startTurns, goalActive, netUp, cliUp, budgetVars,
                   closed, mishaps>>

\* The turn starts but the answer of turn/start is lost.
StartReplyLost ==
    /\ pc = "start"
    /\ faults < MaxFaults
    /\ faults' = faults + 1
    /\ ServerStartsTurn(cur)
    /\ mishaps' = [mishaps EXCEPT ![cur] = @ + 1]
    /\ hadError' = TRUE
    /\ pc' = "next"
    /\ UNCHANGED <<disk, mem, dry, recoverNow, todo, cur, view, waiting,
                   idleSeen, startTurns, goalActive, netUp, cliUp, disturbances, closed>>

RecordStart ==
    /\ pc = "started"
    /\ Mark(cur, "turn_started")
    /\ idleSeen' = 0
    /\ pc' = "settle"
    /\ UNCHANGED <<dry, recoverNow, todo, cur, view, hadError, waiting,
                   worldVars, budgetVars, ghostVars>>

\* _wait_until_settled: thread/read, then thread/goal/get, until the thread
\* was seen idle twice in a row.
PollThread ==
    /\ pc = "settle"
    /\ view' = thread[cur]
    /\ begun' = FALSE
    /\ pc' = "settleGoal"
    /\ UNCHANGED <<disk, mem, dry, recoverNow, todo, cur, hadError, waiting,
                   idleSeen, worldVars, budgetVars, closed, starts, mishaps,
                   woken>>

KeepPolling ==
    /\ pc = "settleGoal"
    /\ view.active \/ idleSeen = 0
    /\ idleSeen' = IF view.active THEN 0 ELSE 1
    /\ pc' = "settle"
    /\ UNCHANGED <<disk, mem, dry, recoverNow, todo, cur, view, hadError,
                   waiting, worldVars, budgetVars, ghostVars>>

Settled ==
    /\ pc = "settleGoal"
    /\ ~view.active
    /\ idleSeen = 1
    /\ Mark(cur, IF ~GoalIsActive THEN "thread_resumed_goal_changed"
                 ELSE IF Record(cur) = "thread_resumed_active"
                 THEN "thread_resumed_turn_completed"
                 ELSE "turn_completed")
    /\ UNCHANGED waiting
    /\ NextThread

-----------------------------------------------------------------------------
(* Failures of the pass. *)

\* The turn of a recovery is running or just over, and not recorded so.
Supervising ==
    \/ pc = "started"
    \/ pc \in {"settle", "settleGoal"} /\ Record(cur) = "turn_started"

CutOff == mishaps' = IF Supervising
                     THEN [mishaps EXCEPT ![cur] = @ + 1]
                     ELSE mishaps

\* A call about one thread fails (a read, a goal/get, or a resume or start
\* the server refused): the loop goes on with the next thread.
CallFails ==
    /\ pc \in {"goal", "resume", "reread", "regoal", "start", "settle",
               "settleGoal"}
    /\ faults < MaxFaults
    /\ faults' = faults + 1
    /\ hadError' = TRUE
    /\ pc' = "next"
    /\ CutOff
    /\ UNCHANGED <<disk, mem, dry, recoverNow, todo, cur, view, waiting,
                   idleSeen, worldVars, disturbances, closed, starts, begun,
                   woken>>

\* The process dies: what was not saved is gone, and so is its App Server
\* child, but a turn it started may go on elsewhere.
Crash ==
    /\ pc # "idle"
    /\ faults < MaxFaults
    /\ faults' = faults + 1
    /\ mem' = disk
    /\ CutOff
    /\ ForgetPass
    /\ UNCHANGED <<disk, worldVars, disturbances, closed, starts>>

-----------------------------------------------------------------------------
(* Users, the clock, the Codex CLI and the network. *)

Disturb ==
    /\ disturbances < MaxDisturbances
    /\ disturbances' = disturbances + 1

guardianVars == <<startTurns, disk, mem, pc, passVars, faults>>

\* Somebody else starts a turn.
UserTurn(t) ==
    /\ Disturb
    /\ ~thread[t].active
    /\ TurnBegins(t)
    /\ woken' = woken \ {t}
    /\ UNCHANGED <<guardianVars, goalActive, netUp, cliUp,
                   closed, starts, mishaps>>

TurnEnds(t) ==
    /\ thread[t].active
    /\ \E end \in {"networkFailure", "otherEnd"} :
         thread' = [thread EXCEPT ![t].active = FALSE, ![t].last = end]
    /\ UNCHANGED <<guardianVars, goalActive, netUp, cliUp, disturbances,
                   closed, starts, mishaps, begun, woken>>

\* The App Server of a running turn dies: the turn stays inProgress on a
\* thread that is no longer loaded.
OrphanTurn(t) ==
    /\ OrphanTurns
    /\ Disturb
    /\ thread[t].active
    /\ thread' = [thread EXCEPT ![t].active = FALSE]
    /\ UNCHANGED <<guardianVars, goalActive, netUp, cliUp,
                   closed, starts, mishaps, begun, woken>>

\* The Goal is paused, completed or cleared, or made active again.
GoalChanges(t) ==
    /\ Disturb
    /\ goalActive' = IF t \in goalActive
                     THEN goalActive \ {t} ELSE goalActive \cup {t}
    /\ UNCHANGED <<guardianVars, thread, netUp, cliUp, ghostVars>>

\* max_thread_age_seconds pass without activity.  A pass compares with the
\* time it began at, so age matters between passes only.
ThreadAges(t) ==
    /\ pc = "idle"
    /\ Disturb
    /\ ~thread[t].active
    /\ ~thread[t].stale
    /\ thread' = [thread EXCEPT ![t].stale = TRUE]
    /\ UNCHANGED <<guardianVars, goalActive, netUp, cliUp, ghostVars>>

CliStarts ==
    /\ Disturb
    /\ ~cliUp
    /\ cliUp' = TRUE
    /\ UNCHANGED <<guardianVars, thread, goalActive, netUp, ghostVars>>

CliExits ==
    /\ cliUp
    /\ cliUp' = FALSE
    /\ UNCHANGED <<guardianVars, thread, goalActive, netUp, disturbances,
                   ghostVars>>

NetworkFails ==
    /\ Disturb
    /\ netUp
    /\ netUp' = FALSE
    /\ UNCHANGED <<guardianVars, thread, goalActive, cliUp, ghostVars>>

NetworkReturns ==
    /\ ~netUp
    /\ netUp' = TRUE
    /\ UNCHANGED <<guardianVars, thread, goalActive, cliUp, disturbances,
                   ghostVars>>

-----------------------------------------------------------------------------
BeginPass(mode) == UnhealthyPass \/ ConfirmingPass \/ HealthyPass(mode)

Arm == NothingToRecover \/ ArmAfterOutage \/ ResumeRecovery

Claim == DeferToCli \/ ListThreads

Visit ==
    \/ \E t \in Threads : ReadThread(t)
    \/ GiveUp \/ SkipForSafety \/ Skip \/ ReportOnly \/ Decide
    \/ ResumeThread \/ RecordResume \/ RereadThread
    \/ GoalChangedByResume \/ FollowResumedTurn \/ StopAtResume
    \/ PrepareStart \/ StartTurn \/ RecordStart
    \/ PollThread \/ KeepPolling \/ Settled

PassStep == CapacityPass \/ Arm \/ Claim \/ Visit \/ FinishPass

Fault ==
    \/ ClaimFails \/ ResumeReplyLost \/ StartReplyLost \/ CallFails \/ Crash

World ==
    \/ \E t \in Threads :
         \/ UserTurn(t) \/ TurnEnds(t) \/ OrphanTurn(t)
         \/ GoalChanges(t) \/ ThreadAges(t)
    \/ CliStarts \/ CliExits \/ NetworkFails \/ NetworkReturns

Next ==
    \/ \E mode \in PassModes : BeginPass(mode)
    \/ PassStep
    \/ Fault
    \/ World

Spec == Init /\ [][Next]_vars

-----------------------------------------------------------------------------
(* Type invariant: the records, the pass, the world and the ghosts. *)
PassTypeOK ==
    /\ pc \in PassPoints \cup {"idle"}
    /\ dry \in BOOLEAN
    /\ recoverNow \in BOOLEAN
    /\ todo \subseteq Threads
    /\ cur \in Threads \cup {None}
    /\ view \in ThreadViews
    /\ hadError \in BOOLEAN
    /\ waiting \in BOOLEAN
    /\ idleSeen \in {0, 1}

WorldTypeOK ==
    /\ startTurns \in StartModes
    /\ thread \in [Threads -> ThreadViews]
    /\ goalActive \subseteq Threads
    /\ netUp \in BOOLEAN
    /\ cliUp \in BOOLEAN

BudgetTypeOK ==
    /\ disturbances \in 0 .. MaxDisturbances
    /\ faults \in 0 .. MaxFaults

GhostTypeOK ==
    /\ closed \subseteq Generations
    /\ starts \in [Threads -> Nat]
    /\ mishaps \in [Threads -> Nat]
    /\ begun \in BOOLEAN
    /\ woken \subseteq Threads

TypeOK ==
    /\ disk \in Targets
    /\ mem \in Targets
    /\ PassTypeOK
    /\ WorldTypeOK
    /\ BudgetTypeOK
    /\ GhostTypeOK

(* "After the network transitions from unavailable to healthy, recovery     *)
(* must continue an active Goal": between two passes an outage that is over *)
(* is either still owed a recovery or has had one run to completion,        *)
(* whatever crash, failed call or dry run cut the passes short.             *)
OutageNeverForgotten ==
    pc = "idle" /\ disk.health # "down" /\ disk.outage_generation > 0 =>
        Owed(disk) \/ disk.outage_generation \in closed

(* Once a recovery is reported complete, no thread of its generation is     *)
(* left in the middle of one, whichever threads fell off the list, failed   *)
(* or stayed active meanwhile.                                              *)
CompletedLeavesNothingStaged ==
    startTurns /\ disk.outage_generation \in closed => ~HasStaged(disk)

(* A generation starts at most one turn per thread, plus one for each time  *)
(* the supervision of such a turn was cut off by a crash or a failed call.  *)
StartsBoundedByMishaps ==
    \A t \in Threads : starts[t] <= 1 + mishaps[t]

(* A recovery turn is only ever started over a running turn when that turn  *)
(* began after the pass's last read of the thread: the residual ownership   *)
(* race between the last thread/read and turn/start, and nothing wider.     *)
OverlapOnlyInResidualWindow ==
    [][\A t \in Threads :
         starts'[t] > starts[t] /\ thread[t].active => begun]_vars

(* "If resume already brings a turn online, the same App Server connection  *)
(* follows that turn until it settles and never starts a second turn."      *)
ResumedTurnNeverDoubled ==
    [][\A t \in Threads : starts'[t] > starts[t] => t \notin woken]_vars

-----------------------------------------------------------------------------
(* CliRecovery implements RecoveryContract: what a later pass finds on disk *)
(* keeps the promise at every step, hence across every crash.               *)

SettledThreads ==
    {t \in Threads : Terminal(disk.recovered[disk.outage_generation][t])}

Contract == INSTANCE RecoveryContract WITH
    outage <- disk.health = "down",
    generation <- disk.outage_generation,
    owed <- Owed(disk),
    started <- {t \in Threads : starts[t] > 0},
    settled <- SettledThreads

ImplementsContract == Contract!Spec

-----------------------------------------------------------------------------
(* Liveness.  The watcher keeps starting real passes and a pass that runs   *)
(* keeps running; turns end, the CLI exits and the network returns some day.*)

Fairness ==
    /\ SF_vars(BeginPass(FALSE))
    /\ WF_vars(PassStep)
    /\ \A t \in Threads : WF_vars(TurnEnds(t))
    /\ WF_vars(CliExits)
    /\ WF_vars(NetworkReturns)

FairSpec == Spec /\ Fairness

Orphaned(t) == ~thread[t].active /\ thread[t].last = "inProgress"

(* Every recovery owed is completed some day or superseded by the next      *)
(* outage: a crash, a lost answer, a running CLI or a long turn only delay  *)
(* it.  Only a turn left inProgress on an unloaded thread may hold it open. *)
RecoveryDischarged ==
    \A g \in Generations :
        (Owed(disk) /\ disk.outage_generation = g /\ disk.health # "down")
            ~> \/ g \in closed
               \/ disk.outage_generation # g
               \/ \E t \in Threads : Orphaned(t)
=============================================================================
