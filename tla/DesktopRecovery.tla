-------------------------- MODULE DesktopRecovery --------------------------
(***************************************************************************)
(* The desktop part of run_once for one target: recovery requests queued   *)
(* by request-desktop-recovery, and the allowlisted threads that Guardian  *)
(* watches directly.  A blocked Goal with recoverable evidence is set      *)
(* active again; a watched thread is then woken: resumed, observed, and    *)
(* only if it stays idle given a turn.                                     *)
(*                                                                         *)
(* The target has desktop_stall_timeout_seconds 0 and no capacity          *)
(* fallbacks: a thread that is active is left alone.  Threads do not grow  *)
(* too old.  Requests are the set of pending ones: their generation only   *)
(* names them.  Every record is of the app_server_url of the target.       *)
(*                                                                         *)
(* A thread is its history: the kinds of its turns, heartbeats left out; a *)
(* turn's id is its place.  thread/read and thread/goal/get are steps of   *)
(* their own, and a decision is taken with the second.                     *)
(***************************************************************************)
EXTENDS Naturals, Sequences, FiniteSets

CONSTANTS
    Threads,         \* thread ids
    AllowedThreads,  \* threads whose source is in allowed_sources
    Configs,         \* configurations of the target to consider
    MaxFailures,     \* bound on turns that end without completing the Goal
    MaxDisturbances, \* bound on what users and heartbeats do
    MaxFaults        \* bound on failed calls and crashes

ASSUME DesktopAssumption ==
    /\ AllowedThreads \subseteq Threads
    /\ Configs \subseteq
         [watched : SUBSET Threads, starts : BOOLEAN, delegated : BOOLEAN,
          policy : BOOLEAN]
    /\ {MaxFailures, MaxDisturbances, MaxFaults} \subseteq Nat

None == "none"

\* "network", "policy" and "other" are the errors of a turn that has ended;
\* "empty" is an interrupted turn without items, "completed" has no error.
EndKinds == {"network", "policy", "other", "empty", "completed"}
Kinds == EndKinds \cup {"inProgress"}
ThreadStates == [active : BOOLEAN, turns : Seq(Kinds)]

GoalStates == {"active", "blocked", "usageLimited", "other"}

FinishedWakeActions ==
    {"runtime_active", "turn_started", "turn_settled", "goal_changed"}
\* Variant: a wake is pending until its turn has settled.
PendingUntilSettled ==
    {"goal_state_reactivated", "resume_requested", "turn_started"}
PendingWakeActions == {"goal_state_reactivated", "resume_requested"}
DirectActions ==
    FinishedWakeActions \cup PendingWakeActions \cup {"prompt_policy_turn_started"}

\* Turn id 0 stands for no turn.
DirectRecords ==
    [turn_id : Nat, action : DirectActions \cup {None}, recovery_turn_id : Nat]
NoRecord == [turn_id |-> 0, action |-> None, recovery_turn_id |-> 0]

States == [requests : SUBSET Threads, direct : [Threads -> DirectRecords]]

Stages == {"first", "fresh", "before", "observe1", "observe2", "policy"}

VARIABLES
    config,       \* desktop_thread_ids, start_recovery_turn,
                  \* delegated_continuity_enabled, prompt_policy_retry_enabled
    disk,         \* the state file: requests and desktop_direct_recoveries
    mem,          \* the state of the pass, which holds the state lock
    pc,           \* where the pass stands: "idle" without one
    todo,         \* threads the pass has not visited
    cur,          \* thread it visits
    stage,        \* read of the visit that is next or was last
    view,         \* last thread/read of cur
    evidence,     \* turn the visit recovers from
    retry,        \* prompt_policy_retry of the visit
    startedId,    \* turn the visit started
    thread,       \* App Server: state of each thread
    goal,         \* App Server: status of each Goal
    runtime,      \* Desktop uses the shared App Server
    failures,     \* used part of MaxFailures
    disturbances, \* used part of MaxDisturbances
    faults,       \* used part of MaxFaults
    asked,        \* ghost: threads with a request that was acknowledged and
                  \* that no pass has decided on since
    wakes,        \* ghost: turns started on a thread for its evidence turns
    policyRun,    \* ghost: policy continuations in a row
    lost,         \* ghost: starts whose record was lost, per thread
    moved         \* ghost: a turn or Goal change came after the last read

visitVars == <<cur, stage, view, evidence, retry, startedId>>
passVars == <<mem, pc, todo, visitVars>>
serverVars == <<thread, goal>>
boundVars == <<failures, disturbances, faults>>
ghostVars == <<asked, wakes, policyRun, lost>>
vars == <<config, disk, passVars, serverVars, runtime, boundVars, ghostVars,
          moved>>

-----------------------------------------------------------------------------
(* What a snapshot of a thread says. *)

Direct(t) == t \in config.watched

HasInProgress(turns) == turns # <<>> /\ turns[Len(turns)] = "inProgress"

\* _desktop_recovery_candidate_turn: the last turn, or the evidence of a wake
\* that is pending when only empty interrupted turns came after it.
Candidate(turns, pending) ==
    IF pending # 0 /\ \A i \in pending + 1 .. Len(turns) : turns[i] = "empty"
    THEN pending ELSE Len(turns)

Kind(turns, pending) == turns[Candidate(turns, pending)]

\* pending_evidence_turn_id
PendingEvidence(m, t) ==
    LET r == m.direct[t]
    IN  IF Direct(t) /\ config.starts /\ r.action \in PendingWakeActions
        THEN r.turn_id ELSE 0

\* desktop_goal_reactivation_eligibility
RecoverableGoals ==
    IF config.delegated THEN {"blocked", "usageLimited"} ELSE {"blocked"}
RecoverableKinds ==
    IF config.delegated THEN EndKinds \ {"policy"} ELSE {"network"}

Verdict(t, v, g, pending) ==
    IF g \notin RecoverableGoals THEN "refused"
    ELSE IF v.active THEN "waiting"
    ELSE IF t \notin AllowedThreads \/ v.turns = <<>> THEN "refused"
    ELSE IF HasInProgress(v.turns) THEN "waiting"
    ELSE IF Kind(v.turns, pending) = "policy"
         THEN IF config.policy THEN "policy" ELSE "refused"
    ELSE IF Kind(v.turns, pending) \in RecoverableKinds
         THEN "eligible" ELSE "refused"

\* _desktop_continuity_turn_id: the evidence for waking a thread whose Goal is
\* active, or 0.
Continuity(t, v, pending) ==
    IF /\ ~v.active
       /\ t \in AllowedThreads
       /\ v.turns # <<>>
       /\ ~HasInProgress(v.turns)
       /\ Kind(v.turns, pending) \in RecoverableKinds
    THEN Candidate(v.turns, pending) ELSE 0

WakePending(r, e) ==
    e # 0 /\ (r.turn_id # e \/ r.action \notin FinishedWakeActions)

AlreadyRecovered(r, e) ==
    r.turn_id = e /\ (~config.starts \/ r.action \notin PendingWakeActions)

-----------------------------------------------------------------------------
(* The state file. *)

\* finish_desktop_recovery_request
Finished(m, t) == [m EXCEPT !.requests = @ \ {t}]

\* mark_desktop_direct_recovery
Marked(m, t, id, action, recovery_id) ==
    [m EXCEPT !.direct[t] =
        [turn_id |-> id, action |-> action, recovery_turn_id |-> recovery_id]]

\* The pass changes its state and saves it.
Save(m) == mem' = m /\ disk' = m

SaveUnchanged == UNCHANGED <<mem, disk, asked>>

\* The pass decides on the request for cur, if there is one.
Finish(m) == Save(Finished(m, cur)) /\ asked' = asked \ {cur}

Init ==
    /\ config \in Configs
    /\ disk = [requests |-> {}, direct |-> [t \in Threads |-> NoRecord]]
    /\ mem = disk
    /\ pc = "idle"
    /\ todo = {}
    /\ cur = None
    /\ stage = "first"
    /\ view = [active |-> FALSE, turns |-> <<>>]
    /\ evidence = 0
    /\ retry = FALSE
    /\ startedId = 0
    /\ \E kind \in [Threads -> EndKinds] :
         thread = [t \in Threads |-> [active |-> FALSE, turns |-> <<kind[t]>>]]
    /\ goal \in [Threads -> {"active", "blocked"}]
    /\ runtime = TRUE
    /\ failures = 0
    /\ disturbances = 0
    /\ faults = 0
    /\ asked = {}
    /\ wakes = [t \in Threads |-> <<>>]
    /\ policyRun = [t \in Threads |-> 0]
    /\ lost = [t \in Threads |-> 0]
    /\ moved = FALSE

-----------------------------------------------------------------------------
(* Passes and visits. *)

ClearVisit ==
    /\ cur' = None
    /\ stage' = "first"
    /\ view' = [active |-> FALSE, turns |-> <<>>]
    /\ evidence' = 0
    /\ retry' = FALSE
    /\ startedId' = 0
    /\ moved' = FALSE

EndVisit == pc' = "visits" /\ ClearVisit

\* The next thing the visit does is a read.
ReadNext(s) == pc' = "thread" /\ stage' = s

world == <<config, serverVars, runtime, boundVars>>

\* Variant: a watched thread is visited only on request.
BeginRequestedPass ==
    /\ pc = "idle"
    /\ mem' = disk
    /\ todo' = disk.requests
    /\ pc' = "visits"
    /\ UNCHANGED <<disk, visitVars, moved, world, ghostVars>>

\* The state lock is taken and the state file loaded.
BeginPass ==
    /\ pc = "idle"
    /\ mem' = disk
    /\ todo' = disk.requests \cup config.watched
    /\ pc' = "visits"
    /\ UNCHANGED <<disk, visitVars, moved, world, ghostVars>>

EndPass ==
    /\ pc = "visits"
    /\ todo = {}
    /\ pc' = "idle"
    /\ UNCHANGED <<disk, mem, todo, visitVars, moved, world, ghostVars>>

Visit(t) ==
    /\ pc = "visits"
    /\ t \in todo
    /\ todo' = todo \ {t}
    /\ cur' = t
    /\ pc' = "thread"
    /\ UNCHANGED <<disk, mem, stage, view, evidence, retry, startedId, moved,
                   world,
                   ghostVars>>

ReadThread ==
    /\ pc = "thread"
    /\ view' = thread[cur]
    /\ moved' = FALSE
    /\ pc' = "goal"
    /\ UNCHANGED <<disk, mem, todo, cur, stage, evidence, retry, startedId, world,
                   ghostVars>>

\* A decision at stage s, taken with the answer of thread/goal/get.
At(s) == pc = "goal" /\ stage = s
DecisionFrame == UNCHANGED <<todo, world, wakes, policyRun, lost>>

-----------------------------------------------------------------------------
(* The first reads.  The first thread/read of a watched thread comes        *)
(* without its turns: when they matter it is read again.                   *)

Snapshot == IF Direct(cur) THEN thread[cur] ELSE view
Pending == PendingEvidence(mem, cur)

\* Evidence of a thread whose Goal is active that calls for a wake, or 0.
WakeEvidence ==
    IF Direct(cur) /\ config.starts /\ ~view.active
    THEN LET e == Continuity(cur, thread[cur], Pending)
         IN  IF WakePending(mem.direct[cur], e) THEN e ELSE 0
    ELSE 0

\* The Goal is active: the thread is woken if it has stopped.
WakeActiveGoal ==
    /\ At("first")
    /\ goal[cur] = "active"
    /\ runtime
    /\ WakeEvidence # 0
    /\ Save(Marked(mem, cur, WakeEvidence, "goal_state_reactivated", 0))
    /\ evidence' = WakeEvidence
    /\ ReadNext("before")
    /\ UNCHANGED <<cur, view, retry, startedId, moved, asked>>
    /\ DecisionFrame

GoalAlreadyActive ==
    /\ At("first")
    /\ goal[cur] = "active"
    /\ runtime
    /\ WakeEvidence = 0
    /\ Finish(mem)
    /\ EndVisit
    /\ DecisionFrame

\* A watched thread is not read again for a Goal that cannot be recovered; a
\* request for it is left pending.
GoalNotRecoverable ==
    /\ At("first")
    /\ Direct(cur)
    /\ goal[cur] \notin RecoverableGoals \cup {"active"}
    /\ EndVisit
    /\ SaveUnchanged
    /\ DecisionFrame

Judged(s, verdicts) ==
    /\ At(s)
    /\ goal[cur] # "active" \/ s = "fresh"
    /\ ~(s = "first" /\ Direct(cur) /\ goal[cur] \notin RecoverableGoals)
    /\ Verdict(cur, IF s = "first" THEN Snapshot ELSE view, goal[cur], Pending)
         \in verdicts

Wait(s) ==
    /\ Judged(s, {"waiting"})
    /\ EndVisit
    /\ SaveUnchanged
    /\ DecisionFrame

\* Variant: a refused request is reported but not finished.
RefuseSilently(s) ==
    /\ Judged(s, {"refused"})
    /\ EndVisit
    /\ SaveUnchanged
    /\ DecisionFrame

Refuse(s) ==
    /\ Judged(s, {"refused"})
    /\ Finish(mem)
    /\ EndVisit
    /\ DecisionFrame

\* The rejected turn is itself the continuation of a rejected turn.
PolicyExhausted ==
    /\ Judged("first", {"policy"})
    /\ Direct(cur)
    /\ mem.direct[cur].recovery_turn_id = Candidate(Snapshot.turns, Pending)
    /\ EndVisit
    /\ SaveUnchanged
    /\ DecisionFrame

NotRecovered(v) ==
    Direct(cur) => ~AlreadyRecovered(mem.direct[cur], Candidate(v.turns, Pending))

Fit ==
    /\ Judged("first", {"eligible", "policy"})
    /\ ~ /\ Direct(cur)
         /\ Verdict(cur, Snapshot, goal[cur], Pending) = "policy"
         /\ mem.direct[cur].recovery_turn_id = Candidate(Snapshot.turns, Pending)

Recovered ==
    /\ Fit
    /\ ~NotRecovered(Snapshot)
    /\ Finish(mem)
    /\ EndVisit
    /\ DecisionFrame

ReadAgain ==
    /\ Fit
    /\ NotRecovered(Snapshot)
    /\ runtime
    /\ retry' = (Verdict(cur, Snapshot, goal[cur], Pending) = "policy")
    /\ ReadNext("fresh")
    /\ UNCHANGED <<cur, view, evidence, startedId, moved>>
    /\ SaveUnchanged
    /\ DecisionFrame

-----------------------------------------------------------------------------
(* The Goal is set active. *)

\* The evidence has changed, or has been recovered from, since.
FreshEvidence ==
    /\ retry = (Verdict(cur, view, goal[cur], Pending) = "policy")
    /\ NotRecovered(view)

EvidenceChanged ==
    /\ Judged("fresh", {"eligible", "policy"})
    /\ ~FreshEvidence
    /\ EndVisit
    /\ SaveUnchanged
    /\ DecisionFrame

\* Variant: the second reads are not judged.
PrepareReactivationBlindly ==
    /\ At("fresh")
    /\ runtime
    /\ evidence' = Candidate(view.turns, Pending)
    /\ pc' = "set"
    /\ UNCHANGED <<cur, stage, view, retry, startedId, moved>>
    /\ SaveUnchanged
    /\ DecisionFrame

PrepareReactivation ==
    /\ Judged("fresh", {"eligible", "policy"})
    /\ FreshEvidence
    /\ runtime
    /\ evidence' = Candidate(view.turns, Pending)
    /\ pc' = "set"
    /\ UNCHANGED <<cur, stage, view, retry, startedId, moved>>
    /\ SaveUnchanged
    /\ DecisionFrame

\* Without the shared runtime nothing is decided on a thread that would be
\* woken or recovered.
RuntimeLeft ==
    /\ ~runtime
    /\ \/ At("first") /\ goal[cur] = "active"
       \/ Fit /\ NotRecovered(Snapshot)
       \/ Judged("fresh", {"eligible", "policy"}) /\ FreshEvidence
    /\ EndVisit
    /\ SaveUnchanged
    /\ DecisionFrame

\* thread/goal/set
ReactivateGoal ==
    /\ pc = "set"
    /\ goal' = [goal EXCEPT ![cur] = "active"]
    /\ pc' = "confirm"
    /\ UNCHANGED <<disk, mem, todo, visitVars, moved, config, thread, runtime,
                   boundVars, ghostVars>>

\* The Goal is read once more: it must be active.
ConfirmFails ==
    /\ pc = "confirm"
    /\ goal[cur] # "active"
    /\ EndVisit
    /\ SaveUnchanged
    /\ DecisionFrame

ConfirmGoal ==
    /\ pc = "confirm"
    /\ goal[cur] = "active"
    /\ Finish(IF Direct(cur)
              THEN Marked(mem, cur, evidence, "goal_state_reactivated", 0)
              ELSE mem)
    /\ IF Direct(cur) /\ config.starts
       THEN /\ ReadNext(IF retry THEN "policy" ELSE "before")
            /\ UNCHANGED <<cur, view, evidence, retry, startedId, moved>>
       ELSE EndVisit
    /\ DecisionFrame

-----------------------------------------------------------------------------
(* _wake_direct_desktop_goal.  When it returns, a request for the thread is *)
(* finished: one for a Goal that was set active here already has been.     *)

Waking == stage \in {"before", "observe1", "observe2"} /\ pc = "goal"

EndWake(action, recovery_id) ==
    /\ Finish(Marked(mem, cur, evidence, action, recovery_id))
    /\ EndVisit

WakeGoalChanged ==
    /\ Waking
    /\ goal[cur] # "active"
    /\ EndWake("goal_changed", 0)
    /\ DecisionFrame

\* The turn that runs is recorded, unless the thread ran before the resume.
WakeActive ==
    /\ Waking
    /\ goal[cur] = "active"
    /\ view.active
    /\ EndWake("runtime_active",
               IF stage # "before" /\ HasInProgress(view.turns)
               THEN Len(view.turns) ELSE 0)
    /\ DecisionFrame

WakeGoesOn == Waking /\ goal[cur] = "active" /\ ~view.active

RequestResume ==
    /\ WakeGoesOn
    /\ stage = "before"
    /\ Save(Marked(mem, cur, evidence, "resume_requested", 0))
    /\ pc' = "resume"
    /\ UNCHANGED <<visitVars, moved, asked>>
    /\ DecisionFrame

\* A turn begins on t; one that still runs is cut off.
Begun(h) ==
    [active |-> TRUE,
     turns |-> Append(IF HasInProgress(h.turns)
                      THEN [h.turns EXCEPT ![Len(h.turns)] = "other"]
                      ELSE h.turns,
                      "inProgress")]
OtherTurnBegins(t) ==
    /\ thread' = [thread EXCEPT ![t] = Begun(@)]
    /\ policyRun' = [policyRun EXCEPT ![t] = 0]
    /\ moved' = (moved \/ t = cur)

ResumeThread ==
    /\ pc = "resume"
    /\ \/ UNCHANGED <<thread, policyRun, moved, disturbances>>
       \/ /\ ~thread[cur].active
          /\ disturbances < MaxDisturbances
          /\ disturbances' = disturbances + 1
          /\ OtherTurnBegins(cur)
    /\ ReadNext("observe1")
    /\ UNCHANGED <<disk, mem, todo, cur, view, evidence, retry, startedId, config,
                   goal, runtime, failures, faults, asked, wakes, lost>>

ObserveAgain ==
    /\ WakeGoesOn
    /\ stage = "observe1"
    /\ ReadNext("observe2")
    /\ UNCHANGED <<cur, view, evidence, retry, startedId, moved>>
    /\ SaveUnchanged
    /\ DecisionFrame

PrepareStart ==
    /\ WakeGoesOn
    /\ stage = "observe2"
    /\ pc' = "start"
    /\ UNCHANGED <<visitVars, moved>>
    /\ SaveUnchanged
    /\ DecisionFrame

-----------------------------------------------------------------------------
(* _start_prompt_policy_continuation. *)

PolicyCalledOff ==
    /\ At("policy")
    /\ goal[cur] # "active" \/ view.active
    /\ EndVisit
    /\ SaveUnchanged
    /\ DecisionFrame

PreparePolicyStart ==
    /\ At("policy")
    /\ goal[cur] = "active"
    /\ ~view.active
    /\ pc' = "start"
    /\ UNCHANGED <<visitVars, moved>>
    /\ SaveUnchanged
    /\ DecisionFrame

-----------------------------------------------------------------------------
(* turn/start of either. *)

ServerStartsTurn ==
    /\ thread' = [thread EXCEPT ![cur] = Begun(@)]
    /\ wakes' = [wakes EXCEPT ![cur] = Append(@, evidence)]
    /\ policyRun' = [policyRun EXCEPT ![cur] = IF retry THEN @ + 1 ELSE 0]

StartTurn ==
    /\ pc = "start"
    /\ ServerStartsTurn
    /\ pc' = "started"
    /\ startedId' = Len(thread'[cur].turns)
    /\ UNCHANGED <<disk, mem, todo, cur, stage, view, evidence, retry, moved,
                   config, goal, runtime, boundVars, asked, lost>>

\* Variant: the action is one that nothing looks for.
RecordStartMisnamed ==
    /\ pc = "started"
    /\ EndWake("started", startedId)
    /\ DecisionFrame

RecordStart ==
    /\ pc = "started"
    /\ EndWake(IF retry THEN "prompt_policy_turn_started" ELSE "turn_started",
               startedId)
    /\ DecisionFrame

-----------------------------------------------------------------------------
(* Failures. *)

Fault == faults < MaxFaults /\ faults' = faults + 1

\* A call of the visit fails: the pass goes on with the next thread.
CallFails ==
    /\ pc \in {"thread", "goal", "set", "confirm", "resume", "start"}
    /\ Fault
    /\ EndVisit
    /\ UNCHANGED <<disk, mem, todo, config, serverVars, runtime, failures,
                   disturbances, ghostVars>>

\* The turn starts but the answer of turn/start is lost.
StartReplyLost ==
    /\ pc = "start"
    /\ Fault
    /\ ServerStartsTurn
    /\ lost' = [lost EXCEPT ![cur] = @ + 1]
    /\ EndVisit
    /\ UNCHANGED <<disk, mem, todo, config, goal, runtime, failures,
                   disturbances, asked>>

\* The process dies, or the connection does and the pass is given up.
Crash ==
    /\ pc # "idle"
    /\ Fault
    /\ pc' = "idle"
    /\ todo' = {}
    /\ ClearVisit
    /\ lost' = IF pc = "started" THEN [lost EXCEPT ![cur] = @ + 1] ELSE lost
    /\ UNCHANGED <<disk, mem, config, serverVars, runtime, failures,
                   disturbances, asked, wakes, policyRun>>

-----------------------------------------------------------------------------
(* request-desktop-recovery, the users and the App Server. *)

Disturb == disturbances < MaxDisturbances /\ disturbances' = disturbances + 1

Enqueued(t) ==
    /\ Disturb
    /\ disk' = [disk EXCEPT !.requests = @ \cup {t}]
    /\ asked' = asked \cup {t}
    /\ UNCHANGED <<passVars, moved, config, serverVars, runtime, failures,
                   faults, wakes, policyRun, lost>>

\* Variant: the request does not wait for the state lock.
RequestRecoveryUnlocked(t) == Enqueued(t)

\* The request waits for the state lock, which a pass holds to its end.
RequestRecovery(t) == pc = "idle" /\ Enqueued(t)

UserTurn(t) ==
    /\ Disturb
    /\ ~thread[t].active
    /\ OtherTurnBegins(t)
    /\ UNCHANGED <<disk, passVars, config, goal, runtime, failures, faults,
                   asked, wakes, lost>>

\* A heartbeat turn is active but no evidence.
Heartbeat(t) ==
    /\ Disturb
    /\ ~thread[t].active
    /\ thread' = [thread EXCEPT ![t].active = TRUE]
    /\ moved' = (moved \/ t = cur)
    /\ UNCHANGED <<disk, passVars, config, goal, runtime, failures, faults,
                   ghostVars>>

HeartbeatEnds(t) ==
    /\ thread[t].active
    /\ ~HasInProgress(thread[t].turns)
    /\ thread' = [thread EXCEPT ![t].active = FALSE]
    /\ UNCHANGED <<disk, passVars, config, goal, runtime, boundVars, ghostVars,
                   moved>>

\* A heartbeat turn fails, and with it the Goal.
HeartbeatFails(t) ==
    /\ thread[t].active
    /\ ~HasInProgress(thread[t].turns)
    /\ goal[t] = "active"
    /\ failures < MaxFailures
    /\ failures' = failures + 1
    /\ thread' = [thread EXCEPT ![t].active = FALSE]
    /\ goal' = [goal EXCEPT ![t] = "blocked"]
    /\ UNCHANGED <<disk, passVars, config, runtime, disturbances, faults,
                   ghostVars, moved>>

Ended(h, kind) ==
    [active |-> FALSE, turns |-> [h.turns EXCEPT ![Len(h.turns)] = kind]]

\* A turn ends short of the Goal, which may be blocked by it.
TurnFails(t) ==
    /\ HasInProgress(thread[t].turns)
    /\ failures < MaxFailures
    /\ failures' = failures + 1
    /\ \E kind \in EndKinds :
         thread' = [thread EXCEPT ![t] = Ended(@, kind)]
    /\ \E status \in {"active", "blocked", "usageLimited"} :
         goal' = [goal EXCEPT ![t] = IF @ = "active" THEN status ELSE @]
    /\ UNCHANGED <<disk, passVars, config, runtime, disturbances, faults,
                   ghostVars, moved>>

\* A turn completes the Goal.
TurnCompletes(t) ==
    /\ HasInProgress(thread[t].turns)
    /\ thread' = [thread EXCEPT ![t] = Ended(@, "completed")]
    /\ goal' = [goal EXCEPT ![t] = "other"]
    /\ UNCHANGED <<disk, passVars, config, runtime, boundVars, ghostVars, moved>>

\* A user pauses or resumes the Goal.
GoalChanges(t) ==
    /\ Disturb
    /\ goal' = [goal EXCEPT ![t] = IF @ = "other" THEN "active" ELSE "other"]
    /\ moved' = (moved \/ t = cur)
    /\ UNCHANGED <<disk, passVars, config, thread, runtime, failures, faults,
                   ghostVars>>

RuntimeLeaves ==
    /\ Disturb
    /\ runtime
    /\ runtime' = FALSE
    /\ UNCHANGED <<disk, passVars, config, serverVars, failures, faults,
                   ghostVars, moved>>

RuntimeReturns ==
    /\ ~runtime
    /\ runtime' = TRUE
    /\ UNCHANGED <<disk, passVars, config, serverVars, boundVars, ghostVars,
                   moved>>

-----------------------------------------------------------------------------
Decide ==
    \/ RuntimeLeft \/ WakeActiveGoal \/ GoalAlreadyActive \/ GoalNotRecoverable
    \/ \E s \in {"first", "fresh"} : Wait(s) \/ Refuse(s)
    \/ PolicyExhausted \/ Recovered \/ ReadAgain
Reactivate ==
    \/ EvidenceChanged \/ PrepareReactivation \/ ReactivateGoal
    \/ ConfirmFails \/ ConfirmGoal
Wake ==
    \/ WakeGoalChanged \/ WakeActive \/ RequestResume \/ ResumeThread
    \/ ObserveAgain \/ PrepareStart
    \/ PolicyCalledOff \/ PreparePolicyStart
    \/ StartTurn \/ RecordStart
Pass ==
    \/ BeginPass \/ EndPass
    \/ \E t \in Threads : Visit(t)
    \/ ReadThread \/ Decide \/ Reactivate \/ Wake
TurnEnds(t) ==
    HeartbeatEnds(t) \/ HeartbeatFails(t) \/ TurnFails(t) \/ TurnCompletes(t)
World ==
    \/ \E t \in Threads :
         \/ RequestRecovery(t) \/ UserTurn(t) \/ Heartbeat(t) \/ TurnEnds(t)
         \/ GoalChanges(t)
    \/ RuntimeLeaves \/ RuntimeReturns

Next == Pass \/ World \/ CallFails \/ StartReplyLost \/ Crash

Spec == Init /\ [][Next]_vars

\* The watcher keeps running passes and a pass goes on, turns end, and Desktop
\* comes back to the shared App Server.
FairSpec ==
    /\ Spec
    /\ WF_vars(Pass)
    /\ WF_vars(RuntimeReturns)
    /\ \A t \in Threads : WF_vars(TurnEnds(t))

-----------------------------------------------------------------------------
(* Properties. *)

TypeOK ==
    /\ config \in Configs
    /\ {disk.requests, mem.requests} \subseteq SUBSET Threads
    /\ \A t \in Threads : {disk.direct[t], mem.direct[t]} \subseteq DirectRecords
    /\ pc \in {"idle", "visits", "thread", "goal", "set", "confirm", "resume",
               "start", "started"}
    /\ todo \subseteq Threads
    /\ cur \in Threads \cup {None}
    /\ stage \in Stages
    /\ view \in ThreadStates
    /\ {evidence, startedId} \subseteq Nat
    /\ {retry, runtime, moved} \subseteq BOOLEAN
    /\ thread \in [Threads -> ThreadStates]
    /\ goal \in [Threads -> GoalStates]
    /\ failures \in 0 .. MaxFailures
    /\ disturbances \in 0 .. MaxDisturbances
    /\ faults \in 0 .. MaxFaults
    /\ asked \subseteq Threads
    /\ wakes \in [Threads -> Seq(Nat)]
    /\ policyRun \in [Threads -> Nat]
    /\ lost \in [Threads -> 0 .. MaxFaults]

\* A request that request-desktop-recovery has acknowledged stays in the state
\* file until a pass has decided on it, whatever the pass saves meanwhile and
\* wherever it dies.
RequestNeverLost == asked \subseteq disk.requests

\* The same failed turn does not start the same continuation twice, unless the
\* record of the start was lost: not after crashes elsewhere, Goal changes,
\* empty interrupted turns or a heartbeat in between.
OneStartPerEvidence ==
    \A t \in Threads : \A e \in 1 .. Len(thread[t].turns) :
        Cardinality({i \in DOMAIN wakes[t] : wakes[t][i] = e}) <= 1 + lost[t]

\* A policy continuation that is rejected in its turn is not followed by
\* another one.
SecondRejectionIsFinal == \A t \in Threads : policyRun[t] <= 1

\* Guardian overrides a Goal that is neither blocked nor usage-limited, or
\* starts a turn over a running one, only when it changed after the last read.
ChangesOnlyInResidualWindow ==
    [][/\ pc = "set" /\ pc' = "confirm" =>
            goal[cur] \in RecoverableGoals \/ moved
       /\ wakes' # wakes =>
            ~thread[cur].active \/ moved]_vars

\* A watched thread that has stopped with evidence to recover from does not
\* stay so for ever, failures and crashes notwithstanding: its Goal is set
\* active, and the thread is woken.
Unattended(t) ==
    LET r == disk.direct[t]
        p == PendingEvidence(disk, t)
        e == Candidate(thread[t].turns, p)
    IN  /\ Direct(t) /\ config.starts /\ runtime /\ ~thread[t].active
        /\ \/ /\ goal[t] = "active"
              /\ WakePending(r, Continuity(t, thread[t], p))
           \/ /\ Verdict(t, thread[t], goal[t], p) = "eligible"
              /\ ~AlreadyRecovered(r, e)
           \/ /\ Verdict(t, thread[t], goal[t], p) = "policy"
              /\ ~AlreadyRecovered(r, e)
              /\ r.recovery_turn_id # e
StoppedThreadsAttended == \A t \in Threads : []<>~Unattended(t)

\* A request for a thread that is not watched is decided on at last.
RequestsDecided ==
    \A t \in Threads : t \in asked /\ ~Direct(t) ~> t \notin asked

=============================================================================
