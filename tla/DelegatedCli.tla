---------------------------- MODULE DelegatedCli ----------------------------
(***************************************************************************)
(* A cli_turn target with delegated_continuity_enabled: every healthy pass *)
(* continues each Goal whose Codex CLI is gone, once per turn that ended,  *)
(* in an App Server of its own (_supervise_delegated_cli).                 *)
(*                                                                         *)
(* disk is what StateStore.save last wrote, mem the copy of the pass.  The *)
(* pass reads a thread four times and its Goal twice before it starts a    *)
(* turn; users, the CLI and the App Server act between any two calls.      *)
(* Threads are those the target's thread/list returns.                     *)
(***************************************************************************)
EXTENDS ProcessOwnership

CONSTANTS
    Threads,
    AllowedThreads,   \* threads whose source is in allowed_sources
    PassModes,        \* the dry_run values passes are started with
    CapacityEnabled,  \* model_capacity_fallback_models is not empty
    MaxTurns,         \* bound on the turns a thread's Goal needs
    MaxDisturbances,  \* bound on what users and the CLI do
    MaxFaults         \* bound on failed calls and crashes

ASSUME DelegatedAssumption ==
    /\ AllowedThreads \subseteq Threads
    /\ PassModes \subseteq BOOLEAN
    /\ CapacityEnabled \in BOOLEAN
    /\ MaxTurns \in Nat \ {0}
    /\ MaxDisturbances \in Nat
    /\ MaxFaults \in Nat

Nobody == "nobody"

\* How a turn stands: "ended" is completed, interrupted or failed for any
\* reason other than a prompt policy rejection or a full model.
TurnEnds == {"ended", "policy", "capacity"}
TurnIds == 0 .. MaxTurns + 1 + MaxFaults
Turns == [id : TurnIds, status : TurnEnds \cup {"none", "inProgress"}]
NoTurn == [id |-> 0, status |-> "none"]

\* "stopped" is blocked or usageLimited, "held" paused, complete or
\* budgetLimited, "none" no Goal at all.
Goals == {"none", "active", "stopped", "held"}
Continuable == {"active", "stopped"}

\* What one thread is to the App Server: status "active" or not, its last
\* turn and the one before, stale for max_thread_age_seconds or not, and the
\* whole second its summary shows (_timestamp_seconds).
ThreadStates ==
    [active : BOOLEAN, last : Turns, before : Turns, stale : BOOLEAN,
     updated : Nat]

NewThread(turn) ==
    [active |-> FALSE, last |-> turn, before |-> NoTurn, stale |-> FALSE,
     updated |-> 0]

\* delegated_cli_recoveries
Records ==
    [action : {"none", "no_goal_observed", "continuation_started",
               "continuation_settled"},
     summary_updated_at : Nat,
     evidence_turn_id : TurnIds,
     recovery_turn_id : TurnIds]

NoRecord ==
    [action |-> "none", summary_updated_at |-> 0, evidence_turn_id |-> 0,
     recovery_turn_id |-> 0]

NoGoalRecord(at) ==
    [NoRecord EXCEPT !.action = "no_goal_observed", !.summary_updated_at = at]

Continuation(step, evidence, recovery) ==
    [NoRecord EXCEPT !.action = step, !.evidence_turn_id = evidence,
                     !.recovery_turn_id = recovery]

\* A turn a pass started, or took for one it started, to go on from evidence.
Recoveries == [evidence : TurnIds, turn : TurnIds]

PassPoints ==
    {"list", "next", "read", "reread", "regoal", "reactivate", "resume",
     "resumed", "start", "record", "settle", "settleGoal", "close"}

VARIABLES
    disk,          \* persisted records
    mem,           \* the pass's copy of them
    pc,            \* where the pass stands
    dry,           \* dry_run of the pass
    todo,          \* summaries that pass the filters and are not visited yet
    listed,        \* timestamps the summaries showed
    cur,           \* thread being visited
    seenGoal,      \* status of the last thread/goal/get of cur
    seenActive,    \* activity of the last thread/read of cur
    evidence,      \* evidence_turn_id
    recovery,      \* recovery_turn_id
    idleSeen,      \* idle_observations of _wait_until_settled
    thread,        \* App Server: each thread
    goal,          \* App Server: status of each Goal
    used,          \* App Server: turn ids given out per thread
    loaded,        \* threads resumed in the pass's App Server
    hosted,        \* threads whose running turn runs in that App Server
    accounted,     \* the Goal of cur counts what it counted when last read
    disturbances,  \* used part of MaxDisturbances
    faults,        \* used part of MaxFaults
    begun,         \* ghost: a turn began on cur since the last thread/read
    goalMoved,     \* ghost: its Goal changed since the last thread/goal/get
    recoveries,    \* ghost: each thread's recoveries since it had no Goal
    untold         \* ghost: those a lost answer or a crash kept from the ledger

passVars == <<dry, todo, listed, cur, seenGoal, seenActive, evidence,
              recovery, idleSeen>>
worldVars == <<thread, goal, used, loaded, hosted, accounted>>
budgetVars == <<disturbances, faults>>
ledgerGhosts == <<recoveries, untold>>
ghostVars == <<begun, goalMoved, ledgerGhosts>>

vars == <<disk, mem, pc, passVars, worldVars, probeVars, budgetVars,
          ghostVars>>

-----------------------------------------------------------------------------
ForgetPass ==
    /\ pc' = "idle"
    /\ dry' = FALSE
    /\ todo' = {}
    /\ listed' = [t \in Threads |-> 0]
    /\ cur' = Nobody
    /\ seenGoal' = "none"
    /\ seenActive' = FALSE
    /\ evidence' = 0
    /\ recovery' = 0
    /\ idleSeen' = 0
    /\ accounted' = TRUE
    /\ begun' = FALSE
    /\ goalMoved' = FALSE

Init ==
    /\ ProbeInit
    /\ disk = [t \in Threads |-> NoRecord]
    /\ mem = disk
    /\ pc = "idle"
    /\ dry = FALSE
    /\ todo = {}
    /\ listed = [t \in Threads |-> 0]
    /\ cur = Nobody
    /\ seenGoal = "none"
    /\ seenActive = FALSE
    /\ evidence = 0
    /\ recovery = 0
    /\ idleSeen = 0
    /\ thread \in [Threads ->
                    {NewThread([id |-> 1, status |-> s]) :
                       s \in {"ended", "policy"}}]
    /\ goal \in [Threads -> {"none", "active"}]
    /\ used = [t \in Threads |-> 1]
    /\ loaded = {}
    /\ hosted = {}
    /\ accounted = TRUE
    /\ disturbances = 0
    /\ faults = 0
    /\ begun = FALSE
    /\ goalMoved = FALSE
    /\ recoveries = [t \in Threads |-> {}]
    /\ untold = [t \in Threads |-> {}]

-----------------------------------------------------------------------------
(* Saving: save_delegated_cli_recovery, then store.save. *)

Write(t, record) ==
    /\ mem' = [mem EXCEPT ![t] = record]
    /\ disk' = [mem EXCEPT ![t] = record]

Recovers(t, turn) ==
    recoveries' = [recoveries EXCEPT
                     ![t] = @ \cup {[evidence |-> evidence, turn |-> turn]}]

\* The recovery of this visit that the state file does not tell of yet.
Unsaved(t) ==
    {r \in Recoveries :
       /\ t = cur /\ recovery # 0
       /\ disk[t].evidence_turn_id # evidence
       /\ r = [evidence |-> evidence, turn |-> recovery]}

-----------------------------------------------------------------------------
(* The start of a pass: the process probe, then thread/list. *)

\* A CLI of the target runs, or the kept list says so.
LeaveToCli ==
    /\ pc = "idle"
    /\ Answer(TRUE)
    /\ UNCHANGED <<disk, mem, pc, passVars, worldVars, budgetVars, ghostVars>>

BeginPass(mode) ==
    /\ pc = "idle"
    /\ Answer(FALSE)
    /\ mem' = disk
    /\ dry' = mode
    /\ pc' = "list"
    /\ UNCHANGED <<disk, todo, listed, cur, seenGoal, seenActive, evidence,
                   recovery, idleSeen, worldVars, budgetVars, ghostVars>>

\* The query of the processes times out and an old list answers.
BeginPassOnOldList(mode) ==
    /\ pc = "idle"
    /\ faults < MaxFaults
    /\ faults' = faults + 1
    /\ AnswerAfterTimeout(FALSE)
    /\ mem' = disk
    /\ dry' = mode
    /\ pc' = "list"
    /\ UNCHANGED <<disk, todo, listed, cur, seenGoal, seenActive, evidence,
                   recovery, idleSeen, worldVars, disturbances, ghostVars>>

\* The probe raises: run_once and the watcher end.
PassRaises ==
    /\ pc = "idle"
    /\ faults < MaxFaults
    /\ faults' = faults + 1
    /\ ProbeRaises
    /\ ForgetList
    /\ UNCHANGED <<disk, mem, pc, passVars, worldVars, disturbances,
                   ghostVars>>

\* Variant: once without a Goal, always without.
GoallessForEver(t) == mem[t].action = "no_goal_observed"

\* The summary shows the second it showed when the thread had no Goal: what
\* happened later in that second goes unseen.
KnownGoalless(t) ==
    /\ mem[t].action = "no_goal_observed"
    /\ mem[t].summary_updated_at = thread[t].updated

\* thread/list; foreign, stale and known goalless summaries are passed over.
ListThreads ==
    /\ pc = "list"
    /\ todo' = {t \in AllowedThreads :
                  ~thread[t].stale /\ ~KnownGoalless(t)}
    /\ listed' = [t \in Threads |-> thread[t].updated]
    /\ pc' = "next"
    /\ UNCHANGED <<disk, mem, dry, cur, seenGoal, seenActive, evidence,
                   recovery, idleSeen, worldVars, probeVars, budgetVars,
                   ghostVars>>

-----------------------------------------------------------------------------
(* One visit of the loop: the first look. *)

NextThread ==
    /\ pc' = "next"
    /\ seenGoal' = "none"
    /\ seenActive' = FALSE
    /\ evidence' = 0
    /\ recovery' = 0
    /\ idleSeen' = 0
    /\ accounted' = TRUE
    /\ begun' = FALSE
    /\ goalMoved' = FALSE

\* thread/goal/get finds no Goal: remembered under the summary's timestamp.
\* The record of an earlier continuation is replaced.
ObserveNoGoal(t) ==
    /\ pc = "next"
    /\ t \in todo
    /\ goal[t] = "none"
    /\ todo' = todo \ {t}
    /\ cur' = t
    /\ IF dry
       THEN UNCHANGED <<disk, mem, ledgerGhosts>>
       ELSE /\ Write(t, NoGoalRecord(listed[t]))
            /\ recoveries' = [recoveries EXCEPT ![t] = {}]
            /\ untold' = [untold EXCEPT ![t] = {}]
    /\ NextThread
    /\ UNCHANGED <<dry, listed, thread, goal, used, loaded, hosted, probeVars,
                   budgetVars>>

GetGoal(t) ==
    /\ pc = "next"
    /\ t \in todo
    /\ goal[t] # "none"
    /\ todo' = todo \ {t}
    /\ cur' = t
    /\ seenGoal' = goal[t]
    /\ accounted' = TRUE
    /\ goalMoved' = FALSE
    /\ begun' = FALSE
    /\ pc' = "read"
    /\ UNCHANGED <<disk, mem, dry, listed, seenActive, evidence, recovery,
                   idleSeen, thread, goal, used, loaded, hosted, probeVars,
                   budgetVars, ledgerGhosts>>

\* _delegated_cli_eligibility on what thread/read and thread/goal/get say.
Eligible(seen, status) ==
    /\ status \in Continuable
    /\ ~seen.stale
    /\ ~seen.active
    /\ seen.last.status \in TurnEnds
    /\ CapacityEnabled => seen.last.status # "capacity"

\* prompt_policy_retry_exhausted: the rejected turn is itself a recovery.
PolicyExhausted(t, turn) ==
    /\ turn.status = "policy"
    /\ mem[t].recovery_turn_id = turn.id

\* already_recovered_turn
AlreadyRecovered(t, turn) == mem[t].evidence_turn_id = turn.id

\* Variants: a rejected recovery, or a turn already continued, is taken on.
MayContinueRejected(t, seen, status) ==
    /\ Eligible(seen, status)
    /\ ~AlreadyRecovered(t, seen.last)

MayContinueAgain(t, seen, status) ==
    /\ Eligible(seen, status)
    /\ ~PolicyExhausted(t, seen.last)

MayContinue(t, seen, status) ==
    /\ Eligible(seen, status)
    /\ ~PolicyExhausted(t, seen.last)
    /\ ~AlreadyRecovered(t, seen.last)

SkipThread ==
    /\ pc = "read"
    /\ dry \/ ~MayContinue(cur, thread[cur], seenGoal)
    /\ NextThread
    /\ UNCHANGED <<disk, mem, dry, todo, listed, cur, thread, goal, used,
                   loaded, hosted, probeVars, budgetVars, ledgerGhosts>>

\* thread/read shows a turn to continue.
ChooseEvidence ==
    /\ pc = "read"
    /\ ~dry
    /\ MayContinue(cur, thread[cur], seenGoal)
    /\ evidence' = thread[cur].last.id
    /\ begun' = FALSE
    /\ pc' = "reread"
    /\ UNCHANGED <<disk, mem, dry, todo, listed, cur, seenGoal, seenActive,
                   recovery, idleSeen, worldVars, probeVars, budgetVars,
                   goalMoved, ledgerGhosts>>

\* The fresh thread/read still shows that evidence.  It is held against the
\* fresh thread/goal/get, so only what it says of the thread is kept here.
FreshRead ==
    /\ pc = "reread"
    /\ Eligible(thread[cur], "active")
    /\ thread[cur].last.id = evidence
    /\ begun' = FALSE
    /\ pc' = "regoal"
    /\ UNCHANGED <<disk, mem, passVars, worldVars, probeVars, budgetVars,
                   goalMoved, ledgerGhosts>>

FreshReadDiffers ==
    /\ pc = "reread"
    /\ \/ ~Eligible(thread[cur], "active")
       \/ thread[cur].last.id # evidence
    /\ NextThread
    /\ UNCHANGED <<disk, mem, dry, todo, listed, cur, thread, goal, used,
                   loaded, hosted, probeVars, budgetVars, ledgerGhosts>>

\* Variant: the fresh Goal only has to exist.
FreshGoalUnchecked ==
    /\ pc = "regoal"
    /\ seenGoal' = goal[cur]
    /\ accounted' = TRUE
    /\ goalMoved' = FALSE
    /\ pc' = IF goal[cur] = "stopped" THEN "reactivate" ELSE "resume"
    /\ UNCHANGED <<disk, mem, dry, todo, listed, cur, seenActive, evidence,
                   recovery, idleSeen, thread, goal, used, loaded, hosted,
                   probeVars, budgetVars, begun, ledgerGhosts>>

FreshGoal ==
    /\ pc = "regoal"
    /\ goal[cur] \in Continuable
    /\ seenGoal' = goal[cur]
    /\ accounted' = TRUE
    /\ goalMoved' = FALSE
    /\ pc' = IF goal[cur] = "stopped" THEN "reactivate" ELSE "resume"
    /\ UNCHANGED <<disk, mem, dry, todo, listed, cur, seenActive, evidence,
                   recovery, idleSeen, thread, goal, used, loaded, hosted,
                   probeVars, budgetVars, begun, ledgerGhosts>>

FreshGoalHeld ==
    /\ pc = "regoal"
    /\ goal[cur] \notin Continuable
    /\ NextThread
    /\ UNCHANGED <<disk, mem, dry, todo, listed, cur, thread, goal, used,
                   loaded, hosted, probeVars, budgetVars, ledgerGhosts>>

-----------------------------------------------------------------------------
(* One visit of the loop: the mutations. *)

ServerSetsGoal ==
    /\ goal[cur] # "none"
    /\ goal' = [goal EXCEPT ![cur] = "active"]

\* thread/goal/set, and an answer that preserves what the Goal counted.
ReactivateGoal ==
    /\ pc = "reactivate"
    /\ accounted
    /\ ServerSetsGoal
    /\ pc' = "resume"
    /\ UNCHANGED <<disk, mem, passVars, thread, used, loaded, hosted,
                   accounted, probeVars, budgetVars, ghostVars>>

\* _verify_goal_reactivation raises, after the Goal was set: the pass ends.
ReactivationDiffers ==
    /\ pc = "reactivate"
    /\ ~accounted
    /\ ServerSetsGoal
    /\ pc' = "close"
    /\ UNCHANGED <<disk, mem, passVars, thread, used, loaded, hosted,
                   accounted, probeVars, budgetVars, ghostVars>>

\* The Goal was cleared: the server refuses.
ReactivationRefused ==
    /\ pc = "reactivate"
    /\ goal[cur] = "none"
    /\ pc' = "close"
    /\ UNCHANGED <<disk, mem, passVars, worldVars, probeVars, budgetVars,
                   ghostVars>>

ServerResumes == loaded' = loaded \cup {cur}

ResumeThread ==
    /\ pc = "resume"
    /\ ServerResumes
    /\ pc' = "resumed"
    /\ UNCHANGED <<disk, mem, passVars, thread, goal, used, hosted, accounted,
                   probeVars, budgetVars, ghostVars>>

\* thread/read after resume_grace_seconds: a turn runs, so it is taken for
\* the recovery turn.  The Goal is not read again.
FollowResumedTurn ==
    /\ pc = "resumed"
    /\ thread[cur].active
    /\ recovery' = thread[cur].last.id
    /\ Recovers(cur, recovery')
    /\ begun' = FALSE
    /\ pc' = "record"
    /\ UNCHANGED <<disk, mem, dry, todo, listed, cur, seenGoal, seenActive,
                   evidence, idleSeen, worldVars, probeVars, budgetVars,
                   goalMoved, untold>>

PrepareStart ==
    /\ pc = "resumed"
    /\ ~thread[cur].active
    /\ begun' = FALSE
    /\ pc' = "start"
    /\ UNCHANGED <<disk, mem, passVars, worldVars, probeVars, budgetVars,
                   goalMoved, ledgerGhosts>>

\* The second the summary shows is held by the list of the pass or by a record.
Remembered(t) ==
    \/ t \in todo /\ listed[t] = thread[t].updated
    \/ /\ mem[t].action = "no_goal_observed"
       /\ mem[t].summary_updated_at = thread[t].updated

\* What the summary shows after activity: a later second, or the same one.
\* Nothing tells the two apart unless the old second is remembered.
Seconds(t) ==
    {second \in {thread[t].updated, thread[t].updated + 1} :
       second = thread[t].updated => Remembered(t)}

TurnBegins(t) ==
    /\ used' = [used EXCEPT ![t] = @ + 1]
    /\ \E second \in Seconds(t) :
         thread' = [thread EXCEPT
           ![t] = [@ EXCEPT
             !.active = TRUE,
             !.before = thread[t].last,
             !.last = [id |-> used[t] + 1, status |-> "inProgress"],
             !.stale = FALSE,
             !.updated = second]]
    /\ begun' = (begun \/ t = cur)
    /\ accounted' = (accounted /\ t # cur)

ServerStartsTurn ==
    /\ TurnBegins(cur)
    /\ hosted' = hosted \cup {cur}

StartTurn ==
    /\ pc = "start"
    /\ ServerStartsTurn
    /\ recovery' = used[cur] + 1
    /\ Recovers(cur, recovery')
    /\ pc' = "record"
    /\ UNCHANGED <<disk, mem, dry, todo, listed, cur, seenGoal, seenActive,
                   evidence, idleSeen, goal, loaded, probeVars, budgetVars,
                   goalMoved, untold>>

\* Variant: the pass does not wait for the turn it recorded.
RecordStartAndLeave ==
    /\ pc = "record"
    /\ Write(cur, Continuation("continuation_started", evidence, recovery))
    /\ NextThread
    /\ UNCHANGED <<dry, todo, listed, cur, thread, goal, used, loaded, hosted,
                   probeVars, budgetVars, ledgerGhosts>>

RecordStart ==
    /\ pc = "record"
    /\ Write(cur, Continuation("continuation_started", evidence, recovery))
    /\ pc' = "settle"
    /\ UNCHANGED <<passVars, worldVars, probeVars, budgetVars, ghostVars>>

\* _wait_until_settled: thread/read, then thread/goal/get, until the thread
\* was seen idle twice in a row.
PollThread ==
    /\ pc = "settle"
    /\ seenActive' = thread[cur].active
    /\ begun' = FALSE
    /\ pc' = "settleGoal"
    /\ UNCHANGED <<disk, mem, dry, todo, listed, cur, seenGoal, evidence,
                   recovery, idleSeen, worldVars, probeVars, budgetVars,
                   goalMoved, ledgerGhosts>>

\* Variant: activity does not reset the idle observations.
KeepCounting ==
    /\ pc = "settleGoal"
    /\ seenActive \/ idleSeen = 0
    /\ idleSeen' = idleSeen + 1
    /\ pc' = "settle"
    /\ UNCHANGED <<disk, mem, dry, todo, listed, cur, seenGoal, seenActive,
                   evidence, recovery, worldVars, probeVars, budgetVars,
                   ghostVars>>

KeepPolling ==
    /\ pc = "settleGoal"
    /\ seenActive \/ idleSeen = 0
    /\ idleSeen' = IF seenActive THEN 0 ELSE 1
    /\ pc' = "settle"
    /\ UNCHANGED <<disk, mem, dry, todo, listed, cur, seenGoal, seenActive,
                   evidence, recovery, worldVars, probeVars, budgetVars,
                   ghostVars>>

Settled ==
    /\ pc = "settleGoal"
    /\ ~seenActive
    /\ idleSeen = 1
    /\ Write(cur, Continuation("continuation_settled", evidence, recovery))
    /\ NextThread
    /\ UNCHANGED <<dry, todo, listed, cur, thread, goal, used, loaded, hosted,
                   probeVars, budgetVars, ledgerGhosts>>

-----------------------------------------------------------------------------
(* The end of a pass: the App Server goes, and with it its running turns. *)

\* A turn whose App Server died is interrupted, or left inProgress, or was
\* never written to the thread's history at all.
Abandoned(t) ==
    {[thread[t] EXCEPT !.active = FALSE, !.last.status = "ended"],
     [thread[t] EXCEPT !.active = FALSE],
     [thread[t] EXCEPT !.active = FALSE, !.last = thread[t].before,
                       !.before = NoTurn]}

ServerDies ==
    /\ \E after \in [hosted -> UNION {Abandoned(t) : t \in hosted}] :
         /\ \A t \in hosted : after[t] \in Abandoned(t)
         /\ thread' = [t \in Threads |->
                         IF t \in hosted THEN after[t] ELSE thread[t]]
    /\ loaded' = {}
    /\ hosted' = {}

PassEnds ==
    /\ \/ pc = "next" /\ todo = {}
       \/ pc = "close"
    /\ disk' = mem
    /\ UNCHANGED mem
    /\ ServerDies
    /\ ForgetPass
    /\ UNCHANGED <<goal, used, probeVars, budgetVars, ledgerGhosts>>

-----------------------------------------------------------------------------
(* Failures. *)

Fault ==
    /\ faults < MaxFaults
    /\ faults' = faults + 1

\* A call fails: the try block is around the whole loop, so the pass ends
\* for every thread it has not visited.
CallFails ==
    /\ pc \in PassPoints \ {"record", "close"}
    /\ Fault
    /\ pc' = "close"
    /\ UNCHANGED <<disk, mem, passVars, worldVars, probeVars, disturbances,
                   ghostVars>>

\* The call is carried out and its answer lost.
ReplyLost ==
    /\ Fault
    /\ \/ /\ pc = "reactivate"
          /\ ServerSetsGoal
          /\ UNCHANGED <<thread, used, loaded, hosted, accounted, begun,
                         ledgerGhosts>>
       \/ /\ pc = "resume"
          /\ ServerResumes
          /\ UNCHANGED <<thread, goal, used, hosted, accounted, begun,
                         ledgerGhosts>>
       \/ /\ pc = "start"
          /\ ServerStartsTurn
          /\ Recovers(cur, used[cur] + 1)
          /\ untold' = [untold EXCEPT
                ![cur] = @ \cup {[evidence |-> evidence,
                                  turn |-> used[cur] + 1]}]
          /\ UNCHANGED <<goal, loaded>>
    /\ pc' = "close"
    /\ UNCHANGED <<disk, mem, passVars, probeVars, disturbances, goalMoved>>

\* store.save fails after the record was made: the pass ends, and the save
\* at the end of run_once writes it.
SaveFails ==
    /\ pc = "record"
    /\ Fault
    /\ mem' = [mem EXCEPT ![cur] =
                 Continuation("continuation_started", evidence, recovery)]
    /\ pc' = "close"
    /\ UNCHANGED <<disk, passVars, worldVars, probeVars, disturbances,
                   ghostVars>>

Crash ==
    /\ pc # "idle"
    /\ Fault
    /\ mem' = disk
    /\ UNCHANGED disk
    /\ untold' = [t \in Threads |-> untold[t] \cup Unsaved(t)]
    /\ ServerDies
    /\ ForgetPass
    /\ ForgetList
    /\ UNCHANGED <<goal, used, disturbances, recoveries>>

-----------------------------------------------------------------------------
(* Users, the Codex CLI and the App Server. *)

Disturb ==
    /\ disturbances < MaxDisturbances
    /\ disturbances' = disturbances + 1

guardianVars == <<disk, mem, pc, passVars, faults, ledgerGhosts>>

\* Somebody else starts a turn, outside the pass's App Server.
UserTurn(t) ==
    /\ Disturb
    /\ ~thread[t].active
    /\ used[t] < MaxTurns
    /\ TurnBegins(t)
    /\ UNCHANGED <<guardianVars, goal, loaded, hosted, probeVars, goalMoved>>

\* An App Server goes on with the active Goal of a thread it has loaded.
GoalContinues(t) ==
    /\ t \in loaded
    /\ goal[t] = "active"
    /\ ~thread[t].active
    /\ used[t] < MaxTurns
    /\ TurnBegins(t)
    /\ hosted' = hosted \cup {t}
    /\ UNCHANGED <<guardianVars, goal, loaded, probeVars, disturbances,
                   goalMoved>>

GoalBecomes(t, status) ==
    /\ goal' = [goal EXCEPT ![t] = status]
    /\ goalMoved' = (goalMoved \/ (t = cur /\ status # goal[t]))

\* A turn ends; a Goal that is active goes on, stops or is done.  A Goal
\* needs no more than MaxTurns turns.
TurnEndsOn(t) ==
    /\ thread[t].active
    /\ \E how \in TurnEnds :
         thread' = [thread EXCEPT ![t].active = FALSE, ![t].last.status = how]
    /\ IF used[t] >= MaxTurns /\ goal[t] \in Continuable
       THEN GoalBecomes(t, "held")
       ELSE IF goal[t] # "active" THEN UNCHANGED <<goal, goalMoved>>
       ELSE \E status \in {"active", "stopped", "held"} :
              GoalBecomes(t, status)
    /\ hosted' = hosted \ {t}
    /\ accounted' = (accounted /\ t # cur)
    /\ UNCHANGED <<guardianVars, used, loaded, probeVars, disturbances, begun>>

\* The Goal is set anew, in a thread that shows it by the second.
GoalSet(t) ==
    /\ Disturb
    /\ goal[t] # "active"
    /\ used[t] < MaxTurns
    /\ GoalBecomes(t, "active")
    /\ \E second \in Seconds(t) :
         thread' = [thread EXCEPT ![t].updated = second]
    /\ accounted' = (accounted /\ t # cur)
    /\ UNCHANGED <<guardianVars, used, loaded, hosted, probeVars, begun>>

\* The Goal is paused or cleared.
GoalWithdrawn(t) ==
    /\ Disturb
    /\ \E status \in {"held", "none"} :
         /\ status # goal[t]
         /\ GoalBecomes(t, status)
    /\ UNCHANGED <<guardianVars, thread, used, loaded, hosted, accounted,
                   probeVars, begun>>

\* max_thread_age_seconds pass without activity.  A pass compares with the
\* time it began at, so age matters between passes only.
ThreadAges(t) ==
    /\ pc = "idle"
    /\ Disturb
    /\ ~thread[t].active
    /\ ~thread[t].stale
    /\ thread' = [thread EXCEPT ![t].stale = TRUE]
    /\ UNCHANGED <<guardianVars, goal, used, loaded, hosted, accounted,
                   probeVars, begun, goalMoved>>

CliStarts ==
    /\ Disturb
    /\ CliUp
    /\ UNCHANGED <<guardianVars, worldVars, begun, goalMoved>>

CliExits ==
    /\ CliDown
    /\ UNCHANGED <<guardianVars, worldVars, disturbances, begun, goalMoved>>

ListExpires ==
    /\ ListAges
    /\ UNCHANGED <<guardianVars, worldVars, disturbances, begun, goalMoved>>

-----------------------------------------------------------------------------
PassStep ==
    \/ ListThreads
    \/ \E t \in Threads : ObserveNoGoal(t) \/ GetGoal(t)
    \/ SkipThread \/ ChooseEvidence
    \/ FreshRead \/ FreshReadDiffers \/ FreshGoal \/ FreshGoalHeld
    \/ ReactivateGoal \/ ReactivationDiffers \/ ReactivationRefused
    \/ ResumeThread
    \/ FollowResumedTurn \/ PrepareStart \/ StartTurn \/ RecordStart
    \/ PollThread \/ KeepPolling \/ Settled
    \/ PassEnds

Begin(mode) == BeginPass(mode) \/ BeginPassOnOldList(mode)

Failure == PassRaises \/ CallFails \/ ReplyLost \/ SaveFails \/ Crash

World ==
    \/ \E t \in Threads :
         \/ UserTurn(t) \/ GoalContinues(t) \/ TurnEndsOn(t)
         \/ GoalSet(t) \/ GoalWithdrawn(t) \/ ThreadAges(t)
    \/ CliStarts \/ CliExits \/ ListExpires

Next ==
    \/ LeaveToCli
    \/ \E mode \in PassModes : Begin(mode)
    \/ PassStep
    \/ Failure
    \/ World

Spec == Init /\ [][Next]_vars

-----------------------------------------------------------------------------
(* Type invariant: the records, the pass, the world and the ghosts. *)
TypeOK ==
    /\ disk \in [Threads -> Records]
    /\ mem \in [Threads -> Records]
    /\ pc \in PassPoints \cup {"idle"}
    /\ dry \in BOOLEAN
    /\ todo \subseteq Threads
    /\ listed \in [Threads -> Nat]
    /\ cur \in Threads \cup {Nobody}
    /\ seenGoal \in Goals
    /\ seenActive \in BOOLEAN
    /\ evidence \in TurnIds
    /\ recovery \in TurnIds
    /\ idleSeen \in {0, 1}
    /\ thread \in [Threads -> ThreadStates]
    /\ goal \in [Threads -> Goals]
    /\ used \in [Threads -> TurnIds]
    /\ loaded \subseteq Threads
    /\ hosted \subseteq Threads
    /\ accounted \in BOOLEAN
    /\ ProbeTypeOK
    /\ disturbances \in 0 .. MaxDisturbances
    /\ faults \in 0 .. MaxFaults
    /\ begun \in BOOLEAN
    /\ goalMoved \in BOOLEAN
    /\ recoveries \in [Threads -> SUBSET Recoveries]
    /\ untold \in [Threads -> SUBSET Recoveries]

\* The pass starts a turn, whether it learns of it or not.
Starts == pc = "start" /\ cur \in hosted' /\ used'[cur] = used[cur] + 1
          /\ pc' \in {"record", "close"}

(* "It persists one ledger entry per evidence turn and starts at most one   *)
(* deterministic continuation for that turn": a pass continues a turn it    *)
(* continued before only if the ledger was kept from learning of that: the  *)
(* answer to turn/start was lost, or the watcher died before the entry was  *)
(* saved.  A recovery turn lost with its App Server is no exception; the    *)
(* entry is given up when the thread is seen without a Goal.                *)
EvidenceContinuedOnce ==
    [][Starts => \A r \in recoveries[cur] :
                   r.evidence = evidence => r \in untold[cur]]_vars

(* A prompt the policy rejects is tried once more, not for ever: a recovery *)
(* turn that is itself rejected is not continued.  It is only if the ledger *)
(* was kept from learning that it is a recovery, by a lost answer or by a   *)
(* crash before the save: the code knows its own turns by their ids alone,  *)
(* so each such loss allows one more try.                                   *)
RejectedRetryIsLast ==
    [][Starts /\ thread[cur].last.id = evidence
              /\ thread[cur].last.status = "policy"
         => \A r \in recoveries[cur] :
              r.turn = evidence => r \in untold[cur]]_vars

(* "Preserve complete, paused, budget-limited ... Goals": a held Goal is    *)
(* neither set active nor continued, and no turn is started over a running  *)
(* one, unless that came about after the pass's last thread/goal/get, a     *)
(* window that spans the resume and its grace, or its last thread/read.     *)
ChangesOnlyInResidualWindow ==
    [][/\ pc = "reactivate" /\ goal'[cur] # goal[cur] /\ goal[cur] = "held"
            => goalMoved
       /\ Starts /\ goal[cur] \in {"held", "none"} => goalMoved
       /\ Starts /\ thread[cur].active => begun]_vars

(* "Any matching live native CLI process delays takeover": a turn starts    *)
(* while such a CLI runs only if no query of the processes was answered     *)
(* since that CLI came up.                                                  *)
CliKeepsItsThreads ==
    [][Starts /\ cliUp => cliUnseen]_vars

(* A pass that ends by itself closes its App Server only after the turn it  *)
(* recorded has ended: no recovery is cut off by the watcher's own doing.   *)
RecoveryTurnsSeenOut ==
    [][pc = "next" /\ pc' = "idle" /\ mem' = mem =>
         \A t \in hosted :
            thread[t].active => thread[t].last.id # mem[t].recovery_turn_id]_vars

-----------------------------------------------------------------------------
(* Liveness.  The watcher keeps starting real passes and a pass that runs   *)
(* keeps running; turns end, the CLI exits and a list of processes ages.    *)
Fairness ==
    /\ SF_vars(BeginPass(FALSE))
    /\ WF_vars(PassStep)
    /\ \A t \in Threads : WF_vars(TurnEndsOn(t))
    /\ WF_vars(CliExits)
    /\ WF_vars(ListExpires)

FairSpec == Spec /\ Fairness

\* A Goal set in the very second whose summary the thread was remembered
\* goalless under: unseen until the thread shows a later second.
Overlooked(t) ==
    /\ disk[t].action = "no_goal_observed"
    /\ disk[t].summary_updated_at = thread[t].updated

Waits(t) ==
    /\ t \in AllowedThreads
    /\ Eligible(thread[t], goal[t])
    /\ ~Overlooked(t)
    /\ \A r \in recoveries[t] \ untold[t] :
         /\ r.evidence # thread[t].last.id
         /\ thread[t].last.status = "policy" => r.turn # thread[t].last.id

(* Delegated continuity: a stopped turn of a wanted Goal does not wait for  *)
(* ever, though CLIs come and go, calls fail, passes crash, and the thread  *)
(* once had no Goal and was remembered so.  Excepted is a Goal set in the   *)
(* second of that memory: _timestamp_seconds makes the summaries look the   *)
(* same, and the thread is passed over until it moves.                      *)
StoppedGoalsContinued ==
    \A t \in Threads : Waits(t) ~> ~Waits(t)
=============================================================================
