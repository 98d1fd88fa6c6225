--------------------------- MODULE ModelCapacity ---------------------------
(***************************************************************************)
(* _recover_model_capacity of one target: a turn that failed because the   *)
(* selected model is at capacity is retried with exponential backoff, first *)
(* on the thread's own model, then on the configured fallbacks.            *)
(*                                                                         *)
(* Every change of a record is saved before the next call, so the disk is  *)
(* all there is.  A dry run saves nothing and stops at its decision: it is *)
(* a stuttering step.  next_retry_at is kept as the ticks still to wait.   *)
(* Time passes anywhere; up to its decision a pass goes by the time that   *)
(* run_once took when it began, which may be long ago by then: the waits   *)
(* are as of that time, and lag says how long ago it is.                   *)
(*                                                                         *)
(* Turn ids are never reused, so an id matters only as long as it is that  *)
(* of the thread's last turn: it is "last", or "older" once another turn   *)
(* has begun, or "none".                                                   *)
(***************************************************************************)
EXTENDS Naturals, Sequences

CONSTANTS
    Threads,         \* thread ids
    Order,           \* desktop_thread_ids, in the order of the configuration
    AllowedThreads,  \* threads whose source is in allowed_sources
    Modes,           \* recovery_mode values the target may have
    Fallbacks,       \* number of model_capacity_fallback_models
    RetryLimit,      \* model_capacity_retry_limit
    BackoffInitial,  \* model_capacity_backoff_initial_seconds
    BackoffMax,      \* model_capacity_backoff_max_seconds
    MaxDisturbances, \* bound on what users do to threads
    MaxFaults        \* bound on failed calls and crashes

ASSUME CapacityAssumption ==
    /\ AllowedThreads \subseteq Threads
    /\ Order \in Seq(Threads)
    /\ Threads = {Order[i] : i \in DOMAIN Order}
    /\ Modes \subseteq {"cli_turn", "desktop_goal_state"}
    /\ Fallbacks \in Nat \ {0}
    /\ RetryLimit \in Nat \ {0}
    /\ BackoffInitial \in Nat \ {0}
    /\ BackoffMax \in Nat \ {0}
    /\ BackoffInitial <= BackoffMax
    /\ {MaxDisturbances, MaxFaults} \subseteq Nat

None == "none"
TurnIds == {"last", "older", None}
Age(id) == IF id = "last" THEN "older" ELSE id

TurnStates == {"none", "inProgress", "capacity", "otherEnd"}
ThreadViews == [active : BOOLEAN, last : TurnStates]

Actions ==
    {"retry_scheduled", "start_requested", "turn_started", "turn_settled",
     "goal_changed", "fallbacks_exhausted"}

\* Retries of one failure: RetryLimit on each model.
Budget == (Fallbacks + 1) * RetryLimit

\* "none" stands for a thread without a record.
Records ==
    [action : Actions \cup {None},
     failure_turn_id : TurnIds,
     recovery_turn_id : TurnIds,
     model_index : 0 .. Fallbacks,
     attempts_in_model : 0 .. RetryLimit,
     total_attempts : 0 .. Budget,
     capacity_failure_count : 0 .. Budget + 1]

NoRecord ==
    [action |-> None,
     failure_turn_id |-> None,
     recovery_turn_id |-> None,
     model_index |-> 0,
     attempts_in_model |-> 0,
     total_attempts |-> 0,
     capacity_failure_count |-> 0]

VARIABLES
    mode,         \* target.recovery_mode, fixed by the configuration
    record,       \* model_capacity_recoveries, per thread
    wait,         \* ticks until next_retry_at, per thread
    pc,           \* where the pass stands
    cur,          \* thread the pass has chosen
    view,         \* last thread/read of cur
    viewId,       \* id of the last turn of view
    failureId,    \* failure_turn_id of the pass
    startedId,    \* started_turn_id of the pass
    viewStarted,  \* the last turn of view is the one started
    idleSeen,     \* idle_observations of _wait_until_settled
    lag,          \* ticks since the pass took its time, until it decides
    thread,       \* App Server: state of each thread
    goalActive,   \* App Server: threads whose Goal is active
    blocked,      \* a Codex CLI runs, or Desktop left the shared App Server
    disturbances, \* used part of MaxDisturbances
    faults,       \* used part of MaxFaults
    tried,        \* ghost: turn/start in a row since a turn of somebody else
    lost,         \* ghost: failures that lost track of such a turn
    since         \* ghost: ticks since the last turn failed at capacity, or
                  \* since the beginning of the undecided pass it failed under

passVars == <<cur, view, viewId, failureId, startedId, viewStarted, idleSeen,
              lag>>
worldVars == <<mode, thread, goalActive, blocked>>
ghostVars == <<tried, lost, since>>
vars == <<record, wait, pc, passVars, worldVars, disturbances, faults,
          ghostVars>>

-----------------------------------------------------------------------------
(* The records. *)

\* _model_capacity_backoff_seconds: the delay doubles with each failure in a
\* row, up to the maximum.
Backoff(failure_count) ==
    LET delay == BackoffInitial * 2 ^ (failure_count - 1)
    IN  IF delay \in 0 .. BackoffMax THEN delay ELSE BackoffMax

\* _new_model_capacity_record, for the thread's last turn.
NewRecord ==
    [NoRecord EXCEPT
        !.action = "retry_scheduled",
        !.failure_turn_id = "last",
        !.capacity_failure_count = 1]

\* Variant: a failed retry starts the count again.
RescheduledAfresh(r, failed) == [NewRecord EXCEPT !.failure_turn_id = failed]

\* _schedule_observed_capacity_failure
Rescheduled(r, failed) ==
    [r EXCEPT
        !.failure_turn_id = failed,
        !.recovery_turn_id = None,
        !.action = "retry_scheduled",
        !.capacity_failure_count = @ + 1]

\* Variants: the limit is checked one retry late; the attempts are not counted
\* from one on the next model.
NextModelLate(r) ==
    IF r.attempts_in_model > RetryLimit
    THEN r.model_index + 1 ELSE r.model_index
NextAttemptOnwards(r) == r.attempts_in_model + 1

\* The model and the attempt a retry of record r takes.
NextModel(r) ==
    IF r.attempts_in_model >= RetryLimit
    THEN r.model_index + 1 ELSE r.model_index
NextAttempt(r) ==
    IF r.attempts_in_model >= RetryLimit THEN 1 ELSE r.attempts_in_model + 1

\* What is left of waits that are as of the time of the pass.
AsOfNow(ticks) ==
    [t \in Threads |-> IF lag < ticks[t] THEN ticks[t] - lag ELSE 0]

\* save_model_capacity_recovery and store.save, the retry due after a delay.
Save(t, r, delay) ==
    /\ record' = [record EXCEPT ![t] = r]
    /\ wait' = [wait EXCEPT ![t] = delay]

\* The decision of a pass, saved: its delay counts from the time of the pass.
SaveDecision(t, r, delay) ==
    /\ record' = [record EXCEPT ![t] = r]
    /\ wait' = AsOfNow([wait EXCEPT ![t] = delay])

\* model_capacity_eligibility and _model_capacity_failure_turn
HasFailure(t) == thread[t].last = "capacity"
Eligible(t) ==
    /\ t \in goalActive
    /\ ~thread[t].active
    /\ t \in AllowedThreads
    /\ HasFailure(t)

-----------------------------------------------------------------------------
Init ==
    /\ mode \in Modes
    /\ record = [t \in Threads |-> NoRecord]
    /\ wait = [t \in Threads |-> 0]
    /\ pc = "idle"
    /\ cur = None
    /\ view = [active |-> FALSE, last |-> "none"]
    /\ viewId = None
    /\ failureId = None
    /\ startedId = None
    /\ viewStarted = FALSE
    /\ idleSeen = 0
    /\ lag = 0
    /\ thread \in [Threads -> [active : {FALSE}, last : {"none", "capacity"}]]
    /\ goalActive = Threads
    /\ blocked = FALSE
    /\ disturbances = 0
    /\ faults = 0
    /\ tried = [t \in Threads |-> 0]
    /\ lost = [t \in Threads |-> 0]
    /\ since = [t \in Threads |-> 0]

\* The pass returns.
Return ==
    /\ pc' = "idle"
    /\ cur' = None
    /\ view' = [active |-> FALSE, last |-> "none"]
    /\ viewId' = None
    /\ failureId' = None
    /\ startedId' = None
    /\ viewStarted' = FALSE
    /\ idleSeen' = 0
    /\ lag' = 0

-----------------------------------------------------------------------------
(* The decision on the first listed thread with a capacity failure.  The   *)
(* pass returns after it whatever it is.                                   *)

\* run_once takes the time that the pass decides by, then gets on with what
\* comes before: the other targets and the threads without a failure.
BeginPass ==
    /\ pc = "idle"
    /\ pc' = "choose"
    /\ UNCHANGED <<record, wait, passVars, worldVars, disturbances, faults,
                   ghostVars>>

\* A desktop target lists its threads as configured, the others as the App
\* Server orders them.
ListedBefore(u, t) ==
    \E i, j \in DOMAIN Order : i < j /\ Order[i] = u /\ Order[j] = t

FirstListed(t) ==
    /\ HasFailure(t)
    /\ mode = "desktop_goal_state" =>
         \A u \in Threads : ListedBefore(u, t) => ~HasFailure(u)

\* A pass without a failure to look at, or whose thread is not eligible,
\* exhausted or in backoff, ends with nothing changed.
LeavePass ==
    /\ pc = "choose"
    /\ \/ blocked
       \/ \A t \in Threads : ~HasFailure(t)
       \/ \E t \in Threads :
            /\ FirstListed(t)
            /\ \/ ~Eligible(t)
               \/ /\ record[t].failure_turn_id = "last"
                  /\ record[t].action = "fallbacks_exhausted" \/ wait[t] > 0
    /\ wait' = AsOfNow(wait)
    /\ Return
    /\ UNCHANGED <<record, worldVars, disturbances, faults, ghostVars>>

Choose(t) ==
    /\ pc = "choose"
    /\ ~blocked
    /\ FirstListed(t)
    /\ Eligible(t)

\* A failure that no record knows: a new record, whatever there was before.
ScheduleNew(t) ==
    /\ Choose(t)
    /\ record[t].failure_turn_id # "last"
    /\ record[t].recovery_turn_id # "last"
    /\ SaveDecision(t, NewRecord, Backoff(1))
    /\ Return
    /\ UNCHANGED <<worldVars, disturbances, faults, ghostVars>>

\* The turn the record started has failed as well.
ScheduleObserved(t) ==
    /\ Choose(t)
    /\ record[t].recovery_turn_id = "last"
    /\ record[t].failure_turn_id # "last"
    /\ LET r == Rescheduled(record[t], "last")
       IN  SaveDecision(t, r, Backoff(r.capacity_failure_count))
    /\ Return
    /\ UNCHANGED <<worldVars, disturbances, faults, ghostVars>>

\* Variant: next_retry_at is not looked at.
DueAtOnce(t) ==
    /\ Choose(t)
    /\ record[t].failure_turn_id = "last"
    /\ record[t].action # "fallbacks_exhausted"

\* The retry of a recorded failure is due.
Due(t) ==
    /\ Choose(t)
    /\ record[t].failure_turn_id = "last"
    /\ record[t].action # "fallbacks_exhausted"
    /\ wait[t] = 0

\* Variant: the end of the fallbacks is noticed one model late.
ExhaustLate(t) ==
    /\ Due(t)
    /\ NextModel(record[t]) > Fallbacks + 1
    /\ SaveDecision(t, [record[t] EXCEPT !.action = "fallbacks_exhausted"], 0)
    /\ Return
    /\ UNCHANGED <<worldVars, disturbances, faults, ghostVars>>

Exhaust(t) ==
    /\ Due(t)
    /\ NextModel(record[t]) > Fallbacks
    /\ SaveDecision(t, [record[t] EXCEPT !.action = "fallbacks_exhausted"], 0)
    /\ Return
    /\ UNCHANGED <<worldVars, disturbances, faults, ghostVars>>

Attempt(t) ==
    /\ Due(t)
    /\ NextModel(record[t]) <= Fallbacks
    /\ pc' = "check"
    /\ cur' = t
    /\ failureId' = "last"
    /\ wait' = AsOfNow(wait)
    /\ lag' = 0
    /\ UNCHANGED <<record, view, viewId, startedId, viewStarted, idleSeen,
                   worldVars, disturbances, faults, ghostVars>>

-----------------------------------------------------------------------------
(* The retry. *)

\* The thread and its Goal are read again: something has changed.
EvidenceChanged ==
    /\ pc = "check"
    /\ ~(Eligible(cur) /\ failureId = "last")
    /\ Return
    /\ UNCHANGED <<record, wait, worldVars, disturbances, faults, ghostVars>>

\* Nothing has: the attempt is counted and saved before it is made.
RequestStart ==
    /\ pc = "check"
    /\ Eligible(cur)
    /\ failureId = "last"
    /\ LET r == record[cur]
       IN  Save(cur,
                [r EXCEPT
                    !.action = "start_requested",
                    !.model_index = NextModel(r),
                    !.attempts_in_model = NextAttempt(r),
                    !.total_attempts = @ + 1,
                    !.recovery_turn_id = None],
                0)
    /\ pc' = "resume"
    /\ UNCHANGED <<passVars, worldVars, disturbances, faults, ghostVars>>

\* A turn begins on t: every id known of t is older now.
TurnBegins(t) ==
    /\ thread' = [thread EXCEPT ![t] = [active |-> TRUE, last |-> "inProgress"]]
    /\ record' = [record EXCEPT
                    ![t].failure_turn_id = Age(@),
                    ![t].recovery_turn_id = Age(@)]
    /\ since' = [since EXCEPT ![t] = 0]
    /\ IF t = cur
       THEN /\ viewId' = Age(viewId)
            /\ failureId' = Age(failureId)
       ELSE UNCHANGED <<viewId, failureId>>

\* A turn that is not a retry: by a user, or brought online by a resume.
OtherTurnBegins(t) ==
    /\ TurnBegins(t)
    /\ startedId' = IF t = cur THEN Age(startedId) ELSE startedId
    /\ tried' = [tried EXCEPT ![t] = 0]
    /\ lost' = [lost EXCEPT ![t] = 0]

ResumeThread ==
    /\ pc = "resume"
    /\ \/ UNCHANGED <<thread, record, viewId, failureId, startedId, ghostVars>>
       \/ ~thread[cur].active /\ OtherTurnBegins(cur)
    /\ pc' = "reread"
    /\ UNCHANGED <<wait, cur, view, viewStarted, idleSeen, lag, mode,
                   goalActive, blocked, disturbances, faults>>

RereadThread ==
    /\ pc = "reread"
    /\ view' = thread[cur]
    /\ viewId' = "last"
    /\ pc' = "regoal"
    /\ UNCHANGED <<record, wait, cur, failureId, startedId, viewStarted,
                   idleSeen, lag, worldVars, disturbances, faults,
                   ghostVars>>

GoalChanged ==
    /\ pc = "regoal"
    /\ cur \notin goalActive
    /\ Save(cur, [record[cur] EXCEPT !.action = "goal_changed"], 0)
    /\ Return
    /\ UNCHANGED <<worldVars, disturbances, faults, ghostVars>>

\* A turn runs already: it is taken for the retry.
AdoptTurn ==
    /\ pc = "regoal"
    /\ cur \in goalActive
    /\ view.active
    /\ startedId' = viewId
    /\ pc' = "started"
    /\ UNCHANGED <<record, wait, cur, view, viewId, failureId, viewStarted,
                   idleSeen, lag, worldVars, disturbances, faults,
                   ghostVars>>

\* Variant: the thread read after the resume is not looked at.
PrepareStartBlindly ==
    /\ pc = "regoal"
    /\ cur \in goalActive
    /\ pc' = "start"
    /\ UNCHANGED <<record, wait, passVars, worldVars, disturbances, faults,
                   ghostVars>>

PrepareStart ==
    /\ pc = "regoal"
    /\ cur \in goalActive
    /\ ~view.active
    /\ pc' = "start"
    /\ UNCHANGED <<record, wait, passVars, worldVars, disturbances, faults,
                   ghostVars>>

ServerStartsTurn ==
    /\ TurnBegins(cur)
    /\ tried' = [tried EXCEPT ![cur] = @ + 1]

StartTurn ==
    /\ pc = "start"
    /\ ServerStartsTurn
    /\ startedId' = "last"
    /\ pc' = "started"
    /\ UNCHANGED <<wait, cur, view, viewStarted, idleSeen, lag, mode,
                   goalActive, blocked, disturbances, faults, lost>>

\* A desktop target leaves the turn to a later pass.
RecordStart ==
    /\ pc = "started"
    /\ Save(cur, [record[cur] EXCEPT
                    !.action = "turn_started",
                    !.recovery_turn_id = startedId], 0)
    /\ IF mode = "desktop_goal_state"
       THEN Return
       ELSE /\ pc' = "settle"
            /\ UNCHANGED passVars
    /\ UNCHANGED <<worldVars, disturbances, faults, ghostVars>>

\* _wait_until_settled: two idle observations in a row.
PollThread ==
    /\ pc = "settle"
    /\ view' = thread[cur]
    /\ viewId' = "last"
    /\ viewStarted' = (startedId = "last")
    /\ idleSeen' = IF thread[cur].active THEN 0 ELSE idleSeen + 1
    /\ pc' = IF ~thread[cur].active /\ idleSeen = 1 THEN "settled" ELSE "settle"
    /\ UNCHANGED <<record, wait, cur, failureId, startedId, lag, worldVars,
                   disturbances, faults, ghostVars>>

\* This failure is dated when it was seen, not when the pass began.
RetryFailed ==
    /\ pc = "settled"
    /\ view.last = "capacity"
    /\ viewStarted
    /\ LET r == Rescheduled(record[cur], viewId)
       IN  Save(cur, r, Backoff(r.capacity_failure_count))
    /\ Return
    /\ UNCHANGED <<worldVars, disturbances, faults, ghostVars>>

RetrySettled ==
    /\ pc = "settled"
    /\ ~(view.last = "capacity" /\ viewStarted)
    /\ Save(cur, [record[cur] EXCEPT !.action = "turn_settled"], 0)
    /\ Return
    /\ UNCHANGED <<worldVars, disturbances, faults, ghostVars>>

-----------------------------------------------------------------------------
(* Failures of the pass. *)

\* A call fails, or the process dies: either way the record stays as saved.
\* After turn/start and before its turn is saved, the turn is forgotten.
CutShort ==
    /\ pc # "idle"
    /\ faults < MaxFaults
    /\ faults' = faults + 1
    /\ lost' = IF pc = "started" THEN [lost EXCEPT ![cur] = @ + 1] ELSE lost
    /\ wait' = AsOfNow(wait)
    /\ Return
    /\ UNCHANGED <<record, worldVars, disturbances, tried, since>>

\* The turn starts but the answer of turn/start is lost.
StartReplyLost ==
    /\ pc = "start"
    /\ faults < MaxFaults
    /\ faults' = faults + 1
    /\ record' = [record EXCEPT
                    ![cur].failure_turn_id = Age(@),
                    ![cur].recovery_turn_id = Age(@)]
    /\ thread' = [thread EXCEPT
                    ![cur] = [active |-> TRUE, last |-> "inProgress"]]
    /\ since' = [since EXCEPT ![cur] = 0]
    /\ tried' = [tried EXCEPT ![cur] = @ + 1]
    /\ lost' = [lost EXCEPT ![cur] = @ + 1]
    /\ Return
    /\ UNCHANGED <<wait, mode, goalActive, blocked, disturbances>>

\* A call after start_requested fails with the text of a capacity failure:
\* the retry counts as failed, and a turn it had started is forgotten.
RejectedAtCapacity ==
    /\ pc \in {"resume", "reread", "regoal", "start", "started", "settle"}
    /\ faults < MaxFaults
    /\ faults' = faults + 1
    /\ LET r == Rescheduled(record[cur], failureId)
       IN  Save(cur, r, Backoff(r.capacity_failure_count))
    /\ lost' = IF pc \in {"started", "settle"}
               THEN [lost EXCEPT ![cur] = @ + 1] ELSE lost
    /\ since' = [since EXCEPT ![cur] = 0]
    /\ Return
    /\ UNCHANGED <<worldVars, disturbances, tried>>

-----------------------------------------------------------------------------
(* The users, the App Server and the clock. *)

Disturb ==
    /\ disturbances < MaxDisturbances
    /\ disturbances' = disturbances + 1

UserTurn(t) ==
    /\ Disturb
    /\ ~thread[t].active
    /\ OtherTurnBegins(t)
    /\ UNCHANGED <<pc, wait, cur, view, viewStarted, idleSeen, lag, mode,
                   goalActive, blocked, faults>>

TurnEnds(t) ==
    /\ thread[t].active
    /\ \E end \in {"capacity", "otherEnd"} :
         /\ thread' = [thread EXCEPT ![t] = [active |-> FALSE, last |-> end]]
         /\ since' = [since EXCEPT ![t] = IF end = "capacity" THEN lag ELSE 0]
    /\ UNCHANGED <<record, wait, pc, passVars, mode, goalActive, blocked,
                   disturbances, faults, tried, lost>>

GoalChanges(t) ==
    /\ Disturb
    /\ goalActive' = IF t \in goalActive
                     THEN goalActive \ {t} ELSE goalActive \cup {t}
    /\ UNCHANGED <<record, wait, pc, passVars, mode, thread, blocked, faults,
                   ghostVars>>

OwnerComes ==
    /\ Disturb
    /\ ~blocked
    /\ blocked' = TRUE
    /\ UNCHANGED <<record, wait, pc, passVars, mode, thread, goalActive, faults,
                   ghostVars>>

OwnerLeaves ==
    /\ blocked
    /\ blocked' = FALSE
    /\ UNCHANGED <<record, wait, pc, passVars, mode, thread, goalActive,
                   disturbances, faults, ghostVars>>

\* Time counts up to the longest backoff.
Later(ticks) == IF ticks = BackoffMax THEN BackoffMax ELSE ticks + 1

Tick ==
    /\ since' = [t \in Threads |-> IF HasFailure(t) THEN Later(since[t]) ELSE 0]
    /\ IF pc = "choose"
       THEN /\ lag' = Later(lag)
            /\ UNCHANGED wait
       ELSE /\ wait' = [t \in Threads |-> IF wait[t] = 0 THEN 0 ELSE wait[t] - 1]
            /\ UNCHANGED lag
    /\ UNCHANGED <<record, pc, cur, view, viewId, failureId, startedId,
                   viewStarted, idleSeen, worldVars, disturbances, faults,
                   tried, lost>>

-----------------------------------------------------------------------------
Decide ==
    \/ LeavePass
    \/ \E t \in Threads :
         ScheduleNew(t) \/ ScheduleObserved(t) \/ Exhaust(t) \/ Attempt(t)
Retry ==
    \/ EvidenceChanged \/ RequestStart
    \/ ResumeThread \/ RereadThread \/ GoalChanged \/ AdoptTurn
    \/ PrepareStart \/ StartTurn \/ RecordStart
    \/ PollThread \/ RetryFailed \/ RetrySettled
Failure == CutShort \/ StartReplyLost \/ RejectedAtCapacity
World ==
    \/ \E t \in Threads : UserTurn(t) \/ TurnEnds(t) \/ GoalChanges(t)
    \/ OwnerComes \/ OwnerLeaves
    \/ Tick

Next == BeginPass \/ Decide \/ Retry \/ Failure \/ World

Spec == Init /\ [][Next]_vars

\* The watcher keeps running passes, a pass goes on, a turn ends, an owner
\* leaves and time passes.
FairSpec ==
    /\ Spec
    /\ WF_vars(BeginPass)
    /\ WF_vars(Decide)
    /\ WF_vars(Retry)
    /\ WF_vars(Tick)
    /\ WF_vars(OwnerLeaves)
    /\ \A t \in Threads : WF_vars(TurnEnds(t))

-----------------------------------------------------------------------------
(* Properties. *)

TypeOK ==
    /\ mode \in Modes
    /\ record \in [Threads -> Records]
    /\ wait \in [Threads -> 0 .. BackoffMax]
    /\ pc \in {"idle", "choose", "check", "resume", "reread", "regoal", "start",
               "started", "settle", "settled"}
    /\ cur \in Threads \cup {None}
    /\ view \in ThreadViews
    /\ {viewId, failureId, startedId} \subseteq TurnIds
    /\ viewStarted \in BOOLEAN
    /\ idleSeen \in 0 .. 2
    /\ lag \in 0 .. BackoffMax
    /\ thread \in [Threads -> ThreadViews]
    /\ goalActive \subseteq Threads
    /\ blocked \in BOOLEAN
    /\ disturbances \in 0 .. MaxDisturbances
    /\ faults \in 0 .. MaxFaults
    /\ tried \in [Threads -> Nat]
    /\ lost \in [Threads -> 0 .. MaxFaults]
    /\ since \in [Threads -> 0 .. BackoffMax]

\* The counters agree: total_attempts counts the retries on the models before
\* the current one, all used up, and those on it.
AttemptsAddUp ==
    \A t \in Threads :
        LET r == record[t]
        IN  r.total_attempts = r.model_index * RetryLimit + r.attempts_in_model

\* A thread whose model stays at capacity is retried RetryLimit times on each
\* model and then left alone: no sequence of failed retries, failed calls,
\* Goal changes and crashes makes Guardian start turns without end.  A fresh
\* budget is granted only by a turn of somebody else or by a failure between
\* turn/start and the save of its turn.
RetriesBounded ==
    \A t \in Threads : tried[t] <= Budget * (1 + lost[t])

\* The counters survive restarts: failures alone grant no fresh budget.
RetriesSurviveRestart ==
    \A t \in Threads : tried[t] <= Budget

StartsNow == pc = "start" /\ tried'[cur] = tried[cur] + 1

\* A retry comes no sooner after the last capacity failure than the backoff of
\* as many failures in a row.  The pass that schedules it counts the delay from
\* its own beginning (engine.py 309, 815, 839), and so does this: when the turn
\* failed under a pass that had not decided yet, the retry is sooner by the
\* time that pass had been running, and by no more.  A failure that a pass has
\* waited for (1076) or that a call reports (1146) is dated by the clock, and
\* its delay is whole.  A turn that has come and gone on the thread while the
\* pass was on its way from its check to turn/start is not waited for.
BackoffHonoured ==
    [][StartsNow => \/ failureId = "older"
                    \/ since[cur] >= Backoff(record[cur].capacity_failure_count)]_vars

\* A retry starts over a running turn only when that turn began after the last
\* thread/read: the gap between the two calls is the only one.
OverlapOnlyInResidualWindow ==
    [][StartsNow => (thread[cur].active => viewId = "older")]_vars

\* Threads with a failure that a desktop target lists first, or that is the
\* only one, do not wait for ever: the retry is made, or the fallbacks are
\* exhausted.
FirstFailure(t) ==
    \A u \in Threads \ {t} :
        HasFailure(u) => mode = "desktop_goal_state" /\ ListedBefore(t, u)
Exhausted(t) ==
    /\ record[t].action = "fallbacks_exhausted"
    /\ record[t].failure_turn_id = "last"
Waiting(t) == Eligible(t) /\ ~blocked /\ FirstFailure(t) /\ ~Exhausted(t)
RetriedOrExhausted == \A t \in Threads : []<>~Waiting(t)

=============================================================================
