------------------------ MODULE ModelCapacityProofs ------------------------
(***************************************************************************)
(* Proofs about ModelCapacity: the counters of a record agree and stay     *)
(* within their bounds, no thread is given retries without end, the        *)
(* backoff is waited for, and turns overlap only in the residual window.   *)
(***************************************************************************)
EXTENDS ModelCapacity, TLAPS

-----------------------------------------------------------------------------
(* What the two properties need of the types.                              *)

\* Records whose counters have no bound but that of one model.
CountedRecords ==
    [action : Actions \cup {None},
     failure_turn_id : TurnIds,
     recovery_turn_id : TurnIds,
     model_index : Nat,
     attempts_in_model : 0 .. RetryLimit,
     total_attempts : Nat,
     capacity_failure_count : Nat]

CountType ==
    /\ record \in [Threads -> CountedRecords]
    /\ tried \in [Threads -> Nat]
    /\ lost \in [Threads -> Nat]
    /\ pc \notin {"idle", "choose"} => cur \in Threads
    /\ pc \in {"idle", "choose"} => cur = None
    /\ {viewId, failureId, startedId} \subseteq TurnIds

LEMMA Limits ==
    /\ RetryLimit \in Nat \ {0} /\ Fallbacks \in Nat
    /\ Budget \in Nat
    /\ \A n \in Nat : /\ Budget * n \in Nat
                      /\ Budget * (n + 1) = Budget * n + Budget
    /\ \A n \in Nat : n * RetryLimit \in Nat
                      /\ (n + 1) * RetryLimit = n * RetryLimit + RetryLimit
  <1>1. RetryLimit \in Nat \ {0} /\ Fallbacks \in Nat
    BY CapacityAssumption
  <1>2. Budget \in Nat
    BY <1>1 DEF Budget
  <1> HIDE DEF Budget
  <1> QED BY <1>1, <1>2

\* A retry uses one more attempt, within the budget while a model is left.
LEMMA NextAttemptAddsUp ==
    ASSUME NEW r \in CountedRecords,
           r.total_attempts = r.model_index * RetryLimit + r.attempts_in_model
    PROVE  /\ NextModel(r) \in Nat /\ NextAttempt(r) \in 1 .. RetryLimit
           /\ r.total_attempts + 1 = NextModel(r) * RetryLimit + NextAttempt(r)
           /\ NextModel(r) <= Fallbacks => r.total_attempts + 1 <= Budget
  <1>1. /\ r.model_index \in Nat /\ r.attempts_in_model \in 0 .. RetryLimit
        /\ r.total_attempts \in Nat
    BY DEF CountedRecords
  <1>2. /\ NextModel(r) \in Nat /\ NextAttempt(r) \in 1 .. RetryLimit
        /\ r.total_attempts + 1 = NextModel(r) * RetryLimit + NextAttempt(r)
    <2>1. CASE r.attempts_in_model >= RetryLimit
      <3>1. /\ NextModel(r) = r.model_index + 1 /\ NextAttempt(r) = 1
            /\ r.attempts_in_model = RetryLimit
        BY <1>1, <2>1, Limits DEF NextModel, NextAttempt
      <3> QED BY <1>1, <3>1, Limits
    <2>2. CASE ~(r.attempts_in_model >= RetryLimit)
      BY <1>1, <2>2, Limits DEF NextModel, NextAttempt
    <2> QED BY <2>1, <2>2
  <1>3. ASSUME NextModel(r) <= Fallbacks PROVE r.total_attempts + 1 <= Budget
    <2>1. NextModel(r) * RetryLimit <= Fallbacks * RetryLimit
      BY <1>2, <1>3, Limits
    <2>2. Budget = Fallbacks * RetryLimit + RetryLimit
      BY Limits DEF Budget
    <2> QED BY <1>1, <1>2, <2>1, <2>2, Limits
  <1> QED BY <1>2, <1>3

-----------------------------------------------------------------------------
(* The inductive invariant.  The retries of a thread are those its record  *)
(* counts and, for every failure that lost one, a budget of their own.  A  *)
(* record may be replaced by a new one only if it counts none.             *)

Forgotten(t) == tried[t] <= Budget * lost[t]

CountsCover ==
    \A t \in Threads :
        /\ record[t].total_attempts <= Budget
        /\ tried[t] <= Budget * lost[t] + record[t].total_attempts

\* The record knows the thread's last turn, or the pass is about to save it.
Known ==
    \A t \in Threads :
        \/ record[t].failure_turn_id = "last"
        \/ record[t].recovery_turn_id = "last"
        \/ Forgotten(t)
        \/ pc = "started" /\ t = cur /\ startedId = "last"

Asking == pc \in {"resume", "reread", "regoal", "start"}

PassInv ==
    /\ pc = "check" =>
         /\ NextModel(record[cur]) <= Fallbacks
         /\ record[cur].failure_turn_id = failureId
    /\ Asking =>
         /\ 1 <= record[cur].total_attempts
         /\ tried[cur] + 1 <= Budget * lost[cur] + record[cur].total_attempts
         /\ failureId = "last" \/ Forgotten(cur)
    /\ Asking \/ pc = "started" => record[cur].recovery_turn_id = None
    /\ pc = "settled" => viewId = "last" \/ Forgotten(cur)

CountInv ==
    /\ CountType
    /\ AttemptsAddUp
    /\ CountsCover
    /\ Known
    /\ PassInv

-----------------------------------------------------------------------------
(* What a step does to the record of one thread.                           *)

SameCounts(r, s) ==
    /\ s.model_index = r.model_index
    /\ s.attempts_in_model = r.attempts_in_model
    /\ s.total_attempts = r.total_attempts

Aged(r) ==
    [r EXCEPT !.failure_turn_id = Age(@), !.recovery_turn_id = Age(@)]

LEMMA NoRecordType ==
    /\ NoRecord \in CountedRecords
    /\ NoRecord.total_attempts = 0 /\ NoRecord.model_index = 0
    /\ NoRecord.attempts_in_model = 0
  <1>1. 0 \in 0 .. RetryLimit /\ 0 \in Nat
    BY Limits
  <1>2. None \in Actions \cup {None} /\ None \in TurnIds
    BY DEF TurnIds
  <1> QED BY <1>1, <1>2 DEF NoRecord, CountedRecords

LEMMA NewRecordType ==
    /\ NewRecord \in CountedRecords
    /\ NewRecord.failure_turn_id = "last"
    /\ NewRecord.total_attempts = 0 /\ NewRecord.model_index = 0
    /\ NewRecord.attempts_in_model = 0
  <1>1. NoRecord \in CountedRecords
    BY NoRecordType
  <1>2. "retry_scheduled" \in Actions /\ "last" \in TurnIds /\ 1 \in Nat
    BY DEF Actions, TurnIds
  <1> QED BY <1>1, <1>2 DEF NewRecord, NoRecord, CountedRecords

LEMMA RescheduledType ==
    ASSUME NEW r \in CountedRecords, NEW failed \in TurnIds
    PROVE  /\ Rescheduled(r, failed) \in CountedRecords
           /\ SameCounts(r, Rescheduled(r, failed))
           /\ Rescheduled(r, failed).failure_turn_id = failed
  <1>1. "retry_scheduled" \in Actions /\ None \in TurnIds
    BY DEF Actions, TurnIds
  <1>2. r.capacity_failure_count + 1 \in Nat
    BY DEF CountedRecords
  <1> QED BY <1>1, <1>2 DEF Rescheduled, CountedRecords, SameCounts

LEMMA AgedType ==
    ASSUME NEW r \in CountedRecords
    PROVE  /\ Aged(r) \in CountedRecords /\ SameCounts(r, Aged(r))
           /\ Aged(r).failure_turn_id = Age(r.failure_turn_id)
           /\ Aged(r).recovery_turn_id = Age(r.recovery_turn_id)
  BY DEF Aged, Age, CountedRecords, SameCounts, TurnIds, None

LEMMA ActionType ==
    ASSUME NEW r \in CountedRecords, NEW a \in Actions
    PROVE  /\ [r EXCEPT !.action = a] \in CountedRecords
           /\ SameCounts(r, [r EXCEPT !.action = a])
           /\ [r EXCEPT !.action = a].failure_turn_id = r.failure_turn_id
           /\ [r EXCEPT !.action = a].recovery_turn_id = r.recovery_turn_id
  BY DEF CountedRecords, SameCounts

\* Where the pass stands, and what it holds.
PassType ==
    /\ pc \notin {"idle", "choose"} => cur \in Threads
    /\ pc \in {"idle", "choose"} => cur = None
    /\ {viewId, failureId, startedId} \subseteq TurnIds

\* Every step changes the books of at most one thread.
LEMMA OneThreadStep ==
    ASSUME CountInv, NEW x \in Threads, NEW r \in CountedRecords,
           NEW n \in Nat, NEW l \in Nat,
           record' = [record EXCEPT ![x] = r],
           tried' = [tried EXCEPT ![x] = n],
           lost' = [lost EXCEPT ![x] = l],
           r.total_attempts = r.model_index * RetryLimit + r.attempts_in_model,
           r.total_attempts <= Budget,
           n <= Budget * l + r.total_attempts,
           \/ r.failure_turn_id = "last"
           \/ r.recovery_turn_id = "last"
           \/ n <= Budget * l
           \/ pc' = "started" /\ x = cur' /\ startedId' = "last",
           x = cur \/ pc # "started" \/ UNCHANGED <<pc, cur, startedId>>,
           PassType', PassInv'
    PROVE  CountInv'
  <1>1. CountType'
    BY DEF CountInv, CountType, PassType
  <1>2. ASSUME NEW t \in Threads, t # x
        PROVE  /\ record'[t] = record[t]
               /\ tried'[t] = tried[t] /\ lost'[t] = lost[t]
    BY <1>2 DEF CountInv, CountType
  <1>3. record'[x] = r /\ tried'[x] = n /\ lost'[x] = l
    BY DEF CountInv, CountType
  <1>4. AttemptsAddUp'
    BY <1>2, <1>3 DEF CountInv, AttemptsAddUp
  <1>5. CountsCover'
    BY <1>2, <1>3, Zenon DEF CountInv, CountsCover, Budget
  <1>6. Known'
    <2>1. Budget' = Budget
      BY DEF Budget
    <2> SUFFICES ASSUME NEW t \in Threads
                 PROVE  \/ record'[t].failure_turn_id = "last"
                        \/ record'[t].recovery_turn_id = "last"
                        \/ tried'[t] <= Budget * lost'[t]
                        \/ pc' = "started" /\ t = cur' /\ startedId' = "last"
      BY <2>1, Zenon DEF Known, Forgotten
    <2>2. CASE t = x
      BY <1>3, <2>2
    <2>3. CASE t # x
      <3>1. \/ record[t].failure_turn_id = "last"
            \/ record[t].recovery_turn_id = "last"
            \/ tried[t] <= Budget * lost[t]
            \/ pc = "started" /\ t = cur /\ startedId = "last"
        BY Zenon DEF CountInv, Known, Forgotten
      <3> QED BY <1>2, <2>3, <3>1
    <2> QED BY <2>2, <2>3
  <1> QED BY <1>1, <1>4, <1>5, <1>6 DEF CountInv

\* A step that saves no more than ids and the action of one record.
LEMMA SaveStep ==
    ASSUME CountInv, NEW x \in Threads, NEW r \in CountedRecords,
           record' = [record EXCEPT ![x] = r],
           UNCHANGED <<tried, lost>>,
           SameCounts(record[x], r),
           \/ r.failure_turn_id = "last"
           \/ r.recovery_turn_id = "last"
           \/ Forgotten(x),
           x = cur \/ pc # "started" \/ UNCHANGED <<pc, cur, startedId>>,
           PassType', PassInv'
    PROVE  CountInv'
  <1>1. tried[x] \in Nat /\ lost[x] \in Nat
    BY DEF CountInv, CountType
  <1>2. /\ tried' = [tried EXCEPT ![x] = tried[x]]
        /\ lost' = [lost EXCEPT ![x] = lost[x]]
    BY DEF CountInv, CountType
  <1>3. /\ r.total_attempts = r.model_index * RetryLimit + r.attempts_in_model
        /\ r.total_attempts <= Budget
        /\ tried[x] <= Budget * lost[x] + r.total_attempts
    BY Zenon DEF CountInv, AttemptsAddUp, CountsCover, SameCounts
  <1>4. \/ r.failure_turn_id = "last"
        \/ r.recovery_turn_id = "last"
        \/ tried[x] <= Budget * lost[x]
        \/ pc' = "started" /\ x = cur' /\ startedId' = "last"
    BY Zenon DEF Forgotten
  <1> QED BY <1>1, <1>2, <1>3, <1>4, OneThreadStep, ZenonT(60)

\* A step that saves no more than the action of one record.
LEMMA MarkStep ==
    ASSUME CountInv, NEW x \in Threads, NEW a \in Actions,
           record' = [record EXCEPT ![x] = [record[x] EXCEPT !.action = a]],
           UNCHANGED <<tried, lost>>, pc # "started",
           PassType', PassInv'
    PROVE  CountInv'
  <1>1. record[x] \in CountedRecords
    BY DEF CountInv, CountType
  <1> DEFINE r == [record[x] EXCEPT !.action = a]
  <1>2. /\ r \in CountedRecords /\ SameCounts(record[x], r)
        /\ r.failure_turn_id = record[x].failure_turn_id
        /\ r.recovery_turn_id = record[x].recovery_turn_id
    BY <1>1, ActionType
  <1>3. \/ record[x].failure_turn_id = "last"
        \/ record[x].recovery_turn_id = "last"
        \/ Forgotten(x)
    BY Zenon DEF CountInv, Known
  <1>4. record' = [record EXCEPT ![x] = r]
    OBVIOUS
  <1> HIDE DEF r
  <1> QED BY <1>2, <1>3, <1>4, SaveStep

LEMMA QuietStep ==
    ASSUME CountInv, UNCHANGED <<record, tried, lost>>,
           pc # "started" \/ UNCHANGED <<pc, cur, startedId>>,
           PassType', PassInv'
    PROVE  CountInv'
  <1>1. CountType' /\ AttemptsAddUp'
    BY DEF CountInv, CountType, PassType, AttemptsAddUp
  <1>2. CountsCover' /\ Known'
    BY Zenon DEF CountInv, CountsCover, Known, Forgotten, Budget
  <1> QED BY <1>1, <1>2 DEF CountInv

\* A step that ends the pass leaves it nothing to hold.
LEMMA ReturnPass == ASSUME Return PROVE PassType' /\ PassInv'
  BY DEF Return, PassType, PassInv, Asking, TurnIds

\* A step that leaves the pass where it is, and what it knows of its thread.
LEMMA SamePass ==
    ASSUME CountInv, UNCHANGED <<pc, cur, viewId, failureId, startedId>>,
           UNCHANGED <<record, tried, lost>>
    PROVE  PassType' /\ PassInv'
  <1>1. PassType'
    BY DEF CountInv, CountType, PassType
  <1>2. PassInv'
    BY Zenon DEF CountInv, PassInv, Asking, Forgotten, Budget, NextModel
  <1> QED BY <1>1, <1>2

-----------------------------------------------------------------------------
(* The decision. *)

\* A pass begins, or ends with nothing to do.
LEMMA BeginOrLeaveStep ==
    ASSUME CountInv, BeginPass \/ LeavePass PROVE CountInv'
  <1>1. CASE BeginPass
    <2>1. /\ pc = "idle" /\ pc' = "choose"
          /\ UNCHANGED <<record, tried, lost, cur, viewId, failureId, startedId>>
      BY <1>1, Zenon DEF BeginPass, passVars, ghostVars
    <2>2. PassType'
      BY <2>1 DEF CountInv, CountType, PassType
    <2>3. PassInv'
      BY <2>1 DEF PassInv, Asking
    <2> QED BY <2>1, <2>2, <2>3, QuietStep
  <1>2. CASE LeavePass
    <2>1. pc = "choose" /\ Return /\ UNCHANGED <<record, tried, lost>>
      BY <1>2, Zenon DEF LeavePass, ghostVars
    <2> QED BY <2>1, ReturnPass, QuietStep
  <1> QED BY <1>1, <1>2

LEMMA ScheduleNewStep ==
    ASSUME CountInv, NEW t \in Threads, ScheduleNew(t) PROVE CountInv'
  <1>1. /\ pc = "choose" /\ record[t].failure_turn_id # "last"
        /\ record[t].recovery_turn_id # "last"
        /\ record' = [record EXCEPT ![t] = NewRecord]
        /\ Return /\ UNCHANGED <<tried, lost>>
    BY Zenon DEF ScheduleNew, Choose, SaveDecision, ghostVars
  <1>2. tried[t] <= Budget * lost[t]
    BY <1>1 DEF CountInv, Known, Forgotten
  <1>3. tried[t] \in Nat /\ lost[t] \in Nat
    BY DEF CountInv, CountType
  <1>4. /\ tried' = [tried EXCEPT ![t] = tried[t]]
        /\ lost' = [lost EXCEPT ![t] = lost[t]]
    BY <1>1 DEF CountInv, CountType
  <1>5. /\ NewRecord.total_attempts =
             NewRecord.model_index * RetryLimit + NewRecord.attempts_in_model
        /\ NewRecord.total_attempts <= Budget
        /\ tried[t] <= Budget * lost[t] + NewRecord.total_attempts
    BY <1>2, <1>3, NewRecordType, Limits
  <1>6. PassType' /\ PassInv'
    BY <1>1, ReturnPass
  <1> QED BY <1>1, <1>3, <1>4, <1>5, <1>6, NewRecordType, OneThreadStep

LEMMA ScheduleObservedStep ==
    ASSUME CountInv, NEW t \in Threads, ScheduleObserved(t) PROVE CountInv'
  <1>1. /\ pc = "choose"
        /\ record' = [record EXCEPT ![t] = Rescheduled(record[t], "last")]
        /\ Return /\ UNCHANGED <<tried, lost>>
    BY Zenon DEF ScheduleObserved, Choose, SaveDecision, ghostVars
  <1>2. record[t] \in CountedRecords /\ "last" \in TurnIds
    BY DEF CountInv, CountType, TurnIds
  <1>3. PassType' /\ PassInv'
    BY <1>1, ReturnPass
  <1> QED BY <1>1, <1>2, <1>3, RescheduledType, SaveStep

LEMMA ExhaustStep ==
    ASSUME CountInv, NEW t \in Threads, Exhaust(t) PROVE CountInv'
  <1>1. /\ pc = "choose"
        /\ record' =
             [record EXCEPT
                ![t] = [record[t] EXCEPT !.action = "fallbacks_exhausted"]]
        /\ Return /\ UNCHANGED <<tried, lost>>
    BY Zenon DEF Exhaust, Due, Choose, SaveDecision, ghostVars
  <1>2. PassType' /\ PassInv'
    BY <1>1, ReturnPass
  <1> QED BY <1>1, <1>2, MarkStep DEF Actions

LEMMA AttemptStep ==
    ASSUME CountInv, NEW t \in Threads, Attempt(t) PROVE CountInv'
  <1>1. /\ pc = "choose" /\ record[t].failure_turn_id = "last"
        /\ NextModel(record[t]) <= Fallbacks
        /\ pc' = "check" /\ cur' = t /\ failureId' = "last"
        /\ UNCHANGED <<record, tried, lost, viewId, startedId>>
    BY Zenon DEF Attempt, Due, Choose, ghostVars
  <1>2. PassType'
    BY <1>1 DEF CountInv, CountType, PassType, TurnIds
  <1>3. PassInv'
    BY <1>1 DEF PassInv, Asking, NextModel
  <1> QED BY <1>1, <1>2, <1>3, QuietStep

-----------------------------------------------------------------------------
(* The retry. *)

LEMMA RequestStartStep == ASSUME CountInv, RequestStart PROVE CountInv'
  <1> DEFINE r == [record[cur] EXCEPT
                     !.action = "start_requested",
                     !.model_index = NextModel(record[cur]),
                     !.attempts_in_model = NextAttempt(record[cur]),
                     !.total_attempts = @ + 1,
                     !.recovery_turn_id = None]
  <1>1. /\ pc = "check" /\ pc' = "resume" /\ failureId = "last"
        /\ record' = [record EXCEPT ![cur] = r]
        /\ UNCHANGED <<tried, lost, cur, viewId, failureId, startedId>>
    BY Zenon DEF RequestStart, Save, passVars, ghostVars
  <1>2. cur \in Threads /\ record[cur] \in CountedRecords
    BY <1>1 DEF CountInv, CountType
  <1>3. /\ record[cur].total_attempts =
             record[cur].model_index * RetryLimit
             + record[cur].attempts_in_model
        /\ NextModel(record[cur]) <= Fallbacks
        /\ record[cur].failure_turn_id = "last"
    BY <1>1, <1>2 DEF CountInv, AttemptsAddUp, PassInv
  <1>4. /\ NextModel(record[cur]) \in Nat
        /\ NextAttempt(record[cur]) \in 1 .. RetryLimit
        /\ record[cur].total_attempts + 1 =
             NextModel(record[cur]) * RetryLimit + NextAttempt(record[cur])
        /\ record[cur].total_attempts + 1 <= Budget
    BY <1>2, <1>3, NextAttemptAddsUp
  <1>5. /\ r \in CountedRecords
        /\ r.model_index = NextModel(record[cur])
        /\ r.attempts_in_model = NextAttempt(record[cur])
        /\ r.total_attempts = record[cur].total_attempts + 1
        /\ r.failure_turn_id = "last" /\ r.recovery_turn_id = None
    <2>1. /\ "start_requested" \in Actions /\ None \in TurnIds
          /\ NextAttempt(record[cur]) \in 0 .. RetryLimit
      BY <1>4, Limits DEF Actions, TurnIds
    <2>2. /\ record[cur].total_attempts + 1 \in Nat
      BY <1>2 DEF CountedRecords
    <2> QED BY <1>2, <1>3, <1>4, <2>1, <2>2 DEF CountedRecords
  <1> HIDE DEF r
  <1>6. /\ tried[cur] \in Nat /\ lost[cur] \in Nat
        /\ record[cur].total_attempts \in Nat
        /\ Budget * lost[cur] \in Nat
        /\ tried[cur] <= Budget * lost[cur] + record[cur].total_attempts
    BY <1>2, Limits DEF CountInv, CountType, CountsCover, CountedRecords
  <1>7. /\ tried[cur] + 1 <= Budget * lost[cur] + r.total_attempts
        /\ tried[cur] <= Budget * lost[cur] + r.total_attempts
        /\ 1 <= r.total_attempts /\ r.total_attempts <= Budget
        /\ r.total_attempts = r.model_index * RetryLimit + r.attempts_in_model
    BY <1>4, <1>5, <1>6
  <1>8. record'[cur] = r
    BY <1>1, <1>2 DEF CountInv, CountType
  <1>9. PassType'
    BY <1>1, <1>2 DEF PassType, CountInv, CountType
  <1>10. PassInv'
    BY <1>1, <1>5, <1>7, <1>8, Zenon DEF PassInv, Asking, Budget
  <1>11. /\ tried' = [tried EXCEPT ![cur] = tried[cur]]
         /\ lost' = [lost EXCEPT ![cur] = lost[cur]]
    BY <1>1, <1>2 DEF CountInv, CountType
  <1> QED BY <1>1, <1>2, <1>5, <1>6, <1>7, <1>9, <1>10, <1>11, OneThreadStep

\* Calls that read, and decisions that save nothing.
LEMMA QuietRetryStep ==
    ASSUME CountInv,
           \/ EvidenceChanged \/ RereadThread \/ AdoptTurn \/ PrepareStart
           \/ PollThread
    PROVE  CountInv'
  <1>t. CountType /\ PassInv
    BY DEF CountInv
  <1>1. CASE EvidenceChanged
    <2>1. pc = "check" /\ Return /\ UNCHANGED <<record, tried, lost>>
      BY <1>1, Zenon DEF EvidenceChanged, ghostVars
    <2> QED BY <2>1, ReturnPass, QuietStep
  <1>2. CASE RereadThread \/ PrepareStart
    <2>1. /\ Asking /\ pc \notin {"idle", "choose"} /\ pc # "started"
          /\ pc' \in {"regoal", "start"}
          /\ viewId' \in {viewId, "last"}
          /\ UNCHANGED <<record, tried, lost, cur, failureId, startedId>>
      BY <1>2, Zenon DEF RereadThread, PrepareStart, passVars, ghostVars, Asking
    <2>2. PassType'
      BY <1>t, <2>1 DEF CountType, PassType, TurnIds
    <2>3. PassInv'
      BY <1>t, <2>1, Zenon DEF PassInv, Asking, Forgotten, Budget
    <2> QED BY <2>1, <2>2, <2>3, QuietStep
  <1>3. CASE AdoptTurn
    <2>1. /\ Asking /\ pc = "regoal" /\ pc' = "started" /\ startedId' = viewId
          /\ UNCHANGED <<record, tried, lost, cur, viewId, failureId>>
      BY <1>3, Zenon DEF AdoptTurn, ghostVars, Asking
    <2>2. PassType'
      BY <1>t, <2>1 DEF CountType, PassType
    <2>3. PassInv'
      BY <1>t, <2>1 DEF PassInv, Asking
    <2> QED BY <2>1, <2>2, <2>3, QuietStep
  <1>4. CASE PollThread
    <2>1. /\ pc = "settle" /\ pc' \in {"settle", "settled"} /\ viewId' = "last"
          /\ UNCHANGED <<record, tried, lost, cur, failureId, startedId>>
      BY <1>4, Zenon DEF PollThread, ghostVars
    <2>2. PassType'
      BY <1>t, <2>1 DEF CountType, PassType, TurnIds
    <2>3. PassInv'
      BY <1>t, <2>1 DEF PassInv, Asking
    <2> QED BY <2>1, <2>2, <2>3, QuietStep
  <1> QED BY <1>1, <1>2, <1>3, <1>4

LEMMA GoalChangedStep == ASSUME CountInv, GoalChanged PROVE CountInv'
  <1>1. /\ pc = "regoal" /\ Return /\ UNCHANGED <<tried, lost>>
        /\ record' = [record EXCEPT
                        ![cur] = [record[cur] EXCEPT !.action = "goal_changed"]]
    BY Zenon DEF GoalChanged, Save, ghostVars
  <1>2. cur \in Threads
    BY <1>1 DEF CountInv, CountType
  <1> QED BY <1>1, <1>2, ReturnPass, MarkStep DEF Actions

LEMMA RetrySettledStep == ASSUME CountInv, RetrySettled PROVE CountInv'
  <1>1. /\ pc = "settled" /\ Return /\ UNCHANGED <<tried, lost>>
        /\ record' = [record EXCEPT
                        ![cur] = [record[cur] EXCEPT !.action = "turn_settled"]]
    BY Zenon DEF RetrySettled, Save, ghostVars
  <1>2. cur \in Threads
    BY <1>1 DEF CountInv, CountType
  <1> QED BY <1>1, <1>2, ReturnPass, MarkStep DEF Actions

LEMMA RetryFailedStep == ASSUME CountInv, RetryFailed PROVE CountInv'
  <1>1. /\ pc = "settled" /\ Return /\ UNCHANGED <<tried, lost>>
        /\ record' = [record EXCEPT ![cur] = Rescheduled(record[cur], viewId)]
    BY Zenon DEF RetryFailed, Save, ghostVars
  <1>2. /\ cur \in Threads /\ record[cur] \in CountedRecords
        /\ viewId \in TurnIds
    BY <1>1 DEF CountInv, CountType
  <1>3. viewId = "last" \/ Forgotten(cur)
    BY <1>1 DEF CountInv, PassInv
  <1> QED BY <1>1, <1>2, <1>3, ReturnPass, RescheduledType, SaveStep

\* The id saved is that of the turn just begun, or the record still knows the
\* failure it was made for.
LEMMA RecordStartStep == ASSUME CountInv, RecordStart PROVE CountInv'
  <1> DEFINE r == [record[cur] EXCEPT !.action = "turn_started",
                                      !.recovery_turn_id = startedId]
  <1>1. /\ pc = "started" /\ UNCHANGED <<tried, lost>>
        /\ record' = [record EXCEPT ![cur] = r]
    BY Zenon DEF RecordStart, Save, ghostVars
  <1>2. /\ cur \in Threads /\ record[cur] \in CountedRecords
        /\ startedId \in TurnIds
    BY <1>1 DEF CountInv, CountType
  <1>3. /\ r \in CountedRecords /\ SameCounts(record[cur], r)
        /\ r.failure_turn_id = record[cur].failure_turn_id
        /\ r.recovery_turn_id = startedId
    BY <1>2 DEF CountedRecords, SameCounts, Actions
  <1> HIDE DEF r
  <1>4. \/ record[cur].failure_turn_id = "last"
        \/ startedId = "last"
        \/ Forgotten(cur)
    BY <1>1, <1>2 DEF CountInv, Known, PassInv, None
  <1>5. PassType' /\ PassInv'
    <2>1. CASE Return
      BY <2>1, ReturnPass
    <2>2. CASE ~Return
      <3>1. pc' = "settle" /\ UNCHANGED <<cur, viewId, failureId, startedId>>
        BY <2>2, Zenon DEF RecordStart, passVars
      <3> QED BY <1>2, <3>1 DEF CountInv, CountType, PassType, PassInv, Asking
    <2> QED BY <2>1, <2>2
  <1> QED BY <1>1, <1>2, <1>3, <1>4, <1>5, SaveStep

-----------------------------------------------------------------------------
(* Turns begin. *)

LEMMA TurnBeginsAges ==
    ASSUME CountInv, NEW t \in Threads,
           record' = [record EXCEPT ![t].failure_turn_id = Age(@),
                                    ![t].recovery_turn_id = Age(@)]
    PROVE  record' = [record EXCEPT ![t] = Aged(record[t])]
  BY DEF CountInv, CountType, CountedRecords, Aged

\* A turn of somebody else begins: nothing is counted any more.
LEMMA OtherTurnStep ==
    ASSUME CountInv, NEW t \in Threads, OtherTurnBegins(t), cur' = cur,
           \/ pc' = pc
           \/ pc = "resume" /\ pc' = "reread"
    PROVE  CountInv'
  <1> DEFINE r == Aged(record[t])
  <1>1. /\ record' = [record EXCEPT ![t] = r]
        /\ tried' = [tried EXCEPT ![t] = 0]
        /\ lost' = [lost EXCEPT ![t] = 0]
    <2>1. /\ record' = [record EXCEPT ![t].failure_turn_id = Age(@),
                                      ![t].recovery_turn_id = Age(@)]
          /\ tried' = [tried EXCEPT ![t] = 0]
          /\ lost' = [lost EXCEPT ![t] = 0]
      BY Zenon DEF OtherTurnBegins, TurnBegins
    <2> QED BY <2>1, TurnBeginsAges
  <1>2. IF t = cur
        THEN /\ viewId' = Age(viewId) /\ failureId' = Age(failureId)
             /\ startedId' = Age(startedId)
        ELSE UNCHANGED <<viewId, failureId, startedId>>
    BY Zenon DEF OtherTurnBegins, TurnBegins
  <1>3. record[t] \in CountedRecords
    BY DEF CountInv, CountType
  <1>4. /\ r \in CountedRecords /\ SameCounts(record[t], r)
        /\ r.failure_turn_id = Age(record[t].failure_turn_id)
        /\ r.recovery_turn_id = Age(record[t].recovery_turn_id)
    BY <1>3, AgedType
  <1> HIDE DEF r
  <1>5. /\ r.total_attempts = r.model_index * RetryLimit + r.attempts_in_model
        /\ r.total_attempts <= Budget /\ r.total_attempts \in Nat
    BY <1>3, <1>4, Zenon DEF CountInv, AttemptsAddUp, CountsCover, SameCounts,
         CountedRecords
  <1>6. 0 <= Budget * 0 /\ 0 <= Budget * 0 + r.total_attempts
    BY <1>5, Limits
  <1>7. PassType'
    BY <1>2 DEF CountInv, CountType, PassType, Age, TurnIds
  <1>8. PassInv'
    <2>1. CASE t # cur
      <3>1. \/ pc \in {"idle", "choose"}
            \/ /\ record'[cur] = record[cur] /\ tried'[cur] = tried[cur]
               /\ lost'[cur] = lost[cur]
        BY <1>1, <2>1 DEF CountInv, CountType
      <3>2. /\ UNCHANGED <<cur, viewId, failureId, startedId>>
            /\ Budget' = Budget
        BY <1>2, <2>1 DEF Budget
      <3> QED BY <3>1, <3>2 DEF CountInv, PassInv, Asking, Forgotten, NextModel
    <2>2. CASE t = cur
      <3>1. record'[cur] = r /\ tried'[cur] = 0 /\ lost'[cur] = 0
        BY <1>1, <2>2 DEF CountInv, CountType
      <3>2. Forgotten(cur)' /\ Budget' = Budget
        BY <1>6, <3>1 DEF Forgotten, Budget
      <3>3. pc' = "check" =>
              NextModel(r) <= Fallbacks /\ r.failure_turn_id = failureId'
        BY <1>2, <1>4, <2>2, Zenon DEF CountInv, PassInv, NextModel, SameCounts
      <3>4. Asking' \/ pc' = "started" => r.recovery_turn_id = None
        BY <1>4, <2>2 DEF CountInv, PassInv, Asking, Age, None
      <3>5. Asking' => /\ 1 <= r.total_attempts
                       /\ 0 + 1 <= Budget * 0 + r.total_attempts
        <4>1. Asking' => 1 <= r.total_attempts
          BY <1>4, <2>2 DEF CountInv, PassInv, Asking, SameCounts
        <4> QED BY <1>5, <4>1, Limits
      <3> QED BY <3>1, <3>2, <3>3, <3>4, <3>5, Zenon DEF PassInv, NextModel
    <2> QED BY <2>1, <2>2
  <1>9. t = cur \/ pc # "started" \/ UNCHANGED <<pc, cur, startedId>>
    BY <1>2
  <1> QED BY <1>1, <1>4, <1>5, <1>6, <1>7, <1>8, <1>9, OneThreadStep

LEMMA ResumeThreadStep == ASSUME CountInv, ResumeThread PROVE CountInv'
  <1>1. /\ pc = "resume" /\ pc' = "reread" /\ cur' = cur
        /\ \/ UNCHANGED <<thread, record, viewId, failureId, startedId,
                          ghostVars>>
           \/ OtherTurnBegins(cur)
    BY Zenon DEF ResumeThread
  <1>2. cur \in Threads
    BY <1>1 DEF CountInv, CountType
  <1>3. CASE OtherTurnBegins(cur)
    BY <1>1, <1>2, <1>3, OtherTurnStep
  <1>4. CASE UNCHANGED <<thread, record, viewId, failureId, startedId,
                         ghostVars>>
    <2>1. PassType'
      BY <1>1, <1>2, <1>4 DEF CountInv, CountType, PassType
    <2>2. PassInv'
      BY <1>1, <1>4, Zenon DEF CountInv, PassInv, Asking, Forgotten, Budget,
         ghostVars
    <2> QED BY <1>1, <1>4, <2>1, <2>2, QuietStep DEF ghostVars
  <1> QED BY <1>1, <1>3, <1>4

\* turn/start begins a turn that the record has counted.
LEMMA StartedTurnCovered ==
    ASSUME CountInv, pc = "start"
    PROVE  /\ cur \in Threads
           /\ Aged(record[cur]) \in CountedRecords
           /\ SameCounts(record[cur], Aged(record[cur]))
           /\ Aged(record[cur]).recovery_turn_id = None
           /\ tried[cur] + 1 \in Nat /\ lost[cur] \in Nat
           /\ tried[cur] + 1 <= Budget * lost[cur] + record[cur].total_attempts
           /\ record[cur].total_attempts =
                record[cur].model_index * RetryLimit
                + record[cur].attempts_in_model
           /\ record[cur].total_attempts <= Budget
           /\ record[cur].total_attempts \in Nat
  <1>1. cur \in Threads /\ record[cur] \in CountedRecords
    BY DEF CountInv, CountType
  <1>2. /\ Aged(record[cur]) \in CountedRecords
        /\ SameCounts(record[cur], Aged(record[cur]))
    BY <1>1, AgedType
  <1>3. Aged(record[cur]).recovery_turn_id = None
    BY <1>1, AgedType DEF CountInv, PassInv, Asking, Age, None
  <1>4. tried[cur] + 1 <= Budget * lost[cur] + record[cur].total_attempts
    BY DEF CountInv, PassInv, Asking
  <1>5. tried[cur] + 1 \in Nat /\ lost[cur] \in Nat
    BY <1>1 DEF CountInv, CountType
  <1>6. /\ record[cur].total_attempts =
             record[cur].model_index * RetryLimit
             + record[cur].attempts_in_model
        /\ record[cur].total_attempts <= Budget
    BY <1>1, Zenon DEF CountInv, AttemptsAddUp, CountsCover
  <1>7. record[cur].total_attempts \in Nat
    BY <1>1 DEF CountedRecords
  <1> QED BY <1>1, <1>2, <1>3, <1>4, <1>5, <1>6, <1>7

LEMMA StartTurnStep == ASSUME CountInv, StartTurn PROVE CountInv'
  <1> DEFINE r == Aged(record[cur])
  <1>1. /\ pc = "start" /\ pc' = "started" /\ startedId' = "last" /\ cur' = cur
        /\ tried' = [tried EXCEPT ![cur] = tried[cur] + 1]
        /\ lost' = lost
        /\ record' = [record EXCEPT ![cur].failure_turn_id = Age(@),
                                    ![cur].recovery_turn_id = Age(@)]
        /\ viewId' = Age(viewId) /\ failureId' = Age(failureId)
    BY Zenon DEF StartTurn, ServerStartsTurn, TurnBegins
  <1>2. record' = [record EXCEPT ![cur] = r]
    BY <1>1, StartedTurnCovered, TurnBeginsAges
  <1>3. /\ r \in CountedRecords /\ r.recovery_turn_id = None
        /\ r.total_attempts = r.model_index * RetryLimit + r.attempts_in_model
        /\ r.total_attempts <= Budget
        /\ tried[cur] + 1 <= Budget * lost[cur] + r.total_attempts
    BY <1>1, StartedTurnCovered, Zenon DEF SameCounts
  <1> HIDE DEF r
  <1>4. lost' = [lost EXCEPT ![cur] = lost[cur]]
    BY <1>1 DEF CountInv, CountType
  <1>5. PassType'
    BY <1>1 DEF CountInv, CountType, PassType, Age, TurnIds
  <1>6. record'[cur] = r
    BY <1>1, <1>2, StartedTurnCovered DEF CountInv, CountType
  <1>7. PassInv'
    BY <1>1, <1>3, <1>6 DEF PassInv, Asking
  <1> QED BY <1>1, <1>2, <1>3, <1>4, <1>5, <1>7, StartedTurnCovered,
             OneThreadStep

-----------------------------------------------------------------------------
(* Failures.  A lost turn comes with a budget of its own.                  *)

LEMMA LostCovers ==
    ASSUME NEW n \in Nat, NEW l \in Nat, NEW total \in Nat, total <= Budget,
           n <= Budget * l + total
    PROVE  /\ l + 1 \in Nat
           /\ n <= Budget * (l + 1) /\ n <= Budget * (l + 1) + total
  <1>1. /\ Budget \in Nat /\ Budget * l \in Nat
        /\ Budget * (l + 1) = Budget * l + Budget
    BY Limits
  <1> QED BY <1>1

LEMMA StartReplyLostStep == ASSUME CountInv, StartReplyLost PROVE CountInv'
  <1> DEFINE r == Aged(record[cur])
  <1>1. /\ pc = "start" /\ Return
        /\ tried' = [tried EXCEPT ![cur] = tried[cur] + 1]
        /\ lost' = [lost EXCEPT ![cur] = lost[cur] + 1]
        /\ record' = [record EXCEPT ![cur].failure_turn_id = Age(@),
                                    ![cur].recovery_turn_id = Age(@)]
    BY Zenon DEF StartReplyLost
  <1>2. record' = [record EXCEPT ![cur] = r]
    BY <1>1, StartedTurnCovered, TurnBeginsAges
  <1>3. /\ r \in CountedRecords /\ r.total_attempts \in Nat
        /\ r.total_attempts = r.model_index * RetryLimit + r.attempts_in_model
        /\ r.total_attempts <= Budget
        /\ tried[cur] + 1 <= Budget * lost[cur] + r.total_attempts
    BY <1>1, StartedTurnCovered, Zenon DEF SameCounts
  <1> HIDE DEF r
  <1>4. /\ lost[cur] + 1 \in Nat
        /\ tried[cur] + 1 <= Budget * (lost[cur] + 1)
        /\ tried[cur] + 1 <= Budget * (lost[cur] + 1) + r.total_attempts
    BY <1>1, <1>3, StartedTurnCovered, LostCovers
  <1> QED BY <1>1, <1>2, <1>3, <1>4, StartedTurnCovered, ReturnPass,
             OneThreadStep

LEMMA CutShortStep == ASSUME CountInv, CutShort PROVE CountInv'
  <1>1. Return /\ UNCHANGED <<record, tried>>
    BY Zenon DEF CutShort
  <1>2. CASE pc = "started"
    <2> DEFINE r == record[cur]
    <2>1. lost' = [lost EXCEPT ![cur] = lost[cur] + 1]
      BY <1>2, Zenon DEF CutShort
    <2>2. /\ cur \in Threads /\ r \in CountedRecords
          /\ tried[cur] \in Nat /\ lost[cur] \in Nat
          /\ record' = [record EXCEPT ![cur] = r]
          /\ tried' = [tried EXCEPT ![cur] = tried[cur]]
      BY <1>1, <1>2 DEF CountInv, CountType
    <2>3. /\ r.total_attempts \in Nat
          /\ r.total_attempts = r.model_index * RetryLimit + r.attempts_in_model
          /\ r.total_attempts <= Budget
          /\ tried[cur] <= Budget * lost[cur] + r.total_attempts
      BY <2>2, Zenon DEF CountInv, AttemptsAddUp, CountsCover, CountedRecords
    <2>4. /\ lost[cur] + 1 \in Nat
          /\ tried[cur] <= Budget * (lost[cur] + 1)
          /\ tried[cur] <= Budget * (lost[cur] + 1) + r.total_attempts
      BY <2>2, <2>3, LostCovers
    <2> HIDE DEF r
    <2> QED BY <1>1, <2>1, <2>2, <2>3, <2>4, ReturnPass, OneThreadStep
  <1>3. CASE pc # "started"
    <2>1. lost' = lost
      BY <1>3, Zenon DEF CutShort
    <2> QED BY <1>1, <1>3, <2>1, ReturnPass, QuietStep
  <1> QED BY <1>2, <1>3

LEMMA RejectedAtCapacityStep ==
    ASSUME CountInv, RejectedAtCapacity PROVE CountInv'
  <1> DEFINE r == Rescheduled(record[cur], failureId)
  <1>1. /\ Asking \/ pc \in {"started", "settle"}
        /\ Return /\ UNCHANGED tried
        /\ record' = [record EXCEPT ![cur] = r]
    BY Zenon DEF RejectedAtCapacity, Save, Asking
  <1>2. /\ cur \in Threads /\ record[cur] \in CountedRecords
        /\ failureId \in TurnIds /\ tried[cur] \in Nat /\ lost[cur] \in Nat
        /\ tried' = [tried EXCEPT ![cur] = tried[cur]]
    BY <1>1 DEF CountInv, CountType, Asking
  <1>3. /\ r \in CountedRecords /\ SameCounts(record[cur], r)
        /\ r.failure_turn_id = failureId
    BY <1>2, RescheduledType
  <1> HIDE DEF r
  <1>4. CASE Asking
    <2>1. lost' = lost
      BY <1>4 DEF RejectedAtCapacity, Asking
    <2>2. failureId = "last" \/ Forgotten(cur)
      BY <1>4, Zenon DEF CountInv, PassInv
    <2> QED BY <1>1, <1>2, <1>3, <2>1, <2>2, ReturnPass, SaveStep
  <1>5. CASE pc \in {"started", "settle"}
    <2>1. lost' = [lost EXCEPT ![cur] = lost[cur] + 1]
      BY <1>5, Zenon DEF RejectedAtCapacity
    <2>2. /\ r.total_attempts \in Nat
          /\ r.total_attempts = r.model_index * RetryLimit + r.attempts_in_model
          /\ r.total_attempts <= Budget
          /\ tried[cur] <= Budget * lost[cur] + r.total_attempts
      BY <1>2, <1>3, Zenon DEF CountInv, AttemptsAddUp, CountsCover,
           CountedRecords, SameCounts
    <2>3. /\ lost[cur] + 1 \in Nat
          /\ tried[cur] <= Budget * (lost[cur] + 1)
          /\ tried[cur] <= Budget * (lost[cur] + 1) + r.total_attempts
      BY <1>2, <2>2, LostCovers
    <2> QED BY <1>1, <1>2, <1>3, <2>1, <2>2, <2>3, ReturnPass, OneThreadStep
  <1> QED BY <1>1, <1>4, <1>5

-----------------------------------------------------------------------------
LEMMA WorldStep == ASSUME CountInv, World \/ UNCHANGED vars PROVE CountInv'
  <1>1. ASSUME NEW t \in Threads, UserTurn(t) PROVE CountInv'
    <2>1. OtherTurnBegins(t) /\ UNCHANGED <<pc, cur>>
      BY <1>1, Zenon DEF UserTurn
    <2> QED BY <2>1, OtherTurnStep
  <1>2. ASSUME UNCHANGED <<record, tried, lost, pc, cur, viewId, failureId,
                           startedId>>
        PROVE  CountInv'
    BY <1>2, SamePass, QuietStep
  <1>3. ASSUME NEW t \in Threads, TurnEnds(t) \/ GoalChanges(t) PROVE CountInv'
    BY <1>2, <1>3, Zenon DEF TurnEnds, GoalChanges, passVars, ghostVars
  <1>4. CASE OwnerComes \/ OwnerLeaves \/ Tick \/ UNCHANGED vars
    BY <1>2, <1>4, Zenon DEF OwnerComes, OwnerLeaves, Tick, vars, passVars,
         ghostVars
  <1> QED BY <1>1, <1>3, <1>4 DEF World

LEMMA CountInvStep == CountInv /\ [Next]_vars => CountInv'
  <1> SUFFICES ASSUME CountInv, [Next]_vars PROVE CountInv'
    OBVIOUS
  <1>1. CASE BeginPass \/ Decide
    BY <1>1, BeginOrLeaveStep, ScheduleNewStep, ScheduleObservedStep,
       ExhaustStep, AttemptStep DEF Decide
  <1>2. CASE Retry
    BY <1>2, RequestStartStep, QuietRetryStep, ResumeThreadStep,
       GoalChangedStep, StartTurnStep, RecordStartStep, RetryFailedStep,
       RetrySettledStep DEF Retry
  <1>3. CASE Failure
    BY <1>3, CutShortStep, StartReplyLostStep, RejectedAtCapacityStep
       DEF Failure
  <1>4. CASE World \/ UNCHANGED vars
    BY <1>4, WorldStep
  <1> QED BY <1>1, <1>2, <1>3, <1>4 DEF Next

LEMMA InitCounts == Init => CountInv
  <1> SUFFICES ASSUME Init PROVE CountInv
    OBVIOUS
  <1>1. NoRecord \in CountedRecords /\ NoRecord.total_attempts = 0
        /\ NoRecord.model_index = 0 /\ NoRecord.attempts_in_model = 0
    BY NoRecordType
  <1>2. \A t \in Threads :
            record[t] = NoRecord /\ tried[t] = 0 /\ lost[t] = 0
    BY DEF Init
  <1>3. CountType
    BY <1>1 DEF Init, CountType, TurnIds
  <1>8. /\ 0 = 0 * RetryLimit + 0 /\ 0 <= Budget
        /\ 0 <= Budget * 0 /\ 0 <= Budget * 0 + 0
    BY Limits
  <1>4. AttemptsAddUp
    BY <1>1, <1>2, <1>8, Zenon DEF AttemptsAddUp
  <1>5. CountsCover
    BY <1>1, <1>2, <1>8, Zenon DEF CountsCover
  <1>6. Known
    BY <1>2, <1>8, Zenon DEF Known, Forgotten
  <1>7. PassInv
    BY DEF Init, PassInv, Asking
  <1> QED BY <1>3, <1>4, <1>5, <1>6, <1>7 DEF CountInv

LEMMA CountInvariant == Spec => []CountInv
  BY InitCounts, CountInvStep, PTL DEF Spec

\* The three counters of a record agree whatever sequence of retries, failures,
\* replacements and crashes wrote it, for every number of fallbacks and every
\* retry limit (engine.py:693-1174).
THEOREM CountersAgree == Spec => []AttemptsAddUp
  <1>1. CountInv => AttemptsAddUp
    BY DEF CountInv
  <1> QED BY <1>1, CountInvariant, PTL

\* A thread whose model stays at capacity is given at most RetryLimit retries on
\* each model, and as many again for each failure that made Guardian lose the
\* turn it had started, for every number of threads, fallbacks and faults
\* (engine.py:693-1174).
THEOREM RetriesEnd == Spec => []RetriesBounded
  <1>1. ASSUME CountInv PROVE RetriesBounded
    <2> SUFFICES ASSUME NEW t \in Threads
                 PROVE  tried[t] <= Budget * (1 + lost[t])
      BY DEF RetriesBounded
    <2>1. /\ record[t].total_attempts \in Nat
          /\ tried[t] \in Nat /\ lost[t] \in Nat
      BY <1>1 DEF CountInv, CountType, CountedRecords
    <2>2. /\ record[t].total_attempts <= Budget
          /\ tried[t] <= Budget * lost[t] + record[t].total_attempts
      BY <1>1 DEF CountInv, CountsCover
    <2>3. 1 + lost[t] = lost[t] + 1
      BY <2>1
    <2> QED BY <2>1, <2>2, <2>3, LostCovers
  <1> QED BY <1>1, CountInvariant, PTL

-----------------------------------------------------------------------------
(* The remaining types.  The bounds of a record are no matter of its       *)
(* shape: a failure is counted only after a retry that was.                *)

PassPoints ==
    {"idle", "choose", "check", "resume", "reread", "regoal", "start", "started",
     "settle", "settled"}

WorldType ==
    /\ mode \in Modes
    /\ lag \in 0 .. BackoffMax
    /\ wait \in [Threads -> 0 .. BackoffMax]
    /\ since \in [Threads -> 0 .. BackoffMax]
    /\ thread \in [Threads -> ThreadViews]
    /\ goalActive \subseteq Threads
    /\ blocked \in BOOLEAN
    /\ disturbances \in 0 .. MaxDisturbances
    /\ faults \in 0 .. MaxFaults
    /\ \A t \in Threads : lost[t] <= faults

ViewType ==
    /\ pc \in PassPoints
    /\ view \in ThreadViews
    /\ viewStarted \in BOOLEAN
    /\ idleSeen \in 0 .. 2
    /\ pc = "settle" => idleSeen \in 0 .. 1
    /\ pc \notin {"settle", "settled"} => idleSeen = 0

Retrying == Asking \/ pc \in {"started", "settle", "settled"}

\* Every failure but the last was answered by a retry that the record counts.
Answered(r) == r.capacity_failure_count <= r.total_attempts

SoundRecord(r) ==
    /\ r.model_index <= Fallbacks
    /\ r.capacity_failure_count <= r.total_attempts + 1
    /\ r.recovery_turn_id # None => Answered(r)

FailuresCounted ==
    /\ \A t \in Threads : SoundRecord(record[t])
    /\ Retrying => Answered(record[cur])

LEMMA BackoffType == \A n : Backoff(n) \in 0 .. BackoffMax
  <1>1. BackoffMax \in Nat
    BY CapacityAssumption
  <1> DEFINE delay(n) == BackoffInitial * 2 ^ (n - 1)
  <1>2. SUFFICES ASSUME NEW n
                 PROVE  (IF delay(n) \in 0 .. BackoffMax
                         THEN delay(n) ELSE BackoffMax) \in 0 .. BackoffMax
    BY DEF Backoff
  <1> HIDE DEF delay
  <1> QED BY <1>1

LEMMA ReturnView == ASSUME Return PROVE ViewType' /\ ~Retrying'
  <1>1. /\ pc' = "idle" /\ view' = [active |-> FALSE, last |-> "none"]
        /\ viewStarted' = FALSE /\ idleSeen' = 0
    BY DEF Return
  <1>2. view' \in ThreadViews
    BY <1>1 DEF ThreadViews, TurnStates
  <1>3. ~Retrying'
    BY <1>1 DEF Retrying, Asking
  <1>4. pc' \in PassPoints /\ idleSeen' \in 0 .. 2
    BY <1>1 DEF PassPoints
  <1>5. pc' # "settle" /\ viewStarted' \in BOOLEAN /\ idleSeen' = 0
    BY <1>1
  <1> QED BY <1>2, <1>3, <1>4, <1>5, Zenon DEF ViewType

-----------------------------------------------------------------------------
(* Failures are counted. *)

LEMMA SoundStep ==
    ASSUME CountType, FailuresCounted, NEW x \in Threads, NEW r,
           record' = [record EXCEPT ![x] = r], SoundRecord(r),
           \/ ~Retrying'
           \/ cur' = x /\ Answered(r)
           \/ cur' = cur /\ cur # x /\ Retrying
    PROVE  FailuresCounted'
  <1>1. \A t \in Threads : record'[t] = IF t = x THEN r ELSE record[t]
    BY DEF CountType
  <1>2. Retrying => cur \in Threads
    BY DEF CountType, Retrying, Asking
  <1> QED BY <1>1, <1>2 DEF FailuresCounted, SoundRecord, Answered

LEMMA SameSound ==
    ASSUME CountType, FailuresCounted, record' = record,
           ~Retrying' \/ (cur' = cur /\ Retrying)
    PROVE  FailuresCounted'
  BY DEF FailuresCounted, SoundRecord, Answered

LEMMA RescheduledSound ==
    ASSUME NEW r \in CountedRecords, SoundRecord(r), Answered(r), NEW failed
    PROVE  SoundRecord(Rescheduled(r, failed))
  BY DEF CountedRecords, SoundRecord, Answered, Rescheduled, None

LEMMA ActionSound ==
    ASSUME NEW r \in CountedRecords, SoundRecord(r), NEW a
    PROVE  SoundRecord([r EXCEPT !.action = a])
  BY DEF CountedRecords, SoundRecord, Answered

LEMMA AgedSound ==
    ASSUME NEW r \in CountedRecords, SoundRecord(r)
    PROVE  /\ SoundRecord(Aged(r))
           /\ Answered(r) => Answered(Aged(r))
  BY DEF CountedRecords, SoundRecord, Answered, Aged, Age, None

LEMMA DecisionSound ==
    ASSUME CountInv, FailuresCounted, NEW t \in Threads,
           ScheduleNew(t) \/ ScheduleObserved(t) \/ Exhaust(t) \/ Attempt(t)
    PROVE  FailuresCounted'
  <1>0. CountType /\ record[t] \in CountedRecords /\ SoundRecord(record[t])
    BY DEF CountInv, CountType, FailuresCounted
  <1>1. CASE ScheduleNew(t)
    <2>1. record' = [record EXCEPT ![t] = NewRecord] /\ ~Retrying'
      BY <1>1 DEF ScheduleNew, Return, SaveDecision, Retrying, Asking
    <2>2. SoundRecord(NewRecord)
      BY Limits DEF SoundRecord, Answered, NewRecord, NoRecord, None
    <2> QED BY <1>0, <2>1, <2>2, SoundStep
  <1>2. CASE ScheduleObserved(t)
    <2>1. /\ record' = [record EXCEPT ![t] = Rescheduled(record[t], "last")]
          /\ ~Retrying' /\ record[t].recovery_turn_id = "last"
      BY <1>2 DEF ScheduleObserved, Return, SaveDecision, Retrying, Asking
    <2>2. Answered(record[t])
      BY <1>0, <2>1 DEF SoundRecord, None
    <2> QED BY <1>0, <2>1, <2>2, RescheduledSound, SoundStep
  <1>3. CASE Exhaust(t)
    <2>1. /\ record' =
               [record EXCEPT
                  ![t] = [record[t] EXCEPT !.action = "fallbacks_exhausted"]]
          /\ ~Retrying'
      BY <1>3 DEF Exhaust, Return, SaveDecision, Retrying, Asking
    <2> QED BY <1>0, <2>1, ActionSound, SoundStep
  <1>4. CASE Attempt(t)
    <2>1. record' = record /\ ~Retrying'
      BY <1>4 DEF Attempt, Retrying, Asking
    <2> QED BY <1>0, <2>1, SameSound
  <1> QED BY <1>1, <1>2, <1>3, <1>4

LEMMA DecideSound ==
    ASSUME CountInv, FailuresCounted, BeginPass \/ Decide
    PROVE  FailuresCounted'
  <1>1. CASE BeginPass \/ LeavePass
    <2>1. CountType /\ record' = record /\ ~Retrying'
      BY <1>1 DEF BeginPass, LeavePass, Return, Retrying, Asking, CountInv
    <2> QED BY <2>1, SameSound
  <1> QED BY <1>1, DecisionSound DEF Decide

LEMMA TurnBeginsSound ==
    ASSUME CountInv, FailuresCounted, NEW t \in Threads,
           record' = [record EXCEPT ![t].failure_turn_id = Age(@),
                                    ![t].recovery_turn_id = Age(@)],
           ~Retrying' \/ (cur' = cur /\ Retrying)
    PROVE  FailuresCounted'
  <1>1. record' = [record EXCEPT ![t] = Aged(record[t])]
    BY TurnBeginsAges
  <1>2. CountType /\ record[t] \in CountedRecords /\ SoundRecord(record[t])
    BY DEF CountInv, CountType, FailuresCounted
  <1>3. /\ SoundRecord(Aged(record[t]))
        /\ Answered(record[t]) => Answered(Aged(record[t]))
    BY <1>2, AgedSound
  <1> QED BY <1>1, <1>2, <1>3, SoundStep DEF FailuresCounted

LEMMA RetrySound ==
    ASSUME CountInv, FailuresCounted, Retry
    PROVE  FailuresCounted'
  <1> USE DEF Retrying, Asking
  <1>0. CountType /\ (pc \notin {"idle", "choose"} => cur \in Threads)
    BY DEF CountInv, CountType
  <1>r. ASSUME cur \in Threads
        PROVE  record[cur] \in CountedRecords /\ SoundRecord(record[cur])
    BY <1>r DEF CountInv, CountType, FailuresCounted
  <1>1. CASE EvidenceChanged
    BY <1>0, <1>1, ReturnView, SameSound DEF EvidenceChanged
  <1>2. CASE RequestStart
    <2> DEFINE r == [record[cur] EXCEPT
                       !.action = "start_requested",
                       !.model_index = NextModel(record[cur]),
                       !.attempts_in_model = NextAttempt(record[cur]),
                       !.total_attempts = @ + 1,
                       !.recovery_turn_id = None]
    <2>1. /\ pc = "check" /\ pc' = "resume" /\ cur' = cur
          /\ record' = [record EXCEPT ![cur] = r]
      BY <1>2, Zenon DEF RequestStart, Save, passVars
    <2>2. NextModel(record[cur]) <= Fallbacks
      BY <2>1 DEF CountInv, PassInv
    <2>3. SoundRecord(r) /\ Answered(r)
      BY <1>0, <1>r, <2>1, <2>2 DEF SoundRecord, Answered, CountedRecords
    <2> HIDE DEF r
    <2> QED BY <1>0, <2>1, <2>3, SoundStep
  <1>3. CASE ResumeThread
    <2>1. pc = "resume" /\ pc' = "reread" /\ cur' = cur
      BY <1>3 DEF ResumeThread
    <2>2. \/ record' = record
          \/ record' = [record EXCEPT ![cur].failure_turn_id = Age(@),
                                      ![cur].recovery_turn_id = Age(@)]
      BY <1>3, Zenon DEF ResumeThread, OtherTurnBegins, TurnBegins
    <2> QED BY <1>0, <2>1, <2>2, SameSound, TurnBeginsSound
  <1>4. CASE RereadThread \/ AdoptTurn \/ PrepareStart \/ PollThread
    <2>1. record' = record /\ cur' = cur /\ Retrying
      BY <1>4 DEF RereadThread, AdoptTurn, PrepareStart, PollThread, passVars
    <2> QED BY <1>0, <2>1, SameSound
  <1>5. CASE GoalChanged \/ RetrySettled
    <2>1. /\ cur \in Threads /\ Return
          /\ \E a : record' = [record EXCEPT
                                 ![cur] = [record[cur] EXCEPT !.action = a]]
      BY <1>0, <1>5, Zenon DEF GoalChanged, RetrySettled, Save
    <2> QED BY <1>0, <1>r, <2>1, ReturnView, ActionSound, SoundStep
  <1>6. CASE StartTurn
    <2>1. pc = "start" /\ pc' = "started" /\ cur' = cur
      BY <1>6 DEF StartTurn
    <2>2. record' = [record EXCEPT ![cur].failure_turn_id = Age(@),
                                   ![cur].recovery_turn_id = Age(@)]
      BY <1>6, Zenon DEF StartTurn, ServerStartsTurn, TurnBegins
    <2> QED BY <1>0, <2>1, <2>2, TurnBeginsSound
  <1>7. CASE RecordStart
    <2> DEFINE r == [record[cur] EXCEPT !.action = "turn_started",
                                        !.recovery_turn_id = startedId]
    <2>1. /\ pc = "started" /\ record' = [record EXCEPT ![cur] = r]
          /\ Return \/ cur' = cur
      BY <1>7, Zenon DEF RecordStart, Save, passVars
    <2>2. Answered(record[cur])
      BY <2>1 DEF FailuresCounted
    <2>3. SoundRecord(r) /\ Answered(r)
      BY <1>0, <1>r, <2>1, <2>2 DEF SoundRecord, Answered, CountedRecords
    <2> HIDE DEF r
    <2> QED BY <1>0, <2>1, <2>3, ReturnView, SoundStep
  <1>8. CASE RetryFailed
    <2>1. /\ pc = "settled" /\ Return
          /\ record' = [record EXCEPT ![cur] = Rescheduled(record[cur], viewId)]
      BY <1>8, Zenon DEF RetryFailed, Save
    <2>2. Answered(record[cur])
      BY <2>1 DEF FailuresCounted
    <2> QED BY <1>0, <1>r, <2>1, <2>2, ReturnView, RescheduledSound, SoundStep
  <1> QED BY <1>1, <1>2, <1>3, <1>4, <1>5, <1>6, <1>7, <1>8 DEF Retry

LEMMA FailureSound ==
    ASSUME CountInv, FailuresCounted, Failure
    PROVE  FailuresCounted'
  <1> USE DEF Retrying, Asking
  <1>0. CountType /\ (pc \notin {"idle", "choose"} => cur \in Threads)
    BY DEF CountInv, CountType
  <1>1. CASE CutShort
    BY <1>0, <1>1, ReturnView, SameSound DEF CutShort
  <1>2. CASE StartReplyLost
    <2>1. /\ pc = "start" /\ Return
          /\ record' = [record EXCEPT ![cur].failure_turn_id = Age(@),
                                      ![cur].recovery_turn_id = Age(@)]
      BY <1>2, Zenon DEF StartReplyLost
    <2> QED BY <1>0, <2>1, ReturnView, TurnBeginsSound
  <1>3. CASE RejectedAtCapacity
    <2>1. /\ Retrying /\ pc \notin {"idle", "choose"} /\ Return
          /\ record' = [record EXCEPT
                          ![cur] = Rescheduled(record[cur], failureId)]
      BY <1>3, Zenon DEF RejectedAtCapacity, Save
    <2>2. /\ record[cur] \in CountedRecords
          /\ SoundRecord(record[cur]) /\ Answered(record[cur])
      BY <1>0, <2>1 DEF CountType, FailuresCounted
    <2> QED BY <1>0, <2>1, <2>2, ReturnView, RescheduledSound, SoundStep
  <1> QED BY <1>1, <1>2, <1>3 DEF Failure

LEMMA WorldSound ==
    ASSUME CountInv, FailuresCounted, World \/ UNCHANGED vars
    PROVE  FailuresCounted'
  <1> USE DEF Retrying, Asking
  <1>0. CountType
    BY DEF CountInv
  <1>1. pc' = pc /\ cur' = cur
    BY DEF World, UserTurn, TurnEnds, GoalChanges, OwnerComes, OwnerLeaves,
           Tick, vars, passVars
  <1>2. ASSUME NEW t \in Threads, UserTurn(t) PROVE FailuresCounted'
    <2>1. record' = [record EXCEPT ![t].failure_turn_id = Age(@),
                                   ![t].recovery_turn_id = Age(@)]
      BY <1>2, Zenon DEF UserTurn, OtherTurnBegins, TurnBegins
    <2> QED BY <1>1, <2>1, TurnBeginsSound
  <1>3. ASSUME record' = record PROVE FailuresCounted'
    BY <1>0, <1>1, <1>3, SameSound
  <1>4. CASE \/ \E t \in Threads : TurnEnds(t) \/ GoalChanges(t)
             \/ OwnerComes \/ OwnerLeaves \/ Tick \/ UNCHANGED vars
    BY <1>3, <1>4 DEF TurnEnds, GoalChanges, OwnerComes, OwnerLeaves, Tick,
                      vars
  <1> QED BY <1>2, <1>4 DEF World

-----------------------------------------------------------------------------
(* Type correctness. *)

TypeInv == CountInv /\ FailuresCounted /\ WorldType /\ ViewType

LEMMA FaultType ==
    ASSUME TypeInv, faults < MaxFaults, faults' = faults + 1,
           \/ lost' = lost
           \/ \E x \in Threads : lost' = [lost EXCEPT ![x] = lost[x] + 1]
    PROVE  /\ faults' \in 0 .. MaxFaults
           /\ \A t \in Threads : lost'[t] <= faults'
  <1>1. /\ MaxFaults \in Nat /\ faults \in 0 .. MaxFaults
        /\ lost \in [Threads -> Nat] /\ \A t \in Threads : lost[t] <= faults
    BY CapacityAssumption DEF TypeInv, WorldType, CountInv, CountType
  <1>2. \A t \in Threads : lost'[t] \in {lost[t], lost[t] + 1}
    BY <1>1
  <1> QED BY <1>1, <1>2


RunningView == [active |-> TRUE, last |-> "inProgress"]

\* What a step may do to the parts of the world the pass has no say in.
LEMMA SameWorld ==
    ASSUME TypeInv, UNCHANGED <<mode, goalActive, blocked>>,
           wait' \in [Threads -> 0 .. BackoffMax],
           since' \in [Threads -> 0 .. BackoffMax],
           lag' \in 0 .. BackoffMax,
           thread' \in [Threads -> ThreadViews],
           disturbances' \in 0 .. MaxDisturbances,
           faults' \in 0 .. MaxFaults,
           \A t \in Threads : lost'[t] <= faults'
    PROVE  WorldType'
  BY DEF TypeInv, WorldType

LEMMA WorldKept ==
    ASSUME TypeInv
    PROVE  /\ wait \in [Threads -> 0 .. BackoffMax]
           /\ since \in [Threads -> 0 .. BackoffMax]
           /\ lag \in 0 .. BackoffMax
           /\ thread \in [Threads -> ThreadViews]
           /\ disturbances \in 0 .. MaxDisturbances
           /\ faults \in 0 .. MaxFaults
           /\ \A t \in Threads : lost[t] <= faults
           /\ lost \in [Threads -> Nat]
           /\ pc \notin {"idle", "choose"} => cur \in Threads
           /\ MaxDisturbances \in Nat /\ MaxFaults \in Nat
           /\ BackoffMax \in Nat \ {0}
  BY CapacityAssumption DEF TypeInv, WorldType, CountInv, CountType

LEMMA AsOfNowType ==
    ASSUME TypeInv, NEW ticks \in [Threads -> 0 .. BackoffMax]
    PROVE  AsOfNow(ticks) \in [Threads -> 0 .. BackoffMax]
  BY WorldKept DEF AsOfNow

\* A record is due at once, or after the backoff of its failures.
LEMMA SaveWait ==
    ASSUME TypeInv,
           \/ RequestStart \/ GoalChanged \/ RecordStart \/ RetryFailed
           \/ RetrySettled \/ RejectedAtCapacity
    PROVE  wait' \in [Threads -> 0 .. BackoffMax]
  <1>1. \E t, n : wait' = [wait EXCEPT ![t] = 0]
                  \/ wait' = [wait EXCEPT ![t] = Backoff(n)]
    BY Zenon DEF RequestStart, GoalChanged, RecordStart, RetryFailed,
         RetrySettled, RejectedAtCapacity, Save
  <1> QED BY <1>1, WorldKept, BackoffType

\* The pass decides, and what is left of every wait counts from now.
LEMMA DecideWait ==
    ASSUME TypeInv, Decide
    PROVE  wait' \in [Threads -> 0 .. BackoffMax] /\ lag' = 0
  <1>1. /\ lag' = 0
        /\ \/ wait' = AsOfNow(wait)
           \/ \E t \in Threads, n \in 0 .. BackoffMax :
                wait' = AsOfNow([wait EXCEPT ![t] = n])
    <2>1. 0 \in 0 .. BackoffMax
      BY WorldKept
    <2> QED BY <2>1, BackoffType, Zenon
            DEF Decide, LeavePass, ScheduleNew, ScheduleObserved, Exhaust,
                Attempt, SaveDecision, Return
  <1>2. \A t \in Threads, n \in 0 .. BackoffMax :
          [wait EXCEPT ![t] = n] \in [Threads -> 0 .. BackoffMax]
    BY WorldKept
  <1> QED BY <1>1, <1>2, WorldKept, AsOfNowType

LEMMA BeginsType ==
    ASSUME TypeInv, NEW t \in Threads,
           thread' = [thread EXCEPT ![t] = RunningView]
    PROVE  thread' \in [Threads -> ThreadViews]
  BY WorldKept DEF RunningView, ThreadViews, TurnStates

LEMMA PassKeepsWorldType ==
    ASSUME TypeInv, BeginPass \/ Decide \/ Retry \/ Failure
    PROVE  WorldType'
  <1> USE DEF passVars
  <1>1. CASE BeginPass \/ Decide
    <2>1. UNCHANGED <<mode, goalActive, blocked, thread, since, disturbances,
                      faults, lost>>
      BY <1>1, Zenon
         DEF BeginPass, Decide, LeavePass, ScheduleNew, ScheduleObserved,
             Exhaust, Attempt, worldVars, ghostVars
    <2>2. /\ wait' \in [Threads -> 0 .. BackoffMax]
          /\ lag' \in 0 .. BackoffMax
      BY <1>1, DecideWait, WorldKept DEF BeginPass
    <2> QED BY <2>1, <2>2, SameWorld, WorldKept
  <1>2. CASE \/ RequestStart \/ GoalChanged \/ RecordStart \/ RetryFailed
             \/ RetrySettled
    <2>1. /\ UNCHANGED <<mode, goalActive, blocked, thread, since, disturbances,
                         faults, lost>>
          /\ lag' \in {0, lag}
      BY <1>2, Zenon
         DEF RequestStart, GoalChanged, RecordStart, RetryFailed, RetrySettled,
             Return, worldVars, ghostVars
    <2> QED BY <1>2, <2>1, SaveWait, SameWorld, WorldKept
  <1>3. CASE \/ EvidenceChanged \/ RereadThread \/ AdoptTurn \/ PrepareStart
             \/ PollThread
    <2>1. /\ UNCHANGED <<mode, goalActive, blocked, thread, since, disturbances,
                         faults, lost, wait>>
          /\ lag' \in {0, lag}
      BY <1>3, Zenon
         DEF EvidenceChanged, RereadThread, AdoptTurn, PrepareStart, PollThread,
             Return, worldVars, ghostVars
    <2> QED BY <2>1, SameWorld, WorldKept
  <1>4. CASE ResumeThread \/ StartTurn
    <2>1. /\ UNCHANGED <<mode, goalActive, blocked, disturbances, faults, wait,
                         lag>>
          /\ cur \in Threads
      BY <1>4, WorldKept DEF ResumeThread, StartTurn
    <2>2. \/ UNCHANGED <<thread, lost, since>>
          \/ /\ thread' = [thread EXCEPT ![cur] = RunningView]
             /\ since' = [since EXCEPT ![cur] = 0]
             /\ lost' \in {lost, [lost EXCEPT ![cur] = 0]}
      BY <1>4 DEF ResumeThread, StartTurn, ServerStartsTurn, OtherTurnBegins,
                  TurnBegins, RunningView, ghostVars
    <2>3. /\ \A t \in Threads : lost'[t] <= faults
          /\ since' \in [Threads -> 0 .. BackoffMax]
      BY <2>1, <2>2, WorldKept
    <2> QED BY <2>1, <2>2, <2>3, SameWorld, WorldKept, BeginsType
  <1>5. CASE StartReplyLost
    <2>1. /\ UNCHANGED <<mode, goalActive, blocked, disturbances, wait>>
          /\ cur \in Threads /\ lag' = 0
          /\ faults < MaxFaults /\ faults' = faults + 1
          /\ lost' = [lost EXCEPT ![cur] = lost[cur] + 1]
          /\ since' = [since EXCEPT ![cur] = 0]
          /\ thread' = [thread EXCEPT ![cur] = RunningView]
      BY <1>5, WorldKept DEF StartReplyLost, Return, RunningView
    <2>2. since' \in [Threads -> 0 .. BackoffMax]
      BY <2>1, WorldKept
    <2> QED BY <2>1, <2>2, SameWorld, WorldKept, BeginsType, FaultType
  <1>6. CASE CutShort
    <2>1. /\ UNCHANGED <<mode, goalActive, blocked, thread, disturbances, since>>
          /\ faults < MaxFaults /\ faults' = faults + 1
          /\ wait' = AsOfNow(wait) /\ lag' = 0
          /\ \/ lost' = lost
             \/ pc = "started" /\ lost' = [lost EXCEPT ![cur] = lost[cur] + 1]
      BY <1>6 DEF CutShort, Return, worldVars
    <2>2. wait' \in [Threads -> 0 .. BackoffMax]
      BY <2>1, AsOfNowType, WorldKept
    <2>3. pc = "started" => cur \in Threads
      BY WorldKept
    <2> QED BY <2>1, <2>2, <2>3, SameWorld, WorldKept, FaultType
  <1>7. CASE RejectedAtCapacity
    <2>1. /\ UNCHANGED <<mode, goalActive, blocked, thread, disturbances>>
          /\ faults < MaxFaults /\ faults' = faults + 1
          /\ since' = [since EXCEPT ![cur] = 0] /\ lag' = 0
          /\ lost' = lost \/ lost' = [lost EXCEPT ![cur] = lost[cur] + 1]
          /\ cur \in Threads
      BY <1>7, WorldKept DEF RejectedAtCapacity, Return, worldVars
    <2>2. wait' \in [Threads -> 0 .. BackoffMax]
      BY <1>7, SaveWait
    <2>3. since' \in [Threads -> 0 .. BackoffMax]
      BY <2>1, WorldKept
    <2> QED BY <2>1, <2>2, <2>3, SameWorld, WorldKept, FaultType
  <1> QED BY <1>1, <1>2, <1>3, <1>4, <1>5, <1>6, <1>7 DEF Retry, Failure

LEMMA WorldKeepsWorldType ==
    ASSUME TypeInv, World \/ UNCHANGED vars
    PROVE  WorldType'
  <1> USE DEF passVars
  <1>d. ASSUME Disturb PROVE disturbances' \in 0 .. MaxDisturbances
    BY <1>d, WorldKept DEF Disturb
  <1>1. ASSUME NEW t \in Threads, UserTurn(t) PROVE WorldType'
    <2>1. /\ UNCHANGED <<mode, goalActive, blocked, wait, faults, lag>>
          /\ Disturb
          /\ lost' = [lost EXCEPT ![t] = 0]
          /\ since' = [since EXCEPT ![t] = 0]
          /\ thread' = [thread EXCEPT ![t] = RunningView]
      BY <1>1 DEF UserTurn, OtherTurnBegins, TurnBegins, RunningView
    <2>2. /\ \A u \in Threads : lost'[u] <= faults
          /\ since' \in [Threads -> 0 .. BackoffMax]
      BY <2>1, WorldKept
    <2> QED BY <1>d, <2>1, <2>2, SameWorld, WorldKept, BeginsType
  <1>2. ASSUME NEW t \in Threads, TurnEnds(t) PROVE WorldType'
    <2>1. UNCHANGED <<mode, goalActive, blocked, wait, disturbances, faults,
                      lost, lag>>
      BY <1>2 DEF TurnEnds
    <2>2. PICK end \in {"capacity", "otherEnd"}, age \in {0, lag} :
            /\ thread' = [thread EXCEPT ![t] = [active |-> FALSE, last |-> end]]
            /\ since' = [since EXCEPT ![t] = age]
      BY <1>2 DEF TurnEnds
    <2>3. thread' \in [Threads -> ThreadViews]
      BY <2>2, WorldKept DEF ThreadViews, TurnStates
    <2>4. since' \in [Threads -> 0 .. BackoffMax]
      BY <2>2, WorldKept
    <2> QED BY <2>1, <2>3, <2>4, SameWorld, WorldKept
  <1>3. CASE \E t \in Threads : GoalChanges(t)
    <2>1. /\ UNCHANGED <<mode, blocked, thread, wait, since, faults, lost, lag>>
          /\ Disturb
          /\ goalActive' \subseteq Threads
      BY <1>3 DEF GoalChanges, ghostVars, TypeInv, WorldType
    <2> QED BY <1>d, <2>1 DEF TypeInv, WorldType
  <1>4. CASE OwnerComes \/ OwnerLeaves
    <2>1. /\ UNCHANGED <<mode, goalActive, thread, wait, since, faults, lost, lag>>
          /\ Disturb \/ disturbances' = disturbances
          /\ blocked' \in BOOLEAN
      BY <1>4 DEF OwnerComes, OwnerLeaves, ghostVars
    <2> QED BY <1>d, <2>1 DEF TypeInv, WorldType
  <1>5. CASE Tick
    <2>1. UNCHANGED <<mode, goalActive, blocked, thread, disturbances, faults,
                      lost>>
      BY <1>5 DEF Tick, worldVars
    <2>2. \A n \in 0 .. BackoffMax : /\ Later(n) \in 0 .. BackoffMax
                                     /\ 0 \in 0 .. BackoffMax
      BY WorldKept DEF Later
    <2>3. wait' \in [Threads -> 0 .. BackoffMax] /\ lag' \in 0 .. BackoffMax
      BY <1>5, <2>2, WorldKept DEF Tick
    <2>4. since' \in [Threads -> 0 .. BackoffMax]
      BY <1>5, <2>2, WorldKept DEF Tick
    <2> QED BY <2>1, <2>3, <2>4, SameWorld, WorldKept
  <1>6. CASE UNCHANGED vars
    BY <1>6, SameWorld, WorldKept DEF vars, worldVars, ghostVars
  <1> QED BY <1>1, <1>2, <1>3, <1>4, <1>5, <1>6 DEF World

LEMMA NextKeepsViewType ==
    ASSUME TypeInv, [Next]_vars
    PROVE  ViewType'
  <1>0. ViewType /\ thread \in [Threads -> ThreadViews]
        /\ (pc \notin {"idle", "choose"} => cur \in Threads)
    BY WorldKept DEF TypeInv
  <1>1. ASSUME Return PROVE ViewType'
    BY <1>1, ReturnView
  <1>2. ASSUME UNCHANGED <<view, viewStarted, idleSeen>>,
               \/ pc' = pc
               \/ /\ pc \notin {"settle", "settled"}
                  /\ pc' \in PassPoints \ {"settled"}
        PROVE  ViewType'
    BY <1>0, <1>2 DEF ViewType, PassPoints
  <1>3. CASE BeginPass \/ \E t \in Threads : Attempt(t)
    BY <1>2, <1>3 DEF BeginPass, Attempt, Due, Choose, passVars, PassPoints
  <1>a. CASE \/ LeavePass
             \/ \E t \in Threads :
                  ScheduleNew(t) \/ ScheduleObserved(t) \/ Exhaust(t)
    BY <1>1, <1>a, Zenon DEF LeavePass, ScheduleNew, ScheduleObserved, Exhaust
  <1>4. CASE \/ EvidenceChanged \/ GoalChanged \/ RetryFailed \/ RetrySettled
             \/ Failure
    BY <1>1, <1>4 DEF EvidenceChanged, GoalChanged, RetryFailed, RetrySettled,
         Failure, CutShort, StartReplyLost, RejectedAtCapacity
  <1>5. CASE RequestStart \/ ResumeThread \/ AdoptTurn \/ PrepareStart
             \/ StartTurn
    BY <1>2, <1>5 DEF RequestStart, ResumeThread, AdoptTurn, PrepareStart,
         StartTurn, passVars, PassPoints
  <1>6. CASE RereadThread
    <2>1. /\ pc = "reread" /\ pc' = "regoal" /\ view' = thread[cur]
          /\ UNCHANGED <<viewStarted, idleSeen>>
      BY <1>6 DEF RereadThread
    <2> QED BY <1>0, <2>1 DEF ViewType, PassPoints
  <1>7. CASE RecordStart
    <2>1. CASE Return
      BY <1>1, <2>1
    <2>2. CASE ~Return
      BY <1>2, <1>7, <2>2 DEF RecordStart, passVars, PassPoints
    <2> QED BY <2>1, <2>2
  <1>8. CASE PollThread
    <2>1. /\ pc = "settle" /\ pc' \in {"settle", "settled"}
          /\ view' = thread[cur]
          /\ viewStarted' = (startedId = "last")
          /\ idleSeen' = IF thread[cur].active THEN 0 ELSE idleSeen + 1
          /\ pc' = "settle" => thread[cur].active \/ idleSeen # 1
      BY <1>8 DEF PollThread
    <2>2. view' \in ThreadViews /\ viewStarted' \in BOOLEAN
      BY <1>0, <2>1
    <2>3. idleSeen \in 0 .. 1
      BY <1>0, <2>1 DEF ViewType
    <2> QED BY <2>1, <2>2, <2>3 DEF ViewType, PassPoints
  <1>9. CASE World \/ UNCHANGED vars
    BY <1>2, <1>9 DEF World, UserTurn, TurnEnds, GoalChanges, OwnerComes,
         OwnerLeaves, Tick, vars, passVars
  <1> QED BY <1>3, <1>a, <1>4, <1>5, <1>6, <1>7, <1>8, <1>9
          DEF Next, Decide, Retry

LEMMA InitTypeInv == Init => TypeInv
  <1> SUFFICES ASSUME Init PROVE TypeInv
    OBVIOUS
  <1>0. BackoffMax \in Nat \ {0} /\ {MaxDisturbances, MaxFaults} \subseteq Nat
    BY CapacityAssumption
  <1>1. WorldType
    <2>1. thread \in [Threads -> ThreadViews]
      BY DEF Init, ThreadViews, TurnStates
    <2>2. /\ wait \in [Threads -> 0 .. BackoffMax]
          /\ since \in [Threads -> 0 .. BackoffMax]
          /\ lag \in 0 .. BackoffMax
          /\ disturbances \in 0 .. MaxDisturbances
          /\ faults \in 0 .. MaxFaults
          /\ \A t \in Threads : lost[t] <= faults
      BY <1>0 DEF Init
    <2>3. mode \in Modes /\ goalActive \subseteq Threads /\ blocked \in BOOLEAN
      BY DEF Init
    <2> QED BY <2>1, <2>2, <2>3 DEF WorldType
  <1>2. ViewType
    <2>1. view \in ThreadViews
      BY DEF Init, ThreadViews, TurnStates
    <2>2. pc \in PassPoints /\ pc # "settle" /\ idleSeen \in 0 .. 2
          /\ idleSeen = 0
      BY DEF Init, PassPoints
    <2>3. viewStarted \in BOOLEAN
      BY DEF Init
    <2> QED BY <2>1, <2>2, <2>3, Zenon DEF ViewType
  <1>3. FailuresCounted
    BY Limits DEF Init, FailuresCounted, SoundRecord, Answered, NoRecord,
         Retrying, Asking, None
  <1> QED BY <1>1, <1>2, <1>3, InitCounts DEF TypeInv

LEMMA TypeInvariance == Spec => []TypeInv
  <1>1. TypeInv /\ [Next]_vars => TypeInv'
    <2> SUFFICES ASSUME TypeInv, [Next]_vars PROVE TypeInv'
      OBVIOUS
    <2>1. CountInv'
      BY CountInvStep DEF TypeInv
    <2>2. FailuresCounted'
      BY DecideSound, RetrySound, FailureSound, WorldSound DEF TypeInv, Next
    <2>3. WorldType'
      BY PassKeepsWorldType, WorldKeepsWorldType DEF Next
    <2>4. ViewType'
      BY NextKeepsViewType
    <2> QED BY <2>1, <2>2, <2>3, <2>4 DEF TypeInv
  <1> QED BY <1>1, InitTypeInv, PTL DEF Spec

\* Every record, delay and counter stays within its bounds for every number of
\* threads, fallbacks and retries: the backoff never exceeds its maximum, and a
\* failure is counted at most once more than there were retries
\* (engine.py:693-1174).
THEOREM TypeCorrect == Spec => []TypeOK
  <1>1. ASSUME TypeInv PROVE TypeOK
    <2>0. /\ CountType /\ CountsCover /\ FailuresCounted /\ WorldType
          /\ ViewType
      BY <1>1 DEF TypeInv, CountInv
    <2>1. record \in [Threads -> Records]
      <3> SUFFICES ASSUME NEW t \in Threads PROVE record[t] \in Records
        BY <2>0 DEF CountType
      <3>1. record[t] \in CountedRecords /\ SoundRecord(record[t])
            /\ record[t].total_attempts <= Budget
        BY <2>0 DEF CountType, CountsCover, FailuresCounted
      <3>2. /\ record[t].model_index \in 0 .. Fallbacks
            /\ record[t].total_attempts \in 0 .. Budget
            /\ record[t].capacity_failure_count \in 0 .. Budget + 1
        <4>1. Budget \in Nat /\ Fallbacks \in Nat
          BY Limits
        <4>2. /\ record[t].model_index <= Fallbacks
              /\ record[t].capacity_failure_count
                   <= record[t].total_attempts + 1
          BY <3>1 DEF SoundRecord
        <4> QED BY <3>1, <4>1, <4>2 DEF CountedRecords
      <3> QED BY <3>1, <3>2 DEF Records, CountedRecords
    <2>2. lost \in [Threads -> 0 .. MaxFaults]
      BY <1>1, WorldKept
    <2>3. cur \in Threads \cup {None}
      BY <2>0 DEF CountType
    <2> QED BY <2>0, <2>1, <2>2, <2>3
            DEF TypeOK, CountType, WorldType, ViewType, PassPoints
  <1> QED BY <1>1, TypeInvariance, PTL

-----------------------------------------------------------------------------
(* The backoff of a failure is served before it is retried. *)

Delay(r) == Backoff(r.capacity_failure_count)

\* What is left of the wait of a thread by the clock.
Left(t) == IF lag < wait[t] THEN wait[t] - lag ELSE 0

\* As long as a failure is the last turn of its thread, what was waited and
\* what is still to wait add up to the backoff.
Delayed(t) ==
    record[t].failure_turn_id = "last" =>
        /\ HasFailure(t) /\ ~thread[t].active
        /\ Left(t) + since[t] >= Delay(record[t])

\* From the check to turn/start, until some turn begins on the thread.
PassDelay ==
    /\ pc = "check" \/ Asking =>
         /\ failureId \in {"last", "older"}
         /\ record[cur].failure_turn_id = failureId
         /\ failureId = "last" => since[cur] >= Delay(record[cur])
    /\ pc = "regoal" => (view.active => failureId # "last")
    /\ pc \in {"started", "settle", "settled"} =>
         record[cur].failure_turn_id # "last"
    /\ pc \in {"started", "settle"} => failureId # "last"
    /\ pc = "settled" /\ viewId = "last" => view = thread[cur] /\ ~view.active

DelayInv == (\A t \in Threads : Delayed(t)) /\ PassDelay

LEMMA DelayType ==
    ASSUME TypeInv
    PROVE  /\ \A t \in Threads : /\ wait[t] \in 0 .. BackoffMax
                                 /\ since[t] \in 0 .. BackoffMax
           /\ \A r : Delay(r) \in 0 .. BackoffMax
           /\ BackoffMax \in Nat /\ 0 \in Nat
           /\ record \in [Threads -> CountedRecords]
           /\ thread \in [Threads -> ThreadViews]
           /\ wait \in [Threads -> 0 .. BackoffMax]
           /\ since \in [Threads -> 0 .. BackoffMax]
           /\ pc \notin {"idle", "choose"} => cur \in Threads
           /\ viewId \in TurnIds /\ failureId \in TurnIds
  BY WorldKept, BackoffType DEF TypeInv, CountInv, CountType, Delay

\* A pass that has yet to decide is no older than it counts any failure.
LagInv ==
    /\ pc # "choose" => lag = 0
    /\ \A t \in Threads : HasFailure(t) => lag <= since[t]

LEMMA LagStep ==
    ASSUME TypeInv, TypeInv', LagInv, [Next]_vars
    PROVE  LagInv'
  <1> USE DEF passVars
  <1>0. /\ since' \in [Threads -> 0 .. BackoffMax] /\ BackoffMax \in Nat
        /\ since \in [Threads -> 0 .. BackoffMax] /\ lag \in 0 .. BackoffMax
        /\ thread \in [Threads -> ThreadViews]
        /\ pc \notin {"idle", "choose"} => cur \in Threads
    BY WorldKept DEF TypeInv, WorldType
  <1>1. ASSUME lag' = 0 PROVE LagInv'
    BY <1>0, <1>1 DEF LagInv
  <1>2. ASSUME lag' = lag, pc' = pc,
               \A t \in Threads : HasFailure(t)' =>
                 since'[t] = lag \/ (HasFailure(t) /\ since'[t] = since[t])
        PROVE  LagInv'
    BY <1>0, <1>2 DEF LagInv
  <1>3. CASE BeginPass
    BY <1>1, <1>3 DEF BeginPass, LagInv
  <1>4. CASE Decide \/ CutShort
    BY <1>1, <1>4, Zenon DEF Decide, LeavePass, ScheduleNew, ScheduleObserved,
         Exhaust, Attempt, CutShort, Return
  <1>5. CASE Retry \/ StartReplyLost \/ RejectedAtCapacity
    <2>1. pc # "choose"
      BY <1>5 DEF Retry, EvidenceChanged, RequestStart, ResumeThread,
           RereadThread, GoalChanged, AdoptTurn, PrepareStart, StartTurn,
           RecordStart, PollThread, RetryFailed, RetrySettled, StartReplyLost,
           RejectedAtCapacity
    <2>2. lag' \in {0, lag}
      BY <1>5, Zenon DEF Retry, EvidenceChanged, RequestStart, ResumeThread,
           RereadThread, GoalChanged, AdoptTurn, PrepareStart, StartTurn,
           RecordStart, PollThread, RetryFailed, RetrySettled, StartReplyLost,
           RejectedAtCapacity, Return
    <2> QED BY <1>1, <2>1, <2>2 DEF LagInv
  <1>6. ASSUME NEW x \in Threads, UserTurn(x) PROVE LagInv'
    <2>1. /\ lag' = lag /\ pc' = pc
          /\ thread' = [thread EXCEPT ![x] = RunningView]
          /\ since' = [since EXCEPT ![x] = 0]
      BY <1>6, Zenon DEF UserTurn, OtherTurnBegins, TurnBegins, RunningView
    <2> QED BY <1>0, <1>2, <2>1 DEF HasFailure, RunningView
  <1>7. ASSUME NEW x \in Threads, TurnEnds(x) PROVE LagInv'
    <2>1. lag' = lag /\ pc' = pc
      BY <1>7 DEF TurnEnds
    <2>2. PICK end \in {"capacity", "otherEnd"} :
            /\ thread' = [thread EXCEPT ![x] = [active |-> FALSE, last |-> end]]
            /\ since' = [since EXCEPT ![x] = IF end = "capacity"
                                             THEN lag ELSE 0]
      BY <1>7 DEF TurnEnds
    <2>3. /\ thread'[x].last = end
          /\ since'[x] = IF end = "capacity" THEN lag ELSE 0
          /\ \A t \in Threads \ {x} :
               thread'[t] = thread[t] /\ since'[t] = since[t]
      BY <1>0, <2>2
    <2>4. \A t \in Threads : HasFailure(t)' =>
            since'[t] = lag \/ (HasFailure(t) /\ since'[t] = since[t])
      BY <2>3 DEF HasFailure
    <2> QED BY <1>2, <2>1, <2>4, Zenon
  <1>8. CASE Tick
    <2>1. /\ thread' = thread /\ pc' = pc
          /\ lag' = IF pc = "choose" THEN Later(lag) ELSE lag
          /\ \A t \in Threads : HasFailure(t) => since'[t] = Later(since[t])
      BY <1>8 DEF Tick, worldVars
    <2>2. \A m, n \in 0 .. BackoffMax : m <= n => Later(m) <= Later(n)
      BY <1>0 DEF Later
    <2> QED BY <1>0, <1>1, <2>1, <2>2 DEF LagInv, HasFailure
  <1>9. CASE \/ \E t \in Threads : GoalChanges(t)
             \/ OwnerComes \/ OwnerLeaves \/ UNCHANGED vars
    BY <1>2, <1>9 DEF GoalChanges, OwnerComes, OwnerLeaves, vars, worldVars,
         ghostVars, HasFailure
  <1> QED BY <1>3, <1>4, <1>5, <1>6, <1>7, <1>8, <1>9 DEF Next, Failure, World

\* A retry under way has its delays by the clock.
LEMMA RetryLag ==
    ASSUME LagInv, LagInv', Retry \/ StartReplyLost \/ RejectedAtCapacity
    PROVE  lag = 0 /\ lag' = 0
  <1>1. pc # "choose" /\ pc' # "choose"
    BY DEF Retry, EvidenceChanged, RequestStart, ResumeThread, RereadThread,
         GoalChanged, AdoptTurn, PrepareStart, StartTurn, RecordStart,
         PollThread, RetryFailed, RetrySettled, StartReplyLost,
         RejectedAtCapacity, Return
  <1> QED BY <1>1 DEF LagInv

LEMMA DelayedStep ==
    ASSUME TypeInv, DelayInv, NEW x \in Threads, Delayed(x)', lag' = lag,
           \A t \in Threads \ {x} :
             /\ record'[t] = record[t] /\ wait'[t] = wait[t]
             /\ since'[t] = since[t] /\ thread'[t] = thread[t]
    PROVE  (\A t \in Threads : Delayed(t))'
  BY DEF DelayInv, Delayed, Left, HasFailure, Delay, Backoff

LEMMA DelayedStays ==
    ASSUME TypeInv, DelayInv, UNCHANGED <<record, wait, since, thread, lag>>
    PROVE  (\A t \in Threads : Delayed(t))'
  BY DEF DelayInv, Delayed, Left, HasFailure, Delay, Backoff

\* What is left of the waits is the same when a pass has decided.
LEMMA LeftByTheClock ==
    ASSUME TypeInv, NEW ticks \in [Threads -> 0 .. BackoffMax],
           wait' = AsOfNow(ticks), lag' = 0
    PROVE  \A t \in Threads :
             Left(t)' = IF lag < ticks[t] THEN ticks[t] - lag ELSE 0
  <1> SUFFICES ASSUME NEW t \in Threads
               PROVE  Left(t)' = IF lag < ticks[t] THEN ticks[t] - lag ELSE 0
    OBVIOUS
  <1>1. /\ wait'[t] = IF lag < ticks[t] THEN ticks[t] - lag ELSE 0
        /\ lag \in Nat /\ ticks[t] \in Nat
    BY WorldKept DEF AsOfNow
  <1> QED BY <1>1 DEF Left

LEMMA DelayedDecision ==
    ASSUME TypeInv, DelayInv, UNCHANGED <<record, since, thread>>,
           wait' = AsOfNow(wait), lag' = 0
    PROVE  (\A t \in Threads : Delayed(t))'
  <1>1. \A t \in Threads : Left(t)' = Left(t)
    BY LeftByTheClock, WorldKept DEF Left
  <1> QED BY <1>1 DEF DelayInv, Delayed, HasFailure, Delay, Backoff

\* A decision saved: its delay counts from the time of the pass, and so does
\* the age of the failure.
LEMMA SavedDecision ==
    ASSUME TypeInv, LagInv, DelayInv, NEW x \in Threads, NEW r,
           NEW delay \in 0 .. BackoffMax, SaveDecision(x, r, delay), lag' = 0,
           UNCHANGED <<since, thread>>, HasFailure(x), ~thread[x].active,
           delay = Delay(r) \/ since[x] >= Delay(r)
    PROVE  (\A t \in Threads : Delayed(t))'
  <1> DEFINE ticks == [wait EXCEPT ![x] = delay]
  <1>1. /\ ticks \in [Threads -> 0 .. BackoffMax]
        /\ ticks[x] = delay /\ \A t \in Threads \ {x} : ticks[t] = wait[t]
        /\ wait' = AsOfNow(ticks)
    BY DelayType DEF SaveDecision
  <1> HIDE DEF ticks
  <1>2. \A t \in Threads :
          Left(t)' = IF lag < ticks[t] THEN ticks[t] - lag ELSE 0
    BY <1>1, LeftByTheClock
  <1>3. /\ record'[x] = r
        /\ \A t \in Threads \ {x} : record'[t] = record[t]
    BY DelayType DEF SaveDecision
  <1>4. Delayed(x)'
    <2>1. /\ lag <= since[x] /\ lag \in Nat /\ since[x] \in Nat
          /\ Delay(r) \in Nat /\ Delay(record[x])' = Delay(r)
      BY <1>3, DelayType, WorldKept DEF LagInv, Delay, Backoff
    <2>2. Left(x)' + since[x] >= Delay(r)
      BY <1>1, <1>2, <2>1
    <2> QED BY <2>1, <2>2 DEF Delayed, HasFailure
  <1>5. \A t \in Threads \ {x} : Delayed(t)'
    <2>1. \A t \in Threads \ {x} : Left(t)' = Left(t)
      BY <1>1, <1>2 DEF Left
    <2> QED BY <1>3, <2>1 DEF DelayInv, Delayed, HasFailure, Delay, Backoff
  <1> QED BY <1>4, <1>5

LEMMA ReturnDelay == ASSUME Return PROVE PassDelay'
  BY DEF Return, PassDelay, Asking

\* A record saved at once, or after the backoff of its failures.
LEMMA SavedDelayed ==
    ASSUME TypeInv, DelayInv, NEW x \in Threads, NEW r,
           NEW delay \in 0 .. BackoffMax, Save(x, r, delay),
           lag = 0, lag' = 0,
           since' = since \/ since' = [since EXCEPT ![x] = 0],
           thread' = thread,
           r.failure_turn_id = "last" =>
             /\ HasFailure(x) /\ ~thread[x].active
             /\ delay = Delay(r) \/ (since' = since /\ since[x] >= Delay(r))
    PROVE  (\A t \in Threads : Delayed(t))'
  <1>1. /\ record'[x] = r /\ wait'[x] = delay
        /\ \A t \in Threads \ {x} :
             record'[t] = record[t] /\ wait'[t] = wait[t]
    BY DelayType DEF Save
  <1>2. /\ since'[x] \in 0 .. BackoffMax
        /\ since' = since => since'[x] = since[x]
        /\ \A t \in Threads \ {x} : since'[t] = since[t]
    BY DelayType
  <1>3. Delay(r) \in 0 .. BackoffMax /\ Delay(record[x])' = Delay(record'[x])
    BY DelayType DEF Delay, Backoff
  <1>4. Left(x)' = delay
    BY <1>1, DelayType DEF Left
  <1>5. Delayed(x)'
    BY <1>1, <1>2, <1>3, <1>4, DelayType DEF Delayed, HasFailure
  <1> QED BY <1>1, <1>2, <1>5, DelayedStep

\* A turn that begins makes every failure known of its thread an older turn.
LEMMA BegunDelayed ==
    ASSUME TypeInv, DelayInv, NEW x \in Threads, UNCHANGED <<wait, lag>>,
           since' = [since EXCEPT ![x] = 0],
           record' = [record EXCEPT ![x].failure_turn_id = Age(@),
                                    ![x].recovery_turn_id = Age(@)],
           thread' = [thread EXCEPT ![x] = RunningView]
    PROVE  /\ (\A t \in Threads : Delayed(t))'
           /\ record'[x] = Aged(record[x])
           /\ record'[x].failure_turn_id = Age(record[x].failure_turn_id)
           /\ record'[x].failure_turn_id # "last"
           /\ \A t \in Threads \ {x} :
                /\ record'[t] = record[t] /\ thread'[t] = thread[t]
                /\ since'[t] = since[t]
  <1>1. record' = [record EXCEPT ![x] = Aged(record[x])]
    BY TurnBeginsAges DEF TypeInv
  <1>2. /\ record'[x] = Aged(record[x])
        /\ \A t \in Threads \ {x} :
             /\ record'[t] = record[t] /\ thread'[t] = thread[t]
             /\ since'[t] = since[t]
    BY <1>1, DelayType
  <1>3. /\ record'[x].failure_turn_id = Age(record[x].failure_turn_id)
        /\ record'[x].failure_turn_id # "last"
    BY <1>2, AgedType, DelayType DEF Age
  <1>4. Delayed(x)'
    BY <1>3 DEF Delayed
  <1> QED BY <1>2, <1>3, <1>4, DelayedStep

LEMMA DecisionDelay ==
    ASSUME TypeInv, LagInv, DelayInv, NEW t \in Threads,
           ScheduleNew(t) \/ ScheduleObserved(t) \/ Exhaust(t) \/ Attempt(t)
    PROVE  DelayInv'
  <1>0. /\ HasFailure(t) /\ ~thread[t].active /\ lag' = 0
        /\ thread' = thread /\ since' = since
    BY Zenon DEF ScheduleNew, ScheduleObserved, Exhaust, Attempt, Due, Choose,
         Eligible, Return, worldVars, ghostVars
  <1>1. CASE ScheduleNew(t)
    <2>1. SaveDecision(t, NewRecord, Backoff(1)) /\ Return
      BY <1>1 DEF ScheduleNew
    <2>2. Backoff(1) = Delay(NewRecord)
      BY DEF Delay, NewRecord, NoRecord
    <2> QED BY <1>0, <2>1, <2>2, BackoffType, SavedDecision, ReturnDelay
            DEF DelayInv
  <1>2. CASE ScheduleObserved(t)
    <2> DEFINE r == Rescheduled(record[t], "last")
    <2>1. SaveDecision(t, r, Delay(r)) /\ Return
      BY <1>2 DEF ScheduleObserved, Delay
    <2> HIDE DEF r
    <2> QED BY <1>0, <2>1, DelayType, SavedDecision, ReturnDelay DEF DelayInv
  <1>3. ASSUME Due(t)
        PROVE  /\ wait[t] = 0 /\ record[t].failure_turn_id = "last"
               /\ since[t] >= Delay(record[t])
    <2>1. wait[t] = 0 /\ record[t].failure_turn_id = "last"
      BY <1>3 DEF Due
    <2>2. Left(t) = 0
      BY <2>1, WorldKept DEF Left
    <2>3. Left(t) + since[t] >= Delay(record[t])
      BY <2>1 DEF DelayInv, Delayed
    <2> QED BY <2>1, <2>2, <2>3, DelayType
  <1>4. CASE Exhaust(t)
    <2> DEFINE r == [record[t] EXCEPT !.action = "fallbacks_exhausted"]
    <2>1. SaveDecision(t, r, 0) /\ Return /\ Due(t)
      BY <1>4 DEF Exhaust
    <2>2. Delay(r) = Delay(record[t])
      BY DelayType DEF Delay, CountedRecords
    <2> HIDE DEF r
    <2> QED BY <1>0, <1>3, <2>1, <2>2, DelayType, SavedDecision, ReturnDelay
            DEF DelayInv
  <1>5. CASE Attempt(t)
    <2>1. /\ UNCHANGED <<record, since, thread>> /\ wait' = AsOfNow(wait)
          /\ pc' = "check" /\ cur' = t /\ failureId' = "last" /\ Due(t)
      BY <1>5 DEF Attempt, worldVars, ghostVars
    <2>2. Delay(record[cur])' = Delay(record[t])
      BY <2>1 DEF Delay, Backoff
    <2>3. PassDelay'
      BY <1>3, <2>1, <2>2 DEF PassDelay, Asking
    <2> QED BY <1>0, <2>1, <2>3, DelayedDecision DEF DelayInv
  <1> QED BY <1>1, <1>2, <1>4, <1>5

LEMMA DecideDelay ==
    ASSUME TypeInv, LagInv, DelayInv, BeginPass \/ Decide
    PROVE  DelayInv'
  <1>1. CASE BeginPass
    <2>1. UNCHANGED <<record, wait, since, thread, lag>> /\ pc' = "choose"
      BY <1>1 DEF BeginPass, passVars, worldVars, ghostVars
    <2>2. PassDelay'
      BY <2>1 DEF PassDelay, Asking
    <2> QED BY <2>1, <2>2, DelayedStays DEF DelayInv
  <1>2. CASE LeavePass
    <2>1. /\ UNCHANGED <<record, since, thread>> /\ wait' = AsOfNow(wait)
          /\ lag' = 0 /\ Return
      BY <1>2 DEF LeavePass, Return, worldVars, ghostVars
    <2> QED BY <2>1, DelayedDecision, ReturnDelay DEF DelayInv
  <1> QED BY <1>1, <1>2, DecisionDelay DEF Decide

LEMMA RetryDelay ==
    ASSUME TypeInv, LagInv, LagInv', DelayInv, Retry
    PROVE  DelayInv'
  <1> USE DEF Asking
  <1>l. lag = 0 /\ lag' = 0
    BY RetryLag
  <1>0. pc \notin {"idle", "choose"} => cur \in Threads
    BY DelayType
  <1>r. ASSUME pc \notin {"idle", "choose"} PROVE record[cur] \in CountedRecords
    BY <1>r, DelayType
  <1>1. CASE EvidenceChanged
    BY <1>1, <1>l, DelayedStays, ReturnDelay
       DEF EvidenceChanged, worldVars, ghostVars, DelayInv
  <1>2. CASE RequestStart
    <2> DEFINE r == [record[cur] EXCEPT
                       !.action = "start_requested",
                       !.model_index = NextModel(record[cur]),
                       !.attempts_in_model = NextAttempt(record[cur]),
                       !.total_attempts = @ + 1,
                       !.recovery_turn_id = None]
    <2>1. /\ pc = "check" /\ pc' = "resume" /\ failureId = "last"
          /\ UNCHANGED <<cur, failureId, thread, since>>
          /\ Save(cur, r, 0)
      BY <1>2, Zenon DEF RequestStart, passVars, worldVars, ghostVars
    <2>2. /\ record[cur].failure_turn_id = "last"
          /\ since[cur] >= Delay(record[cur])
      BY <2>1 DEF DelayInv, PassDelay
    <2>3. Delay(r) = Delay(record[cur]) /\ r.failure_turn_id = "last"
      BY <1>r, <2>1, <2>2 DEF Delay, CountedRecords
    <2> HIDE DEF r
    <2>4. HasFailure(cur) /\ ~thread[cur].active
      BY <1>0, <2>1, <2>2 DEF DelayInv, Delayed
    <2>5. (\A t \in Threads : Delayed(t))'
      BY <1>0, <1>l, <2>1, <2>2, <2>3, <2>4, DelayType, SavedDelayed
    <2>6. record'[cur] = r
      BY <1>0, <2>1, DelayType DEF Save
    <2>7. Delay(record[cur])' = Delay(r)
      BY <2>1, <2>6 DEF Delay, Backoff
    <2>8. PassDelay'
      BY <2>1, <2>2, <2>3, <2>6, <2>7 DEF PassDelay
    <2> QED BY <2>5, <2>8 DEF DelayInv
  <1>3. CASE ResumeThread
    <2>1. /\ pc = "resume" /\ pc' = "reread" /\ cur' = cur
          /\ UNCHANGED wait
      BY <1>3 DEF ResumeThread
    <2>2. CASE UNCHANGED <<thread, record, viewId, failureId, startedId,
                           ghostVars>>
      BY <1>l, <2>1, <2>2, DelayedStays
         DEF DelayInv, PassDelay, Delay, Backoff, ghostVars
    <2>3. CASE OtherTurnBegins(cur)
      <3>1. /\ record' = [record EXCEPT ![cur].failure_turn_id = Age(@),
                                        ![cur].recovery_turn_id = Age(@)]
            /\ thread' = [thread EXCEPT ![cur] = RunningView]
            /\ failureId' = Age(failureId)
            /\ since' = [since EXCEPT ![cur] = 0]
        BY <2>3, Zenon DEF OtherTurnBegins, TurnBegins, RunningView
      <3> QED BY <1>0, <1>l, <2>1, <3>1, BegunDelayed DEF DelayInv, PassDelay, Age
    <2> QED BY <1>3, <2>2, <2>3 DEF ResumeThread
  <1>4. CASE RereadThread \/ AdoptTurn \/ PrepareStart \/ PollThread
    <2>1. /\ UNCHANGED <<record, wait, since, thread, cur, failureId>>
          /\ pc \notin {"idle", "choose"}
      BY <1>4 DEF RereadThread, AdoptTurn, PrepareStart, PollThread, passVars,
           worldVars, ghostVars
    <2>2. Delayed(cur) /\ Delay(record[cur])' = Delay(record[cur])
      BY <1>0, <2>1 DEF DelayInv, Delay, Backoff
    <2>3. PassDelay'
      <3>1. CASE RereadThread
        <4>1. pc = "reread" /\ pc' = "regoal" /\ view' = thread[cur]
          BY <3>1 DEF RereadThread
        <4> QED BY <2>1, <2>2, <4>1 DEF DelayInv, PassDelay, Delayed
      <3>2. CASE AdoptTurn
        <4>1. pc = "regoal" /\ pc' = "started" /\ view.active
          BY <3>2 DEF AdoptTurn
        <4> QED BY <2>1, <4>1 DEF DelayInv, PassDelay
      <3>3. CASE PrepareStart
        <4>1. pc = "regoal" /\ pc' = "start"
          BY <3>3 DEF PrepareStart
        <4> QED BY <2>1, <2>2, <4>1 DEF DelayInv, PassDelay
      <3>4. CASE PollThread
        <4>1. /\ pc = "settle" /\ pc' \in {"settle", "settled"}
              /\ view' = thread[cur]
              /\ pc' = "settled" => ~thread[cur].active
          BY <3>4 DEF PollThread
        <4> QED BY <2>1, <4>1 DEF DelayInv, PassDelay
      <3> QED BY <1>4, <3>1, <3>2, <3>3, <3>4
    <2> QED BY <1>l, <2>1, <2>3, DelayedStays DEF DelayInv
  <1>5. CASE GoalChanged \/ RetrySettled
    <2>1. PICK a \in {"goal_changed", "turn_settled"} :
            /\ pc \in {"regoal", "settled"} /\ Return
            /\ UNCHANGED <<thread, since>>
            /\ Save(cur, [record[cur] EXCEPT !.action = a], 0)
      BY <1>5, Zenon DEF GoalChanged, RetrySettled, worldVars, ghostVars
    <2> DEFINE r == [record[cur] EXCEPT !.action = a]
    <2>2. /\ Delay(r) = Delay(record[cur])
          /\ r.failure_turn_id = record[cur].failure_turn_id
      BY <1>r, <2>1 DEF Delay, CountedRecords
    <2>3. record[cur].failure_turn_id = "last" =>
            /\ HasFailure(cur) /\ ~thread[cur].active
            /\ since[cur] >= Delay(record[cur])
      BY <1>0, <2>1 DEF DelayInv, PassDelay, Delayed
    <2>4. Save(cur, r, 0)
      BY <2>1
    <2> HIDE DEF r
    <2> QED BY <1>0, <1>l, <2>1, <2>2, <2>3, <2>4, DelayType, SavedDelayed,
               ReturnDelay DEF DelayInv
  <1>6. CASE StartTurn
    <2>1. /\ pc = "start" /\ pc' = "started" /\ cur' = cur
          /\ record' = [record EXCEPT ![cur].failure_turn_id = Age(@),
                                      ![cur].recovery_turn_id = Age(@)]
          /\ thread' = [thread EXCEPT ![cur] = RunningView]
          /\ failureId' = Age(failureId)
          /\ since' = [since EXCEPT ![cur] = 0] /\ UNCHANGED wait
      BY <1>6, Zenon DEF StartTurn, ServerStartsTurn, TurnBegins, RunningView
    <2> QED BY <1>0, <1>l, <2>1, BegunDelayed DEF DelayInv, PassDelay, Age
  <1>7. CASE RecordStart
    <2> DEFINE r == [record[cur] EXCEPT !.action = "turn_started",
                                        !.recovery_turn_id = startedId]
    <2>1. /\ pc = "started" /\ Save(cur, r, 0) /\ UNCHANGED <<thread, since>>
          /\ \/ Return
             \/ pc' = "settle" /\ UNCHANGED <<cur, failureId>>
      BY <1>7, Zenon DEF RecordStart, passVars, worldVars, ghostVars
    <2>2. r.failure_turn_id # "last"
      BY <1>r, <2>1 DEF CountedRecords, DelayInv, PassDelay
    <2> HIDE DEF r
    <2>3. record'[cur] = r
      BY <1>0, <2>1, DelayType DEF Save
    <2>4. PassDelay'
      BY <2>1, <2>2, <2>3, ReturnDelay DEF DelayInv, PassDelay
    <2> QED BY <1>0, <1>l, <2>1, <2>2, <2>4, DelayType, SavedDelayed
            DEF DelayInv
  <1>8. CASE RetryFailed
    <2> DEFINE r == Rescheduled(record[cur], viewId)
    <2>1. /\ pc = "settled" /\ Return /\ UNCHANGED <<thread, since>>
          /\ Save(cur, r, Delay(r)) /\ view.last = "capacity"
      BY <1>8, Zenon DEF RetryFailed, Delay, worldVars, ghostVars
    <2>2. r.failure_turn_id = "last" => HasFailure(cur) /\ ~thread[cur].active
      BY <1>r, <2>1, RescheduledType, DelayType
         DEF DelayInv, PassDelay, HasFailure
    <2> HIDE DEF r
    <2> QED BY <1>0, <1>l, <2>1, <2>2, DelayType, SavedDelayed, ReturnDelay
            DEF DelayInv
  <1> QED BY <1>1, <1>2, <1>3, <1>4, <1>5, <1>6, <1>7, <1>8 DEF Retry

LEMMA FailureDelay ==
    ASSUME TypeInv, LagInv, LagInv', DelayInv, Failure
    PROVE  DelayInv'
  <1>0. pc \notin {"idle", "choose"} => cur \in Threads
    BY DelayType
  <1>1. CASE CutShort
    <2>1. /\ UNCHANGED <<record, since, thread>> /\ wait' = AsOfNow(wait)
          /\ lag' = 0 /\ Return
      BY <1>1 DEF CutShort, Return, worldVars
    <2> QED BY <2>1, DelayedDecision, ReturnDelay DEF DelayInv
  <1>2. CASE StartReplyLost
    <2>1. /\ pc = "start" /\ Return /\ UNCHANGED wait
          /\ since' = [since EXCEPT ![cur] = 0]
          /\ record' = [record EXCEPT ![cur].failure_turn_id = Age(@),
                                      ![cur].recovery_turn_id = Age(@)]
          /\ thread' = [thread EXCEPT ![cur] = RunningView]
      BY <1>2, Zenon DEF StartReplyLost, RunningView
    <2>2. lag = 0 /\ lag' = 0
      BY <1>2, RetryLag
    <2> QED BY <1>0, <2>1, <2>2, BegunDelayed, ReturnDelay DEF DelayInv
  <1>3. CASE RejectedAtCapacity
    <2> DEFINE r == Rescheduled(record[cur], failureId)
    <2>1. /\ Asking \/ pc \in {"started", "settle"}
          /\ Return /\ UNCHANGED thread
          /\ since' = [since EXCEPT ![cur] = 0]
          /\ Save(cur, r, Delay(r))
      BY <1>3, Zenon DEF RejectedAtCapacity, Delay, worldVars, Asking
    <2>2. cur \in Threads /\ record[cur] \in CountedRecords
      BY <1>0, <2>1, DelayType DEF Asking
    <2>3. r.failure_turn_id = failureId
      BY <2>2, RescheduledType, DelayType
    <2>4. failureId = "last" => HasFailure(cur) /\ ~thread[cur].active
      BY <2>1, <2>2 DEF DelayInv, PassDelay, Delayed
    <2>5. lag = 0 /\ lag' = 0
      BY <1>3, RetryLag
    <2> HIDE DEF r
    <2> QED BY <2>1, <2>2, <2>3, <2>4, <2>5, DelayType, SavedDelayed,
               ReturnDelay DEF DelayInv
  <1> QED BY <1>1, <1>2, <1>3 DEF Failure

LEMMA WorldDelay ==
    ASSUME TypeInv, DelayInv, World \/ UNCHANGED vars
    PROVE  DelayInv'
  <1> USE DEF Asking
  <1>0. pc \notin {"idle", "choose"} => cur \in Threads
    BY DelayType
  <1>1. UNCHANGED <<pc, cur, view>>
    BY DEF World, UserTurn, TurnEnds, GoalChanges, OwnerComes, OwnerLeaves,
           Tick, vars, passVars
  <1>2. ASSUME UNCHANGED <<record, wait, since, thread, lag, failureId, viewId>>
        PROVE  DelayInv'
    BY <1>1, <1>2, DelayedStays DEF DelayInv, PassDelay, Delay, Backoff
  <1>3. ASSUME NEW t \in Threads, UserTurn(t) PROVE DelayInv'
    <2>1. /\ record' = [record EXCEPT ![t].failure_turn_id = Age(@),
                                      ![t].recovery_turn_id = Age(@)]
          /\ thread' = [thread EXCEPT ![t] = RunningView]
          /\ since' = [since EXCEPT ![t] = 0] /\ UNCHANGED <<wait, lag>>
          /\ IF t = cur
             THEN failureId' = Age(failureId) /\ viewId' = Age(viewId)
             ELSE UNCHANGED <<failureId, viewId>>
      BY <1>3, Zenon DEF UserTurn, OtherTurnBegins, TurnBegins, RunningView
    <2>2. /\ (\A u \in Threads : Delayed(u))'
          /\ record'[t].failure_turn_id = Age(record[t].failure_turn_id)
          /\ record'[t].failure_turn_id # "last"
          /\ \A u \in Threads \ {t} :
               /\ record'[u] = record[u] /\ thread'[u] = thread[u]
               /\ since'[u] = since[u]
      BY <2>1, BegunDelayed
    <2>3. PassDelay'
      <3>1. CASE t = cur
        BY <1>1, <2>1, <2>2, <3>1 DEF DelayInv, PassDelay, Age
      <3>2. CASE t # cur
        <4>1. pc \notin {"idle", "choose"} => /\ record'[cur] = record[cur]
                             /\ thread'[cur] = thread[cur]
                             /\ since'[cur] = since[cur]
          BY <1>0, <2>2, <3>2
        <4>2. pc \notin {"idle", "choose"} => Delay(record[cur])' = Delay(record[cur])
          BY <1>1, <4>1 DEF Delay, Backoff
        <4> QED BY <1>1, <2>1, <3>2, <4>1, <4>2 DEF DelayInv, PassDelay
      <3> QED BY <3>1, <3>2
    <2> QED BY <2>2, <2>3 DEF DelayInv
  <1>4. ASSUME NEW t \in Threads, TurnEnds(t) PROVE DelayInv'
    <2>1. thread[t].active /\ UNCHANGED <<record, wait, lag, failureId, viewId>>
      BY <1>4 DEF TurnEnds, passVars
    <2>2. PICK end \in {"capacity", "otherEnd"} :
            /\ thread' = [thread EXCEPT ![t] = [active |-> FALSE, last |-> end]]
            /\ since' = [since EXCEPT ![t] = IF end = "capacity"
                                             THEN lag ELSE 0]
      BY <1>4 DEF TurnEnds
    <2>3. /\ ~thread'[t].active
          /\ \A u \in Threads \ {t} :
               since'[u] = since[u] /\ thread'[u] = thread[u]
      BY <2>2, DelayType
    <2>4. record[t].failure_turn_id # "last"
      BY <2>1 DEF DelayInv, Delayed
    <2>5. (\A u \in Threads : Delayed(u))'
      BY <2>1, <2>3, <2>4, DelayedStep DEF Delayed
    <2>6. PassDelay'
      <3>1. pc \notin {"idle", "choose"} => Delay(record[cur])' = Delay(record[cur])
        BY <1>1, <2>1 DEF Delay, Backoff
      <3>2. CASE t = cur
        BY <1>1, <2>1, <2>3, <2>4, <3>2 DEF DelayInv, PassDelay
      <3>3. CASE t # cur
        <4>1. pc \notin {"idle", "choose"} => /\ since'[cur] = since[cur]
                             /\ thread'[cur] = thread[cur]
          BY <1>0, <2>3, <3>3
        <4> QED BY <1>1, <2>1, <3>1, <4>1 DEF DelayInv, PassDelay
      <3> QED BY <3>2, <3>3
    <2> QED BY <2>5, <2>6 DEF DelayInv
  <1>5. CASE Tick
    <2>1. /\ UNCHANGED <<record, thread, failureId, viewId>>
          /\ \A t \in Threads :
               HasFailure(t) => since'[t] = Later(since[t])
      BY <1>5 DEF Tick, worldVars
    <2>2. ASSUME NEW t \in Threads
          PROVE  /\ Left(t)' \in Nat /\ Left(t) \in Nat
                 /\ Left(t) <= Left(t)' + 1
      <3>1. wait[t] \in 0 .. BackoffMax /\ lag \in 0 .. BackoffMax
        BY WorldKept
      <3>2. CASE pc = "choose"
        <4>1. wait' = wait /\ lag' = Later(lag)
          BY <1>5, <3>2 DEF Tick
        <4> QED BY <3>1, <4>1, DelayType DEF Left, Later
      <3>3. CASE pc # "choose"
        <4>1. /\ wait'[t] = IF wait[t] = 0 THEN 0 ELSE wait[t] - 1
              /\ lag' = lag
          BY <1>5, <3>3 DEF Tick
        <4> QED BY <3>1, <4>1, DelayType DEF Left
      <3> QED BY <3>2, <3>3
    <2>3. (\A t \in Threads : Delayed(t))'
      <3> SUFFICES ASSUME NEW t \in Threads PROVE Delayed(t)'
        OBVIOUS
      <3>1. /\ since[t] \in 0 .. BackoffMax
            /\ Delay(record[t]) \in 0 .. BackoffMax /\ BackoffMax \in Nat
            /\ Delay(record[t])' = Delay(record[t])
        BY <2>1, DelayType DEF Delay, Backoff
      <3>2. Left(t) + since[t] >= Delay(record[t]) =>
              Left(t)' + Later(since[t]) >= Delay(record[t])
        BY <2>2, <3>1 DEF Later
      <3> QED BY <2>1, <3>1, <3>2 DEF DelayInv, Delayed, HasFailure
    <2>4. PassDelay'
      <3>1. ASSUME pc = "check" \/ Asking, failureId = "last"
            PROVE  HasFailure(cur) /\ cur \in Threads
        BY <1>0, <3>1 DEF DelayInv, PassDelay, Delayed
      <3>2. ASSUME pc = "check" \/ Asking, failureId = "last"
            PROVE  since'[cur] >= Delay(record[cur])
        <4>1. /\ since[cur] >= Delay(record[cur])
              /\ since'[cur] = Later(since[cur])
          BY <2>1, <3>1, <3>2 DEF DelayInv, PassDelay
        <4> QED BY <3>1, <3>2, <4>1, DelayType DEF Later
      <3>3. Delay(record[cur])' = Delay(record[cur])
        BY <1>1, <2>1 DEF Delay, Backoff
      <3> QED BY <1>1, <2>1, <3>2, <3>3 DEF DelayInv, PassDelay
    <2> QED BY <2>3, <2>4 DEF DelayInv
  <1>6. CASE \/ \E t \in Threads : GoalChanges(t)
             \/ OwnerComes \/ OwnerLeaves \/ UNCHANGED vars
    BY <1>2, <1>6 DEF GoalChanges, OwnerComes, OwnerLeaves, vars, passVars,
         worldVars, ghostVars
  <1> QED BY <1>3, <1>4, <1>5, <1>6 DEF World

\* A retry comes no sooner after the last capacity failure than the backoff of
\* as many failures in a row, less only what the pass that saw the failure had
\* been running undecided when the turn failed, unless a turn came and went
\* while the pass was on its way to turn/start: for every backoff and retry
\* limit, however slow the passes are, and whatever failures, crashes and turns
\* of others come in between (engine.py:305-309, 812-880, 2868-2873).
THEOREM BackoffKept == Spec => BackoffHonoured
  <1>1. Init => DelayInv
    <2> SUFFICES ASSUME Init PROVE DelayInv
      OBVIOUS
    <2>1. \A t \in Threads : record[t].failure_turn_id = None /\ pc = "idle"
      BY DEF Init, NoRecord
    <2>2. PassDelay
      BY DEF Init, PassDelay, Asking
    <2> QED BY <2>1, <2>2 DEF DelayInv, Delayed, None
  <1>2. TypeInv /\ LagInv /\ LagInv' /\ DelayInv /\ [Next]_vars => DelayInv'
    BY DecideDelay, RetryDelay, FailureDelay, WorldDelay DEF Next
  <1>3. TypeInv /\ DelayInv =>
          [StartsNow =>
             \/ failureId = "older"
             \/ since[cur] >= Backoff(record[cur].capacity_failure_count)]_vars
    BY DEF DelayInv, PassDelay, Asking, StartsNow, Delay
  <1>4. Init => LagInv
    BY DEF Init, LagInv
  <1>5. TypeInv /\ TypeInv' /\ LagInv /\ [Next]_vars => LagInv'
    BY LagStep
  <1>6. Spec => []LagInv
    BY <1>4, <1>5, TypeInvariance, PTL DEF Spec
  <1> QED BY <1>1, <1>2, <1>3, <1>6, TypeInvariance, PTL
          DEF Spec, BackoffHonoured

-----------------------------------------------------------------------------
(* A retry starts over a running turn in the residual window only. *)

\* A turn that runs was seen by the thread/read, or began after it.
Watched ==
    pc \in {"regoal", "start"} =>
        /\ viewId \in {"last", "older"}
        /\ thread[cur].active => view.active \/ viewId = "older"
        /\ pc = "start" => ~view.active

LEMMA PassWatched ==
    ASSUME TypeInv, Watched, BeginPass \/ Decide \/ Retry \/ Failure
    PROVE  Watched'
  <1>1. ASSUME pc' \notin {"regoal", "start"} PROVE Watched'
    BY <1>1 DEF Watched
  <1>2. CASE RereadThread
    BY <1>2 DEF RereadThread, worldVars, Watched
  <1>3. CASE PrepareStart
    BY <1>3 DEF PrepareStart, passVars, worldVars, Watched
  <1>4. CASE BeginPass \/ Decide
    BY <1>1, <1>4 DEF BeginPass, Decide, LeavePass, ScheduleNew,
         ScheduleObserved, Exhaust, Attempt, Return
  <1>5. CASE \/ EvidenceChanged \/ RequestStart \/ ResumeThread \/ GoalChanged
             \/ AdoptTurn \/ StartTurn \/ RecordStart \/ PollThread
             \/ RetryFailed \/ RetrySettled \/ Failure
    BY <1>1, <1>5 DEF EvidenceChanged, RequestStart, ResumeThread, GoalChanged,
         AdoptTurn, StartTurn, RecordStart, PollThread, RetryFailed,
         RetrySettled, Failure, CutShort, StartReplyLost, RejectedAtCapacity,
         Return
  <1> QED BY <1>2, <1>3, <1>4, <1>5 DEF Retry

LEMMA WorldWatched ==
    ASSUME TypeInv, Watched, World \/ UNCHANGED vars
    PROVE  Watched'
  <1>0. /\ pc \notin {"idle", "choose"} => cur \in Threads
        /\ thread \in [Threads -> ThreadViews]
    BY DelayType
  <1>1. UNCHANGED <<pc, cur, view>>
    BY DEF World, UserTurn, TurnEnds, GoalChanges, OwnerComes, OwnerLeaves,
           Tick, vars, passVars
  <1>2. ASSUME NEW t \in Threads, UserTurn(t) PROVE Watched'
    <2>1. /\ thread' = [thread EXCEPT ![t] = RunningView]
          /\ IF t = cur THEN viewId' = Age(viewId) ELSE viewId' = viewId
      BY <1>2, Zenon DEF UserTurn, OtherTurnBegins, TurnBegins, RunningView
    <2>2. t # cur /\ pc \notin {"idle", "choose"} => thread'[cur] = thread[cur]
      BY <1>0, <2>1
    <2> QED BY <1>1, <2>1, <2>2 DEF Watched, Age
  <1>3. ASSUME NEW t \in Threads, TurnEnds(t) PROVE Watched'
    <2>1. viewId' = viewId
      BY <1>3 DEF TurnEnds, passVars
    <2>2. PICK end \in {"capacity", "otherEnd"} :
            thread' = [thread EXCEPT ![t] = [active |-> FALSE, last |-> end]]
      BY <1>3 DEF TurnEnds
    <2>3. pc \notin {"idle", "choose"} /\ thread'[cur].active => thread[cur].active
      BY <1>0, <2>2
    <2> QED BY <1>1, <2>1, <2>3 DEF Watched
  <1>4. CASE \/ \E t \in Threads : GoalChanges(t)
             \/ OwnerComes \/ OwnerLeaves \/ Tick \/ UNCHANGED vars
    <2>1. viewId' = viewId /\ thread' = thread
      BY <1>4 DEF GoalChanges, OwnerComes, OwnerLeaves, Tick, vars, passVars,
           worldVars
    <2> QED BY <1>1, <2>1 DEF Watched
  <1> QED BY <1>2, <1>3, <1>4 DEF World

\* A retry starts over a running turn only when that turn began after the last
\* thread/read of the pass, whatever users do on the thread meanwhile
\* (engine.py:1004-1034).
THEOREM OverlapIsResidual == Spec => OverlapOnlyInResidualWindow
  <1>1. Init => Watched
    BY DEF Init, Watched
  <1>2. TypeInv /\ Watched /\ [Next]_vars => Watched'
    BY PassWatched, WorldWatched DEF Next
  <1>3. TypeInv /\ Watched =>
          [StartsNow => (thread[cur].active => viewId = "older")]_vars
    BY DEF Watched, StartsNow
  <1> QED BY <1>1, <1>2, <1>3, TypeInvariance, PTL
          DEF Spec, OverlapOnlyInResidualWindow
=============================================================================
