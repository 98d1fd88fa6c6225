----------------------- MODULE DesktopRecoveryProofs -----------------------
(***************************************************************************)
(* Proofs about DesktopRecovery: no acknowledged request is lost, every    *)
(* variable keeps its type, Goals and turns are overridden only in the     *)
(* residual window, and a failed turn is continued once.                   *)
(***************************************************************************)
EXTENDS DesktopRecovery, FiniteSetTheorems, TLAPS

-----------------------------------------------------------------------------
(* What makes RequestNeverLost inductive: a pass works on the state it has *)
(* saved last, so what it saves next brings back nothing and drops nothing *)
(* but the request it decides on.                                          *)

IsState(m) == m = [requests |-> m.requests, direct |-> m.direct]

RequestInv ==
    /\ RequestNeverLost
    /\ IsState(disk)
    /\ pc # "idle" => mem = disk

LEMMA MarkedKeepsRequests ==
    ASSUME NEW m, IsState(m), NEW t, NEW id, NEW action, NEW recovery_id
    PROVE  /\ IsState(Marked(m, t, id, action, recovery_id))
           /\ Marked(m, t, id, action, recovery_id).requests = m.requests
  <1> DEFINE d == [m.direct EXCEPT ![t] = [turn_id |-> id, action |-> action,
                                           recovery_turn_id |-> recovery_id]]
  <1>1. Marked(m, t, id, action, recovery_id) =
            [requests |-> m.requests, direct |-> d]
    BY DEF Marked, IsState
  <1> HIDE DEF d
  <1> QED BY <1>1 DEF IsState

\* The steps by what they do to the state: nothing,
LEMMA KeepStep ==
    ASSUME RequestInv, UNCHANGED <<disk, mem, asked>>, pc # "idle" \/ pc' = pc
    PROVE  RequestInv'
  BY DEF RequestInv, RequestNeverLost, IsState

\* ... save it with a record marked,
LEMMA SaveStep ==
    ASSUME RequestInv, NEW m, IsState(m), m.requests = disk.requests, Save(m),
           UNCHANGED asked
    PROVE  RequestInv'
  BY DEF RequestInv, RequestNeverLost, IsState, Save

\* ... or decide on a request.
LEMMA FinishStep ==
    ASSUME RequestInv, NEW m, IsState(m), m.requests = disk.requests, Finish(m)
    PROVE  RequestInv'
  <1>1. Finished(m, cur) =
            [requests |-> m.requests \ {cur}, direct |-> m.direct]
    BY DEF Finished, IsState
  <1>2. /\ mem' = Finished(m, cur) /\ disk' = Finished(m, cur)
        /\ asked' = asked \ {cur}
    BY DEF Finish, Save
  <1> QED BY <1>1, <1>2 DEF RequestInv, RequestNeverLost, IsState

-----------------------------------------------------------------------------
LEMMA DecideStep == ASSUME RequestInv, Decide PROVE RequestInv'
  <1>1. CASE \/ RuntimeLeft \/ GoalNotRecoverable \/ PolicyExhausted
             \/ ReadAgain
             \/ \E s \in {"first", "fresh"} : Wait(s)
    <2>1. UNCHANGED <<disk, mem, asked>> /\ pc # "idle"
      BY <1>1, Zenon DEF RuntimeLeft, GoalNotRecoverable, PolicyExhausted,
           ReadAgain, Wait, SaveUnchanged, Fit, Judged, At
    <2> QED BY <2>1, KeepStep
  <1>2. CASE WakeActiveGoal
    <2>1. /\ pc # "idle" /\ UNCHANGED asked
          /\ Save(Marked(mem, cur, WakeEvidence, "goal_state_reactivated", 0))
      BY <1>2, Zenon DEF WakeActiveGoal, At
    <2>2. mem = disk /\ IsState(mem)
      BY <2>1 DEF RequestInv
    <2> QED BY <2>1, <2>2, MarkedKeepsRequests, SaveStep
  <1>3. CASE \/ GoalAlreadyActive \/ Recovered
             \/ \E s \in {"first", "fresh"} : Refuse(s)
    <2>1. pc # "idle" /\ Finish(mem)
      BY <1>3, Zenon DEF GoalAlreadyActive, Recovered, Refuse, Fit, Judged, At
    <2>2. mem = disk /\ IsState(mem)
      BY <2>1 DEF RequestInv
    <2> QED BY <2>1, <2>2, FinishStep
  <1> QED BY <1>1, <1>2, <1>3, Zenon DEF Decide

LEMMA ReactivateStep == ASSUME RequestInv, Reactivate PROVE RequestInv'
  <1>1. CASE \/ EvidenceChanged \/ PrepareReactivation \/ ReactivateGoal
             \/ ConfirmFails
    <2>1. UNCHANGED <<disk, mem, asked>> /\ pc # "idle"
      BY <1>1, Zenon DEF EvidenceChanged, PrepareReactivation, ReactivateGoal,
           ConfirmFails, SaveUnchanged, Judged, At, ghostVars
    <2> QED BY <2>1, KeepStep
  <1>2. CASE ConfirmGoal
    <2>1. /\ pc # "idle"
          /\ \/ Finish(Marked(mem, cur, evidence, "goal_state_reactivated", 0))
             \/ Finish(mem)
      BY <1>2 DEF ConfirmGoal
    <2>2. mem = disk /\ IsState(mem)
      BY <2>1 DEF RequestInv
    <2> QED BY <2>1, <2>2, MarkedKeepsRequests, FinishStep
  <1> QED BY <1>1, <1>2, Zenon DEF Reactivate

LEMMA EndWakeStep ==
    ASSUME RequestInv, pc # "idle", NEW action, NEW recovery_id,
           EndWake(action, recovery_id)
    PROVE  RequestInv'
  <1>1. mem = disk /\ IsState(mem)
    BY DEF RequestInv
  <1> QED BY <1>1, MarkedKeepsRequests, FinishStep DEF EndWake

LEMMA WakeStep == ASSUME RequestInv, Wake PROVE RequestInv'
  <1>1. CASE WakeGoalChanged \/ WakeActive \/ RecordStart
    <2>1. pc # "idle" /\ \E action, recovery_id : EndWake(action, recovery_id)
      BY <1>1, Zenon DEF WakeGoalChanged, WakeActive, RecordStart, Waking
    <2> QED BY <2>1, EndWakeStep
  <1>2. CASE RequestResume
    <2>1. /\ pc # "idle" /\ UNCHANGED asked
          /\ Save(Marked(mem, cur, evidence, "resume_requested", 0))
      BY <1>2, Zenon DEF RequestResume, WakeGoesOn, Waking
    <2>2. mem = disk /\ IsState(mem)
      BY <2>1 DEF RequestInv
    <2> QED BY <2>1, <2>2, MarkedKeepsRequests, SaveStep
  <1>3. CASE \/ ResumeThread \/ ObserveAgain \/ PrepareStart \/ PolicyCalledOff
             \/ PreparePolicyStart \/ StartTurn
    <2>1. UNCHANGED <<disk, mem, asked>> /\ pc # "idle"
      BY <1>3, Zenon DEF ResumeThread, ObserveAgain, PrepareStart,
           PolicyCalledOff, PreparePolicyStart, StartTurn, SaveUnchanged,
           WakeGoesOn, Waking, At
    <2> QED BY <2>1, KeepStep
  <1> QED BY <1>1, <1>2, <1>3, Zenon DEF Wake

LEMMA PassStep == ASSUME RequestInv, Pass PROVE RequestInv'
  <1>1. CASE BeginPass
    <2>1. mem' = disk /\ UNCHANGED <<disk, asked>>
      BY <1>1, Zenon DEF BeginPass, ghostVars
    <2> QED BY <2>1 DEF RequestInv, RequestNeverLost, IsState
  <1>2. CASE EndPass \/ ReadThread \/ \E t \in Threads : Visit(t)
    <2>1. UNCHANGED <<disk, mem, asked>> /\ pc # "idle"
      BY <1>2, Zenon DEF EndPass, ReadThread, Visit, ghostVars
    <2> QED BY <2>1, KeepStep
  <1> QED BY <1>1, <1>2, DecideStep, ReactivateStep, WakeStep, Zenon DEF Pass

LEMMA WorldStep == ASSUME RequestInv, World PROVE RequestInv'
  <1>1. ASSUME NEW t \in Threads, RequestRecovery(t) PROVE RequestInv'
    <2>1. /\ pc = "idle" /\ pc' = pc /\ asked' = asked \cup {t}
          /\ disk' = [disk EXCEPT !.requests = @ \cup {t}]
      BY <1>1, Zenon DEF RequestRecovery, Enqueued, passVars
    <2>2. disk' = [requests |-> disk.requests \cup {t}, direct |-> disk.direct]
      BY <2>1 DEF RequestInv, IsState
    <2> QED BY <2>1, <2>2 DEF RequestInv, RequestNeverLost, IsState
  <1>2. ASSUME NEW t \in Threads,
               UserTurn(t) \/ Heartbeat(t) \/ TurnEnds(t) \/ GoalChanges(t)
        PROVE  RequestInv'
    <2>1. UNCHANGED <<disk, mem, asked, pc>>
      BY <1>2, Zenon DEF UserTurn, Heartbeat, TurnEnds, HeartbeatEnds,
           HeartbeatFails, TurnFails, TurnCompletes, GoalChanges, passVars,
           ghostVars
    <2> QED BY <2>1, KeepStep
  <1>3. CASE RuntimeLeaves \/ RuntimeReturns
    <2>1. UNCHANGED <<disk, mem, asked, pc>>
      BY <1>3, Zenon DEF RuntimeLeaves, RuntimeReturns, passVars, ghostVars
    <2> QED BY <2>1, KeepStep
  <1> QED BY <1>1, <1>2, <1>3, Zenon DEF World

LEMMA RequestInit == Init => RequestInv
  BY DEF Init, RequestInv, RequestNeverLost, IsState

LEMMA RequestStep == RequestInv /\ [Next]_vars => RequestInv'
  <1> SUFFICES ASSUME RequestInv, [Next]_vars PROVE RequestInv'
    OBVIOUS
  <1>1. CASE CallFails \/ StartReplyLost \/ Crash
    <2>1. UNCHANGED <<disk, mem, asked>> /\ pc # "idle"
      BY <1>1, Zenon DEF CallFails, StartReplyLost, Crash, ghostVars
    <2> QED BY <2>1, KeepStep
  <1>2. CASE UNCHANGED vars
    <2>1. UNCHANGED <<disk, mem, asked, pc>>
      BY <1>2, Zenon DEF vars, passVars, ghostVars
    <2> QED BY <2>1, KeepStep
  <1> QED BY <1>1, <1>2, PassStep, WorldStep, Zenon DEF Next

\* No request that request-desktop-recovery has acknowledged is lost, for every
\* set of threads and configuration and wherever passes die: a request is saved
\* under the lock a pass holds, and a pass drops only those it has decided on
\* (engine.py:1176-1779, state.py:180-255).
THEOREM RequestsKept == Spec => []RequestNeverLost
  <1>1. RequestInv => RequestNeverLost
    BY DEF RequestInv
  <1> QED BY <1>1, RequestInit, RequestStep, PTL DEF Spec

-----------------------------------------------------------------------------
(* Types. *)

VisitPoints == {"thread", "goal", "set", "confirm", "resume", "start", "started"}
PassPoints == {"idle", "visits"} \cup VisitPoints
WakeStages == {"before", "observe1", "observe2", "policy"}

StateType == disk \in States /\ mem \in States

VisitType ==
    /\ pc \in PassPoints
    /\ todo \subseteq Threads
    /\ cur \in Threads \cup {None}
    /\ pc \in VisitPoints => cur \in Threads
    /\ stage \in Stages
    /\ pc \in {"idle", "visits"} => stage = "first"
    /\ view \in ThreadStates
    /\ evidence \in Nat
    /\ startedId \in Nat
    /\ retry \in BOOLEAN
    /\ moved \in BOOLEAN

WorldType ==
    /\ config \in Configs
    /\ thread \in [Threads -> ThreadStates]
    /\ goal \in [Threads -> GoalStates]
    /\ runtime \in BOOLEAN

CountType ==
    /\ failures \in 0 .. MaxFailures
    /\ disturbances \in 0 .. MaxDisturbances
    /\ faults \in 0 .. MaxFaults
    /\ asked \subseteq Threads
    /\ wakes \in [Threads -> Seq(Nat)]
    /\ policyRun \in [Threads -> Nat]
    /\ lost \in [Threads -> Nat]
    /\ \A t \in Threads : lost[t] <= faults

TypeInv == StateType /\ VisitType /\ WorldType /\ CountType

LEMMA BegunType ==
    ASSUME NEW h \in ThreadStates
    PROVE  /\ Begun(h) \in ThreadStates
           /\ Begun(h).active = TRUE
           /\ Len(Begun(h).turns) = Len(h.turns) + 1
<1> DEFINE s == IF HasInProgress(h.turns)
                THEN [h.turns EXCEPT ![Len(h.turns)] = "other"] ELSE h.turns
<1>1. h.turns \in Seq(Kinds)
  BY DEF ThreadStates
<1>2. s \in Seq(Kinds) /\ Len(s) = Len(h.turns)
  <2>1. "other" \in Kinds
    BY DEF Kinds, EndKinds
  <2> QED BY <1>1, <2>1 DEF HasInProgress
<1>3. Begun(h) = [active |-> TRUE, turns |-> Append(s, "inProgress")]
  BY DEF Begun
<1> HIDE DEF s
<1>4. "inProgress" \in Kinds
  BY DEF Kinds
<1>5. /\ Append(s, "inProgress") \in Seq(Kinds)
      /\ Len(Append(s, "inProgress")) = Len(h.turns) + 1
  BY <1>2, <1>4
<1> QED BY <1>3, <1>5 DEF ThreadStates

LEMMA EndedType ==
    ASSUME NEW h \in ThreadStates, HasInProgress(h.turns), NEW kind \in EndKinds
    PROVE  /\ Ended(h, kind) \in ThreadStates
           /\ Ended(h, kind).active = FALSE
           /\ Len(Ended(h, kind).turns) = Len(h.turns)
           /\ ~HasInProgress(Ended(h, kind).turns)
<1> DEFINE s == [h.turns EXCEPT ![Len(h.turns)] = kind]
<1>1. h.turns \in Seq(Kinds) /\ h.turns # <<>>
  BY DEF ThreadStates, HasInProgress
<1>2. kind \in Kinds /\ kind # "inProgress"
  BY DEF Kinds, EndKinds
<1>3. s \in Seq(Kinds) /\ Len(s) = Len(h.turns) /\ s[Len(s)] = kind
  BY <1>1, <1>2
<1>4. Ended(h, kind) = [active |-> FALSE, turns |-> s]
  BY DEF Ended
<1> HIDE DEF s
<1> QED BY <1>2, <1>3, <1>4 DEF ThreadStates, HasInProgress

LEMMA MarkedType ==
    ASSUME NEW m \in States, NEW t \in Threads, NEW id \in Nat,
           NEW action \in DirectActions, NEW recovery_id \in Nat
    PROVE  /\ Marked(m, t, id, action, recovery_id) \in States
           /\ Marked(m, t, id, action, recovery_id).direct[t] =
                [turn_id |-> id, action |-> action,
                 recovery_turn_id |-> recovery_id]
           /\ \A u \in Threads :
                u # t => Marked(m, t, id, action, recovery_id).direct[u] =
                            m.direct[u]
<1> DEFINE r == [turn_id |-> id, action |-> action,
                 recovery_turn_id |-> recovery_id]
           d == [m.direct EXCEPT ![t] = r]
<1>1. m = [requests |-> m.requests, direct |-> m.direct]
      /\ m.requests \in SUBSET Threads
      /\ m.direct \in [Threads -> DirectRecords]
  BY DEF States
<1>2. r \in DirectRecords
  BY DEF DirectRecords
<1>3. Marked(m, t, id, action, recovery_id) =
        [requests |-> m.requests, direct |-> d]
  BY <1>1 DEF Marked
<1> HIDE DEF r
<1>4. d \in [Threads -> DirectRecords] /\ d[t] = r
      /\ \A u \in Threads : u # t => d[u] = m.direct[u]
  BY <1>1, <1>2
<1> HIDE DEF d
<1> USE DEF r
<1> QED BY <1>1, <1>3, <1>4 DEF States

LEMMA FinishedType ==
    ASSUME NEW m \in States, NEW t
    PROVE  /\ Finished(m, t) \in States
           /\ Finished(m, t).direct = m.direct
<1>1. m = [requests |-> m.requests, direct |-> m.direct]
      /\ m.requests \in SUBSET Threads
      /\ m.direct \in [Threads -> DirectRecords]
  BY DEF States
<1>2. Finished(m, t) =
        [requests |-> m.requests \ {t}, direct |-> m.direct]
  BY <1>1 DEF Finished
<1> QED BY <1>1, <1>2 DEF States

\* The evidence of a visit is the one its record waits for, or the last turn.
LEMMA CandidateIs ==
    ASSUME NEW turns \in Seq(Kinds), NEW pending \in Nat
    PROVE  /\ Candidate(turns, pending) \in Nat
           /\ \/ Candidate(turns, pending) = pending /\ pending # 0
              \/ Candidate(turns, pending) = Len(turns)
  BY DEF Candidate

LEMMA PendingIs ==
    ASSUME NEW m \in States, NEW t \in Threads
    PROVE  /\ PendingEvidence(m, t) \in Nat
           /\ PendingEvidence(m, t) # 0 =>
                /\ m.direct[t].action \in PendingWakeActions
                /\ PendingEvidence(m, t) = m.direct[t].turn_id
<1>1. m.direct[t] \in DirectRecords
  BY DEF States
<1> QED BY <1>1 DEF PendingEvidence, DirectRecords

LEMMA WakeEvidenceIs ==
    ASSUME StateType, WorldType, cur \in Threads
    PROVE  /\ WakeEvidence \in Nat
           /\ WakeEvidence # 0 =>
                /\ WakeEvidence = Candidate(thread[cur].turns, Pending)
                /\ Direct(cur)
<1>1. Pending \in Nat
  BY PendingIs DEF Pending, StateType
<1>2. thread[cur].turns \in Seq(Kinds)
  BY DEF WorldType, ThreadStates
<1>3. Candidate(thread[cur].turns, Pending) \in Nat
  BY <1>1, <1>2, CandidateIs
<1>4. LET e == Continuity(cur, thread[cur], Pending)
      IN  e \in Nat /\ (e # 0 => e = Candidate(thread[cur].turns, Pending))
  BY <1>3 DEF Continuity
<1> QED BY <1>4 DEF WakeEvidence

-----------------------------------------------------------------------------
(* The steps of a pass by what they do. *)

\* The visit ends; at most the request is finished.
Leaves ==
    /\ pc \in VisitPoints \ {"started"}
    /\ EndVisit
    /\ \/ UNCHANGED <<disk, mem>>
       \/ Save(Finished(mem, cur))
    /\ asked' = asked \/ asked' = asked \ {cur}
    /\ UNCHANGED <<todo, config, serverVars, runtime, failures, disturbances,
                   wakes, policyRun, lost>>
    /\ faults' = faults \/ Fault

LEMMA LeavingSteps ==
    ASSUME \/ RuntimeLeft \/ GoalAlreadyActive \/ GoalNotRecoverable
           \/ \E s \in {"first", "fresh"} : Wait(s) \/ Refuse(s)
           \/ PolicyExhausted \/ Recovered \/ EvidenceChanged \/ ConfirmFails
           \/ PolicyCalledOff \/ CallFails
    PROVE  Leaves
<1>1. CASE CallFails
  <2>1. /\ pc \in VisitPoints \ {"started"} /\ EndVisit /\ Fault
        /\ UNCHANGED <<disk, mem, asked, todo, config, serverVars, runtime,
                       failures, disturbances, wakes, policyRun, lost>>
    BY <1>1 DEF CallFails, VisitPoints, ghostVars
  <2> QED BY <2>1, Zenon DEF Leaves
<1>2. CASE \/ RuntimeLeft \/ GoalNotRecoverable \/ PolicyExhausted
           \/ EvidenceChanged \/ ConfirmFails \/ PolicyCalledOff
           \/ \E s \in {"first", "fresh"} : Wait(s)
  <2>1. /\ pc \in {"goal", "confirm"} /\ EndVisit
        /\ SaveUnchanged /\ DecisionFrame
    BY <1>2, Zenon DEF RuntimeLeft, GoalNotRecoverable, PolicyExhausted,
       EvidenceChanged, ConfirmFails, PolicyCalledOff, Wait, Judged, Fit, At
  <2> QED BY <2>1, Zenon DEF Leaves, SaveUnchanged, DecisionFrame, world,
             boundVars, VisitPoints
<1>3. CASE \/ GoalAlreadyActive \/ Recovered
           \/ \E s \in {"first", "fresh"} : Refuse(s)
  <2>1. pc = "goal" /\ EndVisit /\ Finish(mem) /\ DecisionFrame
    BY <1>3, Zenon DEF GoalAlreadyActive, Recovered, Refuse, Judged, Fit, At
  <2> QED BY <2>1, Zenon DEF Leaves, Finish, DecisionFrame, world,
             boundVars, VisitPoints
<1> QED BY <1>1, <1>2, <1>3

\* A record of the thread is saved, with the evidence to follow up ...
SavesRecord(e, action, recovery_id) ==
    \E m \in {Marked(mem, cur, e, action, recovery_id),
              Finished(Marked(mem, cur, e, action, recovery_id), cur)} :
        Save(m)

Follows ==
    /\ pc \in {"goal", "confirm"}
    /\ \E action \in PendingWakeActions : SavesRecord(evidence', action, 0)
    /\ \/ /\ pc = "goal" /\ stage = "first"
          /\ evidence' = WakeEvidence /\ WakeEvidence # 0
       \/ pc = "goal" /\ stage = "before" /\ evidence' = evidence
       \/ pc = "confirm" /\ evidence' = evidence
    /\ \/ pc' = "thread" /\ stage' \in {"before", "policy"}
       \/ pc' = "resume" /\ stage' = stage /\ stage = "before"
    /\ UNCHANGED <<cur, view, retry, startedId, moved>>
    /\ asked' = asked \/ asked' = asked \ {cur}
    /\ DecisionFrame

\* ... or with what became of it, and the visit ends.
Settles ==
    /\ \/ pc = "goal" /\ stage \in {"before", "observe1", "observe2"}
       \/ pc = "started"
       \/ pc = "confirm"
    /\ \E action \in DirectActions, recovery_id \in Nat :
         /\ SavesRecord(evidence, action, recovery_id)
         /\ pc # "confirm" => action \notin PendingWakeActions
    /\ EndVisit
    /\ asked' = asked \/ asked' = asked \ {cur}
    /\ DecisionFrame

LEMMA FollowingSteps ==
    ASSUME \/ WakeActiveGoal \/ RequestResume
           \/ ConfirmGoal /\ Direct(cur) /\ config.starts
    PROVE  Follows
<1>1. CASE WakeActiveGoal
  <2>1. /\ pc = "goal" /\ stage = "first"
        /\ evidence' = WakeEvidence /\ WakeEvidence # 0
        /\ Save(Marked(mem, cur, evidence', "goal_state_reactivated", 0))
        /\ pc' = "thread" /\ stage' = "before"
        /\ UNCHANGED <<cur, view, retry, startedId, moved, asked>>
        /\ DecisionFrame
    BY <1>1, Zenon DEF WakeActiveGoal, At, ReadNext
  <2>2. SavesRecord(evidence', "goal_state_reactivated", 0)
    BY <2>1, Zenon DEF SavesRecord
  <2> QED BY <2>1, <2>2, Zenon DEF Follows, PendingWakeActions
<1>2. CASE RequestResume
  <2>1. /\ pc = "goal" /\ stage = "before"
        /\ Save(Marked(mem, cur, evidence, "resume_requested", 0))
        /\ pc' = "resume"
        /\ UNCHANGED <<cur, stage, view, evidence, retry, startedId, moved,
                       asked>>
        /\ DecisionFrame
    BY <1>2, Zenon DEF RequestResume, WakeGoesOn, Waking, visitVars
  <2>2. SavesRecord(evidence', "resume_requested", 0)
    BY <2>1, Zenon DEF SavesRecord
  <2> QED BY <2>1, <2>2, Zenon DEF Follows, PendingWakeActions
<1>3. CASE ConfirmGoal /\ Direct(cur) /\ config.starts
  <2>1. /\ pc = "confirm"
        /\ Finish(Marked(mem, cur, evidence, "goal_state_reactivated", 0))
        /\ pc' = "thread" /\ stage' \in {"before", "policy"}
        /\ UNCHANGED <<cur, view, evidence, retry, startedId, moved>>
        /\ DecisionFrame
    BY <1>3 DEF ConfirmGoal, ReadNext
  <2>2. SavesRecord(evidence', "goal_state_reactivated", 0)
    BY <2>1, Zenon DEF SavesRecord, Finish
  <2> QED BY <2>1, <2>2, Zenon DEF Follows, PendingWakeActions, Finish
<1> QED BY <1>1, <1>2, <1>3

LEMMA SettlingSteps ==
    ASSUME TypeInv,
           \/ WakeGoalChanged \/ WakeActive \/ RecordStart
           \/ ConfirmGoal /\ Direct(cur) /\ ~config.starts
    PROVE  Settles
<1>1. ASSUME NEW action \in DirectActions \ PendingWakeActions,
             NEW recovery_id \in Nat,
             EndWake(action, recovery_id),
             DecisionFrame,
             \/ pc = "goal" /\ stage \in {"before", "observe1", "observe2"}
             \/ pc = "started"
      PROVE  Settles
  <2>1. /\ Save(Finished(Marked(mem, cur, evidence, action, recovery_id), cur))
        /\ EndVisit /\ asked' = asked \ {cur}
    BY <1>1, Zenon DEF EndWake, Finish
  <2>2. SavesRecord(evidence, action, recovery_id)
    BY <2>1, Zenon DEF SavesRecord
  <2> QED BY <1>1, <2>1, <2>2, Zenon DEF Settles
<1>2. CASE WakeGoalChanged
  <2>1. "goal_changed" \in DirectActions \ PendingWakeActions /\ 0 \in Nat
    BY DEF DirectActions, FinishedWakeActions, PendingWakeActions
  <2> QED BY <1>1, <1>2, <2>1, Zenon DEF WakeGoalChanged, Waking
<1>3. CASE WakeActive
  <2>1. "runtime_active" \in DirectActions \ PendingWakeActions
    BY DEF DirectActions, FinishedWakeActions, PendingWakeActions
  <2>2. (IF stage # "before" /\ HasInProgress(view.turns)
         THEN Len(view.turns) ELSE 0) \in Nat
    BY DEF TypeInv, VisitType, ThreadStates
  <2> QED BY <1>1, <1>3, <2>1, <2>2, Zenon DEF WakeActive, Waking
<1>4. CASE RecordStart
  <2>1. (IF retry THEN "prompt_policy_turn_started" ELSE "turn_started")
           \in DirectActions \ PendingWakeActions
    BY DEF DirectActions, FinishedWakeActions, PendingWakeActions
  <2>2. startedId \in Nat
    BY DEF TypeInv, VisitType
  <2> QED BY <1>1, <1>4, <2>1, <2>2, Zenon DEF RecordStart
<1>5. CASE ConfirmGoal /\ Direct(cur) /\ ~config.starts
  <2>1. /\ pc = "confirm"
        /\ Finish(Marked(mem, cur, evidence, "goal_state_reactivated", 0))
        /\ EndVisit
        /\ DecisionFrame
    BY <1>5 DEF ConfirmGoal
  <2>2. SavesRecord(evidence, "goal_state_reactivated", 0)
    BY <2>1, Zenon DEF SavesRecord, Finish
  <2>3. "goal_state_reactivated" \in DirectActions /\ 0 \in Nat
    BY DEF DirectActions, PendingWakeActions
  <2>4. asked' = asked \ {cur}
    BY <2>1 DEF Finish
  <2> QED BY <2>1, <2>2, <2>3, <2>4, Zenon DEF Settles
<1> QED BY <1>2, <1>3, <1>4, <1>5

LEMMA ConfirmUnwatched ==
    ASSUME ConfirmGoal, ~Direct(cur)
    PROVE  Leaves
<1>1. pc = "confirm" /\ EndVisit /\ Finish(mem) /\ DecisionFrame
  BY DEF ConfirmGoal
<1> QED BY <1>1, Zenon DEF Leaves, Finish, DecisionFrame, world, boundVars,
           VisitPoints

-----------------------------------------------------------------------------
(* Type correctness, class by class. *)

LEMMA SavedRecord ==
    ASSUME StateType, cur \in Threads, NEW e \in Nat,
           NEW action \in DirectActions, NEW recovery_id \in Nat,
           SavesRecord(e, action, recovery_id)
    PROVE  /\ StateType'
           /\ disk' = mem'
           /\ disk'.direct[cur] = [turn_id |-> e, action |-> action,
                                   recovery_turn_id |-> recovery_id]
           /\ \A u \in Threads : u # cur => disk'.direct[u] = mem.direct[u]
<1> DEFINE n == Marked(mem, cur, e, action, recovery_id)
<1>1. /\ n \in States
      /\ n.direct[cur] = [turn_id |-> e, action |-> action,
                          recovery_turn_id |-> recovery_id]
      /\ \A u \in Threads : u # cur => n.direct[u] = mem.direct[u]
  BY MarkedType DEF StateType
<1>2. /\ Finished(n, cur) \in States
      /\ Finished(n, cur).direct = n.direct
  BY <1>1, FinishedType
<1>3. PICK m \in {n, Finished(n, cur)} : mem' = m /\ disk' = m
  BY Zenon DEF SavesRecord, Save
<1> HIDE DEF n
<1> QED BY <1>1, <1>2, <1>3 DEF StateType

LEMMA EndVisitType ==
    ASSUME VisitType, EndVisit, UNCHANGED todo
    PROVE  VisitType'
<1>1. [active |-> FALSE, turns |-> <<>>] \in ThreadStates
  BY DEF ThreadStates
<1>2. /\ pc' = "visits" /\ cur' = None /\ stage' = "first"
      /\ view' = [active |-> FALSE, turns |-> <<>>]
      /\ evidence' = 0 /\ retry' = FALSE /\ startedId' = 0 /\ moved' = FALSE
  BY DEF EndVisit, ClearVisit
<1> QED BY <1>1, <1>2 DEF VisitType, PassPoints, VisitPoints, Stages

LEMMA FaultCounts ==
    ASSUME CountType, Fault
    PROVE  /\ faults' \in 0 .. MaxFaults
           /\ faults' = faults + 1
           /\ \A t \in Threads : lost[t] <= faults' /\ lost[t] + 1 <= faults'
  BY DesktopAssumption DEF CountType, Fault

LEMMA LeavesType == ASSUME TypeInv, Leaves PROVE TypeInv'
<1>1. StateType'
  <2>1. CASE UNCHANGED <<disk, mem>>
    BY <2>1 DEF TypeInv, StateType
  <2>2. CASE Save(Finished(mem, cur))
    BY <2>2, FinishedType DEF TypeInv, StateType, Save
  <2> QED BY <2>1, <2>2 DEF Leaves
<1>2. VisitType'
  BY EndVisitType DEF TypeInv, Leaves
<1>3. WorldType'
  BY DEF TypeInv, WorldType, Leaves, serverVars
<1>4. CountType'
  <2>1. CASE faults' = faults
    BY <2>1 DEF TypeInv, CountType, Leaves
  <2>2. CASE Fault
    BY <2>2, FaultCounts DEF TypeInv, CountType, Leaves
  <2> QED BY <2>1, <2>2 DEF Leaves
<1> QED BY <1>1, <1>2, <1>3, <1>4 DEF TypeInv

LEMMA FollowsType == ASSUME TypeInv, Follows PROVE TypeInv' /\ disk' = mem'
<1>1. cur \in Threads
  BY DEF TypeInv, VisitType, Follows, VisitPoints
<1>2. evidence' \in Nat
  BY <1>1, WakeEvidenceIs DEF TypeInv, VisitType, Follows
<1>3. PICK action \in PendingWakeActions : SavesRecord(evidence', action, 0)
  BY Zenon DEF Follows
<1>4. action \in DirectActions
  BY <1>3 DEF DirectActions
<1>5. StateType' /\ disk' = mem'
  BY <1>1, <1>2, <1>3, <1>4, SavedRecord DEF TypeInv
<1>6. VisitType'
  BY <1>1, <1>2 DEF TypeInv, VisitType, Follows, DecisionFrame, VisitPoints,
     PassPoints, Stages
<1>7. WorldType' /\ CountType'
  BY Zenon DEF TypeInv, WorldType, CountType, Follows, DecisionFrame, world,
     serverVars, boundVars
<1> QED BY <1>5, <1>6, <1>7 DEF TypeInv

LEMMA SettlesType == ASSUME TypeInv, Settles PROVE TypeInv' /\ disk' = mem'
<1>1. cur \in Threads /\ evidence \in Nat
  BY DEF TypeInv, VisitType, Settles, VisitPoints
<1>2. PICK action \in DirectActions, recovery_id \in Nat :
        SavesRecord(evidence, action, recovery_id)
  BY Zenon DEF Settles
<1>3. StateType' /\ disk' = mem'
  BY <1>1, <1>2, SavedRecord DEF TypeInv
<1>4. VisitType'
  BY EndVisitType, Zenon DEF TypeInv, Settles, DecisionFrame
<1>5. WorldType' /\ CountType'
  <2>1. asked' \subseteq Threads
    BY DEF TypeInv, CountType, Settles
  <2> QED BY <2>1, Zenon DEF TypeInv, WorldType, CountType, Settles,
             DecisionFrame, world, serverVars, boundVars
<1> QED BY <1>3, <1>4, <1>5 DEF TypeInv

\* The steps of a pass that save nothing and change nothing in the world.
LEMMA QuietType ==
    ASSUME TypeInv,
           \/ BeginPass \/ EndPass \/ ReadThread \/ ReadAgain
           \/ PrepareReactivation \/ ObserveAgain \/ PrepareStart
           \/ PreparePolicyStart \/ \E t \in Threads : Visit(t)
    PROVE  TypeInv' /\ UNCHANGED <<disk, world, ghostVars>>
<1>1. /\ UNCHANGED <<disk, world, ghostVars>>
      /\ mem' = mem \/ mem' = disk
  BY Zenon DEF BeginPass, EndPass, ReadThread, ReadAgain, PrepareReactivation,
     ObserveAgain, PrepareStart, PreparePolicyStart, Visit, SaveUnchanged,
     DecisionFrame, ghostVars
<1>2. StateType' /\ WorldType' /\ CountType'
  BY <1>1 DEF TypeInv, StateType, WorldType, CountType, world, serverVars,
     boundVars, ghostVars
<1>3. VisitType'
  <2> USE DEF TypeInv, VisitType, VisitPoints, PassPoints
  <2>1. CASE BeginPass
    <3>1. disk.requests \subseteq Threads /\ config.watched \subseteq Threads
      BY DesktopAssumption DEF StateType, States, WorldType
    <3> QED BY <2>1, <3>1 DEF BeginPass, visitVars
  <2>2. CASE EndPass
    BY <2>2 DEF EndPass, visitVars
  <2>3. CASE ReadThread
    BY <2>3 DEF ReadThread, WorldType
  <2>4. CASE ReadAgain
    BY <2>4 DEF ReadAgain, Fit, Judged, At, ReadNext, DecisionFrame, Stages
  <2>5. CASE PrepareReactivation
    <3>1. evidence' \in Nat
      <4>1. Pending \in Nat
        BY <2>5, PendingIs DEF PrepareReactivation, Judged, At, Pending,
           StateType
      <4>2. view.turns \in Seq(Kinds)
        BY DEF ThreadStates
      <4> QED BY <2>5, <4>1, <4>2, CandidateIs DEF PrepareReactivation
    <3> QED BY <2>5, <3>1 DEF PrepareReactivation, Judged, At, DecisionFrame
  <2>6. CASE ObserveAgain
    BY <2>6 DEF ObserveAgain, WakeGoesOn, Waking, ReadNext, DecisionFrame,
       Stages
  <2>7. CASE PrepareStart
    BY <2>7 DEF PrepareStart, WakeGoesOn, Waking, DecisionFrame, visitVars
  <2>8. CASE PreparePolicyStart
    BY <2>8 DEF PreparePolicyStart, At, DecisionFrame, visitVars
  <2>9. ASSUME NEW t \in Threads, Visit(t) PROVE VisitType'
    BY <2>9 DEF Visit
  <2> QED BY <2>1, <2>2, <2>3, <2>4, <2>5, <2>6, <2>7, <2>8, <2>9
<1> QED BY <1>1, <1>2, <1>3 DEF TypeInv

LEMMA ReactivateType == ASSUME TypeInv, ReactivateGoal PROVE TypeInv'
<1>1. /\ pc = "set" /\ pc' = "confirm"
      /\ goal' = [goal EXCEPT ![cur] = "active"]
      /\ UNCHANGED <<disk, mem, todo, cur, stage, view, evidence, retry,
                     startedId, moved, config, thread, runtime, failures,
                     disturbances, faults, asked, wakes, policyRun, lost>>
  BY Zenon DEF ReactivateGoal, visitVars, boundVars, ghostVars
<1> QED BY <1>1 DEF TypeInv, StateType, VisitType, WorldType, CountType,
           PassPoints, VisitPoints, GoalStates

\* A turn of another client.
LEMMA OtherTurnType ==
    ASSUME TypeInv, NEW t \in Threads, OtherTurnBegins(t)
    PROVE  /\ thread' \in [Threads -> ThreadStates]
           /\ policyRun' \in [Threads -> Nat]
           /\ moved' \in BOOLEAN
           /\ \A u \in Threads : Len(thread'[u].turns) >= Len(thread[u].turns)
<1>1. /\ thread[t] \in ThreadStates
      /\ \A u \in Threads : Len(thread[u].turns) \in Nat
  BY DEF TypeInv, WorldType, ThreadStates
<1>2. Begun(thread[t]) \in ThreadStates
      /\ Len(Begun(thread[t]).turns) = Len(thread[t].turns) + 1
  BY <1>1, BegunType
<1>3. /\ thread' = [thread EXCEPT ![t] = Begun(thread[t])]
      /\ policyRun' = [policyRun EXCEPT ![t] = 0]
      /\ moved' = (moved \/ t = cur)
  BY DEF OtherTurnBegins
<1>4. /\ thread' \in [Threads -> ThreadStates]
      /\ \A u \in Threads : Len(thread'[u].turns) >= Len(thread[u].turns)
  BY <1>1, <1>2, <1>3 DEF TypeInv, WorldType
<1>5. policyRun' \in [Threads -> Nat] /\ moved' \in BOOLEAN
  BY <1>3 DEF TypeInv, CountType
<1> QED BY <1>4, <1>5

LEMMA DisturbedType ==
    ASSUME CountType, disturbances < MaxDisturbances
    PROVE  disturbances + 1 \in 0 .. MaxDisturbances
  BY DesktopAssumption DEF CountType

LEMMA ResumeType ==
    ASSUME TypeInv, ResumeThread
    PROVE  /\ TypeInv'
           /\ \A u \in Threads : Len(thread'[u].turns) >= Len(thread[u].turns)
<1>1. /\ pc = "resume" /\ pc' = "thread" /\ stage' = "observe1"
      /\ UNCHANGED <<disk, mem, todo, cur, view, evidence, retry, startedId,
                     config, goal, runtime, failures, faults, asked, wakes,
                     lost>>
  BY DEF ResumeThread, ReadNext
<1>2. cur \in Threads
  BY <1>1 DEF TypeInv, VisitType, VisitPoints
<1>3. /\ thread' \in [Threads -> ThreadStates]
      /\ policyRun' \in [Threads -> Nat]
      /\ moved' \in BOOLEAN
      /\ disturbances' \in 0 .. MaxDisturbances
      /\ \A u \in Threads : Len(thread'[u].turns) >= Len(thread[u].turns)
  <2>1. CASE UNCHANGED <<thread, policyRun, moved, disturbances>>
    <3>1. \A u \in Threads : Len(thread[u].turns) \in Nat
      BY DEF TypeInv, WorldType, ThreadStates
    <3> QED BY <2>1, <3>1 DEF TypeInv, WorldType, CountType, VisitType
  <2>2. CASE /\ OtherTurnBegins(cur)
             /\ disturbances < MaxDisturbances
             /\ disturbances' = disturbances + 1
    BY <1>2, <2>2, OtherTurnType, DisturbedType DEF TypeInv
  <2> QED BY <2>1, <2>2 DEF ResumeThread
<1>4. VisitType'
  BY <1>1, <1>2, <1>3 DEF TypeInv, VisitType, PassPoints, VisitPoints, Stages
<1>5. StateType' /\ WorldType' /\ CountType'
  BY <1>1, <1>3 DEF TypeInv, StateType, WorldType, CountType
<1> QED BY <1>3, <1>4, <1>5 DEF TypeInv

\* What turn/start does to the thread of the visit.
LEMMA StartedTurnType ==
    ASSUME TypeInv, cur \in Threads, ServerStartsTurn
    PROVE  /\ thread' \in [Threads -> ThreadStates]
           /\ wakes' \in [Threads -> Seq(Nat)]
           /\ policyRun' \in [Threads -> Nat]
           /\ wakes'[cur] = Append(wakes[cur], evidence)
           /\ Len(thread'[cur].turns) = Len(thread[cur].turns) + 1
           /\ \A u \in Threads :
                u # cur => wakes'[u] = wakes[u] /\ thread'[u] = thread[u]
<1>1. thread[cur] \in ThreadStates
  BY DEF TypeInv, WorldType
<1>2. Begun(thread[cur]) \in ThreadStates
      /\ Len(Begun(thread[cur]).turns) = Len(thread[cur].turns) + 1
  BY <1>1, BegunType
<1>3. /\ thread' = [thread EXCEPT ![cur] = Begun(thread[cur])]
      /\ wakes' = [wakes EXCEPT ![cur] = Append(wakes[cur], evidence)]
      /\ policyRun' = [policyRun EXCEPT ![cur] =
                         IF retry THEN policyRun[cur] + 1 ELSE 0]
  BY DEF ServerStartsTurn
<1>4. Append(wakes[cur], evidence) \in Seq(Nat)
  BY DEF TypeInv, CountType, VisitType
<1>5. policyRun' \in [Threads -> Nat]
  BY <1>3 DEF TypeInv, CountType
<1> QED BY <1>1, <1>2, <1>3, <1>4, <1>5 DEF TypeInv, WorldType, CountType

LEMMA StartType == ASSUME TypeInv, StartTurn PROVE TypeInv'
<1>1. /\ pc = "start" /\ pc' = "started" /\ ServerStartsTurn
      /\ startedId' = Len(thread'[cur].turns)
      /\ UNCHANGED <<disk, mem, todo, cur, stage, view, evidence, retry, moved,
                     config, goal, runtime, failures, disturbances, faults,
                     asked, lost>>
  BY Zenon DEF StartTurn, boundVars
<1>2. cur \in Threads
  BY <1>1 DEF TypeInv, VisitType, VisitPoints
<1>3. /\ thread' \in [Threads -> ThreadStates]
      /\ wakes' \in [Threads -> Seq(Nat)]
      /\ policyRun' \in [Threads -> Nat]
      /\ Len(thread'[cur].turns) \in Nat
  <2>1. thread' \in [Threads -> ThreadStates]
    BY <1>1, <1>2, StartedTurnType
  <2>2. Len(thread'[cur].turns) \in Nat
    BY <1>2, <2>1 DEF ThreadStates
  <2> QED BY <1>1, <1>2, <2>2, StartedTurnType
<1>4. VisitType'
  BY <1>1, <1>2, <1>3 DEF TypeInv, VisitType, PassPoints, VisitPoints
<1>5. StateType' /\ WorldType' /\ CountType'
  BY <1>1, <1>3 DEF TypeInv, StateType, WorldType, CountType
<1> QED BY <1>4, <1>5 DEF TypeInv

LEMMA StartLostType == ASSUME TypeInv, StartReplyLost PROVE TypeInv'
<1>1. /\ pc = "start" /\ Fault /\ ServerStartsTurn /\ EndVisit
      /\ lost' = [lost EXCEPT ![cur] = @ + 1]
      /\ UNCHANGED <<disk, mem, todo, config, goal, runtime, failures,
                     disturbances, asked>>
  BY Zenon DEF StartReplyLost
<1>2. cur \in Threads
  BY <1>1 DEF TypeInv, VisitType, VisitPoints
<1>3. VisitType'
  BY <1>1, EndVisitType DEF TypeInv
<1>4. /\ thread' \in [Threads -> ThreadStates]
      /\ wakes' \in [Threads -> Seq(Nat)]
      /\ policyRun' \in [Threads -> Nat]
  BY <1>1, <1>2, StartedTurnType
<1>5. /\ faults' \in 0 .. MaxFaults
      /\ lost' \in [Threads -> Nat]
      /\ \A t \in Threads : lost'[t] <= faults'
  BY <1>1, <1>2, FaultCounts DEF TypeInv, CountType
<1>6. StateType' /\ WorldType' /\ CountType'
  BY <1>1, <1>4, <1>5 DEF TypeInv, StateType, WorldType, CountType
<1> QED BY <1>3, <1>6 DEF TypeInv

LEMMA CrashType == ASSUME TypeInv, Crash PROVE TypeInv'
<1>1. /\ Fault /\ pc' = "idle" /\ todo' = {} /\ ClearVisit
      /\ lost' = IF pc = "started" THEN [lost EXCEPT ![cur] = @ + 1] ELSE lost
      /\ UNCHANGED <<disk, mem, config, thread, goal, runtime, failures,
                     disturbances, asked, wakes, policyRun>>
  BY Zenon DEF Crash, serverVars
<1>2. VisitType'
  <2>1. [active |-> FALSE, turns |-> <<>>] \in ThreadStates
    BY DEF ThreadStates
  <2>2. /\ cur' = None /\ stage' = "first"
        /\ view' = [active |-> FALSE, turns |-> <<>>]
        /\ evidence' = 0 /\ retry' = FALSE /\ startedId' = 0 /\ moved' = FALSE
    BY <1>1 DEF ClearVisit
  <2> QED BY <1>1, <2>1, <2>2 DEF VisitType, PassPoints, VisitPoints, Stages
<1>3. /\ faults' \in 0 .. MaxFaults
      /\ lost' \in [Threads -> Nat]
      /\ \A t \in Threads : lost'[t] <= faults'
  <2>1. pc = "started" => cur \in Threads
    BY DEF TypeInv, VisitType, VisitPoints
  <2> QED BY <1>1, <2>1, FaultCounts DEF TypeInv, CountType
<1>4. StateType' /\ WorldType' /\ CountType'
  BY <1>1, <1>3 DEF TypeInv, StateType, WorldType, CountType
<1> QED BY <1>2, <1>4 DEF TypeInv

-----------------------------------------------------------------------------
(* What the world does to a thread. *)

\* Nothing began on the thread: it may only have come to rest.
CameToRest(h, k) ==
    /\ k.active => h.active
    /\ HasInProgress(k.turns) => HasInProgress(h.turns)

\* What a pass may rely on of the thread it visits until moved is set.
Relied ==
    \A u \in Threads :
        u = cur /\ ~moved' =>
            /\ ~moved
            /\ CameToRest(thread[u], thread'[u])
            /\ \/ goal'[u] = goal[u]
               \/ goal[u] = "active"
               \/ HasInProgress(thread[u].turns)

WorldShape ==
    /\ TypeInv'
    /\ disk'.direct = disk.direct
    /\ UNCHANGED <<mem, pc, todo, cur, stage, view, evidence, retry, startedId,
                   config, wakes, lost>>
    /\ \A u \in Threads : Len(thread'[u].turns) >= Len(thread[u].turns)
    /\ Relied

LEMMA ActiveSet ==
    ASSUME NEW h \in ThreadStates, NEW b \in BOOLEAN
    PROVE  [h EXCEPT !.active = b] = [active |-> b, turns |-> h.turns]
<1>1. ASSUME NEW a, NEW s
      PROVE  [[active |-> a, turns |-> s] EXCEPT !.active = b]
                = [active |-> b, turns |-> s]
  OBVIOUS
<1>2. h = [active |-> h.active, turns |-> h.turns]
  BY DEF ThreadStates
<1> QED BY <1>1, <1>2, Zenon

\* One thread changes, or none.
LEMMA OneThreadMoves ==
    ASSUME TypeInv, NEW t \in Threads, NEW k \in ThreadStates,
           NEW g \in GoalStates,
           thread' = [thread EXCEPT ![t] = k],
           goal' = [goal EXCEPT ![t] = g],
           Len(k.turns) >= Len(thread[t].turns),
           moved' \in BOOLEAN,
           t # cur => moved' = moved,
           t = cur /\ ~moved' =>
              /\ ~moved
              /\ CameToRest(thread[t], k)
              /\ \/ g = goal[t]
                 \/ goal[t] = "active"
                 \/ HasInProgress(thread[t].turns),
           UNCHANGED <<disk, mem, pc, todo, cur, stage, view, evidence, retry,
                       startedId, config, runtime, asked, wakes, lost, faults>>,
           failures' \in 0 .. MaxFailures,
           disturbances' \in 0 .. MaxDisturbances,
           policyRun' \in [Threads -> Nat]
    PROVE  WorldShape
<1>1. /\ thread' \in [Threads -> ThreadStates]
      /\ goal' \in [Threads -> GoalStates]
      /\ thread'[t] = k /\ goal'[t] = g
      /\ \A u \in Threads \ {t} : thread'[u] = thread[u] /\ goal'[u] = goal[u]
  BY DEF TypeInv, WorldType
<1>2. \A u \in Threads : Len(thread'[u].turns) >= Len(thread[u].turns)
  <2>1. \A u \in Threads : Len(thread[u].turns) \in Nat
    BY DEF TypeInv, WorldType, ThreadStates
  <2> QED BY <1>1, <2>1
<1>3. TypeInv'
  BY <1>1 DEF TypeInv, StateType, VisitType, WorldType, CountType
<1>4. Relied
  <2> SUFFICES ASSUME NEW u \in Threads, u = cur, ~moved'
               PROVE  /\ ~moved
                      /\ CameToRest(thread[u], thread'[u])
                      /\ \/ goal'[u] = goal[u]
                         \/ goal[u] = "active"
                         \/ HasInProgress(thread[u].turns)
    BY Zenon DEF Relied
  <2>1. CASE u = t
    BY <1>1, <2>1, Zenon
  <2>2. CASE u # t
    <3>1. thread'[u] = thread[u] /\ goal'[u] = goal[u] /\ ~moved
      BY <1>1, <2>2
    <3>2. CameToRest(thread[u], thread'[u])
      BY <3>1, Zenon DEF CameToRest
    <3> QED BY <3>1, <3>2, Zenon
  <2> QED BY <2>1, <2>2
<1> QED BY <1>2, <1>3, <1>4, Zenon DEF WorldShape

\* A step of the world that leaves every thread and Goal alone.
LEMMA NoThreadMoves ==
    ASSUME TypeInv, UNCHANGED <<thread, goal, moved>>,
           disk' \in States, disk'.direct = disk.direct,
           UNCHANGED <<mem, pc, todo, cur, stage, view, evidence, retry,
                       startedId, config, wakes, lost, failures, faults,
                       policyRun>>,
           disturbances' \in 0 .. MaxDisturbances,
           runtime' \in BOOLEAN, asked' \subseteq Threads
    PROVE  WorldShape
<1>1. TypeInv'
  BY DEF TypeInv, StateType, VisitType, WorldType, CountType
<1>2. \A u \in Threads : Len(thread'[u].turns) >= Len(thread[u].turns)
  BY DEF TypeInv, WorldType, ThreadStates
<1>3. Relied
  BY Zenon DEF Relied, CameToRest
<1> QED BY <1>1, <1>2, <1>3, Zenon DEF WorldShape

LEMMA WorldSteps == ASSUME TypeInv, World PROVE WorldShape
<1>1. ASSUME NEW t \in Threads, UserTurn(t) PROVE WorldShape
  <2>1. /\ Disturb /\ ~thread[t].active
        /\ OtherTurnBegins(t)
        /\ UNCHANGED <<disk, mem, pc, todo, cur, stage, view, evidence, retry,
                       startedId, config, goal, runtime, failures, faults,
                       asked, wakes, lost>>
    BY <1>1, Zenon DEF UserTurn, passVars, visitVars
  <2>2. thread[t] \in ThreadStates /\ goal[t] \in GoalStates
    BY DEF TypeInv, WorldType
  <2>3. /\ Begun(thread[t]) \in ThreadStates
        /\ Len(Begun(thread[t]).turns) >= Len(thread[t].turns)
    <3>1. Len(thread[t].turns) \in Nat
      BY <2>2 DEF ThreadStates
    <3>2. /\ Begun(thread[t]) \in ThreadStates
          /\ Len(Begun(thread[t]).turns) = Len(thread[t].turns) + 1
      BY <2>2, BegunType
    <3> QED BY <3>1, <3>2
  <2>4. /\ thread' = [thread EXCEPT ![t] = Begun(thread[t])]
        /\ moved' = (moved \/ t = cur)
        /\ goal' = [goal EXCEPT ![t] = goal[t]]
    BY <2>1 DEF OtherTurnBegins, TypeInv, WorldType
  <2>5. /\ moved' \in BOOLEAN /\ t # cur => moved' = moved
        /\ t = cur => moved'
    BY <2>4 DEF TypeInv, VisitType
  <2>6. /\ failures' \in 0 .. MaxFailures
        /\ disturbances' \in 0 .. MaxDisturbances
        /\ policyRun' \in [Threads -> Nat]
    BY <2>1, OtherTurnType, DisturbedType DEF Disturb, TypeInv, CountType
  <2> QED BY <2>1, <2>2, <2>3, <2>4, <2>5, <2>6, OneThreadMoves
<1>2. ASSUME NEW t \in Threads, Heartbeat(t) PROVE WorldShape
  <2>1. /\ Disturb
        /\ thread' = [thread EXCEPT ![t].active = TRUE]
        /\ moved' = (moved \/ t = cur)
        /\ UNCHANGED <<disk, mem, pc, todo, cur, stage, view, evidence, retry,
                       startedId, config, goal, runtime, failures, faults,
                       asked, wakes, policyRun, lost>>
    BY <1>2, Zenon DEF Heartbeat, passVars, visitVars, ghostVars
  <2>2. thread[t] \in ThreadStates /\ goal[t] \in GoalStates
    BY DEF TypeInv, WorldType
  <2> DEFINE k == [active |-> TRUE, turns |-> thread[t].turns]
  <2>3. k \in ThreadStates /\ Len(k.turns) >= Len(thread[t].turns)
    BY <2>2 DEF ThreadStates
  <2>4. /\ thread' = [thread EXCEPT ![t] = k]
        /\ goal' = [goal EXCEPT ![t] = goal[t]]
    <3>1. [thread[t] EXCEPT !.active = TRUE] = k
      BY <2>2, ActiveSet
    <3>2. thread' = [thread EXCEPT ![t] = [thread[t] EXCEPT !.active = TRUE]]
      BY <2>1
    <3>3. goal' = [goal EXCEPT ![t] = goal[t]]
      BY <2>1 DEF TypeInv, WorldType
    <3> QED BY <3>1, <3>2, <3>3, Zenon
  <2>5. /\ moved' \in BOOLEAN /\ t # cur => moved' = moved
        /\ t = cur => moved'
    BY <2>1 DEF TypeInv, VisitType
  <2>6. /\ failures' \in 0 .. MaxFailures
        /\ disturbances' \in 0 .. MaxDisturbances
        /\ policyRun' \in [Threads -> Nat]
    BY <2>1, DisturbedType DEF Disturb, TypeInv, CountType
  <2> HIDE DEF k
  <2> QED BY <2>1, <2>2, <2>3, <2>4, <2>5, <2>6, OneThreadMoves
<1>3. ASSUME NEW t \in Threads, HeartbeatEnds(t) \/ HeartbeatFails(t)
      PROVE  WorldShape
  <2>1. /\ thread' = [thread EXCEPT ![t].active = FALSE]
        /\ UNCHANGED <<disk, mem, pc, todo, cur, stage, view, evidence, retry,
                       startedId, config, runtime, disturbances, faults,
                       asked, wakes, policyRun, lost, moved>>
    BY <1>3, Zenon DEF HeartbeatEnds, HeartbeatFails, passVars, visitVars,
       ghostVars, boundVars
  <2>2. thread[t] \in ThreadStates /\ goal[t] \in GoalStates
    BY DEF TypeInv, WorldType
  <2> DEFINE k == [active |-> FALSE, turns |-> thread[t].turns]
  <2>3. k \in ThreadStates /\ Len(k.turns) >= Len(thread[t].turns)
        /\ CameToRest(thread[t], k)
    BY <2>2 DEF ThreadStates, CameToRest
  <2>4. thread' = [thread EXCEPT ![t] = k]
    <3>1. [thread[t] EXCEPT !.active = FALSE] = k
      BY <2>2, ActiveSet
    <3>2. thread' = [thread EXCEPT ![t] = [thread[t] EXCEPT !.active = FALSE]]
      BY <2>1
    <3> QED BY <3>1, <3>2, Zenon
  <2>5. PICK g \in GoalStates :
          /\ goal' = [goal EXCEPT ![t] = g]
          /\ g = goal[t] \/ goal[t] = "active"
    <3>1. CASE HeartbeatEnds(t)
      <4>1. goal' = [goal EXCEPT ![t] = goal[t]]
        BY <3>1 DEF HeartbeatEnds, TypeInv, WorldType
      <4> QED BY <2>2, <4>1
    <3>2. CASE HeartbeatFails(t)
      <4>1. /\ goal' = [goal EXCEPT ![t] = "blocked"]
            /\ goal[t] = "active" /\ "blocked" \in GoalStates
        BY <3>2 DEF HeartbeatFails, GoalStates
      <4> QED BY <4>1
    <3> QED BY <1>3, <3>1, <3>2
  <2>6. /\ failures' \in 0 .. MaxFailures
        /\ disturbances' \in 0 .. MaxDisturbances
        /\ policyRun' \in [Threads -> Nat]
        /\ moved' \in BOOLEAN
    <3>1. CASE HeartbeatEnds(t)
      BY <2>1, <3>1 DEF HeartbeatEnds, boundVars, TypeInv, CountType, VisitType
    <3>2. CASE HeartbeatFails(t)
      BY <2>1, <3>2, DesktopAssumption
         DEF HeartbeatFails, TypeInv, CountType, VisitType
    <3> QED BY <1>3, <3>1, <3>2
  <2> HIDE DEF k
  <2> QED BY <2>1, <2>2, <2>3, <2>4, <2>5, <2>6, OneThreadMoves
<1>4. ASSUME NEW t \in Threads, TurnFails(t) \/ TurnCompletes(t)
      PROVE  WorldShape
  <2>1. /\ HasInProgress(thread[t].turns)
        /\ UNCHANGED <<disk, mem, pc, todo, cur, stage, view, evidence, retry,
                       startedId, config, runtime, disturbances, faults,
                       asked, wakes, policyRun, lost, moved>>
    BY <1>4, Zenon DEF TurnFails, TurnCompletes, passVars, visitVars,
       ghostVars, boundVars
  <2>2. thread[t] \in ThreadStates /\ goal[t] \in GoalStates
    BY DEF TypeInv, WorldType
  <2>3. PICK kind \in EndKinds : thread' = [thread EXCEPT ![t] = Ended(@, kind)]
    BY <1>4 DEF TurnFails, TurnCompletes, EndKinds
  <2> DEFINE k == Ended(thread[t], kind)
  <2>4. /\ k \in ThreadStates
        /\ Len(k.turns) >= Len(thread[t].turns)
        /\ CameToRest(thread[t], k)
    <3>1. Len(thread[t].turns) \in Nat
      BY <2>2 DEF ThreadStates
    <3>2. /\ k \in ThreadStates
          /\ k.active = FALSE
          /\ Len(k.turns) = Len(thread[t].turns)
          /\ ~HasInProgress(k.turns)
      BY <2>1, <2>2, EndedType, Zenon
    <3> HIDE DEF k
    <3> QED BY <3>1, <3>2 DEF CameToRest
  <2>5. thread' = [thread EXCEPT ![t] = k]
    BY <2>3
  <2>6. PICK g \in GoalStates : goal' = [goal EXCEPT ![t] = g]
    <3>1. CASE TurnFails(t)
      <4>1. PICK status \in {"active", "blocked", "usageLimited"} :
              goal' = [goal EXCEPT ![t] =
                         IF goal[t] = "active" THEN status ELSE goal[t]]
        BY <3>1 DEF TurnFails
      <4>2. (IF goal[t] = "active" THEN status ELSE goal[t]) \in GoalStates
        BY <2>2 DEF GoalStates
      <4> QED BY <4>1, <4>2
    <3>2. CASE TurnCompletes(t)
      BY <3>2 DEF TurnCompletes, GoalStates
    <3> QED BY <1>4, <3>1, <3>2
  <2>7. /\ failures' \in 0 .. MaxFailures
        /\ disturbances' \in 0 .. MaxDisturbances
        /\ policyRun' \in [Threads -> Nat]
        /\ moved' \in BOOLEAN
    <3>1. CASE TurnFails(t)
      BY <2>1, <3>1, DesktopAssumption
         DEF TurnFails, TypeInv, CountType, VisitType
    <3>2. CASE TurnCompletes(t)
      BY <2>1, <3>2 DEF TurnCompletes, boundVars, TypeInv, CountType, VisitType
    <3> QED BY <1>4, <3>1, <3>2
  <2> HIDE DEF k
  <2> QED BY <2>1, <2>4, <2>5, <2>6, <2>7, OneThreadMoves
<1>5. ASSUME NEW t \in Threads, GoalChanges(t) PROVE WorldShape
  <2>1. /\ Disturb
        /\ moved' = (moved \/ t = cur)
        /\ goal' = [goal EXCEPT ![t] = IF goal[t] = "other" THEN "active"
                                       ELSE "other"]
        /\ UNCHANGED <<disk, mem, pc, todo, cur, stage, view, evidence, retry,
                       startedId, config, thread, runtime, failures, faults,
                       asked, wakes, policyRun, lost>>
    BY <1>5 DEF GoalChanges, passVars, visitVars, ghostVars
  <2>2. /\ thread[t] \in ThreadStates
        /\ Len(thread[t].turns) >= Len(thread[t].turns)
        /\ thread' = [thread EXCEPT ![t] = thread[t]]
        /\ (IF goal[t] = "other" THEN "active" ELSE "other") \in GoalStates
    BY <2>1 DEF TypeInv, WorldType, GoalStates, ThreadStates
  <2>3. /\ moved' \in BOOLEAN /\ t # cur => moved' = moved
        /\ t = cur => moved'
    BY <2>1 DEF TypeInv, VisitType
  <2>4. /\ failures' \in 0 .. MaxFailures
        /\ disturbances' \in 0 .. MaxDisturbances
        /\ policyRun' \in [Threads -> Nat]
    BY <2>1, DisturbedType DEF Disturb, TypeInv, CountType
  <2> QED BY <2>1, <2>2, <2>3, <2>4, OneThreadMoves
<1>6. ASSUME NEW t \in Threads, RequestRecovery(t) PROVE WorldShape
  <2>1. /\ Disturb
        /\ disk' = [disk EXCEPT !.requests = @ \cup {t}]
        /\ asked' = asked \cup {t}
        /\ UNCHANGED <<thread, goal, moved, mem, pc, todo, cur, stage, view,
                       evidence, retry, startedId, config, runtime, wakes,
                       lost, failures, faults, policyRun>>
    BY <1>6, Zenon DEF RequestRecovery, Enqueued, passVars, visitVars,
       serverVars
  <2>2. disk' \in States /\ disk'.direct = disk.direct
    BY <2>1 DEF TypeInv, StateType, States
  <2>3. /\ asked' \subseteq Threads /\ runtime' \in BOOLEAN
        /\ disturbances' \in 0 .. MaxDisturbances
    BY <2>1, DisturbedType DEF Disturb, TypeInv, CountType, WorldType
  <2> QED BY <2>1, <2>2, <2>3, NoThreadMoves
<1>7. CASE RuntimeLeaves \/ RuntimeReturns
  <2>1. /\ UNCHANGED <<disk, thread, goal, moved, mem, pc, todo, cur, stage,
                       view, evidence, retry, startedId, config, wakes, lost,
                       failures, faults, policyRun, asked>>
        /\ runtime' \in BOOLEAN
        /\ disturbances' = disturbances \/ Disturb
    BY <1>7 DEF RuntimeLeaves, RuntimeReturns, passVars, visitVars,
       serverVars, boundVars, ghostVars
  <2>2. disk' \in States /\ disk'.direct = disk.direct /\ asked' \subseteq Threads
    BY <2>1 DEF TypeInv, StateType, CountType
  <2>3. disturbances' \in 0 .. MaxDisturbances
    BY <2>1, DisturbedType DEF Disturb, TypeInv, CountType
  <2> QED BY <2>1, <2>2, <2>3, NoThreadMoves
<1> QED BY <1>1, <1>2, <1>3, <1>4, <1>5, <1>6, <1>7, Zenon DEF World, TurnEnds

-----------------------------------------------------------------------------
\* Every step is of one of these classes.
Quiet ==
    \/ BeginPass \/ EndPass \/ ReadThread \/ ReadAgain
    \/ PrepareReactivation \/ ObserveAgain \/ PrepareStart
    \/ PreparePolicyStart \/ \E t \in Threads : Visit(t)

LEMMA StepClasses ==
    ASSUME TypeInv, Next
    PROVE  \/ Leaves \/ Follows \/ Settles \/ Quiet
           \/ ReactivateGoal \/ ResumeThread \/ StartTurn \/ StartReplyLost
           \/ Crash \/ WorldShape
<1>1. CASE World
  BY <1>1, WorldSteps
<1>2. CASE CallFails
  BY <1>2, LeavingSteps
<1>3. CASE Decide
  <2>1. CASE WakeActiveGoal
    BY <2>1, FollowingSteps
  <2>2. CASE ReadAgain
    BY <2>2, Zenon DEF Quiet
  <2> QED BY <1>3, <2>1, <2>2, LeavingSteps, Zenon DEF Decide
<1>4. CASE Reactivate
  <2>1. CASE ConfirmGoal
    BY <2>1, FollowingSteps, SettlingSteps, ConfirmUnwatched, Zenon
  <2>2. CASE PrepareReactivation
    BY <2>2, Zenon DEF Quiet
  <2> QED BY <1>4, <2>1, <2>2, LeavingSteps, Zenon DEF Reactivate
<1>5. CASE Wake
  <2>1. CASE RequestResume
    BY <2>1, FollowingSteps
  <2>2. CASE WakeGoalChanged \/ WakeActive \/ RecordStart
    BY <2>2, SettlingSteps
  <2>3. CASE ObserveAgain \/ PrepareStart \/ PreparePolicyStart
    BY <2>3, Zenon DEF Quiet
  <2> QED BY <1>5, <2>1, <2>2, <2>3, LeavingSteps, Zenon DEF Wake
<1> QED BY <1>1, <1>2, <1>3, <1>4, <1>5, Zenon DEF Next, Pass, Quiet

LEMMA TypeInit == Init => TypeInv
<1> SUFFICES ASSUME Init PROVE TypeInv
  OBVIOUS
<1>1. disk \in States /\ mem \in States
  <2>1. NoRecord \in DirectRecords
    BY DEF NoRecord, DirectRecords
  <2> QED BY <2>1 DEF Init, States
<1>2. [active |-> FALSE, turns |-> <<>>] \in ThreadStates
  BY DEF ThreadStates
<1>3. thread \in [Threads -> ThreadStates]
  <2>1. PICK kind \in [Threads -> EndKinds] :
          thread = [t \in Threads |-> [active |-> FALSE, turns |-> <<kind[t]>>]]
    BY DEF Init
  <2>2. ASSUME NEW k \in EndKinds
        PROVE  [active |-> FALSE, turns |-> <<k>>] \in ThreadStates
    <3>1. <<k>> \in Seq(Kinds)
      BY DEF Kinds
    <3> QED BY <3>1 DEF ThreadStates
  <2> QED BY <2>1, <2>2
<1>4. VisitType
  BY <1>2 DEF Init, VisitType, PassPoints, VisitPoints, Stages
<1>5. WorldType
  BY <1>3 DEF Init, WorldType, GoalStates
<1>6. CountType
  <2>1. wakes \in [Threads -> Seq(Nat)]
    BY DEF Init
  <2> QED BY <2>1, DesktopAssumption DEF Init, CountType
<1> QED BY <1>1, <1>4, <1>5, <1>6 DEF TypeInv, StateType

LEMMA TypeStep == TypeInv /\ [Next]_vars => TypeInv'
<1> SUFFICES ASSUME TypeInv, [Next]_vars PROVE TypeInv'
  OBVIOUS
<1>1. CASE UNCHANGED vars
  <2>1. UNCHANGED <<config, disk, mem, pc, todo, cur, stage, view, evidence,
                    retry, startedId, thread, goal, runtime, failures,
                    disturbances, faults, asked, wakes, policyRun, lost, moved>>
    BY <1>1, Zenon DEF vars, passVars, visitVars, serverVars, boundVars,
       ghostVars
  <2> QED BY <2>1 DEF TypeInv, StateType, VisitType, WorldType, CountType
<1>2. CASE Quiet
  BY <1>2, QuietType DEF Quiet
<1> QED BY <1>1, <1>2, StepClasses, LeavesType, FollowsType, SettlesType,
        ReactivateType, ResumeType, StartType, StartLostType, CrashType, Zenon
        DEF WorldShape

\* Every variable keeps its type for every set of threads and configuration:
\* what a pass saves is a state, a turn id it records is one, and no more starts
\* are lost than there are faults (engine.py:1176-1779, state.py:180-296).
THEOREM TypeCorrect == Spec => []TypeOK
<1>1. TypeInv => TypeOK
  <2> SUFFICES ASSUME TypeInv PROVE TypeOK
    OBVIOUS
  <2>1. /\ {disk.requests, mem.requests} \subseteq SUBSET Threads
        /\ \A t \in Threads :
             {disk.direct[t], mem.direct[t]} \subseteq DirectRecords
    BY DEF TypeInv, StateType, States
  <2>2. lost \in [Threads -> 0 .. MaxFaults]
    BY DesktopAssumption DEF TypeInv, CountType
  <2>3. pc \in {"idle", "visits", "thread", "goal", "set", "confirm", "resume",
                "start", "started"}
    BY DEF TypeInv, VisitType, PassPoints, VisitPoints
  <2> QED BY <2>1, <2>2, <2>3 DEF TypeInv, VisitType, WorldType, CountType,
             TypeOK
<1> QED BY <1>1, TypeInit, TypeStep, PTL DEF Spec

-----------------------------------------------------------------------------
(* The residual window.                                                    *)

\* Until moved is set, nothing has begun on the thread since its last read; a
\* Goal about to be set is one that may be, and stays so, since no turn runs
\* that could change it.
WindowInv ==
    /\ pc \in {"goal", "set", "start"} /\ ~moved =>
         CameToRest(view, thread[cur])
    /\ pc = "set" => ~HasInProgress(view.turns)
    /\ pc = "set" /\ ~moved => goal[cur] \in RecoverableGoals
    /\ pc = "start" => ~view.active

LEMMA RecoverableNotActive == "active" \notin RecoverableGoals
  BY DEF RecoverableGoals

LEMMA WindowInit == Init => WindowInv
  BY DEF Init, WindowInv

LEMMA OutsideWindow ==
    ASSUME pc' \notin {"goal", "set", "start"}
    PROVE  WindowInv'
  BY DEF WindowInv

LEMMA WindowWorld == ASSUME TypeInv, WindowInv, WorldShape PROVE WindowInv'
<1>1. pc' = pc /\ cur' = cur /\ view' = view /\ config' = config
  BY Zenon DEF WorldShape
<1>2. CASE pc \notin {"goal", "set", "start"}
  BY <1>1, <1>2, OutsideWindow
<1>3. CASE pc \in {"goal", "set", "start"}
  <2>1. cur \in Threads
    BY <1>3 DEF TypeInv, VisitType, VisitPoints
  <2>2. CASE moved'
    BY <1>1, <2>2 DEF WindowInv
  <2>3. CASE ~moved'
    <3>1. /\ ~moved
          /\ CameToRest(thread[cur], thread'[cur])
          /\ \/ goal'[cur] = goal[cur]
             \/ goal[cur] = "active"
             \/ HasInProgress(thread[cur].turns)
      BY <2>1, <2>3, Zenon DEF WorldShape, Relied
    <3>2. CameToRest(view, thread[cur])
      BY <1>3, <3>1, Zenon DEF WindowInv
    <3>3. CameToRest(view, thread'[cur])
      BY <3>1, <3>2, Zenon DEF CameToRest
    <3>4. pc = "set" => goal'[cur] \in RecoverableGoals
      <4> SUFFICES ASSUME pc = "set" PROVE goal'[cur] \in RecoverableGoals
        OBVIOUS
      <4>1. goal[cur] \in RecoverableGoals /\ ~HasInProgress(view.turns)
        BY <3>1, Zenon DEF WindowInv
      <4>2. goal[cur] # "active" /\ ~HasInProgress(thread[cur].turns)
        BY <3>2, <4>1, RecoverableNotActive, Zenon DEF CameToRest
      <4> QED BY <3>1, <4>1, <4>2, Zenon
    <3>5. RecoverableGoals' = RecoverableGoals
      BY <1>1 DEF RecoverableGoals
    <3>6. /\ pc = "set" => ~HasInProgress(view.turns)
          /\ pc = "start" => ~view.active
      BY Zenon DEF WindowInv
    <3> QED BY <1>1, <3>3, <3>4, <3>5, <3>6, Zenon DEF WindowInv
  <2> QED BY <2>2, <2>3
<1> QED BY <1>2, <1>3

LEMMA WindowStep ==
    TypeInv /\ WindowInv /\ [Next]_vars => WindowInv'
<1> SUFFICES ASSUME TypeInv, WindowInv, [Next]_vars PROVE WindowInv'
  OBVIOUS
<1>1. CASE UNCHANGED vars
  <2>1. UNCHANGED <<config, pc, cur, view, thread, goal, moved>>
    BY <1>1, Zenon DEF vars, passVars, visitVars, serverVars
  <2> QED BY <2>1 DEF WindowInv, RecoverableGoals
<1>2. CASE \/ Leaves \/ Settles \/ Follows \/ ReactivateGoal \/ ResumeThread
           \/ StartTurn \/ StartReplyLost \/ Crash
  <2>1. pc' \notin {"goal", "set", "start"}
    BY <1>2 DEF Leaves, Settles, Follows, ReactivateGoal, ResumeThread,
       ReadNext, StartTurn, StartReplyLost, Crash, EndVisit
  <2> QED BY <2>1, OutsideWindow
<1>3. CASE Quiet
  <2>1. CASE \/ BeginPass \/ EndPass \/ ReadAgain \/ ObserveAgain
             \/ \E t \in Threads : Visit(t)
    <3>1. pc' \notin {"goal", "set", "start"}
      BY <2>1 DEF BeginPass, EndPass, ReadAgain, ObserveAgain, ReadNext, Visit
    <3> QED BY <3>1, OutsideWindow
  <2>2. CASE ReadThread
    <3>1. pc' = "goal" /\ cur' = cur /\ view' = thread[cur]
          /\ thread' = thread
      BY <2>2, Zenon DEF ReadThread, world, serverVars
    <3>2. CameToRest(view', thread'[cur'])
      BY <3>1, Zenon DEF CameToRest
    <3> QED BY <3>1, <3>2 DEF WindowInv
  <2>3. CASE PrepareReactivation
    <3>1. /\ pc = "goal" /\ pc' = "set"
          /\ UNCHANGED <<cur, view, moved, thread, goal, config>>
          /\ Verdict(cur, view, goal[cur], Pending) \in {"eligible", "policy"}
      BY <2>3, Zenon DEF PrepareReactivation, Judged, At, DecisionFrame, world,
         serverVars
    <3>2. goal[cur] \in RecoverableGoals /\ ~HasInProgress(view.turns)
      BY <3>1 DEF Verdict
    <3>3. ~moved => CameToRest(view, thread[cur])
      BY <3>1, Zenon DEF WindowInv
    <3>4. RecoverableGoals' = RecoverableGoals
      BY <3>1 DEF RecoverableGoals
    <3> QED BY <3>1, <3>2, <3>3, <3>4 DEF WindowInv
  <2>4. CASE PrepareStart \/ PreparePolicyStart
    <3>1. /\ pc = "goal" /\ pc' = "start" /\ ~view.active
          /\ UNCHANGED <<cur, view, moved, thread>>
      BY <2>4, Zenon DEF PrepareStart, PreparePolicyStart, WakeGoesOn, Waking,
         At, DecisionFrame, world, serverVars, visitVars
    <3>2. ~moved => CameToRest(view, thread[cur])
      BY <3>1, Zenon DEF WindowInv
    <3> QED BY <3>1, <3>2 DEF WindowInv
  <2> QED BY <1>3, <2>1, <2>2, <2>3, <2>4, Zenon DEF Quiet
<1> QED BY <1>1, <1>2, <1>3, StepClasses, WindowWorld, Zenon

\* The steps that start a turn or set a Goal.
LEMMA StartsFromStart ==
    ASSUME TypeInv, Next, wakes' # wakes
    PROVE  pc = "start"
<1>1. CASE Quiet
  BY <1>1, QuietType, Zenon DEF Quiet, ghostVars
<1>2. CASE \/ Leaves \/ Follows \/ Settles \/ ReactivateGoal \/ ResumeThread
           \/ Crash \/ WorldShape
  <2>1. wakes' = wakes
    BY <1>2, Zenon DEF Leaves, Follows, Settles, ReactivateGoal, ResumeThread,
       Crash, WorldShape, DecisionFrame, ghostVars
  <2> QED BY <2>1
<1> QED BY <1>1, <1>2, StepClasses, Zenon DEF StartTurn, StartReplyLost

\* Guardian overrides a Goal, or starts a turn over a running one, only when the
\* user or another client acted after its last read of the thread, for every set
\* of threads and configuration: no call between the read and the change, however
\* long it takes, widens the window (engine.py:1369-1779).
THEOREM ChangesAreResidual == Spec => ChangesOnlyInResidualWindow
<1>1. TypeInv /\ WindowInv /\ [Next]_vars =>
        [/\ pc = "set" /\ pc' = "confirm" =>
              goal[cur] \in RecoverableGoals \/ moved
         /\ wakes' # wakes => ~thread[cur].active \/ moved]_vars
  <2> SUFFICES ASSUME TypeInv, WindowInv, Next
               PROVE  /\ pc = "set" => goal[cur] \in RecoverableGoals \/ moved
                      /\ wakes' # wakes => ~thread[cur].active \/ moved
    BY Zenon
  <2>1. pc = "set" => goal[cur] \in RecoverableGoals \/ moved
    BY Zenon DEF WindowInv
  <2>2. pc = "start" => ~thread[cur].active \/ moved
    BY Zenon DEF WindowInv, CameToRest
  <2> QED BY <2>1, <2>2, StartsFromStart, Zenon
<1> QED BY <1>1, TypeInit, TypeStep, WindowInit, WindowStep, PTL
        DEF Spec, ChangesOnlyInResidualWindow

-----------------------------------------------------------------------------
(* How often a thread has been started for the same evidence. *)

Places(w, e) == {i \in DOMAIN w : w[i] = e}
Times(w, e) == Cardinality(Places(w, e))

LEMMA PlacesFinite ==
    ASSUME NEW w \in Seq(Nat), NEW e
    PROVE  IsFiniteSet(Places(w, e)) /\ Times(w, e) \in Nat
<1>1. Places(w, e) \subseteq 1 .. Len(w)
  BY DEF Places
<1>2. IsFiniteSet(1 .. Len(w))
  BY FS_Interval
<1>3. IsFiniteSet(Places(w, e))
  BY <1>1, <1>2, FS_Subset
<1> QED BY <1>3, FS_CardinalityType DEF Times

LEMMA AppendTimes ==
    ASSUME NEW w \in Seq(Nat), NEW e \in Nat, NEW d \in Nat
    PROVE  Times(Append(w, e), d) = Times(w, d) + (IF d = e THEN 1 ELSE 0)
<1>1. /\ DOMAIN Append(w, e) = 1 .. Len(w) + 1
      /\ DOMAIN w = 1 .. Len(w)
      /\ \A i \in 1 .. Len(w) : Append(w, e)[i] = w[i]
      /\ Append(w, e)[Len(w) + 1] = e
      /\ Len(w) \in Nat
  OBVIOUS
<1>2. IsFiniteSet(Places(w, d)) /\ Times(w, d) \in Nat
  BY PlacesFinite
<1>3. CASE d = e
  <2>1. Places(Append(w, e), d) = Places(w, d) \cup {Len(w) + 1}
    BY <1>1, <1>3 DEF Places
  <2>2. Len(w) + 1 \notin Places(w, d)
    BY <1>1 DEF Places
  <2>3. Cardinality(Places(w, d) \cup {Len(w) + 1}) = Cardinality(Places(w, d)) + 1
    BY <1>2, <2>2, FS_AddElement
  <2> QED BY <1>3, <2>1, <2>3 DEF Times
<1>4. CASE d # e
  <2>1. Places(Append(w, e), d) = Places(w, d)
    BY <1>1, <1>4 DEF Places
  <2> QED BY <1>2, <1>4, <2>1 DEF Times
<1> QED BY <1>3, <1>4

LEMMA NoTimes ==
    ASSUME NEW w \in Seq(Nat), NEW e \in Nat, \A i \in DOMAIN w : w[i] # e
    PROVE  Times(w, e) = 0
<1>1. Places(w, e) = {}
  BY DEF Places
<1> QED BY <1>1, FS_EmptySet DEF Times

-----------------------------------------------------------------------------
(* What makes OneStartPerEvidence inductive.  A record names the latest     *)
(* evidence: turns were started for it and for earlier ones only, and a     *)
(* start adds a turn after its evidence.  While the record waits for a      *)
(* wake, every start for it has been lost: what is lost is counted, and     *)
(* what is not ends the wait, but for the moment before the start is saved. *)

\* Of the record r of a thread with n turns, the starts w for it and the number
\* l of lost ones; open if a start is about to be recorded.
Accounted(r, w, l, n, open) ==
    /\ r.turn_id <= n
    /\ \A i \in DOMAIN w : w[i] <= r.turn_id /\ w[i] < n
    /\ \A e \in Nat : Times(w, e) <= 1 + l
    /\ r.action \in PendingWakeActions /\ ~open => Times(w, r.turn_id) <= l

AccountInv ==
    \A t \in Threads :
        Accounted(disk.direct[t], wakes[t], lost[t], Len(thread[t].turns),
                  pc = "started" /\ cur = t)

\* Evidence of the visit that may be followed up.
Followable(e) ==
    /\ Times(wakes[cur], e) <= lost[cur]
    /\ disk.direct[cur].turn_id <= e
    /\ e <= Len(thread[cur].turns)

VisitInv ==
    /\ pc = "goal" =>
         /\ \A i \in DOMAIN wakes[cur] : wakes[cur][i] < Len(view.turns)
         /\ disk.direct[cur].turn_id <= Len(view.turns)
         /\ Len(view.turns) <= Len(thread[cur].turns)
    /\ pc \in {"set", "confirm"} => stage = "fresh" /\ Followable(evidence)
    /\ stage \in WakeStages =>
         /\ pc \in {"thread", "goal", "resume", "start", "started"}
         /\ disk.direct[cur].turn_id = evidence
         /\ disk.direct[cur].action \in PendingWakeActions
    /\ pc \in {"resume", "start", "started"} => stage \in WakeStages

StartInv == AccountInv /\ VisitInv

LEMMA AccountTypes ==
    ASSUME TypeInv, NEW t \in Threads
    PROVE  /\ disk.direct[t] \in DirectRecords
           /\ disk.direct[t].turn_id \in Nat
           /\ wakes[t] \in Seq(Nat)
           /\ lost[t] \in Nat
           /\ Len(thread[t].turns) \in Nat
           /\ \A i \in DOMAIN wakes[t] : wakes[t][i] \in Nat
           /\ \A e \in Nat : Times(wakes[t], e) \in Nat
<1>1. disk.direct[t] \in DirectRecords
  BY DEF TypeInv, StateType, States
<1>2. wakes[t] \in Seq(Nat) /\ lost[t] \in Nat
  BY DEF TypeInv, CountType
<1>3. Len(thread[t].turns) \in Nat
  BY DEF TypeInv, WorldType, ThreadStates
<1> QED BY <1>1, <1>2, <1>3, PlacesFinite DEF DirectRecords

\* Evidence judged on what the visit has read is fit to be followed up: it is
\* the one the record waits for, or a turn that came after every start.
LEMMA CandidateFollowable ==
    ASSUME TypeInv, StartInv, RequestInv, pc = "goal",
           NEW v \in {view, thread[cur]}
    PROVE  Followable(Candidate(v.turns, Pending))
<1> DEFINE e == Candidate(v.turns, Pending)
           r == disk.direct[cur]
<1>1. cur \in Threads /\ mem = disk
  BY DEF TypeInv, VisitType, VisitPoints, RequestInv
<1>2. /\ Pending \in Nat
      /\ Pending # 0 => r.action \in PendingWakeActions /\ Pending = r.turn_id
  BY <1>1, PendingIs DEF Pending, TypeInv, StateType
<1>3. v.turns \in Seq(Kinds)
  BY <1>1 DEF TypeInv, VisitType, WorldType, ThreadStates
<1>4. \/ e = Pending /\ Pending # 0
      \/ e = Len(v.turns)
  BY <1>2, <1>3, CandidateIs
<1>5. /\ \A i \in DOMAIN wakes[cur] : wakes[cur][i] < Len(v.turns)
      /\ r.turn_id <= Len(v.turns)
      /\ Len(v.turns) <= Len(thread[cur].turns)
  <2>1. CASE v = view
    BY <2>1 DEF StartInv, VisitInv
  <2>2. CASE v = thread[cur]
    <3>1. Accounted(r, wakes[cur], lost[cur], Len(thread[cur].turns), FALSE)
      BY <1>1 DEF StartInv, AccountInv, Accounted
    <3> QED BY <1>1, <2>2, <3>1, AccountTypes DEF Accounted
  <2> QED BY <2>1, <2>2
<1>6. CASE e = Pending /\ Pending # 0
  <2>1. Times(wakes[cur], r.turn_id) <= lost[cur] /\ r.turn_id <= Len(thread[cur].turns)
    BY <1>1, <1>2, <1>6 DEF StartInv, AccountInv, Accounted
  <2>2. r.turn_id \in Nat
    BY <1>1, AccountTypes
  <2> HIDE DEF r
  <2> QED BY <1>2, <1>6, <2>1, <2>2 DEF Followable, r
<1>7. CASE e = Len(v.turns)
  <2>1. /\ wakes[cur] \in Seq(Nat) /\ lost[cur] \in Nat
        /\ Len(v.turns) \in Nat
        /\ \A i \in DOMAIN wakes[cur] : wakes[cur][i] \in Nat
    <3>1. Len(v.turns) \in Nat
      BY <1>3
    <3> HIDE DEF e, r
    <3> QED BY <1>1, <3>1, AccountTypes
  <2>2. Times(wakes[cur], Len(v.turns)) = 0
    BY <1>5, <2>1, NoTimes
  <2> QED BY <1>5, <1>7, <2>1, <2>2 DEF Followable
<1> QED BY <1>4, <1>6, <1>7

-----------------------------------------------------------------------------
(* The account of one thread, step by step. *)

\* The thread is given turns of others.
LEMMA AccountGrows ==
    ASSUME NEW r, r.turn_id \in Nat, NEW w \in Seq(Nat), NEW l \in Nat,
           NEW n \in Nat, NEW m \in Nat, NEW open \in BOOLEAN,
           NEW later \in BOOLEAN,
           Accounted(r, w, l, n, open), n <= m, open => later
    PROVE  Accounted(r, w, l, m, later)
<1>1. \A i \in DOMAIN w : w[i] \in Nat
  OBVIOUS
<1> QED BY <1>1 DEF Accounted

\* A record is written: for evidence to follow up, or as done with.
LEMMA AccountMarked ==
    ASSUME NEW r, r.turn_id \in Nat, NEW w \in Seq(Nat), NEW l \in Nat,
           NEW n \in Nat, NEW open \in BOOLEAN, NEW later \in BOOLEAN,
           Accounted(r, w, l, n, open),
           NEW s, s.turn_id \in Nat,
           r.turn_id <= s.turn_id, s.turn_id <= n,
           s.action \in PendingWakeActions => Times(w, s.turn_id) <= l
    PROVE  Accounted(s, w, l, n, later)
<1>1. \A i \in DOMAIN w : w[i] \in Nat
  OBVIOUS
<1> QED BY <1>1 DEF Accounted

\* A turn is started for what the record names.
LEMMA AccountStarted ==
    ASSUME NEW r, r.turn_id \in Nat, NEW w \in Seq(Nat), NEW l \in Nat,
           NEW n \in Nat,
           Accounted(r, w, l, n, FALSE), r.action \in PendingWakeActions
    PROVE  /\ Accounted(r, Append(w, r.turn_id), l, n + 1, TRUE)
           /\ Accounted(r, Append(w, r.turn_id), l + 1, n + 1, FALSE)
<1> DEFINE e == r.turn_id
           v == Append(w, e)
<1>1. /\ \A i \in DOMAIN v : v[i] \in {w[j] : j \in DOMAIN w} \cup {e}
      /\ \A i \in DOMAIN w : w[i] \in Nat
  OBVIOUS
<1>2. \A d \in Nat : /\ Times(w, d) \in Nat
                     /\ Times(v, d) = Times(w, d) + (IF d = e THEN 1 ELSE 0)
  BY PlacesFinite, AppendTimes
<1>3. /\ e <= n
      /\ \A i \in DOMAIN w : w[i] <= e /\ w[i] < n
      /\ \A d \in Nat : Times(w, d) <= 1 + l
      /\ Times(w, e) <= l
  BY DEF Accounted
<1>4. \A i \in DOMAIN v : v[i] <= e /\ v[i] < n + 1
  <2> HIDE DEF v, e
  <2>1. e \in Nat
    BY DEF e
  <2> QED BY <1>1, <1>3, <2>1
<1>5. \A d \in Nat : Times(v, d) <= 1 + l
  <2> SUFFICES ASSUME NEW d \in Nat PROVE Times(v, d) <= 1 + l
    OBVIOUS
  <2> HIDE DEF v, e
  <2>1. CASE d = e
    <3>1. Times(v, d) = Times(w, d) + 1 /\ Times(w, d) \in Nat
      BY <1>2, <2>1
    <3>2. Times(w, d) <= l
      BY <1>3, <2>1
    <3> QED BY <3>1, <3>2
  <2>2. CASE d # e
    <3>1. Times(v, d) = Times(w, d)
      BY <1>2, <2>2
    <3> QED BY <1>3, <3>1
  <2> QED BY <2>1, <2>2
<1>6. Times(v, e) <= l + 1 /\ e <= n + 1
  BY <1>3, <1>5
<1>7. \A d \in Nat : Times(v, d) <= 1 + (l + 1)
  <2>1. \A d \in Nat : Times(v, d) \in Nat
    <3>1. v \in Seq(Nat)
      OBVIOUS
    <3> HIDE DEF v
    <3> QED BY <3>1, PlacesFinite
  <2> HIDE DEF v
  <2> QED BY <1>5, <2>1
<1> QED
  <2> HIDE DEF v
  <2> QED BY <1>4, <1>5, <1>6, <1>7 DEF Accounted, v

\* The pass dies before the start is recorded.
LEMMA AccountLost ==
    ASSUME NEW r, r.turn_id \in Nat, NEW w \in Seq(Nat), NEW l \in Nat,
           NEW n \in Nat, NEW open \in BOOLEAN, Accounted(r, w, l, n, open)
    PROVE  Accounted(r, w, l + 1, n, FALSE)
<1>1. \A e \in Nat : Times(w, e) \in Nat
  BY PlacesFinite
<1>2. /\ r.turn_id <= n
      /\ \A i \in DOMAIN w : w[i] <= r.turn_id /\ w[i] < n
  BY Zenon DEF Accounted
<1>3. ASSUME NEW e \in Nat
      PROVE  Times(w, e) <= l + 1 /\ Times(w, e) <= 1 + (l + 1)
  <2>1. Times(w, e) <= 1 + l
    BY Zenon DEF Accounted
  <2>2. Times(w, e) \in Nat
    BY <1>1, Zenon
  <2> QED BY <2>1, <2>2
<1> QED BY <1>2, <1>3, Zenon DEF Accounted

-----------------------------------------------------------------------------
\* A step without a start, a loss or a record.
LEMMA AccountKept ==
    ASSUME TypeInv, TypeInv', AccountInv, disk'.direct = disk.direct,
           UNCHANGED <<wakes, lost>>,
           \A t \in Threads : Len(thread'[t].turns) >= Len(thread[t].turns),
           pc # "started" \/ UNCHANGED <<pc, cur>>
    PROVE  AccountInv'
<1> SUFFICES ASSUME NEW t \in Threads
             PROVE  Accounted(disk'.direct[t], wakes'[t], lost'[t],
                              Len(thread'[t].turns),
                              pc' = "started" /\ cur' = t)
  BY DEF AccountInv
<1>1. Accounted(disk.direct[t], wakes[t], lost[t], Len(thread[t].turns),
                pc = "started" /\ cur = t)
  BY DEF AccountInv
<1>2. /\ disk.direct[t].turn_id \in Nat
      /\ wakes[t] \in Seq(Nat)
      /\ lost[t] \in Nat
      /\ Len(thread[t].turns) \in Nat
  BY AccountTypes
<1>3. Len(thread'[t].turns) \in Nat
  BY DEF TypeInv, WorldType, ThreadStates
<1>4. Accounted(disk.direct[t], wakes[t], lost[t], Len(thread'[t].turns),
                pc' = "started" /\ cur' = t)
  <2>1. (pc = "started" /\ cur = t) => (pc' = "started" /\ cur' = t)
    OBVIOUS
  <2>2. Len(thread[t].turns) <= Len(thread'[t].turns)
    BY <1>2, <1>3
  <2> QED BY <1>1, <1>2, <1>3, <2>1, <2>2, AccountGrows
<1> QED BY <1>4

\* A step that saves a record of the thread visited.
LEMMA AccountSaved ==
    ASSUME TypeInv, TypeInv', AccountInv, cur \in Threads,
           \A u \in Threads : u # cur => disk'.direct[u] = disk.direct[u],
           disk.direct[cur].turn_id <= disk'.direct[cur].turn_id,
           disk'.direct[cur].turn_id <= Len(thread[cur].turns),
           disk'.direct[cur].action \in PendingWakeActions =>
              Times(wakes[cur], disk'.direct[cur].turn_id) <= lost[cur],
           UNCHANGED <<wakes, lost, thread>>, pc' # "started"
    PROVE  AccountInv'
<1> SUFFICES ASSUME NEW t \in Threads
             PROVE  Accounted(disk'.direct[t], wakes[t], lost[t],
                              Len(thread[t].turns), FALSE)
  BY DEF AccountInv
<1>1. Accounted(disk.direct[t], wakes[t], lost[t], Len(thread[t].turns),
                pc = "started" /\ cur = t)
  BY DEF AccountInv
<1>2. /\ disk.direct[t].turn_id \in Nat
      /\ wakes[t] \in Seq(Nat)
      /\ lost[t] \in Nat
      /\ Len(thread[t].turns) \in Nat
  BY AccountTypes
<1>3. CASE t = cur
  <2>1. disk'.direct[t].turn_id \in Nat
    <3>1. disk'.direct[t] \in DirectRecords
      BY DEF TypeInv, StateType, States
    <3> QED BY <3>1 DEF DirectRecords
  <2> QED BY <1>1, <1>2, <1>3, <2>1, AccountMarked
<1>4. CASE t # cur
  <2>1. (pc = "started" /\ cur = t) = FALSE
    BY <1>4
  <2>2. disk'.direct[t] = disk.direct[t]
    BY <1>4
  <2> QED BY <1>1, <2>1, <2>2
<1> QED BY <1>3, <1>4

LEMMA FollowableKept ==
    ASSUME TypeInv, TypeInv', cur \in Threads, Followable(evidence),
           disk'.direct = disk.direct,
           UNCHANGED <<wakes, lost, cur, evidence>>,
           \A u \in Threads : Len(thread'[u].turns) >= Len(thread[u].turns)
    PROVE  Followable(evidence)'
<1>1. /\ evidence \in Nat
      /\ Len(thread[cur].turns) \in Nat
      /\ Len(thread'[cur].turns) \in Nat
      /\ Len(thread[cur].turns) <= Len(thread'[cur].turns)
  BY DEF TypeInv, VisitType, WorldType, ThreadStates
<1>2. Followable(evidence)' <=>
        /\ Times(wakes[cur], evidence) <= lost[cur]
        /\ disk.direct[cur].turn_id <= evidence
        /\ evidence <= Len(thread'[cur].turns)
  BY DEF Followable
<1> QED BY <1>1, <1>2 DEF Followable

\* No visit, nothing to hold.
LEMMA NoVisit ==
    ASSUME pc' \in {"idle", "visits"}, stage' = "first"
    PROVE  VisitInv'
  BY DEF VisitInv, WakeStages

LEMMA SameLengths ==
    ASSUME TypeInv, thread' = thread
    PROVE  \A t \in Threads : Len(thread'[t].turns) >= Len(thread[t].turns)
  BY AccountTypes

LEMMA StartInit == Init => StartInv
<1> SUFFICES ASSUME Init PROVE StartInv
  OBVIOUS
<1>1. ASSUME NEW t \in Threads
      PROVE  Accounted(disk.direct[t], wakes[t], lost[t],
                       Len(thread[t].turns), pc = "started" /\ cur = t)
  <2>1. /\ disk.direct[t] = NoRecord /\ wakes[t] = <<>> /\ lost[t] = 0
        /\ Len(thread[t].turns) \in Nat
    BY <1>1, TypeInit, AccountTypes DEF Init
  <2>2. <<>> \in Seq(Nat) /\ DOMAIN <<>> = {}
    OBVIOUS
  <2>3. \A e \in Nat : Times(<<>>, e) = 0
    BY <2>2, NoTimes
  <2> QED BY <2>1, <2>2, <2>3 DEF Accounted, NoRecord, None,
             PendingWakeActions
<1>2. VisitInv
  BY DEF Init, VisitInv, WakeStages
<1> QED BY <1>1, <1>2 DEF StartInv, AccountInv

LEMMA StartLeaves ==
    ASSUME TypeInv, TypeInv', RequestInv, StartInv, Leaves PROVE StartInv'
<1>1. mem = disk /\ pc # "started"
  BY DEF RequestInv, Leaves, VisitPoints
<1>2. /\ UNCHANGED <<wakes, lost, thread>>
      /\ pc' = "visits" /\ stage' = "first"
      /\ disk' = disk \/ Save(Finished(mem, cur))
  BY Zenon DEF Leaves, EndVisit, ClearVisit, serverVars
<1>3. disk'.direct = disk.direct
  <2>1. Finished(disk, cur).direct = disk.direct
    BY FinishedType DEF TypeInv, StateType
  <2> QED BY <1>1, <1>2, <2>1 DEF Save
<1>4. AccountInv'
  BY <1>1, <1>2, <1>3, SameLengths, AccountKept DEF StartInv
<1> QED BY <1>2, <1>4, NoVisit DEF StartInv

LEMMA StartFollows ==
    ASSUME TypeInv, TypeInv', RequestInv, StartInv, Follows PROVE StartInv'
<1>1. /\ pc \in {"goal", "confirm"} /\ pc' \in {"thread", "resume"}
      /\ stage' \in WakeStages
      /\ UNCHANGED <<cur, thread, wakes, lost>>
  BY DEF Follows, DecisionFrame, world, serverVars, WakeStages
<1>2. cur \in Threads /\ mem = disk /\ evidence' \in Nat
  BY <1>1 DEF RequestInv, TypeInv, VisitType, VisitPoints
<1>3. PICK action \in PendingWakeActions : SavesRecord(evidence', action, 0)
  BY Zenon DEF Follows
<1>4. action \in DirectActions /\ 0 \in Nat
  BY <1>3 DEF DirectActions
<1>5. /\ disk'.direct[cur].turn_id = evidence'
      /\ disk'.direct[cur].action \in PendingWakeActions
      /\ \A u \in Threads : u # cur => disk'.direct[u] = disk.direct[u]
  <2>1. /\ disk'.direct[cur] = [turn_id |-> evidence', action |-> action,
                                recovery_turn_id |-> 0]
        /\ \A u \in Threads : u # cur => disk'.direct[u] = mem.direct[u]
    BY <1>2, <1>3, <1>4, SavedRecord DEF TypeInv
  <2> QED BY <1>2, <1>3, <2>1
<1>6. /\ Times(wakes[cur], evidence') <= lost[cur]
      /\ disk.direct[cur].turn_id <= evidence'
      /\ evidence' <= Len(thread[cur].turns)
  <2>1. CASE pc = "goal" /\ stage = "first" /\ evidence' = WakeEvidence
             /\ WakeEvidence # 0
    <3>1. evidence' = Candidate(thread[cur].turns, Pending)
      BY <1>2, <2>1, WakeEvidenceIs DEF TypeInv
    <3>2. Followable(Candidate(thread[cur].turns, Pending))
      BY <2>1, CandidateFollowable
    <3> QED BY <3>1, <3>2 DEF Followable
  <2>2. CASE pc = "goal" /\ stage = "before" /\ evidence' = evidence
    <3>1. /\ disk.direct[cur].turn_id = evidence
          /\ disk.direct[cur].action \in PendingWakeActions
      BY <2>2 DEF StartInv, VisitInv, WakeStages
    <3>2. Accounted(disk.direct[cur], wakes[cur], lost[cur],
                    Len(thread[cur].turns), FALSE)
      BY <1>2, <2>2 DEF StartInv, AccountInv, Accounted
    <3>3. evidence \in Nat
      BY DEF TypeInv, VisitType
    <3> QED BY <2>2, <3>1, <3>2, <3>3 DEF Accounted
  <2>3. CASE pc = "confirm" /\ evidence' = evidence
    <3>1. Followable(evidence)
      BY <2>3 DEF StartInv, VisitInv
    <3> QED BY <2>3, <3>1 DEF Followable
  <2> QED BY <2>1, <2>2, <2>3, Zenon DEF Follows
<1>7. AccountInv'
  BY <1>1, <1>2, <1>5, <1>6, AccountSaved DEF StartInv
<1>8. VisitInv'
  BY <1>1, <1>5 DEF VisitInv
<1> QED BY <1>7, <1>8 DEF StartInv

LEMMA StartSettles ==
    ASSUME TypeInv, TypeInv', RequestInv, StartInv, Settles PROVE StartInv'
<1>1. /\ pc \in {"goal", "started", "confirm"}
      /\ pc' = "visits" /\ stage' = "first"
      /\ UNCHANGED <<thread, wakes, lost>>
  BY DEF Settles, EndVisit, ClearVisit, DecisionFrame, world, serverVars
<1>2. cur \in Threads /\ mem = disk /\ evidence \in Nat
  BY <1>1 DEF RequestInv, TypeInv, VisitType, VisitPoints
<1>3. PICK action \in DirectActions, recovery_id \in Nat :
        /\ SavesRecord(evidence, action, recovery_id)
        /\ pc # "confirm" => action \notin PendingWakeActions
  BY Zenon DEF Settles
<1>4. /\ disk'.direct[cur].turn_id = evidence
      /\ disk'.direct[cur].action = action
      /\ \A u \in Threads : u # cur => disk'.direct[u] = disk.direct[u]
  <2>1. /\ disk'.direct[cur] = [turn_id |-> evidence, action |-> action,
                                recovery_turn_id |-> recovery_id]
        /\ \A u \in Threads : u # cur => disk'.direct[u] = mem.direct[u]
    BY <1>2, <1>3, SavedRecord DEF TypeInv
  <2> QED BY <1>2, <2>1
<1>5. /\ disk.direct[cur].turn_id <= evidence
      /\ evidence <= Len(thread[cur].turns)
      /\ pc = "confirm" => Times(wakes[cur], evidence) <= lost[cur]
  <2>1. CASE pc = "confirm"
    <3>1. Followable(evidence)
      BY <2>1 DEF StartInv, VisitInv
    <3> QED BY <3>1 DEF Followable
  <2>2. CASE pc # "confirm"
    <3>1. stage \in WakeStages
      BY <2>2 DEF Settles, StartInv, VisitInv, WakeStages
    <3>2. disk.direct[cur].turn_id = evidence
      BY <3>1 DEF StartInv, VisitInv
    <3>3. disk.direct[cur].turn_id <= Len(thread[cur].turns)
      BY <1>2 DEF StartInv, AccountInv, Accounted
    <3> QED BY <1>2, <2>2, <3>2, <3>3
  <2> QED BY <2>1, <2>2
<1>6. AccountInv'
  <2>1. disk'.direct[cur].action \in PendingWakeActions =>
          Times(wakes[cur], disk'.direct[cur].turn_id) <= lost[cur]
    BY <1>3, <1>4, <1>5
  <2> QED BY <1>1, <1>2, <1>4, <1>5, <2>1, AccountSaved DEF StartInv
<1> QED BY <1>1, <1>6, NoVisit DEF StartInv

LEMMA StartQuiet ==
    ASSUME TypeInv, TypeInv', RequestInv, StartInv, Quiet PROVE StartInv'
<1>1. UNCHANGED <<disk, thread, wakes, lost>>
  BY QuietType, Zenon DEF Quiet, world, serverVars, ghostVars
<1>2. pc # "started"
  BY DEF Quiet, BeginPass, EndPass, ReadThread, ReadAgain, Fit, Judged, At,
     PrepareReactivation, ObserveAgain, PrepareStart, WakeGoesOn, Waking,
     PreparePolicyStart, Visit
<1>3. AccountInv'
  BY <1>1, <1>2, SameLengths, AccountKept DEF StartInv
<1>4. VisitInv'
  <2>1. CASE BeginPass \/ EndPass
    <3>1. pc' \in {"idle", "visits"} /\ stage' = "first"
      BY <2>1 DEF BeginPass, EndPass, visitVars, TypeInv, VisitType
    <3> QED BY <3>1, NoVisit
  <2>2. ASSUME NEW t \in Threads, Visit(t) PROVE VisitInv'
    <3>1. pc' = "thread" /\ stage' = "first"
      BY <2>2 DEF Visit, TypeInv, VisitType
    <3> QED BY <3>1 DEF VisitInv, WakeStages
  <2>3. CASE ReadThread
    <3>1. /\ pc = "thread" /\ pc' = "goal" /\ view' = thread[cur]
          /\ UNCHANGED <<cur, stage, evidence>>
      BY <2>3, Zenon DEF ReadThread
    <3>2. cur \in Threads
      BY <3>1 DEF TypeInv, VisitType, VisitPoints
    <3>3. /\ \A i \in DOMAIN wakes[cur] :
               wakes[cur][i] < Len(thread[cur].turns)
          /\ disk.direct[cur].turn_id <= Len(thread[cur].turns)
          /\ Len(thread[cur].turns) <= Len(thread[cur].turns)
      BY <3>2, AccountTypes DEF StartInv, AccountInv, Accounted
    <3>4. stage \in WakeStages =>
            /\ disk.direct[cur].turn_id = evidence
            /\ disk.direct[cur].action \in PendingWakeActions
      BY DEF StartInv, VisitInv
    <3> QED BY <1>1, <3>1, <3>3, <3>4 DEF VisitInv
  <2>4. CASE ReadAgain
    <3>1. pc' = "thread" /\ stage' = "fresh"
      BY <2>4 DEF ReadAgain, ReadNext
    <3> QED BY <3>1 DEF VisitInv, WakeStages
  <2>5. CASE PrepareReactivation
    <3>1. /\ pc = "goal" /\ stage = "fresh" /\ pc' = "set"
          /\ UNCHANGED <<cur, stage>>
          /\ evidence' = Candidate(view.turns, Pending)
      BY <2>5, Zenon DEF PrepareReactivation, Judged, At
    <3>2. Followable(Candidate(view.turns, Pending))
      BY <3>1, CandidateFollowable
    <3>3. Followable(evidence)'
      BY <1>1, <3>1, <3>2 DEF Followable
    <3> QED BY <3>1, <3>3 DEF VisitInv, WakeStages
  <2>6. CASE ObserveAgain \/ PrepareStart \/ PreparePolicyStart
    <3>1. /\ pc = "goal" /\ pc' \in {"thread", "start"}
          /\ stage \in WakeStages /\ stage' \in WakeStages
          /\ UNCHANGED <<cur, evidence>>
      BY <2>6 DEF ObserveAgain, PrepareStart, PreparePolicyStart, WakeGoesOn,
         Waking, At, ReadNext, visitVars, WakeStages
    <3>2. /\ disk.direct[cur].turn_id = evidence
          /\ disk.direct[cur].action \in PendingWakeActions
      BY <3>1 DEF StartInv, VisitInv
    <3> QED BY <1>1, <3>1, <3>2 DEF VisitInv
  <2> QED BY <2>1, <2>2, <2>3, <2>4, <2>5, <2>6, Zenon DEF Quiet
<1> QED BY <1>3, <1>4 DEF StartInv

LEMMA StartResumes ==
    ASSUME TypeInv, TypeInv', StartInv, ResumeThread PROVE StartInv'
<1>1. /\ pc = "resume" /\ pc' = "thread" /\ stage' = "observe1"
      /\ UNCHANGED <<disk, cur, evidence, wakes, lost>>
  BY DEF ResumeThread, ReadNext
<1>2. AccountInv'
  BY <1>1, ResumeType, AccountKept DEF StartInv
<1>3. /\ disk.direct[cur].turn_id = evidence
      /\ disk.direct[cur].action \in PendingWakeActions
  BY <1>1 DEF StartInv, VisitInv
<1>4. VisitInv'
  BY <1>1, <1>3 DEF VisitInv, WakeStages
<1> QED BY <1>2, <1>4 DEF StartInv

LEMMA StartReactivates ==
    ASSUME TypeInv, TypeInv', StartInv, ReactivateGoal PROVE StartInv'
<1>1. /\ pc = "set" /\ pc' = "confirm"
      /\ UNCHANGED <<disk, cur, stage, evidence, thread, wakes, lost>>
  BY Zenon DEF ReactivateGoal, visitVars, ghostVars
<1>2. AccountInv'
  BY <1>1, SameLengths, AccountKept DEF StartInv
<1>3. stage = "fresh" /\ Followable(evidence) /\ cur \in Threads
  BY <1>1 DEF StartInv, VisitInv, TypeInv, VisitType, VisitPoints
<1>4. Followable(evidence)'
  BY <1>1, <1>3, SameLengths, FollowableKept
<1>5. VisitInv'
  BY <1>1, <1>3, <1>4 DEF VisitInv, WakeStages
<1> QED BY <1>2, <1>5 DEF StartInv

LEMMA StartWorld ==
    ASSUME TypeInv, StartInv, WorldShape PROVE StartInv'
<1>1. /\ TypeInv'
      /\ disk'.direct = disk.direct
      /\ UNCHANGED <<pc, cur, stage, view, evidence, wakes, lost>>
      /\ \A u \in Threads : Len(thread'[u].turns) >= Len(thread[u].turns)
  BY Zenon DEF WorldShape
<1>2. AccountInv'
  BY <1>1, AccountKept DEF StartInv
<1>3. CASE pc \in {"idle", "visits"}
  BY <1>1, <1>2, <1>3, NoVisit DEF StartInv, TypeInv, VisitType
<1>4. CASE pc \in VisitPoints
  <2>1. cur \in Threads
    BY <1>4 DEF TypeInv, VisitType
  <2>2. pc = "goal" => Len(view.turns) <= Len(thread'[cur].turns)
    <3>1. /\ Len(view.turns) \in Nat /\ Len(thread[cur].turns) \in Nat
          /\ Len(thread'[cur].turns) \in Nat
          /\ Len(thread[cur].turns) <= Len(thread'[cur].turns)
      BY <1>1, <2>1 DEF TypeInv, VisitType, WorldType, ThreadStates
    <3> QED BY <3>1 DEF StartInv, VisitInv
  <2>3. Followable(evidence) => Followable(evidence)'
    BY <1>1, <2>1, FollowableKept
  <2> QED
    <3>1. VisitInv'
      BY <1>1, <2>2, <2>3 DEF StartInv, VisitInv
    <3> QED BY <1>2, <3>1 DEF StartInv
<1> QED BY <1>2, <1>3, <1>4 DEF StartInv, TypeInv, VisitType, PassPoints

LEMMA StartBegins ==
    ASSUME TypeInv, TypeInv', StartInv, StartTurn \/ StartReplyLost
    PROVE  StartInv'
<1> DEFINE e == evidence
           r == disk.direct[cur]
           n == Len(thread[cur].turns)
<1>1. pc = "start" /\ ServerStartsTurn /\ disk' = disk
  BY Zenon DEF StartTurn, StartReplyLost
<1>2. /\ cur \in Threads
      /\ r.turn_id = e /\ r.action \in PendingWakeActions
  BY <1>1 DEF TypeInv, VisitType, VisitPoints, StartInv, VisitInv
<1>3. Accounted(r, wakes[cur], lost[cur], n, FALSE)
  BY <1>1, <1>2 DEF StartInv, AccountInv, Accounted
<1>4. /\ wakes'[cur] = Append(wakes[cur], e)
      /\ Len(thread'[cur].turns) = n + 1
      /\ \A u \in Threads :
           u # cur => wakes'[u] = wakes[u] /\ thread'[u] = thread[u]
  BY <1>1, <1>2, StartedTurnType
<1>5. /\ r.turn_id \in Nat /\ wakes[cur] \in Seq(Nat) /\ lost[cur] \in Nat
      /\ n \in Nat
  BY <1>2, AccountTypes
<1>6. /\ Accounted(r, Append(wakes[cur], e), lost[cur], n + 1, TRUE)
      /\ Accounted(r, Append(wakes[cur], e), lost[cur] + 1, n + 1, FALSE)
  <2> HIDE DEF n, r, e
  <2> QED BY <1>2, <1>3, <1>5, AccountStarted
<1>7. ASSUME NEW t \in Threads, t # cur
      PROVE  Accounted(disk'.direct[t], wakes'[t], lost[t],
                       Len(thread'[t].turns), FALSE)
  <2>1. Accounted(disk.direct[t], wakes[t], lost[t], Len(thread[t].turns),
                  FALSE)
    BY <1>7 DEF StartInv, AccountInv, Accounted
  <2> QED BY <1>1, <1>4, <1>7, <2>1
<1>8. CASE StartTurn
  <2>1. /\ pc' = "started" /\ UNCHANGED <<cur, stage, evidence, lost>>
    BY <1>8, Zenon DEF StartTurn
  <2>2. Accounted(disk'.direct[cur], wakes'[cur], lost'[cur],
                  Len(thread'[cur].turns), TRUE)
    BY <1>1, <1>4, <1>6, <2>1
  <2>3. AccountInv'
    <3> SUFFICES ASSUME NEW t \in Threads
                 PROVE  Accounted(disk'.direct[t], wakes'[t], lost'[t],
                                  Len(thread'[t].turns),
                                  pc' = "started" /\ cur' = t)
      BY DEF AccountInv
    <3>1. CASE t = cur
      <4>1. (pc' = "started" /\ cur' = t) = TRUE
        BY <2>1, <3>1
      <4> QED BY <2>2, <3>1, <4>1
    <3>2. CASE t # cur
      <4>1. (pc' = "started" /\ cur' = t) = FALSE
        BY <2>1, <3>2
      <4> QED BY <1>7, <2>1, <3>2, <4>1
    <3> QED BY <3>1, <3>2
  <2>4. VisitInv'
    <3>1. stage \in WakeStages
      BY <1>1 DEF StartInv, VisitInv
    <3> QED BY <1>1, <1>2, <2>1, <3>1 DEF VisitInv
  <2> QED BY <2>3, <2>4 DEF StartInv
<1>9. CASE StartReplyLost
  <2>1. /\ pc' = "visits" /\ stage' = "first"
        /\ lost' = [lost EXCEPT ![cur] = @ + 1]
    BY <1>9, Zenon DEF StartReplyLost, EndVisit, ClearVisit
  <2>2. /\ lost'[cur] = lost[cur] + 1
        /\ \A u \in Threads : u # cur => lost'[u] = lost[u]
    BY <1>2, <2>1 DEF TypeInv, CountType
  <2>3. AccountInv'
    <3> SUFFICES ASSUME NEW t \in Threads
                 PROVE  Accounted(disk'.direct[t], wakes'[t], lost'[t],
                                  Len(thread'[t].turns), FALSE)
      BY <2>1 DEF AccountInv
    <3>1. CASE t = cur
      BY <1>1, <1>4, <1>6, <2>2, <3>1
    <3>2. CASE t # cur
      BY <1>7, <2>2, <3>2
    <3> QED BY <3>1, <3>2
  <2> QED BY <2>1, <2>3, NoVisit DEF StartInv
<1> QED BY <1>8, <1>9

LEMMA StartCrash ==
    ASSUME TypeInv, TypeInv', StartInv, Crash PROVE StartInv'
<1>1. /\ pc' = "idle" /\ stage' = "first"
      /\ lost' = IF pc = "started" THEN [lost EXCEPT ![cur] = @ + 1] ELSE lost
      /\ UNCHANGED <<disk, thread, wakes>>
  BY Zenon DEF Crash, ClearVisit, serverVars
<1>2. CASE pc # "started"
  <2>1. AccountInv'
    BY <1>1, <1>2, SameLengths, AccountKept DEF StartInv
  <2> QED BY <1>1, <2>1, NoVisit DEF StartInv
<1>3. CASE pc = "started"
  <2>1. cur \in Threads
    BY <1>3 DEF TypeInv, VisitType, VisitPoints
  <2>2. /\ lost'[cur] = lost[cur] + 1
        /\ \A u \in Threads : u # cur => lost'[u] = lost[u]
    BY <1>1, <1>3, <2>1 DEF TypeInv, CountType
  <2>3. ASSUME NEW t \in Threads
        PROVE  Accounted(disk.direct[t], wakes[t], lost'[t],
                         Len(thread[t].turns), FALSE)
    <3>1. Accounted(disk.direct[t], wakes[t], lost[t], Len(thread[t].turns),
                    pc = "started" /\ cur = t)
      BY DEF StartInv, AccountInv
    <3>2. /\ disk.direct[t].turn_id \in Nat /\ wakes[t] \in Seq(Nat)
          /\ lost[t] \in Nat /\ Len(thread[t].turns) \in Nat
      BY AccountTypes
    <3>3. CASE t = cur
      <4>1. Accounted(disk.direct[t], wakes[t], lost[t] + 1,
                      Len(thread[t].turns), FALSE)
        BY <3>1, <3>2, AccountLost
      <4> QED BY <2>2, <3>3, <4>1
    <3>4. CASE t # cur
      <4>1. (pc = "started" /\ cur = t) = FALSE
        BY <3>4
      <4> QED BY <2>2, <3>1, <3>4, <4>1
    <3> QED BY <3>3, <3>4
  <2>4. AccountInv'
    BY <1>1, <2>3 DEF AccountInv
  <2> QED BY <1>1, <2>4, NoVisit DEF StartInv
<1> QED BY <1>2, <1>3

LEMMA StartStep ==
    TypeInv /\ TypeInv' /\ RequestInv /\ StartInv /\ [Next]_vars => StartInv'
<1> SUFFICES ASSUME TypeInv, TypeInv', RequestInv, StartInv, [Next]_vars
             PROVE  StartInv'
  OBVIOUS
<1>1. CASE UNCHANGED vars
  <2>1. UNCHANGED <<disk, mem, pc, cur, stage, view, evidence, thread, wakes,
                    lost>>
    BY <1>1, Zenon DEF vars, passVars, visitVars, serverVars, ghostVars
  <2> QED BY <2>1 DEF StartInv, AccountInv, VisitInv, Followable
<1> QED BY <1>1, StepClasses, StartLeaves, StartFollows, StartSettles,
        StartQuiet, StartReactivates, StartResumes, StartBegins, StartCrash,
        StartWorld, Zenon

\* The same failed turn is given the same continuation once, and once more for
\* each start whose record was lost with the pass or the reply, for every set of
\* threads and configuration, whatever turns, interrupted ones included, users
\* and heartbeats come in between (engine.py:1369-1779, 2098-2325).
THEOREM StartedOnce == Spec => []OneStartPerEvidence
<1>1. TypeInv /\ StartInv => OneStartPerEvidence
  <2> SUFFICES ASSUME TypeInv, StartInv, NEW t \in Threads,
                      NEW e \in 1 .. Len(thread[t].turns)
               PROVE  Times(wakes[t], e) <= 1 + lost[t]
    BY Zenon DEF OneStartPerEvidence, Times, Places
  <2>1. e \in Nat
    BY AccountTypes
  <2> QED BY <2>1 DEF StartInv, AccountInv, Accounted
<1> QED BY <1>1, TypeInit, TypeStep, RequestInit, RequestStep, StartInit,
        StartStep, PTL DEF Spec

=============================================================================
