------------------------- MODULE CliContractProofs -------------------------
(***************************************************************************)
(* What a recovery promises, for every number of threads, generations,     *)
(* crashes and failed calls: turns are started once per thread and         *)
(* generation, a completed recovery leaves no thread half way, the pass    *)
(* implements RecoveryContract, and it starts a turn over a running one    *)
(* only in the window that no client of the App Server can close.          *)
(*                                                                         *)
(* The arguments need the books: the copy of the pass and the disk always  *)
(* hold the same records, and mark_recovered never prunes the generation   *)
(* it marks.                                                               *)
(***************************************************************************)
EXTENDS CliRecoveryProofs

\* The pass and the disk agree on the records; none is of a later outage.
Books ==
    /\ mem.recovered = disk.recovered
    /\ mem.outage_generation = disk.outage_generation
    /\ NoRecordsAfter(disk.recovered, disk.outage_generation)
    /\ pc = "idle" => mem = disk

RecordsStay == \A t \in Threads : Record(t)' = Record(t)
RecordSet(t, a) ==
    /\ Record(t)' = a
    /\ \A u \in Threads \ {t} : Record(u)' = Record(u)

LEMMA InitBooks == Init => Books
<1> SUFFICES ASSUME Init PROVE Books
  OBVIOUS
<1>1. mem = disk
  BY DEF Init
<1>2. CASE disk = FreshTarget
  <2>1. disk.recovered = EmptyLedger
    BY <1>2 DEF FreshTarget
  <2>2. NoRecordsAfter(EmptyLedger, disk.outage_generation)
    BY DEF EmptyLedger, NoRecordsAfter
  <2>3. NoRecordsAfter(disk.recovered, disk.outage_generation)
    BY <2>1, <2>2
  <2> QED BY <1>1, <2>3 DEF Books
<1>3. ASSUME NEW records \in [Threads -> InheritedActions],
             disk = InheritedTarget(records)
      PROVE  NoRecordsAfter(disk.recovered, disk.outage_generation)
  <2>1. disk.recovered = [EmptyLedger EXCEPT ![1] = records]
        /\ disk.outage_generation = 1
    BY <1>3 DEF InheritedTarget, FreshTarget
  <2> QED BY <2>1 DEF EmptyLedger, NoRecordsAfter
<1>4. \/ disk = FreshTarget
      \/ \E records \in [Threads -> InheritedActions] :
           disk = InheritedTarget(records)
  BY DEF Init
<1> QED BY <1>1, <1>2, <1>3, <1>4 DEF Books

\* A saved mark sets one record and leaves the others alone.
LEMMA MarkBooks ==
    ASSUME TypeInv, Books, NEW t \in Threads, NEW a \in RecordActions,
           Mark(t, a), pc' # "idle"
    PROVE  Books' /\ RecordSet(t, a)
<1> DEFINE g == mem.outage_generation
           after == MarkRecovered(mem.recovered, g, t, a)
<1>1. mem \in Targets /\ mem.recovered \in Ledgers /\ g \in Generations
  BY DEF TypeInv, RecordsOK, Targets
<1>2. NoRecordsAfter(mem.recovered, g)
  BY DEF Books
<1>3. /\ after[g] = [mem.recovered[g] EXCEPT ![t] = a]
      /\ NoRecordsAfter(after, g)
  BY <1>1, <1>2, MarkRecoveredKeepsCurrent
<1>4. mem'.recovered = after /\ mem'.outage_generation = g /\ disk' = mem'
  BY <1>1, MarkedType DEF Mark
<1>5. mem.recovered[g] \in [Threads -> RecordActions]
  BY <1>1 DEF Ledgers
<1> HIDE DEF g, after
<1>6. Books'
  BY <1>3, <1>4 DEF Books
<1>7. \A u \in Threads : Record(u)' = after[g][u]
  BY <1>4 DEF Record
<1>8. \A u \in Threads : Record(u) = mem.recovered[g][u]
  BY DEF Record, g
<1> QED BY <1>3, <1>5, <1>6, <1>7, <1>8 DEF RecordSet

\* A record that keeps its ledger and generation keeps its records.
LEMMA SameLedger ==
    ASSUME Books,
           mem'.recovered = mem.recovered,
           mem'.outage_generation = mem.outage_generation,
           disk'.recovered = mem.recovered,
           disk'.outage_generation = mem.outage_generation,
           pc' = "idle" => mem' = disk'
    PROVE  Books' /\ RecordsStay
BY DEF Books, RecordsStay, Record

\* A new generation has no records.
LEMMA NewGeneration ==
    ASSUME TypeInv, Books,
           mem' = disk',
           disk'.recovered = disk.recovered,
           disk'.outage_generation = disk.outage_generation + 1,
           disk'.outage_generation \in Generations
    PROVE  Books' /\ \A t \in Threads : Record(t)' = "none"
<1>1. disk.outage_generation \in Nat
  BY MaxOutagesAssumption DEF TypeInv, RecordsOK, Targets, Generations
<1>2. \A n \in Generations :
        n > disk.outage_generation => disk.recovered[n] = NoRecords
  BY DEF Books, NoRecordsAfter
<1>3. NoRecordsAfter(disk'.recovered, disk'.outage_generation)
  BY <1>1, <1>2, MaxOutagesAssumption DEF NoRecordsAfter, Generations
<1>4. disk'.recovered[disk'.outage_generation] = NoRecords
  BY <1>1, <1>2
<1> QED BY <1>3, <1>4 DEF Books, Record, NoRecords

-----------------------------------------------------------------------------
(* The inductive invariant. *)

\* A turn started on t is accounted for by its final record, or by being
\* supervised right now.
Charged(t) == Terminal(Record(t)) \/ (cur = t /\ Supervising)

Counted ==
    \A t \in Threads :
        /\ starts[t] <= mishaps[t] + 1
        /\ ~Charged(t) => starts[t] <= mishaps[t]

\* What the record of the visited thread says at each point of the visit.
OpenVisit ==
    /\ pc \in {"resume", "resumed"} => ~Terminal(Record(cur))
    /\ pc \in {"reread", "regoal", "start", "started"} =>
         (startTurns => ~Terminal(Record(cur)))
    /\ pc \in {"start", "started"} => startTurns
    /\ pc \in {"settle", "settleGoal"} =>
         Record(cur) \in {"turn_started", "thread_resumed_active"}

CountInv == Books /\ Counted /\ OpenVisit

LEMMA InitCountInv == Init => CountInv
<1> SUFFICES ASSUME Init PROVE CountInv
  OBVIOUS
<1>1. pc = "idle" /\ starts = [t \in Threads |-> 0]
      /\ mishaps = [t \in Threads |-> 0]
  BY DEF Init, Quiet
<1>2. Counted
  BY <1>1 DEF Counted
<1> QED BY <1>1, <1>2, InitBooks DEF CountInv, OpenVisit

\* Steps that neither start a turn nor touch a record.
LEMMA StayCounted ==
    ASSUME Counted, RecordsStay,
           startTurns' = startTurns, starts' = starts, mishaps' = mishaps,
           Supervising => cur' = cur /\ Supervising'
    PROVE  Counted'
<1>1. ASSUME NEW t \in Threads, Charged(t) PROVE Charged(t)'
  BY <1>1 DEF Charged, Terminal, RecordsStay
<1> QED BY <1>1 DEF Counted

\* Steps that mark the visited thread: either nothing was charged to it, or
\* it goes on being charged.
LEMMA MarkCounted ==
    ASSUME Counted, cur \in Threads, NEW a, RecordSet(cur, a), cur' = cur,
           startTurns' = startTurns, starts' = starts, mishaps' = mishaps,
           ~Charged(cur) \/ Charged(cur)'
    PROVE  Counted'
<1>1. ASSUME NEW t \in Threads, t # cur, Charged(t) PROVE Charged(t)'
  BY <1>1 DEF Charged, Terminal, RecordSet
<1> QED BY <1>1 DEF Counted

\* A new generation starts from nothing.
LEMMA ResetCounted ==
    ASSUME starts' = [t \in Threads |-> 0], mishaps' = [t \in Threads |-> 0]
    PROVE  Counted'
BY DEF Counted

\* A supervision that is cut off is counted as a mishap.
LEMMA CutOffCounted ==
    ASSUME TypeInv, Counted, RecordsStay, CutOff,
           startTurns' = startTurns, starts' = starts
    PROVE  Counted'
<1>1. starts \in [Threads -> Nat] /\ mishaps \in [Threads -> Nat]
  BY DEF TypeInv, GhostTypeOK
<1>2. CASE Supervising
  <2>1. cur \in Threads
    BY <1>2 DEF Supervising, TypeInv, Visiting, VisitPoints
  <2>2. mishaps' = [mishaps EXCEPT ![cur] = mishaps[cur] + 1]
    BY <1>2 DEF CutOff
  <2>3. starts'[cur] <= mishaps'[cur]
    BY <1>1, <2>1, <2>2 DEF Counted
  <2>4. ASSUME NEW t \in Threads, t # cur, Charged(t) PROVE Charged(t)'
    BY <2>4 DEF Charged, Terminal, RecordsStay
  <2>5. \A t \in Threads \ {cur} : mishaps'[t] = mishaps[t]
    BY <1>1, <2>2
  <2>6. mishaps'[cur] \in Nat /\ starts'[cur] \in Nat
    BY <1>1, <2>1, <2>2
  <2> QED BY <2>3, <2>4, <2>5, <2>6 DEF Counted
<1>3. CASE ~Supervising
  BY <1>3, StayCounted DEF CutOff
<1> QED BY <1>2, <1>3

-----------------------------------------------------------------------------
(* The steps. *)

LEMMA BeginPassCount ==
    ASSUME TypeInv, CountInv, NEW mode \in PassModes, BeginPass(mode)
    PROVE  CountInv'
<1>0. disk \in Targets /\ mem = disk /\ pc = "idle"
  BY DEF TypeInv, RecordsOK, CountInv, Books, BeginPass, UnhealthyPass,
         ConfirmingPass, HealthyPass
<1>1. CASE UnhealthyPass
  <2>1. /\ pc' = "idle" /\ mem' = ProbeFailed(disk) /\ disk' = ProbeFailed(disk)
        /\ startTurns' = startTurns
    BY <1>0, <1>1 DEF UnhealthyPass, worldVars
  <2>2. CASE OutageDeclared(disk)
    <3>1. disk'.outage_generation \in Generations
      BY <1>0, <1>1, <2>1, <2>2, ProbeFailedType
         DEF UnhealthyPass, Targets
    <3>2. Books'
      BY <1>0, <2>1, <2>2, <3>1, ProbeFailedFields, NewGeneration DEF CountInv
    <3>3. Counted'
      BY <1>1, <2>2, ResetCounted DEF UnhealthyPass
    <3> QED BY <2>1, <3>2, <3>3 DEF CountInv, OpenVisit
  <2>3. CASE ~OutageDeclared(disk)
    <3>1. Books' /\ RecordsStay
      BY <1>0, <2>1, <2>3, ProbeFailedFields, SameLedger DEF CountInv
    <3>2. starts' = starts /\ mishaps' = mishaps
      BY <1>1, <2>3 DEF UnhealthyPass
    <3>3. Counted'
      BY <1>0, <2>1, <3>1, <3>2, StayCounted DEF CountInv, Supervising
    <3> QED BY <2>1, <3>1, <3>3 DEF CountInv, OpenVisit
  <2> QED BY <2>2, <2>3
<1>2. CASE ConfirmingPass \/ HealthyPass(mode)
  <2>1. /\ pc' \in {"idle", "capacity"} /\ mem' = ProbeSucceeded(disk)
        /\ disk' \in {disk, ProbeSucceeded(disk)}
        /\ pc' = "idle" => disk' = mem'
        /\ startTurns' = startTurns /\ starts' = starts /\ mishaps' = mishaps
    BY <1>0, <1>2 DEF ConfirmingPass, HealthyPass, worldVars, ghostVars
  <2>2. Books' /\ RecordsStay
    BY <1>0, <2>1, ProbeSucceededFields, SameLedger DEF CountInv
  <2>3. Counted'
    BY <1>0, <2>1, <2>2, StayCounted DEF CountInv, Supervising
  <2> QED BY <2>1, <2>2, <2>3 DEF CountInv, OpenVisit
<1> QED BY <1>1, <1>2 DEF BeginPass

LEMMA OutsideVisitCount ==
    ASSUME TypeInv, CountInv,
           CapacityPass \/ Arm \/ Claim \/ FinishPass \/ ClaimFails
    PROVE  CountInv'
<1>0. disk \in Targets /\ mem \in Targets
  BY DEF TypeInv, RecordsOK
<1>1. /\ mem'.recovered = mem.recovered
      /\ mem'.outage_generation = mem.outage_generation
      /\ disk' = disk \/ disk' = mem \/ disk' = mem'
      /\ pc' = "idle" => disk' = mem'
  <2>1. CASE CapacityPass
    BY <2>1 DEF CapacityPass
  <2>2. CASE NothingToRecover
    BY <2>2 DEF NothingToRecover
  <2>3. CASE ArmAfterOutage \/ ResumeRecovery
    BY <1>0, <2>3, PendingType DEF ArmAfterOutage, ResumeRecovery
  <2>4. CASE ListThreads
    BY <2>4 DEF ListThreads
  <2>5. ASSUME NEW c \in BOOLEAN, EndPass(c)
        PROVE  /\ mem'.recovered = mem.recovered
               /\ mem'.outage_generation = mem.outage_generation
               /\ disk' = mem'
    BY <1>0, <2>5, PendingType DEF EndPass
  <2>6. CASE DeferToCli \/ FinishPass \/ ClaimFails
    <3>1. \E c \in BOOLEAN : EndPass(c)
      BY <2>6 DEF DeferToCli, FinishPass, ClaimFails
    <3> QED BY <2>5, <3>1
  <2> QED BY <2>1, <2>2, <2>3, <2>4, <2>6 DEF Arm, Claim
<1>2. /\ pc \in {"capacity", "arm", "claim", "next"}
      /\ pc' \in {"arm", "claim", "next", "idle"}
      /\ startTurns' = startTurns /\ starts' = starts /\ mishaps' = mishaps
  BY DEF CapacityPass, Arm, NothingToRecover, ArmAfterOutage, ResumeRecovery,
         Claim, DeferToCli, ListThreads, FinishPass, ClaimFails, EndPass,
         ForgetPass, worldVars, ghostVars
<1>3. /\ disk'.recovered = mem.recovered
      /\ disk'.outage_generation = mem.outage_generation
  BY <1>1 DEF CountInv, Books
<1>4. Books' /\ RecordsStay
  BY <1>1, <1>3, SameLedger DEF CountInv
<1>5. Counted'
  BY <1>2, <1>4, StayCounted DEF CountInv, Supervising
<1> QED BY <1>2, <1>4, <1>5 DEF CountInv, OpenVisit

\* The steps of a visit that leave the records alone and start nothing.
LEMMA QuietVisitCount ==
    ASSUME TypeInv, CountInv,
           \/ \E t \in Threads : ReadThread(t)
           \/ Skip \/ ReportOnly \/ Decide \/ ResumeThread \/ RereadThread
           \/ PrepareStart \/ PollThread \/ KeepPolling \/ ResumeReplyLost
    PROVE  CountInv'
<1>1. /\ disk' = disk /\ mem' = mem /\ pc # "idle" /\ pc' # "idle"
      /\ startTurns' = startTurns /\ starts' = starts /\ mishaps' = mishaps
  BY DEF ReadThread, Skip, ReportOnly, Decide, ResumeThread, RereadThread,
         PrepareStart, PollThread, KeepPolling, ResumeReplyLost, NextThread,
         worldVars, ghostVars
<1>2. Books' /\ RecordsStay
  BY <1>1, SameLedger DEF CountInv, Books
<1>3. \/ /\ pc' \in {"goal", "next"}
         /\ pc \notin {"started", "settle", "settleGoal"}
      \/ /\ cur' = cur
         /\ \/ pc = "goal" /\ pc' = "resume" /\ Decide
            \/ pc = "resume" /\ pc' = "resumed"
            \/ pc = "reread" /\ pc' = "regoal"
            \/ pc = "regoal" /\ pc' = "start" /\ startTurns
            \/ /\ pc \in {"settle", "settleGoal"}
               /\ pc' \in {"settle", "settleGoal"}
  <2>1. CASE Skip \/ ReportOnly
    BY <2>1 DEF Skip, ReportOnly, NextThread
  <2>2. CASE (\E t \in Threads : ReadThread(t)) \/ ResumeReplyLost
    BY <2>2 DEF ReadThread, ResumeReplyLost
  <2>3. CASE Decide \/ ResumeThread \/ RereadThread \/ PrepareStart
    BY <2>3 DEF Decide, ResumeThread, RereadThread, PrepareStart, passVars
  <2>4. CASE PollThread \/ KeepPolling
    BY <2>4 DEF PollThread, KeepPolling
  <2> QED BY <2>1, <2>2, <2>3, <2>4
<1>4. pc \in VisitPoints => cur \in Threads
  BY DEF TypeInv, Visiting
<1>5. Supervising => cur' = cur /\ Supervising'
  BY <1>2, <1>3, <1>4 DEF Supervising, VisitPoints, RecordsStay
<1>6. Counted'
  BY <1>1, <1>2, <1>5, StayCounted DEF CountInv
<1>7. Decide => ~Terminal(Record(cur))
  BY DEF Decide, Decision, Reason
<1>8. OpenVisit'
  BY <1>1, <1>2, <1>3, <1>4, <1>7
     DEF CountInv, OpenVisit, VisitPoints, RecordsStay, Terminal
<1> QED BY <1>2, <1>6, <1>8 DEF CountInv

\* The steps of a visit that save a record.
LEMMA MarkVisitCount ==
    ASSUME TypeInv, CountInv,
           \/ GiveUp \/ SkipForSafety \/ RecordResume \/ GoalChangedByResume
           \/ FollowResumedTurn \/ StopAtResume \/ RecordStart \/ Settled
    PROVE  CountInv'
<1> USE DEF RecordActions, TerminalActions, StagedActions
<1>1. /\ pc \in VisitPoints /\ pc' # "idle" /\ cur' = cur
      /\ startTurns' = startTurns /\ starts' = starts /\ mishaps' = mishaps
  BY DEF GiveUp, SkipForSafety, RecordResume, GoalChangedByResume,
         FollowResumedTurn, StopAtResume, RecordStart, Settled, NextThread,
         VisitPoints, passVars, worldVars, ghostVars
<1>2. cur \in Threads
  BY <1>1 DEF TypeInv, Visiting
<1>3. CASE disk' = disk /\ mem' = mem /\ (GiveUp \/ SkipForSafety)
  <2>1. pc = "goal" /\ pc' = "next"
    BY <1>3 DEF GiveUp, SkipForSafety, NextThread
  <2>2. Books' /\ RecordsStay
    BY <1>1, <1>3, SameLedger DEF CountInv, Books
  <2>3. Counted'
    BY <1>1, <2>1, <2>2, StayCounted DEF CountInv, Supervising
  <2> QED BY <2>1, <2>2, <2>3 DEF CountInv, OpenVisit
<1>4. ASSUME NEW a \in TerminalActions, Mark(cur, a), pc' = "next"
      PROVE  CountInv'
  <2>1. Books' /\ RecordSet(cur, a)
    BY <1>1, <1>2, <1>4, MarkBooks DEF CountInv
  <2>2. Charged(cur)'
    BY <1>1, <1>4, <2>1 DEF Charged, Terminal, RecordSet
  <2>3. Counted'
    BY <1>1, <1>2, <2>1, <2>2, MarkCounted DEF CountInv
  <2> QED BY <1>4, <2>1, <2>3 DEF CountInv, OpenVisit
<1>5. ASSUME NEW a \in StagedActions, Mark(cur, a),
             \/ ~Charged(cur)
             \/ ~startTurns
             \/ a = "turn_started" /\ pc' = "settle",
             \/ pc' = "reread"
             \/ pc' = "settle" /\ a \in {"turn_started", "thread_resumed_active"}
             \/ pc' = "next"
      PROVE  CountInv'
  <2>1. Books' /\ RecordSet(cur, a)
    BY <1>1, <1>2, <1>5, MarkBooks DEF CountInv
  <2>2. ~Charged(cur) \/ Charged(cur)'
    BY <1>1, <1>5, <2>1 DEF Charged, Terminal, RecordSet, Supervising
  <2>3. Counted'
    BY <1>1, <1>2, <2>1, <2>2, MarkCounted DEF CountInv
  <2>4. OpenVisit'
    BY <1>1, <1>5, <2>1 DEF OpenVisit, RecordSet, Terminal
  <2> QED BY <2>1, <2>3, <2>4 DEF CountInv
<1>6. CASE GiveUp \/ SkipForSafety
  <2>1. \/ disk' = disk /\ mem' = mem
        \/ \E a \in TerminalActions : Mark(cur, a)
    <3>1. CASE GiveUp
      <4>1. CASE Decision = "thread_stale"
        BY <3>1, <4>1 DEF GiveUp
      <4>2. CASE Decision # "thread_stale"
        BY <3>1, <4>2 DEF GiveUp
      <4> QED BY <4>1, <4>2
    <3>2. CASE SkipForSafety
      BY <3>2 DEF SkipForSafety
    <3> QED BY <1>6, <3>1, <3>2
  <2>2. pc' = "next"
    BY <1>6 DEF GiveUp, SkipForSafety, NextThread
  <2> QED BY <1>3, <1>4, <1>6, <2>1, <2>2
<1>7. CASE GoalChangedByResume \/ Settled
  <2>1. \E a \in TerminalActions : Mark(cur, a)
    <3>1. CASE GoalChangedByResume
      BY <3>1 DEF GoalChangedByResume
    <3>2. CASE Settled
      <4>1. PICK a : Mark(cur, a)
                     /\ a = IF ~GoalIsActive THEN "thread_resumed_goal_changed"
                            ELSE IF Record(cur) = "thread_resumed_active"
                            THEN "thread_resumed_turn_completed"
                            ELSE "turn_completed"
        BY <3>2 DEF Settled
      <4>2. a \in TerminalActions
        BY <4>1
      <4> QED BY <4>1, <4>2
    <3> QED BY <1>7, <3>1, <3>2
  <2>2. pc' = "next"
    BY <1>7 DEF GoalChangedByResume, Settled, NextThread
  <2> QED BY <1>4, <2>1, <2>2
<1>8. CASE RecordResume
  <2>1. ~Charged(cur)
    BY <1>8 DEF RecordResume, Charged, Supervising, CountInv, OpenVisit
  <2>2. Mark(cur, "thread_resumed") /\ pc' = "reread"
    BY <1>8 DEF RecordResume
  <2>3. "thread_resumed" \in StagedActions
    OBVIOUS
  <2> QED BY <1>5, <2>1, <2>2, <2>3
<1>9. CASE FollowResumedTurn \/ StopAtResume
  <2>1. ~Charged(cur) \/ ~startTurns
    BY <1>9 DEF FollowResumedTurn, StopAtResume, Charged, Supervising,
                CountInv, OpenVisit
  <2>2. \/ Mark(cur, "thread_resumed_active") /\ pc' = "settle"
        \/ Mark(cur, "thread_resumed") /\ pc' = "next"
    BY <1>9 DEF FollowResumedTurn, StopAtResume, NextThread
  <2>3. {"thread_resumed_active", "thread_resumed"} \subseteq StagedActions
    OBVIOUS
  <2> QED BY <1>5, <2>1, <2>2, <2>3
<1>10. CASE RecordStart
  BY <1>5, <1>10 DEF RecordStart
<1> QED BY <1>6, <1>7, <1>8, <1>9, <1>10

\* turn/start, its answer received or lost.
LEMMA StartCount ==
    ASSUME TypeInv, CountInv, StartTurn \/ StartReplyLost
    PROVE  CountInv'
<1>1. /\ pc = "start" /\ pc' \in {"started", "next"} /\ cur' = cur
      /\ disk' = disk /\ mem' = mem /\ startTurns' = startTurns
      /\ starts' = [starts EXCEPT ![cur] = @ + 1]
      /\ \/ pc' = "started" /\ mishaps' = mishaps
         \/ mishaps' = [mishaps EXCEPT ![cur] = @ + 1]
  BY DEF StartTurn, StartReplyLost, ServerStartsTurn, passVars
<1>2. /\ cur \in Threads
      /\ starts \in [Threads -> Nat] /\ mishaps \in [Threads -> Nat]
  BY <1>1 DEF TypeInv, Visiting, VisitPoints, GhostTypeOK
<1>3. Books' /\ RecordsStay
  BY <1>1, SameLedger DEF CountInv, Books
<1>4. startTurns /\ ~Terminal(Record(cur))
  BY <1>1 DEF CountInv, OpenVisit
<1>5. starts[cur] <= mishaps[cur]
  BY <1>1, <1>2, <1>4 DEF CountInv, Counted, Charged, Supervising
<1>6. ASSUME NEW t \in Threads, t = cur, ~Charged(t)'
      PROVE  starts'[cur] <= mishaps'[cur]
  <2>1. pc' # "started"
    BY <1>1, <1>6 DEF Charged, Supervising
  <2>2. mishaps' = [mishaps EXCEPT ![cur] = @ + 1]
    BY <1>1, <2>1
  <2> QED BY <1>1, <1>2, <1>5, <2>2
<1>7. starts'[cur] <= mishaps'[cur] + 1
  BY <1>1, <1>2, <1>5
<1>8. ASSUME NEW t \in Threads, t # cur
      PROVE  /\ starts'[t] = starts[t] /\ mishaps'[t] = mishaps[t]
             /\ Charged(t) => Charged(t)'
  <2>1. starts'[t] = starts[t] /\ mishaps'[t] = mishaps[t]
    BY <1>1, <1>2, <1>8
  <2>2. Charged(t) => Charged(t)'
    BY <1>1, <1>3, <1>8 DEF Charged, Terminal, RecordsStay
  <2> QED BY <2>1, <2>2
<1>9. Counted'
  <2>1. ASSUME NEW t \in Threads
        PROVE  /\ starts'[t] <= mishaps'[t] + 1
               /\ ~Charged(t)' => starts'[t] <= mishaps'[t]
    <3>1. CASE t = cur
      BY <1>6, <1>7, <3>1
    <3>2. CASE t # cur
      BY <1>8, <3>2 DEF CountInv, Counted
    <3> QED BY <3>1, <3>2
  <2> QED BY <2>1 DEF Counted
<1>10. OpenVisit'
  BY <1>1, <1>3, <1>2, <1>4 DEF OpenVisit, Terminal, RecordsStay
<1> QED BY <1>3, <1>9, <1>10 DEF CountInv

\* A failed call and a crash.
LEMMA CutOffCount ==
    ASSUME TypeInv, CountInv, CallFails \/ Crash
    PROVE  CountInv'
<1>1. /\ pc # "idle" /\ pc' \in {"next", "idle"} /\ disk' = disk
      /\ mem' = mem \/ mem' = disk
      /\ pc' = "idle" => mem' = disk
      /\ startTurns' = startTurns /\ starts' = starts /\ CutOff
  BY DEF CallFails, Crash, ForgetPass, worldVars
<1>2. Books' /\ RecordsStay
  BY <1>1, SameLedger DEF CountInv, Books
<1>3. Counted'
  BY <1>1, <1>2, CutOffCounted DEF CountInv
<1> QED BY <1>1, <1>2, <1>3 DEF CountInv, OpenVisit

\* Users, the clock, the Codex CLI and the network, and stuttering.
LEMMA WorldCount ==
    ASSUME TypeInv, CountInv, World \/ UNCHANGED vars
    PROVE  CountInv'
<1>1. /\ disk' = disk /\ mem' = mem /\ pc' = pc /\ cur' = cur
      /\ startTurns' = startTurns /\ starts' = starts /\ mishaps' = mishaps
  <2>1. CASE World
    BY <2>1 DEF World, UserTurn, TurnEnds, OrphanTurn, GoalChanges, ThreadAges,
                CliStarts, CliExits, NetworkFails, NetworkReturns,
                guardianVars, passVars, ghostVars
  <2>2. CASE UNCHANGED vars
    BY <2>2 DEF vars, passVars, worldVars, ghostVars
  <2> QED BY <2>1, <2>2
<1>2. Books' /\ RecordsStay
  BY <1>1, SameLedger DEF CountInv, Books
<1>3. Visiting
  BY DEF TypeInv
<1>4. Supervising => Supervising'
  BY <1>1, <1>2, <1>3 DEF Supervising, RecordsStay, Visiting, VisitPoints
<1>5. Counted'
  BY <1>1, <1>2, <1>4, StayCounted DEF CountInv
<1>6. OpenVisit'
  BY <1>1, <1>2, <1>3
     DEF CountInv, OpenVisit, RecordsStay, Terminal, Visiting, VisitPoints
<1> QED BY <1>2, <1>5, <1>6 DEF CountInv

LEMMA CountInvariance == Spec => [](TypeInv /\ CountInv)
<1>1. Init => TypeInv /\ CountInv
  BY InitTypeInv, InitCountInv
<1>2. TypeInv /\ CountInv /\ [Next]_vars => (TypeInv /\ CountInv)'
  <2> SUFFICES ASSUME TypeInv, CountInv, [Next]_vars PROVE CountInv'
    BY NextKeepsTypeInv
  <2>1. ASSUME NEW mode \in PassModes, BeginPass(mode) PROVE CountInv'
    BY <2>1, BeginPassCount
  <2>2. CASE PassStep
    <3>1. CASE Visit
      BY <3>1, QuietVisitCount, MarkVisitCount, StartCount DEF Visit
    <3> QED BY <2>2, <3>1, OutsideVisitCount DEF PassStep
  <2>3. CASE Fault
    BY <2>3, OutsideVisitCount, QuietVisitCount, StartCount, CutOffCount
       DEF Fault
  <2>4. CASE World \/ UNCHANGED vars
    BY <2>4, WorldCount
  <2> QED BY <2>1, <2>2, <2>3, <2>4 DEF Next
<1> QED BY <1>1, <1>2, PTL DEF Spec

(* In one generation a thread gets at most one recovery turn, plus one for *)
(* each time the supervision of such a turn was cut off by a crash, a lost *)
(* answer or a failed call: whatever the number of threads, outages and    *)
(* kept generations, for both values of start_recovery_turn and with or    *)
(* without capacity fallbacks.                                             *)
THEOREM StartsBounded == Spec => []StartsBoundedByMishaps
<1>1. TypeInv /\ CountInv => StartsBoundedByMishaps
  <2> SUFFICES ASSUME TypeInv, CountInv, NEW t \in Threads
               PROVE  starts[t] <= 1 + mishaps[t]
    BY DEF StartsBoundedByMishaps
  <2>1. starts[t] \in Nat /\ mishaps[t] \in Nat
    BY DEF TypeInv, GhostTypeOK
  <2> QED BY <2>1 DEF CountInv, Counted
<1> QED BY <1>1, CountInvariance, PTL

-----------------------------------------------------------------------------
(* What the groups of steps leave alone. *)

FlagsStay == /\ todo' = todo /\ dry' = dry
             /\ hadError' = hadError /\ waiting' = waiting

\* A thread that has had a turn stays one that has.
LastStays ==
    \A t \in Threads : thread[t].last # "none" => thread'[t].last # "none"

LEMMA TurnBeginsLast ==
    ASSUME WorldTypeOK, NEW t \in Threads, TurnBegins(t)
    PROVE  LastStays
<1>1. thread' = [thread EXCEPT ![t] = RunningThread]
  BY DEF TurnBegins
<1> QED BY <1>1 DEF LastStays, RunningThread, WorldTypeOK

\* The steps between two passes and around the visits.
LEMMA OutsideVisitFrame ==
    ASSUME TypeInv, CountInv,
           CapacityPass \/ Arm \/ Claim \/ FinishPass \/ ClaimFails
    PROVE  /\ Books' /\ RecordsStay
           /\ pc \in {"capacity", "arm", "claim", "next"}
           /\ pc' \in {"arm", "claim", "next", "idle"}
           /\ startTurns' = startTurns
           /\ starts' = starts /\ mishaps' = mishaps /\ thread' = thread
<1>0. disk \in Targets /\ mem \in Targets
  BY DEF TypeInv, RecordsOK
<1>1. /\ mem'.recovered = mem.recovered
      /\ mem'.outage_generation = mem.outage_generation
      /\ disk' = disk \/ disk' = mem \/ disk' = mem'
      /\ pc' = "idle" => disk' = mem'
  <2>1. CASE CapacityPass
    BY <2>1 DEF CapacityPass
  <2>2. CASE NothingToRecover
    BY <2>2 DEF NothingToRecover
  <2>3. CASE ArmAfterOutage \/ ResumeRecovery
    BY <1>0, <2>3, PendingType DEF ArmAfterOutage, ResumeRecovery
  <2>4. CASE ListThreads
    BY <2>4 DEF ListThreads
  <2>5. ASSUME NEW c \in BOOLEAN, EndPass(c)
        PROVE  /\ mem'.recovered = mem.recovered
               /\ mem'.outage_generation = mem.outage_generation
               /\ disk' = mem'
    BY <1>0, <2>5, PendingType DEF EndPass
  <2>6. CASE DeferToCli \/ FinishPass \/ ClaimFails
    <3>1. \E c \in BOOLEAN : EndPass(c)
      BY <2>6 DEF DeferToCli, FinishPass, ClaimFails
    <3> QED BY <2>5, <3>1
  <2> QED BY <2>1, <2>2, <2>3, <2>4, <2>6 DEF Arm, Claim
<1>2. /\ pc \in {"capacity", "arm", "claim", "next"}
      /\ pc' \in {"arm", "claim", "next", "idle"}
      /\ startTurns' = startTurns /\ starts' = starts /\ mishaps' = mishaps
      /\ thread' = thread
  BY DEF CapacityPass, Arm, NothingToRecover, ArmAfterOutage, ResumeRecovery,
         Claim, DeferToCli, ListThreads, FinishPass, ClaimFails, EndPass,
         ForgetPass, worldVars, ghostVars
<1>3. /\ disk'.recovered = mem.recovered
      /\ disk'.outage_generation = mem.outage_generation
  BY <1>1 DEF CountInv, Books
<1>4. Books' /\ RecordsStay
  BY <1>1, <1>3, SameLedger DEF CountInv
<1> QED BY <1>2, <1>4

\* The steps of a visit that save a record: which one, and where they lead.
LEMMA MarkVisitFrame ==
    ASSUME TypeInv, CountInv,
           \/ GiveUp \/ SkipForSafety \/ RecordResume \/ GoalChangedByResume
           \/ FollowResumedTurn \/ StopAtResume \/ RecordStart \/ Settled
    PROVE  /\ pc \in VisitPoints /\ cur \in Threads /\ cur' = cur
           /\ pc' \in {"next", "reread", "settle"}
           /\ startTurns' = startTurns /\ thread' = thread
           /\ starts' = starts /\ closed' = closed /\ FlagsStay
           /\ pc = "goal" => Record(cur) \in StagedActions
           /\ \/ /\ dry /\ disk' = disk /\ mem' = mem /\ RecordsStay
                 /\ pc = "goal" /\ pc' = "next"
              \/ \E a \in RecordActions \ {"none"} :
                   /\ Mark(cur, a) /\ RecordSet(cur, a)
                   /\ pc' = "next" => a \in TerminalActions \/ ~startTurns
                   /\ Terminal(Record(cur)) => Terminal(a)
<1> USE DEF RecordActions, TerminalActions, StagedActions
<1>1. /\ pc \in VisitPoints /\ pc' \in {"next", "reread", "settle"}
      /\ cur' = cur /\ startTurns' = startTurns /\ starts' = starts
      /\ thread' = thread /\ closed' = closed /\ FlagsStay
      /\ pc = "goal" => Record(cur) \in StagedActions
  BY DEF GiveUp, SkipForSafety, RecordResume, GoalChangedByResume,
         FollowResumedTurn, StopAtResume, RecordStart, Settled, NextThread,
         VisitPoints, passVars, worldVars, ghostVars, FlagsStay, WasStaged
<1>2. cur \in Threads
  BY <1>1 DEF TypeInv, Visiting
<1>3. ASSUME NEW a \in RecordActions \ {"none"}, Mark(cur, a),
             pc' = "next" => a \in TerminalActions \/ ~startTurns,
             Terminal(Record(cur)) => Terminal(a)
      PROVE  \E b \in RecordActions \ {"none"} :
                   /\ Mark(cur, b) /\ RecordSet(cur, b)
                   /\ pc' = "next" => b \in TerminalActions \/ ~startTurns
                   /\ Terminal(Record(cur)) => Terminal(b)
  <2>1. pc' # "idle"
    BY <1>1
  <2> HIDE DEF RecordActions, TerminalActions, StagedActions
  <2>2. RecordSet(cur, a)
    BY <1>2, <1>3, <2>1, MarkBooks DEF CountInv
  <2> QED BY <1>3, <2>2
<1>4. CASE GiveUp \/ SkipForSafety
  <2>0. pc = "goal" /\ pc' = "next"
    BY <1>4 DEF GiveUp, SkipForSafety, NextThread
  <2>1. \/ dry /\ disk' = disk /\ mem' = mem
        \/ \E a \in TerminalActions : Mark(cur, a)
    <3>1. CASE GiveUp
      <4>1. CASE Decision = "thread_stale"
        BY <3>1, <4>1 DEF GiveUp
      <4>2. CASE Decision # "thread_stale"
        BY <3>1, <4>2 DEF GiveUp
      <4> QED BY <4>1, <4>2
    <3>2. CASE SkipForSafety
      BY <3>2 DEF SkipForSafety
    <3> QED BY <1>4, <3>1, <3>2
  <2>2. ASSUME disk' = disk, mem' = mem PROVE RecordsStay
    BY <1>1, <2>2, SameLedger DEF CountInv, Books
  <2>3. ASSUME NEW a \in TerminalActions PROVE Terminal(a)
    BY <2>3 DEF Terminal
  <2> QED BY <1>1, <1>2, <1>3, <2>0, <2>1, <2>2, <2>3
<1>5. CASE GoalChangedByResume
  BY <1>1, <1>2, <1>3, <1>5 DEF GoalChangedByResume, Terminal
<1>6. CASE Settled
  <2>1. PICK a : Mark(cur, a)
                 /\ a = IF ~GoalIsActive THEN "thread_resumed_goal_changed"
                        ELSE IF Record(cur) = "thread_resumed_active"
                        THEN "thread_resumed_turn_completed"
                        ELSE "turn_completed"
    BY <1>6 DEF Settled
  <2>2. a \in TerminalActions
    BY <2>1
  <2> QED BY <1>1, <1>2, <1>3, <2>1, <2>2 DEF Terminal
<1>7. CASE RecordResume \/ FollowResumedTurn \/ RecordStart \/ StopAtResume
  <2>1. \E a \in StagedActions : Mark(cur, a)
    BY <1>7 DEF RecordResume, FollowResumedTurn, RecordStart, StopAtResume
  <2>2. pc' = "next" => ~startTurns
    BY <1>7 DEF RecordResume, FollowResumedTurn, RecordStart, StopAtResume,
                NextThread
  <2>3. pc \in {"resumed", "regoal", "started"}
    BY <1>7 DEF RecordResume, FollowResumedTurn, RecordStart, StopAtResume
  <2>4. startTurns => ~Terminal(Record(cur))
    BY <2>3 DEF CountInv, OpenVisit
  <2>5. ASSUME NEW a \in StagedActions, ~startTurns PROVE Terminal(a)
    BY <2>5 DEF Terminal
  <2> QED BY <1>1, <1>2, <1>3, <2>1, <2>2, <2>4, <2>5
<1> QED BY <1>4, <1>5, <1>6, <1>7

\* The steps of a visit that leave the records and the threads alone.
LEMMA QuietVisitFrame ==
    ASSUME TypeInv, CountInv,
           \/ \E t \in Threads : ReadThread(t)
           \/ Skip \/ ReportOnly \/ Decide \/ RereadThread
           \/ PrepareStart \/ PollThread \/ KeepPolling
    PROVE  /\ RecordsStay /\ disk' = disk /\ mem' = mem
           /\ startTurns' = startTurns /\ closed' = closed
           /\ thread' = thread /\ starts' = starts
           /\ pc \in {"next"} \cup VisitPoints
           /\ pc' \in {"next"} \cup VisitPoints
<1>1. /\ disk' = disk /\ mem' = mem
      /\ startTurns' = startTurns /\ closed' = closed
      /\ thread' = thread /\ starts' = starts
      /\ pc \in {"next"} \cup VisitPoints
      /\ pc' \in {"next"} \cup VisitPoints
  BY DEF ReadThread, Skip, ReportOnly, Decide, RereadThread,
         PrepareStart, PollThread, KeepPolling, NextThread,
         worldVars, ghostVars, VisitPoints
<1>2. pc' # "idle"
  BY <1>1 DEF VisitPoints
<1> QED BY <1>1, <1>2, SameLedger DEF CountInv, Books

\* What the App Server does at thread/resume and turn/start.
LEMMA ServerFrame ==
    ASSUME TypeInv, CountInv,
           ResumeThread \/ ResumeReplyLost \/ StartTurn \/ StartReplyLost
    PROVE  /\ RecordsStay /\ disk' = disk /\ mem' = mem
           /\ startTurns' = startTurns /\ closed' = closed
           /\ LastStays /\ cur \in Threads /\ cur' = cur
           /\ todo' = todo /\ dry' = dry /\ waiting' = waiting
           /\ \/ /\ pc = "resume" /\ pc' \in {"resumed", "next"}
                 /\ starts' = starts
              \/ /\ pc = "start" /\ pc' \in {"started", "next"}
                 /\ starts' = [starts EXCEPT ![cur] = @ + 1]
           /\ pc' = "next" => hadError'
<1>1. /\ disk' = disk /\ mem' = mem
      /\ startTurns' = startTurns /\ closed' = closed
      /\ cur' = cur /\ todo' = todo /\ dry' = dry /\ waiting' = waiting
      /\ \/ /\ pc = "resume" /\ pc' \in {"resumed", "next"}
            /\ starts' = starts
         \/ /\ pc = "start" /\ pc' \in {"started", "next"}
            /\ starts' = [starts EXCEPT ![cur] = @ + 1]
      /\ pc' = "next" => hadError'
  BY DEF ResumeThread, ResumeReplyLost, StartTurn, StartReplyLost,
         ServerStartsTurn, passVars
<1>2. cur \in Threads
  BY <1>1 DEF TypeInv, Visiting, VisitPoints
<1>3. LastStays
  <2>1. thread' = thread \/ TurnBegins(cur)
    BY DEF ResumeThread, ResumeReplyLost, StartTurn, StartReplyLost,
           ServerStartsTurn, ServerResumes
  <2> QED BY <1>2, <2>1, TurnBeginsLast DEF LastStays, TypeInv
<1>4. RecordsStay
  BY <1>1, SameLedger DEF CountInv, Books
<1> QED BY <1>1, <1>2, <1>3, <1>4

\* A failed call and a crash.
LEMMA CutOffFrame ==
    ASSUME TypeInv, CountInv, CallFails \/ Crash
    PROVE  /\ RecordsStay /\ disk' = disk /\ mem' \in {mem, disk}
           /\ startTurns' = startTurns /\ closed' = closed
           /\ thread' = thread /\ starts' = starts /\ pc # "idle"
           /\ \/ pc' = "idle" /\ mem' = disk
              \/ /\ mem' = mem /\ pc \in VisitPoints /\ pc' = "next" /\ hadError'
<1>1. /\ disk' = disk /\ mem' \in {mem, disk}
      /\ startTurns' = startTurns /\ closed' = closed
      /\ thread' = thread /\ starts' = starts /\ pc # "idle"
      /\ \/ pc' = "idle" /\ mem' = disk
         \/ /\ mem' = mem /\ pc \in VisitPoints /\ pc' = "next" /\ hadError'
  BY DEF CallFails, Crash, ForgetPass, worldVars, VisitPoints
<1> QED BY <1>1, SameLedger DEF CountInv, Books

\* Users, the clock, the Codex CLI and the network, and stuttering.
LEMMA WorldFrame ==
    ASSUME TypeInv, CountInv, World \/ UNCHANGED vars
    PROVE  /\ RecordsStay /\ disk' = disk /\ mem' = mem /\ pc' = pc
           /\ startTurns' = startTurns /\ closed' = closed
           /\ cur' = cur /\ view' = view /\ recoverNow' = recoverNow
           /\ FlagsStay /\ starts' = starts /\ LastStays
<1>1. /\ disk' = disk /\ mem' = mem /\ pc' = pc
      /\ startTurns' = startTurns /\ closed' = closed
      /\ cur' = cur /\ view' = view /\ recoverNow' = recoverNow
      /\ FlagsStay /\ starts' = starts
  <2>1. CASE World
    BY <2>1 DEF World, UserTurn, TurnEnds, OrphanTurn, GoalChanges, ThreadAges,
                CliStarts, CliExits, NetworkFails, NetworkReturns,
                guardianVars, passVars, ghostVars, FlagsStay
  <2>2. CASE UNCHANGED vars
    BY <2>2 DEF vars, passVars, worldVars, ghostVars, FlagsStay
  <2> QED BY <2>1, <2>2
<1>2. RecordsStay
  BY <1>1, SameLedger DEF CountInv, Books
<1>3. LastStays
  <2>1. ASSUME NEW t \in Threads, UserTurn(t) PROVE LastStays
    BY <2>1, TurnBeginsLast DEF UserTurn, TypeInv
  <2>2. ASSUME NEW t \in Threads, TurnEnds(t) PROVE LastStays
    BY <2>2 DEF TurnEnds, LastStays, TypeInv, WorldTypeOK, ThreadViews
  <2>3. ASSUME NEW t \in Threads, OrphanTurn(t) \/ ThreadAges(t)
        PROVE  LastStays
    BY <2>3 DEF OrphanTurn, ThreadAges, LastStays, TypeInv, WorldTypeOK,
                ThreadViews
  <2>4. ASSUME thread' = thread PROVE LastStays
    BY <2>4 DEF LastStays
  <2>5. CASE UNCHANGED vars
    BY <2>4, <2>5 DEF vars, worldVars
  <2>6. ASSUME NEW t \in Threads, GoalChanges(t) PROVE LastStays
    BY <2>4, <2>6 DEF GoalChanges
  <2>7. CASE CliStarts \/ CliExits \/ NetworkFails \/ NetworkReturns
    BY <2>4, <2>7 DEF CliStarts, CliExits, NetworkFails, NetworkReturns
  <2> QED BY <2>1, <2>2, <2>3, <2>5, <2>6, <2>7 DEF World
<1> QED BY <1>1, <1>2, <1>3

\* The start of a pass.
LEMMA BeginPassFrame ==
    ASSUME TypeInv, CountInv, NEW mode \in PassModes, BeginPass(mode)
    PROVE  /\ mem = disk /\ pc = "idle" /\ pc' \in {"idle", "capacity"}
           /\ startTurns' = startTurns /\ closed' = closed /\ thread' = thread
           /\ \/ /\ UnhealthyPass /\ OutageDeclared(disk)
                 /\ \A t \in Threads : Record(t)' = "none"
                 /\ starts' = [t \in Threads |-> 0]
              \/ RecordsStay /\ starts' = starts
<1>0. disk \in Targets /\ mem = disk /\ pc = "idle"
  BY DEF TypeInv, RecordsOK, CountInv, Books, BeginPass, UnhealthyPass,
         ConfirmingPass, HealthyPass
<1>1. CASE UnhealthyPass
  <2>1. /\ pc' = "idle" /\ mem' = ProbeFailed(disk) /\ disk' = ProbeFailed(disk)
        /\ startTurns' = startTurns /\ closed' = closed /\ thread' = thread
    BY <1>0, <1>1 DEF UnhealthyPass, worldVars
  <2>2. CASE OutageDeclared(disk)
    <3>1. disk'.outage_generation \in Generations
      BY <1>0, <1>1, <2>1, <2>2, ProbeFailedType
         DEF UnhealthyPass, Targets
    <3>2. \A t \in Threads : Record(t)' = "none"
      BY <1>0, <2>1, <2>2, <3>1, ProbeFailedFields, NewGeneration DEF CountInv
    <3> QED BY <1>0, <1>1, <2>1, <2>2, <3>2 DEF UnhealthyPass
  <2>3. CASE ~OutageDeclared(disk)
    <3>1. RecordsStay
      BY <1>0, <2>1, <2>3, ProbeFailedFields, SameLedger DEF CountInv
    <3> QED BY <1>0, <1>1, <2>1, <2>3, <3>1 DEF UnhealthyPass
  <2> QED BY <2>2, <2>3
<1>2. CASE ConfirmingPass \/ HealthyPass(mode)
  <2>1. /\ pc' \in {"idle", "capacity"} /\ mem' = ProbeSucceeded(disk)
        /\ disk' \in {disk, ProbeSucceeded(disk)}
        /\ pc' = "idle" => disk' = mem'
        /\ startTurns' = startTurns /\ closed' = closed
        /\ thread' = thread /\ starts' = starts
    BY <1>0, <1>2 DEF ConfirmingPass, HealthyPass, worldVars, ghostVars
  <2>2. RecordsStay
    BY <1>0, <2>1, ProbeSucceededFields, SameLedger DEF CountInv
  <2> QED BY <1>0, <2>1, <2>2
<1> QED BY <1>1, <1>2 DEF BeginPass

-----------------------------------------------------------------------------
(* Where records come from. *)

RecordedPoints == {"reread", "regoal", "start", "started"}

\* A record, a decision to recover and a turn of this generation are only
\* ever of a thread that has had a turn, and no turn is started on a thread
\* without a record.
Traces ==
    /\ \A t \in Threads : Record(t) # "none" => thread[t].last # "none"
    /\ \A t \in Threads : starts[t] > 0 => Record(t) # "none"
    /\ pc = "goal" => /\ Record(cur) # "none" => view.last # "none"
                      /\ view.last # "none" => thread[cur].last # "none"
    /\ pc \in VisitPoints \ {"goal"} => thread[cur].last # "none"
    /\ pc \in RecordedPoints => Record(cur) # "none"

LEMMA InitTraces == Init => Traces
<1> SUFFICES ASSUME Init PROVE Traces
  OBVIOUS
<1>1. pc = "idle" /\ mem = disk /\ starts = [t \in Threads |-> 0]
  BY DEF Init, Quiet
<1>2. ASSUME NEW t \in Threads, Record(t) # "none"
      PROVE  thread[t].last # "none"
  <2>1. CASE disk = FreshTarget
    <3>1. disk.outage_generation = 0 /\ disk.recovered = EmptyLedger
      BY <2>1 DEF FreshTarget, FreshHealth
    <3>2. 0 \in Generations
      BY MaxOutagesAssumption DEF Generations
    <3> QED BY <1>1, <1>2, <3>1, <3>2 DEF Record, EmptyLedger, NoRecords
  <2>2. ASSUME NEW records \in [Threads -> InheritedActions],
               MaxOutages > 0,
               \A u \in Threads : records[u] # "none" => thread[u] # NewThread,
               disk = InheritedTarget(records)
        PROVE  thread[t].last # "none"
    <3>1. /\ disk.outage_generation = 1
          /\ disk.recovered = [EmptyLedger EXCEPT ![1] = records]
      BY <2>2 DEF InheritedTarget, FreshTarget
    <3>2. 1 \in Generations
      BY <2>2, MaxOutagesAssumption DEF Generations
    <3>3. Record(t) = records[t]
      BY <1>1, <3>1, <3>2 DEF Record, EmptyLedger
    <3>4. thread[t] = RunningThread
      BY <1>2, <2>2, <3>3 DEF Init
    <3> QED BY <3>4 DEF RunningThread
  <2> QED BY <2>1, <2>2 DEF Init
<1> QED BY <1>1, <1>2 DEF Traces, VisitPoints, RecordedPoints

\* Steps that touch no record and start no turn.
LEMMA StayTraces ==
    ASSUME Traces, RecordsStay, LastStays, TypeInv,
           \A t \in Threads : starts'[t] = starts[t],
           \/ pc' \notin VisitPoints
           \/ /\ cur' = cur
              /\ \/ pc = "goal" /\ pc' = "goal" /\ view' = view
                 \/ pc = "goal" /\ pc' = "resume" /\ view.last # "none"
                 \/ /\ pc \in VisitPoints \ {"goal"}
                    /\ pc' \in VisitPoints \ {"goal"}
                    /\ pc' \in RecordedPoints => pc \in RecordedPoints
    PROVE  Traces'
<1>1. pc \in VisitPoints => cur \in Threads
  BY DEF TypeInv, Visiting
<1>2. CASE pc' \notin VisitPoints
  BY <1>2 DEF Traces, RecordsStay, LastStays, VisitPoints, RecordedPoints
<1>3. CASE pc' \in VisitPoints
  BY <1>1, <1>3 DEF Traces, RecordsStay, LastStays, VisitPoints, RecordedPoints
<1> QED BY <1>2, <1>3

LEMMA NextKeepsTraces ==
    ASSUME TypeInv, CountInv, Traces, [Next]_vars
    PROVE  Traces'
<1> USE DEF VisitPoints, RecordedPoints
<1>1. ASSUME NEW mode \in PassModes, BeginPass(mode) PROVE Traces'
  <2>1. /\ pc' \in {"idle", "capacity"} /\ thread' = thread
        /\ \/ /\ \A t \in Threads : Record(t)' = "none"
              /\ starts' = [t \in Threads |-> 0]
           \/ RecordsStay /\ starts' = starts
    BY <1>1, BeginPassFrame
  <2>2. LastStays
    BY <2>1 DEF LastStays
  <2>3. CASE RecordsStay /\ starts' = starts
    BY <2>1, <2>2, <2>3, StayTraces
  <2>4. CASE /\ \A t \in Threads : Record(t)' = "none"
             /\ starts' = [t \in Threads |-> 0]
    BY <2>1, <2>4 DEF Traces
  <2> QED BY <2>1, <2>3, <2>4
<1>2. CASE CapacityPass \/ Arm \/ Claim \/ FinishPass \/ ClaimFails
  BY <1>2, OutsideVisitFrame, StayTraces DEF LastStays
<1>3. ASSUME NEW t \in Threads, ReadThread(t) PROVE Traces'
  <2>1. RecordsStay /\ thread' = thread /\ starts' = starts
    BY <1>3, QuietVisitFrame
  <2>2. cur' = t /\ view' = thread[t] /\ pc' = "goal"
    BY <1>3 DEF ReadThread
  <2> QED BY <2>1, <2>2 DEF Traces, RecordsStay
<1>4. CASE Skip \/ ReportOnly \/ Decide \/ RereadThread \/ PrepareStart
           \/ PollThread \/ KeepPolling
  <2>1. RecordsStay /\ LastStays /\ starts' = starts
    BY <1>4, QuietVisitFrame DEF LastStays
  <2>2. \/ pc' = "next"
        \/ /\ cur' = cur
           /\ \/ pc = "goal" /\ pc' = "resume" /\ Decide
              \/ pc = "reread" /\ pc' = "regoal"
              \/ pc = "regoal" /\ pc' = "start"
              \/ pc = "settle" /\ pc' = "settleGoal"
              \/ pc = "settleGoal" /\ pc' = "settle"
    BY <1>4 DEF Skip, ReportOnly, Decide, RereadThread, PrepareStart,
                PollThread, KeepPolling, NextThread, passVars
  <2>3. Decide => view.last # "none"
    BY DEF Decide, Decision, Reason
  <2> QED BY <2>1, <2>2, <2>3, StayTraces
<1>5. CASE GiveUp \/ SkipForSafety \/ RecordResume \/ GoalChangedByResume
           \/ FollowResumedTurn \/ StopAtResume \/ RecordStart \/ Settled
  <2>1. /\ pc \in VisitPoints /\ cur \in Threads /\ cur' = cur
        /\ pc' \in {"next", "reread", "settle"}
        /\ thread' = thread /\ starts' = starts
        /\ pc = "goal" => Record(cur) \in StagedActions
        /\ \/ RecordsStay /\ pc' = "next"
           \/ \E a \in RecordActions \ {"none"} : RecordSet(cur, a)
    BY <1>5, MarkVisitFrame
  <2>2. thread[cur].last # "none"
    BY <2>1 DEF Traces, StagedActions
  <2>3. ASSUME NEW a \in RecordActions \ {"none"}, RecordSet(cur, a)
        PROVE  Traces'
    BY <2>1, <2>2, <2>3 DEF Traces, RecordSet
  <2>4. CASE RecordsStay /\ pc' = "next"
    BY <2>1, <2>4 DEF Traces, RecordsStay
  <2> QED BY <2>1, <2>3, <2>4
<1>6. CASE ResumeThread \/ ResumeReplyLost \/ StartTurn \/ StartReplyLost
  <2>1. /\ RecordsStay /\ LastStays /\ cur \in Threads /\ cur' = cur
        /\ \/ /\ pc = "resume" /\ pc' \in {"resumed", "next"}
              /\ starts' = starts
           \/ /\ pc = "start" /\ pc' \in {"started", "next"}
              /\ starts' = [starts EXCEPT ![cur] = @ + 1]
    BY <1>6, ServerFrame
  <2>2. ASSUME NEW t \in Threads, starts'[t] > 0 PROVE Record(t)' # "none"
    <3>1. CASE starts'[t] = starts[t]
      BY <2>1, <2>2, <3>1 DEF Traces, RecordsStay
    <3>2. CASE t = cur /\ pc = "start"
      BY <2>1, <3>2 DEF Traces, RecordsStay
    <3> QED BY <2>1, <3>1, <3>2 DEF TypeInv, GhostTypeOK
  <2> QED BY <2>1, <2>2 DEF Traces, RecordsStay, LastStays
<1>7. CASE CallFails \/ Crash
  BY <1>7, CutOffFrame, StayTraces DEF LastStays
<1>8. CASE World \/ UNCHANGED vars
  <2>1. /\ RecordsStay /\ pc' = pc /\ cur' = cur /\ view' = view
        /\ starts' = starts /\ LastStays
    BY <1>8, WorldFrame
  <2> QED BY <2>1, StayTraces
<1> QED BY <1>1, <1>2, <1>3, <1>4, <1>5, <1>6, <1>7, <1>8
        DEF Next, PassStep, Visit, Fault

-----------------------------------------------------------------------------
(* A recovery that completes leaves no thread half way. *)

\* A thread that is staged has not been visited yet in this pass, is being
\* visited, or has left a mark on the pass that keeps it from completing.
Pursued ==
    /\ pc \in {"next"} \cup VisitPoints
    /\ startTurns /\ ~dry /\ ~hadError /\ ~waiting
    => \A t \in Threads : Record(t) \in StagedActions =>
         t \in todo \/ (pc # "next" /\ t = cur)

\* A completed recovery is over: nothing is owed, nothing is staged, and no
\* pass takes it up again.
Final ==
    disk.outage_generation \in closed =>
        /\ disk.health # "down"
        /\ ~disk.recovery_pending
        /\ ~(startTurns /\ HasStaged(disk))
        /\ pc \in {"idle", "capacity", "arm"}
        /\ pc \in {"capacity", "arm"} => ~recoverNow

\* What the copy of the pass may be ahead of the disk.
Ahead ==
    /\ \A n \in closed : n <= disk.outage_generation
    /\ pc # "idle" => mem.health = "up"
    /\ pc \in {"capacity", "arm"} =>
         mem.recovery_pending = disk.recovery_pending

CompletionInv == Pursued /\ Final /\ Ahead

\* Whether a thread is staged is the same question to the disk and the copy.
LEMMA StagedRecord ==
    ASSUME Books
    PROVE  /\ HasStaged(disk) <=> \E t \in Threads : Record(t) \in StagedActions
           /\ HasStaged(mem) <=> HasStaged(disk)
           /\ \A t \in Threads :
                t \in StagedThreads(mem.recovered, mem.outage_generation)
                  <=> Record(t) \in StagedActions
BY DEF Books, HasStaged, StagedThreads, Record

\* A staged thread that is skipped keeps the recovery pending.
LEMMA SkipWaits ==
    ASSUME Traces, startTurns, Skip, Record(cur) \in StagedActions
    PROVE  waiting'
<1>1. ~Terminal(Record(cur))
  BY DEF Terminal, TerminalActions, StagedActions
<1>2. view.last # "none"
  BY DEF Skip, Traces, StagedActions
<1>3. Decision \in {"thread_active", "turn_in_progress"}
  BY <1>1, <1>2 DEF Skip, WasStaged, Decision, Reason, SafetyRejection
<1> QED BY <1>1, <1>3 DEF Skip, WaitingReasons

\* The steps of the loop.
LEMMA VisitPursued ==
    ASSUME TypeInv, CountInv, Traces, Pursued, Visit
    PROVE  Pursued'
<1> USE DEF VisitPoints
<1>1. ASSUME NEW t \in Threads, ReadThread(t) PROVE Pursued'
  <2>1. RecordsStay /\ startTurns' = startTurns
    BY <1>1, QuietVisitFrame
  <2>2. /\ pc = "next" /\ cur' = t /\ todo' = todo \ {t} /\ pc' = "goal"
        /\ dry' = dry /\ hadError' = hadError /\ waiting' = waiting
    BY <1>1 DEF ReadThread
  <2> QED BY <2>1, <2>2 DEF Pursued, RecordsStay
<1>2. CASE Skip
  <2>1. RecordsStay /\ startTurns' = startTurns
    BY <1>2, QuietVisitFrame
  <2>2. /\ pc = "goal" /\ cur' = cur /\ todo' = todo /\ pc' = "next"
        /\ dry' = dry /\ hadError' = hadError /\ cur \in Threads
        /\ ~waiting' => ~waiting
    BY <1>2 DEF Skip, NextThread, TypeInv, Visiting
  <2>3. startTurns /\ ~waiting' => Record(cur) \notin StagedActions
    BY <1>2, SkipWaits
  <2>4. ASSUME startTurns', ~dry', ~hadError', ~waiting',
               NEW t \in Threads, Record(t)' \in StagedActions
        PROVE  t \in todo'
    <3>1. Record(t) \in StagedActions /\ startTurns
      BY <2>1, <2>4 DEF RecordsStay
    <3>2. t # cur
      BY <2>3, <2>4, <3>1
    <3>3. ~dry /\ ~hadError /\ ~waiting
      BY <2>2, <2>4
    <3> QED BY <2>2, <3>1, <3>2, <3>3 DEF Pursued
  <2> QED BY <2>4 DEF Pursued
<1>3. CASE ReportOnly
  BY <1>3 DEF ReportOnly, NextThread, Pursued
<1>4. CASE Decide \/ RereadThread \/ PrepareStart \/ PollThread \/ KeepPolling
  <2>1. RecordsStay /\ startTurns' = startTurns
    BY <1>4, QuietVisitFrame
  <2>2. /\ pc \in VisitPoints /\ pc' \in VisitPoints /\ cur' = cur
        /\ todo' = todo /\ dry' = dry /\ hadError' = hadError
        /\ waiting' = waiting
    BY <1>4 DEF Decide, RereadThread, PrepareStart, PollThread, KeepPolling,
                passVars
  <2> QED BY <2>1, <2>2 DEF Pursued, RecordsStay
<1>5. CASE GiveUp \/ SkipForSafety \/ RecordResume \/ GoalChangedByResume
           \/ FollowResumedTurn \/ StopAtResume \/ RecordStart \/ Settled
  <2>1. /\ pc \in VisitPoints /\ cur \in Threads /\ cur' = cur
        /\ pc' \in {"next", "reread", "settle"}
        /\ startTurns' = startTurns /\ FlagsStay
        /\ \/ dry
           \/ \E a \in RecordActions :
                /\ RecordSet(cur, a)
                /\ pc' = "next" => a \in TerminalActions \/ ~startTurns
    BY <1>5, MarkVisitFrame
  <2>2. CASE dry
    BY <2>1, <2>2 DEF Pursued, FlagsStay
  <2>3. ASSUME NEW a \in RecordActions, RecordSet(cur, a),
               pc' = "next" => a \in TerminalActions \/ ~startTurns
        PROVE  Pursued'
    <3>1. a \in TerminalActions => a \notin StagedActions
      BY DEF TerminalActions, StagedActions
    <3> QED BY <2>1, <2>3, <3>1 DEF Pursued, FlagsStay, RecordSet
  <2> QED BY <2>1, <2>2, <2>3
<1>6. CASE ResumeThread \/ StartTurn
  <2>1. /\ RecordsStay /\ startTurns' = startTurns /\ cur' = cur
        /\ todo' = todo /\ dry' = dry /\ waiting' = waiting
    BY <1>6, ServerFrame
  <2>2. pc \in VisitPoints /\ pc' \in VisitPoints /\ hadError' = hadError
    BY <1>6 DEF ResumeThread, StartTurn, passVars
  <2> QED BY <2>1, <2>2 DEF Pursued, RecordsStay
<1> QED BY <1>1, <1>2, <1>3, <1>4, <1>5, <1>6 DEF Visit

LEMMA NextKeepsPursued ==
    ASSUME TypeInv, CountInv, Traces, Pursued, [Next]_vars
    PROVE  Pursued'
<1> USE DEF VisitPoints
<1>1. ASSUME NEW mode \in PassModes, BeginPass(mode) PROVE Pursued'
  BY <1>1, BeginPassFrame DEF Pursued
<1>2. CASE CapacityPass \/ Arm \/ FinishPass \/ ClaimFails
  <2>1. pc' \in {"arm", "claim", "idle"}
    BY <1>2 DEF CapacityPass, Arm, NothingToRecover, ArmAfterOutage,
                ResumeRecovery, FinishPass, ClaimFails, EndPass, ForgetPass
  <2> QED BY <2>1 DEF Pursued
<1>3. CASE Claim
  <2>1. CASE DeferToCli
    BY <2>1 DEF DeferToCli, EndPass, ForgetPass, Pursued
  <2>2. CASE ListThreads
    <3>1. RecordsStay
      BY <1>3, OutsideVisitFrame
    <3>2. StagedThreads(mem.recovered, mem.outage_generation) \subseteq todo'
      BY <2>2 DEF ListThreads
    <3>3. \A t \in Threads : Record(t) \in StagedActions => t \in todo'
      BY <3>2, StagedRecord DEF CountInv
    <3> QED BY <3>1, <3>3 DEF Pursued, RecordsStay
  <2> QED BY <1>3, <2>1, <2>2 DEF Claim
<1>4. CASE Visit
  BY <1>4, VisitPursued
<1>5. CASE ResumeReplyLost \/ StartReplyLost \/ CallFails \/ Crash
  <2>1. pc' = "idle" \/ hadError'
    BY <1>5 DEF ResumeReplyLost, StartReplyLost, CallFails, Crash, ForgetPass
  <2> QED BY <2>1 DEF Pursued
<1>6. CASE World \/ UNCHANGED vars
  BY <1>6, WorldFrame DEF Pursued, RecordsStay, FlagsStay
<1> QED BY <1>1, <1>2, <1>3, <1>4, <1>5, <1>6 DEF Next, PassStep, Fault

LEMMA InitCompletionInv == Init => CompletionInv
<1> SUFFICES ASSUME Init PROVE CompletionInv
  OBVIOUS
<1>1. pc = "idle"
  BY DEF Init, Quiet
<1>2. CASE disk = FreshTarget /\ closed = {}
  BY <1>1, <1>2 DEF CompletionInv, Pursued, Final, Ahead, VisitPoints
<1>3. ASSUME NEW records \in [Threads -> InheritedActions],
             disk = InheritedTarget(records),
             closed = IF Owed(disk) THEN {} ELSE {1}
      PROVE  CompletionInv
  <2>1. disk.outage_generation = 1 /\ disk.health = "up"
    BY <1>3 DEF InheritedTarget, FreshTarget
  <2>2. closed \subseteq {1}
    BY <1>3
  <2>3. closed # {} => ~Owed(disk)
    BY <1>3
  <2> QED BY <1>1, <2>1, <2>2, <2>3
          DEF CompletionInv, Pursued, Final, Ahead, VisitPoints, Owed
<1> QED BY <1>2, <1>3 DEF Init

\* A step that leaves the saved record alone keeps what is final.
LEMMA FinalKept ==
    ASSUME Final, disk' = disk, startTurns' = startTurns, closed' = closed,
           \/ pc' = "idle"
           \/ pc' = "arm" /\ pc = "capacity" /\ recoverNow' = recoverNow
           \/ pc' = pc /\ recoverNow' = recoverNow
           \/ pc \notin {"idle", "capacity", "arm"}
    PROVE  Final'
BY DEF Final, HasStaged

\* The start of a pass.
LEMMA BeginPassCompletion ==
    ASSUME TypeInv, CountInv, CompletionInv,
           NEW mode \in PassModes, BeginPass(mode)
    PROVE  Final' /\ Ahead'
<1>0. /\ disk \in Targets /\ mem = disk /\ pc = "idle"
      /\ disk.outage_generation \in Nat
      /\ startTurns' = startTurns /\ closed' = closed
  BY BeginPassFrame, MaxOutagesAssumption
     DEF TypeInv, RecordsOK, Targets, Generations
<1>c. closed \subseteq Nat
  BY MaxOutagesAssumption DEF TypeInv, GhostTypeOK, Generations
<1>1. CASE UnhealthyPass
  <2>1. pc' = "idle" /\ disk' = ProbeFailed(disk)
    BY <1>0, <1>1 DEF UnhealthyPass
  <2>2. disk'.recovered = disk.recovered
    BY <1>0, <2>1, ProbeFailedFields
  <2>3. CASE OutageDeclared(disk)
    <3>1. disk'.outage_generation = disk.outage_generation + 1
      BY <1>0, <2>1, <2>3, ProbeFailedFields
    <3>2. disk'.outage_generation \notin closed
      BY <1>0, <1>c, <3>1 DEF CompletionInv, Ahead
    <3> QED BY <1>0, <1>c, <2>1, <3>1, <3>2 DEF CompletionInv, Final, Ahead
  <2>4. CASE ~OutageDeclared(disk)
    <3>1. /\ disk'.outage_generation = disk.outage_generation
          /\ disk'.health = disk.health
          /\ disk'.recovery_pending = disk.recovery_pending
      BY <1>0, <2>1, <2>4, ProbeFailedFields
    <3> QED BY <1>0, <2>1, <2>2, <3>1
            DEF CompletionInv, Final, Ahead, HasStaged
  <2> QED BY <2>3, <2>4
<1>2. CASE ConfirmingPass
  <2>1. /\ pc' = "idle" /\ disk' = ProbeSucceeded(disk)
        /\ ProbeSucceeded(disk).health = "down"
    BY <1>2 DEF ConfirmingPass
  <2>2. disk.health = "down"
    BY <1>0, <2>1, ProbeSucceededFields
  <2>3. disk'.outage_generation = disk.outage_generation
    BY <1>0, <2>1, ProbeSucceededFields
  <2> QED BY <1>0, <2>1, <2>2, <2>3 DEF CompletionInv, Final, Ahead
<1>3. CASE HealthyPass(mode)
  <2>1. /\ pc' = "capacity" /\ disk' = disk /\ mem' = ProbeSucceeded(disk)
        /\ ProbeSucceeded(disk).health = "up"
        /\ recoverNow' = RecoverNow(disk)
    BY <1>3 DEF HealthyPass
  <2>2. mem'.recovery_pending = disk.recovery_pending
    BY <1>0, <2>1, ProbeSucceededFields
  <2> QED BY <1>0, <2>1, <2>2
          DEF CompletionInv, Final, Ahead, HasStaged, RecoverNow
<1> QED BY <1>1, <1>2, <1>3 DEF BeginPass

\* The end of a pass completes only a recovery that left nothing staged.
LEMMA EndPassCompletion ==
    ASSUME TypeInv, CountInv, CompletionInv, NEW c \in BOOLEAN, EndPass(c),
           pc \in {"claim", "next"},
           c => pc = "next" /\ todo = {} /\ ~hadError /\ ~waiting
    PROVE  Final' /\ Ahead'
<1>0. /\ mem \in Targets /\ mem.outage_generation \in Nat
      /\ mem.outage_generation = disk.outage_generation /\ mem.health = "up"
  BY MaxOutagesAssumption
     DEF TypeInv, RecordsOK, Targets, Generations, CountInv, Books,
         CompletionInv, Ahead
<1>1. pc' = "idle" /\ startTurns' = startTurns
  BY DEF EndPass, ForgetPass, worldVars
<1>2. CASE c /\ ~dry
  <2>1. /\ disk' = [mem EXCEPT !.recovery_pending = FALSE]
        /\ closed' = closed \cup {mem.outage_generation}
    BY <1>2 DEF EndPass
  <2>2. /\ disk'.outage_generation = mem.outage_generation
        /\ disk'.recovered = mem.recovered /\ disk'.health = "up"
        /\ ~disk'.recovery_pending
    BY <1>0, <2>1, PendingType
  <2>3. startTurns => \A t \in Threads : Record(t) \notin StagedActions
    BY <1>2 DEF CompletionInv, Pursued
  <2>4. startTurns => ~HasStaged(disk)
    BY <2>3, StagedRecord DEF CountInv
  <2>5. ~(startTurns' /\ HasStaged(disk)')
    BY <1>0, <1>1, <2>2, <2>4 DEF HasStaged, CountInv, Books
  <2> QED BY <1>0, <1>1, <2>1, <2>2, <2>5 DEF CompletionInv, Final, Ahead
<1>3. CASE ~(c /\ ~dry)
  <2>1. disk' = mem /\ closed' = closed
    BY <1>3 DEF EndPass
  <2> QED BY <1>0, <1>1, <2>1 DEF CompletionInv, Final, Ahead
<1> QED BY <1>2, <1>3

\* The capacity pass, the arming, the claim and the end of the loop.
LEMMA OutsideVisitCompletion ==
    ASSUME TypeInv, CountInv, CompletionInv,
           CapacityPass \/ Arm \/ Claim \/ FinishPass \/ ClaimFails
    PROVE  Final' /\ Ahead'
<1>0. /\ disk \in Targets /\ mem \in Targets
      /\ mem.outage_generation = disk.outage_generation
      /\ mem.recovered = disk.recovered
      /\ HasStaged(mem) <=> HasStaged(disk)
  BY StagedRecord DEF TypeInv, RecordsOK, CountInv, Books
<1>1. startTurns' = startTurns
  BY OutsideVisitFrame
<1>2. CASE CapacityPass
  <2>1. /\ pc = "capacity" /\ pc' = "arm" /\ mem' = mem /\ closed' = closed
        /\ disk' \in {disk, mem} /\ recoverNow' = recoverNow
    BY <1>2 DEF CapacityPass, passVars, ghostVars
  <2> QED BY <1>0, <1>1, <2>1 DEF CompletionInv, Final, Ahead, HasStaged
<1>3. CASE NothingToRecover
  <2>1. /\ pc = "arm" /\ pc' = "idle" /\ mem' = mem /\ closed' = closed
        /\ disk' = mem /\ mem.health = "up"
    BY <1>3 DEF NothingToRecover, ForgetPass, CompletionInv, Ahead
  <2> QED BY <1>0, <1>1, <2>1 DEF CompletionInv, Final, Ahead, HasStaged
<1>4. CASE ArmAfterOutage \/ ResumeRecovery
  <2>1. /\ pc = "arm" /\ pc' = "claim" /\ closed' = closed
        /\ mem' = [mem EXCEPT !.recovery_pending = TRUE]
        /\ disk' \in {disk, mem'}
        /\ \/ recoverNow
           \/ mem.recovery_pending
           \/ startTurns /\ HasStaged(mem)
    BY <1>4 DEF ArmAfterOutage, ResumeRecovery, ghostVars
  <2>2. /\ mem'.outage_generation = mem.outage_generation
        /\ mem'.health = mem.health
    BY <1>0, <2>1, PendingType
  <2>3. disk.outage_generation \notin closed
    BY <1>0, <2>1 DEF CompletionInv, Final, Ahead
  <2> QED BY <1>0, <2>1, <2>2, <2>3 DEF CompletionInv, Final, Ahead
<1>5. CASE ListThreads
  <2>1. /\ pc = "claim" /\ pc' = "next" /\ disk' = disk /\ mem' = mem
        /\ closed' = closed
    BY <1>5 DEF ListThreads, ghostVars
  <2> QED BY <1>1, <2>1, FinalKept DEF CompletionInv, Ahead
<1>6. CASE DeferToCli \/ ClaimFails
  BY <1>6, EndPassCompletion DEF DeferToCli, ClaimFails
<1>7. CASE FinishPass
  <2>1. (~hadError /\ ~waiting) \in BOOLEAN
    OBVIOUS
  <2> QED BY <1>7, <2>1, EndPassCompletion DEF FinishPass
<1> QED BY <1>2, <1>3, <1>4, <1>5, <1>6, <1>7 DEF Arm, Claim

LEMMA NextKeepsCompletion ==
    ASSUME TypeInv, CountInv, Traces, CompletionInv, [Next]_vars
    PROVE  CompletionInv'
<1> SUFFICES Final' /\ Ahead'
  BY NextKeepsPursued DEF CompletionInv
<1> USE DEF VisitPoints
<1>1. ASSUME NEW mode \in PassModes, BeginPass(mode) PROVE Final' /\ Ahead'
  BY <1>1, BeginPassCompletion
<1>2. CASE CapacityPass \/ Arm \/ Claim \/ FinishPass \/ ClaimFails
  BY <1>2, OutsideVisitCompletion
<1>3. CASE (\E t \in Threads : ReadThread(t)) \/ Skip \/ ReportOnly \/ Decide
           \/ RereadThread \/ PrepareStart \/ PollThread \/ KeepPolling
  <2>1. /\ disk' = disk /\ mem' = mem /\ startTurns' = startTurns
        /\ closed' = closed
        /\ pc \in {"next"} \cup VisitPoints /\ pc' \in {"next"} \cup VisitPoints
    BY <1>3, QuietVisitFrame
  <2> QED BY <2>1, FinalKept DEF CompletionInv, Ahead
<1>4. CASE GiveUp \/ SkipForSafety \/ RecordResume \/ GoalChangedByResume
           \/ FollowResumedTurn \/ StopAtResume \/ RecordStart \/ Settled
  <2>1. /\ pc \in VisitPoints /\ pc' \in {"next", "reread", "settle"}
        /\ startTurns' = startTurns /\ closed' = closed /\ cur \in Threads
        /\ \/ disk' = disk /\ mem' = mem
           \/ \E a \in RecordActions : Mark(cur, a)
    BY <1>4, MarkVisitFrame
  <2>2. disk.outage_generation \notin closed
    BY <2>1 DEF CompletionInv, Final
  <2>3. ASSUME NEW a \in RecordActions, Mark(cur, a)
        PROVE  /\ disk'.outage_generation = disk.outage_generation
               /\ mem'.health = mem.health
    BY <2>1, <2>3, MarkedType
       DEF Mark, TypeInv, RecordsOK, CountInv, Books
  <2>4. /\ disk'.outage_generation = disk.outage_generation
        /\ mem'.health = mem.health
    BY <2>1, <2>3
  <2> QED BY <2>1, <2>2, <2>4 DEF CompletionInv, Final, Ahead
<1>5. CASE ResumeThread \/ ResumeReplyLost \/ StartTurn \/ StartReplyLost
  <2>1. /\ disk' = disk /\ mem' = mem /\ startTurns' = startTurns
        /\ closed' = closed /\ pc \in {"resume", "start"}
        /\ pc' \in {"resumed", "started", "next"}
    BY <1>5, ServerFrame
  <2> QED BY <2>1, FinalKept DEF CompletionInv, Ahead
<1>6. CASE CallFails \/ Crash
  <2>1. /\ disk' = disk /\ startTurns' = startTurns /\ closed' = closed
        /\ \/ pc' = "idle"
           \/ mem' = mem /\ pc \in VisitPoints /\ pc' = "next"
    BY <1>6, CutOffFrame
  <2> QED BY <2>1, FinalKept DEF CompletionInv, Ahead
<1>7. CASE World \/ UNCHANGED vars
  BY <1>7, WorldFrame, FinalKept DEF CompletionInv, Ahead
<1> QED BY <1>1, <1>2, <1>3, <1>4, <1>5, <1>6, <1>7
        DEF Next, PassStep, Visit, Fault

LEMMA CompletionInvariance ==
    Spec => [](TypeInv /\ CountInv /\ Traces /\ CompletionInv)
<1>1. Init => Traces /\ CompletionInv
  BY InitTraces, InitCompletionInv
<1>2. TypeInv /\ CountInv /\ Traces /\ CompletionInv /\ [Next]_vars
        => (Traces /\ CompletionInv)'
  BY NextKeepsTraces, NextKeepsCompletion
<1> QED BY <1>1, <1>2, CountInvariance, PTL DEF Spec

(* Once a recovery is reported complete, no thread of its generation is    *)
(* left in the middle of one, and it stays so: whatever threads fell off   *)
(* the list, failed, stayed active or were left staged by a crash, for     *)
(* every number of threads, outages and faults.                            *)
THEOREM CompletionIsFinal == Spec => []CompletedLeavesNothingStaged
<1>1. CompletionInv => CompletedLeavesNothingStaged
  BY DEF CompletionInv, Final, CompletedLeavesNothingStaged
<1> QED BY <1>1, CompletionInvariance, PTL

-----------------------------------------------------------------------------
(* The detailed recovery implements the contract. *)

\* Once a pass has armed the recovery, the disk knows that one is owed and
\* that the outage is over.
OwedOnDisk == pc \in ArmedPoints => Owed(disk) /\ disk.health # "down"

\* A mark saves the pending flag of the copy with it.
LEMMA MarkOwed ==
    ASSUME TypeInv, Books, NEW t \in Threads, NEW a \in RecordActions,
           Mark(t, a), mem.recovery_pending
    PROVE  /\ Owed(disk)'
           /\ disk'.health = mem.health
           /\ disk'.outage_generation = disk.outage_generation
<1>1. /\ disk'.recovery_pending = mem.recovery_pending
      /\ disk'.health = mem.health
      /\ disk'.outage_generation = mem.outage_generation
  BY MarkedType DEF Mark, TypeInv, RecordsOK
<1> QED BY <1>1 DEF Owed, Books

LEMMA NextKeepsOwedOnDisk ==
    ASSUME TypeInv, CountInv, OutageInv, Ahead, OwedOnDisk, [Next]_vars
    PROVE  OwedOnDisk'
<1> USE DEF ArmedPoints, VisitPoints
<1>0. pc \in ArmedPoints => mem.recovery_pending /\ mem.health = "up"
  BY DEF OutageInv, Armed, Ahead
<1>1. ASSUME disk' = disk, startTurns' = startTurns,
             pc \in ArmedPoints \/ pc' \notin ArmedPoints
      PROVE  OwedOnDisk'
  BY <1>1 DEF OwedOnDisk, Owed, HasStaged
<1>2. ASSUME NEW mode \in PassModes, BeginPass(mode) PROVE OwedOnDisk'
  BY <1>2, BeginPassFrame DEF OwedOnDisk
<1>3. CASE ArmAfterOutage \/ ResumeRecovery
  <2>1. mem \in Targets /\ disk \in Targets /\ pc = "arm"
    BY <1>3 DEF TypeInv, RecordsOK, ArmAfterOutage, ResumeRecovery
  <2>2. mem.health = "up" /\ mem = ProbeSucceeded(disk)
        /\ recoverNow = RecoverNow(disk)
    BY <2>1 DEF OutageInv, UnsavedProbe
  <2>3. CASE ArmAfterOutage
    <3>1. disk' = [mem EXCEPT !.recovery_pending = TRUE]
      BY <2>3 DEF ArmAfterOutage
    <3> QED BY <2>1, <2>2, <3>1, PendingType DEF OwedOnDisk, Owed
  <2>4. CASE ResumeRecovery
    <3>1. /\ disk' = disk /\ startTurns' = startTurns
          /\ ~recoverNow
          /\ mem.recovery_pending \/ (startTurns /\ HasStaged(mem))
      BY <2>4 DEF ResumeRecovery, worldVars
    <3>2. /\ mem.recovery_pending = disk.recovery_pending
          /\ disk.health # "down"
      BY <2>1, <2>2, <3>1, ProbeSucceededFields
    <3>3. HasStaged(mem) <=> HasStaged(disk)
      BY StagedRecord DEF CountInv
    <3> QED BY <3>1, <3>2, <3>3 DEF OwedOnDisk, Owed, HasStaged
  <2> QED BY <1>3, <2>3, <2>4
<1>4. CASE CapacityPass \/ NothingToRecover \/ DeferToCli \/ FinishPass
           \/ ClaimFails
  BY <1>4 DEF CapacityPass, NothingToRecover, DeferToCli, FinishPass,
              ClaimFails, EndPass, ForgetPass, OwedOnDisk
<1>5. CASE ListThreads
  BY <1>1, <1>5 DEF ListThreads, worldVars
<1>6. CASE Visit
  <2>1. Effect
    BY <1>6, VisitEffect
  <2>2. CASE disk' = disk /\ mem' = mem
    BY <1>1, <2>1, <2>2 DEF Effect
  <2>3. CASE cur \in Threads /\ \E a \in RecordActions : Mark(cur, a)
    BY <1>0, <2>1, <2>3, MarkOwed DEF OwedOnDisk, Effect, CountInv
  <2> QED BY <2>1, <2>2, <2>3 DEF Effect
<1>7. CASE ResumeReplyLost \/ StartReplyLost \/ CallFails \/ Crash
  <2>1. /\ disk' = disk /\ startTurns' = startTurns
        /\ pc \in ArmedPoints \/ pc' \notin ArmedPoints
    BY <1>7 DEF ResumeReplyLost, StartReplyLost, CallFails, Crash, ForgetPass,
                worldVars
  <2> QED BY <1>1, <2>1
<1>8. CASE World \/ UNCHANGED vars
  BY <1>1, <1>8, WorldFrame
<1> QED BY <1>2, <1>3, <1>4, <1>5, <1>6, <1>7, <1>8
        DEF Next, PassStep, Arm, Claim, Fault

\* What the contract sees of a step that changes no record.
LEMMA SameSettled ==
    ASSUME Books, Books', RecordsStay, startTurns' = startTurns
    PROVE  SettledThreads' = SettledThreads
BY DEF SettledThreads, Books, RecordsStay, Record, Terminal

\* A mark settles the thread it marks, or no thread.
LEMMA MarkSettles ==
    ASSUME Books, Books', cur \in Threads, NEW a, RecordSet(cur, a),
           cur' = cur, startTurns' = startTurns,
           Terminal(Record(cur)) => Terminal(a)
    PROVE  SettledThreads' = IF Terminal(a) THEN SettledThreads \cup {cur}
                             ELSE SettledThreads
<1>1. \A t \in Threads : t \in SettledThreads <=> Terminal(Record(t))
  BY DEF SettledThreads, Books, Record
<1>2. \A t \in Threads : t \in SettledThreads' <=> Terminal(Record(t)')
  BY DEF SettledThreads, Books, Record, Terminal
<1>3. \A x : Terminal(x)' <=> Terminal(x)
  BY DEF Terminal
<1>4. SettledThreads \subseteq Threads /\ SettledThreads' \subseteq Threads
  BY DEF SettledThreads
<1>5. \A t \in Threads \ {cur} : t \in SettledThreads' <=> t \in SettledThreads
  BY <1>1, <1>2 DEF RecordSet
<1>6. cur \in SettledThreads' <=> Terminal(a)
  <2>1. cur \in SettledThreads' <=> Terminal(Record(cur)')
    BY <1>2
  <2> QED BY <2>1 DEF RecordSet
<1> QED BY <1>1, <1>4, <1>5, <1>6

LEMMA ContractStutters ==
    ASSUME Books, Books', RecordsStay, startTurns' = startTurns,
           starts' = starts,
           disk'.health = "down" <=> disk.health = "down",
           disk'.outage_generation = disk.outage_generation,
           Owed(disk)' <=> Owed(disk)
    PROVE  UNCHANGED Contract!vars
<1>1. SettledThreads' = SettledThreads
  BY SameSettled
<1>2. (disk.health = "down")' = (disk.health = "down")
  OBVIOUS
<1>3. Owed(disk)' = Owed(disk)
  BY DEF Owed
<1>4. {t \in Threads : starts[t] > 0}' = {t \in Threads : starts[t] > 0}
  OBVIOUS
<1> QED BY <1>1, <1>2, <1>3, <1>4 DEF Contract!vars

LEMMA InitContract == Init => Contract!Init
<1> SUFFICES ASSUME Init PROVE Contract!Init
  OBVIOUS
<1>1. /\ disk.health # "down"
      /\ disk.outage_generation \in {0, 1}
  <2>1. CASE disk = FreshTarget
    BY <2>1 DEF FreshTarget, FreshHealth
  <2>2. ASSUME NEW records \in [Threads -> InheritedActions],
               disk = InheritedTarget(records)
        PROVE  disk.health = "up" /\ disk.outage_generation = 1
    BY <2>2 DEF InheritedTarget, FreshTarget
  <2> QED BY <2>1, <2>2 DEF Init
<1>2. startTurns \in BOOLEAN /\ disk.recovery_pending \in BOOLEAN
  BY InitTypeInv, FlagsAssumption
     DEF TypeInv, WorldTypeOK, RecordsOK, Targets
<1>3. Owed(disk) \in BOOLEAN
  BY <1>2 DEF Owed, HasStaged
<1>4. {t \in Threads : starts[t] > 0} = {}
  BY DEF Init
<1>5. SettledThreads \in SUBSET Threads
  BY DEF SettledThreads
<1> QED BY <1>1, <1>3, <1>4, <1>5 DEF Contract!Init

\* The two halves of a pass: from the probe to the arming,
LEMMA BeginPassContract ==
    ASSUME TypeInv, CountInv, CountInv', NEW mode \in PassModes,
           BeginPass(mode)
    PROVE  [Contract!Next]_(Contract!vars)
<1>0. /\ disk \in Targets /\ mem = disk /\ Books /\ Books'
      /\ startTurns' = startTurns
  BY BeginPassFrame DEF TypeInv, RecordsOK, CountInv
<1>1. CASE UnhealthyPass /\ OutageDeclared(disk)
  <2>1. /\ disk' = ProbeFailed(disk) /\ mem' = disk'
        /\ starts' = [t \in Threads |-> 0]
    BY <1>1 DEF UnhealthyPass
  <2>2. \A t \in Threads : Record(t)' = "none"
    BY <1>0, <1>1, BeginPassFrame, NewGeneration, ProbeFailedFields,
       ProbeFailedType, <2>1 DEF UnhealthyPass, Targets
  <2>3. /\ disk.health # "down" /\ disk'.health = "down"
        /\ disk'.outage_generation = disk.outage_generation + 1
        /\ disk'.recovery_pending = FALSE
    BY <1>0, <1>1, <2>1, ProbeFailedFields
  <2>4. SettledThreads' = {} /\ ~Owed(disk)'
    <3>1. \A t \in Threads :
            disk'.recovered[disk'.outage_generation][t] = "none"
      BY <2>1, <2>2 DEF Record
    <3> QED BY <2>3, <3>1
            DEF SettledThreads, Terminal, TerminalActions, StagedActions,
                Owed, HasStaged, StagedThreads
  <2>5. {t \in Threads : starts[t] > 0}' = {}
    BY <2>1
  <2>6. Contract!Declare
    BY <2>3, <2>4, <2>5 DEF Contract!Declare
  <2> QED BY <2>6 DEF Contract!Next
<1>2. CASE ~(UnhealthyPass /\ OutageDeclared(disk))
  <2>1. RecordsStay /\ starts' = starts
    BY <1>2, BeginPassFrame
  <2>2. /\ disk'.recovery_pending = disk.recovery_pending
        /\ disk'.outage_generation = disk.outage_generation
        /\ disk'.recovered = disk.recovered
        /\ disk'.health = "down" <=> disk.health = "down"
    BY <1>0, <1>2, ProbeFailedFields, ProbeSucceededFields
       DEF BeginPass, UnhealthyPass, ConfirmingPass, HealthyPass
  <2>3. Owed(disk)' <=> Owed(disk)
    BY <1>0, <2>2 DEF Owed, HasStaged
  <2> QED BY <1>0, <2>1, <2>2, <2>3, ContractStutters
<1> QED BY <1>1, <1>2

LEMMA ArmContract ==
    ASSUME CapacityEnabled = FALSE, TypeInv, CountInv, CountInv', OutageInv,
           CapacityPass \/ Arm
    PROVE  [Contract!Next]_(Contract!vars)
<1>0. /\ disk \in Targets /\ mem \in Targets /\ Books /\ Books'
      /\ startTurns' = startTurns /\ RecordsStay /\ starts' = starts
  BY OutsideVisitFrame DEF TypeInv, RecordsOK, CountInv
<1>1. CASE CapacityPass \/ ResumeRecovery
  <2>1. disk' = disk
    BY <1>1 DEF CapacityPass, ResumeRecovery
  <2> QED BY <1>0, <2>1, ContractStutters DEF Owed, HasStaged
<1>2. ASSUME NothingToRecover \/ ArmAfterOutage
      PROVE  /\ mem.outage_generation = disk.outage_generation
             /\ mem.recovered = disk.recovered
             /\ mem.recovery_pending = disk.recovery_pending
             /\ mem.health = "up" /\ mem = ProbeSucceeded(disk)
             /\ recoverNow = RecoverNow(disk)
  <2>1. pc = "arm"
    BY <1>2 DEF NothingToRecover, ArmAfterOutage
  <2> QED BY <1>0, <2>1, ProbeSucceededFields DEF OutageInv, UnsavedProbe
<1>3. CASE NothingToRecover
  <2>1. disk' = mem /\ ~recoverNow
    BY <1>3 DEF NothingToRecover
  <2>2. disk.health # "down"
    BY <1>0, <1>2, <1>3, <2>1, ProbeSucceededFields
  <2>3. Owed(disk)' <=> Owed(disk)
    BY <1>0, <1>2, <1>3, <2>1 DEF Owed, HasStaged
  <2> QED BY <1>0, <1>2, <1>3, <2>1, <2>2, <2>3, ContractStutters
<1>4. CASE ArmAfterOutage
  <2>1. disk' = [mem EXCEPT !.recovery_pending = TRUE] /\ recoverNow
    BY <1>4 DEF ArmAfterOutage
  <2>2. /\ disk.health = "down" /\ disk'.health = "up"
        /\ disk'.outage_generation = disk.outage_generation
        /\ Owed(disk)'
    BY <1>0, <1>2, <1>4, <2>1, PendingType DEF Owed, RecoverNow
  <2>3. SettledThreads' = SettledThreads
    BY <1>0, SameSettled
  <2>4. {t \in Threads : starts[t] > 0}' = {t \in Threads : starts[t] > 0}
    BY <1>0
  <2>5. Contract!Over
    BY <2>2, <2>3, <2>4 DEF Contract!Over, Owed
  <2> QED BY <2>5 DEF Contract!Next
<1> QED BY <1>1, <1>3, <1>4 DEF Arm

\* and from the claim of the App Server to the end.
LEMMA EndPassContract ==
    ASSUME TypeInv, CountInv, CountInv', OutageInv, Traces, Pursued, Ahead,
           OwedOnDisk, NEW c \in BOOLEAN, EndPass(c), pc \in {"claim", "next"},
           RecordsStay,
           c => pc = "next" /\ todo = {} /\ ~hadError /\ ~waiting
    PROVE  [Contract!Next]_(Contract!vars)
<1>0. /\ mem \in Targets /\ Books /\ Books' /\ startTurns' = startTurns
      /\ starts' = starts /\ mem.recovery_pending /\ mem.health = "up"
      /\ Owed(disk) /\ disk.health # "down"
      /\ mem.outage_generation = disk.outage_generation
  BY DEF TypeInv, RecordsOK, CountInv, Books, EndPass, worldVars, OutageInv,
         Armed, ArmedPoints, Ahead, OwedOnDisk
<1>1. CASE c /\ ~dry
  <2>1. disk' = [mem EXCEPT !.recovery_pending = FALSE]
    BY <1>1 DEF EndPass
  <2>2. /\ disk'.health = "up" /\ ~disk'.recovery_pending
        /\ disk'.outage_generation = disk.outage_generation
        /\ disk'.recovered = mem.recovered
    BY <1>0, <2>1, PendingType
  <2>3. startTurns => \A t \in Threads : Record(t) \notin StagedActions
    BY <1>1 DEF Pursued
  <2>4. ~Owed(disk)'
    <3>1. \A t \in Threads : startTurns =>
            disk'.recovered[disk'.outage_generation][t] \notin StagedActions
      BY <1>0, <2>2, <2>3 DEF Record
    <3> QED BY <1>0, <2>2, <3>1 DEF Owed, HasStaged, StagedThreads
  <2>5. {t \in Threads : starts[t] > 0} \subseteq SettledThreads
    <3> SUFFICES ASSUME NEW t \in Threads, starts[t] > 0
                 PROVE  t \in SettledThreads
      OBVIOUS
    <3>1. Record(t) # "none"
      BY DEF Traces
    <3>2. Record(t) \in RecordActions
      BY <1>0 DEF Record, Targets, Ledgers
    <3>3. Terminal(Record(t))
      BY <2>3, <3>1, <3>2 DEF Terminal, RecordActions
    <3> QED BY <1>0, <3>3 DEF SettledThreads, Books, Record
  <2>6. SettledThreads' = SettledThreads
    BY <1>0, SameSettled
  <2>7. {t \in Threads : starts[t] > 0}' = {t \in Threads : starts[t] > 0}
    BY <1>0
  <2>8. Contract!Discharge
    BY <1>0, <2>2, <2>4, <2>5, <2>6, <2>7 DEF Contract!Discharge, Owed
  <2> QED BY <2>8 DEF Contract!Next
<1>2. CASE ~(c /\ ~dry)
  <2>1. disk' = mem
    BY <1>2 DEF EndPass
  <2>2. Owed(disk)'
    BY <1>0, <2>1 DEF Owed
  <2> QED BY <1>0, <2>1, <2>2, ContractStutters
<1> QED BY <1>1, <1>2

LEMMA MarkContract ==
    ASSUME TypeInv, CountInv, CountInv', OutageInv, Ahead, OwedOnDisk,
           NEW a \in RecordActions, Mark(cur, a), RecordSet(cur, a),
           cur \in Threads, cur' = cur, pc \in VisitPoints,
           startTurns' = startTurns, starts' = starts,
           Terminal(Record(cur)) => Terminal(a)
    PROVE  [Contract!Next]_(Contract!vars)
<1>0. /\ Books /\ Books' /\ mem.recovery_pending /\ mem.health = "up"
      /\ Owed(disk) /\ disk.health # "down"
  BY DEF CountInv, OutageInv, Armed, ArmedPoints, Ahead, OwedOnDisk,
         VisitPoints
<1>1. /\ Owed(disk)' /\ disk'.health # "down"
      /\ disk'.outage_generation = disk.outage_generation
  BY <1>0, MarkOwed
<1>2. {t \in Threads : starts[t] > 0}' = {t \in Threads : starts[t] > 0}
  OBVIOUS
<1>3. (disk.health = "down")' = (disk.health = "down")
  BY <1>0, <1>1
<1>4. Owed(disk)' = Owed(disk)
  BY <1>0, <1>1 DEF Owed
<1>5. CASE Terminal(a)
  <2>1. SettledThreads' = SettledThreads \cup {cur}
    BY <1>0, <1>5, MarkSettles
  <2>2. Contract!Settle(cur)
    BY <1>0, <1>1, <1>2, <1>3, <1>4, <2>1 DEF Contract!Settle
  <2> QED BY <2>2 DEF Contract!Next
<1>6. CASE ~Terminal(a)
  <2>1. SettledThreads' = SettledThreads
    BY <1>0, <1>6, MarkSettles
  <2> QED BY <1>1, <1>2, <1>3, <1>4, <2>1 DEF Contract!vars
<1> QED BY <1>5, <1>6

LEMMA StartContract ==
    ASSUME TypeInv, CountInv, CountInv', OwedOnDisk, cur \in Threads,
           cur' = cur, pc = "start", RecordsStay, disk' = disk, startTurns' = startTurns,
           starts' = [starts EXCEPT ![cur] = @ + 1]
    PROVE  [Contract!Next]_(Contract!vars)
<1>1. Books /\ Books' /\ Owed(disk) /\ ~Terminal(Record(cur))
  BY DEF CountInv, OpenVisit, OwedOnDisk, ArmedPoints, VisitPoints
<1>2. cur \notin SettledThreads
  BY <1>1 DEF SettledThreads, Books, Record
<1>3. SettledThreads' = SettledThreads
  BY <1>1, SameSettled
<1>4. {t \in Threads : starts[t] > 0}'
        = {t \in Threads : starts[t] > 0} \cup {cur}
  <2>1. starts \in [Threads -> Nat]
    BY DEF TypeInv, GhostTypeOK
  <2>2. \A t \in Threads :
          starts'[t] = IF t = cur THEN starts[t] + 1 ELSE starts[t]
    BY <2>1
  <2> QED BY <2>1, <2>2
<1>5. Owed(disk)' = Owed(disk)
  BY DEF Owed, HasStaged
<1>6. \E t \in Threads : Contract!Work(t)
  BY <1>1, <1>2, <1>3, <1>4, <1>5 DEF Contract!Work
<1>7. Contract!Next
  BY <1>6 DEF Contract!Next
<1> QED BY <1>7

LEMMA NextImplementsContract ==
    ASSUME CapacityEnabled = FALSE, TypeInv, CountInv, CountInv', OutageInv,
           Traces, CompletionInv, OwedOnDisk, [Next]_vars
    PROVE  [Contract!Next]_(Contract!vars)
<1> USE DEF CompletionInv
<1>0. Books /\ Books'
  BY DEF CountInv
<1>1. ASSUME RecordsStay, disk' = disk, startTurns' = startTurns,
             starts' = starts
      PROVE  UNCHANGED Contract!vars
  <2>1. Owed(disk)' <=> Owed(disk)
    BY <1>1 DEF Owed, HasStaged
  <2> QED BY <1>0, <1>1, <2>1, ContractStutters
<1>2. ASSUME NEW mode \in PassModes, BeginPass(mode)
      PROVE  [Contract!Next]_(Contract!vars)
  BY <1>2, BeginPassContract
<1>3. CASE CapacityPass \/ Arm
  BY <1>3, ArmContract
<1>4. CASE DeferToCli \/ ClaimFails
  <2>1. EndPass(FALSE) /\ pc = "claim"
    BY <1>4 DEF DeferToCli, ClaimFails
  <2>2. RecordsStay
    BY <1>4, OutsideVisitFrame DEF Claim
  <2> QED BY <2>1, <2>2, EndPassContract
<1>5. CASE FinishPass
  <2>1. EndPass(~hadError /\ ~waiting) /\ pc = "next" /\ todo = {}
    BY <1>5 DEF FinishPass
  <2>2. RecordsStay
    BY <1>5, OutsideVisitFrame
  <2>3. (~hadError /\ ~waiting) \in BOOLEAN
    OBVIOUS
  <2> QED BY <2>1, <2>2, <2>3, EndPassContract
<1>6. CASE ListThreads
  BY <1>1, <1>6, OutsideVisitFrame DEF Claim, ListThreads
<1>7. CASE \/ GiveUp \/ SkipForSafety \/ RecordResume \/ GoalChangedByResume
           \/ FollowResumedTurn \/ StopAtResume \/ RecordStart \/ Settled
  <2>1. /\ pc \in VisitPoints /\ cur \in Threads /\ cur' = cur
        /\ startTurns' = startTurns /\ starts' = starts
        /\ \/ disk' = disk /\ RecordsStay
           \/ \E a \in RecordActions :
                /\ Mark(cur, a) /\ RecordSet(cur, a)
                /\ Terminal(Record(cur)) => Terminal(a)
    BY <1>7, MarkVisitFrame
  <2> QED BY <1>1, <2>1, MarkContract
<1>8. CASE \/ \E t \in Threads : ReadThread(t)
           \/ Skip \/ ReportOnly \/ Decide \/ RereadThread
           \/ PrepareStart \/ PollThread \/ KeepPolling
  BY <1>1, <1>8, QuietVisitFrame
<1>9. CASE ResumeThread \/ ResumeReplyLost \/ StartTurn \/ StartReplyLost
  BY <1>1, <1>9, ServerFrame, StartContract
<1>10. CASE CallFails \/ Crash
  BY <1>1, <1>10, CutOffFrame
<1>11. CASE World \/ UNCHANGED vars
  BY <1>1, <1>11, WorldFrame
<1> QED BY <1>2, <1>3, <1>4, <1>5, <1>6, <1>7, <1>8, <1>9, <1>10, <1>11
        DEF Next, PassStep, Claim, Visit, Fault

(* The recovery as the code performs it keeps the contract at every step,  *)
(* crash and lost answer included: an outage that ends is owed a recovery  *)
(* from that step on, turns are started only on threads that are not       *)
(* settled, and it is discharged only when every such thread is settled.   *)
(* As for OutageNeverForgotten, the capacity pass must be switched off: it *)
(* may save the end of an outage before the recovery is armed.             *)
THEOREM RecoveryKeepsContract ==
    ASSUME CapacityEnabled = FALSE
    PROVE  Spec => ImplementsContract
<1>1. Init => OwedOnDisk
  BY DEF Init, Quiet, OwedOnDisk, ArmedPoints, VisitPoints
<1>2. TypeInv /\ CountInv /\ OutageInv /\ CompletionInv /\ OwedOnDisk
        /\ [Next]_vars => OwedOnDisk'
  BY NextKeepsOwedOnDisk DEF CompletionInv
<1>3. Spec => []OwedOnDisk
  BY <1>1, <1>2, OutageInvariance, CompletionInvariance, PTL DEF Spec
<1>4. TypeInv /\ CountInv /\ CountInv' /\ OutageInv /\ Traces /\ CompletionInv
        /\ OwedOnDisk /\ [Next]_vars => [Contract!Next]_(Contract!vars)
  BY NextImplementsContract
<1> QED BY <1>3, <1>4, InitContract, OutageInvariance, CompletionInvariance,
           PTL DEF Spec, ImplementsContract, Contract!Spec

-----------------------------------------------------------------------------
(* No turn is started over a running one, but in the residual window. *)

\* Between the last read of the thread and turn/start a turn that runs was
\* seen by that read or began after it.
Watched ==
    /\ pc = "regoal" => (thread[cur].active => begun \/ view.active)
    /\ pc = "start" => (thread[cur].active => begun)

\* What the world does to threads, a turn that begins included.
LEMMA WorldWatched ==
    ASSUME TypeInv, Watched, World
    PROVE  Watched'
<1> USE DEF guardianVars, passVars, ghostVars
<1>0. pc \in VisitPoints => cur \in Threads
  BY DEF TypeInv, Visiting
<1>1. thread \in [Threads -> ThreadViews]
  BY DEF TypeInv, WorldTypeOK
<1>2. /\ pc' = pc /\ cur' = cur /\ view' = view
  BY DEF World, UserTurn, TurnEnds, OrphanTurn, GoalChanges, ThreadAges,
         CliStarts, CliExits, NetworkFails, NetworkReturns
<1>3. ASSUME begun' = begun,
             \A t \in Threads : thread'[t].active => thread[t].active
      PROVE  Watched'
  BY <1>0, <1>2, <1>3 DEF Watched, VisitPoints
<1>4. ASSUME NEW t \in Threads, UserTurn(t) PROVE Watched'
  <2>1. /\ thread' = [thread EXCEPT ![t] = RunningThread]
        /\ begun' = (begun \/ t = cur)
    BY <1>4 DEF UserTurn, TurnBegins
  <2>2. \A u \in Threads \ {t} : thread'[u] = thread[u]
    BY <1>1, <2>1
  <2> QED BY <1>0, <1>2, <2>1, <2>2 DEF Watched, VisitPoints
<1>5. ASSUME NEW t \in Threads, TurnEnds(t) PROVE Watched'
  <2>1. begun' = begun
    BY <1>5 DEF TurnEnds
  <2>2. PICK end \in {"networkFailure", "otherEnd"} :
          thread' = [thread EXCEPT ![t].active = FALSE, ![t].last = end]
    BY <1>5 DEF TurnEnds
  <2>3. \A u \in Threads : thread'[u].active => thread[u].active
    BY <1>1, <2>2 DEF ThreadViews
  <2> QED BY <1>3, <2>1, <2>3
<1>6. ASSUME NEW t \in Threads, OrphanTurn(t) PROVE Watched'
  <2>1. /\ begun' = begun
        /\ thread' = [thread EXCEPT ![t].active = FALSE]
    BY <1>6 DEF OrphanTurn
  <2>2. \A u \in Threads : thread'[u].active => thread[u].active
    BY <1>1, <2>1 DEF ThreadViews
  <2> QED BY <1>3, <2>1, <2>2
<1>7. ASSUME NEW t \in Threads, ThreadAges(t) PROVE Watched'
  BY <1>2, <1>7 DEF ThreadAges, Watched
<1>8. ASSUME begun' = begun, thread' = thread PROVE Watched'
  BY <1>3, <1>8
<1>9. CASE \/ \E t \in Threads : GoalChanges(t)
           \/ CliStarts \/ CliExits \/ NetworkFails \/ NetworkReturns
  BY <1>8, <1>9 DEF GoalChanges, CliStarts, CliExits, NetworkFails,
                    NetworkReturns
<1> QED BY <1>4, <1>5, <1>6, <1>7, <1>9 DEF World

LEMMA NextKeepsWatched ==
    ASSUME TypeInv, CountInv, Watched, [Next]_vars
    PROVE  Watched'
<1>1. ASSUME pc' \notin {"regoal", "start"} PROVE Watched'
  BY <1>1 DEF Watched
<1>2. CASE \E mode \in PassModes : BeginPass(mode)
  BY <1>1, <1>2, BeginPassFrame
<1>3. CASE CapacityPass \/ Arm \/ Claim \/ FinishPass \/ ClaimFails
  BY <1>1, <1>3, OutsideVisitFrame
<1>4. CASE \/ GiveUp \/ SkipForSafety \/ RecordResume \/ GoalChangedByResume
           \/ FollowResumedTurn \/ StopAtResume \/ RecordStart \/ Settled
  BY <1>1, <1>4, MarkVisitFrame
<1>5. CASE \/ \E t \in Threads : ReadThread(t)
           \/ Skip \/ ReportOnly \/ Decide \/ PollThread \/ KeepPolling
  BY <1>1, <1>5 DEF ReadThread, Skip, ReportOnly, Decide, PollThread,
                    KeepPolling, NextThread
<1>6. CASE RereadThread
  BY <1>6 DEF RereadThread, Watched, worldVars
<1>7. CASE PrepareStart
  BY <1>7 DEF PrepareStart, Watched, worldVars, passVars, ghostVars
<1>8. CASE ResumeThread \/ ResumeReplyLost \/ StartTurn \/ StartReplyLost
  BY <1>1, <1>8, ServerFrame
<1>9. CASE CallFails \/ Crash
  BY <1>1, <1>9, CutOffFrame
<1>10. CASE World
  BY <1>10, WorldWatched
<1>11. CASE UNCHANGED vars
  BY <1>11 DEF vars, Watched, passVars, worldVars, ghostVars
<1> QED BY <1>2, <1>3, <1>4, <1>5, <1>6, <1>7, <1>8, <1>9, <1>10, <1>11
        DEF Next, PassStep, Visit, Fault

LEMMA OverlapInWindow ==
    ASSUME TypeInv, CountInv, Watched, [Next]_vars,
           NEW t \in Threads, starts'[t] > starts[t], thread[t].active
    PROVE  begun
<1>0. starts \in [Threads -> Nat]
  BY DEF TypeInv, GhostTypeOK
<1>1. starts' # starts
  BY <1>0
<1>2. ~\E mode \in PassModes : BeginPass(mode)
  <2>1. starts' # [u \in Threads |-> 0]
    BY <1>0
  <2> QED BY <1>1, <2>1, BeginPassFrame
<1>3. ~(CapacityPass \/ Arm \/ Claim \/ FinishPass \/ ClaimFails)
  BY <1>1, OutsideVisitFrame
<1>4. ~\/ GiveUp \/ SkipForSafety \/ RecordResume \/ GoalChangedByResume
       \/ FollowResumedTurn \/ StopAtResume \/ RecordStart \/ Settled
  BY <1>1, MarkVisitFrame
<1>5. ~\/ \E u \in Threads : ReadThread(u)
       \/ Skip \/ ReportOnly \/ Decide \/ RereadThread
       \/ PrepareStart \/ PollThread \/ KeepPolling
  BY <1>1, QuietVisitFrame
<1>6. ~(CallFails \/ Crash \/ World \/ UNCHANGED vars)
  BY <1>1, CutOffFrame, WorldFrame
<1>7. ResumeThread \/ ResumeReplyLost \/ StartTurn \/ StartReplyLost
  BY <1>2, <1>3, <1>4, <1>5, <1>6 DEF Next, PassStep, Visit, Fault
<1>8. pc = "start" /\ starts' = [starts EXCEPT ![cur] = @ + 1]
  BY <1>1, <1>7, ServerFrame
<1>9. t = cur
  BY <1>0, <1>8
<1> QED BY <1>8, <1>9 DEF Watched

(* A recovery turn is started over a running turn only when that turn      *)
(* began after the pass's last read of the thread: however long the calls  *)
(* take and whatever users do, the residual race is no wider than that.    *)
THEOREM OverlapIsResidual == Spec => OverlapOnlyInResidualWindow
<1>1. Init => Watched
  BY DEF Init, Quiet, Watched
<1>2. TypeInv /\ CountInv /\ Watched /\ [Next]_vars => Watched'
  BY NextKeepsWatched
<1>3. TypeInv /\ CountInv /\ Watched /\ [Next]_vars
        => [\A t \in Threads :
              starts'[t] > starts[t] /\ thread[t].active => begun]_vars
  BY OverlapInWindow
<1> QED BY <1>1, <1>2, <1>3, CountInvariance, PTL
        DEF Spec, OverlapOnlyInResidualWindow
=============================================================================
