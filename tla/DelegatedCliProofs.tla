------------------------- MODULE DelegatedCliProofs -------------------------
(***************************************************************************)
(* Proofs about DelegatedCli: type correctness, one continuation per       *)
(* evidence turn, no third try of a rejected prompt, the residual windows, *)
(* the precedence of a native CLI, and recovery turns that are seen out.   *)
(***************************************************************************)
EXTENDS DelegatedCli, TLAPS

-----------------------------------------------------------------------------
(* Types, the order of the turn ids of a thread, and how many are used.    *)

\* Where a visit goes on to a mutation whatever happens to its Goal.
Mutating == pc \in {"reactivate", "resume", "resumed", "start"}

\* From the start of the turn to the end of the wait for it.
Recording == pc \in {"record", "settle", "settleGoal"}

Ordered(th, u) ==
    /\ th.last.id <= u
    /\ th.before.id < th.last.id \/ (th.last.id = 0 /\ th.before.id = 0)
    /\ th.last.id = 0 => th.last.status = "none"
    /\ th.before.id = 0 => th.before.status = "none"
    /\ th.active => th.last.status = "inProgress"

\* A thread has more turns than MaxTurns when a pass started one for a Goal
\* nobody continues any more, or one that is not seen to end yet.
Spent(t) == used[t] > MaxTurns + faults

TurnsBounded ==
    \A t \in Threads :
        /\ used[t] <= MaxTurns + 1 + faults
        /\ Spent(t) =>
             \/ goal[t] \notin Continuable /\ ~(cur = t /\ Mutating)
             \/ /\ Recording /\ cur = t /\ thread[t].active
                /\ pc = "settleGoal" => seenActive

LedgerType ==
    /\ disk \in [Threads -> Records]
    /\ mem \in [Threads -> Records]
    /\ recoveries \in [Threads -> SUBSET Recoveries]
    /\ untold \in [Threads -> SUBSET Recoveries]

\* A thread is visited everywhere but between two visits and after them.
VisitType ==
    /\ pc \in PassPoints \cup {"idle"}
    /\ pc \notin {"idle", "list", "next", "close"} => cur \in Threads
    /\ dry \in BOOLEAN
    /\ todo \subseteq Threads
    /\ listed \in [Threads -> Nat]
    /\ cur \in Threads \cup {Nobody}
    /\ evidence \in TurnIds
    /\ recovery \in TurnIds

SeenType ==
    /\ seenGoal \in Goals
    /\ seenActive \in BOOLEAN
    /\ idleSeen \in {0, 1}
    /\ accounted \in BOOLEAN
    /\ begun \in BOOLEAN
    /\ goalMoved \in BOOLEAN

ThreadType ==
    /\ thread \in [Threads -> ThreadStates]
    /\ used \in [Threads -> TurnIds]
    /\ hosted \subseteq Threads
    /\ \A t \in Threads : Ordered(thread[t], used[t])
    /\ \A t \in hosted : thread[t].active

WorldType ==
    /\ goal \in [Threads -> Goals]
    /\ loaded \subseteq Threads
    /\ disturbances \in 0 .. MaxDisturbances
    /\ faults \in 0 .. MaxFaults
    /\ ProbeTypeOK

TypeInv ==
    LedgerType /\ VisitType /\ SeenType /\ ThreadType /\ WorldType
    /\ TurnsBounded

LEMMA Numbers ==
    /\ MaxTurns \in Nat \ {0} /\ MaxDisturbances \in Nat /\ MaxFaults \in Nat
    /\ TurnIds = 0 .. MaxTurns + 1 + MaxFaults
    /\ 0 \in TurnIds /\ TurnIds \subseteq Nat
    /\ AllowedThreads \subseteq Threads /\ PassModes \subseteq BOOLEAN
  <1>1. /\ MaxTurns \in Nat \ {0} /\ MaxDisturbances \in Nat
        /\ MaxFaults \in Nat
    BY DelegatedAssumption
  <1>2. AllowedThreads \subseteq Threads /\ PassModes \subseteq BOOLEAN
    BY DelegatedAssumption
  <1> QED BY <1>1, <1>2 DEF TurnIds

\* What a step that starts a turn makes of the thread.
Began(th, u, second) ==
    [th EXCEPT !.active = TRUE, !.before = th.last,
               !.last = [id |-> u + 1, status |-> "inProgress"],
               !.stale = FALSE, !.updated = second]

LEMMA BeganType ==
    ASSUME NEW th \in ThreadStates, NEW u \in TurnIds, u + 1 \in TurnIds,
           Ordered(th, u), NEW second \in Nat
    PROVE  LET began == Began(th, u, second)
           IN  /\ began \in ThreadStates
               /\ Ordered(began, u + 1)
               /\ began.active
               /\ began.last.id = u + 1
               /\ began.before = th.last
  <1> DEFINE turn == [id |-> u + 1, status |-> "inProgress"]
             r == [th EXCEPT !.active = TRUE, !.before = th.last,
                             !.last = turn, !.stale = FALSE, !.updated = second]
  <1>1. turn \in Turns /\ turn.id = u + 1 /\ turn.status = "inProgress"
    BY DEF Turns
  <1>2. r \in ThreadStates
    <2> DEFINE placed == [th EXCEPT !.active = TRUE, !.before = th.last]
               begun_ == [placed EXCEPT !.last = turn, !.stale = FALSE]
    <2> HIDE DEF turn
    <2>1. placed \in ThreadStates
      BY DEF ThreadStates
    <2>2. begun_ \in ThreadStates
      <3> HIDE DEF placed
      <3> QED BY <1>1, <2>1 DEF ThreadStates
    <2>3. [begun_ EXCEPT !.updated = second] \in ThreadStates
      <3> HIDE DEF begun_
      <3> QED BY <2>2 DEF ThreadStates
    <2> QED BY <2>3
  <1>5. r.active = TRUE /\ r.last = turn /\ r.before = th.last
    <2> HIDE DEF turn
    <2> QED BY DEF ThreadStates
  <1>3. th.last.id \in Nat /\ u \in Nat
    BY Numbers DEF ThreadStates, Turns
  <1>4. r = Began(th, u, second)
    BY DEF Began
  <1> HIDE DEF turn, r
  <1> QED BY <1>1, <1>2, <1>3, <1>4, <1>5 DEF Ordered

LEMMA TurnBeginsOn ==
    ASSUME TypeInv, NEW t \in Threads, TurnBegins(t)
    PROVE  /\ used' = [used EXCEPT ![t] = used[t] + 1]
           /\ \E second \in Nat :
                thread' = [thread EXCEPT
                             ![t] = Began(thread[t], used[t], second)]
           /\ begun' = (begun \/ t = cur)
           /\ accounted' = (accounted /\ t # cur)
  <1>1. Seconds(t) \subseteq Nat
    BY DEF Seconds, TypeInv, ThreadType, ThreadStates
  <1>2. PICK second \in Seconds(t) :
          thread' = [thread EXCEPT ![t] = Began(thread[t], used[t], second)]
    BY Zenon DEF TurnBegins, Began
  <1>3. /\ used' = [used EXCEPT ![t] = used[t] + 1]
        /\ begun' = (begun \/ t = cur)
        /\ accounted' = (accounted /\ t # cur)
    BY DEF TurnBegins
  <1>4. \E s \in Nat :
          thread' = [thread EXCEPT ![t] = Began(thread[t], used[t], s)]
    BY <1>1, <1>2, Zenon
  <1> QED BY <1>3, <1>4, Zenon

\* What the end of its App Server makes of a thread.
Stopped(th, status) == [th EXCEPT !.active = FALSE, !.last.status = status]
Lost(th) == [th EXCEPT !.active = FALSE, !.last = th.before, !.before = NoTurn]

LEMMA StoppedType ==
    ASSUME NEW th \in ThreadStates, NEW u \in TurnIds, Ordered(th, u),
           th.active, NEW s \in TurnEnds \cup {th.last.status}
    PROVE  /\ Stopped(th, s) \in ThreadStates
           /\ Ordered(Stopped(th, s), u)
           /\ ~Stopped(th, s).active
           /\ Stopped(th, s).last.id = th.last.id
           /\ Stopped(th, s).before = th.before
  <1>1. /\ Stopped(th, s).last = [id |-> th.last.id, status |-> s]
        /\ Stopped(th, s).before = th.before
        /\ Stopped(th, s).active = FALSE
    BY DEF Stopped, ThreadStates, Turns
  <1>2. Stopped(th, s) \in ThreadStates
    BY DEF Stopped, ThreadStates, Turns
  <1>3. th.last.id # 0
    BY DEF Ordered
  <1> QED BY <1>1, <1>2, <1>3 DEF Ordered

LEMMA IdleType ==
    ASSUME NEW th \in ThreadStates, NEW u \in TurnIds, Ordered(th, u)
    PROVE  LET idle == [th EXCEPT !.active = FALSE]
           IN  /\ idle \in ThreadStates /\ Ordered(idle, u)
               /\ ~idle.active /\ idle.last = th.last
               /\ idle.before = th.before
  BY DEF Ordered, ThreadStates

LEMMA LostType ==
    ASSUME NEW th \in ThreadStates, NEW u \in TurnIds, Ordered(th, u)
    PROVE  /\ Lost(th) \in ThreadStates
           /\ Ordered(Lost(th), u)
           /\ ~Lost(th).active
           /\ Lost(th).last = th.before
           /\ Lost(th).before = NoTurn
  <1>1. NoTurn \in Turns /\ th.before \in Turns
    BY Numbers DEF NoTurn, Turns, ThreadStates
  <1>2. /\ Lost(th) \in ThreadStates /\ ~Lost(th).active
        /\ Lost(th).last = th.before /\ Lost(th).before = NoTurn
    BY <1>1 DEF Lost, ThreadStates
  <1>3. th.before.id \in Nat /\ th.last.id \in Nat /\ u \in Nat
    BY <1>1, Numbers DEF ThreadStates, Turns
  <1> QED BY <1>2, <1>3 DEF Ordered, NoTurn
-----------------------------------------------------------------------------
(* Where the pass stands. *)

LEMMA NextThreadType ==
    ASSUME TypeInv, NextThread, UNCHANGED <<dry, listed>>, todo' \subseteq todo,
           cur' \in Threads \cup {Nobody}
    PROVE  VisitType'
  <1>1. pc' = "next" /\ evidence' = 0 /\ recovery' = 0
    BY DEF NextThread
  <1> QED BY <1>1, Numbers DEF VisitType, TypeInv, PassPoints

LEMMA ForgetPassType ==
    ASSUME TypeInv, ForgetPass PROVE VisitType' /\ SeenType'
  <1>1. VisitType'
    BY Numbers DEF ForgetPass, VisitType
  <1>2. SeenType'
    BY DEF ForgetPass, SeenType, Goals
  <1> QED BY <1>1, <1>2

LEMMA SameVisit ==
    ASSUME TypeInv, UNCHANGED <<dry, todo, listed, cur, evidence, recovery>>,
           pc' \in PassPoints \cup {"idle"},
           \/ pc' = pc
           \/ pc' \in {"list", "next", "close"}
           \/ cur \in Threads
    PROVE  VisitType'
  BY DEF VisitType, TypeInv

LEMMA PassVisit ==
    ASSUME TypeInv, PassStep PROVE VisitType'
  <1>t. /\ pc \notin {"idle", "list", "next", "close"} => cur \in Threads
        /\ cur \in Threads \cup {Nobody}
        /\ \A t \in Threads : /\ thread[t] \in ThreadStates
                              /\ used[t] \in TurnIds
    BY DEF TypeInv, VisitType, ThreadType
  <1>1. CASE ListThreads
    <2>1. {t \in AllowedThreads : ~thread[t].stale /\ ~KnownGoalless(t)}
             \subseteq Threads
      BY Numbers
    <2>2. [t \in Threads |-> thread[t].updated] \in [Threads -> Nat]
      BY <1>t DEF ThreadStates
    <2>3. /\ pc' = "next" /\ UNCHANGED <<dry, cur, evidence, recovery>>
          /\ todo' \subseteq Threads /\ listed' \in [Threads -> Nat]
      BY <1>1, <2>1, <2>2 DEF ListThreads
    <2> QED BY <2>3 DEF VisitType, TypeInv, PassPoints
  <1>2. CASE \/ \E t \in Threads : ObserveNoGoal(t)
             \/ SkipThread \/ FreshReadDiffers \/ FreshGoalHeld \/ Settled
    <2>1. /\ NextThread /\ UNCHANGED <<dry, listed>> /\ todo' \subseteq todo
          /\ cur' \in Threads \cup {Nobody}
      BY <1>t, <1>2, Zenon DEF ObserveNoGoal, SkipThread, FreshReadDiffers,
                               FreshGoalHeld, Settled
    <2> QED BY <2>1, NextThreadType
  <1>3. CASE \E t \in Threads : GetGoal(t)
    <2>1. /\ UNCHANGED <<dry, listed, evidence, recovery>>
          /\ todo' \subseteq todo /\ cur' \in Threads /\ pc' = "read"
      BY <1>3, Zenon DEF GetGoal
    <2> QED BY <2>1 DEF VisitType, TypeInv, PassPoints
  <1>4. CASE ChooseEvidence
    <2>1. thread[cur].last.id \in TurnIds
      BY <1>t, <1>4 DEF ChooseEvidence, ThreadStates, Turns
    <2> QED BY <1>t, <1>4, <2>1 DEF ChooseEvidence, VisitType, TypeInv,
                                    PassPoints
  <1>5. CASE FollowResumedTurn \/ StartTurn
    <2>1. thread[cur].last.id \in TurnIds
      BY <1>t, <1>5 DEF FollowResumedTurn, StartTurn, ThreadStates, Turns
    <2>2. pc = "start" => used[cur] + 1 \in TurnIds
      BY <1>t, Numbers DEF TypeInv, TurnsBounded, Spent, Mutating, Recording,
                           WorldType
    <2>3. /\ pc \in {"resumed", "start"} /\ pc' = "record"
          /\ recovery' \in TurnIds
          /\ UNCHANGED <<dry, todo, listed, cur, evidence>>
      BY <1>5, <2>1, <2>2 DEF FollowResumedTurn, StartTurn
    <2> QED BY <1>t, <2>3 DEF VisitType, TypeInv, PassPoints
  <1>6. CASE \/ FreshRead \/ FreshGoal \/ ReactivateGoal
             \/ ReactivationDiffers \/ ReactivationRefused \/ ResumeThread
             \/ PrepareStart \/ RecordStart \/ PollThread \/ KeepPolling
    <2>1. /\ UNCHANGED <<dry, todo, listed, cur, evidence, recovery>>
          /\ pc \notin {"idle", "list", "next", "close"}
          /\ pc' \in PassPoints
      BY <1>6 DEF FreshRead, FreshGoal, ReactivateGoal, ReactivationDiffers,
         ReactivationRefused, ResumeThread, PrepareStart, RecordStart,
         PollThread, KeepPolling, passVars, PassPoints
    <2> QED BY <1>t, <2>1, SameVisit
  <1>7. CASE PassEnds
    BY <1>7, ForgetPassType DEF PassEnds
  <1> QED BY <1>1, <1>2, <1>3, <1>4, <1>5, <1>6, <1>7, Zenon DEF PassStep

LEMMA OtherVisit ==
    ASSUME TypeInv,
           \/ LeaveToCli \/ \E mode \in PassModes : Begin(mode)
           \/ Failure \/ World \/ UNCHANGED vars
    PROVE  VisitType'
  <1>1. CASE LeaveToCli \/ PassRaises \/ World \/ UNCHANGED vars
    <2>1. UNCHANGED <<pc, passVars>>
      BY <1>1, Zenon DEF LeaveToCli, PassRaises, World, UserTurn,
         GoalContinues, TurnEndsOn, GoalSet, GoalWithdrawn, ThreadAges,
         CliStarts, CliExits, ListExpires, guardianVars, vars
    <2>2. UNCHANGED <<dry, todo, listed, cur, evidence, recovery>>
      BY <2>1 DEF passVars
    <2>3. pc' \in PassPoints \cup {"idle"}
      BY <2>1 DEF TypeInv, VisitType
    <2> QED BY <2>1, <2>2, <2>3, SameVisit
  <1>2. CASE \E mode \in PassModes : Begin(mode)
    <2>1. /\ dry' \in BOOLEAN /\ pc' = "list"
          /\ UNCHANGED <<todo, listed, cur, evidence, recovery>>
      BY <1>2, Numbers DEF Begin, BeginPass, BeginPassOnOldList
    <2> QED BY <2>1 DEF VisitType, TypeInv, PassPoints
  <1>3. CASE CallFails \/ ReplyLost \/ SaveFails
    <2>1. UNCHANGED passVars /\ pc' = "close"
      BY <1>3, Zenon DEF CallFails, ReplyLost, SaveFails
    <2> QED BY <2>1, SameVisit DEF PassPoints, passVars
  <1>4. CASE Crash
    BY <1>4, ForgetPassType DEF Crash
  <1> QED BY <1>1, <1>2, <1>3, <1>4, Zenon DEF Failure

LEMMA SeenStep ==
    ASSUME TypeInv, [Next]_vars PROVE SeenType'
  <1>t. /\ SeenType /\ VisitType
        /\ \A t \in Threads : /\ goal[t] \in Goals
                              /\ thread[t].active \in BOOLEAN
    BY DEF TypeInv, WorldType, ThreadType, ThreadStates
  <1>1. CASE NextThread
    BY <1>1 DEF NextThread, SeenType, Goals
  <1>2. CASE ForgetPass
    BY <1>2, ForgetPassType
  <1>3. CASE UNCHANGED <<seenGoal, seenActive, idleSeen>>
             /\ accounted' \in BOOLEAN /\ begun' \in BOOLEAN
             /\ goalMoved' \in BOOLEAN
    BY <1>t, <1>3 DEF SeenType
  <1>4. CASE \E t \in Threads : ObserveNoGoal(t)
    BY <1>1, <1>4, Zenon DEF ObserveNoGoal
  <1>5. CASE SkipThread \/ FreshReadDiffers \/ FreshGoalHeld \/ Settled
    BY <1>1, <1>5, Zenon DEF SkipThread, FreshReadDiffers, FreshGoalHeld, Settled
  <1>6. CASE PassEnds \/ Crash
    BY <1>2, <1>6, Zenon DEF PassEnds, Crash
  <1>7. CASE (\E t \in Threads : GetGoal(t)) \/ FreshGoal
    <2>1. /\ UNCHANGED <<seenActive, idleSeen>>
          /\ \E t \in Threads : seenGoal' = goal[t]
          /\ accounted' = TRUE /\ goalMoved' = FALSE
          /\ begun' = FALSE \/ begun' = begun
      BY <1>t, <1>7 DEF GetGoal, FreshGoal, VisitType
    <2> QED BY <1>t, <2>1 DEF SeenType
  <1>8. CASE PollThread
    <2>1. /\ UNCHANGED <<seenGoal, idleSeen, accounted, goalMoved>>
          /\ cur \in Threads /\ seenActive' = thread[cur].active
          /\ begun' = FALSE
      BY <1>t, <1>8 DEF PollThread, worldVars, VisitType
    <2> QED BY <1>t, <2>1 DEF SeenType
  <1>9. CASE KeepPolling
    <2>1. /\ UNCHANGED <<seenGoal, seenActive, accounted, goalMoved, begun>>
          /\ idleSeen' \in {0, 1}
      BY <1>9 DEF KeepPolling, worldVars, ghostVars
    <2> QED BY <1>t, <2>1 DEF SeenType
  <1>10. CASE \/ LeaveToCli \/ (\E mode \in PassModes : Begin(mode))
              \/ ListThreads \/ ChooseEvidence \/ FreshRead \/ ReactivateGoal
              \/ ReactivationDiffers \/ ReactivationRefused \/ ResumeThread
              \/ FollowResumedTurn \/ PrepareStart \/ RecordStart
              \/ PassRaises \/ CallFails \/ SaveFails
              \/ CliStarts \/ CliExits \/ ListExpires \/ UNCHANGED vars
    <2>1. /\ UNCHANGED <<seenGoal, seenActive, idleSeen, accounted, goalMoved>>
          /\ begun' = begun \/ begun' = FALSE
      BY <1>10, Zenon DEF LeaveToCli, Begin, BeginPass, BeginPassOnOldList,
         ListThreads, ChooseEvidence, FreshRead, ReactivateGoal,
         ReactivationDiffers, ReactivationRefused, ResumeThread,
         FollowResumedTurn, PrepareStart, RecordStart, PassRaises, CallFails,
         SaveFails, CliStarts, CliExits, ListExpires, vars, passVars,
         worldVars, guardianVars, ghostVars
    <2> QED BY <1>t, <1>3, <2>1 DEF SeenType
  <1>11. CASE StartTurn \/ ReplyLost
    <2>1. /\ UNCHANGED <<seenGoal, seenActive, idleSeen, goalMoved>>
          /\ accounted' = accounted \/ accounted' \in BOOLEAN
          /\ begun' = begun \/ begun' \in BOOLEAN
      BY <1>11 DEF StartTurn, ReplyLost, ServerStartsTurn, TurnBegins, passVars
    <2> QED BY <1>t, <1>3, <2>1 DEF SeenType
  <1>12. ASSUME NEW t \in Threads, \/ UserTurn(t) \/ GoalContinues(t)
                \/ TurnEndsOn(t) \/ GoalSet(t) \/ GoalWithdrawn(t)
                \/ ThreadAges(t)
         PROVE  SeenType'
    <2>1. /\ UNCHANGED <<seenGoal, seenActive, idleSeen>>
          /\ goalMoved' = goalMoved \/ goalMoved' \in BOOLEAN
          /\ accounted' = accounted \/ accounted' \in BOOLEAN
          /\ begun' = begun \/ begun' \in BOOLEAN
      BY <1>12 DEF UserTurn, GoalContinues, TurnEndsOn, GoalSet, GoalWithdrawn,
         ThreadAges, TurnBegins, GoalBecomes, guardianVars, passVars
    <2> QED BY <1>t, <1>3, <2>1 DEF SeenType
  <1> QED BY <1>4, <1>5, <1>6, <1>7, <1>8, <1>9, <1>10, <1>11, <1>12, Zenon
          DEF Next, PassStep, Failure, World

-----------------------------------------------------------------------------
(* The ledger, the threads and the rest of the world. *)

LEMMA RecordTypes ==
    /\ NoRecord \in Records
    /\ \A at \in Nat : NoGoalRecord(at) \in Records
    /\ \A e, r \in TurnIds :
         /\ Continuation("continuation_started", e, r) \in Records
         /\ Continuation("continuation_settled", e, r) \in Records
  BY Numbers DEF Records, NoRecord, NoGoalRecord, Continuation

LEMMA SameLedger ==
    ASSUME TypeInv, disk' = disk \/ disk' = mem, mem' = mem \/ mem' = disk,
           UNCHANGED ledgerGhosts
    PROVE  LedgerType'
  BY DEF LedgerType, TypeInv, ledgerGhosts

LEMMA WriteType ==
    ASSUME TypeInv, NEW t \in Threads, NEW r \in Records,
           mem' = [mem EXCEPT ![t] = r], disk' = mem' \/ disk' = disk,
           recoveries' \in [Threads -> SUBSET Recoveries],
           untold' \in [Threads -> SUBSET Recoveries]
    PROVE  LedgerType'
  BY DEF LedgerType, TypeInv

\* What a step may do to a thread: leave its turns as they are, but for one
\* that ends, start another, or lose the last one with its App Server.
TurnsKept(t) ==
    /\ used'[t] = used[t]
    /\ thread'[t].last.id = thread[t].last.id
    /\ thread'[t].before = thread[t].before
    /\ thread'[t].active => thread[t].active
    /\ ~thread[t].active => thread'[t].last = thread[t].last

TurnAdded(t) ==
    /\ used'[t] = used[t] + 1
    /\ thread'[t].active
    /\ thread'[t].last.id = used[t] + 1
    /\ thread'[t].before = thread[t].last

TurnLost(t) ==
    /\ used'[t] = used[t]
    /\ ~thread'[t].active
    /\ thread'[t].last = thread[t].before
    /\ thread'[t].before = NoTurn

LEMMA TurnBeginsType ==
    ASSUME TypeInv, NEW t \in Threads, TurnBegins(t), used[t] + 1 \in TurnIds,
           hosted' = hosted \/ hosted' = hosted \cup {t}
    PROVE  /\ ThreadType'
           /\ TurnAdded(t)
           /\ \A s \in Threads \ {t} : TurnsKept(s) /\ thread'[s] = thread[s]
  <1>1. /\ ThreadType
        /\ thread[t] \in ThreadStates /\ used[t] \in TurnIds
        /\ Ordered(thread[t], used[t])
    BY DEF TypeInv, ThreadType
  <1>2. used' = [used EXCEPT ![t] = used[t] + 1]
    BY TurnBeginsOn
  <1>9. PICK second \in Nat :
          thread' = [thread EXCEPT ![t] = Began(thread[t], used[t], second)]
    BY TurnBeginsOn
  <1> DEFINE th == Began(thread[t], used[t], second)
  <1>3. /\ th \in ThreadStates /\ Ordered(th, used[t] + 1)
        /\ th.active /\ th.last.id = used[t] + 1 /\ th.before = thread[t].last
    BY <1>1, BeganType
  <1> HIDE DEF th
  <1>4. /\ thread' \in [Threads -> ThreadStates]
        /\ used' \in [Threads -> TurnIds]
        /\ thread'[t] = th /\ used'[t] = used[t] + 1
        /\ \A s \in Threads \ {t} : thread'[s] = thread[s] /\ used'[s] = used[s]
    BY <1>1, <1>2, <1>3, <1>9 DEF ThreadType, th
  <1>5. TurnAdded(t)
    BY <1>3, <1>4 DEF TurnAdded
  <1>6. \A s \in Threads \ {t} : TurnsKept(s)
    BY <1>4 DEF TurnsKept
  <1>7. \A s \in Threads : Ordered(thread[s], used[s])'
    BY <1>1, <1>3, <1>4 DEF ThreadType, Ordered
  <1>8. /\ hosted' \subseteq Threads
        /\ \A s \in hosted' : thread'[s].active
    BY <1>1, <1>3, <1>4 DEF ThreadType
  <1> QED BY <1>4, <1>5, <1>6, <1>7, <1>8 DEF ThreadType

LEMMA AbandonedType ==
    ASSUME TypeInv, NEW t \in hosted, NEW th \in Abandoned(t)
    PROVE  /\ th \in ThreadStates /\ Ordered(th, used[t]) /\ ~th.active
           /\ \/ th.last.id = thread[t].last.id /\ th.before = thread[t].before
              \/ th.last = thread[t].before /\ th.before = NoTurn
  <1>1. /\ thread[t] \in ThreadStates /\ used[t] \in TurnIds
        /\ Ordered(thread[t], used[t]) /\ thread[t].active
    BY DEF TypeInv, ThreadType
  <1>2. CASE th = Stopped(thread[t], "ended")
    BY <1>1, <1>2, StoppedType DEF TurnEnds
  <1>3. CASE th = [thread[t] EXCEPT !.active = FALSE]
    BY <1>1, <1>3, IdleType
  <1>4. CASE th = Lost(thread[t])
    BY <1>1, <1>4, LostType
  <1> QED BY <1>2, <1>3, <1>4 DEF Abandoned, Stopped, Lost

LEMMA ServerDiesType ==
    ASSUME TypeInv, ServerDies, used' = used
    PROVE  /\ ThreadType'
           /\ \A t \in Threads : TurnsKept(t) \/ TurnLost(t)
           /\ \A t \in Threads \ hosted : thread'[t] = thread[t]
           /\ hosted' = {} /\ loaded' = {}
  <1>1. ThreadType
    BY DEF TypeInv
  <1>2. PICK after :
          /\ \A t \in hosted : after[t] \in Abandoned(t)
          /\ thread' = [t \in Threads |->
                          IF t \in hosted THEN after[t] ELSE thread[t]]
    BY DEF ServerDies
  <1>3. /\ \A t \in hosted : thread'[t] \in Abandoned(t)
        /\ \A t \in Threads \ hosted : thread'[t] = thread[t]
        /\ hosted' = {} /\ loaded' = {}
    BY <1>1, <1>2 DEF ServerDies, ThreadType
  <1>4. \A t \in hosted :
          /\ thread'[t] \in ThreadStates
          /\ Ordered(thread'[t], used[t]) /\ ~thread'[t].active
          /\ \/ /\ thread'[t].last.id = thread[t].last.id
                /\ thread'[t].before = thread[t].before
             \/ thread'[t].last = thread[t].before /\ thread'[t].before = NoTurn
    BY <1>3, AbandonedType
  <1>5. thread' \in [Threads -> ThreadStates]
    BY <1>1, <1>2, <1>3, <1>4 DEF ThreadType
  <1>6. \A t \in Threads : Ordered(thread[t], used[t])'
    BY <1>1, <1>3, <1>4 DEF ThreadType, Ordered
  <1>7. \A t \in Threads : TurnsKept(t) \/ TurnLost(t)
    BY <1>1, <1>3, <1>4 DEF TurnsKept, TurnLost, ThreadType
  <1> QED BY <1>1, <1>3, <1>5, <1>6, <1>7 DEF ThreadType

LEMMA SameThreads ==
    ASSUME TypeInv, UNCHANGED <<thread, used>>, hosted' \subseteq hosted
    PROVE  ThreadType' /\ \A t \in Threads : TurnsKept(t)
  BY DEF TypeInv, ThreadType, TurnsKept

\* A thread shows a change that is none of its turns.
LEMMA ShownType ==
    ASSUME TypeInv, NEW t \in Threads, UNCHANGED <<used, hosted>>,
           \/ \E second \in Seconds(t) :
                thread' = [thread EXCEPT ![t].updated = second]
           \/ thread' = [thread EXCEPT ![t].stale = TRUE]
    PROVE  ThreadType' /\ \A s \in Threads : TurnsKept(s)
  <1>1. ThreadType /\ thread[t] \in ThreadStates /\ Seconds(t) \subseteq Nat
    BY DEF TypeInv, ThreadType, ThreadStates, Seconds
  <1>2. ASSUME NEW th, \/ \E second \in Nat :
                            th = [thread[t] EXCEPT !.updated = second]
                       \/ th = [thread[t] EXCEPT !.stale = TRUE]
        PROVE  /\ th \in ThreadStates
               /\ th.active = thread[t].active /\ th.last = thread[t].last
               /\ th.before = thread[t].before
    <2>1. CASE \E second \in Nat : th = [thread[t] EXCEPT !.updated = second]
      BY <1>1, <2>1 DEF ThreadStates
    <2>2. CASE th = [thread[t] EXCEPT !.stale = TRUE]
      BY <1>1, <2>2 DEF ThreadStates
    <2> QED BY <1>2, <2>1, <2>2
  <1>3. PICK th : /\ thread' = [thread EXCEPT ![t] = th]
                  /\ \/ \E second \in Nat :
                          th = [thread[t] EXCEPT !.updated = second]
                     \/ th = [thread[t] EXCEPT !.stale = TRUE]
    BY <1>1
  <1>4. /\ thread' \in [Threads -> ThreadStates]
        /\ \A s \in Threads :
             /\ thread'[s].active = thread[s].active
             /\ thread'[s].last = thread[s].last
             /\ thread'[s].before = thread[s].before
    BY <1>1, <1>2, <1>3 DEF ThreadType
  <1>5. \A s \in Threads : TurnsKept(s)
    BY <1>4 DEF TurnsKept
  <1>6. \A s \in Threads : Ordered(thread[s], used[s])'
    BY <1>1, <1>4 DEF ThreadType, Ordered
  <1> QED BY <1>1, <1>4, <1>5, <1>6 DEF ThreadType

LEMMA TurnEndsType ==
    ASSUME TypeInv, NEW t \in Threads, TurnEndsOn(t)
    PROVE  /\ ThreadType' /\ \A s \in Threads : TurnsKept(s)
           /\ ~thread'[t].active
           /\ \A s \in Threads \ {t} : thread'[s] = thread[s]
  <1>1. /\ ThreadType /\ thread[t] \in ThreadStates /\ used[t] \in TurnIds
        /\ Ordered(thread[t], used[t])
    BY DEF TypeInv, ThreadType
  <1>2. PICK how \in TurnEnds :
          thread' = [thread EXCEPT ![t].active = FALSE, ![t].last.status = how]
    BY DEF TurnEndsOn
  <1>3. /\ thread[t].active /\ used' = used /\ hosted' = hosted \ {t}
    BY DEF TurnEndsOn
  <1> DEFINE th == Stopped(thread[t], how)
  <1>4. thread' = [thread EXCEPT ![t] = th]
    BY <1>2 DEF Stopped
  <1>5. /\ th \in ThreadStates /\ Ordered(th, used[t]) /\ ~th.active
        /\ th.last.id = thread[t].last.id /\ th.before = thread[t].before
    BY <1>1, <1>3, StoppedType
  <1> HIDE DEF th
  <1>6. /\ thread' \in [Threads -> ThreadStates]
        /\ thread'[t] = th /\ \A s \in Threads \ {t} : thread'[s] = thread[s]
    BY <1>1, <1>4, <1>5 DEF ThreadType
  <1>7. \A s \in Threads : TurnsKept(s)
    BY <1>3, <1>5, <1>6 DEF TurnsKept
  <1>8. \A s \in Threads : Ordered(thread[s], used[s])'
    BY <1>1, <1>3, <1>5, <1>6 DEF ThreadType, Ordered
  <1> QED BY <1>1, <1>3, <1>5, <1>6, <1>7, <1>8 DEF ThreadType

\* A turn that a pass starts is within the bound.
LEMMA StartBound ==
    ASSUME TypeInv, pc = "start"
    PROVE  /\ cur \in Threads
           /\ used[cur] <= MaxTurns + faults
           /\ used[cur] + 1 \in TurnIds
  <1>1. /\ cur \in Threads /\ used[cur] \in TurnIds
        /\ faults \in 0 .. MaxFaults
    BY DEF TypeInv, VisitType, ThreadType, WorldType
  <1>2. used[cur] <= MaxTurns + faults
    BY <1>1, Numbers DEF TypeInv, TurnsBounded, Spent, Mutating, Recording
  <1> QED BY <1>1, <1>2, Numbers

LEMMA LedgerStep ==
    ASSUME TypeInv, [Next]_vars PROVE LedgerType'
  <1>t. /\ LedgerType
        /\ pc \notin {"idle", "list", "next", "close"} => cur \in Threads
        /\ evidence \in TurnIds /\ recovery \in TurnIds
        /\ \A t \in Threads : listed[t] \in Nat
    BY DEF TypeInv, VisitType
  <1>1. ASSUME NEW t \in Threads, ObserveNoGoal(t) PROVE LedgerType'
    <2>1. CASE dry
      <3>1. UNCHANGED <<disk, mem, ledgerGhosts>>
        BY <1>1, <2>1 DEF ObserveNoGoal
      <3> QED BY <3>1, SameLedger
    <2>2. CASE ~dry
      <3> DEFINE r == NoGoalRecord(listed[t])
      <3>1. /\ mem' = [mem EXCEPT ![t] = r] /\ disk' = mem'
            /\ recoveries' = [recoveries EXCEPT ![t] = {}]
            /\ untold' = [untold EXCEPT ![t] = {}]
        BY <1>1, <2>2, Zenon DEF ObserveNoGoal, Write
      <3>2. r \in Records
        BY <1>t, RecordTypes
      <3>3. /\ recoveries' \in [Threads -> SUBSET Recoveries]
            /\ untold' \in [Threads -> SUBSET Recoveries]
        BY <1>t, <3>1 DEF LedgerType
      <3> HIDE DEF r
      <3> QED BY <3>1, <3>2, <3>3, WriteType
    <2> QED BY <2>1, <2>2
  <1>2. CASE RecordStart \/ Settled \/ SaveFails
    <2>1. /\ cur \in Threads
          /\ \E r \in Records : mem' = [mem EXCEPT ![cur] = r]
          /\ disk' = mem' \/ disk' = disk
          /\ UNCHANGED ledgerGhosts
      BY <1>t, <1>2, RecordTypes DEF RecordStart, Settled, SaveFails, Write,
         ghostVars
    <2> QED BY <1>t, <2>1, WriteType DEF LedgerType, ledgerGhosts
  <1>3. CASE FollowResumedTurn \/ StartTurn \/ ReplyLost
    <2>1. \/ UNCHANGED ledgerGhosts
          \/ \E turn \in TurnIds :
               /\ Recovers(cur, turn)
               /\ \/ untold' = untold
                  \/ untold' = [untold EXCEPT
                       ![cur] = @ \cup {[evidence |-> evidence,
                                         turn |-> turn]}]
      <3>1. CASE FollowResumedTurn
        <4>1. thread[cur].last.id \in TurnIds
          BY <1>t, <3>1 DEF FollowResumedTurn, TypeInv, ThreadType,
                            ThreadStates, Turns
        <4> QED BY <3>1, <4>1 DEF FollowResumedTurn
      <3>2. CASE StartTurn \/ ReplyLost
        <4>1. pc = "start" => used[cur] + 1 \in TurnIds
          BY StartBound
        <4> QED BY <3>2, <4>1 DEF StartTurn, ReplyLost
      <3> QED BY <1>3, <3>1, <3>2
    <2>2. UNCHANGED <<disk, mem>>
      BY <1>3 DEF FollowResumedTurn, StartTurn, ReplyLost
    <2>3. CASE UNCHANGED ledgerGhosts
      BY <2>2, <2>3, SameLedger
    <2>4. ASSUME NEW turn \in TurnIds, Recovers(cur, turn),
                 \/ untold' = untold
                 \/ untold' = [untold EXCEPT
                      ![cur] = @ \cup {[evidence |-> evidence,
                                        turn |-> turn]}]
          PROVE  LedgerType'
      <3> DEFINE pair == [evidence |-> evidence, turn |-> turn]
      <3>1. pair \in Recoveries
        BY <1>t DEF Recoveries
      <3>2. /\ recoveries' = [recoveries EXCEPT ![cur] = @ \cup {pair}]
            /\ \/ untold' = untold
               \/ untold' = [untold EXCEPT ![cur] = @ \cup {pair}]
        BY <2>4 DEF Recovers
      <3> HIDE DEF pair
      <3> QED BY <1>t, <2>2, <3>1, <3>2 DEF LedgerType
    <2> QED BY <2>1, <2>3, <2>4
  <1>4. CASE PassEnds \/ Crash
    <2>1. /\ disk' = disk \/ disk' = mem
          /\ mem' = mem \/ mem' = disk
          /\ recoveries' = recoveries
          /\ \/ untold' = untold
             \/ untold' = [t \in Threads |-> untold[t] \cup Unsaved(t)]
      BY <1>4, Zenon DEF PassEnds, Crash, ledgerGhosts
    <2>2. \A t \in Threads : Unsaved(t) \subseteq Recoveries
      BY DEF Unsaved
    <2> QED BY <1>t, <2>1, <2>2 DEF LedgerType
  <1>5. CASE \/ LeaveToCli \/ (\E mode \in PassModes : Begin(mode))
             \/ ListThreads \/ (\E t \in Threads : GetGoal(t))
             \/ SkipThread \/ ChooseEvidence \/ FreshRead \/ FreshReadDiffers
             \/ FreshGoal \/ FreshGoalHeld \/ ReactivateGoal
             \/ ReactivationDiffers \/ ReactivationRefused \/ ResumeThread
             \/ PrepareStart \/ PollThread \/ KeepPolling
    <2>1. /\ disk' = disk
          /\ mem' = mem \/ mem' = disk
          /\ UNCHANGED ledgerGhosts
      BY <1>5, Zenon DEF LeaveToCli, Begin, BeginPass, BeginPassOnOldList,
         ListThreads, GetGoal, SkipThread, ChooseEvidence, FreshRead,
         FreshReadDiffers, FreshGoal, FreshGoalHeld, ReactivateGoal,
         ReactivationDiffers, ReactivationRefused, ResumeThread,
         PrepareStart, PollThread, KeepPolling, ghostVars
    <2> QED BY <2>1, SameLedger
  <1>6. CASE \/ PassRaises \/ CallFails \/ World \/ UNCHANGED vars
    <2>1. /\ disk' = disk
          /\ mem' = mem \/ mem' = disk
          /\ UNCHANGED ledgerGhosts
      BY <1>6, Zenon DEF PassRaises, CallFails, World,
         UserTurn, GoalContinues, TurnEndsOn, GoalSet, GoalWithdrawn,
         ThreadAges, CliStarts, CliExits, ListExpires, guardianVars, vars,
         ghostVars
    <2> QED BY <2>1, SameLedger
  <1> QED BY <1>1, <1>2, <1>3, <1>4, <1>5, <1>6, Zenon
          DEF Next, PassStep, Failure

LEMMA UserBound ==
    ASSUME TypeInv, NEW t \in Threads, used[t] < MaxTurns
    PROVE  used[t] + 1 \in TurnIds
  BY Numbers DEF TypeInv, ThreadType

TurnsMove ==
    \A t \in Threads :
        TurnsKept(t) \/ TurnAdded(t) \/ (TurnLost(t) /\ pc' = "idle")

LEMMA ThreadStep ==
    ASSUME TypeInv, [Next]_vars PROVE ThreadType' /\ TurnsMove
  <1>1. CASE \/ LeaveToCli \/ (\E mode \in PassModes : Begin(mode))
             \/ ListThreads
             \/ (\E t \in Threads : ObserveNoGoal(t) \/ GetGoal(t))
             \/ SkipThread \/ ChooseEvidence \/ FreshRead \/ FreshReadDiffers
             \/ FreshGoal \/ FreshGoalHeld \/ ReactivateGoal
             \/ ReactivationDiffers \/ ReactivationRefused \/ ResumeThread
             \/ FollowResumedTurn \/ PrepareStart \/ RecordStart
             \/ PollThread \/ KeepPolling \/ Settled
    <2>1. UNCHANGED <<thread, used, hosted>>
      BY <1>1, Zenon DEF LeaveToCli, Begin, BeginPass, BeginPassOnOldList,
         ListThreads, ObserveNoGoal, GetGoal, SkipThread, ChooseEvidence,
         FreshRead, FreshReadDiffers, FreshGoal, FreshGoalHeld, ReactivateGoal,
         ReactivationDiffers, ReactivationRefused, ResumeThread,
         FollowResumedTurn, PrepareStart, RecordStart, PollThread, KeepPolling,
         Settled, worldVars
    <2> QED BY <2>1, SameThreads DEF TurnsMove
  <1>2. CASE \/ PassRaises \/ CallFails \/ SaveFails
             \/ (\E t \in Threads : GoalWithdrawn(t))
             \/ CliStarts \/ CliExits \/ ListExpires \/ UNCHANGED vars
    <2>1. UNCHANGED <<thread, used, hosted>>
      BY <1>2, Zenon DEF PassRaises, CallFails, SaveFails, GoalWithdrawn,
         CliStarts, CliExits, ListExpires, vars, worldVars
    <2> QED BY <2>1, SameThreads DEF TurnsMove
  <1>3. CASE \E t \in Threads : GoalSet(t) \/ ThreadAges(t)
    <2>1. PICK t \in Threads :
             /\ UNCHANGED <<used, hosted>>
             /\ \/ \E second \in Seconds(t) :
                     thread' = [thread EXCEPT ![t].updated = second]
                \/ thread' = [thread EXCEPT ![t].stale = TRUE]
      BY <1>3, Zenon DEF GoalSet, ThreadAges
    <2> QED BY <2>1, ShownType DEF TurnsMove
  <1>4. CASE \E t \in Threads : TurnEndsOn(t)
    BY <1>4, TurnEndsType DEF TurnsMove
  <1>5. CASE \E t \in Threads : UserTurn(t) \/ GoalContinues(t)
    <2>1. PICK t \in Threads :
             /\ TurnBegins(t) /\ used[t] < MaxTurns
             /\ hosted' = hosted \/ hosted' = hosted \cup {t}
      BY <1>5, Zenon DEF UserTurn, GoalContinues
    <2> QED BY <2>1, UserBound, TurnBeginsType DEF TurnsMove
  <1>6. CASE StartTurn \/ ReplyLost
    <2>1. \/ UNCHANGED <<thread, used, hosted>>
          \/ /\ pc = "start" /\ TurnBegins(cur)
             /\ hosted' = hosted \cup {cur}
      BY <1>6, Zenon DEF StartTurn, ReplyLost, ServerStartsTurn
    <2> QED BY <2>1, SameThreads, StartBound, TurnBeginsType DEF TurnsMove
  <1>7. CASE PassEnds \/ Crash
    <2>1. ServerDies /\ used' = used /\ pc' = "idle"
      BY <1>7, Zenon DEF PassEnds, Crash, ForgetPass
    <2> QED BY <2>1, ServerDiesType DEF TurnsMove
  <1> QED BY <1>1, <1>2, <1>3, <1>4, <1>5, <1>6, <1>7, Zenon
          DEF Next, PassStep, Failure, World

LEMMA WorldStep ==
    ASSUME TypeInv, [Next]_vars PROVE WorldType'
  <1>t. /\ goal \in [Threads -> Goals] /\ loaded \subseteq Threads
        /\ disturbances \in 0 .. MaxDisturbances /\ faults \in 0 .. MaxFaults
        /\ ProbeTypeOK
        /\ pc \notin {"idle", "list", "next", "close"} => cur \in Threads
    BY DEF TypeInv, WorldType, VisitType
  <1>1. goal' \in [Threads -> Goals]
    <2>1. CASE UNCHANGED goal
      BY <1>t, <2>1
    <2>2. ASSUME NEW t \in Threads, NEW status \in Goals,
                 goal' = [goal EXCEPT ![t] = status]
          PROVE  goal' \in [Threads -> Goals]
      BY <1>t, <2>2
    <2>3. CASE \/ ReactivateGoal \/ ReactivationDiffers \/ ReplyLost
      <3>1. UNCHANGED goal \/ (cur \in Threads /\ ServerSetsGoal)
        BY <1>t, <2>3 DEF ReactivateGoal, ReactivationDiffers, ReplyLost
      <3> QED BY <2>1, <2>2, <3>1 DEF ServerSetsGoal, Goals
    <2>4. ASSUME NEW t \in Threads,
                 TurnEndsOn(t) \/ GoalSet(t) \/ GoalWithdrawn(t)
          PROVE  goal' \in [Threads -> Goals]
      <3>1. \/ UNCHANGED goal
            \/ \E status \in {"active", "stopped", "held", "none"} :
                 goal' = [goal EXCEPT ![t] = status]
        BY <2>4 DEF TurnEndsOn, GoalSet, GoalWithdrawn, GoalBecomes
      <3> QED BY <2>1, <2>2, <3>1 DEF Goals
    <2>5. CASE \/ LeaveToCli \/ (\E mode \in PassModes : Begin(mode))
               \/ ListThreads
               \/ (\E t \in Threads : ObserveNoGoal(t) \/ GetGoal(t))
               \/ SkipThread \/ ChooseEvidence \/ FreshRead
               \/ FreshReadDiffers \/ FreshGoal \/ FreshGoalHeld
               \/ ReactivationRefused \/ ResumeThread
               \/ FollowResumedTurn \/ PrepareStart \/ StartTurn
               \/ RecordStart \/ PollThread \/ KeepPolling \/ Settled
               \/ PassEnds
      <3>1. UNCHANGED goal
        BY <2>5, Zenon DEF LeaveToCli, Begin, BeginPass, BeginPassOnOldList,
           ListThreads, ObserveNoGoal, GetGoal, SkipThread, ChooseEvidence,
           FreshRead, FreshReadDiffers, FreshGoal, FreshGoalHeld,
           ReactivationRefused, ResumeThread, FollowResumedTurn, PrepareStart,
           StartTurn, RecordStart, PollThread, KeepPolling, Settled, PassEnds,
           worldVars
      <3> QED BY <2>1, <3>1
    <2>6. CASE \/ PassRaises \/ CallFails \/ SaveFails \/ Crash
               \/ (\E t \in Threads :
                     UserTurn(t) \/ GoalContinues(t) \/ ThreadAges(t))
               \/ CliStarts \/ CliExits \/ ListExpires \/ UNCHANGED vars
      <3>1. UNCHANGED goal
        BY <2>6, Zenon DEF PassRaises, CallFails, SaveFails, Crash, UserTurn,
           GoalContinues, ThreadAges, CliStarts, CliExits, ListExpires, vars,
           worldVars
      <3> QED BY <2>1, <3>1
    <2> QED BY <2>3, <2>4, <2>5, <2>6, Zenon
            DEF Next, PassStep, Failure, World
  <1>2. loaded' \subseteq Threads
    <2>1. loaded' \in {loaded, {}}
          \/ (pc = "resume" /\ loaded' = loaded \cup {cur})
      BY Zenon DEF Next, PassStep, Failure, World, vars, worldVars,
         LeaveToCli, Begin, BeginPass, BeginPassOnOldList, PassRaises,
         ListThreads, ObserveNoGoal, GetGoal, SkipThread, ChooseEvidence,
         FreshRead, FreshReadDiffers, FreshGoal, FreshGoalHeld, ReactivateGoal,
         ReactivationDiffers, ReactivationRefused, ResumeThread, ServerResumes,
         FollowResumedTurn, PrepareStart, StartTurn, RecordStart, PollThread,
         KeepPolling, Settled, PassEnds, ServerDies, CallFails, ReplyLost,
         SaveFails, Crash, UserTurn, GoalContinues, TurnEndsOn, GoalSet,
         GoalWithdrawn, ThreadAges, CliStarts, CliExits, ListExpires
    <2> QED BY <1>t, <2>1
  <1>3. ProbeTypeOK'
    <2>1. CASE UNCHANGED probeVars
      BY <1>t, <2>1 DEF ProbeTypeOK, probeVars
    <2>2. CASE \/ LeaveToCli \/ (\E mode \in PassModes : Begin(mode))
               \/ PassRaises \/ Crash \/ CliStarts \/ CliExits \/ ListExpires
      <3>1. /\ cliUp' \in BOOLEAN /\ cliUnseen' \in BOOLEAN
            /\ processes' \in {processes, NoList, ListOf(cliUp),
                               [processes EXCEPT !.young = FALSE]}
        BY <1>t, <2>2 DEF LeaveToCli, Begin, BeginPass, BeginPassOnOldList,
           PassRaises, Crash, CliStarts, CliExits, ListExpires, Answer,
           AnswerFromCache, AnswerFromQuery, AnswerAfterTimeout, ForgetList,
           CliUp, CliDown, ListAges, ProbeTypeOK, probeVars
      <3>2. /\ NoList \in ProcessLists /\ ListOf(cliUp) \in ProcessLists
            /\ processes \in ProcessLists
        BY <1>t DEF ProcessLists, NoList, ListOf, ProbeTypeOK
      <3>3. [processes EXCEPT !.young = FALSE] \in ProcessLists
        BY <3>2 DEF ProcessLists
      <3>4. processes' \in ProcessLists
        BY <3>1, <3>2, <3>3
      <3> QED BY <3>1, <3>4 DEF ProbeTypeOK
    <2>3. CASE PassStep
      BY <2>1, <2>3, Zenon DEF PassStep, ListThreads, ObserveNoGoal, GetGoal,
         SkipThread, ChooseEvidence, FreshRead, FreshReadDiffers, FreshGoal,
         FreshGoalHeld, ReactivateGoal, ReactivationDiffers,
         ReactivationRefused, ResumeThread, FollowResumedTurn, PrepareStart,
         StartTurn, RecordStart, PollThread, KeepPolling, Settled, PassEnds
    <2>4. CASE \/ CallFails \/ ReplyLost \/ SaveFails
               \/ (\E t \in Threads :
                     \/ UserTurn(t) \/ GoalContinues(t) \/ TurnEndsOn(t)
                     \/ GoalSet(t) \/ GoalWithdrawn(t) \/ ThreadAges(t))
               \/ UNCHANGED vars
      BY <2>1, <2>4, Zenon DEF CallFails, ReplyLost, SaveFails, UserTurn,
         GoalContinues, TurnEndsOn, GoalSet, GoalWithdrawn, ThreadAges, vars
    <2> QED BY <2>2, <2>3, <2>4, Zenon DEF Next, Failure, World
  <1>4. disturbances' \in 0 .. MaxDisturbances /\ faults' \in 0 .. MaxFaults
    <2>1. /\ \/ disturbances' = disturbances
             \/ /\ disturbances < MaxDisturbances
                /\ disturbances' = disturbances + 1
          /\ \/ faults' = faults
             \/ faults < MaxFaults /\ faults' = faults + 1
      BY Zenon DEF Next, PassStep, Failure, World, vars, budgetVars,
         guardianVars, Fault, Disturb,
         LeaveToCli, Begin, BeginPass, BeginPassOnOldList, PassRaises,
         ListThreads, ObserveNoGoal, GetGoal, SkipThread, ChooseEvidence,
         FreshRead, FreshReadDiffers, FreshGoal, FreshGoalHeld, ReactivateGoal,
         ReactivationDiffers, ReactivationRefused, ResumeThread,
         FollowResumedTurn, PrepareStart, StartTurn, RecordStart, PollThread,
         KeepPolling, Settled, PassEnds, CallFails, ReplyLost,
         SaveFails, Crash, UserTurn, GoalContinues, TurnEndsOn, GoalSet,
         GoalWithdrawn, ThreadAges, CliStarts, CliExits, ListExpires
    <2> QED BY <1>t, <2>1, Numbers
  <1> QED BY <1>1, <1>2, <1>3, <1>4 DEF WorldType

-----------------------------------------------------------------------------
(* The bound on the turns of a thread. *)

LEMMA BoundTypes ==
    ASSUME TypeInv
    PROVE  /\ \A t \in Threads : used[t] \in Nat
           /\ MaxTurns \in Nat /\ faults \in Nat
           /\ pc \notin {"idle", "list", "next", "close"} => cur \in Threads
  BY Numbers DEF TypeInv, ThreadType, WorldType, VisitType

\* Steps of the pass that start no turn and do not wait for one,
LEMMA QuietBound ==
    ASSUME TypeInv, used' = used, faults' \in {faults, faults + 1},
           \A t \in Threads : goal'[t] = goal[t] \/ ~Spent(t),
           ~Recording \/ (~Mutating' /\ faults' = faults + 1),
           Mutating' => /\ cur' = cur
                        /\ \/ Mutating
                           \/ goal[cur] \in Continuable
    PROVE  TurnsBounded'
  <1>1. ASSUME NEW t \in Threads, Spent(t)'
        PROVE  goal'[t] \notin Continuable /\ ~(cur' = t /\ Mutating')
    <2>1. /\ used[t] \in Nat /\ MaxTurns \in Nat /\ faults \in Nat
          /\ used[t] <= MaxTurns + 1 + faults
      BY BoundTypes DEF TypeInv, TurnsBounded
    <2>2. Spent(t) /\ faults' = faults
      BY <1>1, <2>1 DEF Spent
    <2>3. ~Recording
      BY <2>1, <2>2
    <2>4. goal[t] \notin Continuable /\ ~(cur = t /\ Mutating)
      BY <2>2, <2>3 DEF TypeInv, TurnsBounded
    <2> QED BY <2>2, <2>4
  <1>2. \A t \in Threads : used'[t] <= MaxTurns + 1 + faults'
    BY BoundTypes DEF TypeInv, TurnsBounded
  <1> QED BY <1>1, <1>2 DEF TurnsBounded

\* ... steps of the world that start none,
LEMMA WorldBound ==
    ASSUME TypeInv, UNCHANGED <<pc, cur, seenActive, used, faults>>,
           \A t \in Threads :
               \/ ~Spent(t)
               \/ goal'[t] \notin Continuable
               \/ goal'[t] = goal[t] /\ thread'[t].active = thread[t].active
    PROVE  TurnsBounded'
  <1>1. ASSUME NEW t \in Threads, Spent(t)'
        PROVE  \/ goal'[t] \notin Continuable /\ ~(cur' = t /\ Mutating')
               \/ /\ Recording' /\ cur' = t /\ thread'[t].active
                  /\ pc' = "settleGoal" => seenActive'
    <2>1. Spent(t) /\ (Mutating' = Mutating) /\ (Recording' = Recording)
      BY <1>1 DEF Spent, Mutating, Recording
    <2>2. \/ goal[t] \notin Continuable /\ ~(cur = t /\ Mutating)
          \/ /\ Recording /\ cur = t /\ thread[t].active
             /\ pc = "settleGoal" => seenActive
      BY <2>1 DEF TypeInv, TurnsBounded
    <2>3. Recording => ~Mutating
      BY DEF Recording, Mutating
    <2> QED BY <2>1, <2>2, <2>3
  <1> QED BY <1>1 DEF TypeInv, TurnsBounded

\* ... and steps that start one.
LEMMA TurnBound ==
    ASSUME TypeInv, NEW t \in Threads, TurnAdded(t), faults' = faults,
           UNCHANGED <<goal, cur>>,
           \/ used[t] < MaxTurns /\ UNCHANGED <<pc, seenActive>>
           \/ pc = "start" /\ pc' = "record" /\ t = cur,
           \A s \in Threads \ {t} : TurnsKept(s) /\ thread'[s] = thread[s]
    PROVE  TurnsBounded'
  <1>0. /\ \A s \in Threads : used[s] \in Nat
        /\ MaxTurns \in Nat /\ faults \in Nat
        /\ pc \notin {"idle", "list", "next", "close"} => cur \in Threads
    BY BoundTypes
  <1>1. /\ used'[t] <= MaxTurns + 1 + faults'
        /\ Spent(t)' => Recording' /\ cur' = t /\ thread'[t].active
                          /\ pc' = "record"
    BY <1>0, StartBound DEF Spent, Recording, TurnAdded
  <1>2. ASSUME NEW s \in Threads \ {t}
        PROVE  /\ used'[s] <= MaxTurns + 1 + faults'
               /\ Spent(s)' =>
                    \/ goal'[s] \notin Continuable /\ ~(cur' = s /\ Mutating')
                    \/ /\ Recording' /\ cur' = s /\ thread'[s].active
                       /\ pc' = "settleGoal" => seenActive'
    <2>1. used'[s] = used[s] /\ thread'[s] = thread[s]
      BY DEF TurnsKept
    <2>2. /\ used[s] <= MaxTurns + 1 + faults
          /\ Spent(s) =>
               \/ goal[s] \notin Continuable /\ ~(cur = s /\ Mutating)
               \/ /\ Recording /\ cur = s /\ thread[s].active
                  /\ pc = "settleGoal" => seenActive
      BY DEF TypeInv, TurnsBounded
    <2>3. CASE UNCHANGED <<pc, seenActive>>
      BY <2>1, <2>2, <2>3 DEF Spent, Mutating, Recording
    <2>4. CASE pc = "start" /\ pc' = "record"
      BY <2>1, <2>2, <2>4 DEF Spent, Mutating, Recording
    <2> QED BY <2>3, <2>4
  <1> QED BY <1>1, <1>2 DEF TurnsBounded

LEMMA WaitBound ==
    ASSUME TypeInv, RecordStart \/ PollThread \/ KeepPolling \/ Settled
    PROVE  TurnsBounded'
  <1>1. /\ UNCHANGED <<thread, used, goal, faults, cur>>
        /\ Recording /\ ~Mutating /\ ~Mutating' /\ cur \in Threads
    BY BoundTypes DEF RecordStart, PollThread, KeepPolling, Settled, NextThread,
       worldVars, passVars, budgetVars, Recording, Mutating
  <1>2. \/ pc = "settleGoal" /\ ~seenActive
        \/ Recording' /\ (pc' = "settleGoal" => seenActive' = thread[cur].active)
    BY DEF RecordStart, PollThread, KeepPolling, Settled, Recording
  <1>3. ASSUME NEW t \in Threads, Spent(t)'
        PROVE  \/ goal'[t] \notin Continuable /\ ~(cur' = t /\ Mutating')
               \/ /\ Recording' /\ cur' = t /\ thread'[t].active
                  /\ pc' = "settleGoal" => seenActive'
    BY <1>1, <1>2, <1>3 DEF Spent, TypeInv, TurnsBounded
  <1> QED BY <1>1, <1>3 DEF TypeInv, TurnsBounded

LEMMA PassBound ==
    ASSUME TypeInv,
           \/ LeaveToCli \/ \E mode \in PassModes : Begin(mode)
           \/ PassStep \/ Failure
    PROVE  TurnsBounded'
  <1> USE DEF Recording, Mutating
  <1>t. /\ goal \in [Threads -> Goals]
        /\ pc \notin {"idle", "list", "next", "close"} => cur \in Threads
    BY BoundTypes DEF TypeInv, WorldType
  <1>1. CASE LeaveToCli \/ (\E mode \in PassModes : Begin(mode)) \/ PassRaises
    <2>1. /\ UNCHANGED <<used, goal>> /\ faults' \in {faults, faults + 1}
          /\ pc = "idle" /\ pc' \in {"idle", "list"}
      BY <1>1 DEF LeaveToCli, Begin, BeginPass, BeginPassOnOldList, PassRaises,
                  worldVars, budgetVars
    <2> QED BY <2>1, QuietBound
  <1>2. CASE \/ ListThreads \/ (\E t \in Threads : ObserveNoGoal(t) \/ GetGoal(t))
             \/ SkipThread \/ ChooseEvidence \/ FreshRead \/ FreshReadDiffers
             \/ FreshGoalHeld \/ ReactivationRefused \/ FollowResumedTurn
             \/ PassEnds
    <2>1. /\ UNCHANGED <<used, goal, faults>>
          /\ ~Recording /\ ~Mutating'
      BY <1>2 DEF ListThreads, ObserveNoGoal, GetGoal, SkipThread,
         ChooseEvidence, FreshRead, FreshReadDiffers, FreshGoalHeld,
         ReactivationRefused, FollowResumedTurn, PassEnds, NextThread,
         ForgetPass, worldVars, budgetVars
    <2> QED BY <2>1, QuietBound
  <1>3. CASE FreshGoal \/ ResumeThread \/ PrepareStart
    <2>1. /\ UNCHANGED <<used, goal, faults, cur>> /\ ~Recording
          /\ Mutating \/ goal[cur] \in Continuable
      BY <1>3 DEF FreshGoal, ResumeThread, PrepareStart, passVars, budgetVars,
                  worldVars
    <2> QED BY <2>1, QuietBound
  <1>4. CASE ReactivateGoal \/ ReactivationDiffers
    <2>1. /\ UNCHANGED <<used, faults, cur>> /\ pc = "reactivate"
          /\ goal' = [goal EXCEPT ![cur] = "active"]
      BY <1>4 DEF ReactivateGoal, ReactivationDiffers, ServerSetsGoal,
                  passVars, budgetVars
    <2>2. ~Spent(cur) /\ cur \in Threads
      BY <1>t, <2>1 DEF TypeInv, TurnsBounded
    <2>3. \A t \in Threads : goal'[t] = goal[t] \/ ~Spent(t)
      BY <1>t, <2>1, <2>2
    <2> QED BY <2>1, <2>3, QuietBound
  <1>5. CASE StartTurn
    <2>1. /\ pc = "start" /\ pc' = "record" /\ TurnBegins(cur)
          /\ hosted' = hosted \cup {cur}
          /\ UNCHANGED <<goal, cur, faults>>
      BY <1>5 DEF StartTurn, ServerStartsTurn, budgetVars
    <2> QED BY <2>1, StartBound, TurnBeginsType, TurnBound
  <1>6. CASE CallFails \/ SaveFails \/ Crash
    <2>1. /\ UNCHANGED <<used, goal>> /\ faults' = faults + 1
          /\ ~Mutating'
      BY <1>6 DEF CallFails, SaveFails, Crash, Fault, ForgetPass, worldVars
    <2> QED BY <2>1, QuietBound
  <1>7. CASE ReplyLost
    <2>1. pc' = "close" /\ UNCHANGED cur /\ faults' = faults + 1
      BY <1>7 DEF ReplyLost, Fault, passVars
    <2>2. CASE pc = "start" /\ TurnBegins(cur) /\ UNCHANGED goal
      <3>1. /\ cur \in Threads /\ used[cur] <= MaxTurns + faults
            /\ used'[cur] = used[cur] + 1
            /\ \A t \in Threads \ {cur} : used'[t] = used[t]
        BY <2>2, StartBound, TurnBeginsOn DEF TypeInv, ThreadType
      <3>2. /\ used'[cur] <= MaxTurns + 1 + faults' /\ ~Spent(cur)'
        BY <2>1, <3>1, BoundTypes DEF Spent
      <3>3. ASSUME NEW t \in Threads \ {cur}
            PROVE  /\ used'[t] <= MaxTurns + 1 + faults'
                   /\ Spent(t)' => goal'[t] \notin Continuable
        BY <2>1, <2>2, <3>1, BoundTypes DEF Spent, TypeInv, TurnsBounded
      <3> QED BY <2>1, <3>2, <3>3 DEF TurnsBounded
    <2>3. CASE pc = "reactivate" /\ ServerSetsGoal /\ UNCHANGED used
      <3>1. ~Spent(cur) /\ cur \in Threads
        BY <1>t, <2>3 DEF TypeInv, TurnsBounded
      <3>2. \A t \in Threads : goal'[t] = goal[t] \/ ~Spent(t)
        BY <1>t, <2>3, <3>1 DEF ServerSetsGoal
      <3> QED BY <2>1, <2>3, <3>2, QuietBound
    <2>4. CASE UNCHANGED <<goal, used>>
      BY <2>1, <2>4, QuietBound
    <2> QED BY <1>7, <2>2, <2>3, <2>4, Zenon DEF ReplyLost, ServerStartsTurn
  <1> QED BY <1>1, <1>2, <1>3, <1>4, <1>5, <1>6, <1>7, WaitBound, Zenon
          DEF PassStep, Failure

LEMMA OutsideBound ==
    ASSUME TypeInv, World \/ UNCHANGED vars PROVE TurnsBounded'
  <1>t. goal \in [Threads -> Goals] /\ used \in [Threads -> TurnIds]
        /\ thread \in [Threads -> ThreadStates]
    BY DEF TypeInv, WorldType, ThreadType
  <1>1. CASE \/ CliStarts \/ CliExits \/ ListExpires \/ UNCHANGED vars
    <2>1. UNCHANGED <<pc, cur, seenActive, used, faults, goal, thread>>
      BY <1>1 DEF CliStarts, CliExits, ListExpires, vars, guardianVars,
                  passVars, worldVars, budgetVars
    <2> QED BY <2>1, WorldBound
  <1>2. ASSUME NEW t \in Threads, UserTurn(t) \/ GoalContinues(t)
        PROVE  TurnsBounded'
    <2>1. /\ TurnBegins(t) /\ used[t] < MaxTurns
          /\ hosted' = hosted \/ hosted' = hosted \cup {t}
          /\ UNCHANGED <<goal, pc, cur, seenActive, faults>>
      BY <1>2, Zenon DEF UserTurn, GoalContinues, guardianVars, passVars
    <2> QED BY <2>1, UserBound, TurnBeginsType, TurnBound
  <1>3. ASSUME NEW t \in Threads,
               \/ TurnEndsOn(t) \/ GoalSet(t) \/ GoalWithdrawn(t)
               \/ ThreadAges(t)
        PROVE  TurnsBounded'
    <2>1. UNCHANGED <<pc, cur, seenActive, used, faults>>
      BY <1>3, Zenon DEF TurnEndsOn, GoalSet, GoalWithdrawn, ThreadAges,
                         guardianVars, passVars
    <2>2. \A s \in Threads \ {t} :
            goal'[s] = goal[s] /\ thread'[s] = thread[s]
      BY <1>t, <1>3, TurnEndsType DEF TurnEndsOn, GoalSet, GoalWithdrawn,
         ThreadAges, GoalBecomes
    <2>3. \/ ~Spent(t)
          \/ goal'[t] \notin Continuable
          \/ goal'[t] = goal[t] /\ thread'[t].active = thread[t].active
      <3>0. used[t] \in Nat /\ MaxTurns \in Nat /\ faults \in Nat
        BY BoundTypes
      <3>1. CASE used[t] < MaxTurns
        BY <3>0, <3>1 DEF Spent
      <3>2. CASE TurnEndsOn(t) /\ used[t] >= MaxTurns
        <4>1. \/ goal'[t] = "held"
              \/ goal[t] \notin Continuable /\ goal' = goal
          BY <1>t, <3>2 DEF TurnEndsOn, GoalBecomes, Continuable
        <4> QED BY <4>1 DEF Continuable
      <3>3. CASE GoalWithdrawn(t)
        BY <1>t, <3>3 DEF GoalWithdrawn, GoalBecomes, Continuable
      <3>4. CASE ThreadAges(t)
        <4>1. goal' = goal /\ thread'[t] = [thread[t] EXCEPT !.stale = TRUE]
          BY <1>t, <3>4 DEF ThreadAges
        <4>2. thread'[t].active = thread[t].active
          BY <1>t, <4>1 DEF ThreadStates
        <4> QED BY <4>1, <4>2
      <3> QED BY <1>3, <3>0, <3>1, <3>2, <3>3, <3>4 DEF GoalSet
    <2> QED BY <2>1, <2>2, <2>3, WorldBound
  <1> QED BY <1>1, <1>2, <1>3, Zenon DEF World

-----------------------------------------------------------------------------
LEMMA TypeStep ==
    ASSUME TypeInv, [Next]_vars PROVE TypeInv'
  <1>1. VisitType'
    BY PassVisit, OtherVisit, Zenon DEF Next
  <1>2. TurnsBounded'
    BY PassBound, OutsideBound, Zenon DEF Next
  <1> QED BY <1>1, <1>2, LedgerStep, SeenStep, ThreadStep, WorldStep DEF TypeInv

LEMMA TypeInit == Init => TypeInv
  <1> SUFFICES ASSUME Init PROVE TypeInv
    OBVIOUS
  <1>1. /\ 0 \in TurnIds /\ 1 \in TurnIds /\ TurnIds \subseteq Nat
        /\ MaxTurns \in Nat \ {0} /\ MaxDisturbances \in Nat
        /\ MaxFaults \in Nat
    BY Numbers
  <1>2. LedgerType
    BY RecordTypes DEF Init, LedgerType
  <1>3. VisitType
    BY <1>1 DEF Init, VisitType
  <1>4. SeenType
    BY DEF Init, SeenType, Goals
  <1>5. ASSUME NEW s \in {"ended", "policy"}
        PROVE  LET th == NewThread([id |-> 1, status |-> s])
               IN  th \in ThreadStates /\ Ordered(th, 1)
    <2> DEFINE turn == [id |-> 1, status |-> s]
    <2>1. turn \in Turns /\ NoTurn \in Turns /\ turn.id = 1
          /\ NoTurn.id = 0 /\ NoTurn.status = "none"
      BY <1>1 DEF Turns, NoTurn, TurnEnds
    <2> DEFINE th == NewThread(turn)
    <2> HIDE DEF turn
    <2>2. /\ th \in ThreadStates
          /\ th.active = FALSE /\ th.last = turn /\ th.before = NoTurn
      BY <2>1 DEF NewThread, ThreadStates
    <2>3. Ordered(th, 1)
      <3> HIDE DEF th
      <3> QED BY <2>1, <2>2 DEF Ordered
    <2> QED BY <2>2, <2>3 DEF turn
  <1>6. \A t \in Threads : thread[t] \in ThreadStates /\ Ordered(thread[t], 1)
    BY <1>5 DEF Init
  <1>7. ThreadType
    BY <1>1, <1>6 DEF Init, ThreadType
  <1>8. WorldType
    <2>1. ProbeTypeOK
      BY DEF Init, ProbeInit, ProbeTypeOK, NoList, ProcessLists
    <2>2. goal \in [Threads -> Goals]
      BY DEF Init, Goals
    <2> QED BY <1>1, <2>1, <2>2 DEF Init, WorldType
  <1>9. TurnsBounded
    BY <1>1 DEF Init, TurnsBounded, Spent
  <1> QED BY <1>2, <1>3, <1>4, <1>7, <1>8, <1>9 DEF TypeInv

(* Every variable keeps its type, and the bounds suffice: no run gives a   *)
(* thread more turn ids than TurnIds holds, since a Goal is held once its  *)
(* turns are spent and only a pass in the middle of a start exceeds them   *)
(* (_supervise_delegated_cli).                                             *)
THEOREM TypeCorrect == Spec => []TypeOK
  <1>1. TypeInv => TypeOK
    BY DEF TypeInv, TypeOK, LedgerType, VisitType, SeenType, ThreadType,
           WorldType
  <1> QED BY <1>1, TypeInit, TypeStep, PTL DEF Spec

-----------------------------------------------------------------------------
(* What the ledger tells.  l and b are the ids of the last two turns of a  *)
(* thread, u the last id it gave out; C and O the evidence and the turns   *)
(* of the recoveries that are saved.                                       *)

Saved(t) == (recoveries[t] \ untold[t]) \ Unsaved(t)
Continued == [t \in Threads |-> {r.evidence : r \in Saved(t)}]
Ours == [t \in Threads |-> {r.turn : r \in Saved(t)}]

NoneSaved ==
    \A t \in Threads :
        Continued'[t] \subseteq Continued[t] /\ Ours'[t] \subseteq Ours[t]

Gone(o, l, b) == o # l /\ o # b

\* Nothing was continued after the evidence of the record, and a recovery it
\* told of is the recorded one, older than the evidence, or out of sight.
Tells(r, C, O, u, l, b) ==
    /\ r.evidence_turn_id <= u /\ r.recovery_turn_id <= u
    /\ l # 0 => r.evidence_turn_id <= l
    /\ b # 0 => r.evidence_turn_id <= b
    /\ \A c \in C : c <= r.evidence_turn_id
    /\ \A o \in O :
         /\ o <= u
         /\ o <= r.evidence_turn_id \/ o = r.recovery_turn_id \/ Gone(o, l, b)

LedgerTells ==
    \A t \in Threads :
        /\ Tells(mem[t], Continued[t], Ours[t], used[t],
                 thread[t].last.id, thread[t].before.id)
        /\ Tells(disk[t], Continued[t], Ours[t], used[t],
                 thread[t].last.id, thread[t].before.id)

\* The evidence of a visit is newer than what was continued, and, while it is
\* the last turn, neither running nor a rejected recovery.
Fresh(e, C, O, th) ==
    /\ e # 0 /\ e <= th.last.id
    /\ \A c \in C : c < e
    /\ \A o \in O : o <= e \/ Gone(o, th.last.id, th.before.id)
    /\ th.last.id = e => /\ ~th.active
                         /\ th.last.status = "policy" => e \notin O
    /\ th.last.id # e => e <= th.before.id

Choosing == pc \in {"reread", "regoal"} \/ Mutating

EvidenceFresh ==
    Choosing => Fresh(evidence, Continued[cur], Ours[cur], thread[cur])

\* The turn that follows the evidence is there, and the record will tell of
\* nothing newer.
Followed(e, rec, C, O, th) ==
    /\ e # 0 /\ e < th.last.id /\ e <= th.before.id
    /\ \A c \in C : c <= e
    /\ \A o \in O : o <= e \/ o = rec \/ Gone(o, th.last.id, th.before.id)

\* The copies of the ledger are equal up to a save that failed, and the turn
\* of a visit is what its record tells of from then on.
SaveInv ==
    /\ pc # "close" => mem = disk
    /\ recovery # 0 => Recording \/ pc = "close"
    /\ Choosing => evidence # mem[cur].evidence_turn_id
    /\ recovery # 0 /\ pc # "record" =>
         /\ mem[cur].evidence_turn_id = evidence
         /\ mem[cur].recovery_turn_id = recovery

RecoveryFollows ==
    Recording =>
        /\ Followed(evidence, recovery, Continued[cur], Ours[cur], thread[cur])
        /\ recovery <= used[cur]
        /\ pc # "record" => mem[cur].recovery_turn_id = recovery

LedgerInv == SaveInv /\ LedgerTells /\ EvidenceFresh /\ RecoveryFollows

\* The ids of a thread are numbers, and so are those of records.
LEMMA IdTypes ==
    ASSUME TypeInv, NEW t \in Threads
    PROVE  /\ used[t] \in Nat
           /\ thread[t].last.id \in Nat /\ thread[t].before.id \in Nat
           /\ Ordered(thread[t], used[t])
           /\ mem[t] \in Records /\ disk[t] \in Records
           /\ Continued[t] \subseteq Nat /\ Ours[t] \subseteq Nat
  <1>1. /\ used[t] \in Nat
        /\ thread[t].last.id \in Nat /\ thread[t].before.id \in Nat
        /\ Ordered(thread[t], used[t])
        /\ mem[t] \in Records /\ disk[t] \in Records
    BY Numbers DEF TypeInv, ThreadType, ThreadStates, Turns, LedgerType
  <1>2. \A r \in recoveries[t] : r.evidence \in Nat /\ r.turn \in Nat
    BY Numbers DEF TypeInv, LedgerType, Recoveries
  <1>3. Continued[t] \subseteq Nat /\ Ours[t] \subseteq Nat
    BY <1>2 DEF Continued, Ours, Saved
  <1> QED BY <1>1, <1>3

LEMMA RecordIds ==
    ASSUME NEW r \in Records
    PROVE  r.evidence_turn_id \in Nat /\ r.recovery_turn_id \in Nat
  BY Numbers DEF Records

\* How the turns of a thread move keeps all that true.
LEMMA TellsMove ==
    ASSUME TypeInv, NEW t \in Threads, NEW r \in Records,
           NEW C \in SUBSET Nat, NEW O \in SUBSET Nat,
           Tells(r, C, O, used[t], thread[t].last.id, thread[t].before.id),
           TurnsKept(t) \/ TurnAdded(t) \/ TurnLost(t)
    PROVE  Tells(r, C, O, used'[t], thread'[t].last.id, thread'[t].before.id)
  <1>0. /\ used[t] \in Nat
        /\ thread[t].last.id \in Nat /\ thread[t].before.id \in Nat
        /\ Ordered(thread[t], used[t])
        /\ r.evidence_turn_id \in Nat /\ r.recovery_turn_id \in Nat
    BY IdTypes, RecordIds
  <1>1. CASE TurnsKept(t)
    BY <1>1 DEF TurnsKept
  <1>2. CASE TurnAdded(t)
    BY <1>0, <1>2 DEF TurnAdded, Tells, Gone, Ordered
  <1>3. CASE TurnLost(t)
    BY <1>0, <1>3 DEF TurnLost, NoTurn, Tells, Gone, Ordered
  <1> QED BY <1>1, <1>2, <1>3

LEMMA FreshMoves ==
    ASSUME TypeInv, NEW t \in Threads, NEW e \in Nat,
           Fresh(e, Continued[t], Ours[t], thread[t]),
           \A o \in Ours[t] : o <= used[t],
           TurnsKept(t) \/ TurnAdded(t)
    PROVE  Fresh(e, Continued[t], Ours[t], thread'[t])
  <1>0. /\ used[t] \in Nat
        /\ thread[t].last.id \in Nat /\ thread[t].before.id \in Nat
        /\ Ordered(thread[t], used[t])
        /\ Continued[t] \subseteq Nat /\ Ours[t] \subseteq Nat
    BY IdTypes
  <1>1. CASE TurnsKept(t)
    BY <1>0, <1>1 DEF TurnsKept, Fresh
  <1>2. CASE TurnAdded(t)
    BY <1>0, <1>2 DEF TurnAdded, Fresh, Gone, Ordered
  <1> QED BY <1>1, <1>2

LEMMA FollowedMoves ==
    ASSUME TypeInv, NEW t \in Threads, NEW e \in Nat, NEW rec,
           Followed(e, rec, Continued[t], Ours[t], thread[t]),
           \A o \in Ours[t] : o <= used[t],
           TurnsKept(t) \/ TurnAdded(t)
    PROVE  Followed(e, rec, Continued[t], Ours[t], thread'[t])
  <1>0. /\ used[t] \in Nat
        /\ thread[t].last.id \in Nat /\ thread[t].before.id \in Nat
        /\ Ordered(thread[t], used[t])
        /\ Continued[t] \subseteq Nat /\ Ours[t] \subseteq Nat
    BY IdTypes
  <1>1. CASE TurnsKept(t)
    BY <1>0, <1>1 DEF TurnsKept, Followed
  <1>2. CASE TurnAdded(t)
    BY <1>0, <1>2 DEF TurnAdded, Followed, Gone, Ordered
  <1> QED BY <1>1, <1>2

-----------------------------------------------------------------------------
\* A step that writes no record and saves no recovery keeps what is told.
LEMMA LedgerKept ==
    ASSUME TypeInv, LedgerTells, TurnsMove, NoneSaved, UNCHANGED disk,
           mem' = mem \/ mem' = disk
    PROVE  LedgerTells'
  <1>1. ASSUME NEW t \in Threads
        PROVE  /\ Tells(mem[t], Continued[t], Ours[t], used'[t],
                        thread'[t].last.id, thread'[t].before.id)
               /\ Tells(disk[t], Continued[t], Ours[t], used'[t],
                        thread'[t].last.id, thread'[t].before.id)
    BY TellsMove, IdTypes DEF LedgerTells, TurnsMove
  <1>2. ASSUME NEW t \in Threads
        PROVE  /\ Tells(mem[t], Continued'[t], Ours'[t], used'[t],
                        thread'[t].last.id, thread'[t].before.id)
               /\ Tells(disk[t], Continued'[t], Ours'[t], used'[t],
                        thread'[t].last.id, thread'[t].before.id)
    BY <1>1 DEF Tells, NoneSaved
  <1> QED BY <1>2 DEF LedgerTells

\* Where the recovery of the visit stays as it is, or there is none.
LEMMA SavedSame ==
    ASSUME UNCHANGED ledgerGhosts,
           \/ UNCHANGED <<disk, cur, evidence, recovery>>
           \/ recovery = 0 /\ recovery' = 0
    PROVE  NoneSaved
  <1>1. \A t \in Threads : Saved(t)' = Saved(t)
    BY DEF Saved, Unsaved, ledgerGhosts
  <1> QED BY <1>1 DEF NoneSaved, Continued, Ours

LEMMA SavedLess ==
    ASSUME \A t \in Threads : Saved(t)' \subseteq Saved(t)
    PROVE  NoneSaved
  BY DEF NoneSaved, Continued, Ours

LEMMA LedgerWritten ==
    ASSUME TypeInv, LedgerTells, UNCHANGED <<thread, used>>,
           NEW t \in Threads, NEW r \in Records,
           mem' = [mem EXCEPT ![t] = r],
           \/ disk' = mem'
           \/ disk' = disk /\ NoneSaved,
           \A s \in Threads \ {t} :
               /\ Continued'[s] \subseteq Continued[s]
               /\ Ours'[s] \subseteq Ours[s],
           Tells(r, Continued'[t], Ours'[t], used[t],
                 thread[t].last.id, thread[t].before.id)
    PROVE  LedgerTells'
  <1>1. mem'[t] = r /\ \A s \in Threads \ {t} : mem'[s] = mem[s]
    BY DEF TypeInv, LedgerType
  <1>2. \A s \in Threads :
          Tells(mem'[s], Continued'[s], Ours'[s], used'[s],
                thread'[s].last.id, thread'[s].before.id)
    BY <1>1 DEF LedgerTells, Tells
  <1>3. CASE disk' = mem'
    BY <1>2, <1>3 DEF LedgerTells
  <1>4. CASE disk' = disk /\ NoneSaved
    <2>1. \A s \in Threads :
            Tells(disk'[s], Continued'[s], Ours'[s], used'[s],
                  thread'[s].last.id, thread'[s].before.id)
      BY <1>4 DEF LedgerTells, Tells, NoneSaved
    <2> QED BY <1>2, <2>1 DEF LedgerTells
  <1> QED BY <1>3, <1>4

\* A step that leaves the visit where it has a fresh evidence, or elsewhere.
LEMMA ChoiceStays ==
    ASSUME TypeInv, LedgerInv, TurnsMove, NoneSaved,
           pc' # "idle",
           Choosing' => Choosing /\ UNCHANGED <<cur, evidence>>
    PROVE  EvidenceFresh'
  <1> SUFFICES ASSUME Choosing'
               PROVE  Fresh(evidence, Continued[cur], Ours[cur], thread[cur])'
    BY DEF EvidenceFresh
  <1>1. cur \in Threads /\ evidence \in Nat
    BY Numbers DEF Choosing, Mutating, TypeInv, VisitType
  <1>2. Fresh(evidence, Continued[cur], Ours[cur], thread'[cur])
    <2>1. \A o \in Ours[cur] : o <= used[cur]
      BY <1>1 DEF LedgerInv, LedgerTells, Tells
    <2>2. Fresh(evidence, Continued[cur], Ours[cur], thread[cur])
      BY DEF LedgerInv, EvidenceFresh
    <2>3. TurnsKept(cur) \/ TurnAdded(cur)
      BY <1>1 DEF TurnsMove
    <2> QED BY <1>1, <2>1, <2>2, <2>3, FreshMoves
  <1>3. Fresh(evidence, Continued'[cur], Ours'[cur], thread'[cur])
    BY <1>1, <1>2 DEF Fresh, NoneSaved
  <1> QED BY <1>3

LEMMA RecoveryStays ==
    ASSUME TypeInv, LedgerInv, TurnsMove, NoneSaved, UNCHANGED mem,
           pc' # "idle",
           Recording' => /\ Recording /\ UNCHANGED <<cur, evidence, recovery>>
                         /\ pc = "record" => pc' = "record"
    PROVE  RecoveryFollows'
  <1> SUFFICES ASSUME Recording'
               PROVE  /\ Followed(evidence, recovery, Continued[cur],
                                  Ours[cur], thread[cur])'
                      /\ recovery' <= used'[cur']
                      /\ pc' # "record" => mem'[cur'].recovery_turn_id = recovery'
    BY DEF RecoveryFollows
  <1>1. cur \in Threads /\ evidence \in Nat /\ recovery \in Nat
    BY Numbers DEF Recording, TypeInv, VisitType
  <1>2. TurnsKept(cur) \/ TurnAdded(cur)
    BY <1>1 DEF TurnsMove
  <1>3. Followed(evidence, recovery, Continued[cur], Ours[cur], thread'[cur])
    <2>1. \A o \in Ours[cur] : o <= used[cur]
      BY <1>1 DEF LedgerInv, LedgerTells, Tells
    <2>2. Followed(evidence, recovery, Continued[cur], Ours[cur], thread[cur])
      BY DEF LedgerInv, RecoveryFollows
    <2> QED BY <1>1, <1>2, <2>1, <2>2, FollowedMoves
  <1>6. Followed(evidence, recovery, Continued'[cur], Ours'[cur], thread'[cur])
    BY <1>1, <1>3 DEF Followed, NoneSaved
  <1>4. recovery <= used'[cur]
    BY <1>1, <1>2, IdTypes DEF LedgerInv, RecoveryFollows, TurnsKept, TurnAdded
  <1>5. pc' # "record" => mem[cur].recovery_turn_id = recovery
    BY DEF LedgerInv, RecoveryFollows
  <1> QED BY <1>4, <1>5, <1>6

\* Outside a visit that goes on there is nothing to keep.
LEMMA Elsewhere ==
    ASSUME pc' \in {"idle", "list", "next", "read", "close"}
    PROVE  EvidenceFresh' /\ RecoveryFollows'
  BY DEF EvidenceFresh, RecoveryFollows, Choosing, Mutating, Recording

LEMMA ChooseFresh ==
    ASSUME TypeInv, LedgerInv, ChooseEvidence PROVE EvidenceFresh'
  <1>1. /\ cur \in Threads
        /\ evidence' = thread[cur].last.id
        /\ UNCHANGED <<cur, thread>>
        /\ MayContinue(cur, thread[cur], seenGoal)
    BY DEF ChooseEvidence, worldVars, ledgerGhosts, TypeInv, VisitType
  <1> DEFINE l == thread[cur].last.id
             b == thread[cur].before.id
             r == mem[cur]
  <1>2. /\ ~thread[cur].active /\ thread[cur].last.status \in TurnEnds
        /\ r.evidence_turn_id # l
        /\ thread[cur].last.status = "policy" => r.recovery_turn_id # l
    BY <1>1 DEF MayContinue, Eligible, PolicyExhausted, AlreadyRecovered
  <1>3. /\ l \in Nat /\ b \in Nat /\ used[cur] \in Nat
        /\ Ordered(thread[cur], used[cur])
        /\ r \in Records
        /\ r.evidence_turn_id \in Nat /\ r.recovery_turn_id \in Nat
        /\ Continued[cur] \subseteq Nat /\ Ours[cur] \subseteq Nat
    BY <1>1, IdTypes, RecordIds
  <1>4. l # 0 /\ b < l
    BY <1>2, <1>3 DEF Ordered, TurnEnds
  <1>5. Tells(r, Continued[cur], Ours[cur], used[cur], l, b)
    BY <1>1 DEF LedgerInv, LedgerTells
  <1>6. r.evidence_turn_id < l
    BY <1>2, <1>3, <1>4, <1>5 DEF Tells
  <1>7. \A c \in Continued[cur] : c < l
    BY <1>3, <1>5, <1>6 DEF Tells
  <1>8. \A o \in Ours[cur] : o <= l \/ Gone(o, l, b)
    BY <1>3, <1>4 DEF Gone
  <1>9. thread[cur].last.status = "policy" => l \notin Ours[cur]
    BY <1>2, <1>3, <1>5, <1>6 DEF Tells, Gone
  <1>10. Fresh(l, Continued[cur], Ours[cur], thread[cur])
    BY <1>2, <1>3, <1>4, <1>7, <1>8, <1>9 DEF Fresh
  <1>11. Fresh(l, Continued'[cur], Ours'[cur], thread[cur])
    <2>1. NoneSaved
      <3>1. /\ UNCHANGED ledgerGhosts /\ recovery' = recovery /\ pc = "read"
        BY DEF ChooseEvidence
      <3>2. recovery = 0
        BY <3>1 DEF LedgerInv, SaveInv, Recording
      <3> QED BY <3>1, <3>2, SavedSame
    <2> QED BY <1>1, <1>10, <2>1 DEF Fresh, NoneSaved
  <1> QED BY <1>1, <1>11 DEF EvidenceFresh

\* A recovery begins unsaved,
LEMMA StartUnsaved ==
    ASSUME TypeInv, SaveInv, FollowResumedTurn \/ StartTurn
    PROVE  NoneSaved
  <1>1. /\ cur \in Threads /\ pc \in {"resumed", "start"}
        /\ Recovers(cur, recovery')
        /\ UNCHANGED <<untold, disk, cur, evidence>>
    BY DEF FollowResumedTurn, StartTurn, TypeInv, VisitType
  <1>2. recovery' # 0
    <2>1. CASE FollowResumedTurn
      <3>1. recovery' = thread[cur].last.id /\ thread[cur].active
        BY <2>1 DEF FollowResumedTurn
      <3> QED BY <1>1, <3>1 DEF TypeInv, ThreadType, Ordered
    <2>2. CASE StartTurn
      <3>1. recovery' = used[cur] + 1 /\ used[cur] \in Nat
        BY <1>1, <2>2, BoundTypes DEF StartTurn
      <3> QED BY <3>1
    <2> QED BY <2>1, <2>2
  <1>3. disk[cur].evidence_turn_id # evidence
    BY <1>1 DEF SaveInv, Choosing, Mutating
  <1> DEFINE pair == [evidence |-> evidence, turn |-> recovery']
  <1>4. pair \in Recoveries
    <2>1. evidence' \in TurnIds /\ recovery' \in TurnIds
      BY TypeStep DEF Next, PassStep, TypeInv, VisitType
    <2> QED BY <1>1, <2>1 DEF Recoveries
  <1>5. ASSUME NEW t \in Threads PROVE Saved(t)' \subseteq Saved(t)
    <2>1. Unsaved(t) = {}
      BY <1>1 DEF SaveInv, Recording, Unsaved
    <2>2. CASE t = cur
      <3>1. recoveries'[t] = recoveries[t] \cup {pair}
        BY <1>1, <2>2 DEF Recovers, TypeInv, LedgerType
      <3>2. pair \in Unsaved(t)'
        BY <1>1, <1>2, <1>3, <1>4, <2>2 DEF Unsaved
      <3> HIDE DEF pair
      <3> QED BY <1>1, <2>1, <3>1, <3>2 DEF Saved
    <2>3. CASE t # cur
      <3>1. recoveries'[t] = recoveries[t]
        BY <1>1, <2>3 DEF Recovers, TypeInv, LedgerType
      <3> QED BY <1>1, <2>1, <3>1 DEF Saved
    <2> QED BY <2>2, <2>3
  <1> QED BY <1>5, SavedLess

\* ... one whose answer is lost stays so, like one a crash strikes,
LEMMA LostUnsaved ==
    ASSUME TypeInv, SaveInv, ReplyLost \/ Crash
    PROVE  NoneSaved
  <1>1. CASE Crash
    <2>1. /\ recoveries' = recoveries
          /\ untold' = [t \in Threads |-> untold[t] \cup Unsaved(t)]
      BY <1>1 DEF Crash
    <2>2. \A t \in Threads : Saved(t)' \subseteq Saved(t)
      BY <2>1 DEF Saved
    <2> QED BY <2>2, SavedLess
  <1>2. CASE UNCHANGED ledgerGhosts /\ UNCHANGED <<disk, passVars>>
    BY <1>2, SavedSame DEF passVars
  <1>3. CASE pc = "start" /\ ReplyLost
    <2> DEFINE pair == [evidence |-> evidence, turn |-> used[cur] + 1]
    <2>1. /\ recoveries' = [recoveries EXCEPT ![cur] = @ \cup {pair}]
          /\ untold' = [untold EXCEPT ![cur] = @ \cup {pair}]
          /\ UNCHANGED <<disk, cur, evidence, recovery>>
      BY <1>3 DEF ReplyLost, Recovers, passVars
    <2>2. cur \in Threads
      BY <1>3, StartBound
    <2> HIDE DEF pair
    <2>3. ASSUME NEW t \in Threads PROVE Saved(t)' \subseteq Saved(t)
      <3>1. Unsaved(t)' = Unsaved(t)
        BY <2>1 DEF Unsaved
      <3>2. recoveries'[t] \ untold'[t] \subseteq recoveries[t] \ untold[t]
        BY <2>1, <2>2 DEF TypeInv, LedgerType
      <3> QED BY <3>1, <3>2 DEF Saved
    <2> QED BY <2>3, SavedLess
  <1> QED BY <1>1, <1>2, <1>3, Zenon DEF ReplyLost

\* ... and one that is saved is the one of the visit.
LEMMA SavedMore ==
    ASSUME UNCHANGED ledgerGhosts, NEW t \in Threads
    PROVE  /\ Continued'[t] \subseteq Continued[t] \cup {evidence}
           /\ Ours'[t] \subseteq Ours[t] \cup {recovery}
           /\ t # cur \/ recovery = 0 \/ disk[t].evidence_turn_id = evidence
                => /\ Continued'[t] \subseteq Continued[t]
                   /\ Ours'[t] \subseteq Ours[t]
  <1>1. \A r \in Unsaved(t) :
          /\ r.evidence = evidence /\ r.turn = recovery
          /\ t = cur /\ recovery # 0 /\ disk[t].evidence_turn_id # evidence
    BY DEF Unsaved
  <1>2. Saved(t)' \subseteq Saved(t) \cup Unsaved(t)
    BY DEF Saved, ledgerGhosts
  <1> QED BY <1>1, <1>2 DEF Continued, Ours

LEMMA StartFollows ==
    ASSUME TypeInv, LedgerInv, FollowResumedTurn \/ StartTurn
    PROVE  RecoveryFollows' /\ EvidenceFresh'
  <1>1. /\ cur \in Threads /\ evidence \in Nat /\ Choosing
        /\ pc' = "record" /\ UNCHANGED <<cur, evidence>>
    BY Numbers DEF FollowResumedTurn, StartTurn, Choosing,
                   Mutating, TypeInv, VisitType
  <1> DEFINE l == thread[cur].last.id
             b == thread[cur].before.id
  <1>2. /\ l \in Nat /\ b \in Nat /\ used[cur] \in Nat
        /\ Ordered(thread[cur], used[cur])
        /\ Continued[cur] \subseteq Nat /\ Ours[cur] \subseteq Nat
    BY <1>1, IdTypes
  <1>3. Fresh(evidence, Continued[cur], Ours[cur], thread[cur])
    BY <1>1 DEF LedgerInv, EvidenceFresh
  <1>4. \A o \in Ours[cur] : o <= used[cur]
    BY <1>1 DEF LedgerInv, LedgerTells, Tells
  <1>7. NoneSaved
    BY StartUnsaved DEF LedgerInv
  <1>5. CASE FollowResumedTurn
    <2>1. recovery' = l /\ thread[cur].active /\ UNCHANGED <<thread, used>>
      BY <1>5 DEF FollowResumedTurn, worldVars
    <2>2. evidence < l /\ evidence <= b
      BY <1>1, <1>2, <1>3, <2>1 DEF Fresh
    <2>3. Followed(evidence, l, Continued[cur], Ours[cur], thread[cur])
      BY <1>1, <1>2, <1>3, <2>2 DEF Fresh, Followed
    <2>4. l <= used[cur]
      BY <1>2 DEF Ordered
    <2>5. Followed(evidence, l, Continued'[cur], Ours'[cur], thread[cur])
      BY <1>1, <1>7, <2>3 DEF Followed, NoneSaved
    <2> QED BY <1>1, <2>1, <2>4, <2>5 DEF RecoveryFollows, EvidenceFresh,
                                          Choosing, Mutating
  <1>6. CASE StartTurn
    <2>1. TurnAdded(cur) /\ recovery' = used[cur] + 1
      <3>1. pc = "start" /\ TurnBegins(cur) /\ hosted' = hosted \cup {cur}
            /\ recovery' = used[cur] + 1
        BY <1>6 DEF StartTurn, ServerStartsTurn
      <3> QED BY <1>1, <3>1, StartBound, TurnBeginsType
    <2>2. /\ thread'[cur].last.id = used[cur] + 1
          /\ thread'[cur].before.id = l /\ used'[cur] = used[cur] + 1
      BY <2>1 DEF TurnAdded
    <2>3. Followed(evidence, used[cur] + 1, Continued[cur], Ours[cur],
                   thread'[cur])
      BY <1>1, <1>2, <1>3, <1>4, <2>2 DEF Fresh, Followed, Gone, Ordered
    <2>4. Followed(evidence, used[cur] + 1, Continued'[cur], Ours'[cur],
                   thread'[cur])
      BY <1>1, <1>7, <2>3 DEF Followed, NoneSaved
    <2> QED BY <1>1, <1>2, <2>1, <2>2, <2>4 DEF RecoveryFollows, EvidenceFresh,
                                                Choosing, Mutating
  <1> QED BY <1>5, <1>6

\* What is written of a continuation tells all that was told before.
LEMMA ContinuationTells ==
    ASSUME TypeInv, LedgerInv, Recording, NEW step
    PROVE  LET r == Continuation(step, evidence, recovery)
           IN  /\ r.recovery_turn_id = recovery
               /\ Tells(r, Continued[cur], Ours[cur], used[cur],
                        thread[cur].last.id, thread[cur].before.id)
               /\ Tells(r, Continued[cur] \cup {evidence},
                        Ours[cur] \cup {recovery}, used[cur],
                        thread[cur].last.id, thread[cur].before.id)
  <1> DEFINE r == Continuation(step, evidence, recovery)
             l == thread[cur].last.id
             b == thread[cur].before.id
  <1>1. cur \in Threads /\ evidence \in Nat /\ recovery \in Nat
    BY Numbers DEF Recording, TypeInv, VisitType
  <1>2. /\ l \in Nat /\ b \in Nat /\ used[cur] \in Nat
        /\ Ordered(thread[cur], used[cur])
        /\ Continued[cur] \subseteq Nat /\ Ours[cur] \subseteq Nat
    BY <1>1, IdTypes
  <1>3. r.evidence_turn_id = evidence /\ r.recovery_turn_id = recovery
    BY DEF Continuation, NoRecord
  <1>4. /\ Followed(evidence, recovery, Continued[cur], Ours[cur], thread[cur])
        /\ recovery <= used[cur]
    BY DEF LedgerInv, RecoveryFollows
  <1>5. \A o \in Ours[cur] : o <= used[cur]
    BY <1>1 DEF LedgerInv, LedgerTells, Tells
  <1> HIDE DEF r
  <1>6. Tells(r, Continued[cur], Ours[cur], used[cur], l, b)
    BY <1>1, <1>2, <1>3, <1>4, <1>5 DEF Tells, Followed, Ordered
  <1>7. Tells(r, Continued[cur] \cup {evidence}, Ours[cur] \cup {recovery},
              used[cur], l, b)
    BY <1>1, <1>2, <1>3, <1>4, <1>6 DEF Tells
  <1> QED BY <1>3, <1>6, <1>7 DEF r

LEMMA RecordLedger ==
    ASSUME TypeInv, LedgerInv, RecordStart \/ Settled \/ SaveFails
    PROVE  LedgerTells' /\ EvidenceFresh' /\ RecoveryFollows'
  <1>1. cur \in Threads /\ Recording /\ evidence \in TurnIds
        /\ recovery \in TurnIds
    BY DEF RecordStart, Settled, SaveFails, Recording, TypeInv, VisitType
  <1>2. PICK step \in {"continuation_started", "continuation_settled"} :
           /\ mem' = [mem EXCEPT ![cur] = Continuation(step, evidence, recovery)]
           /\ disk' = mem' \/ (disk' = disk /\ SaveFails)
           /\ UNCHANGED <<thread, used>> /\ UNCHANGED ledgerGhosts
    BY DEF RecordStart, Settled, SaveFails, Write, worldVars, ghostVars
  <1> DEFINE r == Continuation(step, evidence, recovery)
  <1>3. /\ r \in Records /\ r.recovery_turn_id = recovery
        /\ Tells(r, Continued[cur] \cup {evidence}, Ours[cur] \cup {recovery},
                 used[cur], thread[cur].last.id, thread[cur].before.id)
    BY <1>1, RecordTypes, ContinuationTells
  <1>4. mem' = [mem EXCEPT ![cur] = r]
    BY <1>2
  <1> HIDE DEF r
  <1>5. /\ Continued'[cur] \subseteq Continued[cur] \cup {evidence}
        /\ Ours'[cur] \subseteq Ours[cur] \cup {recovery}
        /\ \A s \in Threads \ {cur} : /\ Continued'[s] \subseteq Continued[s]
                                      /\ Ours'[s] \subseteq Ours[s]
    BY <1>1, <1>2, SavedMore
  <1>6. Tells(r, Continued'[cur], Ours'[cur], used[cur],
              thread[cur].last.id, thread[cur].before.id)
    BY <1>3, <1>5 DEF Tells
  <1>7. SaveFails => NoneSaved
    <2>1. SaveFails => UNCHANGED <<disk, cur, evidence, recovery>>
      BY DEF SaveFails, passVars
    <2> QED BY <1>2, <2>1, SavedSame
  <1>8. LedgerTells'
    BY <1>1, <1>2, <1>4, <1>3, <1>5, <1>6, <1>7, LedgerWritten DEF LedgerInv
  <1>9. CASE RecordStart
    <2>1. /\ UNCHANGED <<cur, evidence, recovery>> /\ pc' = "settle"
          /\ mem'[cur] = r
      BY <1>1, <1>4, <1>9 DEF RecordStart, passVars, TypeInv, LedgerType
    <2>2. /\ Followed(evidence, recovery, Continued'[cur], Ours'[cur],
                      thread[cur])
          /\ recovery <= used[cur]
      <3>1. /\ Followed(evidence, recovery, Continued[cur], Ours[cur],
                        thread[cur])
            /\ recovery <= used[cur]
        BY <1>1 DEF LedgerInv, RecoveryFollows
      <3> QED BY <1>1, <1>5, <3>1, Numbers DEF Followed
    <2>3. RecoveryFollows' /\ EvidenceFresh'
      BY <1>2, <1>3, <2>1, <2>2 DEF RecoveryFollows, EvidenceFresh, Choosing,
                                    Mutating
    <2> QED BY <1>8, <2>3
  <1>10. CASE Settled \/ SaveFails
    <2>1. pc' \in {"next", "close"}
      BY <1>10 DEF Settled, SaveFails, NextThread
    <2> QED BY <1>8, <2>1, Elsewhere
  <1> QED BY <1>9, <1>10

LEMMA GoallessLedger ==
    ASSUME TypeInv, LedgerInv, NEW t \in Threads, ObserveNoGoal(t)
    PROVE  LedgerTells' /\ EvidenceFresh' /\ RecoveryFollows'
  <1>1. pc = "next" /\ pc' = "next" /\ UNCHANGED <<thread, used>>
    BY DEF ObserveNoGoal, NextThread
  <1>2. recovery = 0 /\ recovery' = 0 /\ TurnsMove
    BY <1>1 DEF LedgerInv, SaveInv, Recording, ObserveNoGoal, NextThread,
                TurnsMove, TurnsKept
  <1>3. LedgerTells'
    <2>1. CASE dry
      <3>1. UNCHANGED <<disk, mem, ledgerGhosts>>
        BY <2>1 DEF ObserveNoGoal
      <3>2. NoneSaved
        BY <1>2, <3>1, SavedSame
      <3> QED BY <1>2, <3>1, <3>2, LedgerKept DEF LedgerInv
    <2>2. CASE ~dry
      <3> DEFINE r == NoGoalRecord(listed[t])
      <3>1. /\ mem' = [mem EXCEPT ![t] = r] /\ disk' = mem'
            /\ recoveries' = [recoveries EXCEPT ![t] = {}]
            /\ untold' = [untold EXCEPT ![t] = {}]
        BY <2>2, Zenon DEF ObserveNoGoal, Write
      <3>2. \A s \in Threads : Unsaved(s) = {} /\ Unsaved(s)' = {}
        BY <1>2 DEF Unsaved
      <3>3. /\ Saved(t)' = {}
            /\ \A s \in Threads \ {t} : Saved(s)' = Saved(s)
        BY <3>1, <3>2 DEF Saved, TypeInv, LedgerType
      <3>4. /\ Continued'[t] = {} /\ Ours'[t] = {}
            /\ \A s \in Threads \ {t} : /\ Continued'[s] \subseteq Continued[s]
                                        /\ Ours'[s] \subseteq Ours[s]
        BY <3>3 DEF Continued, Ours
      <3>5. r \in Records
        BY RecordTypes DEF TypeInv, VisitType
      <3>6. r.evidence_turn_id = 0 /\ r.recovery_turn_id = 0
        BY DEF NoGoalRecord, NoRecord
      <3> HIDE DEF r
      <3>7. Tells(r, {}, {}, used[t], thread[t].last.id, thread[t].before.id)
        BY <3>6, IdTypes DEF Tells
      <3> QED BY <1>1, <3>1, <3>4, <3>5, <3>7, LedgerWritten DEF LedgerInv
    <2> QED BY <2>1, <2>2
  <1> QED BY <1>1, <1>3, Elsewhere

\* The save at the end of a pass tells of what is in its records.
LEMMA PassEndLedger ==
    ASSUME TypeInv, LedgerInv, TurnsMove, PassEnds
    PROVE  LedgerTells' /\ EvidenceFresh' /\ RecoveryFollows'
  <1>1. /\ mem' = mem /\ disk' = mem /\ pc' = "idle"
        /\ UNCHANGED ledgerGhosts /\ pc \in {"next", "close"}
    BY DEF PassEnds, ForgetPass
  <1>2. ASSUME NEW t \in Threads
        PROVE  Tells(mem[t], Continued'[t], Ours'[t], used'[t],
                     thread'[t].last.id, thread'[t].before.id)
    <2>1. Tells(mem[t], Continued[t], Ours[t], used'[t],
                thread'[t].last.id, thread'[t].before.id)
      BY TellsMove, IdTypes DEF LedgerInv, LedgerTells, TurnsMove
    <2>2. /\ mem[t].evidence_turn_id \in Nat /\ mem[t].recovery_turn_id \in Nat
          /\ mem[t].recovery_turn_id <= used'[t]
      BY <2>1, IdTypes, RecordIds DEF Tells
    <2>3. CASE t # cur \/ recovery = 0
      BY <1>1, <2>1, <2>3, SavedMore DEF Tells
    <2>4. CASE t = cur /\ recovery # 0
      <3>1. evidence = mem[t].evidence_turn_id
            /\ recovery = mem[t].recovery_turn_id
        BY <1>1, <2>4 DEF LedgerInv, SaveInv
      <3>2. /\ Continued'[t] \subseteq Continued[t] \cup {evidence}
            /\ Ours'[t] \subseteq Ours[t] \cup {recovery}
        BY <1>1, SavedMore
      <3> QED BY <2>1, <2>2, <3>1, <3>2 DEF Tells
    <2> QED BY <2>3, <2>4
  <1> QED BY <1>1, <1>2, Elsewhere DEF LedgerTells

LEMMA SaveStep ==
    ASSUME TypeInv, LedgerInv, [Next]_vars PROVE SaveInv'
  <1>t. /\ SaveInv
        /\ pc \notin {"idle", "list", "next", "close"} => cur \in Threads
        /\ mem \in [Threads -> Records]
    BY DEF LedgerInv, TypeInv, VisitType, LedgerType
  <1>1. CASE \/ LeaveToCli \/ PassRaises \/ World \/ UNCHANGED vars
             \/ FreshRead \/ FreshGoal \/ ReactivateGoal \/ ResumeThread
             \/ PrepareStart \/ PollThread \/ KeepPolling
    <2>1. /\ UNCHANGED <<disk, mem>>
          /\ UNCHANGED <<cur, evidence, recovery>>
      BY <1>1, Zenon DEF LeaveToCli, PassRaises, World, UserTurn,
         GoalContinues, TurnEndsOn, GoalSet, GoalWithdrawn, ThreadAges,
         CliStarts, CliExits, ListExpires, guardianVars, vars, passVars,
         FreshRead, FreshGoal, ReactivateGoal, ResumeThread, PrepareStart,
         PollThread, KeepPolling
    <2>2. CASE pc' = pc
      BY <1>t, <2>1, <2>2 DEF SaveInv, Choosing, Mutating, Recording
    <2>3. CASE pc' # pc
      <3>1. CASE \/ LeaveToCli \/ PassRaises \/ World \/ UNCHANGED vars
        <4>1. pc' = pc
          BY <3>1, Zenon DEF LeaveToCli, PassRaises, World, UserTurn,
             GoalContinues, TurnEndsOn, GoalSet, GoalWithdrawn, ThreadAges,
             CliStarts, CliExits, ListExpires, guardianVars, vars
        <4> QED BY <2>3, <4>1
      <3>2. CASE \/ FreshRead \/ FreshGoal \/ ReactivateGoal
                 \/ ResumeThread \/ PrepareStart
        <4>1. Choosing /\ Choosing' /\ ~Recording /\ pc # "close"
              /\ pc' # "close"
          BY <3>2 DEF FreshRead, FreshGoal, ReactivateGoal, ResumeThread,
                      PrepareStart, Choosing, Mutating, Recording
        <4> QED BY <1>t, <2>1, <4>1 DEF SaveInv
      <3>3. CASE PollThread \/ KeepPolling
        <4>1. Recording /\ Recording' /\ ~Choosing' /\ pc # "record"
              /\ pc # "close"
          BY <3>3 DEF PollThread, KeepPolling, Choosing, Mutating, Recording
        <4> QED BY <1>t, <2>1, <4>1 DEF SaveInv
      <3> QED BY <1>1, <3>1, <3>2, <3>3
    <2> QED BY <2>2, <2>3
  <1>2. CASE \/ (\E mode \in PassModes : Begin(mode)) \/ ListThreads
             \/ (\E t \in Threads : GetGoal(t))
    <2>1. /\ disk' = disk /\ mem' \in {mem, disk} /\ recovery' = recovery
          /\ pc \in {"idle", "list", "next"} /\ pc' \in {"list", "next", "read"}
      BY <1>2 DEF Begin, BeginPass, BeginPassOnOldList, ListThreads, GetGoal
    <2> QED BY <1>t, <2>1 DEF SaveInv, Choosing, Mutating, Recording
  <1>3. CASE \/ (\E t \in Threads : ObserveNoGoal(t))
             \/ SkipThread \/ FreshReadDiffers \/ FreshGoalHeld \/ Settled
             \/ PassEnds \/ Crash
    <2>1. /\ recovery' = 0 /\ pc' \in {"next", "idle"}
      BY <1>3, Zenon DEF ObserveNoGoal, SkipThread, FreshReadDiffers,
         FreshGoalHeld, Settled, PassEnds, Crash, NextThread, ForgetPass
    <2>2. \/ mem' = disk'
          \/ UNCHANGED <<mem, disk>> /\ pc # "close"
      BY <1>3 DEF ObserveNoGoal, SkipThread, FreshReadDiffers,
         FreshGoalHeld, Settled, PassEnds, Crash, Write
    <2> QED BY <1>t, <2>1, <2>2 DEF SaveInv, Choosing, Mutating, Recording
  <1>4. CASE ChooseEvidence
    <2>1. /\ UNCHANGED <<disk, mem, cur, recovery>>
          /\ pc = "read" /\ pc' = "reread"
          /\ evidence' = thread[cur].last.id
          /\ MayContinue(cur, thread[cur], seenGoal)
      BY <1>4 DEF ChooseEvidence
    <2>2. mem[cur].evidence_turn_id # evidence'
      BY <2>1 DEF MayContinue, AlreadyRecovered
    <2> QED BY <1>t, <2>1, <2>2 DEF SaveInv, Choosing, Mutating, Recording
  <1>5. CASE FollowResumedTurn \/ StartTurn
    <2>1. /\ UNCHANGED <<disk, mem>> /\ pc # "close" /\ pc' = "record"
      BY <1>5 DEF FollowResumedTurn, StartTurn
    <2> QED BY <1>t, <2>1 DEF SaveInv, Choosing, Mutating, Recording
  <1>6. CASE RecordStart \/ SaveFails
    <2> DEFINE r == Continuation("continuation_started", evidence, recovery)
    <2>1. /\ mem' = [mem EXCEPT ![cur] = r]
          /\ disk' = mem' \/ pc' = "close"
          /\ UNCHANGED <<cur, evidence, recovery>>
          /\ pc = "record" /\ pc' \in {"settle", "close"}
      BY <1>6 DEF RecordStart, SaveFails, Write, passVars
    <2>2. r.evidence_turn_id = evidence /\ r.recovery_turn_id = recovery
      BY DEF Continuation, NoRecord
    <2> HIDE DEF r
    <2>3. mem'[cur] = r
      BY <1>t, <2>1
    <2> QED BY <2>1, <2>2, <2>3 DEF SaveInv, Choosing, Mutating, Recording
  <1>7. CASE ReactivationDiffers \/ ReactivationRefused \/ CallFails
             \/ ReplyLost
    <2>1. /\ UNCHANGED <<disk, mem, cur, evidence, recovery>>
          /\ pc # "record" /\ pc' = "close"
      BY <1>7 DEF ReactivationDiffers, ReactivationRefused, CallFails,
                  ReplyLost, passVars
    <2> QED BY <1>t, <2>1 DEF SaveInv, Choosing, Mutating, Recording
  <1> QED BY <1>1, <1>2, <1>3, <1>4, <1>5, <1>6, <1>7, Zenon
          DEF Next, PassStep, Failure

LEMMA LedgerInvStep ==
    ASSUME TypeInv, LedgerInv, [Next]_vars PROVE LedgerInv'
  <1>t. TurnsMove /\ LedgerTells /\ SaveInv /\ SaveInv'
    BY ThreadStep, SaveStep DEF LedgerInv
  <1>1. CASE LeaveToCli \/ PassRaises \/ World \/ UNCHANGED vars
    <2>1. UNCHANGED <<pc, passVars, disk, mem, ledgerGhosts>>
      BY <1>1, Zenon DEF LeaveToCli, PassRaises, World, UserTurn,
         GoalContinues, TurnEndsOn, GoalSet, GoalWithdrawn, ThreadAges,
         CliStarts, CliExits, ListExpires, guardianVars, vars, ghostVars
    <2>2. UNCHANGED <<pc, cur, evidence, recovery, disk, mem>> /\ NoneSaved
      BY <2>1, SavedSame DEF passVars
    <2>3. LedgerTells'
      BY <1>t, <2>1, <2>2, LedgerKept
    <2>4. CASE pc' = "idle"
      BY <1>t, <2>3, <2>4, Elsewhere DEF LedgerInv
    <2>5. CASE pc' # "idle"
      <3>1. Choosing' = Choosing /\ Recording' = Recording
        BY <2>2 DEF Choosing, Mutating, Recording
      <3> QED BY <1>t, <2>2, <2>3, <2>5, <3>1, ChoiceStays, RecoveryStays
              DEF LedgerInv
    <2> QED BY <2>4, <2>5
  <1>2. CASE \/ (\E mode \in PassModes : Begin(mode))
             \/ ListThreads \/ (\E t \in Threads : GetGoal(t)) \/ SkipThread
             \/ FreshReadDiffers \/ FreshGoalHeld \/ ReactivationDiffers
             \/ ReactivationRefused \/ CallFails \/ ReplyLost \/ Crash
    <2>1. /\ disk' = disk
          /\ mem' = mem \/ mem' = disk
          /\ UNCHANGED ledgerGhosts \/ ReplyLost \/ Crash
      BY <1>2, Zenon DEF Begin, BeginPass, BeginPassOnOldList, ListThreads,
         GetGoal, SkipThread, FreshReadDiffers, FreshGoalHeld,
         ReactivationDiffers, ReactivationRefused, CallFails, ReplyLost, Crash,
         ghostVars
    <2>2. pc' \in {"idle", "list", "next", "read", "close"}
      BY <1>2 DEF Begin, BeginPass, BeginPassOnOldList, ListThreads,
         GetGoal, SkipThread, FreshReadDiffers, FreshGoalHeld,
         ReactivationDiffers, ReactivationRefused, CallFails, ReplyLost, Crash,
         NextThread, ForgetPass
    <2>3. CASE ReplyLost \/ Crash
      BY <1>t, <2>1, <2>2, <2>3, LostUnsaved, LedgerKept, Elsewhere
         DEF LedgerInv
    <2>4. CASE ~(ReplyLost \/ Crash)
      <3>1. \/ UNCHANGED <<disk, cur, evidence, recovery>>
            \/ recovery' = 0 /\ pc \notin {"close", "record", "settle", "settleGoal"}
            \/ recovery' = recovery /\ pc = "next"
        BY <1>2, <2>4, Zenon DEF Begin, BeginPass, BeginPassOnOldList,
           ListThreads, GetGoal, SkipThread, FreshReadDiffers, FreshGoalHeld,
           ReactivationDiffers, ReactivationRefused, CallFails, NextThread,
           passVars
      <3>2. NoneSaved
        BY <1>t, <2>1, <2>4, <3>1, SavedSame DEF SaveInv, Recording
      <3> QED BY <1>t, <2>1, <2>2, <3>2, LedgerKept, Elsewhere DEF LedgerInv
    <2> QED BY <2>3, <2>4
  <1>3. CASE \/ FreshRead \/ FreshGoal \/ ReactivateGoal \/ ResumeThread
             \/ PrepareStart \/ PollThread \/ KeepPolling
    <2>1. /\ UNCHANGED <<cur, evidence, recovery, disk, mem, ledgerGhosts>>
          /\ pc' # "idle"
          /\ Choosing' => Choosing
          /\ Recording' => Recording
          /\ pc # "record"
      BY <1>3 DEF FreshRead, FreshGoal, ReactivateGoal, ResumeThread,
         PrepareStart, PollThread, KeepPolling, passVars, ghostVars, Choosing,
         Mutating, Recording
    <2>2. NoneSaved
      BY <2>1, SavedSame
    <2> QED BY <1>t, <2>1, <2>2, LedgerKept, ChoiceStays, RecoveryStays
            DEF LedgerInv
  <1>4. CASE ChooseEvidence
    <2>1. /\ UNCHANGED <<disk, mem, recovery, ledgerGhosts>>
          /\ pc = "read" /\ pc' = "reread"
      BY <1>4 DEF ChooseEvidence
    <2>3. NoneSaved
      BY <1>t, <2>1, SavedSame DEF SaveInv, Recording
    <2>2. RecoveryFollows'
      BY <2>1 DEF RecoveryFollows, Recording
    <2> QED BY <1>t, <1>4, <2>1, <2>2, <2>3, LedgerKept, ChooseFresh
            DEF LedgerInv
  <1>5. CASE FollowResumedTurn \/ StartTurn
    <2>1. UNCHANGED <<disk, mem>>
      BY <1>5 DEF FollowResumedTurn, StartTurn
    <2> QED BY <1>t, <1>5, <2>1, StartUnsaved, LedgerKept, StartFollows
            DEF LedgerInv
  <1>6. CASE \/ RecordStart \/ Settled \/ SaveFails \/ PassEnds
             \/ (\E t \in Threads : ObserveNoGoal(t))
    BY <1>t, <1>6, RecordLedger, GoallessLedger, PassEndLedger DEF LedgerInv
  <1> QED BY <1>1, <1>2, <1>3, <1>4, <1>5, <1>6, Zenon
          DEF Next, PassStep, Failure

LEMMA LedgerInit == ASSUME Init PROVE LedgerInv
  <1>1. TypeInv /\ pc = "idle"
    BY TypeInit DEF Init
  <1>2. LedgerTells
    <2>1. \A t \in Threads : Continued[t] = {} /\ Ours[t] = {}
      BY DEF Init, Continued, Ours, Saved
    <2> QED BY <1>1, <2>1, IdTypes DEF Init, LedgerTells, Tells, NoRecord
  <1>3. SaveInv
    BY DEF Init, SaveInv, Choosing, Mutating
  <1> QED BY <1>1, <1>2, <1>3 DEF LedgerInv, EvidenceFresh, RecoveryFollows,
                                  Choosing, Mutating, Recording

\* A pass starts a turn for a fresh evidence.
LEMMA StartsFresh ==
    ASSUME TypeInv, LedgerInv, Starts
    PROVE  \A r \in recoveries[cur] \ untold[cur] :
             /\ r.evidence # evidence
             /\ thread[cur].last.id = evidence /\ thread[cur].last.status = "policy"
                  => r.turn # evidence
  <1>1. /\ Fresh(evidence, Continued[cur], Ours[cur], thread[cur])
        /\ recovery = 0 /\ pc = "start"
    BY DEF Starts, LedgerInv, EvidenceFresh, SaveInv, Choosing, Mutating,
           Recording
  <1>2. evidence \in Nat /\ cur \in Threads
    BY <1>1, Numbers DEF TypeInv, VisitType
  <1>3. Saved(cur) = recoveries[cur] \ untold[cur]
    BY <1>1 DEF Saved, Unsaved
  <1>4. \A r \in recoveries[cur] \ untold[cur] :
          r.evidence \in Continued[cur] /\ r.turn \in Ours[cur]
    BY <1>2, <1>3 DEF Continued, Ours
  <1> QED BY <1>1, <1>2, <1>4 DEF Fresh

LEMMA LedgerAlways == Spec => [](TypeInv /\ LedgerInv)
  BY TypeInit, TypeStep, LedgerInit, LedgerInvStep, PTL DEF Spec

(* A pass continues a turn once, for any threads, number of turns, failures *)
(* and crashes, except a turn whose continuation the ledger was kept from   *)
(* learning of by a lost answer or a crash: a record tells of the highest   *)
(* evidence continued and saved, a visit takes on a later one only          *)
(* (engine.py: the check of evidence_turn_id).                              *)
THEOREM ContinuedOnce == Spec => EvidenceContinuedOnce
  <1>1. TypeInv /\ LedgerInv =>
            [Starts => \A r \in recoveries[cur] :
                         r.evidence = evidence => r \in untold[cur]]_vars
    BY StartsFresh
  <1> QED BY <1>1, LedgerAlways, PTL DEF EvidenceContinuedOnce

(* A recovery turn that is rejected is not continued, for any threads,      *)
(* failures and crashes, unless a lost answer or a crash kept the ledger    *)
(* from learning that it is one: a rejected last turn is either no saved    *)
(* recovery or the recorded one, which ends the retries.                    *)
THEOREM RejectedRetryEnds == Spec => RejectedRetryIsLast
  <1>1. TypeInv /\ LedgerInv =>
            [Starts /\ thread[cur].last.id = evidence
                    /\ thread[cur].last.status = "policy"
               => \A r \in recoveries[cur] :
                    r.turn = evidence => r \in untold[cur]]_vars
    BY StartsFresh
  <1> QED BY <1>1, LedgerAlways, PTL DEF RejectedRetryIsLast

-----------------------------------------------------------------------------
(* The windows between the last looks of a pass and what it does. *)

WindowInv ==
    /\ pc = "reactivate" => goal[cur] = "stopped" \/ goalMoved
    /\ pc \in {"resume", "resumed", "start"} =>
            goal[cur] \in Continuable \/ goalMoved
    /\ pc = "start" /\ thread[cur].active => begun

\* Goals of the visited thread move before the eyes of the ghost only.
LEMMA SameWindow ==
    ASSUME WindowInv, UNCHANGED <<pc, cur>>,
           pc # "idle" =>
              /\ goalMoved => goalMoved'
              /\ goalMoved' \/ goal'[cur] = goal[cur]
              /\ begun => begun'
              /\ thread'[cur].active => thread[cur].active \/ begun'
    PROVE  WindowInv'
  BY DEF WindowInv

LEMMA WindowWorld ==
    ASSUME TypeInv, WindowInv, World \/ UNCHANGED vars PROVE WindowInv'
  <1>t. /\ goal \in [Threads -> Goals] /\ thread \in [Threads -> ThreadStates]
    BY DEF TypeInv, WorldType, ThreadType
  <1>1. CASE \/ CliStarts \/ CliExits \/ ListExpires \/ UNCHANGED vars
    <2>1. UNCHANGED <<pc, cur, goal, thread, begun, goalMoved>>
      BY <1>1, Zenon DEF CliStarts, CliExits, ListExpires, guardianVars,
         passVars, worldVars, ghostVars, vars
    <2> QED BY <2>1, SameWindow
  <1>2. ASSUME NEW t \in Threads, UserTurn(t) \/ GoalContinues(t)
        PROVE  WindowInv'
    <2>1. /\ TurnBegins(t)
          /\ hosted' = hosted \/ hosted' = hosted \cup {t}
          /\ used[t] < MaxTurns
          /\ UNCHANGED <<pc, cur, goal, goalMoved>>
      BY <1>2, Zenon DEF UserTurn, GoalContinues, guardianVars, passVars
    <2>2. /\ begun' = (begun \/ t = cur)
          /\ \A s \in Threads \ {t} : thread'[s] = thread[s]
      <3>1. begun' = (begun \/ t = cur)
        BY <2>1, Zenon DEF TurnBegins
      <3>2. \A s \in Threads \ {t} : thread'[s] = thread[s]
        BY <1>t, <2>1, TurnBeginsOn
      <3> QED BY <3>1, <3>2, Zenon
    <2>3. pc = "start" => cur \in Threads
      BY DEF TypeInv, VisitType
    <2> QED BY <2>1, <2>2, <2>3 DEF WindowInv
  <1>3. ASSUME NEW t \in Threads, TurnEndsOn(t) PROVE WindowInv'
    <2>1. UNCHANGED <<pc, cur, begun>>
      BY <1>3, Zenon DEF TurnEndsOn, guardianVars, passVars
    <2>2. \A s \in Threads : thread'[s].active => thread[s].active
      BY <1>3, TurnEndsType DEF TurnsKept
    <2>3. \/ UNCHANGED <<goal, goalMoved>>
          \/ \E status \in Goals : GoalBecomes(t, status)
      BY <1>3 DEF TurnEndsOn, Goals
    <2>4. cur \in Threads => /\ goalMoved => goalMoved'
                             /\ goalMoved' \/ goal'[cur] = goal[cur]
      BY <1>t, <2>3 DEF GoalBecomes
    <2>5. pc \in {"reactivate", "resume", "resumed", "start"} => cur \in Threads
      BY DEF TypeInv, VisitType
    <2> QED BY <2>1, <2>2, <2>4, <2>5 DEF WindowInv
  <1>4. ASSUME NEW t \in Threads, GoalSet(t) \/ GoalWithdrawn(t) \/ ThreadAges(t)
        PROVE  WindowInv'
    <2>1. UNCHANGED <<pc, cur, begun>>
      BY <1>4, Zenon DEF GoalSet, GoalWithdrawn, ThreadAges, guardianVars,
                         passVars
    <2>2. \A s \in Threads : thread'[s].active => thread[s].active
      <3>1. \/ thread' = thread
            \/ \E second \in Seconds(t) :
                 thread' = [thread EXCEPT ![t].updated = second]
            \/ thread' = [thread EXCEPT ![t].stale = TRUE]
        BY <1>4, Zenon DEF GoalSet, GoalWithdrawn, ThreadAges
      <3>2. thread' # thread => UNCHANGED <<used, hosted>>
        BY <1>4, Zenon DEF GoalSet, GoalWithdrawn, ThreadAges
      <3> QED BY <3>1, <3>2, ShownType DEF TurnsKept
    <2>3. \/ UNCHANGED <<goal, goalMoved>>
          \/ \E status \in Goals : GoalBecomes(t, status)
      BY <1>4 DEF GoalSet, GoalWithdrawn, ThreadAges, Goals
    <2>4. cur \in Threads => /\ goalMoved => goalMoved'
                             /\ goalMoved' \/ goal'[cur] = goal[cur]
      BY <1>t, <2>3 DEF GoalBecomes
    <2>5. pc \in {"reactivate", "resume", "resumed", "start"} => cur \in Threads
      BY DEF TypeInv, VisitType
    <2> QED BY <2>1, <2>2, <2>4, <2>5 DEF WindowInv
  <1> QED BY <1>1, <1>2, <1>3, <1>4, Zenon DEF World

LEMMA WindowStep ==
    ASSUME TypeInv, WindowInv, [Next]_vars PROVE WindowInv'
  <1>1. CASE FreshGoal
    BY <1>1 DEF FreshGoal, WindowInv, Continuable
  <1>2. CASE ReactivateGoal
    <2>1. /\ pc = "reactivate" /\ pc' = "resume" /\ cur' = cur
          /\ goal' = [goal EXCEPT ![cur] = "active"]
      BY <1>2 DEF ReactivateGoal, ServerSetsGoal, passVars
    <2>2. goal'[cur] = "active"
      BY <2>1 DEF TypeInv, WorldType, VisitType
    <2> QED BY <2>1, <2>2 DEF WindowInv, Continuable
  <1>3. CASE ResumeThread \/ PrepareStart
    <2>1. /\ UNCHANGED <<cur, goal, thread, goalMoved>>
          /\ \/ pc = "resume" /\ pc' = "resumed"
             \/ pc = "resumed" /\ pc' = "start" /\ ~thread[cur].active
      BY <1>3 DEF ResumeThread, PrepareStart, passVars, worldVars, ghostVars
    <2> QED BY <2>1 DEF WindowInv
  <1>4. CASE \/ LeaveToCli \/ (\E mode \in PassModes : Begin(mode))
             \/ ListThreads
             \/ (\E t \in Threads : ObserveNoGoal(t) \/ GetGoal(t))
             \/ SkipThread \/ ChooseEvidence \/ FreshRead \/ FreshReadDiffers
             \/ FreshGoalHeld \/ ReactivationDiffers \/ ReactivationRefused
             \/ FollowResumedTurn \/ StartTurn \/ RecordStart \/ PollThread
             \/ KeepPolling \/ Settled \/ PassEnds \/ Failure
    <2>1. pc' \notin {"reactivate", "resume", "resumed", "start"}
      BY <1>4 DEF LeaveToCli, Begin, BeginPass, BeginPassOnOldList,
         ListThreads, ObserveNoGoal, GetGoal, SkipThread, ChooseEvidence,
         FreshRead, FreshReadDiffers, FreshGoalHeld, ReactivationDiffers,
         ReactivationRefused, FollowResumedTurn, StartTurn, RecordStart,
         PollThread, KeepPolling, Settled, PassEnds, NextThread, ForgetPass,
         Failure, PassRaises, CallFails, ReplyLost, SaveFails, Crash
    <2> QED BY <2>1 DEF WindowInv
  <1> QED BY <1>1, <1>2, <1>3, <1>4, WindowWorld, Zenon DEF Next, PassStep

(* A held Goal is neither set active nor continued, and no turn is started *)
(* over a running one, but for what came about after the last look: the    *)
(* fresh thread/goal/get before the resume, and the thread/read after it.  *)
THEOREM ChangesAreResidual == Spec => ChangesOnlyInResidualWindow
  <1>1. Init => WindowInv
    BY DEF Init, WindowInv
  <1>2. ASSUME WindowInv
        PROVE  /\ pc = "reactivate" /\ goal'[cur] # goal[cur] /\ goal[cur] = "held"
                    => goalMoved
               /\ Starts /\ goal[cur] \in {"held", "none"} => goalMoved
               /\ Starts /\ thread[cur].active => begun
    BY <1>2 DEF WindowInv, Starts, Continuable
  <1>3. TypeInv /\ WindowInv =>
          [/\ pc = "reactivate" /\ goal'[cur] # goal[cur] /\ goal[cur] = "held"
                => goalMoved
           /\ Starts /\ goal[cur] \in {"held", "none"} => goalMoved
           /\ Starts /\ thread[cur].active => begun]_vars
    BY <1>2
  <1> QED BY <1>1, <1>3, TypeInit, TypeStep, WindowStep, PTL
          DEF Spec, ChangesOnlyInResidualWindow

-----------------------------------------------------------------------------
(* The native CLI. *)

\* A list of processes that shows no CLI is older than any CLI there is.
CliInv ==
    /\ processes.taken /\ ~processes.cli /\ cliUp => cliUnseen
    /\ processes.young => processes.taken
    /\ pc # "idle" /\ cliUp => cliUnseen

LEMMA CliStep ==
    ASSUME TypeInv, CliInv, [Next]_vars PROVE CliInv'
  <1>t. /\ processes \in ProcessLists /\ cliUp \in BOOLEAN
        /\ cliUnseen \in BOOLEAN
    BY DEF TypeInv, WorldType, ProbeTypeOK
  <1>1. ASSUME UNCHANGED probeVars, pc' # "idle" => pc # "idle"
        PROVE  CliInv'
    BY <1>1 DEF CliInv, probeVars
  <1>2. CASE LeaveToCli
    <2>1. pc' = "idle" /\ Answer(TRUE)
      BY <1>2 DEF LeaveToCli
    <2>2. CASE UNCHANGED probeVars
      BY <1>1, <2>1, <2>2
    <2>3. CASE AnswerFromQuery(TRUE)
      BY <2>1, <2>3 DEF AnswerFromQuery, ListOf, CliInv
    <2> QED BY <2>1, <2>2, <2>3 DEF Answer, AnswerFromCache
  <1>3. CASE \E mode \in PassModes : Begin(mode)
    <2>1. Answer(FALSE) \/ AnswerAfterTimeout(FALSE)
      BY <1>3, Zenon DEF Begin, BeginPass, BeginPassOnOldList
    <2>2. CASE AnswerFromCache(FALSE) \/ AnswerAfterTimeout(FALSE)
      BY <1>t, <2>2 DEF AnswerFromCache, AnswerAfterTimeout, CliInv, probeVars
    <2>3. CASE AnswerFromQuery(FALSE)
      BY <1>t, <2>3 DEF AnswerFromQuery, ListOf, CliInv
    <2> QED BY <2>1, <2>2, <2>3 DEF Answer
  <1>4. CASE PassRaises \/ Crash
    <2>1. ForgetList /\ pc' = "idle"
      BY <1>4, Zenon DEF PassRaises, Crash, ForgetPass
    <2> QED BY <2>1 DEF ForgetList, NoList, CliInv
  <1>5. CASE CliStarts
    BY <1>t, <1>5 DEF CliStarts, CliUp, CliInv
  <1>6. CASE CliExits
    BY <1>t, <1>6 DEF CliExits, CliDown, CliInv
  <1>7. CASE ListExpires
    <2>1. /\ processes' = [processes EXCEPT !.young = FALSE]
          /\ UNCHANGED <<cliUp, cliUnseen, pc>>
      BY <1>7 DEF ListExpires, ListAges, guardianVars
    <2>2. /\ processes'.young = FALSE /\ processes'.taken = processes.taken
          /\ processes'.cli = processes.cli
      BY <1>t, <2>1 DEF ProcessLists
    <2> QED BY <2>1, <2>2 DEF CliInv
  <1>8. CASE PassStep
    <2>1. UNCHANGED probeVars
      BY <1>8, Zenon DEF PassStep, ListThreads, ObserveNoGoal, GetGoal,
         SkipThread, ChooseEvidence, FreshRead, FreshReadDiffers, FreshGoal,
         FreshGoalHeld, ReactivateGoal, ReactivationDiffers,
         ReactivationRefused, ResumeThread, FollowResumedTurn, PrepareStart,
         StartTurn, RecordStart, PollThread, KeepPolling, Settled, PassEnds
    <2>2. pc # "idle"
      BY <1>8 DEF PassStep, ListThreads, ObserveNoGoal, GetGoal,
         SkipThread, ChooseEvidence, FreshRead, FreshReadDiffers, FreshGoal,
         FreshGoalHeld, ReactivateGoal, ReactivationDiffers,
         ReactivationRefused, ResumeThread, FollowResumedTurn, PrepareStart,
         StartTurn, RecordStart, PollThread, KeepPolling, Settled, PassEnds
    <2> QED BY <1>1, <2>1, <2>2
  <1>9. CASE \/ CallFails \/ ReplyLost \/ SaveFails
             \/ (\E t \in Threads :
                   \/ UserTurn(t) \/ GoalContinues(t) \/ TurnEndsOn(t)
                   \/ GoalSet(t) \/ GoalWithdrawn(t) \/ ThreadAges(t))
             \/ UNCHANGED vars
    <2>1. UNCHANGED probeVars
      BY <1>9, Zenon DEF CallFails, ReplyLost, SaveFails, UserTurn,
         GoalContinues, TurnEndsOn, GoalSet, GoalWithdrawn, ThreadAges, vars
    <2>2. pc' = pc \/ pc # "idle"
      BY <1>9 DEF CallFails, ReplyLost, SaveFails, PassPoints, UserTurn,
         GoalContinues, TurnEndsOn, GoalSet, GoalWithdrawn, ThreadAges,
         guardianVars, vars
    <2> QED BY <1>1, <2>1, <2>2
  <1> QED BY <1>2, <1>3, <1>4, <1>5, <1>6, <1>7, <1>8, <1>9, Zenon
          DEF Next, Failure, World

(* A pass starts no turn while a native CLI runs that any query of the     *)
(* processes was answered after: an old list, a timed out query and a CLI  *)
(* that comes up during the pass are the only ways (ownership.py).         *)
THEOREM CliFirst == Spec => CliKeepsItsThreads
  <1>1. Init => CliInv
    BY DEF Init, ProbeInit, NoList, CliInv
  <1>2. TypeInv /\ CliInv => [Starts /\ cliUp => cliUnseen]_vars
    BY DEF CliInv, Starts
  <1> QED BY <1>1, <1>2, TypeInit, TypeStep, CliStep, PTL
          DEF Spec, CliKeepsItsThreads

-----------------------------------------------------------------------------
(* Recovery turns are seen out. *)

\* The turn the ledger tells of runs.
RecoveryRuns(t) ==
    thread[t].active /\ thread[t].last.id = mem[t].recovery_turn_id

SeenOutInv ==
    /\ pc = "idle" => hosted = {} /\ loaded = {}
    /\ \A t \in hosted :
         RecoveryRuns(t) => t = cur /\ pc \in {"settle", "settleGoal", "close"}
    /\ pc = "settleGoal" /\ ~seenActive => ~RecoveryRuns(cur)

\* A turn that begins is none the ledger tells of.
LEMMA RunsOn ==
    ASSUME TypeInv, LedgerInv, TurnsMove, NEW t \in Threads,
           mem'[t].recovery_turn_id = mem[t].recovery_turn_id,
           RecoveryRuns(t)'
    PROVE  RecoveryRuns(t) /\ ~TurnAdded(t)
  <1>1. /\ used[t] \in Nat /\ mem[t].recovery_turn_id \in Nat
        /\ mem[t].recovery_turn_id <= used[t]
    BY IdTypes, RecordIds DEF LedgerInv, LedgerTells, Tells
  <1>2. ~TurnAdded(t)
    BY <1>1 DEF TurnAdded, RecoveryRuns
  <1>3. TurnsKept(t)
    BY <1>2 DEF TurnsMove, TurnLost, RecoveryRuns
  <1> QED BY <1>2, <1>3 DEF TurnsKept, RecoveryRuns

LEMMA SeenOutKept ==
    ASSUME TypeInv, LedgerInv, SeenOutInv, TurnsMove, hosted' \subseteq Threads,
           \A t \in Threads :
               mem'[t].recovery_turn_id = mem[t].recovery_turn_id,
           \A t \in hosted' \ hosted : TurnAdded(t),
           pc' = "idle" => pc = "idle" /\ UNCHANGED <<hosted, loaded>>,
           pc \in {"settle", "settleGoal", "close"} =>
               cur' = cur /\ pc' \in {"settle", "settleGoal", "close"},
           pc' = "settleGoal" =>
               pc = "settleGoal" /\ UNCHANGED <<cur, seenActive>>
    PROVE  SeenOutInv'
  <1>1. ASSUME NEW t \in hosted', RecoveryRuns(t)'
        PROVE  t = cur' /\ pc' \in {"settle", "settleGoal", "close"}
    BY <1>1, RunsOn DEF SeenOutInv
  <1>2. ASSUME pc' = "settleGoal", ~seenActive', RecoveryRuns(cur)'
        PROVE  FALSE
    <2>1. cur \in Threads
      BY <1>2 DEF TypeInv, VisitType
    <2>2. RecoveryRuns(cur)
      BY <1>2, <2>1, RunsOn DEF RecoveryRuns
    <2> QED BY <1>2, <2>2 DEF SeenOutInv
  <1> QED BY <1>1, <1>2 DEF SeenOutInv

LEMMA SeenOutRecords ==
    ASSUME TypeInv, LedgerInv, SeenOutInv,
           RecordStart \/ PollThread \/ Settled \/ SaveFails
    PROVE  SeenOutInv'
  <1>1. /\ cur \in Threads /\ UNCHANGED <<cur, thread, used, hosted>>
        /\ pc' # "idle"
    BY DEF RecordStart, PollThread, Settled, SaveFails, NextThread, passVars,
           worldVars, TypeInv, VisitType
  <1>2. \A t \in Threads \ {cur} : mem'[t] = mem[t]
    BY DEF RecordStart, PollThread, Settled, SaveFails, Write, TypeInv,
           LedgerType
  <1>3. \A t \in hosted \ {cur} : ~RecoveryRuns(t)'
    BY <1>1, <1>2 DEF SeenOutInv, RecoveryRuns, TypeInv, ThreadType
  <1>4. CASE RecordStart \/ SaveFails
    <2>1. pc' \in {"settle", "close"}
      BY <1>4 DEF RecordStart, SaveFails
    <2> QED BY <1>1, <1>3, <2>1 DEF SeenOutInv
  <1>5. CASE PollThread
    <2>1. /\ pc' = "settleGoal" /\ seenActive' = thread[cur].active
          /\ mem' = mem
      BY <1>5 DEF PollThread
    <2>2. ~seenActive' => ~RecoveryRuns(cur)'
      BY <1>1, <2>1, Zenon DEF RecoveryRuns
    <2> QED BY <1>1, <1>3, <2>1, <2>2 DEF SeenOutInv, RecoveryRuns
  <1>6. CASE Settled
    <2>1. /\ pc = "settleGoal" /\ ~seenActive /\ pc' = "next"
          /\ mem' = [mem EXCEPT ![cur] =
                       Continuation("continuation_settled", evidence, recovery)]
      BY <1>6 DEF Settled, Write, NextThread
    <2>2. mem'[cur].recovery_turn_id = recovery
      BY <1>1, <2>1 DEF Continuation, NoRecord, TypeInv, LedgerType
    <2>3. mem[cur].recovery_turn_id = recovery /\ ~RecoveryRuns(cur)
      BY <2>1 DEF LedgerInv, RecoveryFollows, Recording, SeenOutInv
    <2>4. ~RecoveryRuns(cur)'
      BY <1>1, <2>2, <2>3 DEF RecoveryRuns
    <2> QED BY <1>1, <1>3, <2>1, <2>4 DEF SeenOutInv, RecoveryRuns
  <1> QED BY <1>4, <1>5, <1>6

LEMMA SeenOutStep ==
    ASSUME TypeInv, LedgerInv, SeenOutInv, [Next]_vars PROVE SeenOutInv'
  <1>t. /\ TurnsMove /\ hosted' \subseteq Threads /\ hosted \subseteq Threads
    BY ThreadStep DEF TypeInv, ThreadType
  <1>1. CASE LeaveToCli \/ PassRaises \/ World \/ UNCHANGED vars
    <2>1. UNCHANGED <<pc, mem, cur, seenActive>>
      BY <1>1, Zenon DEF LeaveToCli, PassRaises, World, UserTurn,
         GoalContinues, TurnEndsOn, GoalSet, GoalWithdrawn, ThreadAges,
         CliStarts, CliExits, ListExpires, guardianVars, vars, passVars
    <2>2. CASE \E t \in Threads : GoalContinues(t)
      <3>1. PICK t \in Threads : GoalContinues(t)
        BY <2>2
      <3>2. /\ TurnBegins(t) /\ used[t] < MaxTurns
            /\ hosted' = hosted \cup {t} /\ t \in loaded
        BY <3>1 DEF GoalContinues
      <3>3. TurnAdded(t)
        BY <3>2, UserBound, TurnBeginsType
      <3>4. CASE pc # "idle"
        BY <1>t, <2>1, <3>2, <3>3, <3>4, SeenOutKept
      <3> QED BY <3>2, <3>4 DEF SeenOutInv
    <2>3. CASE ~\E t \in Threads : GoalContinues(t)
      <3>1. hosted' = hosted \/ \E t \in Threads : hosted' = hosted \ {t}
        BY <1>1, <2>3, Zenon DEF LeaveToCli, PassRaises, World, UserTurn,
           TurnEndsOn, GoalSet, GoalWithdrawn, ThreadAges,
           CliStarts, CliExits, ListExpires, vars, worldVars
      <3>2. hosted' \subseteq hosted
        BY <3>1
      <3>3. pc = "idle" => hosted' = hosted
        BY <3>2 DEF SeenOutInv
      <3>4. loaded' = loaded
        BY <1>1, <2>3, Zenon DEF LeaveToCli, PassRaises, World, UserTurn,
           TurnEndsOn, GoalSet, GoalWithdrawn, ThreadAges,
           CliStarts, CliExits, ListExpires, vars, worldVars
      <3> QED BY <1>t, <2>1, <3>2, <3>3, <3>4, SeenOutKept
    <2> QED BY <2>2, <2>3
  <1>2. CASE PassEnds \/ Crash
    <2>1. hosted' = {} /\ loaded' = {} /\ pc' = "idle"
      BY <1>2, Zenon DEF PassEnds, Crash, ServerDies, ForgetPass
    <2> QED BY <2>1 DEF SeenOutInv
  <1>3. CASE \E mode \in PassModes : Begin(mode)
    <2>1. pc = "idle" /\ pc' = "list" /\ hosted' = hosted
      BY <1>3 DEF Begin, BeginPass, BeginPassOnOldList, worldVars
    <2> QED BY <2>1 DEF SeenOutInv
  <1>4. ASSUME NEW t \in Threads, ObserveNoGoal(t) PROVE SeenOutInv'
    <2>1. /\ pc = "next" /\ pc' = "next" /\ UNCHANGED <<thread, hosted>>
      BY <1>4 DEF ObserveNoGoal, NextThread
    <2>2. /\ \A s \in Threads \ {t} : mem'[s] = mem[s]
          /\ mem'[t].recovery_turn_id \in {0, mem[t].recovery_turn_id}
      <3>1. CASE dry
        <4>1. mem' = mem
          BY <1>4, <3>1 DEF ObserveNoGoal
        <4> QED BY <4>1
      <3>2. CASE ~dry
        <4> DEFINE r == NoGoalRecord(listed[t])
        <4>1. r.recovery_turn_id = 0
          BY DEF NoGoalRecord, NoRecord
        <4>2. mem' = [mem EXCEPT ![t] = r]
          BY <1>4, <3>2, Zenon DEF ObserveNoGoal, Write
        <4> HIDE DEF r
        <4> QED BY <4>1, <4>2 DEF TypeInv, LedgerType
      <3> QED BY <3>1, <3>2
    <2>3. \A s \in Threads : thread[s].active => thread[s].last.id # 0
      BY IdTypes DEF Ordered
    <2>4. \A s \in hosted : ~RecoveryRuns(s)'
      BY <1>t, <2>1, <2>2, <2>3 DEF SeenOutInv, RecoveryRuns
    <2> QED BY <2>1, <2>4 DEF SeenOutInv
  <1>5. CASE StartTurn
    <2>1. /\ pc = "start" /\ pc' = "record" /\ mem' = mem
          /\ TurnBegins(cur) /\ hosted' = hosted \cup {cur}
      BY <1>5 DEF StartTurn, ServerStartsTurn
    <2>2. TurnAdded(cur)
      BY <2>1, StartBound, TurnBeginsType
    <2> QED BY <1>t, <2>1, <2>2, SeenOutKept
  <1>6. CASE ReplyLost
    <2>1. /\ pc' = "close" /\ UNCHANGED <<mem, cur>>
          /\ \/ hosted' = hosted
             \/ /\ pc = "start" /\ TurnBegins(cur)
                /\ hosted' = hosted \cup {cur}
      BY <1>6 DEF ReplyLost, ServerStartsTurn, passVars
    <2>2. hosted' = hosted \/ (hosted' = hosted \cup {cur} /\ TurnAdded(cur))
      BY <2>1, StartBound, TurnBeginsType
    <2> QED BY <1>t, <2>1, <2>2, SeenOutKept
  <1>7. CASE \/ ListThreads \/ (\E t \in Threads : GetGoal(t))
             \/ SkipThread \/ ChooseEvidence \/ FreshRead \/ FreshReadDiffers
             \/ FreshGoal \/ FreshGoalHeld \/ ReactivateGoal
             \/ ReactivationDiffers \/ ReactivationRefused \/ ResumeThread
             \/ FollowResumedTurn \/ PrepareStart \/ KeepPolling \/ CallFails
    <2>1. UNCHANGED <<mem, hosted>>
      BY <1>7, Zenon DEF ListThreads, GetGoal, SkipThread, ChooseEvidence,
         FreshRead, FreshReadDiffers, FreshGoal, FreshGoalHeld, ReactivateGoal,
         ReactivationDiffers, ReactivationRefused, ResumeThread,
         FollowResumedTurn, PrepareStart, KeepPolling, CallFails, worldVars
    <2>2. /\ pc' # "idle" /\ pc' # "settleGoal"
          /\ pc \in {"settle", "settleGoal", "close"} =>
                cur' = cur /\ pc' \in {"settle", "settleGoal", "close"}
      BY <1>7 DEF ListThreads, GetGoal, SkipThread, ChooseEvidence,
         FreshRead, FreshReadDiffers, FreshGoal, FreshGoalHeld, ReactivateGoal,
         ReactivationDiffers, ReactivationRefused, ResumeThread,
         FollowResumedTurn, PrepareStart, KeepPolling, CallFails, NextThread,
         PassPoints, passVars
    <2> QED BY <1>t, <2>1, <2>2, SeenOutKept
  <1> QED BY <1>1, <1>2, <1>3, <1>4, <1>5, <1>6, <1>7, SeenOutRecords, Zenon
          DEF Next, PassStep, Failure

(* A pass that goes through its threads closes its App Server when no turn *)
(* that the ledger tells of runs there: it waits until the thread it       *)
(* continued was seen idle twice (_wait_until_settled).                    *)
THEOREM RecoveriesSeenOut == Spec => RecoveryTurnsSeenOut
  <1>1. Init => SeenOutInv
    BY DEF Init, SeenOutInv
  <1>2. TypeInv /\ LedgerInv /\ SeenOutInv =>
          [pc = "next" /\ pc' = "idle" /\ mem' = mem =>
             \A t \in hosted :
                thread[t].active
                  => thread[t].last.id # mem[t].recovery_turn_id]_vars
    BY DEF SeenOutInv, RecoveryRuns
  <1> QED BY <1>1, <1>2, LedgerAlways, SeenOutStep, PTL
          DEF Spec, RecoveryTurnsSeenOut
=============================================================================
