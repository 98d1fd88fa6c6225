------------------------- MODULE CliRecoveryProofs -------------------------
(***************************************************************************)
(* Safety of the CLI recovery for every number of threads, every threshold *)
(* and every bound, as long as the target has no capacity fallbacks        *)
(* (CapacityEnabled = FALSE; with them OutageNeverForgotten does not hold).*)
(***************************************************************************)
EXTENDS CliRecovery, FiniteSetTheorems, TLAPS

VisitPoints ==
    {"goal", "resume", "resumed", "reread", "regoal", "start", "started",
     "settle", "settleGoal"}

-----------------------------------------------------------------------------
(* What mark_recovered does to the ledger, for every number of generations *)
(* and threads: it stays well formed, and pruning never reaches the        *)
(* generation it marks as long as that is the highest one recorded.        *)

NoRecordsAfter(ledger, g) ==
    \A n \in Generations : n > g => ledger[n] = NoRecords

(* The empty record of a generation and the empty ledger are well formed.  *)
LEMMA EmptyLedgerType == NoRecords \in [Threads -> RecordActions]
                         /\ EmptyLedger \in Ledgers
BY DEF NoRecords, EmptyLedger, Ledgers, RecordActions

(* mark_recovered returns a well formed ledger.                            *)
LEMMA MarkRecoveredType ==
    ASSUME NEW ledger \in Ledgers, NEW g \in Generations,
           NEW t \in Threads, NEW a \in RecordActions
    PROVE  MarkRecovered(ledger, g, t, a) \in Ledgers
<1> DEFINE marked == [ledger EXCEPT ![g][t] = a]
           newer(n) == {m \in RecordedGenerations(marked) : m > n}
<1>1. marked \in Ledgers
  BY DEF Ledgers
<1>2. \A n \in Generations :
        (IF Cardinality(newer(n)) < KeptGenerations
         THEN marked[n] ELSE NoRecords) \in [Threads -> RecordActions]
  <2> HIDE DEF marked, newer
  <2> QED BY <1>1, EmptyLedgerType DEF Ledgers
<1>3. MarkRecovered(ledger, g, t, a) =
        [n \in Generations |-> IF Cardinality(newer(n)) < KeptGenerations
                               THEN marked[n] ELSE NoRecords]
  BY DEF MarkRecovered
<1> QED
  <2> HIDE DEF marked, newer
  <2> QED BY <1>2, <1>3 DEF Ledgers

(* mark_recovered on the highest recorded generation keeps it: the record  *)
(* it writes is there, the others of the generation are untouched, and no  *)
(* later generation appears.                                               *)
LEMMA MarkRecoveredKeepsCurrent ==
    ASSUME NEW ledger \in Ledgers, NEW g \in Generations,
           NEW t \in Threads, NEW a \in RecordActions,
           NoRecordsAfter(ledger, g)
    PROVE  /\ MarkRecovered(ledger, g, t, a)[g] = [ledger[g] EXCEPT ![t] = a]
           /\ NoRecordsAfter(MarkRecovered(ledger, g, t, a), g)
<1> DEFINE marked == [ledger EXCEPT ![g][t] = a]
           newer(n) == {m \in RecordedGenerations(marked) : m > n}
<1>1. \A n \in Generations : n > g => marked[n] = NoRecords
  BY DEF NoRecordsAfter, Ledgers, Generations
<1>2. newer(g) = {}
  BY <1>1 DEF RecordedGenerations
<1>3. Cardinality(newer(g)) < KeptGenerations
  <2>1. Cardinality({}) = 0
    BY FS_EmptySet
  <2>2. 0 < KeptGenerations
    BY KeptGenerationsAssumption
  <2> HIDE DEF newer
  <2> QED BY <1>2, <2>1, <2>2
<1>4. MarkRecovered(ledger, g, t, a) =
        [n \in Generations |-> IF Cardinality(newer(n)) < KeptGenerations
                               THEN marked[n] ELSE NoRecords]
  BY DEF MarkRecovered
<1>5. marked[g] = [ledger[g] EXCEPT ![t] = a]
  BY DEF Ledgers
<1>6. MarkRecovered(ledger, g, t, a)[g] = marked[g]
  <2> HIDE DEF marked, newer
  <2> QED BY <1>3, <1>4
<1>7. \A n \in Generations :
        n > g => MarkRecovered(ledger, g, t, a)[n] = NoRecords
  <2> HIDE DEF newer, marked
  <2> QED BY <1>1, <1>4
<1> QED BY <1>5, <1>6, <1>7 DEF NoRecordsAfter

-----------------------------------------------------------------------------
(* The operators on the target record. *)

\* An outage being confirmed over has not seen enough successes yet.
Confirming(r) ==
    r.health = "down" => r.consecutive_healthy < RequiredSuccesses

\* Everything a failing probe does to a record.
LEMMA ProbeFailedFields ==
    ASSUME NEW r \in Targets
    PROVE  /\ ProbeFailed(r).consecutive_unhealthy = r.consecutive_unhealthy + 1
           /\ ProbeFailed(r).consecutive_healthy = 0
           /\ ProbeFailed(r).recovered = r.recovered
           /\ ProbeFailed(r).health # "down" =>
                /\ r.health # "down"
                /\ ProbeFailed(r).health = r.health
           /\ r.health = "down" => ProbeFailed(r).health = "down"
           /\ OutageDeclared(r) =>
                /\ r.health # "down"
                /\ ProbeFailed(r).health = "down"
                /\ ProbeFailed(r).outage_generation = r.outage_generation + 1
                /\ ProbeFailed(r).recovery_pending = FALSE
           /\ ~OutageDeclared(r) =>
                /\ ProbeFailed(r).health = r.health
                /\ ProbeFailed(r).outage_generation = r.outage_generation
                /\ ProbeFailed(r).recovery_pending = r.recovery_pending
<1>1. CASE OutageDeclared(r)
  BY <1>1 DEF Targets, ProbeFailed, OutageDeclared
<1>2. CASE ~OutageDeclared(r)
  BY <1>2 DEF Targets, ProbeFailed, OutageDeclared
<1> QED BY <1>1, <1>2

\* Everything a healthy probe does to a record.
LEMMA ProbeSucceededFields ==
    ASSUME NEW r \in Targets
    PROVE  /\ ProbeSucceeded(r).consecutive_unhealthy = 0
           /\ ProbeSucceeded(r).recovered = r.recovered
           /\ ProbeSucceeded(r).outage_generation = r.outage_generation
           /\ ProbeSucceeded(r).recovery_pending = r.recovery_pending
           /\ RecoverNow(r) => ProbeSucceeded(r).health = "up"
           /\ r.health = "down" =>
                /\ ProbeSucceeded(r).consecutive_healthy =
                     r.consecutive_healthy + 1
                /\ ~RecoverNow(r) => ProbeSucceeded(r).health = "down"
           /\ r.health # "down" =>
                /\ ProbeSucceeded(r).health = "up"
                /\ ProbeSucceeded(r).consecutive_healthy = RequiredSuccesses
<1>1. CASE RecoverNow(r)
  BY <1>1 DEF Targets, ProbeSucceeded, RecoverNow
<1>2. CASE ~RecoverNow(r) /\ r.health = "down"
  BY <1>2 DEF Targets, ProbeSucceeded
<1>3. CASE r.health # "down"
  BY <1>3 DEF Targets, ProbeSucceeded, RecoverNow
<1> QED BY <1>1, <1>2, <1>3

\* A failing probe within the bounds keeps the record well formed.
LEMMA ProbeFailedType ==
    ASSUME NEW r \in Targets,
           r.consecutive_unhealthy < MaxUnhealthy,
           OutageDeclared(r) => r.outage_generation < MaxOutages
    PROVE  ProbeFailed(r) \in Targets /\ Confirming(ProbeFailed(r))
<1> USE RequiredSuccessesAssumption, RequiredFailuresAssumption,
        MaxOutagesAssumption, BoundsAssumption
<1>1. /\ r.health \in Healths
      /\ r.consecutive_unhealthy + 1 \in 0 .. MaxUnhealthy
      /\ 0 \in 0 .. RequiredSuccesses
      /\ r.outage_generation \in Generations
      /\ r.recovery_pending \in BOOLEAN
      /\ r.recovered \in Ledgers
  BY DEF Targets
<1>2. CASE OutageDeclared(r)
  <2>1. ProbeFailed(r) =
          [health |-> "down",
           consecutive_healthy |-> 0,
           consecutive_unhealthy |-> r.consecutive_unhealthy + 1,
           outage_generation |-> r.outage_generation + 1,
           recovery_pending |-> FALSE,
           recovered |-> r.recovered]
    <3>1. r.consecutive_unhealthy + 1 >= RequiredFailures
      BY <1>2 DEF OutageDeclared
    <3>2. ProbeFailed(r) =
            [r EXCEPT !.consecutive_unhealthy = r.consecutive_unhealthy + 1,
                      !.consecutive_healthy = 0,
                      !.health = "down",
                      !.outage_generation = r.outage_generation + 1,
                      !.recovery_pending = FALSE]
      BY <1>2, <3>1, Zenon DEF ProbeFailed
    <3> QED BY <3>2 DEF Targets
  <2>2. r.outage_generation + 1 \in Generations
    BY <1>1, <1>2 DEF Generations
  <2>3. ProbeFailed(r) \in Targets
    BY <1>1, <2>1, <2>2 DEF Targets, Healths
  <2>4. ProbeFailed(r).consecutive_healthy = 0
    BY <2>1
  <2> QED BY <2>3, <2>4 DEF Confirming
<1>3. CASE ~OutageDeclared(r)
  <2>1. ProbeFailed(r) =
          [health |-> r.health,
           consecutive_healthy |-> 0,
           consecutive_unhealthy |-> r.consecutive_unhealthy + 1,
           outage_generation |-> r.outage_generation,
           recovery_pending |-> r.recovery_pending,
           recovered |-> r.recovered]
    <3>1. (IF r.consecutive_unhealthy + 1 >= RequiredFailures
           THEN "down" ELSE r.health) = r.health
      BY <1>3 DEF OutageDeclared
    <3>2. ProbeFailed(r) =
            [r EXCEPT !.consecutive_unhealthy = r.consecutive_unhealthy + 1,
                      !.consecutive_healthy = 0,
                      !.health = r.health,
                      !.outage_generation = r.outage_generation,
                      !.recovery_pending = r.recovery_pending]
      BY <1>3, <3>1, Zenon DEF ProbeFailed
    <3> QED BY <3>2 DEF Targets
  <2>2. ProbeFailed(r) \in Targets
    BY <1>1, <2>1 DEF Targets
  <2>3. ProbeFailed(r).consecutive_healthy = 0
    BY <2>1
  <2> QED BY <2>2, <2>3 DEF Confirming
<1> QED BY <1>2, <1>3

\* A healthy probe keeps the record well formed.
LEMMA ProbeSucceededType ==
    ASSUME NEW r \in Targets, Confirming(r)
    PROVE  ProbeSucceeded(r) \in Targets /\ Confirming(ProbeSucceeded(r))
<1> USE RequiredSuccessesAssumption, BoundsAssumption
<1> DEFINE p == ProbeSucceeded(r)
<1>1. p = [health |-> p.health,
           consecutive_healthy |-> p.consecutive_healthy,
           consecutive_unhealthy |-> p.consecutive_unhealthy,
           outage_generation |-> p.outage_generation,
           recovery_pending |-> p.recovery_pending,
           recovered |-> p.recovered]
  <2>1. CASE RecoverNow(r)
    BY <2>1 DEF Targets, ProbeSucceeded, RecoverNow
  <2>2. CASE ~RecoverNow(r) /\ r.health = "down"
    BY <2>2 DEF Targets, ProbeSucceeded, RecoverNow
  <2>3. CASE r.health # "down"
    BY <2>3 DEF Targets, ProbeSucceeded, RecoverNow
  <2> QED BY <2>1, <2>2, <2>3
<1>0. r.recovered \in Ledgers /\ r.outage_generation \in Generations
      /\ r.recovery_pending \in BOOLEAN /\ r.health \in Healths
      /\ r.consecutive_healthy \in 0 .. RequiredSuccesses
  BY DEF Targets
<1>2. /\ p.consecutive_unhealthy \in 0 .. MaxUnhealthy
      /\ p.recovered \in Ledgers
      /\ p.outage_generation \in Generations
      /\ p.recovery_pending \in BOOLEAN
  BY <1>0, ProbeSucceededFields
<1>3. p.health \in Healths
  BY <1>0, ProbeSucceededFields DEF Healths
<1>4. p.consecutive_healthy \in 0 .. RequiredSuccesses
  BY <1>0, ProbeSucceededFields DEF Confirming
<1>5. p.health = "down" => p.consecutive_healthy < RequiredSuccesses
  BY <1>0, ProbeSucceededFields DEF Confirming, RecoverNow
<1> HIDE DEF p
<1>6. p \in Targets /\ Confirming(p)
  BY <1>1, <1>2, <1>3, <1>4, <1>5 DEF Targets, Confirming
<1> QED BY <1>6 DEF p

\* mark_recovered changes nothing but the ledger, and keeps it well formed.
LEMMA MarkedType ==
    ASSUME NEW r \in Targets, NEW t \in Threads, NEW a \in RecordActions
    PROVE  /\ Marked(r, t, a) \in Targets
           /\ Marked(r, t, a).health = r.health
           /\ Marked(r, t, a).consecutive_healthy = r.consecutive_healthy
           /\ Marked(r, t, a).outage_generation = r.outage_generation
           /\ Marked(r, t, a).recovery_pending = r.recovery_pending
           /\ Marked(r, t, a).recovered =
                MarkRecovered(r.recovered, r.outage_generation, t, a)
<1>1. r.recovered \in Ledgers /\ r.outage_generation \in Generations
  BY DEF Targets
<1>2. MarkRecovered(r.recovered, r.outage_generation, t, a) \in Ledgers
  BY <1>1, MarkRecoveredType
<1> QED BY <1>2 DEF Targets, Marked

\* Setting the pending flag keeps the record well formed.
LEMMA PendingType ==
    ASSUME NEW r \in Targets, NEW b \in BOOLEAN
    PROVE  /\ [r EXCEPT !.recovery_pending = b] \in Targets
           /\ [r EXCEPT !.recovery_pending = b].recovery_pending = b
           /\ [r EXCEPT !.recovery_pending = b].health = r.health
           /\ [r EXCEPT !.recovery_pending = b].consecutive_healthy =
                r.consecutive_healthy
           /\ [r EXCEPT !.recovery_pending = b].outage_generation =
                r.outage_generation
           /\ [r EXCEPT !.recovery_pending = b].recovered = r.recovered
BY DEF Targets

-----------------------------------------------------------------------------
(* Type correctness. *)

\* While a thread is visited, cur names it.
Visiting == pc \in VisitPoints => cur \in Threads

RecordsOK ==
    /\ disk \in Targets /\ Confirming(disk)
    /\ mem \in Targets /\ Confirming(mem)

TypeInv ==
    /\ RecordsOK
    /\ PassTypeOK /\ Visiting
    /\ WorldTypeOK
    /\ BudgetTypeOK
    /\ GhostTypeOK

\* mark_recovered and store.save of a visited thread.
LEMMA MarkKeepsRecords ==
    ASSUME RecordsOK, NEW t \in Threads, NEW a \in RecordActions, Mark(t, a)
    PROVE  RecordsOK'
<1>1. Marked(mem, t, a) \in Targets /\ Confirming(Marked(mem, t, a))
  BY MarkedType DEF RecordsOK, Confirming
<1> QED BY <1>1 DEF Mark, RecordsOK

\* The end of a pass.
LEMMA EndPassKeepsTypes ==
    ASSUME TypeInv, NEW c \in BOOLEAN, EndPass(c)
    PROVE  /\ RecordsOK' /\ PassTypeOK' /\ Visiting'
           /\ closed' \subseteq Generations
           /\ begun' \in BOOLEAN
           /\ woken' \subseteq Threads
<1>1. [mem EXCEPT !.recovery_pending = FALSE] \in Targets
      /\ Confirming([mem EXCEPT !.recovery_pending = FALSE])
  BY PendingType DEF TypeInv, RecordsOK, Confirming
<1>2. RecordsOK'
  BY <1>1 DEF EndPass, TypeInv, RecordsOK
<1>3. mem.outage_generation \in Generations
  BY DEF TypeInv, RecordsOK, Targets
<1>4. closed' \subseteq Generations
  BY <1>3 DEF EndPass, TypeInv, GhostTypeOK
<1>5. PassTypeOK' /\ Visiting' /\ begun' \in BOOLEAN /\ woken' \subseteq Threads
  BY DEF EndPass, ForgetPass, PassTypeOK, PassPoints, ThreadViews, NewThread,
         TurnStates, Visiting, VisitPoints
<1> QED BY <1>2, <1>4, <1>5

\* The initial states are well typed.
LEMMA InitTypeInv == Init => TypeInv
<1> SUFFICES ASSUME Init PROVE TypeInv
  OBVIOUS
<1> USE RequiredSuccessesAssumption, MaxOutagesAssumption, BoundsAssumption
<1>1. FreshTarget \in Targets /\ Confirming(FreshTarget)
  BY EmptyLedgerType
     DEF FreshTarget, FreshHealth, Targets, Healths, Generations, Confirming
<1>2. ASSUME NEW records \in [Threads -> InheritedActions], MaxOutages > 0
      PROVE  InheritedTarget(records) \in Targets
             /\ Confirming(InheritedTarget(records))
  <2>1. [EmptyLedger EXCEPT ![1] = records] \in Ledgers
    BY <1>2, EmptyLedgerType, InheritedActionsAssumption DEF Ledgers
  <2>2. 1 \in Generations /\ RequiredSuccesses \in 0 .. RequiredSuccesses
        /\ "up" \in Healths
    BY <1>2 DEF Generations, Healths
  <2>3. InheritedTarget(records) \in Targets
    BY <1>1, <2>1, <2>2 DEF InheritedTarget, Targets
  <2>4. InheritedTarget(records).health = "up"
    BY <1>1 DEF InheritedTarget, Targets
  <2> QED BY <2>3, <2>4 DEF Confirming
<1>3. RecordsOK
  BY <1>1, <1>2 DEF Init, RecordsOK
<1>4. PassTypeOK /\ Visiting
  BY DEF Init, Quiet, PassTypeOK, PassPoints, Visiting, VisitPoints,
         ThreadViews, NewThread, TurnStates
<1>5. WorldTypeOK
  <2>1. NewThread \in ThreadViews /\ RunningThread \in ThreadViews
    BY DEF ThreadViews, NewThread, RunningThread, TurnStates
  <2>2. thread \in [Threads -> ThreadViews]
    BY <2>1 DEF Init
  <2>3. /\ startTurns \in StartModes
        /\ goalActive = Threads
        /\ netUp = TRUE
        /\ cliUp = FALSE
    BY DEF Init
  <2> QED BY <2>2, <2>3 DEF WorldTypeOK
<1>7. BudgetTypeOK
  <2>1. disturbances = 0 /\ faults = 0
    BY DEF Init
  <2> QED BY <2>1 DEF BudgetTypeOK
<1>6. GhostTypeOK
  <2>1. closed \subseteq Generations
    <3>1. closed = {} \/ (MaxOutages > 0 /\ closed \in {{}, {1}})
      BY DEF Init
    <3> QED BY <3>1 DEF Generations
  <2> QED BY <2>1 DEF Init, GhostTypeOK
<1> QED BY <1>3, <1>4, <1>5, <1>6, <1>7 DEF TypeInv

\* An idle pass holds nothing.
LEMMA ForgetPassType ==
    ASSUME ForgetPass
    PROVE  PassTypeOK' /\ Visiting' /\ begun' \in BOOLEAN
           /\ woken' \subseteq Threads
BY DEF ForgetPass, PassTypeOK, PassPoints, ThreadViews, NewThread, TurnStates,
       Visiting, VisitPoints

\* A turn that begins.
LEMMA TurnBeginsType ==
    ASSUME TypeInv, NEW t \in Threads, TurnBegins(t)
    PROVE  thread' \in [Threads -> ThreadViews] /\ begun' \in BOOLEAN
<1>1. RunningThread \in ThreadViews
  BY DEF ThreadViews, RunningThread, TurnStates
<1> QED BY <1>1 DEF TurnBegins, TypeInv, WorldTypeOK, GhostTypeOK

\* The start of a pass.
LEMMA BeginPassType ==
    ASSUME TypeInv, NEW mode \in PassModes, BeginPass(mode)
    PROVE  TypeInv'
<1>1. mode \in BOOLEAN
  BY FlagsAssumption
<1>2. CASE UnhealthyPass
  <2>1. RecordsOK'
    BY <1>2, ProbeFailedType DEF UnhealthyPass, TypeInv, RecordsOK
  <2>2. PassTypeOK' /\ Visiting' /\ WorldTypeOK' /\ BudgetTypeOK'
    BY <1>2 DEF UnhealthyPass, TypeInv, PassTypeOK, Visiting, WorldTypeOK,
                BudgetTypeOK, passVars, worldVars, budgetVars
  <2>3. GhostTypeOK'
    BY <1>2 DEF UnhealthyPass, TypeInv, GhostTypeOK
  <2> QED BY <2>1, <2>2, <2>3 DEF TypeInv
<1>3. CASE ConfirmingPass
  <2>1. RecordsOK'
    BY <1>3, ProbeSucceededType DEF ConfirmingPass, TypeInv, RecordsOK
  <2> QED BY <1>3, <2>1
          DEF ConfirmingPass, TypeInv, PassTypeOK, Visiting, WorldTypeOK,
              BudgetTypeOK, GhostTypeOK, passVars, worldVars, budgetVars,
              ghostVars
<1>4. CASE HealthyPass(mode)
  <2>1. RecordsOK'
    BY <1>4, ProbeSucceededType DEF HealthyPass, TypeInv, RecordsOK
  <2>2. PassTypeOK' /\ Visiting'
    BY <1>1, <1>4 DEF HealthyPass, TypeInv, PassTypeOK, PassPoints, Visiting,
                      VisitPoints, RecoverNow
  <2> QED BY <1>4, <2>1, <2>2
          DEF HealthyPass, TypeInv, WorldTypeOK, BudgetTypeOK, GhostTypeOK,
              worldVars, budgetVars, ghostVars
<1> QED BY <1>2, <1>3, <1>4 DEF BeginPass

\* Capacity pass, arming, claiming and the end of the pass.
LEMMA OutsideVisitType ==
    ASSUME TypeInv, CapacityPass \/ Arm \/ Claim \/ FinishPass \/ ClaimFails
    PROVE  TypeInv'
<1>1. CASE CapacityPass
  <2>1. RecordsOK'
    BY <1>1 DEF CapacityPass, TypeInv, RecordsOK
  <2> QED BY <1>1, <2>1
          DEF CapacityPass, TypeInv, PassTypeOK, PassPoints, Visiting,
              VisitPoints, WorldTypeOK, BudgetTypeOK, GhostTypeOK, passVars,
              worldVars, budgetVars, ghostVars
<1>2. CASE NothingToRecover
  <2>1. RecordsOK'
    BY <1>2 DEF NothingToRecover, TypeInv, RecordsOK
  <2> QED BY <1>2, <2>1, ForgetPassType
          DEF NothingToRecover, TypeInv, WorldTypeOK, BudgetTypeOK,
              GhostTypeOK, worldVars, budgetVars
<1>3. CASE ArmAfterOutage \/ ResumeRecovery
  <2>1. RecordsOK'
    BY <1>3, PendingType
       DEF ArmAfterOutage, ResumeRecovery, TypeInv, RecordsOK, Confirming
  <2> QED BY <1>3, <2>1
          DEF ArmAfterOutage, ResumeRecovery, TypeInv, PassTypeOK, PassPoints,
              Visiting, VisitPoints, WorldTypeOK, BudgetTypeOK, GhostTypeOK,
              passVars, worldVars, budgetVars, ghostVars
<1>4. CASE DeferToCli
  BY <1>4, EndPassKeepsTypes
     DEF DeferToCli, EndPass, TypeInv, WorldTypeOK, BudgetTypeOK, GhostTypeOK,
         worldVars, budgetVars
<1>5. CASE ListThreads
  <2>1. todo' \subseteq Threads
    BY <1>5 DEF ListThreads, StagedThreads
  <2> QED BY <1>5, <2>1
          DEF ListThreads, TypeInv, RecordsOK, PassTypeOK, PassPoints,
              Visiting, VisitPoints, WorldTypeOK, BudgetTypeOK, GhostTypeOK,
              worldVars, budgetVars, ghostVars
<1>6. CASE FinishPass
  <2>1. (~hadError /\ ~waiting) \in BOOLEAN
    OBVIOUS
  <2> QED BY <1>6, <2>1, EndPassKeepsTypes
          DEF FinishPass, EndPass, TypeInv, WorldTypeOK, BudgetTypeOK,
              GhostTypeOK, worldVars, budgetVars
<1>7. CASE ClaimFails
  <2>1. BudgetTypeOK'
    BY <1>7, BoundsAssumption DEF ClaimFails, TypeInv, BudgetTypeOK
  <2> QED BY <1>7, <2>1, EndPassKeepsTypes
          DEF ClaimFails, EndPass, TypeInv, WorldTypeOK, GhostTypeOK, worldVars
<1> QED BY <1>1, <1>2, <1>3, <1>4, <1>5, <1>6, <1>7 DEF Arm, Claim

\* Going on with the next thread, its records saved or left alone.
LEMMA NextThreadType ==
    ASSUME TypeInv, NextThread, waiting' \in BOOLEAN, RecordsOK'
    PROVE  TypeInv'
BY DEF NextThread, TypeInv, PassTypeOK, PassPoints, Visiting, VisitPoints,
       WorldTypeOK, BudgetTypeOK, GhostTypeOK, worldVars, budgetVars, ghostVars

\* A decision that leaves the records alone, or settles a staged thread.
LEMMA DecisionType ==
    ASSUME TypeInv, GiveUp \/ SkipForSafety \/ Skip \/ ReportOnly \/ Decide
    PROVE  TypeInv'
<1>1. CASE GiveUp
  <2>1. cur \in Threads
    BY <1>1 DEF GiveUp, TypeInv, Visiting, VisitPoints
  <2>2. RecordsOK'
    <3>1. CASE dry
      BY <1>1, <3>1 DEF GiveUp, TypeInv, RecordsOK
    <3>2. CASE ~dry
      <4>1. PICK a \in {"thread_resumed_stale", "thread_resumed_goal_changed"} :
              Mark(cur, a)
        BY <1>1, <3>2 DEF GiveUp
      <4>2. a \in RecordActions
        BY DEF RecordActions, TerminalActions
      <4> QED BY <2>1, <4>1, <4>2, MarkKeepsRecords DEF TypeInv
    <3> QED BY <3>1, <3>2
  <2> QED BY <1>1, <2>2, NextThreadType DEF GiveUp, TypeInv, PassTypeOK
<1>2. CASE SkipForSafety
  <2>1. cur \in Threads
    BY <1>2 DEF SkipForSafety, TypeInv, Visiting, VisitPoints
  <2>2. RecordsOK'
    <3>1. CASE dry
      BY <1>2, <3>1 DEF SkipForSafety, TypeInv, RecordsOK
    <3>2. CASE ~dry
      <4>1. "recovery_skipped_safety" \in RecordActions
        BY DEF RecordActions, TerminalActions
      <4> QED BY <1>2, <2>1, <3>2, <4>1, MarkKeepsRecords
              DEF SkipForSafety, TypeInv
    <3> QED BY <3>1, <3>2
  <2> QED BY <1>2, <2>2, NextThreadType DEF SkipForSafety, TypeInv, PassTypeOK
<1>3. CASE Skip
  <2>1. waiting' \in BOOLEAN
    BY <1>3 DEF Skip
  <2>2. RecordsOK'
    BY <1>3 DEF Skip, TypeInv, RecordsOK
  <2> QED BY <1>3, <2>1, <2>2, NextThreadType DEF Skip
<1>4. CASE ReportOnly
  <2>2. RecordsOK'
    BY <1>4 DEF ReportOnly, TypeInv, RecordsOK
  <2> QED BY <1>4, <2>2, NextThreadType DEF ReportOnly, TypeInv, PassTypeOK
<1>5. CASE Decide
  BY <1>5 DEF Decide, TypeInv, RecordsOK, PassTypeOK, PassPoints, Visiting,
              VisitPoints, WorldTypeOK, BudgetTypeOK, GhostTypeOK, passVars,
              worldVars, budgetVars, ghostVars
<1> QED BY <1>1, <1>2, <1>3, <1>4, <1>5

\* Reading a thread, and the resume with what follows it.
LEMMA ResumeType ==
    ASSUME TypeInv,
           \/ \E t \in Threads : ReadThread(t)
           \/ ResumeThread \/ RecordResume \/ RereadThread
           \/ GoalChangedByResume \/ FollowResumedTurn \/ StopAtResume
    PROVE  TypeInv'
<1> USE DEF RecordActions, TerminalActions, StagedActions
<1>1. ASSUME NEW t \in Threads, ReadThread(t) PROVE TypeInv'
  BY <1>1 DEF ReadThread, TypeInv, RecordsOK, PassTypeOK, PassPoints, Visiting,
              VisitPoints, WorldTypeOK, BudgetTypeOK, GhostTypeOK, worldVars,
              budgetVars
<1>2. CASE ResumeThread
  <2>1. cur \in Threads
    BY <1>2 DEF ResumeThread, TypeInv, Visiting, VisitPoints
  <2>2. thread' \in [Threads -> ThreadViews] /\ begun' \in BOOLEAN
        /\ woken' \subseteq Threads
    BY <1>2, <2>1, TurnBeginsType
       DEF ResumeThread, ServerResumes, TypeInv, WorldTypeOK, GhostTypeOK
  <2> QED BY <1>2, <2>1, <2>2
          DEF ResumeThread, TypeInv, RecordsOK, PassTypeOK, PassPoints,
              Visiting, VisitPoints, WorldTypeOK, BudgetTypeOK, GhostTypeOK,
              passVars, budgetVars
<1>3. CASE RecordResume
  <2>1. cur \in Threads
    BY <1>3 DEF RecordResume, TypeInv, Visiting, VisitPoints
  <2>2. RecordsOK'
    BY <1>3, <2>1, MarkKeepsRecords DEF RecordResume, TypeInv
  <2> QED BY <1>3, <2>1, <2>2
          DEF RecordResume, TypeInv, PassTypeOK, PassPoints, Visiting,
              VisitPoints, WorldTypeOK, BudgetTypeOK, GhostTypeOK, passVars,
              worldVars, budgetVars, ghostVars
<1>4. CASE RereadThread
  BY <1>4 DEF RereadThread, TypeInv, RecordsOK, PassTypeOK, PassPoints,
              Visiting, VisitPoints, WorldTypeOK, BudgetTypeOK, GhostTypeOK,
              worldVars, budgetVars
<1>5. CASE GoalChangedByResume \/ StopAtResume
  <2>1. cur \in Threads
    BY <1>5 DEF GoalChangedByResume, StopAtResume, TypeInv, Visiting,
                VisitPoints
  <2>2. RecordsOK'
    BY <1>5, <2>1, MarkKeepsRecords
       DEF GoalChangedByResume, StopAtResume, TypeInv
  <2> QED BY <1>5, <2>2, NextThreadType
          DEF GoalChangedByResume, StopAtResume, TypeInv, PassTypeOK
<1>6. CASE FollowResumedTurn
  <2>1. cur \in Threads
    BY <1>6 DEF FollowResumedTurn, TypeInv, Visiting, VisitPoints
  <2>2. RecordsOK'
    BY <1>6, <2>1, MarkKeepsRecords DEF FollowResumedTurn, TypeInv
  <2> QED BY <1>6, <2>1, <2>2
          DEF FollowResumedTurn, TypeInv, PassTypeOK, PassPoints, Visiting,
              VisitPoints, WorldTypeOK, BudgetTypeOK, GhostTypeOK, worldVars,
              budgetVars, ghostVars
<1> QED BY <1>1, <1>2, <1>3, <1>4, <1>5, <1>6

\* turn/start and the supervision of the turn.
LEMMA StartType ==
    ASSUME TypeInv,
           \/ PrepareStart \/ StartTurn \/ RecordStart
           \/ PollThread \/ KeepPolling \/ Settled
    PROVE  TypeInv'
<1> USE DEF RecordActions, TerminalActions, StagedActions
<1>1. CASE PrepareStart
  BY <1>1 DEF PrepareStart, TypeInv, RecordsOK, PassTypeOK, PassPoints,
              Visiting, VisitPoints, WorldTypeOK, BudgetTypeOK, GhostTypeOK,
              passVars, worldVars, budgetVars, ghostVars
<1>2. CASE StartTurn
  <2>1. cur \in Threads
    BY <1>2 DEF StartTurn, TypeInv, Visiting, VisitPoints
  <2>2. thread' \in [Threads -> ThreadViews] /\ begun' \in BOOLEAN
        /\ woken' \subseteq Threads
    BY <1>2, <2>1, TurnBeginsType
       DEF StartTurn, ServerStartsTurn, TypeInv, GhostTypeOK
  <2>3. starts' \in [Threads -> Nat]
    BY <1>2, <2>1 DEF StartTurn, ServerStartsTurn, TypeInv, GhostTypeOK
  <2> QED BY <1>2, <2>1, <2>2, <2>3
          DEF StartTurn, TypeInv, RecordsOK, PassTypeOK, PassPoints, Visiting,
              VisitPoints, WorldTypeOK, BudgetTypeOK, GhostTypeOK, passVars,
              budgetVars
<1>3. CASE RecordStart
  <2>1. cur \in Threads
    BY <1>3 DEF RecordStart, TypeInv, Visiting, VisitPoints
  <2>2. RecordsOK'
    BY <1>3, <2>1, MarkKeepsRecords DEF RecordStart, TypeInv
  <2> QED BY <1>3, <2>1, <2>2
          DEF RecordStart, TypeInv, PassTypeOK, PassPoints, Visiting,
              VisitPoints, WorldTypeOK, BudgetTypeOK, GhostTypeOK, worldVars,
              budgetVars, ghostVars
<1>4. CASE PollThread
  BY <1>4 DEF PollThread, TypeInv, RecordsOK, PassTypeOK, PassPoints, Visiting,
              VisitPoints, WorldTypeOK, BudgetTypeOK, GhostTypeOK, worldVars,
              budgetVars
<1>5. CASE KeepPolling
  BY <1>5 DEF KeepPolling, TypeInv, RecordsOK, PassTypeOK, PassPoints, Visiting,
              VisitPoints, WorldTypeOK, BudgetTypeOK, GhostTypeOK, worldVars,
              budgetVars, ghostVars
<1>6. CASE Settled
  <2>1. cur \in Threads
    BY <1>6 DEF Settled, TypeInv, Visiting, VisitPoints
  <2>2. PICK a \in {"thread_resumed_goal_changed",
                    "thread_resumed_turn_completed", "turn_completed"} :
          Mark(cur, a)
    BY <1>6 DEF Settled
  <2>3. RecordsOK'
    BY <2>1, <2>2, MarkKeepsRecords DEF TypeInv
  <2> QED BY <1>6, <2>3, NextThreadType DEF Settled, TypeInv, PassTypeOK
<1> QED BY <1>1, <1>2, <1>3, <1>4, <1>5, <1>6

\* A used up part of the bound on failures.
LEMMA FaultBudget ==
    ASSUME TypeInv, faults < MaxFaults, faults' = faults + 1,
           UNCHANGED disturbances
    PROVE  BudgetTypeOK'
BY BoundsAssumption DEF TypeInv, BudgetTypeOK

\* Failed calls, lost answers and crashes.
LEMMA FaultType ==
    ASSUME TypeInv, ResumeReplyLost \/ StartReplyLost \/ CallFails \/ Crash
    PROVE  TypeInv'
<1>1. CASE ResumeReplyLost
  <2>1. cur \in Threads
    BY <1>1 DEF ResumeReplyLost, TypeInv, Visiting, VisitPoints
  <2>2. thread' \in [Threads -> ThreadViews] /\ begun' \in BOOLEAN
        /\ woken' \subseteq Threads
    BY <1>1, <2>1, TurnBeginsType
       DEF ResumeReplyLost, ServerResumes, TypeInv, WorldTypeOK, GhostTypeOK
  <2>3. BudgetTypeOK'
    BY <1>1, FaultBudget DEF ResumeReplyLost
  <2> QED BY <1>1, <2>2, <2>3
          DEF ResumeReplyLost, TypeInv, RecordsOK, PassTypeOK, PassPoints,
              Visiting, VisitPoints, WorldTypeOK, GhostTypeOK
<1>2. CASE StartReplyLost
  <2>1. cur \in Threads
    BY <1>2 DEF StartReplyLost, TypeInv, Visiting, VisitPoints
  <2>2. thread' \in [Threads -> ThreadViews] /\ begun' \in BOOLEAN
        /\ woken' \subseteq Threads
    BY <1>2, <2>1, TurnBeginsType
       DEF StartReplyLost, ServerStartsTurn, TypeInv, GhostTypeOK
  <2>3. starts' \in [Threads -> Nat] /\ mishaps' \in [Threads -> Nat]
    BY <1>2, <2>1 DEF StartReplyLost, ServerStartsTurn, TypeInv, GhostTypeOK
  <2>4. BudgetTypeOK'
    BY <1>2, FaultBudget DEF StartReplyLost
  <2> QED BY <1>2, <2>2, <2>3, <2>4
          DEF StartReplyLost, TypeInv, RecordsOK, PassTypeOK, PassPoints,
              Visiting, VisitPoints, WorldTypeOK, GhostTypeOK
<1>3. CASE CallFails
  <2>1. cur \in Threads
    BY <1>3 DEF CallFails, TypeInv, Visiting, VisitPoints
  <2>2. mishaps' \in [Threads -> Nat]
    BY <1>3, <2>1 DEF CallFails, CutOff, TypeInv, GhostTypeOK
  <2>3. BudgetTypeOK'
    BY <1>3, FaultBudget DEF CallFails
  <2> QED BY <1>3, <2>2, <2>3
          DEF CallFails, TypeInv, RecordsOK, PassTypeOK, PassPoints, Visiting,
              VisitPoints, WorldTypeOK, GhostTypeOK, worldVars
<1>4. CASE Crash
  <2>1. Supervising => cur \in Threads
    BY DEF Supervising, TypeInv, Visiting, VisitPoints
  <2>2. mishaps' \in [Threads -> Nat]
    BY <1>4, <2>1 DEF Crash, CutOff, TypeInv, GhostTypeOK
  <2>3. BudgetTypeOK'
    BY <1>4, FaultBudget DEF Crash
  <2> QED BY <1>4, <2>2, <2>3, ForgetPassType
          DEF Crash, TypeInv, RecordsOK, WorldTypeOK, GhostTypeOK, worldVars
<1> QED BY <1>1, <1>2, <1>3, <1>4

\* One more disturbance.
LEMMA DisturbBudget ==
    ASSUME TypeInv, Disturb, UNCHANGED faults
    PROVE  BudgetTypeOK'
BY BoundsAssumption DEF TypeInv, BudgetTypeOK, Disturb

\* What users, the clock, the Codex CLI and the network do.
LEMMA WorldType ==
    ASSUME TypeInv, World
    PROVE  TypeInv'
<1> USE DEF guardianVars, passVars, ghostVars
<1>1. ASSUME NEW t \in Threads, UserTurn(t) PROVE TypeInv'
  <2>1. thread' \in [Threads -> ThreadViews] /\ begun' \in BOOLEAN
    BY <1>1, TurnBeginsType DEF UserTurn
  <2>2. BudgetTypeOK'
    BY <1>1, DisturbBudget DEF UserTurn
  <2> QED BY <1>1, <2>1, <2>2
          DEF UserTurn, TypeInv, RecordsOK, PassTypeOK, Visiting, WorldTypeOK,
              GhostTypeOK
<1>2. ASSUME NEW t \in Threads, TurnEnds(t) PROVE TypeInv'
  <2>1. PICK end \in {"networkFailure", "otherEnd"} :
          thread' = [thread EXCEPT ![t].active = FALSE, ![t].last = end]
    BY <1>2 DEF TurnEnds
  <2>2. [thread[t] EXCEPT !.active = FALSE, !.last = end] \in ThreadViews
    BY DEF TypeInv, WorldTypeOK, ThreadViews, TurnStates
  <2>3. thread' \in [Threads -> ThreadViews]
    BY <2>1, <2>2 DEF TypeInv, WorldTypeOK
  <2> QED BY <1>2, <2>3
          DEF TurnEnds, TypeInv, RecordsOK, PassTypeOK, Visiting, WorldTypeOK,
              BudgetTypeOK, GhostTypeOK
<1>3. ASSUME NEW t \in Threads, OrphanTurn(t) PROVE TypeInv'
  <2>1. [thread[t] EXCEPT !.active = FALSE] \in ThreadViews
    BY DEF TypeInv, WorldTypeOK, ThreadViews
  <2>2. thread' \in [Threads -> ThreadViews]
    BY <1>3, <2>1 DEF OrphanTurn, TypeInv, WorldTypeOK
  <2>3. BudgetTypeOK'
    BY <1>3, DisturbBudget DEF OrphanTurn
  <2> QED BY <1>3, <2>2, <2>3
          DEF OrphanTurn, TypeInv, RecordsOK, PassTypeOK, Visiting,
              WorldTypeOK, GhostTypeOK
<1>4. ASSUME NEW t \in Threads, GoalChanges(t) PROVE TypeInv'
  <2>1. goalActive' \subseteq Threads
    BY <1>4 DEF GoalChanges, TypeInv, WorldTypeOK
  <2>2. BudgetTypeOK'
    BY <1>4, DisturbBudget DEF GoalChanges
  <2> QED BY <1>4, <2>1, <2>2
          DEF GoalChanges, TypeInv, RecordsOK, PassTypeOK, Visiting,
              WorldTypeOK, GhostTypeOK
<1>5. ASSUME NEW t \in Threads, ThreadAges(t) PROVE TypeInv'
  <2>1. [thread[t] EXCEPT !.stale = TRUE] \in ThreadViews
    BY DEF TypeInv, WorldTypeOK, ThreadViews
  <2>2. thread' \in [Threads -> ThreadViews]
    BY <1>5, <2>1 DEF ThreadAges, TypeInv, WorldTypeOK
  <2>3. BudgetTypeOK'
    BY <1>5, DisturbBudget DEF ThreadAges
  <2> QED BY <1>5, <2>2, <2>3
          DEF ThreadAges, TypeInv, RecordsOK, PassTypeOK, Visiting,
              WorldTypeOK, GhostTypeOK
<1>6. CASE CliStarts \/ NetworkFails
  <2>1. BudgetTypeOK'
    BY <1>6, DisturbBudget DEF CliStarts, NetworkFails
  <2>2. cliUp' \in BOOLEAN /\ netUp' \in BOOLEAN
    BY <1>6 DEF CliStarts, NetworkFails, TypeInv, WorldTypeOK
  <2> QED BY <1>6, <2>1, <2>2
          DEF CliStarts, NetworkFails, TypeInv, RecordsOK, PassTypeOK,
              Visiting, WorldTypeOK, GhostTypeOK
<1>7. CASE CliExits \/ NetworkReturns
  <2>1. cliUp' \in BOOLEAN /\ netUp' \in BOOLEAN
    BY <1>7 DEF CliExits, NetworkReturns, TypeInv, WorldTypeOK
  <2> QED BY <1>7, <2>1
          DEF CliExits, NetworkReturns, TypeInv, RecordsOK, PassTypeOK,
              Visiting, WorldTypeOK, BudgetTypeOK, GhostTypeOK
<1> QED BY <1>1, <1>2, <1>3, <1>4, <1>5, <1>6, <1>7 DEF World

\* TypeInv is an invariant of the steps.
LEMMA NextKeepsTypeInv == TypeInv /\ [Next]_vars => TypeInv'
<1>1. ASSUME TypeInv, UNCHANGED vars PROVE TypeInv'
  BY <1>1 DEF vars, passVars, worldVars, budgetVars, ghostVars, TypeInv,
              RecordsOK, PassTypeOK, Visiting, WorldTypeOK, BudgetTypeOK,
              GhostTypeOK
<1>2. ASSUME TypeInv, NEW mode \in PassModes, BeginPass(mode) PROVE TypeInv'
  BY <1>2, BeginPassType
<1>3. ASSUME TypeInv, PassStep PROVE TypeInv'
  BY <1>3, OutsideVisitType, DecisionType, ResumeType, StartType
     DEF PassStep, Visit
<1>4. ASSUME TypeInv, Fault PROVE TypeInv'
  BY <1>4, OutsideVisitType, FaultType DEF Fault
<1>5. ASSUME TypeInv, World PROVE TypeInv'
  BY <1>5, WorldType
<1> QED BY <1>1, <1>2, <1>3, <1>4, <1>5 DEF Next

LEMMA TypeInvariance == Spec => []TypeInv
<1> QED BY InitTypeInv, NextKeepsTypeInv, PTL DEF Spec

(* The records of the disk and of the pass, the pass, the world and the    *)
(* ghosts keep their types whatever the number of threads and the bounds:  *)
(* no sequence of probes, passes, failed calls and crashes brings a record *)
(* out of the values transition_health and mark_recovered may store.       *)
THEOREM TypeCorrect == Spec => []TypeOK
<1>1. TypeInv => TypeOK
  BY DEF TypeInv, RecordsOK, TypeOK
<1> QED BY <1>1, TypeInvariance, PTL

-----------------------------------------------------------------------------
(* No outage is forgotten. *)

\* The record's outage, once over, is owed a recovery or has had one.
Remembered ==
    disk.health # "down" /\ disk.outage_generation > 0 =>
        Owed(disk) \/ disk.outage_generation \in closed

\* Before a pass has armed the recovery, its copy is ahead of the disk by
\* exactly one healthy probe.
UnsavedProbe ==
    pc \in {"capacity", "arm"} =>
        /\ mem = ProbeSucceeded(disk)
        /\ mem.health = "up"
        /\ recoverNow = RecoverNow(disk)

\* From the arming to the end of the pass the copy holds the pending flag.
ArmedPoints == {"claim", "next"} \cup VisitPoints
Armed == pc \in ArmedPoints => mem.recovery_pending

OutageInv == Remembered /\ UnsavedProbe /\ Armed

\* What a visit may do to the records: nothing, or one mark that is saved.
Effect ==
    /\ pc \in ArmedPoints /\ pc' \in ArmedPoints
    /\ startTurns' = startTurns /\ closed' = closed
    /\ \/ disk' = disk /\ mem' = mem
       \/ cur \in Threads /\ \E a \in RecordActions : Mark(cur, a)

LEMMA VisitEffect == TypeInv /\ Visit => Effect
<1> SUFFICES ASSUME TypeInv, Visit PROVE Effect
  OBVIOUS
<1> USE DEF ArmedPoints, VisitPoints, worldVars, ghostVars, Effect
<1>1. ASSUME NEW t \in Threads, ReadThread(t) PROVE Effect
  BY <1>1 DEF ReadThread
<1>2. CASE GiveUp \/ SkipForSafety
  <2>1. cur \in Threads
    BY <1>2 DEF GiveUp, SkipForSafety, TypeInv, Visiting
  <2>2. \/ disk' = disk /\ mem' = mem
        \/ \E a \in RecordActions : Mark(cur, a)
    BY <1>2 DEF GiveUp, SkipForSafety, RecordActions, TerminalActions
  <2> QED BY <1>2, <2>1, <2>2 DEF GiveUp, SkipForSafety, NextThread
<1>3. CASE Skip \/ ReportOnly \/ Decide
  BY <1>3 DEF Skip, ReportOnly, Decide, NextThread
<1>4. CASE ResumeThread \/ RereadThread \/ PrepareStart
  BY <1>4 DEF ResumeThread, RereadThread, PrepareStart
<1>5. CASE RecordResume \/ FollowResumedTurn \/ RecordStart
  <2>1. cur \in Threads
    BY <1>5 DEF RecordResume, FollowResumedTurn, RecordStart, TypeInv, Visiting
  <2>2. \E a \in RecordActions : Mark(cur, a)
    BY <1>5 DEF RecordResume, FollowResumedTurn, RecordStart, RecordActions,
                StagedActions
  <2> QED BY <1>5, <2>1, <2>2 DEF RecordResume, FollowResumedTurn, RecordStart
<1>6. CASE GoalChangedByResume \/ StopAtResume \/ Settled
  <2>1. cur \in Threads
    BY <1>6 DEF GoalChangedByResume, StopAtResume, Settled, TypeInv, Visiting
  <2>2. \E a \in RecordActions : Mark(cur, a)
    BY <1>6 DEF GoalChangedByResume, StopAtResume, Settled, RecordActions,
                StagedActions, TerminalActions
  <2> QED BY <1>6, <2>1, <2>2
          DEF GoalChangedByResume, StopAtResume, Settled, NextThread
<1>7. CASE StartTurn \/ PollThread \/ KeepPolling
  BY <1>7 DEF StartTurn, PollThread, KeepPolling
<1> QED BY <1>1, <1>2, <1>3, <1>4, <1>5, <1>6, <1>7 DEF Visit

LEMMA InitOutageInv == Init => OutageInv
<1> SUFFICES ASSUME Init PROVE OutageInv
  OBVIOUS
<1>1. pc = "idle"
  BY DEF Init, Quiet
<1>2. Remembered
  <2>1. CASE disk = FreshTarget
    BY <2>1 DEF FreshTarget, FreshHealth, Remembered
  <2>2. ASSUME NEW records \in [Threads -> InheritedActions],
               disk = InheritedTarget(records),
               closed = IF Owed(disk) THEN {} ELSE {1}
        PROVE  Remembered
    <3>1. disk.outage_generation = 1
      BY <2>2 DEF InheritedTarget, FreshTarget
    <3> QED BY <2>2, <3>1 DEF Remembered
  <2> QED BY <2>1, <2>2 DEF Init
<1> QED BY <1>1, <1>2 DEF OutageInv, UnsavedProbe, Armed, ArmedPoints,
                          VisitPoints

\* A step that leaves the saved record alone keeps what it remembers.
LEMMA SavedRecordKept ==
    ASSUME Remembered, disk' = disk, startTurns' = startTurns, closed' = closed
    PROVE  Remembered'
BY DEF Remembered, Owed, HasStaged

\* The start of a pass.
LEMMA BeginPassOutage ==
    ASSUME TypeInv, OutageInv, NEW mode \in PassModes, BeginPass(mode)
    PROVE  OutageInv'
<1>0. disk \in Targets
  BY DEF TypeInv, RecordsOK
<1>1. CASE UnhealthyPass
  <2>1. /\ pc' = "idle" /\ startTurns' = startTurns /\ closed' = closed
        /\ disk' = ProbeFailed(disk)
    BY <1>1 DEF UnhealthyPass, worldVars
  <2>2. Remembered'
    BY <1>0, <2>1, ProbeFailedFields
       DEF OutageInv, Remembered, Owed, HasStaged
  <2> QED BY <2>1, <2>2 DEF OutageInv, UnsavedProbe, Armed, ArmedPoints,
                            VisitPoints
<1>2. CASE ConfirmingPass
  <2>1. pc' = "idle" /\ disk'.health = "down"
    BY <1>2 DEF ConfirmingPass
  <2> QED BY <2>1 DEF OutageInv, Remembered, UnsavedProbe, Armed, ArmedPoints,
                      VisitPoints
<1>3. CASE HealthyPass(mode)
  <2>1. /\ pc' = "capacity" /\ disk' = disk
        /\ startTurns' = startTurns /\ closed' = closed
        /\ mem' = ProbeSucceeded(disk)
        /\ ProbeSucceeded(disk).health = "up"
        /\ recoverNow' = RecoverNow(disk)
    BY <1>3 DEF HealthyPass, worldVars, ghostVars
  <2>2. Remembered'
    BY <2>1, SavedRecordKept DEF OutageInv
  <2>3. UnsavedProbe' /\ Armed'
    BY <2>1 DEF UnsavedProbe, Armed, ArmedPoints, VisitPoints
  <2> QED BY <2>2, <2>3 DEF OutageInv
<1> QED BY <1>1, <1>2, <1>3 DEF BeginPass

\* Saving a record that is owed a recovery.
LEMMA OwedSaved ==
    ASSUME disk'.recovery_pending
    PROVE  Remembered'
BY DEF Remembered, Owed

\* The capacity pass and the arming.
LEMMA ArmOutage ==
    ASSUME TypeInv, OutageInv, CapacityEnabled = FALSE, CapacityPass \/ Arm
    PROVE  OutageInv'
<1>0. disk \in Targets /\ mem \in Targets
  BY DEF TypeInv, RecordsOK
<1>1. CASE CapacityPass
  <2>1. /\ pc = "capacity" /\ pc' = "arm" /\ disk' = disk /\ mem' = mem
        /\ recoverNow' = recoverNow
        /\ startTurns' = startTurns /\ closed' = closed
    BY <1>1 DEF CapacityPass, passVars, worldVars, ghostVars
  <2>2. Remembered'
    BY <2>1, SavedRecordKept DEF OutageInv
  <2>3. UnsavedProbe' /\ Armed'
    BY <2>1 DEF OutageInv, UnsavedProbe, Armed, ArmedPoints, VisitPoints
  <2> QED BY <2>2, <2>3 DEF OutageInv
<1>2. CASE NothingToRecover
  <2>1. /\ pc = "arm" /\ pc' = "idle" /\ disk' = mem
        /\ ~recoverNow /\ ~mem.recovery_pending
        /\ ~(startTurns /\ HasStaged(mem))
        /\ startTurns' = startTurns /\ closed' = closed
    BY <1>2 DEF NothingToRecover, ForgetPass, worldVars
  <2>2. mem = ProbeSucceeded(disk) /\ mem.health = "up" /\ ~RecoverNow(disk)
    BY <2>1 DEF OutageInv, UnsavedProbe
  <2>3. disk.health # "down"
    BY <1>0, <2>2, ProbeSucceededFields
  <2>4. /\ mem.outage_generation = disk.outage_generation
        /\ mem.recovery_pending = disk.recovery_pending
        /\ mem.recovered = disk.recovered
    BY <1>0, <2>2, ProbeSucceededFields
  <2>5. ~Owed(disk)
    BY <2>1, <2>4 DEF Owed, HasStaged
  <2>6. Remembered'
    BY <2>1, <2>3, <2>4, <2>5 DEF OutageInv, Remembered
  <2> QED BY <2>1, <2>6 DEF OutageInv, UnsavedProbe, Armed, ArmedPoints,
                            VisitPoints
<1>3. CASE ArmAfterOutage
  <2>1. /\ pc' = "claim"
        /\ disk' = [mem EXCEPT !.recovery_pending = TRUE]
        /\ mem' = [mem EXCEPT !.recovery_pending = TRUE]
    BY <1>3 DEF ArmAfterOutage
  <2>2. disk'.recovery_pending /\ mem'.recovery_pending
    BY <1>0, <2>1, PendingType
  <2> QED BY <2>1, <2>2, OwedSaved DEF OutageInv, UnsavedProbe, Armed
<1>4. CASE ResumeRecovery
  <2>1. /\ pc' = "claim" /\ disk' = disk
        /\ mem' = [mem EXCEPT !.recovery_pending = TRUE]
        /\ startTurns' = startTurns /\ closed' = closed
    BY <1>4 DEF ResumeRecovery, worldVars, ghostVars
  <2>2. mem'.recovery_pending
    BY <1>0, <2>1, PendingType
  <2>3. Remembered'
    BY <2>1, SavedRecordKept DEF OutageInv
  <2> QED BY <2>1, <2>2, <2>3 DEF OutageInv, UnsavedProbe, Armed
<1> QED BY <1>1, <1>2, <1>3, <1>4 DEF Arm

\* The end of a pass clears the flag only when it closes the generation.
LEMMA EndPassOutage ==
    ASSUME TypeInv, OutageInv, pc \in ArmedPoints, NEW c \in BOOLEAN,
           EndPass(c)
    PROVE  OutageInv'
<1>0. mem \in Targets /\ mem.recovery_pending
  BY DEF TypeInv, RecordsOK, OutageInv, Armed
<1>1. pc' = "idle"
  BY DEF EndPass, ForgetPass
<1>2. CASE c /\ ~dry
  <2>1. /\ disk' = [mem EXCEPT !.recovery_pending = FALSE]
        /\ closed' = closed \cup {mem.outage_generation}
    BY <1>2 DEF EndPass
  <2>2. disk'.outage_generation = mem.outage_generation
    BY <1>0, <2>1, PendingType
  <2> QED BY <1>1, <2>1, <2>2
          DEF OutageInv, Remembered, UnsavedProbe, Armed, ArmedPoints,
              VisitPoints
<1>3. CASE ~(c /\ ~dry)
  <2>1. disk' = mem
    BY <1>3 DEF EndPass
  <2> QED BY <1>0, <1>1, <2>1, OwedSaved
          DEF OutageInv, UnsavedProbe, Armed, ArmedPoints, VisitPoints
<1> QED BY <1>2, <1>3

\* Claiming the threads, visiting them and finishing the pass.
LEMMA PassOutage ==
    ASSUME TypeInv, OutageInv, Claim \/ Visit \/ FinishPass \/ ClaimFails
    PROVE  OutageInv'
<1> USE DEF ArmedPoints, VisitPoints
<1>1. CASE DeferToCli \/ ClaimFails
  <2>1. pc \in ArmedPoints /\ EndPass(FALSE)
    BY <1>1 DEF DeferToCli, ClaimFails
  <2> QED BY <2>1, EndPassOutage
<1>2. CASE FinishPass
  <2>1. pc \in ArmedPoints /\ EndPass(~hadError /\ ~waiting)
    BY <1>2 DEF FinishPass
  <2>2. (~hadError /\ ~waiting) \in BOOLEAN
    OBVIOUS
  <2> QED BY <2>1, <2>2, EndPassOutage
<1>3. CASE ListThreads
  <2>1. /\ pc = "claim" /\ pc' = "next" /\ disk' = disk /\ mem' = mem
        /\ startTurns' = startTurns /\ closed' = closed
    BY <1>3 DEF ListThreads, worldVars, ghostVars
  <2>2. Remembered'
    BY <2>1, SavedRecordKept DEF OutageInv
  <2> QED BY <2>1, <2>2 DEF OutageInv, UnsavedProbe, Armed
<1>4. CASE Visit
  <2>1. Effect
    BY <1>4, VisitEffect
  <2>2. pc' \in ArmedPoints /\ mem.recovery_pending
    BY <2>1 DEF Effect, OutageInv, Armed
  <2>3. CASE disk' = disk /\ mem' = mem
    <3>1. Remembered'
      BY <2>1, <2>3, SavedRecordKept DEF Effect, OutageInv
    <3> QED BY <2>2, <2>3, <3>1 DEF OutageInv, UnsavedProbe, Armed
  <2>4. CASE cur \in Threads /\ \E a \in RecordActions : Mark(cur, a)
    <3>1. PICK a \in RecordActions : Mark(cur, a)
      BY <2>4
    <3>2. disk'.recovery_pending /\ mem'.recovery_pending
      BY <2>2, <2>4, <3>1, MarkedType DEF Mark, TypeInv, RecordsOK
    <3> QED BY <2>2, <3>2, OwedSaved DEF OutageInv, UnsavedProbe, Armed
  <2> QED BY <2>1, <2>3, <2>4 DEF Effect
<1> QED BY <1>1, <1>2, <1>3, <1>4 DEF Claim

\* A crash forgets the copy, a failed call keeps both, the rest of the world
\* touches neither.
LEMMA FaultWorldOutage ==
    ASSUME TypeInv, OutageInv,
           \/ ResumeReplyLost \/ StartReplyLost \/ CallFails \/ Crash
           \/ World \/ UNCHANGED vars
    PROVE  OutageInv'
<1> USE DEF ArmedPoints, VisitPoints
<1>1. disk' = disk /\ startTurns' = startTurns /\ closed' = closed
  <2>1. CASE World
    BY <2>1 DEF World, UserTurn, TurnEnds, OrphanTurn, GoalChanges, ThreadAges,
                CliStarts, CliExits, NetworkFails, NetworkReturns,
                guardianVars, ghostVars
  <2>2. CASE ResumeReplyLost \/ StartReplyLost \/ CallFails \/ Crash
    BY <2>2 DEF ResumeReplyLost, StartReplyLost, CallFails, Crash, worldVars
  <2>3. CASE UNCHANGED vars
    BY <2>3 DEF vars, worldVars, ghostVars
  <2> QED BY <2>1, <2>2, <2>3
<1>2. Remembered'
  BY <1>1, SavedRecordKept DEF OutageInv
<1>3. \/ pc' = "idle"
      \/ mem' = mem /\ pc \in ArmedPoints /\ pc' \in ArmedPoints
      \/ mem' = mem /\ pc' = pc /\ recoverNow' = recoverNow
  <2>1. CASE World
    BY <2>1 DEF World, UserTurn, TurnEnds, OrphanTurn, GoalChanges, ThreadAges,
                CliStarts, CliExits, NetworkFails, NetworkReturns,
                guardianVars, passVars
  <2>2. CASE ResumeReplyLost \/ StartReplyLost \/ CallFails \/ Crash
    BY <2>2 DEF ResumeReplyLost, StartReplyLost, CallFails, Crash, ForgetPass
  <2>3. CASE UNCHANGED vars
    BY <2>3 DEF vars, passVars
  <2> QED BY <2>1, <2>2, <2>3
<1> QED BY <1>1, <1>2, <1>3 DEF OutageInv, UnsavedProbe, Armed

LEMMA OutageInvariance ==
    ASSUME CapacityEnabled = FALSE
    PROVE  Spec => [](TypeInv /\ OutageInv)
<1>1. Init => TypeInv /\ OutageInv
  BY InitTypeInv, InitOutageInv
<1>2. TypeInv /\ OutageInv /\ [Next]_vars => (TypeInv /\ OutageInv)'
  <2> SUFFICES ASSUME TypeInv, OutageInv, [Next]_vars PROVE OutageInv'
    BY NextKeepsTypeInv
  <2>1. ASSUME NEW mode \in PassModes, BeginPass(mode) PROVE OutageInv'
    BY <2>1, BeginPassOutage
  <2>2. CASE PassStep
    BY <2>2, ArmOutage, PassOutage DEF PassStep
  <2>3. CASE Fault
    BY <2>3, PassOutage, FaultWorldOutage DEF Fault
  <2>4. CASE World \/ UNCHANGED vars
    BY <2>4, FaultWorldOutage
  <2> QED BY <2>1, <2>2, <2>3, <2>4 DEF Next
<1> QED BY <1>1, <1>2, PTL DEF Spec

(* An outage that is over is owed a recovery until one has run to          *)
(* completion, whatever crash, failed call or dry run comes in between, for *)
(* every number of threads and outages.  Only the save of the capacity pass *)
(* breaks it, hence the hypothesis.                                         *)
THEOREM OutageRemembered ==
    ASSUME CapacityEnabled = FALSE
    PROVE  Spec => []OutageNeverForgotten
<1>1. OutageInv => OutageNeverForgotten
  BY DEF OutageInv, Remembered, OutageNeverForgotten
<1> QED BY <1>1, OutageInvariance, PTL
=============================================================================
