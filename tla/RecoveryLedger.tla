--------------------------- MODULE RecoveryLedger ---------------------------
(***************************************************************************)
(* The "recovered" object of a target: which recovery action was last      *)
(* recorded for a thread in an outage generation, and how mark_recovered   *)
(* updates and prunes it.  A thread without a record is "none"; a          *)
(* generation is a key of the object iff one of its threads has a record.  *)
(* turn_id and recorded_at are left out, the CLI recovery never reads them.*)
(***************************************************************************)
EXTENDS Naturals, FiniteSets

CONSTANTS
    Threads,          \* thread ids
    MaxOutages,       \* bound on outage_generation
    KeptGenerations   \* generations mark_recovered keeps (8 in the code)

ASSUME ThreadsAssumption == Threads # {}
ASSUME MaxOutagesAssumption == MaxOutages \in Nat
ASSUME KeptGenerationsAssumption == KeptGenerations \in Nat \ {0}

Generations == 0 .. MaxOutages

\* _TERMINAL_RECOVERY_ACTIONS
TerminalActions ==
    {"recovery_skipped_safety", "thread_resumed_goal_changed",
     "thread_resumed_stale", "thread_resumed_turn_completed",
     "turn_completed"}

\* _STAGED_RECOVERY_ACTIONS
StagedActions == {"thread_resumed", "thread_resumed_active", "turn_started"}

RecordActions == TerminalActions \cup StagedActions \cup {"none"}

Ledgers == [Generations -> [Threads -> RecordActions]]

NoRecords == [t \in Threads |-> "none"]

EmptyLedger == [n \in Generations |-> NoRecords]

\* The keys of the "recovered" object.
RecordedGenerations(ledger) ==
    {n \in Generations : ledger[n] # NoRecords}

\* recovery_records filtered to the staged actions.
StagedThreads(ledger, generation) ==
    {t \in Threads : ledger[generation][t] \in StagedActions}

\* mark_recovered: all but the highest KeptGenerations keys are dropped.
MarkRecovered(ledger, generation, thread, action) ==
    LET marked == [ledger EXCEPT ![generation][thread] = action]
        newer(n) == {m \in RecordedGenerations(marked) : m > n}
    IN  [n \in Generations |->
            IF Cardinality(newer(n)) < KeptGenerations
            THEN marked[n]
            ELSE NoRecords]
=============================================================================
