-------------------------- MODULE RecoveryContract --------------------------
(***************************************************************************)
(* What the CLI recovery promises about the outages of one target, with no *)
(* word on how: an outage that ends is owed a recovery from that very step *)
(* on; work is done only while one is owed and only on threads that are    *)
(* not settled in it; a settled thread stays settled; and the recovery is  *)
(* discharged only when every thread it started a turn on is settled.      *)
(***************************************************************************)
EXTENDS Naturals

CONSTANT Threads

VARIABLES
    outage,      \* the network is considered down
    generation,  \* number of outages so far
    owed,        \* a recovery is still to be completed
    started,     \* threads a turn was started on in this generation
    settled      \* threads that need nothing more in this generation

vars == <<outage, generation, owed, started, settled>>

Init ==
    /\ outage = FALSE
    /\ generation \in {0, 1}
    /\ owed \in BOOLEAN
    /\ started = {}
    /\ settled \in SUBSET Threads

\* A new outage drops what was left of the recovery before it.
Declare ==
    /\ ~outage
    /\ outage' = TRUE
    /\ generation' = generation + 1
    /\ owed' = FALSE
    /\ started' = {}
    /\ settled' = {}

Over ==
    /\ outage
    /\ outage' = FALSE
    /\ owed' = TRUE
    /\ UNCHANGED <<generation, started, settled>>

Work(t) ==
    /\ owed
    /\ t \notin settled
    /\ started' = started \cup {t}
    /\ UNCHANGED <<outage, generation, owed, settled>>

Settle(t) ==
    /\ owed
    /\ settled' = settled \cup {t}
    /\ UNCHANGED <<outage, generation, owed, started>>

Discharge ==
    /\ owed
    /\ started \subseteq settled
    /\ owed' = FALSE
    /\ UNCHANGED <<outage, generation, started, settled>>

Next ==
    \/ Declare \/ Over \/ Discharge
    \/ \E t \in Threads : Work(t) \/ Settle(t)

Spec == Init /\ [][Next]_vars
=============================================================================
