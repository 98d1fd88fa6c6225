-------------------------- MODULE HealthTransition --------------------------
(***************************************************************************)
(* The hysteresis of state.py: transition_health folds one probe result    *)
(* into the persisted record of a target.  Wall-clock fields               *)
(* (unhealthy_started_at, outage_started_at) are left out: they are only   *)
(* reported, no decision reads them.                                       *)
(***************************************************************************)
EXTENDS Naturals

CONSTANTS
    RequiredSuccesses,  \* health.required_consecutive_successes
    RequiredFailures    \* health.required_consecutive_failures

ASSUME RequiredSuccessesAssumption == RequiredSuccesses \in Nat \ {0}
ASSUME RequiredFailuresAssumption == RequiredFailures \in Nat \ {0}

Healths == {"unknown", "up", "down"}

\* The health half of default_state: what _target_state creates.
FreshHealth ==
    [health |-> "unknown",
     consecutive_healthy |-> 0,
     consecutive_unhealthy |-> 0,
     outage_generation |-> 0,
     recovery_pending |-> FALSE]

\* Variant for the runs' fault checks: an outage that lasts is counted again.
OutageCountedTwice(r) == r.consecutive_unhealthy + 1 >= RequiredFailures

\* A failing probe on record r brings it from "up" or "unknown" to "down".
OutageDeclared(r) ==
    /\ r.health # "down"
    /\ r.consecutive_unhealthy + 1 >= RequiredFailures

\* Variant: a new outage keeps the pending flag of the one before it.
ProbeFailedKeepsPending(r) ==
    LET failures == r.consecutive_unhealthy + 1
    IN  [r EXCEPT
          !.consecutive_unhealthy = failures,
          !.consecutive_healthy = 0,
          !.health = IF failures >= RequiredFailures THEN "down" ELSE @,
          !.outage_generation = IF OutageDeclared(r) THEN @ + 1 ELSE @]

\* transition_health with healthy = False.
ProbeFailed(r) ==
    LET failures == r.consecutive_unhealthy + 1
    IN  [r EXCEPT
          !.consecutive_unhealthy = failures,
          !.consecutive_healthy = 0,
          !.health = IF failures >= RequiredFailures THEN "down" ELSE @,
          !.outage_generation = IF OutageDeclared(r) THEN @ + 1 ELSE @,
          !.recovery_pending = IF OutageDeclared(r) THEN FALSE ELSE @]

\* Variant: the end of an outage is confirmed one probe late.
RecoverNowLate(r) ==
    /\ r.health = "down"
    /\ r.consecutive_healthy >= RequiredSuccesses

\* Variant: the first healthy probe ends the outage.
RecoverNowAtOnce(r) == r.health = "down"

\* recover_now: a healthy probe on record r ends the outage.
RecoverNow(r) ==
    /\ r.health = "down"
    /\ r.consecutive_healthy + 1 >= RequiredSuccesses

\* Variant: a healthy probe on a target that is up leaves the failures counted.
ProbeSucceededKeepsFailures(r) ==
    IF r.health = "down"
    THEN [r EXCEPT
            !.consecutive_unhealthy = 0,
            !.consecutive_healthy = @ + 1,
            !.health = IF RecoverNow(r) THEN "up" ELSE @]
    ELSE [r EXCEPT !.consecutive_healthy = RequiredSuccesses, !.health = "up"]

\* transition_health with healthy = True.
ProbeSucceeded(r) ==
    IF r.health = "down"
    THEN [r EXCEPT
            !.consecutive_unhealthy = 0,
            !.consecutive_healthy = @ + 1,
            !.health = IF RecoverNow(r) THEN "up" ELSE @]
    ELSE [r EXCEPT
            !.consecutive_unhealthy = 0,
            !.consecutive_healthy = RequiredSuccesses,
            !.health = "up"]
=============================================================================
