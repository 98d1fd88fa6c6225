---------------------------- MODULE OutageHealth ----------------------------
(***************************************************************************)
(* The health record of one target driven by any sequence of persisted     *)
(* probes: what the network did (the two run lengths and the announced     *)
(* outages, which the program does not keep) against what the record says. *)
(***************************************************************************)
EXTENDS HealthTransition, FiniteSets

CONSTANTS
    MaxOutages,   \* bound on outage_generation
    MaxFailures   \* bound on consecutive_unhealthy

ASSUME BoundsAssumption == MaxOutages \in Nat /\ MaxFailures \in Nat

VARIABLES
    target,      \* the persisted health record
    failRun,     \* ghost: failing probes since the last healthy one
    okRun,       \* ghost: healthy probes since the last failing one, capped
    declaredAt,  \* ghost: failRun when the current outage was declared
    announced    \* ghost: generations whose end was announced (recover_now)

vars == <<target, failRun, okRun, declaredAt, announced>>

Init ==
    /\ target = FreshHealth
    /\ failRun = 0
    /\ okRun = 0
    /\ declaredAt = 0
    /\ announced = {}

\* run_once persists a failing probe.
Fail ==
    /\ target.consecutive_unhealthy < MaxFailures
    /\ OutageDeclared(target) => target.outage_generation < MaxOutages
    /\ target' = ProbeFailed(target)
    /\ failRun' = failRun + 1
    /\ okRun' = 0
    /\ declaredAt' = IF OutageDeclared(target) THEN failRun + 1 ELSE declaredAt
    /\ UNCHANGED announced

\* run_once persists a healthy probe; RecoverNow starts the recovery pass.
Succeed ==
    /\ target' = ProbeSucceeded(target)
    /\ failRun' = 0
    /\ okRun' = IF okRun < RequiredSuccesses THEN okRun + 1 ELSE okRun
    /\ announced' = IF RecoverNow(target)
                    THEN announced \cup {target.outage_generation}
                    ELSE announced
    /\ UNCHANGED declaredAt

Next == Fail \/ Succeed

Spec == Init /\ [][Next]_vars

-----------------------------------------------------------------------------
(* Type invariant of the record and of the ghosts. *)
TypeOK ==
    /\ target \in [health : Healths,
                   consecutive_healthy : 0 .. RequiredSuccesses,
                   consecutive_unhealthy : 0 .. MaxFailures,
                   outage_generation : 0 .. MaxOutages,
                   recovery_pending : BOOLEAN]
    /\ failRun \in 0 .. MaxFailures
    /\ okRun \in 0 .. RequiredSuccesses
    /\ declaredAt \in 0 .. MaxFailures
    /\ announced \subseteq 1 .. MaxOutages

(* "A single TLS/proxy blip does not create an outage generation": a        *)
(* generation is opened by exactly RequiredFailures failing probes in a row *)
(* since the last healthy one, however blips and outages alternate.         *)
DeclaredOnlyAfterRun ==
    target.outage_generation > 0 => declaredAt = RequiredFailures

(* Every outage the record has counted is announced exactly when it is      *)
(* over: all past generations have been announced, the running one has not. *)
(* An outage that is never announced is never recovered from.               *)
EveryOutageAnnounced ==
    announced = 1 .. (IF target.health = "down"
                      THEN target.outage_generation - 1
                      ELSE target.outage_generation)

(* The end of an outage is announced only on RequiredSuccesses healthy      *)
(* probes in a row: a blip while the outage is being confirmed over starts  *)
(* the count again.                                                         *)
AnnouncedOnlyAfterRun ==
    [][announced' # announced => okRun' = RequiredSuccesses]_vars
=============================================================================
