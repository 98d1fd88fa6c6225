------------------------- MODULE OutageHealthProofs -------------------------
(* The hysteresis of transition_health, proved for every threshold.        *)
EXTENDS OutageHealth, TLAPS

(***************************************************************************)
(* The counters of the record are the lengths of the runs: the failures    *)
(* always, the successes while an outage is being confirmed over.  A target *)
(* that is not down has seen too few failures, one that is down too few    *)
(* successes.                                                              *)
(***************************************************************************)
RunsCounted ==
    /\ failRun = target.consecutive_unhealthy
    /\ target.health = "down" =>
         /\ okRun = target.consecutive_healthy
         /\ target.consecutive_healthy < RequiredSuccesses
         /\ target.outage_generation > 0
    /\ target.health # "down" =>
         target.consecutive_unhealthy < RequiredFailures

IInv ==
    /\ TypeOK
    /\ RunsCounted
    /\ DeclaredOnlyAfterRun
    /\ EveryOutageAnnounced

(* The first record, created by _target_state, satisfies the invariant.    *)
LEMMA InitIInv == Init => IInv
BY RequiredSuccessesAssumption, RequiredFailuresAssumption, BoundsAssumption
   DEF Init, IInv, TypeOK, RunsCounted, DeclaredOnlyAfterRun,
       EveryOutageAnnounced, FreshHealth, Healths

(* A failing probe keeps it.                                               *)
LEMMA FailIInv == ASSUME IInv, Fail PROVE IInv'
<1> USE RequiredSuccessesAssumption, RequiredFailuresAssumption,
        BoundsAssumption
<1>1. TypeOK'
  <2> DEFINE failures == target.consecutive_unhealthy + 1
             declared == OutageDeclared(target)
  <2>1. target' =
          [health |-> IF failures >= RequiredFailures
                      THEN "down" ELSE target.health,
           consecutive_healthy |-> 0,
           consecutive_unhealthy |-> failures,
           outage_generation |-> IF declared
                                 THEN target.outage_generation + 1
                                 ELSE target.outage_generation,
           recovery_pending |-> IF declared
                                THEN FALSE ELSE target.recovery_pending]
    BY DEF IInv, Fail, TypeOK, ProbeFailed
  <2>2. /\ failures \in 1 .. MaxFailures
        /\ declared => target.outage_generation + 1 \in 0 .. MaxOutages
        /\ 0 \in 0 .. RequiredSuccesses
    BY DEF IInv, Fail, TypeOK
  <2>3. /\ target.health \in Healths
        /\ target.outage_generation \in 0 .. MaxOutages
        /\ target.recovery_pending \in BOOLEAN
    BY DEF IInv, TypeOK
  <2>5. target' \in [health : Healths,
                     consecutive_healthy : 0 .. RequiredSuccesses,
                     consecutive_unhealthy : 0 .. MaxFailures,
                     outage_generation : 0 .. MaxOutages,
                     recovery_pending : BOOLEAN]
    <3>1. failures \in 0 .. MaxFailures
      BY <2>2
    <3> HIDE DEF declared, failures
    <3>2. CASE declared
      BY <2>1, <2>2, <2>3, <3>1, <3>2 DEF Healths
    <3>3. CASE ~declared
      BY <2>1, <2>2, <2>3, <3>1, <3>3 DEF Healths
    <3> QED BY <3>2, <3>3
  <2>4. /\ failRun' \in 0 .. MaxFailures
        /\ okRun' \in 0 .. RequiredSuccesses
        /\ declaredAt' \in 0 .. MaxFailures
        /\ announced' \subseteq 1 .. MaxOutages
    BY DEF IInv, Fail, TypeOK, RunsCounted
  <2> QED BY <2>4, <2>5 DEF TypeOK
<1>2. RunsCounted'
  BY DEF IInv, Fail, TypeOK, RunsCounted, ProbeFailed, OutageDeclared, Healths
<1>3. DeclaredOnlyAfterRun'
  BY DEF IInv, Fail, TypeOK, RunsCounted, ProbeFailed, OutageDeclared, Healths,
         DeclaredOnlyAfterRun
<1>4. EveryOutageAnnounced'
  BY DEF IInv, Fail, TypeOK, RunsCounted, ProbeFailed, OutageDeclared, Healths,
         EveryOutageAnnounced
<1> QED BY <1>1, <1>2, <1>3, <1>4 DEF IInv

(* A healthy probe keeps it.                                               *)
LEMMA SucceedIInv == ASSUME IInv, Succeed PROVE IInv'
<1> USE RequiredSuccessesAssumption, RequiredFailuresAssumption,
        BoundsAssumption
<1>1. TypeOK'
  <2>1. target' \in [health : Healths,
                     consecutive_healthy : 0 .. RequiredSuccesses,
                     consecutive_unhealthy : 0 .. MaxFailures,
                     outage_generation : 0 .. MaxOutages,
                     recovery_pending : BOOLEAN]
    <3>0. /\ target.health \in Healths
          /\ target.consecutive_healthy \in 0 .. RequiredSuccesses
          /\ target.outage_generation \in 0 .. MaxOutages
          /\ target.recovery_pending \in BOOLEAN
      BY DEF IInv, TypeOK
    <3>1. CASE target.health = "down"
      <4>1. \E h \in Healths : target' =
              [health |-> h,
               consecutive_healthy |-> target.consecutive_healthy + 1,
               consecutive_unhealthy |-> 0,
               outage_generation |-> target.outage_generation,
               recovery_pending |-> target.recovery_pending]
        <5>1. CASE RecoverNow(target)
          BY <3>1, <5>1 DEF IInv, TypeOK, Succeed, ProbeSucceeded, Healths
        <5>2. CASE ~RecoverNow(target)
          BY <3>1, <5>2 DEF IInv, TypeOK, Succeed, ProbeSucceeded, Healths
        <5> QED BY <5>1, <5>2
      <4>2. target.consecutive_healthy + 1 \in 0 .. RequiredSuccesses
        BY <3>0, <3>1 DEF IInv, RunsCounted
      <4> QED BY <3>0, <4>1, <4>2
    <3>2. CASE target.health # "down"
      <4>1. target' =
              [health |-> "up",
               consecutive_healthy |-> RequiredSuccesses,
               consecutive_unhealthy |-> 0,
               outage_generation |-> target.outage_generation,
               recovery_pending |-> target.recovery_pending]
        BY <3>2 DEF IInv, TypeOK, Succeed, ProbeSucceeded
      <4> QED BY <3>0, <4>1 DEF Healths
    <3> QED BY <3>1, <3>2
  <2>2. announced' \subseteq 1 .. MaxOutages
    <3>1. CASE RecoverNow(target)
      <4>1. target.outage_generation \in 1 .. MaxOutages
        BY <3>1 DEF IInv, TypeOK, RunsCounted, RecoverNow
      <4> QED BY <3>1, <4>1 DEF IInv, TypeOK, Succeed
    <3>2. CASE ~RecoverNow(target)
      BY <3>2 DEF IInv, TypeOK, Succeed
    <3> QED BY <3>1, <3>2
  <2>3. /\ failRun' \in 0 .. MaxFailures
        /\ okRun' \in 0 .. RequiredSuccesses
        /\ declaredAt' \in 0 .. MaxFailures
    BY DEF IInv, Succeed, TypeOK
  <2> QED BY <2>1, <2>2, <2>3 DEF TypeOK
<1>2. RunsCounted'
  BY DEF IInv, Succeed, TypeOK, RunsCounted, ProbeSucceeded, RecoverNow, Healths
<1>3. DeclaredOnlyAfterRun'
  BY DEF IInv, Succeed, TypeOK, ProbeSucceeded, DeclaredOnlyAfterRun
<1>4. EveryOutageAnnounced'
  <2>1. CASE RecoverNow(target)
    <3>1. /\ target'.health = "up"
          /\ target'.outage_generation = target.outage_generation
          /\ announced' = announced \cup {target.outage_generation}
      BY <2>1 DEF IInv, Succeed, TypeOK, ProbeSucceeded, RecoverNow
    <3>2. /\ announced = 1 .. (target.outage_generation - 1)
          /\ target.outage_generation \in Nat \ {0}
      BY <2>1 DEF IInv, TypeOK, RunsCounted, EveryOutageAnnounced, RecoverNow
    <3> QED BY <3>1, <3>2 DEF EveryOutageAnnounced
  <2>2. CASE ~RecoverNow(target)
    <3>1. /\ (target'.health = "down") = (target.health = "down")
          /\ target'.outage_generation = target.outage_generation
          /\ announced' = announced
      BY <2>2 DEF IInv, Succeed, TypeOK, ProbeSucceeded
    <3> QED BY <3>1 DEF IInv, EveryOutageAnnounced
  <2> QED BY <2>1, <2>2
<1> QED BY <1>1, <1>2, <1>3, <1>4 DEF IInv

(* Every persisted probe keeps it.                                         *)
LEMMA NextIInv == IInv /\ [Next]_vars => IInv'
<1> SUFFICES ASSUME IInv, [Next]_vars PROVE IInv'
  OBVIOUS
<1>1. CASE Fail
  BY <1>1, FailIInv
<1>2. CASE Succeed
  BY <1>2, SucceedIInv
<1>3. CASE UNCHANGED vars
  BY <1>3 DEF IInv, vars, TypeOK, RunsCounted, DeclaredOnlyAfterRun,
              EveryOutageAnnounced
<1> QED BY <1>1, <1>2, <1>3 DEF Next

(* The strengthened invariant holds in every reachable state.              *)
THEOREM Invariance == Spec => []IInv
BY InitIInv, NextIInv, PTL DEF Spec

(* The record stays well formed under any sequence of probes.              *)
THEOREM TypeCorrect == Spec => []TypeOK
<1>1. IInv => TypeOK
  BY DEF IInv
<1> QED BY <1>1, Invariance, PTL

(* An outage generation is opened by RequiredFailures failing probes in a  *)
(* row and by nothing less: no blip opens one.                             *)
THEOREM BlipsOpenNoGeneration == Spec => []DeclaredOnlyAfterRun
<1>1. IInv => DeclaredOnlyAfterRun
  BY DEF IInv
<1> QED BY <1>1, Invariance, PTL

(* No outage goes unannounced and none is announced before it is over.     *)
THEOREM OutagesAnnounced == Spec => []EveryOutageAnnounced
<1>1. IInv => EveryOutageAnnounced
  BY DEF IInv
<1> QED BY <1>1, Invariance, PTL

(* recover_now is raised only by the last of RequiredSuccesses healthy     *)
(* probes in a row.                                                        *)
THEOREM AnnouncementConfirmed == Spec => AnnouncedOnlyAfterRun
<1>1. ASSUME IInv, [Next]_vars
      PROVE  [announced' # announced => okRun' = RequiredSuccesses]_vars
  <2>1. CASE Fail
    BY <2>1 DEF Fail
  <2>2. CASE Succeed
    <3> USE RequiredSuccessesAssumption
    <3>1. CASE RecoverNow(target)
      BY <1>1, <2>2, <3>1
         DEF IInv, TypeOK, RunsCounted, Succeed, RecoverNow
    <3>2. CASE ~RecoverNow(target)
      BY <2>2, <3>2 DEF Succeed
    <3> QED BY <3>1, <3>2
  <2>3. CASE UNCHANGED vars
    BY <2>3
  <2> QED BY <1>1, <2>1, <2>2, <2>3 DEF Next
<1> QED BY <1>1, Invariance, PTL DEF Spec, AnnouncedOnlyAfterRun
=============================================================================
