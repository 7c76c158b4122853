------------------------ MODULE CircuitBreaker_proofs ------------------------
(***************************************************************************)
(* Proofs about the circuit breaker, for every number of callers and every *)
(* configuration in which HalfOpenMaxRequests >= SuccessThreshold.         *)
(*                                                                         *)
(* HalfOpenAdmits is not inductive: it needs HalfOpenCount, which ties the *)
(* number of half-open requests to the number of successes.  TypeOK needs  *)
(* HalfOpenAdmits, for the upper bound of halfOpenRequests.                *)
(***************************************************************************)
EXTENDS CircuitBreaker, TLAPS

(* The two halves of TypeOK: the provers take them in turns.               *)
Numbers ==
    /\ state \in States
    /\ failureCount \in 0..CountCap
    /\ successCount \in 0..CountCap
    /\ requestCount \in 0..CountCap
    /\ halfOpenRequests \in 0..HalfOpenMaxRequests
    /\ commands \in 0..MaxCommands

Flags ==
    /\ cooled \in BOOLEAN
    /\ pc \in [Callers -> Places]
    /\ checker \in {"waiting", "passed"}
    /\ healthy \in BOOLEAN

BreakerInv ==
    /\ Numbers
    /\ HalfOpenCount
    /\ ClosedBelowThreshold

(* The counting in the half-open state leaves room for another request.     *)
LEMMA CountLeavesRoom == BreakerInv => HalfOpenAdmits
  BY ProbesSuffice, ConfigAssumption
  DEF BreakerInv, Numbers, HalfOpenCount, HalfOpenAdmits

(* A saturating count stays in its range and is never below what it was.    *)
LEMMA IncType ==
    ASSUME NEW n \in 0..CountCap
    PROVE  /\ Inc(n) \in 0..CountCap
           /\ n < CountCap => Inc(n) = n + 1
  BY CapAssumption DEF Inc

LEMMA InitHolds == Init => Flags /\ BreakerInv
<1> SUFFICES ASSUME Init PROVE Flags /\ BreakerInv
  OBVIOUS
<1>1. Flags
  BY DEF Init, Flags, Places
<1>2. BreakerInv
  BY ConfigAssumption, CapAssumption
  DEF Init, BreakerInv, Numbers, HalfOpenCount, ClosedBelowThreshold, States
<1> QED BY <1>1, <1>2

(* recordResult keeps the counters in step, whichever era the result is of. *)
LEMMA RecordKeeps ==
    ASSUME BreakerInv, NEW c \in Callers, recordResult(c)
    PROVE  BreakerInv'
<1> DEFINE reqs == Inc(requestCount)
           fails == IF pc[c] = "failed" THEN Inc(failureCount)
                    ELSE failureCount
           oks == IF pc[c] = "ok" THEN Inc(successCount) ELSE successCount
           opens == /\ pc[c] = "failed"
                    /\ state = "halfOpen" \/ shouldOpenCircuit(fails, reqs)
           closes == /\ pc[c] = "ok" /\ state = "halfOpen"
                     /\ shouldCloseCircuit(oks)
<1>1. /\ reqs \in 0..CountCap
      /\ fails \in 0..CountCap
      /\ oks \in 0..CountCap
  BY IncType DEF BreakerInv, Numbers
<1>2. commands' \in 0..MaxCommands
  BY DEF BreakerInv, Numbers, recordResult
<1>3. ASSUME transitionToOpen(fails, oks, reqs) PROVE BreakerInv'
  <2> HIDE DEF reqs, fails, oks
  <2> QED
    BY <1>1, <1>2, <1>3, ConfigAssumption
    DEF transitionToOpen, BreakerInv, Numbers, HalfOpenCount,
        ClosedBelowThreshold, States
<1>4. ASSUME transitionToClosed(oks) PROVE BreakerInv'
  <2> HIDE DEF reqs, fails, oks
  <2> QED
    BY <1>1, <1>2, <1>4, ConfigAssumption, CapAssumption
    DEF transitionToClosed, BreakerInv, Numbers, HalfOpenCount,
        ClosedBelowThreshold, States
<1>5. ASSUME ~opens, ~closes,
             failureCount' = fails, successCount' = oks, requestCount' = reqs,
             halfOpenRequests' = halfOpenCounted, state' = state
      PROVE  BreakerInv'
  <2>0. pc[c] = "failed" \/ pc[c] = "ok"
    BY DEF recordResult
  <2>1. CASE state = "halfOpen"
    <3>1. pc[c] = "ok" /\ ~shouldCloseCircuit(oks)
      BY <1>5, <2>0, <2>1
    <3>2. /\ successCount < CountCap
          /\ oks = successCount + 1
      BY <2>1, <3>1, IncType, CapAssumption, ConfigAssumption
      DEF BreakerInv, Numbers, HalfOpenCount
    <3>3. oks < SuccessThreshold
      BY <1>1, <3>1, ConfigAssumption DEF shouldCloseCircuit
    <3>4. fails = failureCount
      BY <3>1
    <3> HIDE DEF reqs, fails, oks, opens, closes
    <3> QED
      BY <1>1, <1>2, <1>5, <2>1, <3>2, <3>3, <3>4, ProbesSuffice,
         ConfigAssumption
      DEF BreakerInv, Numbers, HalfOpenCount, ClosedBelowThreshold,
          halfOpenCounted, States
  <2>2. CASE state = "closed"
    <3>1. fails < FailureThreshold
      <4>1. CASE pc[c] = "failed"
        <5>1. ~ (fails >= FailureThreshold)
          BY <1>5, <2>2, <4>1 DEF shouldOpenCircuit
        <5> HIDE DEF fails
        <5> QED BY <1>1, <5>1, ConfigAssumption, CapAssumption
      <4>2. CASE pc[c] = "ok"
        BY <2>2, <4>2 DEF BreakerInv, ClosedBelowThreshold
      <4> QED BY <2>0, <4>1, <4>2
    <3> HIDE DEF reqs, fails, oks, opens, closes
    <3> QED
      BY <1>1, <1>2, <1>5, <2>2, <3>1
      DEF BreakerInv, Numbers, HalfOpenCount, ClosedBelowThreshold,
          halfOpenCounted, States
  <2>3. CASE state = "open"
    <3> HIDE DEF reqs, fails, oks, opens, closes
    <3> QED
      BY <1>1, <1>2, <1>5, <2>3
      DEF BreakerInv, Numbers, HalfOpenCount, ClosedBelowThreshold,
          halfOpenCounted, States
  <2> QED BY <2>1, <2>2, <2>3 DEF BreakerInv, Numbers, States
<1>6. \/ transitionToOpen(fails, oks, reqs)
      \/ transitionToClosed(oks)
      \/ /\ ~opens /\ ~closes
         /\ failureCount' = fails /\ successCount' = oks
         /\ requestCount' = reqs
         /\ halfOpenRequests' = halfOpenCounted
         /\ state' = state
  BY DEF recordResult
<1> HIDE DEF reqs, fails, oks, opens, closes
<1> QED BY <1>3, <1>4, <1>5, <1>6

(* Every other step of a caller leaves the counters or starts them afresh.  *)
LEMMA CallerKeeps ==
    ASSUME BreakerInv, NEW c \in Callers, CallerStep(c)
    PROVE  BreakerInv'
<1> USE ConfigAssumption, CapAssumption
    DEF BreakerInv, Numbers, HalfOpenCount, ClosedBelowThreshold, States
<1>1. CASE Read(c)
  BY <1>1 DEF Read, breaker
<1>2. CASE Recheck(c)
  <2>1. CASE UNCHANGED breaker
    BY <1>2, <2>1 DEF Recheck, breaker
  <2>2. CASE transitionToHalfOpen
    BY <1>2, <2>2 DEF Recheck, transitionToHalfOpen
  <2> QED BY <1>2, <2>1, <2>2 DEF Recheck
<1>3. CASE executeWithTimeout(c)
  BY <1>3 DEF executeWithTimeout, breaker
<1>4. CASE recordResult(c)
  BY <1>4, RecordKeeps
<1> QED BY <1>1, <1>2, <1>3, <1>4 DEF CallerStep

LEMMA NextKeeps == BreakerInv /\ [Next]_vars => BreakerInv'
<1> SUFFICES ASSUME BreakerInv, [Next]_vars PROVE BreakerInv'
  OBVIOUS
<1> USE ConfigAssumption, CapAssumption
    DEF BreakerInv, Numbers, HalfOpenCount, ClosedBelowThreshold, States
<1>1. CASE \E c \in Callers : CallerStep(c)
  BY <1>1, CallerKeeps
<1>2. CASE healthCheckStart
  BY <1>2 DEF healthCheckStart, breaker
<1>3. CASE healthCheckEnd
  BY <1>3 DEF healthCheckEnd, transitionToHalfOpen
<1>4. CASE Reset
  BY <1>4 DEF Reset, transitionToClosed
<1>5. CASE ForceOpen
  BY <1>5 DEF ForceOpen, transitionToOpen
<1>6. CASE ResetTimeoutElapses
  BY <1>6 DEF ResetTimeoutElapses
<1>7. CASE ServiceChanges
  BY <1>7 DEF ServiceChanges, breaker
<1>8. CASE UNCHANGED vars
  BY <1>8 DEF vars, breaker
<1> QED
  BY <1>1, <1>2, <1>3, <1>4, <1>5, <1>6, <1>7, <1>8 DEF Next

(* The flags and the callers' places are never mixed up with the counters.  *)
LEMMA FlagsKept == Flags /\ [Next]_vars => Flags'
<1> SUFFICES ASSUME Flags, [Next]_vars PROVE Flags'
  OBVIOUS
<1> USE DEF Flags, Places, transitionToOpen, transitionToHalfOpen,
        transitionToClosed, breaker
<1>1. ASSUME NEW c \in Callers, CallerStep(c) PROVE Flags'
  <2>1. CASE Read(c)
    BY <2>1 DEF Read
  <2>2. CASE Recheck(c)
    BY <2>2 DEF Recheck
  <2>3. CASE executeWithTimeout(c)
    BY <2>3 DEF executeWithTimeout
  <2>4. CASE recordResult(c)
    BY <2>4 DEF recordResult
  <2> QED BY <1>1, <2>1, <2>2, <2>3, <2>4 DEF CallerStep
<1>2. CASE healthCheckStart
  BY <1>2 DEF healthCheckStart
<1>3. CASE healthCheckEnd
  BY <1>3 DEF healthCheckEnd
<1>4. CASE Reset
  BY <1>4 DEF Reset
<1>5. CASE ForceOpen
  BY <1>5 DEF ForceOpen
<1>6. CASE ResetTimeoutElapses
  BY <1>6 DEF ResetTimeoutElapses
<1>7. CASE ServiceChanges
  BY <1>7 DEF ServiceChanges
<1>8. CASE UNCHANGED vars
  BY <1>8 DEF vars
<1> QED
  BY <1>1, <1>2, <1>3, <1>4, <1>5, <1>6, <1>7, <1>8 DEF Next

(* The counters of cb have their ranges; in particular halfOpenRequests     *)
(* never passes HalfOpenMaxRequests, however many callers were admitted.    *)
THEOREM BreakerTypes == Spec => []TypeOK
<1>1. Flags /\ BreakerInv => TypeOK
  BY DEF BreakerInv, Numbers, Flags, TypeOK
<1> QED BY InitHolds, NextKeeps, FlagsKept, <1>1, PTL DEF Spec

(* recordResult keeps halfOpenRequests equal to successCount and below the  *)
(* threshold for as long as the breaker is half-open.                       *)
THEOREM BreakerCounts == Spec => []HalfOpenCount
<1>1. BreakerInv => HalfOpenCount
  BY DEF BreakerInv
<1> QED BY InitHolds, NextKeeps, <1>1, PTL DEF Spec

(* A half-open breaker never refuses a request in canExecute, for every     *)
(* configuration with HalfOpenMaxRequests >= SuccessThreshold.              *)
THEOREM NeverWedged == Spec => []HalfOpenAdmits
  BY InitHolds, NextKeeps, CountLeavesRoom, PTL DEF Spec

(* A closed breaker has counted fewer failures than FailureThreshold,       *)
(* whatever eras the results recorded by recordResult belong to.            *)
THEOREM ClosedIsHealthy == Spec => []ClosedBelowThreshold
<1>1. BreakerInv => ClosedBelowThreshold
  BY DEF BreakerInv
<1> QED BY InitHolds, NextKeeps, <1>1, PTL DEF Spec

(* Probing starts only from an open circuit after ResetTimeout, or from the *)
(* health check: the re-check in canExecute under the write lock suffices.  *)
THEOREM ProbingStartsLate == Spec => HalfOpenOnlyAfterTimeout
<1> DEFINE Late == (state # "halfOpen" /\ state' = "halfOpen")
                     => (state = "open" /\ cooled) \/ checker = "passed"
<1>1. [Next]_vars => [Late]_vars
  <2> SUFFICES ASSUME Next PROVE Late
    OBVIOUS
  <2>1. ASSUME NEW c \in Callers, CallerStep(c) PROVE Late
    BY <2>1
    DEF CallerStep, Read, Recheck, executeWithTimeout, recordResult, breaker,
        transitionToOpen, transitionToClosed
  <2>2. CASE healthCheckStart \/ ResetTimeoutElapses \/ ServiceChanges
    BY <2>2 DEF healthCheckStart, ResetTimeoutElapses, ServiceChanges, breaker
  <2>3. CASE healthCheckEnd
    BY <2>3 DEF healthCheckEnd
  <2>4. CASE Reset \/ ForceOpen
    BY <2>4 DEF Reset, ForceOpen, transitionToOpen, transitionToClosed
  <2> QED BY <2>1, <2>2, <2>3, <2>4 DEF Next
<1> QED BY <1>1, PTL DEF Spec, HalfOpenOnlyAfterTimeout
=============================================================================
