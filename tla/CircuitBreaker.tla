--------------------------- MODULE CircuitBreaker ---------------------------
(***************************************************************************)
(* The LLM circuit breaker, pkg/llm/circuit_breaker.go: one shared breaker *)
(* and the goroutines that call Execute on it.  The fields are guarded by  *)
(* cb.mutex, but Execute takes it three times (the read in canExecute, the *)
(* re-check of an open circuit, recordResult), so results arrive in a      *)
(* state that is not the one that admitted the request.                    *)
(*                                                                         *)
(* Time is one flag: cooled says that ResetTimeout has passed since        *)
(* stateChangeTime.  requestCount and successCount are int64 in the code;  *)
(* here they saturate at CountCap, which is chosen so large that no test   *)
(* of the code can tell the saturated value from a larger one.             *)
(***************************************************************************)
EXTENDS Integers

CONSTANTS
    Callers,              \* the goroutines that call Execute
    FailureThreshold, SuccessThreshold, HalfOpenMaxRequests,
    MinimumRequestCount,
    RateNum, RateDen,     \* FailureRate = RateNum / RateDen
    EnableHealthCheck,
    MaxCommands,          \* bound on Reset and ForceOpen by an administrator
    CountCap              \* where requestCount and the counters saturate

ASSUME ConfigAssumption ==
    /\ FailureThreshold \in Nat \ {0}
    /\ SuccessThreshold \in Nat \ {0}
    /\ HalfOpenMaxRequests \in Nat
    /\ MinimumRequestCount \in Nat
    /\ RateNum \in Nat /\ RateDen \in Nat \ {0}
    /\ EnableHealthCheck \in BOOLEAN
    /\ MaxCommands \in Nat

ASSUME CapAssumption ==
    /\ CountCap \in Nat
    /\ CountCap >= FailureThreshold
    /\ CountCap >= SuccessThreshold
    /\ CountCap >= MinimumRequestCount

ASSUME RateCapAssumption == CountCap * RateNum >= FailureThreshold * RateDen

(***************************************************************************)
(* Nothing in NewCircuitBreaker relates the two limits of the half-open    *)
(* state.  Every configuration in the repository satisfies this, and a     *)
(* breaker that does not is stuck (see HalfOpenAdmits).                    *)
(***************************************************************************)
ASSUME ProbesSuffice == HalfOpenMaxRequests >= SuccessThreshold

VARIABLES
    state, failureCount, successCount, requestCount, halfOpenRequests,
    cooled,       \* time.Since(stateChangeTime) >= ResetTimeout
    pc,           \* where each caller is in Execute
    checker,      \* healthCheckRoutine: waiting, or past performHealthCheck
    healthy,      \* the service behind the breaker
    commands      \* administrator's calls so far

breaker == <<state, failureCount, successCount, requestCount, halfOpenRequests,
             cooled>>
vars == <<breaker, pc, checker, healthy, commands>>

States == {"closed", "open", "halfOpen"}
Places == {"idle", "recheck", "running", "ok", "failed"}

TypeOK ==
    /\ state \in States
    /\ failureCount \in 0..CountCap
    /\ successCount \in 0..CountCap
    /\ requestCount \in 0..CountCap
    /\ halfOpenRequests \in 0..HalfOpenMaxRequests
    /\ cooled \in BOOLEAN
    /\ pc \in [Callers -> Places]
    /\ checker \in {"waiting", "passed"}
    /\ healthy \in BOOLEAN
    /\ commands \in 0..MaxCommands

Init ==
    /\ state = "closed"
    /\ failureCount = 0 /\ successCount = 0 /\ requestCount = 0
    /\ halfOpenRequests = 0
    /\ cooled = FALSE
    /\ pc = [c \in Callers |-> "idle"]
    /\ checker = "waiting"
    /\ healthy = TRUE
    /\ commands = 0

Inc(n) == IF n < CountCap THEN n + 1 ELSE n

-----------------------------------------------------------------------------
(* The three transitions, each called with cb.mutex held.  The counters are *)
(* parameters because recordResult has already counted the result.          *)

transitionToOpen(fails, oks, reqs) ==
    /\ state' = "open" /\ cooled' = FALSE
    /\ halfOpenRequests' = 0
    /\ failureCount' = fails /\ successCount' = oks /\ requestCount' = reqs

\* A transition that keeps the failures of the era that tripped the breaker.
transitionToHalfOpenKeepingFailures ==
    /\ state' = "halfOpen" /\ cooled' = FALSE
    /\ halfOpenRequests' = 0 /\ successCount' = 0
    /\ UNCHANGED <<requestCount, failureCount>>

transitionToHalfOpen ==
    /\ state' = "halfOpen" /\ cooled' = FALSE
    /\ halfOpenRequests' = 0 /\ successCount' = 0 /\ failureCount' = 0
    /\ UNCHANGED requestCount

transitionToClosed(oks) ==
    /\ state' = "closed" /\ cooled' = FALSE
    /\ halfOpenRequests' = 0 /\ failureCount' = 0 /\ requestCount' = 0
    /\ successCount' = oks

\* A threshold that is compared with the wrong inequality.
shouldOpenCircuitLate(fails, reqs) ==
    state = "closed" /\ fails > FailureThreshold

(* Only asked when the breaker is closed: too many failures, or too large a *)
(* share of at least MinimumRequestCount requests.                          *)
shouldOpenCircuit(fails, reqs) ==
    /\ state = "closed"
    /\ \/ fails >= FailureThreshold
       \/ /\ MinimumRequestCount > 0 /\ RateNum > 0
          /\ reqs >= MinimumRequestCount
          /\ fails * RateDen >= RateNum * reqs

\* A comparison that asks for one success more than the threshold.
shouldCloseCircuitLate(oks) == oks > SuccessThreshold

shouldCloseCircuit(oks) ==
    \/ SuccessThreshold <= 1
    \/ oks >= SuccessThreshold

-----------------------------------------------------------------------------
(* canExecute, the part under the read lock.  A refusal changes nothing and *)
(* is a stuttering step.  An open circuit is compared with the clock after  *)
(* the lock is released: a caller may find ResetTimeout over even if it was *)
(* not when it read the state, and then goes on to the re-check.            *)

\* A gate that leaves the last half-open request unused.
ReadOffByOne(c) ==
    /\ pc[c] = "idle"
    /\ \/ state = "closed" /\ pc' = [pc EXCEPT ![c] = "running"]
       \/ state = "open" /\ pc' = [pc EXCEPT ![c] = "recheck"]
       \/ /\ state = "halfOpen" /\ halfOpenRequests + 1 < HalfOpenMaxRequests
          /\ pc' = [pc EXCEPT ![c] = "running"]
    /\ UNCHANGED <<breaker, checker, healthy, commands>>

Read(c) ==
    /\ pc[c] = "idle"
    /\ \/ /\ state = "closed"
          /\ pc' = [pc EXCEPT ![c] = "running"]
       \/ /\ state = "open"
          /\ pc' = [pc EXCEPT ![c] = "recheck"]
       \/ /\ state = "halfOpen"
          /\ halfOpenRequests < HalfOpenMaxRequests
          /\ pc' = [pc EXCEPT ![c] = "running"]
    /\ UNCHANGED <<breaker, checker, healthy, commands>>

\* A re-check that trusts the state read before the lock was taken.
RecheckUnguarded(c) ==
    /\ pc[c] = "recheck"
    /\ transitionToHalfOpen
    /\ pc' = [pc EXCEPT ![c] = "running"]
    /\ UNCHANGED <<checker, healthy, commands>>

(* canExecute, the part under the write lock: only one of the callers that  *)
(* saw the open circuit makes the transition; the others are let through if *)
(* somebody else moved the breaker, whatever halfOpenRequests says.         *)
Recheck(c) ==
    /\ pc[c] = "recheck"
    /\ \/ /\ state = "open" /\ cooled
          /\ transitionToHalfOpen
          /\ pc' = [pc EXCEPT ![c] = "running"]
       \/ /\ state = "open" /\ ~cooled
          /\ pc' = [pc EXCEPT ![c] = "idle"]
          /\ UNCHANGED breaker
       \/ /\ state # "open"
          /\ pc' = [pc EXCEPT ![c] = "running"]
          /\ UNCHANGED breaker
    /\ UNCHANGED <<checker, healthy, commands>>

(* executeWithTimeout: the operation answers, fails, panics or outlives the *)
(* timeout.  A healthy service answers.  The result is recorded later.      *)
executeWithTimeout(c) ==
    /\ pc[c] = "running"
    /\ \E result \in {"ok", "failed"} :
          /\ healthy => result = "ok"
          /\ pc' = [pc EXCEPT ![c] = result]
    /\ UNCHANGED <<breaker, checker, healthy, commands>>

(* The last lines of recordResult, for a result that made no transition.    *)
halfOpenCounted ==
    IF state = "halfOpen" THEN halfOpenRequests + 1 ELSE halfOpenRequests

(* recordResult: a failure opens a half-open breaker at once and a closed   *)
(* one when shouldOpenCircuit says so; a success may close a half-open one; *)
(* a result that leaves the breaker half-open uses up one half-open request.*)
recordResult(c) ==
    LET reqs == Inc(requestCount)
        fails == IF pc[c] = "failed" THEN Inc(failureCount) ELSE failureCount
        oks == IF pc[c] = "ok" THEN Inc(successCount) ELSE successCount
        opens == /\ pc[c] = "failed"
                 /\ state = "halfOpen" \/ shouldOpenCircuit(fails, reqs)
        closes == pc[c] = "ok" /\ state = "halfOpen" /\ shouldCloseCircuit(oks)
    IN  /\ pc[c] \in {"ok", "failed"}
        /\ pc' = [pc EXCEPT ![c] = "idle"]
        /\ \/ opens /\ transitionToOpen(fails, oks, reqs)
           \/ closes /\ transitionToClosed(oks)
           \/ /\ ~opens /\ ~closes
              /\ failureCount' = fails /\ successCount' = oks
              /\ requestCount' = reqs
              /\ halfOpenRequests' = halfOpenCounted
              /\ UNCHANGED <<state, cooled>>
        /\ UNCHANGED <<checker, healthy, commands>>

-----------------------------------------------------------------------------
(* healthCheckRoutine: it looks at the state, lets the check take its time, *)
(* and then makes the transition without looking again.                     *)

healthCheckStart ==
    /\ EnableHealthCheck
    /\ checker = "waiting" /\ state = "open"
    /\ checker' = "passed"
    /\ UNCHANGED <<breaker, pc, healthy, commands>>

healthCheckEnd ==
    /\ checker = "passed"
    /\ checker' = "waiting"
    /\ transitionToHalfOpen
    /\ UNCHANGED <<pc, healthy, commands>>

Reset ==
    /\ commands < MaxCommands /\ commands' = commands + 1
    /\ transitionToClosed(0)
    /\ UNCHANGED <<pc, checker, healthy>>

ForceOpen ==
    /\ commands < MaxCommands /\ commands' = commands + 1
    /\ state # "open"
    /\ transitionToOpen(failureCount, successCount, requestCount)
    /\ UNCHANGED <<pc, checker, healthy>>

ResetTimeoutElapses ==
    /\ ~cooled /\ cooled' = TRUE
    /\ UNCHANGED <<state, failureCount, successCount, requestCount,
                   halfOpenRequests, pc, checker, healthy, commands>>

ServiceChanges ==
    /\ healthy' = ~healthy
    /\ UNCHANGED <<breaker, pc, checker, commands>>

CallerStep(c) ==
    Read(c) \/ Recheck(c) \/ executeWithTimeout(c) \/ recordResult(c)

Next ==
    \/ \E c \in Callers : CallerStep(c)
    \/ healthCheckStart \/ healthCheckEnd
    \/ Reset \/ ForceOpen
    \/ ResetTimeoutElapses \/ ServiceChanges

Spec == Init /\ [][Next]_vars

(* Goroutines are scheduled, time passes, and there is always another       *)
(* request: the breaker has no timer of its own and only moves when called. *)
FairSpec ==
    /\ Spec
    /\ \A c \in Callers : WF_vars(CallerStep(c))
    /\ WF_vars(ResetTimeoutElapses)
    /\ WF_vars(healthCheckEnd)

-----------------------------------------------------------------------------
(* In the half-open state every recorded result was a success, and there    *)
(* were fewer of them than it takes to close: nothing else counts them down.*)
HalfOpenCount ==
    state = "halfOpen" =>
        /\ failureCount = 0
        /\ halfOpenRequests = successCount
        /\ successCount < SuccessThreshold

(* A half-open breaker always admits another request (canExecute).  There   *)
(* is no other way out of that state than a result, so a breaker that used  *)
(* up its half-open requests would refuse everybody for ever.               *)
HalfOpenAdmits ==
    state = "halfOpen" => halfOpenRequests < HalfOpenMaxRequests

(* A closed breaker has counted fewer failures than its threshold, although *)
(* results of requests admitted in an earlier era are recorded in this one. *)
ClosedBelowThreshold == state = "closed" => failureCount < FailureThreshold

(* The breaker starts probing only from an open circuit that has waited for *)
(* ResetTimeout (canExecute), or because its health check passed: callers   *)
(* that saw the same open circuit do not send it back to half-open after    *)
(* one of them, or an administrator, has moved it on.                       *)
HalfOpenOnlyAfterTimeout ==
    [][(state # "halfOpen" /\ state' = "halfOpen")
         => (state = "open" /\ cooled) \/ checker = "passed"]_vars

(* When the service behind the breaker recovers for good, the breaker is    *)
(* closed for good: it neither stays open nor wedges half-open, whatever    *)
(* results of earlier requests are still to be recorded.                    *)
Recovers == <>[]healthy => <>[](state = "closed")
=============================================================================
