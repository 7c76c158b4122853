----------------------------- MODULE LockManager -----------------------------
(***************************************************************************)
(* The lock manager of pkg/shared/lock_manager.go, for one key: the lock   *)
(* record, the queue of waiting channels, and the goroutines that call     *)
(* AcquireLock (exclusive, the only kind the repository asks for) and      *)
(* ReleaseLock.  Keys do not interact: everything is kept per key.         *)
(*                                                                         *)
(* A lock is a lease.  Its renewal is tied to a context that               *)
(* AcquireLockWithOptions cancels when it returns, so a holder that takes  *)
(* longer than the timeout loses the lock without knowing it.              *)
(***************************************************************************)
EXTENDS Integers, FiniteSets

CONSTANTS Callers, RetryCount, None

ASSUME LockAssumption ==
    RetryCount \in Nat /\ None \notin Callers /\ IsFiniteSet(Callers)

VARIABLES
    lock,      \* the record in lm.locks: the caller that made it, or None
    expired,   \* its ExpiresAt is in the past
    waiters,   \* the callers whose channels are in lm.waitQueues
    signal,    \* the callers whose channels hold a value
    at,        \* where each caller is
    attempt,   \* the loop counter of AcquireLockWithOptions
    overran    \* history: some lease ended while its holder was still at work

lockVars == <<lock, expired, waiters, signal, attempt, overran>>

Acquiring == {"try", "register", "waiting", "backoff"}

LockTypeOK ==
    /\ lock \in Callers \cup {None}
    /\ expired \in BOOLEAN /\ overran \in BOOLEAN
    /\ waiters \subseteq Callers /\ signal \subseteq Callers
    /\ attempt \in [Callers -> 0..RetryCount]

LockInit ==
    /\ lock = None /\ expired = FALSE /\ overran = FALSE
    /\ waiters = {} /\ signal = {}
    /\ attempt = [c \in Callers |-> 0]

Goto(c, place) == at' = [at EXCEPT ![c] = place]

-----------------------------------------------------------------------------
AcquireLock(c) ==
    /\ Goto(c, "try")
    /\ UNCHANGED lockVars

\* A try that does not look at the record it replaces.
tryAcquireLockBlind(c, enter, give) ==
    /\ at[c] = "try"
    /\ lock' = c /\ expired' = FALSE /\ Goto(c, enter)
    /\ UNCHANGED <<waiters, signal, attempt, overran>>

(* An expired record is replaced; a live one is a conflict, and the caller  *)
(* goes to wait unless this was its last attempt.                           *)
tryAcquireLock(c, enter, give) ==
    /\ at[c] = "try"
    /\ \/ /\ lock = None \/ expired
          /\ lock' = c /\ expired' = FALSE
          /\ Goto(c, enter)
       \/ /\ lock # None /\ ~expired
          /\ Goto(c, IF attempt[c] < RetryCount THEN "register" ELSE give)
          /\ UNCHANGED <<lock, expired>>
    /\ attempt' = IF at'[c] = "register" THEN attempt
                                        ELSE [attempt EXCEPT ![c] = 0]
    /\ UNCHANGED <<waiters, signal, overran>>

(* waitForLockRelease puts its channel in the queue after tryAcquireLock    *)
(* has given up lm.mutex: a release in between is not seen.                 *)
Register(c) ==
    /\ at[c] = "register"
    /\ waiters' = waiters \cup {c}
    /\ Goto(c, "waiting")
    /\ UNCHANGED <<lock, expired, signal, attempt, overran>>

Woken(c) ==
    /\ at[c] = "waiting" /\ c \in signal
    /\ signal' = signal \ {c}
    /\ attempt' = [attempt EXCEPT ![c] = @ + 1]
    /\ Goto(c, "backoff")
    /\ UNCHANGED <<lock, expired, waiters, overran>>

\* A timeout that leaves its channel in the queue.
WaitTimesOutLeaking(c, give) ==
    /\ at[c] = "waiting"
    /\ signal' = signal \ {c}
    /\ Goto(c, give)
    /\ UNCHANGED <<lock, expired, waiters, attempt, overran>>

\* A wait that only a signal ends.
WaitTimesOutNever(c, give) ==
    /\ at[c] = "waiting" /\ c \in signal
    /\ waiters' = waiters \ {c} /\ signal' = signal \ {c}
    /\ Goto(c, give)
    /\ attempt' = [attempt EXCEPT ![c] = 0]
    /\ UNCHANGED <<lock, expired, overran>>

(* lockCtx is done: removeFromWaitQueue, even if the signal is there too.   *)
WaitTimesOut(c, give) ==
    /\ at[c] = "waiting"
    /\ waiters' = waiters \ {c} /\ signal' = signal \ {c}
    /\ Goto(c, give)
    /\ attempt' = [attempt EXCEPT ![c] = 0]
    /\ UNCHANGED <<lock, expired, overran>>

(* The pause before the next attempt, which lockCtx may end.                *)
Backoff(c, give) ==
    /\ at[c] = "backoff"
    /\ \/ Goto(c, "try") /\ UNCHANGED attempt
       \/ Goto(c, give) /\ attempt' = [attempt EXCEPT ![c] = 0]
    /\ UNCHANGED <<lock, expired, waiters, signal, overran>>

(* ReleaseLock deletes whatever record the key has and notifyWaiters wakes  *)
(* every channel; it does not ask whose lock it is.  With no record it      *)
(* returns an error, which the deferred call drops.                         *)
ReleaseLock(c, out) ==
    /\ IF lock = None
       THEN UNCHANGED <<lock, expired, waiters, signal>>
       ELSE /\ lock' = None /\ expired' = FALSE
            /\ signal' = signal \cup waiters /\ waiters' = {}
    /\ Goto(c, out)
    /\ UNCHANGED <<attempt, overran>>

(* Time passes the record's ExpiresAt.                                      *)
Expire(working) ==
    /\ lock # None /\ ~expired
    /\ expired' = TRUE
    /\ overran' = (overran \/ lock \in working)
    /\ UNCHANGED <<lock, waiters, signal, at, attempt>>

(* The goroutine of runCleanup.                                             *)
cleanupExpiredLocks ==
    /\ expired
    /\ lock' = None /\ expired' = FALSE
    /\ signal' = signal \cup waiters /\ waiters' = {}
    /\ UNCHANGED <<at, attempt, overran>>
=============================================================================
