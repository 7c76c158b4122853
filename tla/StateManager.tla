----------------------------- MODULE StateManager -----------------------------
(***************************************************************************)
(* The state manager of pkg/shared/state_manager.go for one NetworkIntent: *)
(* UpdateIntentState and its users (TransitionPhase, SetPhaseError,        *)
(* SetPhaseData, AddDependency) under the lock of LockManager, and         *)
(* GetIntentState without it.                                              *)
(*                                                                         *)
(* The cache (state_cache.go) hands out pointers: an update changes the    *)
(* cached state in place before Kubernetes has accepted it.  heap holds    *)
(* the IntentState values, cacheRef and ref the pointers.  A state is its  *)
(* phase: the phase is what updateKubernetesState copies to the object,    *)
(* after converting it.  convertToIntentState does not convert it back: a  *)
(* state that was loaded has the object's phase, which is another type.    *)
(***************************************************************************)
EXTENDS LockManager

CONSTANTS
    Phases,       \* the phases TransitionPhase is called with
    Foreign,      \* the phases other clients write to the object
    MaxFaults     \* bound on failed API calls and on writes of other clients

NoPhase == ""     \* the phase of an intent that has none yet

\* interfaces.ProcessingPhase and api/v1's NetworkIntentPhase.
ProcessingPhases ==
    {"IntentReceived", "Received", "LLMProcessing", "ResourcePlanning",
     "ManifestGeneration", "GitOpsCommit", "DeploymentVerification",
     "Completed", "Failed"}
IntentPhases ==
    {"Pending", "Processing", "Deploying", "Active", "Ready", "Deployed",
     "Failed"}

ASSUME StateAssumption ==
    /\ MaxFaults \in Nat
    /\ Phases \subseteq ProcessingPhases
    /\ Foreign \subseteq IntentPhases

VARIABLES
    api,        \* status.phase on the API server
    heap,       \* the IntentState objects in memory
    cacheRef,   \* the object in the cache, 0 when there is none
    ref,        \* each caller's pointer, 0 when it has none
    loaded,     \* the phase client.Get returned to each caller
    current,    \* callers whose copy of the object has its resourceVersion
    faults,
    excused     \* history: the cache may differ from the API server since
                \* the last successful update

stateVars == <<api, heap, cacheRef, ref, loaded, current, faults, excused>>
vars == <<lockVars, at, stateVars>>

Ids == 1..(Cardinality(Callers) + 1)

\* The places between a successful AcquireLock and the deferred ReleaseLock.
Working == {"get", "load", "store", "apply", "kget", "kput", "cset", "release"}

\* What the object's status, and what a CurrentPhase, can hold.
ObjectPhases == IntentPhases \cup {NoPhase}
StatePhases  == ProcessingPhases \cup ObjectPhases

TypeOK ==
    /\ LockTypeOK
    /\ at \in [Callers -> {"idle", "rget", "rload", "rstore"}
                            \cup Acquiring \cup Working]
    /\ api \in ObjectPhases
    /\ heap \in [Ids -> StatePhases]
    /\ cacheRef \in Ids \cup {0}
    /\ ref \in [Callers -> Ids \cup {0}]
    /\ loaded \in [Callers -> ObjectPhases]
    /\ current \subseteq Callers
    /\ faults \in 0..MaxFaults
    /\ excused \in BOOLEAN

Init ==
    /\ LockInit
    /\ at = [c \in Callers |-> "idle"]
    /\ api \in Foreign \cup {NoPhase}
    /\ heap = [i \in Ids |-> NoPhase] /\ cacheRef = 0
    /\ ref = [c \in Callers |-> 0]
    /\ loaded = [c \in Callers |-> NoPhase]
    /\ current = {}
    /\ faults = 0 /\ excused = FALSE

Fault == faults < MaxFaults /\ faults' = faults + 1

(* Objects nobody points to any more are forgotten.                         *)
Collected(h) ==
    [i \in Ids |-> IF i = cacheRef' \/ \E d \in Callers : ref'[d] = i
                   THEN h[i] ELSE NoPhase]

Free == Ids \ ({cacheRef} \cup {ref[d] : d \in Callers})

-----------------------------------------------------------------------------
(* GetIntentState, on its own and as the first step of an update: a hit     *)
(* returns the pointer, a miss reads the object, makes a state of it and    *)
(* stores that in the cache, with no lock around the three.                 *)

CacheGet(c, from, hit, miss) ==
    /\ at[c] = from
    /\ \/ /\ cacheRef # 0
          /\ ref' = [ref EXCEPT ![c] = IF hit = "idle" THEN 0 ELSE cacheRef]
          /\ Goto(c, hit)
       \/ cacheRef = 0 /\ Goto(c, miss) /\ UNCHANGED ref
    /\ UNCHANGED <<lockVars, api, heap, cacheRef, loaded, current, faults,
                   excused>>

Load(c, from, ok, fail) ==
    /\ at[c] = from
    /\ \/ /\ loaded' = [loaded EXCEPT ![c] = api]
          /\ current' = current \cup {c}
          /\ Goto(c, ok) /\ UNCHANGED faults
       \/ Fault /\ Goto(c, fail) /\ UNCHANGED <<loaded, current>>
    /\ UNCHANGED <<lockVars, api, heap, cacheRef, ref, excused>>

(* convertToIntentState takes the object's phase for a processing phase as  *)
(* it is.                                                                   *)
Store(c, from, next) ==
    LET i == CHOOSE j \in Free : TRUE
    IN  /\ at[c] = from
        /\ cacheRef' = i
        /\ ref' = [ref EXCEPT ![c] = IF next = "idle" THEN 0 ELSE i]
        /\ loaded' = [loaded EXCEPT ![c] = NoPhase]
        /\ heap' = Collected([heap EXCEPT ![i] = loaded[c]])
        /\ excused' = (excused \/ c \notin current)
        /\ current' = current \ {c}
        /\ Goto(c, next)
        /\ UNCHANGED <<lockVars, api, faults>>

Read(c) ==
    /\ at[c] = "idle" /\ Goto(c, "rget")
    /\ UNCHANGED <<lockVars, stateVars>>

GetIntentState(c) ==
    \/ CacheGet(c, "rget", "idle", "rload")
    \/ Load(c, "rload", "rstore", "idle")
    \/ Store(c, "rstore", "idle")
    \/ CacheGet(c, "get", "apply", "load")
    \/ Load(c, "load", "store", "release")
    \/ Store(c, "store", "apply")

(* The entry's TTL runs out, or the cache evicts it.                        *)
CacheForgets ==
    /\ cacheRef # 0 /\ cacheRef' = 0
    /\ UNCHANGED ref /\ heap' = Collected(heap)
    /\ UNCHANGED <<lockVars, at, api, loaded, current, faults, excused>>

-----------------------------------------------------------------------------
(* UpdateIntentState.                                                       *)

Update(c) ==
    /\ at[c] = "idle"
    /\ AcquireLock(c)
    /\ UNCHANGED stateVars

Acquire(c) ==
    /\ \/ tryAcquireLock(c, "get", "idle") \/ Register(c) \/ Woken(c)
       \/ WaitTimesOut(c, "idle") \/ Backoff(c, "idle")
    /\ UNCHANGED stateVars

(* updateFn and validateState: the state is changed in place, by            *)
(* TransitionPhase to another phase, by SetPhaseData and the like in other  *)
(* fields; a state without a phase is refused after the change.             *)
Apply(c) ==
    /\ at[c] = "apply"
    /\ \E p \in Phases \cup {heap[ref[c]]} :
          /\ heap' = [heap EXCEPT ![ref[c]] = p]
          /\ Goto(c, IF p = NoPhase THEN "release" ELSE "kget")
    /\ UNCHANGED <<lockVars, api, cacheRef, ref, loaded, current, faults,
                   excused>>

(* updateKubernetesState reads the object again and updates the status of   *)
(* what it has read.                                                        *)
KubernetesGet(c) ==
    /\ at[c] = "kget"
    /\ \/ current' = current \cup {c} /\ Goto(c, "kput")
          /\ UNCHANGED <<faults, excused>>
       \/ /\ Fault /\ Goto(c, "release")
          /\ excused' = TRUE /\ UNCHANGED current
    /\ UNCHANGED <<lockVars, api, heap, cacheRef, ref, loaded>>

(* phase_conversion.go: several phases become one, any other value Pending. *)
ProcessingPhaseToNetworkIntentPhase(p) ==
    CASE p = "LLMProcessing"          -> "Processing"
      [] p \in {"ResourcePlanning", "ManifestGeneration", "GitOpsCommit"}
                                      -> "Deploying"
      [] p = "DeploymentVerification" -> "Active"
      [] p = "Completed"              -> "Deployed"
      [] p = "Failed"                 -> "Failed"
      [] OTHER                        -> "Pending"

\* The status that was read goes back without the new phase.
KubernetesPutForgetsPhase(c) ==
    /\ at[c] = "kput" /\ c \in current
    /\ current' = {} /\ excused' = FALSE
    /\ Goto(c, "cset")
    /\ UNCHANGED <<lockVars, api, heap, cacheRef, ref, loaded, faults>>

(* A conflict or a failed call gives back the old version number and leaves *)
(* the rest of the state as it is.                                          *)
KubernetesPut(c) ==
    /\ at[c] = "kput"
    /\ \/ /\ c \in current
          /\ api' = ProcessingPhaseToNetworkIntentPhase(heap[ref[c]])
          /\ current' = {} /\ excused' = FALSE
          /\ Goto(c, "cset")
          /\ UNCHANGED faults
       \/ /\ IF c \in current THEN Fault ELSE UNCHANGED faults
          /\ current' = current \ {c}
          /\ Goto(c, "release")
          /\ excused' = TRUE /\ UNCHANGED api
    /\ UNCHANGED <<lockVars, heap, cacheRef, ref, loaded>>

(* The cache entry is written again: the pointer it may already hold.       *)
CacheSet(c) ==
    /\ at[c] = "cset"
    /\ cacheRef' = ref[c]
    /\ Goto(c, "release")
    /\ UNCHANGED ref /\ heap' = Collected(heap)
    /\ UNCHANGED <<lockVars, api, loaded, current, faults, excused>>

Release(c) ==
    /\ at[c] = "release"
    /\ ReleaseLock(c, "idle")
    /\ ref' = [ref EXCEPT ![c] = 0]
    /\ UNCHANGED cacheRef /\ heap' = Collected(heap)
    /\ UNCHANGED <<api, loaded, current, faults, excused>>

(* Another client of the API server, the NetworkIntent controller, writes   *)
(* the phase; the cache is not told.                                        *)
ForeignWrite ==
    /\ Fault
    /\ api' \in Foreign
    /\ current' = {} /\ excused' = TRUE
    /\ UNCHANGED <<lockVars, at, heap, cacheRef, ref, loaded>>

LockTime ==
    /\ \/ Expire({c \in Callers : at[c] \in Working})
       \/ cleanupExpiredLocks
    /\ UNCHANGED stateVars

CallerStep(c) ==
    \/ Acquire(c) \/ GetIntentState(c) \/ Apply(c)
    \/ KubernetesGet(c) \/ KubernetesPut(c) \/ CacheSet(c) \/ Release(c)

Next ==
    \/ \E c \in Callers : Update(c) \/ Read(c) \/ CallerStep(c)
    \/ CacheForgets \/ ForeignWrite \/ LockTime

Spec == Init /\ [][Next]_vars

(* Goroutines run, API calls return and contexts time out.  Nobody is       *)
(* obliged to ask for anything, and no lease is obliged to expire.          *)
FairSpec == Spec /\ \A c \in Callers : WF_vars(CallerStep(c))

-----------------------------------------------------------------------------
(* As long as no lease has ended under its holder, updates of one intent    *)
(* exclude each other (AcquireLock, ReleaseLock): whatever the waiting,     *)
(* waking, timing out and cleaning up, nobody enters beside a holder.       *)
UpdatesExclude ==
    ~overran => Cardinality({c \in Callers : at[c] \in Working}) <= 1

(* lm.waitQueues holds the channels of callers that are in the select and   *)
(* nobody else's: no timeout, release or clean-up leaks a channel, and a    *)
(* value is only in the channel of a caller that can still read it.         *)
QueueIsWaiting ==
    /\ \A c \in waiters : at[c] = "waiting" /\ c \notin signal
    /\ \A c \in signal : at[c] = "waiting"

(* Outside an update, the cached phase is the phase of the object as it was *)
(* read, or converts to it: a successful update makes the cache and the     *)
(* object agree, and they stay so until one of four things happens: an      *)
(* update fails after it has changed the cached state in place, a reload    *)
(* stores what it read before the object was changed, another client        *)
(* writes, a lease ends too early (GetIntentState, UpdateIntentState).      *)
Agree(p) == p = api \/ ProcessingPhaseToNetworkIntentPhase(p) = api
CacheTruth ==
    /\ cacheRef # 0 /\ ~excused /\ ~overran
    /\ \A c \in Callers : at[c] \notin {"kget", "kput", "cset"}
    => Agree(heap[cacheRef])

(* Every call returns: UpdateIntentState has the lock, gives up or fails in *)
(* the end, and a caller that missed its wake-up is freed by its timeout.   *)
CallsReturn == \A c \in Callers : at[c] # "idle" ~> at[c] = "idle"

-----------------------------------------------------------------------------
(* What the code does not keep; the README says how.                        *)

(* The cached phase is a processing phase, so that it can be compared with  *)
(* the phases of phaseOrder (isPhaseSatisfied).                             *)
CachedIsProcessingPhase ==
    cacheRef # 0 => heap[cacheRef] \in ProcessingPhases \cup {NoPhase}

(* Nobody but another client moves an intent back to Pending.               *)
NeverBackToPending ==
    [][api' = "Pending" /\ api # api' =>
         \/ ForeignWrite
         \/ api = NoPhase
         \/ Phases \cap {"IntentReceived", "Received"} # {}]_vars
=============================================================================
