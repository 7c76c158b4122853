------------------------- MODULE StateManager_proofs -------------------------
(***************************************************************************)
(* Proofs about the lock manager as the state manager uses it, for any     *)
(* number of callers and attempts.                                         *)
(*                                                                         *)
(* UpdatesExclude is not inductive: it counts the callers at work and does *)
(* not say what keeps a second one out.  HolderWorks does: the record is   *)
(* the worker's own and has not expired.                                   *)
(***************************************************************************)
EXTENDS StateManager, FiniteSetTheorems, TLAPS

Places == {"idle", "rget", "rload", "rstore"} \cup Acquiring \cup Working

Placed == at \in [Callers -> Places]

(* As long as no lease has ended under its holder, a caller between         *)
(* AcquireLock and ReleaseLock owns the record, and the record is alive.    *)
HolderWorks ==
    ~overran => \A c \in Callers : at[c] \in Working => lock = c /\ ~expired

Members == waiters \subseteq Callers /\ signal \subseteq Callers

LockInv == Placed /\ HolderWorks /\ Members /\ QueueIsWaiting

(* NewLockManager starts without records, queues and callers at work.       *)
LEMMA InitLock == Init => LockInv
  BY DEF Init, LockInit, LockInv, Placed, Places, HolderWorks, Members,
         QueueIsWaiting, Working

(* Every step of a caller that has the lock, or does not ask for it, leaves *)
(* the lock manager alone and stays on its side of ReleaseLock.             *)
LEMMA Unlocked ==
    ASSUME LockInv, NEW c \in Callers, UNCHANGED lockVars,
           NEW p \in Places, at' = [at EXCEPT ![c] = p],
           p \in Working => at[c] \in Working,
           at[c] # "waiting"
    PROVE  LockInv'
  BY DEF LockInv, Placed, HolderWorks, Members, QueueIsWaiting, lockVars

(* The attempts of AcquireLockWithOptions: only a missing or an expired     *)
(* record lets a caller in, and then nobody is at work.                     *)
LEMMA AcquireKeeps ==
    ASSUME LockInv, NEW c \in Callers, Acquire(c)
    PROVE  LockInv'
<1> USE DEF LockInv, Goto
<1>1. CASE tryAcquireLock(c, "get", "idle")
  <2>1. PICK p \in {"get", "idle", "register"} : at' = [at EXCEPT ![c] = p]
    BY <1>1 DEF tryAcquireLock
  <2>2. Placed'
    BY <2>1 DEF Placed, Places, Acquiring, Working
  <2>3. Members' /\ QueueIsWaiting'
    BY <1>1, <2>1 DEF tryAcquireLock, Members, QueueIsWaiting, Placed
  <2>4. HolderWorks'
    <3>1. CASE (lock = None \/ expired) /\ lock' = c /\ expired' = FALSE
      <4>1. ~overran => \A d \in Callers : at[d] \notin Working
        BY <3>1, LockAssumption DEF HolderWorks
      <4>2. \A d \in Callers : d # c => at'[d] = at[d]
        BY <2>1 DEF Placed
      <4>3. overran' = overran
        BY <1>1 DEF tryAcquireLock
      <4> QED BY <3>1, <4>1, <4>2, <4>3 DEF HolderWorks
    <3>2. CASE /\ UNCHANGED <<lock, expired>>
               /\ at' = [at EXCEPT ![c] = IF attempt[c] < RetryCount
                                          THEN "register" ELSE "idle"]
      <4>1. \A d \in Callers : at'[d] \in Working => at[d] \in Working
        BY <3>2 DEF Placed, Working
      <4>2. overran' = overran
        BY <1>1 DEF tryAcquireLock
      <4> QED BY <3>2, <4>1, <4>2 DEF HolderWorks
    <3> QED BY <1>1, <3>1, <3>2 DEF tryAcquireLock
  <2> QED BY <2>2, <2>3, <2>4
<1>2. CASE Register(c)
  BY <1>2 DEF Register, Placed, Places, Acquiring, Working, HolderWorks,
              Members, QueueIsWaiting
<1>3. CASE Woken(c)
  BY <1>3 DEF Woken, Placed, Places, Acquiring, Working, HolderWorks,
              Members, QueueIsWaiting
<1>4. CASE WaitTimesOut(c, "idle")
  BY <1>4 DEF WaitTimesOut, Placed, Places, Acquiring, Working, HolderWorks,
              Members, QueueIsWaiting
<1>5. CASE Backoff(c, "idle")
  <2>1. PICK p \in {"try", "idle"} : at' = [at EXCEPT ![c] = p]
    BY <1>5 DEF Backoff
  <2> QED
    BY <1>5, <2>1 DEF Backoff, Placed, Places, Acquiring, Working,
                      HolderWorks, Members, QueueIsWaiting
<1> QED BY <1>1, <1>2, <1>3, <1>4, <1>5 DEF Acquire

(* A holder that gives the lock back deletes its own record, unless its     *)
(* lease had ended, and wakes the callers that wait for it.                 *)
LEMMA ReleaseKeeps ==
    ASSUME LockInv, NEW c \in Callers, Release(c)
    PROVE  LockInv'
<1> USE DEF LockInv, Goto
<1>1. at[c] = "release" /\ at' = [at EXCEPT ![c] = "idle"]
      /\ UNCHANGED overran
  BY DEF Release, ReleaseLock
<1>2. Placed'
  BY <1>1 DEF Placed, Places
<1>3. Members' /\ QueueIsWaiting'
  BY <1>1 DEF Release, ReleaseLock, Members, QueueIsWaiting, Placed
<1>4. HolderWorks'
  <2> SUFFICES ASSUME ~overran, NEW d \in Callers, at'[d] \in Working
               PROVE  FALSE
    BY <1>1 DEF HolderWorks
  <2>1. d # c /\ at[d] \in Working
    BY <1>1 DEF Placed, Working
  <2>2. at[c] \in Working
    BY <1>1 DEF Working
  <2> QED BY <2>1, <2>2 DEF HolderWorks
<1> QED BY <1>2, <1>3, <1>4

(* GetIntentState does not touch the lock manager.                          *)
LEMMA GetKeeps ==
    ASSUME LockInv, NEW c \in Callers, GetIntentState(c)
    PROVE  LockInv'
<1> USE DEF Goto, CacheGet, Load, Store, Places, Working, Acquiring
<1>1. CASE CacheGet(c, "rget", "idle", "rload")
  <2>1. PICK p \in {"idle", "rload"} : at' = [at EXCEPT ![c] = p]
    BY <1>1
  <2> QED BY <1>1, <2>1, Unlocked
<1>2. CASE Load(c, "rload", "rstore", "idle")
  <2>1. PICK p \in {"idle", "rstore"} : at' = [at EXCEPT ![c] = p]
    BY <1>2
  <2> QED BY <1>2, <2>1, Unlocked
<1>3. CASE Store(c, "rstore", "idle")
  BY <1>3, Unlocked
<1>4. CASE CacheGet(c, "get", "apply", "load")
  <2>1. PICK p \in {"apply", "load"} : at' = [at EXCEPT ![c] = p]
    BY <1>4
  <2> QED BY <1>4, <2>1, Unlocked
<1>5. CASE Load(c, "load", "store", "release")
  <2>1. PICK p \in {"store", "release"} : at' = [at EXCEPT ![c] = p]
    BY <1>5
  <2> QED BY <1>5, <2>1, Unlocked
<1>6. CASE Store(c, "store", "apply")
  BY <1>6, Unlocked
<1> QED BY <1>1, <1>2, <1>3, <1>4, <1>5, <1>6 DEF GetIntentState

(* Nor does what UpdateIntentState does under the lock.                     *)
LEMMA WorkKeeps ==
    ASSUME LockInv, NEW c \in Callers,
           Apply(c) \/ KubernetesGet(c) \/ KubernetesPut(c) \/ CacheSet(c)
    PROVE  LockInv'
<1>1. PICK p \in {"release", "kget", "kput", "cset"} :
         at' = [at EXCEPT ![c] = p]
  BY DEF Apply, KubernetesGet, KubernetesPut, CacheSet, Goto
<1>2. at[c] \in Working /\ UNCHANGED lockVars
  BY DEF Apply, KubernetesGet, KubernetesPut, CacheSet, Working
<1> QED BY <1>1, <1>2, Unlocked DEF Places, Working

(* A lease that ends under its holder is an overrun; one that ends, or is   *)
(* cleaned up, otherwise has nobody at work.                                *)
LEMMA TimeKeeps == ASSUME LockInv, LockTime PROVE LockInv'
<1> USE DEF LockInv
<1>1. CASE Expire({c \in Callers : at[c] \in Working})
  BY <1>1 DEF Expire, Placed, HolderWorks, Members, QueueIsWaiting
<1>2. CASE cleanupExpiredLocks
  BY <1>2 DEF cleanupExpiredLocks, Placed, HolderWorks, Members,
              QueueIsWaiting
<1> QED BY <1>1, <1>2 DEF LockTime

(* The inductive step, action by action.                                    *)
LEMMA NextKeeps == LockInv /\ [Next]_vars => LockInv'
<1> SUFFICES ASSUME LockInv, [Next]_vars PROVE LockInv'
  OBVIOUS
<1>1. ASSUME NEW c \in Callers, Update(c) \/ Read(c) PROVE LockInv'
  BY <1>1, Unlocked
  DEF Update, Read, AcquireLock, Goto, Places, Acquiring, Working
<1>2. ASSUME NEW c \in Callers, CallerStep(c) PROVE LockInv'
  BY <1>2, AcquireKeeps, GetKeeps, WorkKeeps, ReleaseKeeps DEF CallerStep
<1>3. CASE CacheForgets \/ ForeignWrite \/ UNCHANGED vars
  BY <1>3 DEF CacheForgets, ForeignWrite, vars, lockVars, LockInv, Placed,
              HolderWorks, Members, QueueIsWaiting
<1>4. CASE LockTime
  BY <1>4, TimeKeeps
<1> QED BY <1>1, <1>2, <1>3, <1>4 DEF Next

(* The record belongs to the caller at work, and the wait queue to callers  *)
(* that wait (AcquireLock, ReleaseLock, cleanupExpiredLocks).               *)
THEOREM LockInvariant == Spec => []LockInv
  BY InitLock, NextKeeps, PTL DEF Spec

(* Two updates of one intent never run at the same time while leases last  *)
(* (UpdateIntentState between AcquireLock and its deferred ReleaseLock).    *)
THEOREM MutualExclusion == Spec => []UpdatesExclude
<1>1. LockInv => UpdatesExclude
  <2> SUFFICES ASSUME LockInv, ~overran
               PROVE  Cardinality({c \in Callers : at[c] \in Working}) <= 1
    BY DEF UpdatesExclude
  <2> DEFINE W == {c \in Callers : at[c] \in Working}
  <2>1. W \subseteq {lock}
    BY DEF LockInv, HolderWorks
  <2>2. IsFiniteSet({lock}) /\ Cardinality({lock}) = 1
    BY FS_Singleton
  <2>3. Cardinality(W) <= Cardinality({lock})
    BY <2>1, <2>2, FS_Subset
  <2>4. Cardinality(W) <= 1
    BY <2>2, <2>3
  <2> QED BY <2>4
<1> QED BY <1>1, LockInvariant, PTL

(* No wait channel is leaked and no wake-up is left in a channel nobody     *)
(* reads (waitForLockRelease, removeFromWaitQueue, notifyWaiters).          *)
THEOREM NoLeakedWaiter == Spec => []QueueIsWaiting
  BY LockInvariant, PTL DEF LockInv

-----------------------------------------------------------------------------
(* The cache.  CacheTruth is not inductive: it says nothing of what is      *)
(* about to be cached.  LoadedTruth does for a reload, WrittenTruth for the *)
(* state an update has just written to the API server.                      *)

\* The places where a caller has a pointer to a state.
Holding == {"apply", "kget", "kput", "cset"}

(* A caller has a pointer while it works on the state, and none before.     *)
Pointed ==
    \A c \in Callers :
        /\ at[c] \in Holding => ref[c] # 0
        /\ at[c] \notin Holding \cup {"release"} => ref[c] = 0

(* Only a caller with an attempt left waits for the next one.               *)
Attempting ==
    \A c \in Callers :
        at[c] \in {"register", "waiting"} => attempt[c] < RetryCount

StateTypes == TypeOK /\ Pointed /\ Attempting

(* A copy nobody has overtaken is what the API server has.                  *)
LoadedTruth ==
    \A c \in Callers :
        at[c] \in {"rstore", "store"} /\ c \in current => loaded[c] = api

(* A state that was just written agrees with the object.                    *)
WrittenTruth ==
    ~excused /\ ~overran =>
        \A c \in Callers : at[c] = "cset" => Agree(heap[ref[c]])

CacheInv == LockInv /\ StateTypes /\ LoadedTruth /\ WrittenTruth /\ CacheTruth

(* The two kinds of phases: what is loaded can be held in memory, and every *)
(* phase in memory is written as a phase of the object.                     *)
LEMMA PhaseFacts ==
    /\ NoPhase \in ObjectPhases /\ ObjectPhases \subseteq StatePhases
    /\ Phases \subseteq StatePhases /\ Foreign \subseteq ObjectPhases
    /\ NoPhase \notin Phases
    /\ \A p : ProcessingPhaseToNetworkIntentPhase(p) \in ObjectPhases
<1>1. NoPhase \notin ProcessingPhases
  BY DEF NoPhase, ProcessingPhases
<1>2. ASSUME NEW p
      PROVE ProcessingPhaseToNetworkIntentPhase(p) \in ObjectPhases
  BY DEF ProcessingPhaseToNetworkIntentPhase, ObjectPhases, IntentPhases
<1> QED BY <1>1, <1>2, StateAssumption DEF ObjectPhases, StatePhases

(* There is room for one more state: a caller without a pointer leaves one  *)
(* of the objects to itself.                                                *)
LEMMA RoomLeft ==
    ASSUME StateTypes, NEW c \in Callers, ref[c] = 0
    PROVE  (CHOOSE j \in Free : TRUE) \in Free /\ Free \subseteq Ids
<1> DEFINE Others == Callers \ {c}
           Refs == {ref[d] : d \in Others}
           f == [d \in Others |-> ref[d]]
           n == Cardinality(Callers)
<1>1. IsFiniteSet(Callers) /\ n \in Nat /\ n > 0
  BY LockAssumption, FS_CardinalityType, FS_EmptySet
<1>2. IsFiniteSet(Others) /\ Cardinality(Others) = n - 1
  BY <1>1, FS_RemoveElement
<1>3. f \in Surjection(Others, Refs)
  BY DEF Surjection
<1>4. IsFiniteSet(Refs) /\ Cardinality(Refs) <= Cardinality(Others)
  <2> HIDE DEF Refs, Others, f, n
  <2> QED BY <1>2, <1>3, FS_Surjection
<1>5. IsFiniteSet(Refs) /\ Cardinality(Refs) <= n - 1
  <2> HIDE DEF Refs, Others, f, n
  <2> QED BY <1>2, <1>4
<1>6. Cardinality(Refs) \in Nat
  <2> HIDE DEF Refs
  <2> QED BY <1>5, FS_CardinalityType
<1>7. IsFiniteSet(Refs \cup {cacheRef})
      /\ Cardinality(Refs \cup {cacheRef}) <= n
      /\ Cardinality(Refs \cup {cacheRef}) \in Nat
  <2> HIDE DEF Refs, n, f, Others
  <2>1. /\ IsFiniteSet(Refs \cup {cacheRef})
        /\ \/ Cardinality(Refs \cup {cacheRef}) = Cardinality(Refs)
           \/ Cardinality(Refs \cup {cacheRef}) = Cardinality(Refs) + 1
    BY <1>5, FS_AddElement
  <2> QED BY <1>1, <1>5, <1>6, <2>1
<1>8. IsFiniteSet(Ids) /\ Cardinality(Ids) = n + 1
  <2> HIDE DEF n
  <2>1. Ids = 1..n + 1
    BY DEF Ids, n
  <2> QED BY <1>1, <2>1, FS_Interval
<1>9. ~(Ids \subseteq Refs \cup {cacheRef})
  <2> SUFFICES ASSUME Ids \subseteq Refs \cup {cacheRef} PROVE FALSE
    OBVIOUS
  <2> HIDE DEF Refs, n
  <2>1. Cardinality(Ids) <= Cardinality(Refs \cup {cacheRef})
    BY <1>7, FS_Subset
  <2> QED BY <1>1, <1>7, <1>8, <2>1
<1>10. PICK j \in Ids : j \notin Refs \cup {cacheRef}
  BY <1>9
<1>11. j # 0
  <2> HIDE DEF n
  <2> QED BY <1>1 DEF Ids, n
<1>12. j \in Free
  BY <1>10, <1>11 DEF Free
<1> QED BY <1>12 DEF Free

(* A state manager starts with an empty cache and idle callers.             *)
LEMMA InitTypes == Init => StateTypes
<1> SUFFICES ASSUME Init PROVE StateTypes
  OBVIOUS
<1>1. api \in ObjectPhases
  BY PhaseFacts DEF Init
<1>2. LockTypeOK
  <2>1. 0 \in 0..RetryCount
    BY LockAssumption
  <2>2. attempt \in [Callers -> 0..RetryCount]
    BY <2>1 DEF Init, LockInit
  <2> QED BY <2>2 DEF Init, LockInit, LockTypeOK
<1>3. TypeOK
  <2>1. heap \in [Ids -> StatePhases] /\ cacheRef = 0
    BY PhaseFacts DEF Init
  <2>2. /\ at \in [Callers -> {"idle"}] /\ ref \in [Callers -> {0}]
        /\ loaded \in [Callers -> ObjectPhases]
    BY PhaseFacts DEF Init
  <2>4. 0 \in 0..MaxFaults
    BY StateAssumption
  <2> QED BY <1>1, <1>2, <2>1, <2>2, <2>4 DEF Init, TypeOK
<1>4. Pointed /\ Attempting
  BY DEF Init, Pointed, Attempting, Holding
<1> QED BY <1>3, <1>4 DEF StateTypes

(* The objects that survive a step, and with what phase.                    *)
LEMMA Survives ==
    ASSUME NEW h, heap' = Collected(h), NEW i \in Ids
    PROVE  /\ i = cacheRef' \/ (\E d \in Callers : ref'[d] = i) =>
                  heap'[i] = h[i]
           /\ heap'[i] \in {h[i], NoPhase}
           /\ heap' = [j \in Ids |-> heap'[j]]
  BY DEF Collected

(* The steps of the lock manager leave the states alone.                    *)
LEMMA AcquireTypes ==
    ASSUME StateTypes, NEW c \in Callers, Update(c) \/ Acquire(c) \/ Read(c)
    PROVE  /\ StateTypes' /\ UNCHANGED stateVars /\ overran' = overran
           /\ \A d \in Callers : d # c => at'[d] = at[d]
           /\ at[c] \notin Holding \cup {"release"}
           /\ at'[c] \notin Holding \cup {"release"}
<1>0. /\ at \in [Callers -> {"idle", "rget", "rload", "rstore"}
                               \cup Acquiring \cup Working]
      /\ LockTypeOK /\ attempt \in [Callers -> 0..RetryCount]
      /\ RetryCount \in Nat
  BY LockAssumption DEF StateTypes, TypeOK, LockTypeOK
<1>1. UNCHANGED stateVars
  BY DEF Update, Acquire, Read
<1>2. PICK p : at' = [at EXCEPT ![c] = p]
  BY DEF Update, Acquire, Read, AcquireLock, tryAcquireLock, Register, Woken,
         WaitTimesOut, Backoff, Goto
<1>3. /\ at'[c] = p /\ \A d \in Callers : d # c => at'[d] = at[d]
  BY <1>0, <1>2
<1>4. /\ overran' = overran
      /\ at[c] \in {"idle"} \cup Acquiring
      /\ p \in {"idle", "rget", "get"} \cup Acquiring
      /\ LockTypeOK'
      /\ \A d \in Callers : d # c => attempt'[d] = attempt[d]
      /\ p \in {"register", "waiting"} => attempt'[c] < RetryCount
  <2>1. CASE Update(c) \/ Read(c)
    BY <1>0, <1>3, <2>1
       DEF Update, Read, AcquireLock, Goto, lockVars, LockTypeOK, Acquiring
  <2>2. CASE tryAcquireLock(c, "get", "idle")
    <3>1. at'[c] \in {"get", "idle", "register"}
      BY <1>0, <2>2 DEF tryAcquireLock, Goto
    <3>2. at'[c] = "register" => attempt' = attempt /\ attempt[c] < RetryCount
      BY <1>0, <2>2 DEF tryAcquireLock, Goto
    <3>3. attempt' = attempt \/ attempt' = [attempt EXCEPT ![c] = 0]
      BY <2>2 DEF tryAcquireLock
    <3>4. lock' \in Callers \cup {None} /\ expired' \in BOOLEAN
      BY <1>0, <2>2 DEF tryAcquireLock, LockTypeOK
    <3> QED BY <1>0, <1>3, <2>2, <3>1, <3>2, <3>3, <3>4
            DEF tryAcquireLock, LockTypeOK, Acquiring
  <2>3. CASE Register(c)
    <3>1. attempt[c] < RetryCount
      BY <2>3 DEF Register, StateTypes, Attempting
    <3> QED BY <1>0, <1>3, <2>3, <3>1
            DEF Register, Goto, LockTypeOK, Acquiring
  <2>4. CASE Woken(c)
    <3>1. attempt[c] < RetryCount
      BY <2>4 DEF Woken, StateTypes, Attempting
    <3>2. attempt' \in [Callers -> 0..RetryCount]
      BY <1>0, <2>4, <3>1 DEF Woken
    <3> QED BY <1>0, <1>3, <2>4, <3>2 DEF Woken, Goto, LockTypeOK, Acquiring
  <2>5. CASE WaitTimesOut(c, "idle")
    BY <1>0, <1>3, <2>5 DEF WaitTimesOut, Goto, LockTypeOK, Acquiring
  <2>6. CASE Backoff(c, "idle")
    BY <1>0, <1>3, <2>6 DEF Backoff, Goto, LockTypeOK, Acquiring
  <2> QED BY <2>1, <2>2, <2>3, <2>4, <2>5, <2>6 DEF Acquire
<1>5. at[c] \notin Holding \cup {"release"} /\ p \notin Holding \cup {"release"}
  BY <1>4 DEF Holding, Acquiring
<1>6. TypeOK'
  BY <1>0, <1>1, <1>2, <1>4 DEF StateTypes, TypeOK, stateVars, Working
<1>7. Pointed'
  BY <1>1, <1>3, <1>5 DEF StateTypes, Pointed, stateVars
<1>8. Attempting'
  BY <1>3, <1>4 DEF StateTypes, Attempting
<1> QED BY <1>1, <1>3, <1>4, <1>5, <1>6, <1>7, <1>8 DEF StateTypes

(* GetIntentState keeps the types, and a pointer it hands out is to the     *)
(* object in the cache.                                                     *)
LEMMA GetTypes ==
    ASSUME StateTypes, NEW c \in Callers, GetIntentState(c)
    PROVE  StateTypes'
<1>0. TypeOK /\ Pointed /\ Attempting
  BY DEF StateTypes
<1>1. at[c] \notin Holding \cup {"release"} /\ ref[c] = 0
  <2>1. at[c] \in {"rget", "rload", "rstore", "get", "load", "store"}
    BY DEF GetIntentState, CacheGet, Load, Store
  <2>2. at[c] \notin Holding \cup {"release"}
    BY <2>1 DEF Holding
  <2> QED BY <1>0, <2>2 DEF Pointed
<1>2. UNCHANGED <<lockVars, api>> /\ current' \subseteq Callers
  BY <1>0 DEF GetIntentState, CacheGet, Load, Store, TypeOK
<1>3. Fault => faults' \in 0..MaxFaults
  BY <1>0, StateAssumption DEF TypeOK, Fault
<1>4. LockTypeOK' /\ attempt' = attempt
  BY <1>0, <1>2 DEF TypeOK, LockTypeOK, lockVars
<1>5. \A p \in {"idle", "rload", "rstore", "apply", "load", "store", "release"} :
         Goto(c, p) =>
            /\ at' \in [Callers -> {"idle", "rget", "rload", "rstore"}
                                     \cup Acquiring \cup Working]
            /\ at'[c] = p /\ \A d \in Callers : d # c => at'[d] = at[d]
            /\ Attempting'
  BY <1>0, <1>4 DEF Goto, TypeOK, Working, Attempting
<1>6. ASSUME NEW p \in {"idle", "rload", "rstore", "apply", "load", "store",
                        "release"},
             Goto(c, p),
             heap' \in [Ids -> StatePhases],
             cacheRef' \in Ids \cup {0}, ref' \in [Callers -> Ids \cup {0}],
             \A d \in Callers : d # c => ref'[d] = ref[d],
             IF p = "apply" THEN ref'[c] # 0 ELSE ref'[c] = 0,
             loaded' \in [Callers -> ObjectPhases],
             faults' \in 0..MaxFaults, excused' \in BOOLEAN
      PROVE  StateTypes'
  <2>1. TypeOK'
    BY <1>0, <1>2, <1>4, <1>5, <1>6 DEF TypeOK
  <2>2. Pointed'
    BY <1>0, <1>5, <1>6 DEF Pointed, Holding
  <2> QED BY <1>5, <1>6, <2>1, <2>2 DEF StateTypes
<1>7. ASSUME NEW from, NEW hit \in {"idle", "apply"},
             NEW miss \in {"rload", "load"}, CacheGet(c, from, hit, miss)
      PROVE  StateTypes'
  <2>0. UNCHANGED <<heap, cacheRef, loaded, faults, excused>>
    BY <1>7 DEF CacheGet
  <2>1. CASE /\ cacheRef # 0
             /\ ref' = [ref EXCEPT ![c] = IF hit = "idle" THEN 0 ELSE cacheRef]
             /\ Goto(c, hit)
    <3>1. /\ ref' \in [Callers -> Ids \cup {0}]
          /\ \A d \in Callers : d # c => ref'[d] = ref[d]
          /\ ref'[c] = IF hit = "idle" THEN 0 ELSE cacheRef
      BY <1>0, <2>1 DEF TypeOK
    <3> QED BY <1>0, <1>6, <2>0, <2>1, <3>1 DEF TypeOK
  <2>2. CASE cacheRef = 0 /\ Goto(c, miss) /\ UNCHANGED ref
    BY <1>0, <1>1, <1>6, <2>0, <2>2 DEF TypeOK
  <2> QED BY <1>7, <2>1, <2>2 DEF CacheGet
<1>8. ASSUME NEW from, NEW ok \in {"rstore", "store"},
             NEW fail \in {"idle", "release"}, Load(c, from, ok, fail)
      PROVE  StateTypes'
  <2>0. UNCHANGED <<heap, cacheRef, ref, excused>>
    BY <1>8 DEF Load
  <2>1. CASE loaded' = [loaded EXCEPT ![c] = api] /\ Goto(c, ok)
             /\ UNCHANGED faults
    <3>1. loaded' \in [Callers -> ObjectPhases]
      BY <1>0, <2>1 DEF TypeOK
    <3> QED BY <1>0, <1>1, <1>6, <2>0, <2>1, <3>1 DEF TypeOK
  <2>2. CASE Fault /\ Goto(c, fail) /\ UNCHANGED loaded
    BY <1>0, <1>1, <1>3, <1>6, <2>0, <2>2 DEF TypeOK
  <2> QED BY <1>8, <2>1, <2>2 DEF Load
<1>9. ASSUME NEW from, NEW next \in {"idle", "apply"}, Store(c, from, next)
      PROVE  StateTypes'
  <2> DEFINE i == CHOOSE j \in Free : TRUE
  <2>1. i \in Ids /\ i # 0
    <3>1. i \in Ids
      BY <1>1, RoomLeft
    <3>2. 0 \notin Ids
      BY LockAssumption, FS_CardinalityType DEF Ids
    <3> QED BY <3>1, <3>2
  <2>2. /\ cacheRef' = i
        /\ ref' = [ref EXCEPT ![c] = IF next = "idle" THEN 0 ELSE i]
        /\ loaded' = [loaded EXCEPT ![c] = NoPhase]
        /\ heap' = Collected([heap EXCEPT ![i] = loaded[c]])
        /\ excused' = (excused \/ c \notin current)
        /\ Goto(c, next) /\ faults' = faults
    BY <1>9 DEF Store
  <2> HIDE DEF i
  <2>3. /\ ref' \in [Callers -> Ids \cup {0}]
        /\ \A d \in Callers : d # c => ref'[d] = ref[d]
        /\ ref'[c] = IF next = "idle" THEN 0 ELSE i
        /\ loaded' \in [Callers -> ObjectPhases]
        /\ excused' \in BOOLEAN
    BY <1>0, <2>1, <2>2, PhaseFacts DEF TypeOK
  <2>4. [heap EXCEPT ![i] = loaded[c]] \in [Ids -> StatePhases]
    BY <1>0, <2>1, PhaseFacts DEF TypeOK
  <2>5. heap' \in [Ids -> StatePhases]
    BY <2>2, <2>4, PhaseFacts DEF Collected
  <2> QED BY <1>0, <1>6, <2>1, <2>2, <2>3, <2>5 DEF TypeOK
<1> QED BY <1>7, <1>8, <1>9 DEF GetIntentState

(* UpdateIntentState under the lock keeps the types.                        *)
LEMMA WorkTypes ==
    ASSUME StateTypes, NEW c \in Callers,
           Apply(c) \/ KubernetesGet(c) \/ KubernetesPut(c) \/ CacheSet(c)
    PROVE  StateTypes'
<1>0. TypeOK /\ Pointed /\ Attempting
  BY DEF StateTypes
<1>1. PICK p \in {"kget", "kput", "cset", "release"} : Goto(c, p)
  BY DEF Apply, KubernetesGet, KubernetesPut, CacheSet
<1>2. /\ at[c] \in Holding /\ ref' = ref /\ UNCHANGED <<lockVars, loaded>>
  BY DEF Apply, KubernetesGet, KubernetesPut, CacheSet, Holding
<1>3. ref[c] # 0 /\ ref[c] \in Ids
  BY <1>0, <1>2 DEF Pointed, TypeOK
<1>4. LockTypeOK' /\ attempt' = attempt
  BY <1>0, <1>2 DEF TypeOK, LockTypeOK, lockVars
<1>5. /\ at' \in [Callers -> {"idle", "rget", "rload", "rstore"}
                               \cup Acquiring \cup Working]
      /\ at'[c] = p /\ \A d \in Callers : d # c => at'[d] = at[d]
  BY <1>0, <1>1 DEF Goto, TypeOK, Working
<1>6. Attempting'
  BY <1>0, <1>4, <1>5 DEF Attempting
<1>7. Pointed'
  BY <1>0, <1>2, <1>3, <1>5 DEF Pointed, Holding
<1>8. Fault => faults' \in 0..MaxFaults
  BY <1>0, StateAssumption DEF TypeOK, Fault
<1>9. TypeOK'
  <2>1. CASE Apply(c)
    <3>1. PICK q \in StatePhases : heap' = [heap EXCEPT ![ref[c]] = q]
      BY <1>0, <1>3, <2>1, PhaseFacts DEF Apply, TypeOK
    <3>2. heap' \in [Ids -> StatePhases]
      BY <1>0, <1>3, <3>1 DEF TypeOK
    <3> QED BY <1>0, <1>2, <1>4, <1>5, <2>1, <3>2 DEF TypeOK, Apply
  <2>2. CASE KubernetesGet(c)
    BY <1>0, <1>2, <1>4, <1>5, <1>8, <2>2 DEF TypeOK, KubernetesGet
  <2>3. CASE KubernetesPut(c)
    <3>2. /\ api' \in ObjectPhases /\ current' \subseteq Callers
          /\ faults' \in 0..MaxFaults /\ excused' \in BOOLEAN
      BY <1>0, <1>8, <2>3, PhaseFacts DEF TypeOK, KubernetesPut
    <3> QED BY <1>0, <1>2, <1>4, <1>5, <2>3, <3>2 DEF TypeOK, KubernetesPut
  <2>4. CASE CacheSet(c)
    <3>1. heap' \in [Ids -> StatePhases]
      BY <1>0, <2>4, PhaseFacts DEF TypeOK, CacheSet, Collected
    <3> QED BY <1>0, <1>2, <1>3, <1>4, <1>5, <2>4, <3>1 DEF TypeOK, CacheSet
  <2> QED BY <2>1, <2>2, <2>3, <2>4
<1> QED BY <1>6, <1>7, <1>9 DEF StateTypes

(* So do the end of an update, evictions, other clients and time.           *)
LEMMA RestTypes ==
    ASSUME StateTypes,
           \/ \E c \in Callers : Release(c)
           \/ CacheForgets \/ ForeignWrite \/ LockTime
    PROVE  StateTypes'
<1>0. TypeOK /\ Pointed /\ Attempting
  BY DEF StateTypes
<1>1. ASSUME NEW c \in Callers, Release(c) PROVE StateTypes'
  <2>1. /\ at' \in [Callers -> {"idle", "rget", "rload", "rstore"}
                                 \cup Acquiring \cup Working]
        /\ at'[c] = "idle" /\ \A d \in Callers : d # c => at'[d] = at[d]
    BY <1>0, <1>1 DEF Release, ReleaseLock, Goto, TypeOK
  <2>2. /\ ref' \in [Callers -> Ids \cup {0}] /\ ref'[c] = 0
        /\ \A d \in Callers : d # c => ref'[d] = ref[d]
        /\ heap' \in [Ids -> StatePhases]
    BY <1>0, <1>1, PhaseFacts DEF Release, TypeOK, Collected
  <2>3. LockTypeOK' /\ attempt' = attempt
    BY <1>0, <1>1 DEF Release, ReleaseLock, TypeOK, LockTypeOK
  <2>4. TypeOK'
    BY <1>0, <1>1, <2>1, <2>2, <2>3 DEF Release, TypeOK
  <2>5. Pointed' /\ Attempting'
    BY <1>0, <2>1, <2>2, <2>3 DEF Pointed, Attempting, Holding
  <2> QED BY <2>4, <2>5 DEF StateTypes
<1>2. CASE CacheForgets
  <2>1. heap' \in [Ids -> StatePhases]
    BY <1>0, <1>2, PhaseFacts DEF CacheForgets, TypeOK, Collected
  <2> QED BY <1>0, <1>2, <2>1
          DEF CacheForgets, StateTypes, TypeOK, LockTypeOK, Pointed,
              Attempting, lockVars
<1>3. CASE ForeignWrite
  <2>1. faults' \in 0..MaxFaults
    BY <1>0, <1>3, StateAssumption DEF TypeOK, Fault, ForeignWrite
  <2> QED BY <1>0, <1>3, <2>1, PhaseFacts
          DEF ForeignWrite, StateTypes, TypeOK, LockTypeOK, Pointed,
              Attempting, lockVars
<1>4. CASE LockTime
  <2>1. LockTypeOK' /\ attempt' = attempt /\ at' = at
    BY <1>0, <1>4 DEF LockTime, Expire, cleanupExpiredLocks, TypeOK, LockTypeOK
  <2> QED BY <1>0, <1>4, <2>1
          DEF LockTime, stateVars, StateTypes, TypeOK, Pointed, Attempting
<1> QED BY <1>1, <1>2, <1>3, <1>4

(* Every step keeps the types.                                              *)
LEMMA NextTypes == StateTypes /\ [Next]_vars => StateTypes'
<1> SUFFICES ASSUME StateTypes, [Next]_vars PROVE StateTypes'
  OBVIOUS
<1>1. CASE UNCHANGED vars
  BY <1>1 DEF vars, lockVars, stateVars, StateTypes, TypeOK, LockTypeOK,
              Pointed, Attempting
<1>2. CASE Next
  BY <1>2, AcquireTypes, GetTypes, WorkTypes, RestTypes DEF Next, CallerStep
<1> QED BY <1>1, <1>2

(* The types of the lock and the state manager hold for any number of       *)
(* callers: in particular no attempt is counted beyond RetryCount, and      *)
(* the objects of the model never run out.                                  *)
THEOREM StateTypeOK == Spec => []TypeOK
<1>1. Spec => []StateTypes
  BY InitTypes, NextTypes, PTL DEF Spec
<1>2. StateTypes => TypeOK
  BY DEF StateTypes
<1> QED BY <1>1, <1>2, PTL

-----------------------------------------------------------------------------
(* The truth of the cache.                                                  *)

(* While leases last, a caller at work is alone.                            *)
LEMMA AtWorkAlone ==
    ASSUME LockInv, ~overran, NEW c \in Callers, at[c] \in Working,
           NEW d \in Callers, d # c
    PROVE  at[d] \notin Working
  BY DEF LockInv, HolderWorks

(* A lease that has ended too early is not forgotten.                       *)
LEMMA OverrunStays == ASSUME TypeOK, [Next]_vars, ~overran' PROVE ~overran
<1>1. ASSUME NEW c \in Callers,
             Update(c) \/ Acquire(c) \/ Read(c) \/ Release(c)
      PROVE  overran' = overran
  BY <1>1 DEF Update, Acquire, Read, Release, AcquireLock, tryAcquireLock,
              Register, Woken, WaitTimesOut, Backoff, ReleaseLock, lockVars
<1>2. ASSUME NEW c \in Callers,
             \/ GetIntentState(c) \/ Apply(c) \/ KubernetesGet(c)
             \/ KubernetesPut(c) \/ CacheSet(c)
      PROVE  overran' = overran
  BY <1>2 DEF GetIntentState, CacheGet, Load, Store, Apply, KubernetesGet,
              KubernetesPut, CacheSet, lockVars
<1>3. CASE CacheForgets \/ ForeignWrite \/ UNCHANGED vars
  BY <1>3 DEF CacheForgets, ForeignWrite, vars, lockVars
<1>4. CASE LockTime
  <2>1. \/ overran' = overran
        \/ overran' = (overran \/ lock \in {c \in Callers : at[c] \in Working})
    BY <1>4 DEF LockTime, Expire, cleanupExpiredLocks
  <2>2. overran \in BOOLEAN
    BY DEF TypeOK, LockTypeOK
  <2> QED BY <2>1, <2>2
<1> QED BY <1>1, <1>2, <1>3, <1>4 DEF Next, CallerStep

(* The steps of the lock manager change nothing the truth speaks of.        *)
LEMMA AcquireTruth ==
    ASSUME CacheInv, NEW c \in Callers, Update(c) \/ Acquire(c) \/ Read(c)
    PROVE  LoadedTruth' /\ WrittenTruth' /\ CacheTruth'
<1>1. /\ UNCHANGED stateVars /\ overran' = overran
      /\ \A d \in Callers : d # c => at'[d] = at[d]
      /\ at[c] \notin {"kget", "kput", "cset"}
      /\ at'[c] \notin {"rstore", "store", "kget", "kput", "cset"}
  <2>1. /\ UNCHANGED stateVars /\ overran' = overran
        /\ \A d \in Callers : d # c => at'[d] = at[d]
        /\ at[c] \notin Holding /\ at'[c] \notin Holding
    BY AcquireTypes DEF CacheInv
  <2>2. at'[c] \notin {"rstore", "store"}
    BY DEF CacheInv, StateTypes, TypeOK, Update, Acquire, Read, AcquireLock,
           tryAcquireLock, Register, Woken, WaitTimesOut, Backoff, Goto
  <2> QED BY <2>1, <2>2 DEF Holding
<1>2. LoadedTruth'
  BY <1>1 DEF CacheInv, LoadedTruth, stateVars
<1>3. WrittenTruth'
  BY <1>1 DEF CacheInv, WrittenTruth, Agree, stateVars
<1>4. CacheTruth'
  BY <1>1 DEF CacheInv, CacheTruth, Agree, stateVars
<1> QED BY <1>2, <1>3, <1>4

(* GetIntentState: a copy is current when it is read; if it still is when   *)
(* it is cached, it is the truth, otherwise there is an excuse.             *)
LEMMA GetTruth ==
    ASSUME CacheInv, NEW c \in Callers, GetIntentState(c)
    PROVE  LoadedTruth' /\ WrittenTruth' /\ CacheTruth'
<1>0. /\ LockInv /\ StateTypes /\ TypeOK /\ Pointed
      /\ LoadedTruth /\ WrittenTruth /\ CacheTruth
  BY DEF CacheInv, StateTypes
<1>1. ASSUME NEW p, Goto(c, p)
      PROVE  at'[c] = p /\ \A d \in Callers : d # c => at'[d] = at[d]
  BY <1>0, <1>1 DEF Goto, TypeOK
<1>2. /\ at[c] \in {"rget", "rload", "rstore", "get", "load", "store"}
      /\ api' = api /\ overran' = overran
  BY DEF GetIntentState, CacheGet, Load, Store, lockVars
<1>3. ASSUME NEW p \in {"idle", "rload", "rstore", "load", "store", "release",
                        "apply"},
             Goto(c, p), UNCHANGED <<heap, cacheRef, excused>>,
             \A d \in Callers : d # c => ref'[d] = ref[d]
      PROVE  WrittenTruth' /\ CacheTruth'
  <2>1. WrittenTruth'
    BY <1>0, <1>1, <1>2, <1>3 DEF WrittenTruth, Agree
  <2>2. CacheTruth'
    BY <1>0, <1>1, <1>2, <1>3 DEF CacheTruth, Agree
  <2> QED BY <2>1, <2>2
<1>4. ASSUME NEW from \in {"rload", "load"}, NEW ok \in {"rstore", "store"},
             NEW fail \in {"idle", "release"}, Load(c, from, ok, fail)
      PROVE  LoadedTruth' /\ WrittenTruth' /\ CacheTruth'
  <2>1. PICK p \in {ok, fail} : Goto(c, p)
    BY <1>4 DEF Load
  <2>2. WrittenTruth' /\ CacheTruth'
    BY <1>3, <1>4, <2>1 DEF Load
  <2>3. \A d \in Callers : d # c =>
           loaded'[d] = loaded[d] /\ (d \in current' => d \in current)
    BY <1>0, <1>4 DEF Load, TypeOK
  <2>4. at'[c] \in {"rstore", "store"} => loaded'[c] = api
    <3>1. CASE Goto(c, ok) /\ loaded' = [loaded EXCEPT ![c] = api]
      BY <1>0, <3>1 DEF TypeOK
    <3>2. CASE Goto(c, fail)
      BY <1>1, <3>2
    <3> QED BY <1>4, <3>1, <3>2 DEF Load
  <2>5. LoadedTruth'
    BY <1>0, <1>1, <1>2, <2>1, <2>3, <2>4 DEF LoadedTruth
  <2> QED BY <2>2, <2>5
<1>5. ASSUME NEW from, NEW hit \in {"idle", "apply"},
             NEW miss \in {"rload", "load"}, CacheGet(c, from, hit, miss)
      PROVE  LoadedTruth' /\ WrittenTruth' /\ CacheTruth'
  <2>1. PICK p \in {hit, miss} : Goto(c, p)
    BY <1>5 DEF CacheGet
  <2>2. /\ UNCHANGED <<heap, cacheRef, excused, loaded, current>>
        /\ \A d \in Callers : d # c => ref'[d] = ref[d]
    BY <1>0, <1>5 DEF CacheGet, TypeOK
  <2>3. LoadedTruth'
    BY <1>0, <1>1, <1>2, <2>1, <2>2 DEF LoadedTruth
  <2> QED BY <1>3, <2>1, <2>2, <2>3
<1>6. ASSUME NEW from \in {"rstore", "store"}, NEW next \in {"idle", "apply"},
             Store(c, from, next)
      PROVE  LoadedTruth' /\ WrittenTruth' /\ CacheTruth'
  <2> DEFINE i == CHOOSE j \in Free : TRUE
  <2>1. ref[c] = 0
    BY <1>0, <1>2 DEF Pointed, Holding
  <2>2. i \in Free /\ i \in Ids
    BY <1>0, <2>1, RoomLeft
  <2>3. /\ at[c] = from
        /\ cacheRef' = i
        /\ ref' = [ref EXCEPT ![c] = IF next = "idle" THEN 0 ELSE i]
        /\ loaded' = [loaded EXCEPT ![c] = NoPhase]
        /\ heap' = Collected([heap EXCEPT ![i] = loaded[c]])
        /\ excused' = (excused \/ c \notin current)
        /\ current' = current \ {c}
        /\ Goto(c, next)
    BY <1>6 DEF Store
  <2> HIDE DEF i
  <2>4. \A d \in Callers : d # c => ref'[d] = ref[d] /\ ref[d] # i
    BY <1>0, <2>2, <2>3 DEF TypeOK, Free
  <2>5. ~excused' => ~excused /\ heap'[i] = api
    <3>1. excused \in BOOLEAN
      BY <1>0 DEF TypeOK
    <3>2. ~excused' => ~excused /\ c \in current
      BY <2>3, <3>1
    <3>3. c \in current => loaded[c] = api
      BY <1>0, <2>3 DEF LoadedTruth
    <3>4. [heap EXCEPT ![i] = loaded[c]][i] = loaded[c]
      BY <1>0, <2>2 DEF TypeOK
    <3>5. heap'[i] = [heap EXCEPT ![i] = loaded[c]][i]
      BY <2>2, <2>3, Survives
    <3> QED BY <3>2, <3>3, <3>4, <3>5
  <2>6. at'[c] = next /\ \A d \in Callers : d # c => at'[d] = at[d]
    BY <1>1, <2>3
  <2>7. CacheTruth'
    BY <1>2, <2>3, <2>5 DEF CacheTruth, Agree
  <2>8. ASSUME ~excused', ~overran', NEW d \in Callers, at'[d] = "cset"
        PROVE  Agree(heap[ref[d]]) /\ heap'[ref'[d]] = heap[ref[d]]
    <3>1. d # c /\ at[d] = "cset"
      BY <2>6, <2>8
    <3>2. ref[d] \in Ids
      BY <1>0, <3>1 DEF Pointed, Holding, TypeOK
    <3>3. Agree(heap[ref[d]])
      BY <1>0, <1>2, <2>5, <2>8, <3>1 DEF WrittenTruth
    <3>4. [heap EXCEPT ![i] = loaded[c]][ref[d]] = heap[ref[d]]
      BY <1>0, <2>4, <3>1, <3>2 DEF TypeOK
    <3>5. heap'[ref[d]] = heap[ref[d]]
      BY <2>3, <2>4, <3>1, <3>2, <3>4, Survives
    <3> QED BY <2>4, <3>1, <3>3, <3>5
  <2>9. WrittenTruth'
    BY <1>2, <2>8 DEF WrittenTruth, Agree
  <2>10. \A d \in Callers : d # c => loaded'[d] = loaded[d]
    BY <1>0, <2>3 DEF TypeOK
  <2>11. LoadedTruth'
    BY <1>0, <1>2, <2>3, <2>6, <2>10 DEF LoadedTruth
  <2> QED BY <2>7, <2>9, <2>11
<1> QED BY <1>4, <1>5, <1>6 DEF GetIntentState

(* UpdateIntentState: the state in the cache is changed in place, written   *)
(* to the API server and cached again, or there is an excuse.               *)
LEMMA WorkTruth ==
    ASSUME CacheInv, NEW c \in Callers,
           Apply(c) \/ KubernetesGet(c) \/ KubernetesPut(c) \/ CacheSet(c)
           \/ Release(c)
    PROVE  LoadedTruth' /\ (~overran => WrittenTruth' /\ CacheTruth')
<1>0. /\ LockInv /\ StateTypes /\ TypeOK /\ Pointed
      /\ LoadedTruth /\ WrittenTruth /\ CacheTruth
  BY DEF CacheInv, StateTypes
<1>1. at[c] \in Working /\ overran' = overran /\ loaded' = loaded
  BY DEF Apply, KubernetesGet, KubernetesPut, CacheSet, Release, ReleaseLock,
         Working, lockVars
<1>2. PICK p \in {"kget", "kput", "cset", "release", "idle"} : Goto(c, p)
  BY DEF Apply, KubernetesGet, KubernetesPut, CacheSet, Release, ReleaseLock
<1>3. at'[c] = p /\ \A d \in Callers : d # c => at'[d] = at[d]
  BY <1>0, <1>2 DEF Goto, TypeOK
<1>4. LoadedTruth'
  <2>1. \/ api' = api /\ current' \subseteq current \cup {c}
        \/ current' = {}
    BY DEF Apply, KubernetesGet, KubernetesPut, CacheSet, Release
  <2> QED BY <1>0, <1>1, <1>3, <2>1 DEF LoadedTruth
<1>5. ASSUME ~overran PROVE WrittenTruth' /\ CacheTruth'
  <2>1. \A d \in Callers : d # c =>
           at'[d] \notin Working /\ at[d] \notin Working
    BY <1>0, <1>1, <1>3, <1>5, AtWorkAlone
  <2>2. \A d \in Callers : d # c =>
           /\ at'[d] \notin {"kget", "kput", "cset"}
           /\ at[d] \notin {"kget", "kput", "cset"}
    BY <2>1 DEF Working
  <2>3. CASE Apply(c)
    <3>1. at[c] = "apply" /\ UNCHANGED <<api, cacheRef, ref, excused>>
      BY <2>3 DEF Apply
    <3>2. PICK q : /\ heap' = [heap EXCEPT ![ref[c]] = q]
                   /\ q \in Phases \cup {heap[ref[c]]}
                   /\ Goto(c, IF q = NoPhase THEN "release" ELSE "kget")
      BY <2>3 DEF Apply
    <3>3. CASE at'[c] = "kget"
      BY <2>2, <3>3 DEF WrittenTruth, CacheTruth
    <3>4. CASE at'[c] # "kget"
      <4>1. q = NoPhase
        BY <1>0, <3>2, <3>4 DEF Goto, TypeOK
      <4>2. q = heap[ref[c]]
        BY <3>2, <4>1, PhaseFacts
      <4>3. heap' = heap
        BY <1>0, <3>2, <4>2 DEF TypeOK
      <4>4. \A d \in Callers : at[d] \notin {"kget", "kput", "cset"}
        BY <2>2, <3>1
      <4>5. at'[c] # "cset"
        BY <1>0, <3>2 DEF Goto, TypeOK
      <4> QED BY <1>0, <1>1, <2>2, <3>1, <4>3, <4>4, <4>5
              DEF WrittenTruth, CacheTruth, Agree
    <3> QED BY <3>3, <3>4
  <2>4. CASE KubernetesGet(c)
    <3>1. at'[c] = "kput" \/ excused'
      BY <1>0, <2>4 DEF KubernetesGet, Goto, TypeOK
    <3> QED BY <2>2, <3>1 DEF WrittenTruth, CacheTruth
  <2>5. CASE KubernetesPut(c)
    <3>1. \/ /\ at'[c] = "cset" /\ UNCHANGED <<heap, ref>>
             /\ api' = ProcessingPhaseToNetworkIntentPhase(heap[ref[c]])
          \/ excused'
      BY <1>0, <2>5 DEF KubernetesPut, Goto, TypeOK
    <3> QED BY <2>2, <3>1 DEF WrittenTruth, CacheTruth, Agree
  <2>6. CASE CacheSet(c)
    <3>1. /\ at[c] = "cset" /\ at'[c] = "release" /\ cacheRef' = ref[c]
          /\ heap' = Collected(heap) /\ UNCHANGED <<ref, api, excused>>
      BY <1>0, <2>6 DEF CacheSet, Goto, TypeOK
    <3>2. ref[c] \in Ids
      BY <1>0, <3>1 DEF Pointed, Holding, TypeOK
    <3>3. heap'[cacheRef'] = heap[ref[c]]
      BY <3>1, <3>2, Survives
    <3>4. ~excused => Agree(heap[ref[c]])
      BY <1>0, <1>5, <3>1 DEF WrittenTruth
    <3> QED BY <2>2, <3>1, <3>3, <3>4 DEF WrittenTruth, CacheTruth, Agree
  <2>7. CASE Release(c)
    <3>1. /\ at[c] = "release" /\ at'[c] = "idle" /\ cacheRef' = cacheRef
          /\ heap' = Collected(heap) /\ UNCHANGED <<api, excused>>
      BY <1>0, <2>7 DEF Release, ReleaseLock, Goto, TypeOK
    <3>2. \A d \in Callers : at[d] \notin {"kget", "kput", "cset"}
      BY <2>2, <3>1
    <3>3. cacheRef # 0 => heap'[cacheRef'] = heap[cacheRef]
      BY <1>0, <3>1, Survives DEF TypeOK
    <3> QED BY <1>0, <1>1, <2>2, <3>1, <3>2, <3>3
            DEF WrittenTruth, CacheTruth, Agree
  <2> QED BY <2>3, <2>4, <2>5, <2>6, <2>7
<1> QED BY <1>4, <1>5

(* Every step keeps the truth, or leaves an excuse.                         *)
LEMMA NextTruth ==
    CacheInv /\ [Next]_vars => LoadedTruth' /\ WrittenTruth' /\ CacheTruth'
<1> SUFFICES ASSUME CacheInv, [Next]_vars
             PROVE  LoadedTruth' /\ WrittenTruth' /\ CacheTruth'
  OBVIOUS
<1>0. /\ LockInv /\ StateTypes /\ TypeOK /\ Pointed
      /\ LoadedTruth /\ WrittenTruth /\ CacheTruth
  BY DEF CacheInv, StateTypes
<1>1. ~overran' => ~overran
  BY <1>0, OverrunStays
<1>2. ASSUME NEW c \in Callers, Update(c) \/ Acquire(c) \/ Read(c)
      PROVE  LoadedTruth' /\ WrittenTruth' /\ CacheTruth'
  BY <1>2, AcquireTruth
<1>3. ASSUME NEW c \in Callers, GetIntentState(c)
      PROVE  LoadedTruth' /\ WrittenTruth' /\ CacheTruth'
  BY <1>3, GetTruth
<1>4. ASSUME NEW c \in Callers,
             Apply(c) \/ KubernetesGet(c) \/ KubernetesPut(c) \/ CacheSet(c)
             \/ Release(c)
      PROVE  LoadedTruth' /\ WrittenTruth' /\ CacheTruth'
  <2>1. LoadedTruth' /\ (~overran => WrittenTruth' /\ CacheTruth')
    BY <1>4, WorkTruth
  <2>2. overran' => WrittenTruth' /\ CacheTruth'
    BY DEF WrittenTruth, CacheTruth
  <2> QED BY <1>1, <2>1, <2>2
<1>5. CASE CacheForgets
  <2>1. /\ cacheRef' = 0 /\ heap' = Collected(heap)
        /\ UNCHANGED <<at, api, ref, loaded, current, excused, overran>>
    BY <1>5 DEF CacheForgets, lockVars
  <2>2. ASSUME NEW d \in Callers, at[d] = "cset"
        PROVE  heap'[ref'[d]] = heap[ref[d]]
    <3>1. ref[d] \in Ids
      BY <1>0, <2>2 DEF Pointed, Holding, TypeOK
    <3> QED BY <2>1, <3>1, Survives
  <2>3. WrittenTruth'
    BY <1>0, <2>1, <2>2 DEF WrittenTruth, Agree
  <2> QED BY <1>0, <2>1, <2>3 DEF CacheTruth, LoadedTruth
<1>6. CASE ForeignWrite
  BY <1>6 DEF ForeignWrite, LoadedTruth, WrittenTruth, CacheTruth
<1>7. CASE LockTime \/ UNCHANGED vars
  <2>1. UNCHANGED <<at, stateVars>>
    BY <1>7 DEF LockTime, Expire, cleanupExpiredLocks, vars
  <2>2. LoadedTruth'
    BY <1>0, <2>1 DEF LoadedTruth, stateVars
  <2>3. WrittenTruth'
    BY <1>0, <1>1, <2>1 DEF WrittenTruth, Agree, stateVars
  <2>4. CacheTruth'
    BY <1>0, <1>1, <2>1 DEF CacheTruth, Agree, stateVars
  <2> QED BY <2>2, <2>3, <2>4
<1> QED BY <1>2, <1>3, <1>4, <1>5, <1>6, <1>7 DEF Next, CallerStep

(* The whole invariant, for any number of callers.                          *)
LEMMA CacheInvariant == Spec => []CacheInv
<1>1. Init => CacheInv
  <2>1. Init => LoadedTruth /\ WrittenTruth /\ CacheTruth
    BY DEF Init, LoadedTruth, WrittenTruth, CacheTruth
  <2> QED BY <2>1, InitLock, InitTypes DEF CacheInv
<1>2. CacheInv /\ [Next]_vars => CacheInv'
  BY NextKeeps, NextTypes, NextTruth DEF CacheInv
<1> QED BY <1>1, <1>2, PTL DEF Spec

(* Outside an update the cached phase is the object's, raw or converted,    *)
(* except for the four causes CacheTruth names, and a successful update     *)
(* restores it: although GetIntentState fills the cache without the lock,   *)
(* and updates change the cached state in place.                            *)
THEOREM CacheTruthTheorem == Spec => []CacheTruth
  BY CacheInvariant, PTL DEF CacheInv
=============================================================================
