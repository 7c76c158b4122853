------------------------- MODULE E2NodeSetController -------------------------
(***************************************************************************)
(* The Go operator's E2NodeSet controller, pkg/controllers, for one        *)
(* E2NodeSet: Reconcile creates, deletes or updates one ConfigMap for each *)
(* simulated E2 node, connects a new node through the E2Manager, whose     *)
(* calls can fail, and counts failed attempts in annotations of the set.   *)
(* A goroutine started by every successful Reconcile beats for ever: it    *)
(* writes each ConfigMap and the status of the set, every ten seconds.     *)
(* The goroutines pile up, so a beat may come at any moment, any number of *)
(* times, once there is one.                                               *)
(*                                                                         *)
(* The set and the ConfigMaps are read from two informer caches, which lag *)
(* behind the API server independently of each other.  A write of an       *)
(* existing object is refused unless it is based on the current            *)
(* resourceVersion.                                                        *)
(***************************************************************************)
EXTENDS Integers, Sequences, FiniteSets, FiniteSetsExt

CONSTANTS MaxReplicas,       \* bound on spec.replicas
          DefaultMaxRetries, \* the code's constant of that name
          MaxFaults          \* bound on failed calls, edits and crashes
ASSUME BoundsAssumption ==
    MaxReplicas \in Nat /\ DefaultMaxRetries \in Nat /\ MaxFaults \in Nat

Indices == 0..MaxReplicas - 1

VARIABLES
    api,        \* the E2NodeSet on the API server
    cache,      \* the informer's copy of it
    cacheFresh, \* that copy has the current resourceVersion
    nodes,      \* index -> ConfigMap on the API server
    cmCache,    \* index -> the informer's copy of the ConfigMap
    pending,    \* indices of the ConfigMap changes the informer has not seen
    beating,    \* at least one heartbeat goroutine is running
    queued, pc,
    obj,        \* Reconcile's copy of the set
    fresh,      \* obj has the current resourceVersion
    listed,     \* the indices Reconcile works on
    current,    \* those whose ConfigMap it has in the current version
    errors,     \* handleDeletion has seen a failed delete
    gaveUp,     \* history: handleDeletion let go without deleting everything
    faults,
    calm        \* history, for the fair specification: this Reconcile has
                \* read current copies and no beat has come since

server == <<api, cache, cacheFresh>>
maps == <<nodes, cmCache, pending, current>>
local == <<obj, fresh, listed, errors>>
vars == <<server, maps, beating, queued, pc, local, gaveUp, faults>>

(* A ConfigMap: 0 for none, or the node's lifecycle state 1 Pending,        *)
(* 2 Initializing, 3 Connected; the generation of its configuration; and    *)
(* whether it has an owner reference.                                       *)
Absent == [state |-> 0, config |-> 0, owned |-> FALSE]
ConfigMaps == [state : 0..3, config : 0..1, owned : BOOLEAN]
Present(f) == {i \in Indices : f[i].state > 0}

Sets == [exists : BOOLEAN, deleting : BOOLEAN, finalizer : BOOLEAN,
         replicas : 0..MaxReplicas, config : 0..1, ready : BOOLEAN,
         operations : 0..DefaultMaxRetries, cleanup : 0..DefaultMaxRetries,
         provisioning : 0..DefaultMaxRetries]

TypeOK ==
    /\ api \in Sets /\ cache \in Sets /\ obj \in Sets
    /\ cacheFresh \in BOOLEAN /\ fresh \in BOOLEAN
    /\ nodes \in [Indices -> ConfigMaps] /\ cmCache \in [Indices -> ConfigMaps]
    /\ pending \in Seq(Indices)
    /\ \A k, l \in DOMAIN pending : k # l => pending[k] # pending[l]
    /\ beating \in BOOLEAN /\ queued \in BOOLEAN
    /\ pc \in {"idle", "finalizer", "list", "create", "connect", "shrink",
               "update", "success", "status", "ready",
               "failed", "listDeleted", "purge", "unpurged", "release",
               "return"}
    /\ listed \subseteq Indices /\ current \subseteq Indices
    /\ errors \in BOOLEAN /\ gaveUp \in BOOLEAN
    /\ faults \in 0..MaxFaults

NewSet(r) == [exists |-> TRUE, deleting |-> FALSE, finalizer |-> FALSE,
              replicas |-> r, config |-> 0, ready |-> FALSE,
              operations |-> 0, cleanup |-> 0, provisioning |-> 0]

Init ==
    /\ api \in {NewSet(r) : r \in 1..MaxReplicas}
    /\ cache = api /\ obj = NewSet(0) /\ cacheFresh = TRUE /\ fresh = FALSE
    /\ nodes = [i \in Indices |-> Absent] /\ cmCache = nodes
    /\ pending = <<>> /\ beating = FALSE
    /\ queued = TRUE /\ pc = "idle"
    /\ listed = {} /\ current = {} /\ errors = FALSE
    /\ gaveUp = FALSE /\ faults = 0

Fault == faults < MaxFaults /\ faults' = faults + 1

-----------------------------------------------------------------------------
(* Writes of the set.  One that the API server takes gives new, which comes *)
(* back as obj; one that changes nothing makes no new version.              *)

Accepted(new) ==
    /\ api' = new /\ obj' = new /\ fresh' = TRUE
    /\ cacheFresh' = (cacheFresh /\ new = api)
    /\ UNCHANGED cache

Refused(o) == obj' = o /\ UNCHANGED <<server, fresh>>

(* Update takes the annotations and the finalizers of o, Status().Update    *)
(* its Ready condition.                                                     *)
WithMeta(o) == [api EXCEPT !.operations = o.operations, !.cleanup = o.cleanup,
                           !.provisioning = o.provisioning,
                           !.finalizer = o.finalizer]

(* Update, then setReadyCondition(r), with the errors of both ignored.      *)
Saved(o, r) == IF fresh THEN Accepted([WithMeta(o) EXCEPT !.ready = r])
                        ELSE Refused(o)

Save(o, r) ==
    \/ Saved(o, r) /\ UNCHANGED faults
    \/ fresh /\ Fault /\ Accepted(WithMeta(o))
    \/ fresh /\ Fault /\ Accepted([api EXCEPT !.ready = r])

(* Update alone, with its error ignored.                                    *)
SaveMeta(o) ==
    \/ fresh /\ Accepted(WithMeta(o)) /\ UNCHANGED faults
    \/ fresh /\ Fault /\ Refused(o)
    \/ ~fresh /\ Refused(o) /\ UNCHANGED faults

(* A change of the ConfigMap of node i: the informer will hear of it.       *)
Change(i, cm) ==
    /\ nodes' = [nodes EXCEPT ![i] = cm]
    /\ pending' = IF \E k \in DOMAIN pending : pending[k] = i
                  THEN pending ELSE Append(pending, i)
    /\ current' = current \ {i}
    /\ UNCHANGED cmCache

-----------------------------------------------------------------------------
(* The informers, the user and the process.                                 *)

SetEvent ==
    /\ ~cacheFresh
    /\ cache' = api /\ cacheFresh' = TRUE /\ queued' = TRUE
    /\ UNCHANGED <<api, maps, beating, pc, local, gaveUp, faults>>

(* The informer's queue holds a key once and delivers its latest state.     *)
(* Only a ConfigMap with an owner reference queues the set (Owns).          *)
ConfigMapEvent ==
    /\ pending # <<>>
    /\ LET i == Head(pending)
       IN  /\ cmCache' = [cmCache EXCEPT ![i] = nodes[i]]
           /\ queued' = (queued \/ cmCache[i].owned \/ nodes[i].owned)
    /\ pending' = Tail(pending)
    /\ UNCHANGED <<server, nodes, current, beating, pc, local, gaveUp,
                   faults>>

UserEdit ==
    /\ api.exists /\ ~api.deleting
    /\ Fault
    /\ \/ \E r \in 0..MaxReplicas \ {api.replicas} :
             api' = [api EXCEPT !.replicas = r]
       \/ api' = [api EXCEPT !.config = 1] /\ api.config = 0
    /\ cacheFresh' = FALSE /\ fresh' = FALSE
    /\ UNCHANGED <<cache, maps, beating, queued, pc, obj, listed, errors,
                   gaveUp>>

UserDelete ==
    /\ api.exists /\ ~api.deleting
    /\ api' = IF api.finalizer THEN [api EXCEPT !.deleting = TRUE]
                               ELSE [api EXCEPT !.exists = FALSE]
    /\ cacheFresh' = FALSE /\ fresh' = FALSE
    /\ UNCHANGED <<cache, maps, beating, queued, pc, obj, listed, errors,
                   gaveUp, faults>>

(* The process stops and starts again: the caches are listed afresh, the    *)
(* connections and the goroutines are gone.                                 *)
Crash ==
    /\ Fault
    /\ cache' = api /\ cacheFresh' = TRUE /\ fresh' = FALSE
    /\ cmCache' = nodes /\ pending' = <<>> /\ current' = {}
    /\ beating' = FALSE
    /\ queued' = TRUE /\ pc' = "idle"
    /\ obj' = NewSet(0) /\ listed' = {} /\ errors' = FALSE
    /\ UNCHANGED <<api, nodes, gaveUp>>

-----------------------------------------------------------------------------
(* Reconcile, up to reconcileE2Nodes.                                       *)

Read ==
    /\ pc = "idle" /\ queued
    /\ queued' = FALSE
    /\ obj' = cache /\ fresh' = cacheFresh /\ errors' = FALSE
    /\ pc' = IF ~cache.exists THEN "return"
             ELSE IF cache.deleting THEN "listDeleted"
             ELSE IF cache.finalizer THEN "list" ELSE "finalizer"
    /\ UNCHANGED <<server, maps, beating, listed, gaveUp, faults>>

(* Either way the object is queued again.                                   *)
AddFinalizer ==
    /\ pc = "finalizer"
    /\ SaveMeta([obj EXCEPT !.finalizer = TRUE])
    /\ pc' = "return" /\ queued' = TRUE
    /\ UNCHANGED <<maps, beating, listed, errors, gaveUp>>

(* getCurrentE2NodeConfigMaps, and the branch of reconcileE2Nodes: too few, *)
(* too many, or the right number, of which some are to be updated.          *)
ListNodes ==
    LET found == Present(cmCache)
        n     == Cardinality(found)
        old   == {i \in found : cmCache[i].config # obj.config}
        seen  == {i \in found : \A k \in DOMAIN pending : pending[k] # i}
    IN  /\ pc = "list"
        /\ \/ /\ n < obj.replicas /\ UNCHANGED <<faults, current>>
              /\ pc' = "create" /\ listed' = found
           \/ /\ n > obj.replicas /\ UNCHANGED <<faults, current>>
              /\ pc' = "shrink" /\ listed' = found
           \/ /\ n = obj.replicas /\ UNCHANGED faults
              /\ pc' = IF old = {} THEN "success" ELSE "update"
              /\ listed' = old /\ current' = old \cap seen
           \/ Fault /\ pc' = "failed" /\ UNCHANGED <<listed, current>>
        /\ UNCHANGED <<server, nodes, cmCache, pending, beating, queued, obj,
                       fresh, errors, gaveUp>>

(* A failed ConfigMap operation: one more on the configmap-operations       *)
(* counter.  Failed is the API server's error, Conflicted a refusal.        *)
OneMore == [obj EXCEPT !.operations = @ + 1]
Failed == Fault /\ Saved(OneMore, FALSE) /\ pc' = "failed"
Conflicted == Save(OneMore, FALSE) /\ pc' = "failed"

-----------------------------------------------------------------------------
(* scaleUpE2Nodes and createE2NodeConfigMap.                                *)

nextIndex == Min(Indices \ listed)

CreateNode ==
    /\ pc = "create"
    /\ obj.operations < DefaultMaxRetries
    /\ nodes[nextIndex] = Absent
    /\ Change(nextIndex, [state |-> 1, config |-> obj.config, owned |-> TRUE])
    /\ SaveMeta([obj EXCEPT !.operations = 0])
    /\ pc' = "connect"
    /\ UNCHANGED <<beating, queued, listed, errors, gaveUp>>

(* Create fails, or the ConfigMap is there although the cache does not list *)
(* it.                                                                      *)
CreateNodeFails ==
    /\ pc = "create"
    /\ obj.operations < DefaultMaxRetries
    /\ \/ nodes[nextIndex] # Absent /\ Conflicted
       \/ Failed
    /\ UNCHANGED <<maps, beating, queued, listed, errors, gaveUp>>

(* The retries are used up: Create or Update is not even tried.             *)
Exhausted ==
    /\ pc \in {"create", "update"}
    /\ obj.operations >= DefaultMaxRetries
    /\ pc' = "failed"
    /\ UNCHANGED <<server, maps, beating, queued, local, gaveUp, faults>>

(* SetupE2Connection, RegisterE2Node and updateNodeStatusToConnected, whose *)
(* write is refused if a heartbeat came first; the loop goes on.            *)
Connect ==
    /\ pc = "connect"
    /\ \/ /\ nodes[nextIndex].state = 1 /\ UNCHANGED faults
          /\ Change(nextIndex, [nodes[nextIndex] EXCEPT !.state = 3])
       \/ nodes[nextIndex].state # 1 /\ UNCHANGED <<maps, faults>>
       \/ Fault /\ UNCHANGED maps
    /\ listed' = listed \cup {nextIndex}
    /\ pc' = IF Cardinality(listed') < obj.replicas THEN "create" ELSE "success"
    /\ UNCHANGED <<server, beating, queued, obj, fresh, errors, gaveUp>>

(* One of the two E2Manager calls fails: the ConfigMap stays.               *)
ConnectFails ==
    /\ pc = "connect"
    /\ Fault
    /\ pc' = "failed"
    /\ UNCHANGED <<server, maps, beating, queued, local, gaveUp>>

-----------------------------------------------------------------------------
(* scaleDownE2Nodes.                                                        *)

(* The highest index goes first.  The error of DeregisterE2Node is only     *)
(* logged, and a ConfigMap that is not found counts as deleted.             *)
DeleteNode ==
    LET i == Max(listed)
    IN  /\ pc = "shrink"
        /\ \/ nodes[i] = Absent /\ UNCHANGED maps
           \/ nodes[i] # Absent /\ Change(i, Absent)
        /\ listed' = listed \ {i}
        /\ pc' = IF Cardinality(listed') > obj.replicas
                 THEN "shrink" ELSE "success"
        /\ UNCHANGED <<server, beating, queued, obj, fresh, errors, gaveUp,
                       faults>>

DeleteNodeFails ==
    /\ pc = "shrink"
    /\ \/ obj.operations < DefaultMaxRetries /\ Failed
       \/ /\ obj.operations >= DefaultMaxRetries /\ Fault
          /\ pc' = "failed" /\ UNCHANGED <<server, obj, fresh>>
    /\ UNCHANGED <<maps, beating, queued, listed, errors, gaveUp>>

-----------------------------------------------------------------------------
(* updateE2Nodes.  The new ConfigMap keeps the status of the old one, but   *)
(* buildE2NodeConfigMap gives it no owner reference.                        *)

\* An update that writes the status of a new node.
UpdatedResetting(cm) == [state |-> 1, config |-> obj.config, owned |-> FALSE]

Updated(cm) == [state |-> cm.state, config |-> obj.config, owned |-> FALSE]

UpdateNode ==
    /\ pc = "update"
    /\ obj.operations < DefaultMaxRetries
    /\ LET i == Min(listed)
       IN  \/ /\ i \in current
              /\ Change(i, Updated(nodes[i]))
              /\ SaveMeta([obj EXCEPT !.operations = 0])
              /\ listed' = listed \ {i}
              /\ pc' = IF listed' = {} THEN "success" ELSE "update"
           \/ /\ \/ i \notin current /\ Conflicted
                 \/ Failed
              /\ UNCHANGED <<maps, listed>>
    /\ UNCHANGED <<beating, queued, errors, gaveUp>>

-----------------------------------------------------------------------------
(* The end of Reconcile.                                                    *)

(* Both counters are cleared, the error of Update is ignored.               *)
ClearRetries ==
    /\ pc = "success"
    /\ SaveMeta([obj EXCEPT !.operations = 0, !.provisioning = 0])
    /\ pc' = "status"
    /\ UNCHANGED <<maps, beating, queued, listed, errors, gaveUp>>

(* updateE2NodeSetStatus writes counts and a time, in seconds, to the       *)
(* cached object: a new version that obj does not have.                     *)
NewStatus ==
    /\ cacheFresh /\ api.exists
    /\ cacheFresh' = FALSE /\ fresh' = FALSE
    /\ UNCHANGED <<api, cache>>

UpdateStatus ==
    /\ pc = "status"
    /\ NewStatus \/ UNCHANGED <<server, fresh>>
    /\ pc' = "ready"
    /\ UNCHANGED <<maps, beating, queued, obj, listed, errors, gaveUp,
                   faults>>

(* setReadyCondition alone, its error ignored.                              *)
SaveReady(r) ==
    \/ fresh /\ Accepted([api EXCEPT !.ready = r]) /\ UNCHANGED faults
    \/ fresh /\ Fault /\ Refused(obj)
    \/ ~fresh /\ Refused(obj) /\ UNCHANGED faults

(* setReadyCondition(True) and go simulateHeartbeats.                       *)
SetReady ==
    /\ pc = "ready"
    /\ SaveReady(TRUE)
    /\ beating' = TRUE /\ pc' = "return"
    /\ UNCHANGED <<maps, queued, listed, errors, gaveUp>>

(* reconcileE2Nodes has failed: one more on the e2-provisioning counter and *)
(* Ready=False, or, at the limit, Ready=False alone.                        *)
ReportFailure ==
    \/ /\ obj.provisioning < DefaultMaxRetries
       /\ Save([obj EXCEPT !.provisioning = @ + 1], FALSE)
    \/ obj.provisioning >= DefaultMaxRetries /\ SaveReady(FALSE)

\* An error path that counts on its own writes to queue the set again.
ReturnErrorSilent ==
    /\ pc = "failed"
    /\ ReportFailure
    /\ pc' = "return"
    /\ UNCHANGED <<maps, beating, queued, listed, errors, gaveUp>>

(* Either way the set is queued again, after a back-off.                    *)
ReturnError ==
    /\ pc = "failed"
    /\ ReportFailure
    /\ pc' = "return" /\ queued' = TRUE
    /\ UNCHANGED <<maps, beating, listed, errors, gaveUp>>

(* Reconcile's variables go out of scope.                                   *)
Return ==
    /\ pc = "return" /\ pc' = "idle"
    /\ obj' = NewSet(0) /\ fresh' = FALSE
    /\ listed' = {} /\ current' = {} /\ errors' = FALSE
    /\ UNCHANGED <<server, nodes, cmCache, pending, beating, queued, gaveUp,
                   faults>>

(* A beat of simulateHeartbeats for one node.  Pending becomes Initializing,*)
(* and that Connected; the count and the time are written in any state, so  *)
(* every beat makes a new version.  It is refused unless the cached copy is *)
(* current.                                                                 *)
Beaten(cm) == IF cm.state < 3 THEN [cm EXCEPT !.state = @ + 1] ELSE cm

Heartbeat ==
    /\ beating
    /\ \E i \in Present(cmCache) :
          /\ \A k \in DOMAIN pending : pending[k] # i
          /\ Change(i, Beaten(cmCache[i]))
    /\ UNCHANGED <<server, beating, queued, pc, local, gaveUp, faults>>

(* updateE2NodeSetStatus at the end of a beat.                              *)
HeartbeatStatus ==
    /\ beating /\ NewStatus
    /\ UNCHANGED <<maps, beating, queued, pc, obj, listed, errors, gaveUp,
                   faults>>

-----------------------------------------------------------------------------
(* handleDeletion.  A failed list is logged and taken for an empty one; the *)
(* E2Manager is not told.                                                   *)

purgeStep(left, failed) ==
    IF left # {} THEN "purge" ELSE IF failed THEN "unpurged" ELSE "release"

ListForDeletion ==
    /\ pc = "listDeleted"
    /\ \/ listed' = Present(cmCache) /\ UNCHANGED <<gaveUp, faults>>
       \/ Fault /\ listed' = {} /\ gaveUp' = TRUE
    /\ pc' = purgeStep(listed', FALSE)
    /\ UNCHANGED <<server, maps, beating, queued, obj, fresh, errors>>

\* A clean-up whose failed deletes are only logged.
PurgeIgnoringErrors ==
    /\ pc = "purge"
    /\ LET i == Min(listed)
       IN  /\ listed' = listed \ {i}
           /\ \/ nodes[i] = Absent /\ UNCHANGED <<maps, faults>>
              \/ nodes[i] # Absent /\ Change(i, Absent) /\ UNCHANGED faults
              \/ Fault /\ UNCHANGED maps
    /\ pc' = purgeStep(listed', FALSE)
    /\ UNCHANGED <<server, beating, queued, obj, fresh, errors, gaveUp>>

Purge ==
    /\ pc = "purge"
    /\ LET i == Min(listed)
       IN  /\ listed' = listed \ {i}
           /\ \/ nodes[i] = Absent /\ UNCHANGED <<maps, errors, faults>>
              \/ /\ nodes[i] # Absent /\ Change(i, Absent)
                 /\ UNCHANGED <<errors, faults>>
              \/ Fault /\ errors' = TRUE /\ UNCHANGED maps
    /\ pc' = purgeStep(listed', errors')
    /\ UNCHANGED <<server, beating, queued, obj, fresh, gaveUp>>

(* Some deletes failed: one more on the cleanup counter and an error, or,   *)
(* at the limit, Ready=False and on to the finalizer.                       *)
CleanupFailed ==
    /\ pc = "unpurged"
    /\ \/ /\ obj.cleanup < DefaultMaxRetries
          /\ Save([obj EXCEPT !.cleanup = @ + 1], FALSE)
          /\ pc' = "return" /\ queued' = TRUE /\ UNCHANGED gaveUp
       \/ /\ obj.cleanup >= DefaultMaxRetries
          /\ IF fresh THEN Accepted([api EXCEPT !.ready = FALSE])
                      ELSE Refused(obj)
          /\ pc' = "release" /\ gaveUp' = TRUE /\ UNCHANGED <<queued, faults>>
    /\ UNCHANGED <<maps, beating, listed, errors>>

(* The finalizer is removed and the API server drops the set; a refused     *)
(* Update is returned as an error.                                          *)
Release ==
    /\ pc = "release"
    /\ \/ /\ fresh
          /\ Accepted([WithMeta(obj) EXCEPT !.finalizer = FALSE,
                                            !.exists = FALSE, !.cleanup = 0])
          /\ UNCHANGED <<queued, faults>>
       \/ /\ \/ ~fresh /\ UNCHANGED faults
             \/ Fault
          /\ Refused(obj) /\ queued' = TRUE
    /\ pc' = "return"
    /\ UNCHANGED <<maps, beating, listed, errors, gaveUp>>

-----------------------------------------------------------------------------
Reconciling ==
    \/ AddFinalizer \/ ListNodes
    \/ CreateNode \/ CreateNodeFails \/ Exhausted
    \/ Connect \/ ConnectFails \/ DeleteNode \/ DeleteNodeFails
    \/ UpdateNode
    \/ ClearRetries \/ UpdateStatus \/ SetReady \/ ReturnError \/ Return
    \/ ListForDeletion \/ Purge \/ CleanupFailed \/ Release
Worker == Read \/ Reconciling
Beat == Heartbeat \/ HeartbeatStatus
Environment == SetEvent \/ ConfigMapEvent \/ UserEdit \/ UserDelete \/ Crash

Next == Worker \/ Beat \/ Environment

Spec == Init /\ [][Next]_vars

(* Init and Next, with the history variable.                                *)
InitCalm == Init /\ calm = FALSE
NextCalm ==
    \/ Read /\ calm' = (cacheFresh /\ pending = <<>>)
    \/ Beat /\ calm' = FALSE
    \/ (Reconciling \/ Environment) /\ calm' = (calm /\ pc' # "idle")

(* The worker goroutine and the informers run.  The strong fairness says    *)
(* that the informer does not for ever lose the race against the next       *)
(* Reconcile: requeues after an error back off.                             *)
FairSpec ==
    /\ InitCalm /\ [][NextCalm]_<<vars, calm>>
    /\ WF_vars(Worker) /\ WF_vars(SetEvent) /\ WF_vars(ConfigMapEvent)
    /\ SF_vars(pc = "idle" /\ SetEvent)

-----------------------------------------------------------------------------
(* As long as a node's ConfigMap lives, its lifecycle state never goes back *)
(* and its configuration never returns to an older one, whichever of        *)
(* Reconcile and the heartbeats writes last.                                *)
NodesMoveForward ==
    [][\A i \in Present(nodes) \cap Present(nodes') :
          /\ nodes[i].state <= nodes'[i].state
          /\ nodes[i].config <= nodes'[i].config]_vars

(* When the finalizer is gone, every ConfigMap that is left still has its   *)
(* owner reference, so that the garbage collector takes it; except where    *)
(* handleDeletion let go on purpose.                                        *)
NothingOrphaned ==
    ~api.exists /\ ~gaveUp => \A i \in Present(nodes) : nodes[i].owned

(* The beats do not get in the way of every Reconcile.  Nothing in the code *)
(* sees to this: with one more goroutine after each success, it is up to    *)
(* the ten seconds between beats.  It is the premise of the property below  *)
(* and no part of the fairness.                                             *)
SomeUndisturbed == []<>(pc # "idle") => []<>(pc = "return" /\ calm)

Converged ==
    /\ Cardinality(Present(nodes)) = api.replicas
    /\ \A i \in Present(nodes) : nodes[i].config = api.config

(* With finitely many faults, and a Reconcile that the heartbeats leave     *)
(* undisturbed now and then, a deletion ends, and a set that is not deleted *)
(* gets the nodes its spec asks for, in the configuration it asks for, or   *)
(* has its retries used up and says so by Ready=False.                      *)
SettlesOrReports ==
    SomeUndisturbed =>
    <>[](\/ ~api.exists
         \/ /\ ~api.deleting
            /\ \/ Converged
               \/ api.operations = DefaultMaxRetries /\ ~api.ready)

(* What the finalizer promises without that premise, which the code does    *)
(* not keep: a status write of a heartbeat between the read and the removal *)
(* of the finalizer has that removal refused, every time.                   *)
DeletionEnds == api.deleting ~> ~api.exists

(* What the comment "Long delay before retry" promises: the failed          *)
(* operation is tried again, so once the faults are over the set converges. *)
Converges == <>[](api.deleting \/ ~api.exists \/ Converged)
=============================================================================
