------------------------------ MODULE ScalingXApp ------------------------------
(***************************************************************************)
(* The scaling xApp (deployments/xapps/scaling-xapp/main.go): it polls the *)
(* A1 Mediator for scaling policies (type 100) and traffic-steering        *)
(* policies (type 20008), sets the replicas of Deployments, and writes the *)
(* enforcement status of every policy to Redis.                            *)
(*                                                                         *)
(* The xApp is one thread; every remote call is an action of its own, so   *)
(* policies, Deployments and Redis keys may change between any two calls.  *)
(* The A1 Mediator, the Kubernetes API and Redis are modelled from how     *)
(* main.go uses them.                                                      *)
(***************************************************************************)
EXTENDS Integers

CONSTANTS
  ScalingIds,    \* ids of policies of type 100
  TsIds,         \* ids of policies of type 20008
  Deployments,   \* Deployments the policies may name
  Replicas,      \* replica counts
  Thresholds,    \* thresholds traffic-steering policies may carry
  None,          \* no policy, no Deployment, no key
  Failures       \* the failures the environment may inject, see below

Policies == ScalingIds \cup TsIds
Specs    == [target : Deployments, replicas : Replicas]

(***************************************************************************)
(* "a1"       a call to the A1 Mediator fails, or its body does not parse  *)
(* "k8s"      a call to the Kubernetes API fails, before or after it acted *)
(* "redis"    a write to Redis fails                                       *)
(* "expire"   a Redis key that is not renewed reaches its 24 h TTL         *)
(* "restart"  the xApp is killed and started again                         *)
(***************************************************************************)
ASSUME XAppAssumption ==
  /\ Replicas \subseteq Nat
  /\ Thresholds \subseteq Int
  /\ None \notin Replicas \cup Thresholds \cup Specs
  /\ ScalingIds \cap TsIds = {}
  /\ Failures \subseteq {"a1", "k8s", "redis", "expire", "restart"}

VARIABLES
  scaling,      \* policies of type 100 at the A1 Mediator
  ts,           \* thresholds of the policies of type 20008 at the A1 Mediator
  deployments,  \* replicas of each Deployment
  status,       \* Redis: policy:status:<type>:<id>
  tsData,       \* Redis: ts:policy:<id>, the threshold in it
  tsCache,      \* x.tsCache
  pc,           \* where the poll is
  todo,         \* policies of the list still to be executed
  listed,       \* policyIDs of pollTSPolicies
  cur,          \* policyID
  spec,         \* the ScalingSpec of executeScalingPolicy
  threshold,    \* threshold of executeTSPolicy
  fresh,        \* nobody changed the Deployment since scaleDeployment read it
                \* (its resourceVersion is current)
  enforced,     \* the verdict about to be reported
  settled       \* the environment has stopped changing things and failing

outside  == <<scaling, ts, deployments, settled>>
redis    == <<status, tsData>>
xappVars == <<outside, redis, tsCache, pc, todo, listed, cur, spec, threshold, fresh, enforced>>

XAppInit ==
  /\ scaling = [p \in ScalingIds |-> None]
  /\ ts = [p \in TsIds |-> None]
  /\ deployments \in [Deployments -> Replicas \cup {None}]
  /\ status = [p \in Policies |-> None]
  /\ tsData = [p \in TsIds |-> None]
  /\ tsCache = [p \in TsIds |-> None]
  /\ pc = "list100"
  /\ todo = {}
  /\ listed = {}
  /\ cur = None
  /\ spec = None
  /\ threshold = None
  /\ fresh = FALSE
  /\ enforced = FALSE
  /\ settled = FALSE

\* A failure of kind f can happen now.
MayFail(f) == f \in Failures /\ ~settled

\* reportPolicyStatus is next, with this verdict.
Verdict(v) == enforced' = v /\ pc' = "report"

-----------------------------------------------------------------------------
(* pollScalingPolicies.                                                    *)

\* listPolicies("100").
ListScaling ==
  /\ pc = "list100"
  /\ todo' = {p \in ScalingIds : scaling[p] # None}
  /\ pc' = "next100"
  /\ UNCHANGED <<outside, redis, tsCache, listed, cur, spec, threshold, fresh, enforced>>

ListScalingFails ==
  /\ MayFail("a1")
  /\ pc = "list100"
  /\ pc' = "list20008"
  /\ UNCHANGED <<outside, redis, tsCache, todo, listed, cur, spec, threshold, fresh, enforced>>
\* Mutant of GetScaling: a policy whose status is ENFORCED is not executed again.
GetScalingOnce(p) ==
  /\ pc = "next100"
  /\ p \in todo
  /\ todo' = todo \ {p}
  /\ IF scaling[p] # None /\ status[p] # "ENFORCED"
       THEN cur' = p /\ spec' = scaling[p] /\ pc' = "scale"
       ELSE UNCHANGED <<cur, spec, pc>>
  /\ UNCHANGED <<outside, redis, tsCache, listed, threshold, fresh, enforced>>

\* executeScalingPolicy, getPolicy("100", p): the policy may be gone by now.
GetScaling(p) ==
  /\ pc = "next100"
  /\ p \in todo
  /\ todo' = todo \ {p}
  /\ \/ /\ scaling[p] # None
        /\ cur' = p
        /\ spec' = scaling[p]
        /\ pc' = "scale"
     \/ /\ scaling[p] = None \/ MayFail("a1")
        /\ UNCHANGED <<cur, spec, pc>>
  /\ UNCHANGED <<outside, redis, tsCache, listed, threshold, fresh, enforced>>

ScalingDone ==
  /\ pc = "next100"
  /\ todo = {}
  /\ pc' = "list20008"
  /\ UNCHANGED <<outside, redis, tsCache, todo, listed, cur, spec, threshold, fresh, enforced>>

\* scaleDeployment: read the Deployment and compare.
GetDeployment ==
  /\ pc = "scale"
  /\ fresh' = TRUE
  /\ IF deployments[spec.target] = None THEN Verdict(FALSE)
     ELSE IF deployments[spec.target] = spec.replicas THEN Verdict(TRUE)
     ELSE pc' = "update" /\ UNCHANGED enforced
  /\ UNCHANGED <<outside, redis, tsCache, todo, listed, cur, spec, threshold>>

\* Mutant of UpdateDeployment: a refused update is taken for a success.
UpdateDeploymentIgnoresConflict ==
  /\ pc = "update"
  /\ IF fresh
       THEN deployments' = [deployments EXCEPT ![spec.target] = spec.replicas]
       ELSE UNCHANGED deployments
  /\ Verdict(TRUE)
  /\ UNCHANGED <<scaling, ts, settled, redis, tsCache, todo, listed, cur, spec, threshold, fresh>>

\* ... then update it.  The API server refuses the update of an object that was
\* changed, deleted or replaced since it was read.
UpdateDeployment ==
  /\ pc = "update"
  /\ IF fresh
       THEN deployments' = [deployments EXCEPT ![spec.target] = spec.replicas]
       ELSE UNCHANGED deployments
  /\ Verdict(fresh)
  /\ UNCHANGED <<scaling, ts, settled, redis, tsCache, todo, listed, cur, spec, threshold, fresh>>

\* Either call fails; a failed update may have been done all the same.
DeploymentCallFails ==
  /\ MayFail("k8s")
  /\ pc \in {"scale", "update"}
  /\ \/ UNCHANGED deployments
     \/ /\ pc = "update" /\ fresh
        /\ deployments' = [deployments EXCEPT ![spec.target] = spec.replicas]
  /\ Verdict(FALSE)
  /\ UNCHANGED <<scaling, ts, settled, redis, tsCache, todo, listed, cur, spec, threshold, fresh>>

-----------------------------------------------------------------------------
(* reportPolicyStatus, for both policy types.                              *)

Resume == pc' = IF cur \in ScalingIds THEN "next100" ELSE "next20008"

Report ==
  /\ pc = "report"
  /\ status' = [status EXCEPT ![cur] = IF enforced THEN "ENFORCED" ELSE "NOT_ENFORCED"]
  /\ Resume
  /\ UNCHANGED <<outside, tsData, tsCache, todo, listed, cur, spec, threshold, fresh, enforced>>

\* The write fails: logged.
ReportFails ==
  /\ MayFail("redis")
  /\ pc = "report"
  /\ Resume
  /\ UNCHANGED <<outside, redis, tsCache, todo, listed, cur, spec, threshold, fresh, enforced>>

-----------------------------------------------------------------------------
(* pollTSPolicies.                                                         *)

\* listPolicies("20008").
ListTs ==
  /\ pc = "list20008"
  /\ listed' = {p \in TsIds : ts[p] # None}
  /\ todo' = listed'
  /\ pc' = "next20008"
  /\ UNCHANGED <<outside, redis, tsCache, cur, spec, threshold, fresh, enforced>>

\* The list fails: nothing is evicted either.
ListTsFails ==
  /\ MayFail("a1")
  /\ pc = "list20008"
  /\ pc' = "idle"
  /\ UNCHANGED <<outside, redis, tsCache, todo, listed, cur, spec, threshold, fresh, enforced>>

Valid(t) == t >= 0 /\ t <= 100
\* executeTSPolicy up to the cache: an invalid threshold is reported, an unchanged one
\* is skipped, any other is cached before it is applied.
GetTs(p) ==
  /\ pc = "next20008"
  /\ p \in todo
  /\ todo' = todo \ {p}
  /\ \/ /\ ts[p] # None
        /\ cur' = p
        /\ threshold' = ts[p]
        /\ IF ~Valid(ts[p])
             THEN Verdict(FALSE) /\ UNCHANGED tsCache
             ELSE /\ UNCHANGED enforced
                  /\ IF tsCache[p] = ts[p]
                       THEN UNCHANGED <<pc, tsCache>>
                       ELSE /\ tsCache' = [tsCache EXCEPT ![p] = ts[p]]
                            /\ pc' = "write"
     \/ /\ ts[p] = None \/ MayFail("a1")
        /\ UNCHANGED <<cur, threshold, pc, enforced, tsCache>>
  /\ UNCHANGED <<outside, redis, listed, spec, fresh>>
\* executeTSPolicy: the data key; a failed write is a warning.
WriteTsData ==
  /\ pc = "write"
  /\ \/ tsData' = [tsData EXCEPT ![cur] = threshold]
     \/ MayFail("redis") /\ UNCHANGED tsData
  /\ Verdict(TRUE)
  /\ UNCHANGED <<outside, status, tsCache, todo, listed, cur, spec, threshold, fresh>>
\* Mutant of EvictDeleted: nothing is evicted.
EvictNothing ==
  /\ pc = "next20008"
  /\ todo = {}
  /\ pc' = "idle"
  /\ UNCHANGED <<outside, redis, tsCache, todo, listed, cur, spec, threshold, fresh, enforced>>

\* The end of pollTSPolicies: policies that were not listed leave the cache.
EvictDeleted ==
  /\ pc = "next20008"
  /\ todo = {}
  /\ tsCache' = [p \in TsIds |-> IF p \in listed THEN tsCache[p] ELSE None]
  /\ pc' = "idle"
  /\ UNCHANGED <<outside, redis, todo, listed, cur, spec, threshold, fresh, enforced>>

-----------------------------------------------------------------------------

\* The ticker starts the next poll.
Tick ==
  /\ pc = "idle"
  /\ pc' = "list100"
  /\ UNCHANGED <<outside, redis, tsCache, todo, listed, cur, spec, threshold, fresh, enforced>>

\* A new process starts with an empty cache and polls at once.
RestartXApp ==
  /\ MayFail("restart")
  /\ tsCache' = [p \in TsIds |-> None]
  /\ pc' = "list100"
  /\ todo' = {}
  /\ listed' = {}
  /\ cur' = None
  /\ spec' = None
  /\ threshold' = None
  /\ fresh' = FALSE
  /\ enforced' = FALSE
  /\ UNCHANGED <<outside, redis>>

-----------------------------------------------------------------------------
(* The environment.                                                        *)

xapp == <<tsCache, pc, todo, listed, cur, spec, threshold, enforced>>

\* The A1 Mediator accepts, changes or deletes a policy.
PutScaling(p) ==
  /\ ~settled
  /\ \E s \in Specs \cup {None} : scaling' = [scaling EXCEPT ![p] = s]
  /\ UNCHANGED <<ts, deployments, settled, redis, xapp, fresh>>

PutTs(p) ==
  /\ ~settled
  /\ \E t \in Thresholds \cup {None} : ts' = [ts EXCEPT ![p] = t]
  /\ UNCHANGED <<scaling, deployments, settled, redis, xapp, fresh>>

\* Somebody else scales, creates, deletes or otherwise changes a Deployment.
OthersChange(d) ==
  /\ ~settled
  /\ \E n \in Replicas \cup {None} : deployments' = [deployments EXCEPT ![d] = n]
  /\ fresh' = IF spec # None /\ spec.target = d THEN FALSE ELSE fresh
  /\ UNCHANGED <<scaling, ts, settled, redis, xapp>>

\* Keys expire 24 hours after they were written; a key that every poll writes does not.
\* That goes on for ever, also when the rest of the environment is quiet.
ExpireTs(p) ==
  /\ "expire" \in Failures
  /\ pc = "idle"
  /\ \/ status' = [status EXCEPT ![p] = None] /\ UNCHANGED tsData
     \/ tsData' = [tsData EXCEPT ![p] = None] /\ UNCHANGED status
  /\ UNCHANGED <<outside, xapp, fresh>>

Settle ==
  /\ ~settled
  /\ settled' = TRUE
  /\ UNCHANGED <<scaling, ts, deployments, redis, xapp, fresh>>

-----------------------------------------------------------------------------

Poll ==
  \/ ListScaling \/ ListScalingFails \/ ScalingDone
  \/ \E p \in ScalingIds : GetScaling(p)
  \/ GetDeployment \/ UpdateDeployment \/ DeploymentCallFails
  \/ Report \/ ReportFails
  \/ ListTs \/ ListTsFails \/ WriteTsData \/ EvictDeleted
  \/ \E p \in TsIds : GetTs(p)
  \/ Tick

Environment ==
  \/ \E p \in ScalingIds : PutScaling(p)
  \/ \E p \in TsIds : PutTs(p) \/ ExpireTs(p)
  \/ \E d \in Deployments : OthersChange(d)
  \/ Settle

XAppNext == Poll \/ RestartXApp \/ Environment

XAppSpec == XAppInit /\ [][XAppNext]_xappVars

\* Every call returns and the ticker ticks.  The calls to the A1 Mediator and to Redis have
\* time-outs; those to the Kubernetes API have none of their own (main.go passes a context
\* without a deadline), so that they return is an assumption about the API server.
XAppFairSpec == XAppSpec /\ WF_xappVars(Poll)

-----------------------------------------------------------------------------
(* Properties.                                                             *)

\* Type correctness of the xApp and of what it reads and writes.
XAppTypeOK ==
  /\ scaling \in [ScalingIds -> Specs \cup {None}]
  /\ ts \in [TsIds -> Thresholds \cup {None}]
  /\ deployments \in [Deployments -> Replicas \cup {None}]
  /\ status \in [Policies -> {"ENFORCED", "NOT_ENFORCED", None}]
  /\ tsData \in [TsIds -> Thresholds \cup {None}]
  /\ tsCache \in [TsIds -> {t \in Thresholds : Valid(t)} \cup {None}]
  /\ pc \in {"list100", "next100", "scale", "update", "report", "list20008",
             "next20008", "write", "idle"}
  /\ todo \subseteq Policies
  /\ listed \subseteq TsIds
  /\ cur \in Policies \cup {None}
  /\ spec \in Specs \cup {None}
  /\ threshold \in Thresholds \cup {None}
  /\ fresh \in BOOLEAN
  /\ enforced \in BOOLEAN
  /\ settled \in BOOLEAN

\* No false ENFORCED: whenever executeScalingPolicy comes to the verdict that a policy is
\* enforced, its Deployment has the replicas of the policy at that moment.  So a call
\* that failed, an update that was refused because somebody changed the Deployment after
\* it was read, and a Deployment that is gone are never reported as enforced.
EnforcedIsScaled ==
  [][(pc # "report" /\ pc' = "report" /\ enforced' /\ cur' \in ScalingIds)
       => deployments'[spec'.target] = spec'.replicas]_xappVars

\* "Evict deleted policies from dedup cache": once policies stop changing, the cache
\* holds listed policies only.
CacheEvicted == settled ~> (\A p \in TsIds : ts[p] = None => tsCache[p] = None)

\* Reconciliation: once the environment is quiet, the status of a scaling policy no other
\* policy competes with tells whether it is enforced, and it is if its Deployment exists
\* (pollScalingPolicies repeats what failed).
Alone(p) ==
  /\ scaling[p] # None
  /\ \A q \in ScalingIds \ {p} : scaling[q] # None => scaling[q].target # scaling[p].target
ScalingSettled(p) ==
  /\ scaling[p] # None
  /\ IF deployments[scaling[p].target] = None
       THEN status[p] = "NOT_ENFORCED"
       ELSE status[p] = "ENFORCED" /\ deployments[scaling[p].target] = scaling[p].replicas
ScalingConverges == \A p \in ScalingIds : (settled /\ Alone(p)) ~> ScalingSettled(p)

\* The same for traffic steering: "Report ENFORCED to A1 Mediator (via Redis status key)"
\* for a valid threshold, NOT_ENFORCED for an invalid one.
TsSettled(p) ==
  /\ ts[p] # None
  /\ status[p] = IF Valid(ts[p]) THEN "ENFORCED" ELSE "NOT_ENFORCED"
TsConverges == \A p \in TsIds : (settled /\ ts[p] # None) ~> TsSettled(p)
================================================================================
