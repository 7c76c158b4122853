---------------------------- MODULE IntentPipeline ----------------------------
(***************************************************************************)
(* intentd v2 (intentd/app_v2.py): the request handlers, the bounded       *)
(* thread pool and the background pipeline                                 *)
(*   plan -> validate -> generate -> git push -> Porch -> RepoSync ->      *)
(*   ConfigSync check -> done -> clean up                                  *)
(* of every intent, with the store (store.py) and the cluster objects it   *)
(* creates (porch/client.py, configsync/client.py).                        *)
(*                                                                         *)
(* A store transition is one atomic step and survives a crash: that is     *)
(* what IntentStore proves of the store.  Each remote call that changes    *)
(* the cluster is a step of its own, so that the process may die, another  *)
(* worker may run or a client may DELETE between any two of them.          *)
(***************************************************************************)
EXTENDS IntentStates, FiniteSets

CONSTANTS
  Ids,             \* intents
  PlanIds,         \* the intentId a plan carries; names branch, draft and RepoSync
  Workers,         \* max_workers of the ThreadPoolExecutor
  MaxCrashes,      \* bound: how often the process is killed
  MaxDeletes,      \* bound: DELETE requests that find their intent
  Failures         \* the failures the environment may inject, see below

(***************************************************************************)
(* "stage"      planner, validator, generator or git raise                 *)
(* "porch"      a Porch call raises                                        *)
(* "configsync" a call that lists or creates cluster objects is refused    *)
(* "lostreply"  a create call takes effect, its reply is lost, it raises   *)
(* "delete"     a delete call of the clean-up is refused                   *)
(* "append"     store.create or store.transition raises after it changed   *)
(*              the record; such a change is not durable, so it is not     *)
(*              combined with crashes                                      *)
(* "silent"     an exception with an empty text: {"error": ""}             *)
(***************************************************************************)
FailureKinds == {"stage", "porch", "configsync", "lostreply", "delete", "append", "silent"}

ASSUME PipelineAssumption ==
  /\ Workers \in Nat \ {0}
  /\ MaxCrashes \in Nat
  /\ MaxDeletes \in Nat
  /\ Failures \subseteq FailureKinds
  /\ "nobody" \notin PlanIds
  /\ "append" \in Failures => MaxCrashes = 0

NoPlan == "nobody"

VARIABLES
  proc,         \* "up", "draining" (lifespan shutdown) or "down"
  crashes,      \* times the process was killed
  state,        \* rec["state"]; "none" before the intent exists
  dry,          \* req.dry_run
  plan,         \* rec["plan"]["intentId"]
  rec,          \* the fields porch, reposync and configsync of the record
  submitting,   \* create_intent handlers between store.create and submit
  deleting,     \* delete_intent handlers: the state read by store.get, or "none"
  deletes,      \* DELETE requests so far
  reply,        \* what the last DELETE answered: "200", "500", or the state a 409 names
  queue,        \* work queue of the executor
  pc,           \* where the worker of an intent is
  loc,          \* porch_data and reposync_data of the worker
  active,       \* pm.active_intents
  finished,     \* pm.intent_completed, by result
  started,      \* jobs this process has started (history variable)
  inSync,       \* intents whose commit was live in the cluster when the worker looked
                \* (history variable)
  branches,     \* plans whose branch is on the Git server
  drafts,       \* lifecycle of the PackageRevision of a plan
  repoSyncs,    \* plans that have a RepoSync in the cluster
  roleBindings, \* plans that have its RoleBinding
  leaked        \* RepoSyncs that nobody knows of: the reply to the create was lost, the
                \* delete was refused, or the process was killed (history variable)

requests == <<submitting, deleting, deletes, reply>>
record   == <<state, dry, plan, rec, inSync>>
pool     == <<queue, pc, loc>>
metrics  == <<active, finished, started>>
cluster  == <<branches, drafts, repoSyncs, roleBindings, leaked>>
vars     == <<proc, crashes, record, requests, pool, metrics, cluster>>

Idle  == {"idle", "done"}
Steps == {"begin", "plan", "validate", "generate", "dry", "push", "draft", "upload",
          "propose", "rslist", "rsbind", "rscreate", "proposed", "status", "complete",
          "failing", "cleanup", "unbind"}

Outcomes == {"none", "ok", "error", "silent"}
NoData   == [porch |-> "none", reposync |-> "none", configsync |-> "none"]

Init ==
  /\ proc = "up"
  /\ crashes = 0
  /\ state = [i \in Ids |-> "none"]
  /\ dry = [i \in Ids |-> FALSE]
  /\ plan = [i \in Ids |-> NoPlan]
  /\ rec = [i \in Ids |-> NoData]
  /\ submitting = {}
  /\ deleting = [i \in Ids |-> "none"]
  /\ deletes = 0
  /\ reply = [i \in Ids |-> "none"]
  /\ queue = <<>>
  /\ pc = [i \in Ids |-> "idle"]
  /\ loc = [i \in Ids |-> NoData]
  /\ active = 0
  /\ finished = [completed |-> 0, failed |-> 0]
  /\ started = 0
  /\ inSync = {}
  /\ branches = {}
  /\ drafts = [p \in PlanIds |-> "none"]
  /\ repoSyncs = {}
  /\ roleBindings = {}
  /\ leaked = {}

-----------------------------------------------------------------------------
(* Request handlers.                                                       *)

\* create_intent: the record first; when its append raises, the POST is answered with
\* 500 and submits nothing, while the record stays ...
CreateIntent(i) ==
  /\ proc = "up"
  /\ state[i] = "none"
  /\ state' = [state EXCEPT ![i] = "acknowledged"]
  /\ \E d \in BOOLEAN : dry' = [dry EXCEPT ![i] = d]
  /\ \/ submitting' = submitting \cup {i}
     \/ "append" \in Failures /\ UNCHANGED submitting
  /\ UNCHANGED <<proc, crashes, plan, rec, inSync, deleting, deletes, reply, pool, metrics, cluster>>

\* ... then the executor.
Submit(i) ==
  /\ i \in submitting
  /\ submitting' = submitting \ {i}
  /\ queue' = Append(queue, i)
  /\ UNCHANGED <<proc, crashes, record, deleting, deletes, reply, pc, loc, metrics, cluster>>

\* delete_intent: store.get, which releases the store lock ...
DeleteGet(i) ==
  /\ proc = "up"
  /\ state[i] # "none"
  /\ deleting[i] = "none"
  /\ deletes < MaxDeletes
  /\ deletes' = deletes + 1
  /\ deleting' = [deleting EXCEPT ![i] = state[i]]
  /\ UNCHANGED <<proc, crashes, record, submitting, reply, pool, metrics, cluster>>

\* ... then store.cancel: 200 (500 when its append raises), or 409 with the state that
\* was read before.
DeleteCancel(i) ==
  /\ deleting[i] # "none"
  /\ deleting' = [deleting EXCEPT ![i] = "none"]
  /\ IF "cancelled" \in Forward[state[i]]
       THEN /\ state' = [state EXCEPT ![i] = "cancelled"]
            /\ \E r \in {"200"} \cup (IF "append" \in Failures THEN {"500"} ELSE {}) :
                 reply' = [reply EXCEPT ![i] = r]
       ELSE /\ reply' = [reply EXCEPT ![i] = deleting[i]]
            /\ UNCHANGED state
  /\ UNCHANGED <<proc, crashes, dry, plan, rec, inSync, submitting, deletes, pool, metrics, cluster>>

-----------------------------------------------------------------------------
(* The pipeline of one intent.                                             *)

\* A worker thread takes the oldest job and raises the gauge.
Dequeue(i) ==
  /\ queue # <<>>
  /\ i = Head(queue)
  /\ Cardinality({j \in Ids : pc[j] \notin Idle}) < Workers
  /\ queue' = Tail(queue)
  /\ pc' = [pc EXCEPT ![i] = "begin"]
  /\ active' = active + 1
  /\ started' = started + 1
  /\ UNCHANGED <<proc, crashes, record, requests, loc, finished, cluster>>

\* store.transition(i, s, data): raises InvalidTransition without effect, or stores
\* the state and the data and goes on to next; the append behind it may still raise.
Transit(i, s, data, next) ==
  IF s \in Forward[state[i]]
    THEN /\ state' = [state EXCEPT ![i] = s]
         /\ rec' = [rec EXCEPT ![i] = data]
         /\ \/ pc' = [pc EXCEPT ![i] = next]
            \/ "append" \in Failures /\ pc' = [pc EXCEPT ![i] = "failing"]
    ELSE /\ pc' = [pc EXCEPT ![i] = "failing"]
         /\ UNCHANGED <<state, rec>>

\* The metrics when a worker reports its result.
Finish(result) ==
  /\ finished' = [finished EXCEPT ![result] = @ + 1]
  /\ active' = active - 1
  /\ UNCHANGED started
\* Mutant of Begin: the state is set without asking the state machine.
BeginUnchecked(i) ==
  /\ pc[i] = "begin"
  /\ state' = [state EXCEPT ![i] = "planning"]
  /\ pc' = [pc EXCEPT ![i] = "plan"]
  /\ UNCHANGED <<proc, crashes, dry, plan, rec, inSync, requests, queue, loc, metrics, cluster>>

\* Step 1: acknowledged -> planning.  A cancelled intent fails here.
Begin(i) ==
  /\ pc[i] = "begin"
  /\ Transit(i, "planning", rec[i], "plan")
  /\ UNCHANGED <<proc, crashes, dry, plan, inSync, requests, queue, loc, metrics, cluster>>

\* The planner returns a plan with an intentId, which another plan may have (_next_seq
\* is not locked and goes round); planning -> validating.
Plan(i) ==
  /\ pc[i] = "plan"
  /\ \E p \in PlanIds : plan' = [plan EXCEPT ![i] = p]
  /\ Transit(i, "validating", rec[i], "validate")
  /\ UNCHANGED <<proc, crashes, dry, inSync, requests, queue, loc, metrics, cluster>>

\* Step 2: the plan matches its schema; validating -> generating.
Validate(i) ==
  /\ pc[i] = "validate"
  /\ Transit(i, "generating", rec[i], "generate")
  /\ UNCHANGED <<proc, crashes, dry, plan, inSync, requests, queue, loc, metrics, cluster>>

\* Mutant of Generate: a dry run goes on like any other.
GenerateIgnoresDry(i) ==
  /\ pc[i] = "generate"
  /\ Transit(i, "executing", rec[i], "push")
  /\ UNCHANGED <<proc, crashes, dry, plan, inSync, requests, queue, loc, metrics, cluster>>

\* Step 3: packages are generated and valid; generating -> executing.
Generate(i) ==
  /\ pc[i] = "generate"
  /\ Transit(i, "executing", rec[i], IF dry[i] THEN "dry" ELSE "push")
  /\ UNCHANGED <<proc, crashes, dry, plan, inSync, requests, queue, loc, metrics, cluster>>
\* Step 3b: manifest errors fail the intent without the exception handler.
ManifestErrors(i) ==
  /\ pc[i] = "generate"
  /\ Transit(i, "failed", rec[i], "done")
  /\ IF pc'[i] = "done" THEN Finish("failed") ELSE UNCHANGED metrics
  /\ UNCHANGED <<proc, crashes, dry, plan, inSync, requests, queue, loc, cluster>>

\* Dry run: the remaining transitions one after the other, nothing executed.
DryRun(i) ==
  /\ pc[i] = "dry"
  /\ LET s == CHOOSE n \in Forward[state[i]] : n # "failed"
     IN  Transit(i, s, rec[i], IF s = "completed" THEN "done" ELSE "dry")
  /\ IF pc'[i] = "done" THEN Finish("completed") ELSE UNCHANGED metrics
  /\ UNCHANGED <<proc, crashes, dry, plan, inSync, requests, queue, loc, cluster>>
\* Mutant of StageRaises: no handler; the executor keeps the exception to itself.
StageRaisesUnhandled(i) ==
  /\ "stage" \in Failures
  /\ pc[i] \in {"plan", "validate", "generate"}
  /\ pc' = [pc EXCEPT ![i] = "done"]
  /\ UNCHANGED <<proc, crashes, record, requests, queue, loc, metrics, cluster>>

\* The planner, a validator or the generator raises.
StageRaises(i) ==
  /\ "stage" \in Failures
  /\ pc[i] \in {"plan", "validate", "generate"}
  /\ pc' = [pc EXCEPT ![i] = "failing"]
  /\ UNCHANGED <<proc, crashes, record, requests, queue, loc, metrics, cluster>>

\* Step 4: push_to_gitops puts the plan's branch on the Git server ...
Push(i) ==
  /\ pc[i] = "push"
  /\ branches' = branches \cup {plan[i]}
  /\ pc' = [pc EXCEPT ![i] = "draft"]
  /\ UNCHANGED <<proc, crashes, record, requests, queue, loc, metrics, drafts,
                 repoSyncs, roleBindings, leaked>>

\* ... or raises, before or after the branch was pushed.
PushRaises(i) ==
  /\ "stage" \in Failures
  /\ pc[i] = "push"
  /\ branches' \in {branches, branches \cup {plan[i]}}
  /\ pc' = [pc EXCEPT ![i] = "failing"]
  /\ UNCHANGED <<proc, crashes, record, requests, queue, loc, metrics, drafts,
                 repoSyncs, roleBindings, leaked>>

\* Step 5: create_draft, update_resources, propose.
PorchStep(i) ==
  /\ \/ /\ pc[i] = "draft"
        /\ drafts[plan[i]] = "none"
        /\ drafts' = [drafts EXCEPT ![plan[i]] = "Draft"]
        /\ pc' = [pc EXCEPT ![i] = "upload"]
        /\ UNCHANGED loc
     \/ /\ pc[i] = "upload"
        /\ pc' = [pc EXCEPT ![i] = "propose"]
        /\ UNCHANGED <<drafts, loc>>
     \/ /\ pc[i] = "propose"
        /\ drafts' = [drafts EXCEPT ![plan[i]] = "Proposed"]
        /\ loc' = [loc EXCEPT ![i].porch = "ok"]
        /\ pc' = [pc EXCEPT ![i] = "rslist"]
  /\ UNCHANGED <<proc, crashes, record, requests, queue, metrics, branches, repoSyncs,
                 roleBindings, leaked>>

\* How an exception looks in the record: {"error": str(e)}.
Errors == IF "silent" \in Failures THEN {"error", "silent"} ELSE {"error"}

\* A Porch call raises, as a create of a package that exists does: the pipeline goes on.
PorchRaises(i) ==
  /\ pc[i] \in {"draft", "upload", "propose"}
  /\ "porch" \in Failures \/ (pc[i] = "draft" /\ drafts[plan[i]] # "none")
  /\ \E e \in Errors : loc' = [loc EXCEPT ![i].porch = e]
  /\ pc' = [pc EXCEPT ![i] = "rslist"]
  /\ UNCHANGED <<proc, crashes, record, requests, queue, metrics, cluster>>

\* Mutant of Listed: the first RepoSync of the namespace will do.
ListedAny(i) == repoSyncs # {}

\* The list holds a RepoSync with the name of this plan.
Listed(i) == plan[i] \in repoSyncs

\* Step 5b: ensure_reposync lists, creates the RoleBinding, creates the RepoSync.
RepoSyncStep(i) ==
  /\ \/ /\ pc[i] = "rslist"
        /\ Listed(i)
        /\ loc' = [loc EXCEPT ![i].reposync = "ok"]
        /\ pc' = [pc EXCEPT ![i] = "proposed"]
        /\ UNCHANGED <<repoSyncs, roleBindings>>
     \/ /\ pc[i] = "rslist"
        /\ ~Listed(i)
        /\ pc' = [pc EXCEPT ![i] = "rsbind"]
        /\ UNCHANGED <<loc, repoSyncs, roleBindings>>
     \/ /\ pc[i] = "rsbind"
        /\ roleBindings' = roleBindings \cup {plan[i]}
        /\ pc' = [pc EXCEPT ![i] = "rscreate"]
        /\ UNCHANGED <<loc, repoSyncs>>
     \/ /\ pc[i] = "rscreate"
        /\ plan[i] \notin repoSyncs
        /\ repoSyncs' = repoSyncs \cup {plan[i]}
        /\ loc' = [loc EXCEPT ![i].reposync = "ok"]
        /\ pc' = [pc EXCEPT ![i] = "proposed"]
        /\ UNCHANGED roleBindings
  /\ UNCHANGED <<proc, crashes, record, requests, queue, metrics, branches, drafts, leaked>>

\* One of these calls raises; a create of a RepoSync that exists by now (409) does.
RepoSyncRaises(i) ==
  /\ pc[i] \in {"rslist", "rsbind", "rscreate"}
  /\ "configsync" \in Failures \/ (pc[i] = "rscreate" /\ plan[i] \in repoSyncs)
  /\ \E e \in Errors : loc' = [loc EXCEPT ![i].reposync = e]
  /\ pc' = [pc EXCEPT ![i] = "proposed"]
  /\ UNCHANGED <<proc, crashes, record, requests, queue, metrics, cluster>>

\* A create call takes effect and then raises.
RepoSyncReplyLost(i) ==
  /\ "lostreply" \in Failures
  /\ \/ /\ pc[i] = "rsbind"
        /\ roleBindings' = roleBindings \cup {plan[i]}
        /\ UNCHANGED <<repoSyncs, leaked>>
     \/ /\ pc[i] = "rscreate"
        /\ plan[i] \notin repoSyncs
        /\ repoSyncs' = repoSyncs \cup {plan[i]}
        /\ leaked' = leaked \cup {plan[i]}
        /\ UNCHANGED roleBindings
  /\ \E e \in Errors : loc' = [loc EXCEPT ![i].reposync = e]
  /\ pc' = [pc EXCEPT ![i] = "proposed"]
  /\ UNCHANGED <<proc, crashes, record, requests, queue, metrics, branches, drafts>>

\* executing -> proposed, with the Porch and RepoSync results, which the worker does
\* not look at again.
Proposed(i) ==
  /\ pc[i] = "proposed"
  /\ Transit(i, "proposed", loc[i], "status")
  /\ loc' = [loc EXCEPT ![i] = NoData]
  /\ UNCHANGED <<proc, crashes, dry, plan, inSync, requests, queue, metrics, cluster>>

\* What a RootSync can report: the commit it synced, the commit of its source, whether
\* it is syncing and whether it has errors.  "mine" is the commit of this intent.
RawStatus == [sync : {"none", "mine", "other"}, source : {"none", "mine", "other"},
              syncing : BOOLEAN, errors : BOOLEAN]

\* _parse_sync_status.
Synced(raw) == raw.sync = raw.source /\ raw.sync # "none" /\ ~raw.syncing /\ ~raw.errors

\* Mutant of Delivered: any commit will do.
DeliveredAnyCommit(raw) == Synced(raw) /\ ~raw.errors

\* check_configsync_delivery, for the commit the push returned.
Delivered(raw) == Synced(raw) /\ raw.sync = "mine" /\ ~raw.errors

\* The commit of the intent is what runs in the cluster, and nothing is under way.
Live(raw) == raw = [sync |-> "mine", source |-> "mine", syncing |-> FALSE, errors |-> FALSE]

\* Step 6: read the RootSync; proposed -> applied, delivered or not.
CheckStatus(i) ==
  /\ pc[i] = "status"
  /\ \/ \E raw \in RawStatus :
          /\ Transit(i, "applied",
                     [rec[i] EXCEPT !.configsync = IF Delivered(raw) THEN "ok" ELSE "undelivered"],
                     "complete")
          /\ inSync' = IF Live(raw) THEN inSync \cup {i} ELSE inSync
     \/ /\ "configsync" \in Failures
        /\ \E e \in Errors : Transit(i, "applied", [rec[i] EXCEPT !.configsync = e], "complete")
        /\ UNCHANGED inSync
  /\ UNCHANGED <<proc, crashes, dry, plan, requests, queue, loc, metrics, cluster>>

\* Mutant of Complete: no clean-up after success.
CompleteNoCleanup(i) ==
  /\ pc[i] = "complete"
  /\ Transit(i, "completed", rec[i], "done")
  /\ IF pc'[i] = "done" THEN Finish("completed") ELSE UNCHANGED metrics
  /\ UNCHANGED <<proc, crashes, dry, plan, inSync, requests, queue, loc, cluster>>

\* Step 7: applied -> completed, then the metrics.
Complete(i) ==
  /\ pc[i] = "complete"
  /\ Transit(i, "completed", rec[i], "cleanup")
  /\ IF pc'[i] = "cleanup" THEN Finish("completed") ELSE UNCHANGED metrics
  /\ UNCHANGED <<proc, crashes, dry, plan, inSync, requests, queue, loc, cluster>>
\* Mutant of Fail: no inner try, so the metrics are skipped when FAILED is refused.
FailNoInnerTry(i) ==
  /\ pc[i] = "failing"
  /\ IF "failed" \in Forward[state[i]]
       THEN state' = [state EXCEPT ![i] = "failed"] /\ Finish("failed")
       ELSE UNCHANGED <<state, metrics>>
  /\ pc' = [pc EXCEPT ![i] = "cleanup"]
  /\ UNCHANGED <<proc, crashes, dry, plan, rec, inSync, requests, queue, loc, cluster>>

\* The exception handler: FAILED if the state machine lets it, logged if not; the
\* metrics either way.
Fail(i) ==
  /\ pc[i] = "failing"
  /\ state' = [state EXCEPT ![i] = IF "failed" \in Forward[@] THEN "failed" ELSE @]
  /\ Finish("failed")
  /\ pc' = [pc EXCEPT ![i] = "cleanup"]
  /\ UNCHANGED <<proc, crashes, dry, plan, rec, inSync, requests, queue, loc, cluster>>

\* _cleanup_reposync and delete_reposync: only if the record names a RepoSync.
Cleanup(i) ==
  /\ \/ /\ pc[i] = "cleanup"
        /\ rec[i].reposync # "ok"
        /\ pc' = [pc EXCEPT ![i] = "done"]
        /\ UNCHANGED <<repoSyncs, roleBindings, leaked>>
     \/ /\ pc[i] = "cleanup"
        /\ rec[i].reposync = "ok"
        /\ repoSyncs' = repoSyncs \ {plan[i]}
        /\ leaked' = leaked \ {plan[i]}
        /\ pc' = [pc EXCEPT ![i] = "unbind"]
        /\ UNCHANGED roleBindings
     \/ /\ pc[i] = "unbind"
        /\ roleBindings' = roleBindings \ {plan[i]}
        /\ pc' = [pc EXCEPT ![i] = "done"]
        /\ UNCHANGED <<repoSyncs, leaked>>
  /\ UNCHANGED <<proc, crashes, record, requests, queue, loc, metrics, branches, drafts>>

\* A delete is refused: logged as non-fatal.
CleanupRaises(i) ==
  /\ "delete" \in Failures
  /\ \/ pc[i] = "unbind" /\ UNCHANGED leaked
     \/ /\ pc[i] = "cleanup" /\ rec[i].reposync = "ok"
        /\ leaked' = leaked \cup (repoSyncs \cap {plan[i]})
  /\ pc' = [pc EXCEPT ![i] = "done"]
  /\ UNCHANGED <<proc, crashes, record, requests, queue, loc, metrics, branches, drafts,
                 repoSyncs, roleBindings>>

-----------------------------------------------------------------------------
(* The process.                                                            *)

\* Everything in memory is gone; a process that starts again submits nothing.
ForgetJobs ==
  /\ submitting' = {}
  /\ deleting' = [i \in Ids |-> "none"]
  /\ queue' = <<>>
  /\ pc' = [i \in Ids |-> "idle"]
  /\ loc' = [i \in Ids |-> NoData]
  /\ active' = 0
  /\ finished' = [completed |-> 0, failed |-> 0]
  /\ started' = 0

Crash ==
  /\ proc # "down"
  /\ crashes < MaxCrashes
  /\ crashes' = crashes + 1
  /\ proc' = "down"
  /\ ForgetJobs
  /\ leaked' = repoSyncs
  /\ UNCHANGED <<record, deletes, reply, branches, drafts, repoSyncs, roleBindings>>

\* The end of lifespan: requests have been answered, executor.shutdown(wait=True)
\* lets queued and running jobs finish.
Shutdown ==
  /\ proc = "up"
  /\ submitting = {}
  /\ \A i \in Ids : deleting[i] = "none"
  /\ proc' = "draining"
  /\ UNCHANGED <<crashes, record, requests, pool, metrics, cluster>>

Exit ==
  /\ proc = "draining"
  /\ queue = <<>>
  /\ \A i \in Ids : pc[i] \in Idle
  /\ proc' = "down"
  /\ ForgetJobs
  /\ UNCHANGED <<crashes, record, deletes, reply, cluster>>

Restart ==
  /\ proc = "down"
  /\ proc' = "up"
  /\ UNCHANGED <<crashes, record, requests, pool, metrics, cluster>>

-----------------------------------------------------------------------------

Request(i) == CreateIntent(i) \/ Submit(i) \/ DeleteGet(i) \/ DeleteCancel(i)

Work(i) ==
  \/ Begin(i) \/ Plan(i) \/ Validate(i) \/ Generate(i) \/ ManifestErrors(i)
  \/ DryRun(i) \/ StageRaises(i) \/ Push(i) \/ PushRaises(i)
  \/ PorchStep(i) \/ PorchRaises(i)
  \/ RepoSyncStep(i) \/ RepoSyncRaises(i) \/ RepoSyncReplyLost(i)
  \/ Proposed(i) \/ CheckStatus(i) \/ Complete(i)
  \/ Fail(i) \/ Cleanup(i) \/ CleanupRaises(i)

Next ==
  \/ \E i \in Ids : Request(i) \/ Dequeue(i) \/ Work(i)
  \/ Crash \/ Shutdown \/ Exit \/ Restart

Spec == Init /\ [][Next]_vars

\* Every call returns (with a result or an exception), the executor hands a waiting
\* job to a free thread, and a process that stopped is started again (it runs as a
\* Deployment).  Nothing obliges anybody to send a request, or to stop the process.
Fairness ==
  /\ \A i \in Ids : WF_vars(Submit(i)) /\ WF_vars(Dequeue(i)) /\ WF_vars(Work(i))
  /\ WF_vars(Exit)
  /\ WF_vars(Restart)

FairSpec == Spec /\ Fairness

-----------------------------------------------------------------------------
(* Properties.                                                             *)

\* Type correctness of the records, the handlers, the pool, the metrics and the
\* cluster objects of app_v2.py.
TypeOK ==
  /\ proc \in {"up", "draining", "down"}
  /\ crashes \in 0..MaxCrashes
  /\ state \in [Ids -> States \cup {"none"}]
  /\ dry \in [Ids -> BOOLEAN]
  /\ plan \in [Ids -> PlanIds \cup {NoPlan}]
  /\ rec \in [Ids -> [porch : Outcomes, reposync : Outcomes,
                      configsync : Outcomes \cup {"undelivered"}]]
  /\ submitting \subseteq Ids
  /\ deleting \in [Ids -> States \cup {"none"}]
  /\ deletes \in 0..MaxDeletes
  /\ reply \in [Ids -> States \cup {"none", "200", "500"}]
  /\ queue \in Seq(Ids)
  /\ pc \in [Ids -> Steps \cup Idle]
  /\ loc \in [Ids -> [porch : Outcomes, reposync : Outcomes, configsync : {"none"}]]
  /\ active \in Nat
  /\ finished \in [{"completed", "failed"} -> Nat]
  /\ started \in Nat
  /\ inSync \subseteq Ids
  /\ branches \subseteq PlanIds
  /\ drafts \in [PlanIds -> {"none", "Draft", "Proposed"}]
  /\ repoSyncs \subseteq PlanIds
  /\ roleBindings \subseteq PlanIds
  /\ leaked \subseteq PlanIds

\* A DELETE that answered 200 is final and came in time: the intent is cancelled for
\* good, and although its job may be queued or already running, it never got a plan,
\* so no branch, draft or RepoSync was ever made for it (delete_intent against the
\* first transition of _run_pipeline).
CancelledUntouched ==
  \A i \in Ids : /\ reply[i] = "200" => state[i] = "cancelled"
                 /\ state[i] = "cancelled" => plan[i] = NoPlan /\ rec[i] = NoData

\* The metrics of app_v2.py add up at every moment: the gauge is the number of jobs
\* that have not reported, and every job that was started is counted exactly once, on
\* every error path.
Unreported == {i \in Ids : pc[i] \in Steps \ {"cleanup", "unbind"}}
JobsAccounted ==
  /\ active = Cardinality(Unreported)
  /\ started = active + finished.completed + finished.failed

\* Git first: a Porch draft or a RepoSync exists only for a plan whose branch is on
\* the Git server, whatever failed or crashed ("All mutations go through Git PRs").
GitFirst ==
  \A p \in PlanIds : (drafts[p] # "none" \/ p \in repoSyncs \cup roleBindings) => p \in branches

\* The pipeline with its workers, lost replies, failures and crashes keeps the promises
\* of IntentDelivery: whatever goes wrong, nothing outside the records changes for an
\* intent that is a dry run, is cancelled, or is not being executed, nothing before its
\* branch is pushed, and nothing is removed before an intent has ended (_run_pipeline,
\* its exception handler and _cleanup_reposync).
Delivery == INSTANCE IntentDelivery
ImplementsDelivery == Delivery!Spec

\* No RepoSync is orphaned but by one of the three known events: while one exists that
\* no lost reply, refused delete or kill has leaked, a worker that will delete it is still
\* running (_cleanup_reposync: "Delete per-intent RepoSync when intent reaches terminal
\* state"), also when plans share their intentId.
RepoSyncHasOwner ==
  \A p \in repoSyncs \ leaked : \E i \in Ids : plan[i] = p /\ pc[i] \in Steps

\* Nobody deletes the RepoSync of an intent that still needs it: from the moment an
\* intent has recorded its RepoSync until its own clean-up, the RepoSync exists, unless
\* the planner gave another intent the same intentId.
RepoSyncKept ==
  \A i \in Ids :
    (/\ pc[i] \in {"status", "complete", "cleanup"}
     /\ rec[i].reposync = "ok"
     /\ \A j \in Ids \ {i} : plan[j] # plan[i])
      => plan[i] \in repoSyncs

\* build_report: _TMF921_MAP, then the check for a degraded delivery.  An error text
\* that is empty does not count as an error, and a missing "delivered" counts as true.
ComplianceState(i) ==
  CASE state[i] \in {"failed", "cancelled"} -> "nonCompliant"
    [] state[i] \in {"applied", "completed"} ->
         IF rec[i].porch = "error" \/ rec[i].configsync \in {"error", "undelivered"}
           THEN "degraded" ELSE "compliant"
    [] OTHER -> "pending"
Compliant(i) == state[i] = "completed"

\* A report of an executed intent says "compliant" only if Porch has the package and the
\* cluster was running the intent's commit, without errors and without a sync under way,
\* when the worker looked (ConfigSync's fields, through _parse_sync_status,
\* check_configsync_delivery, the record and build_report), whatever failed on the way.
CompliantMeansDelivered ==
  \A i \in Ids : (ComplianceState(i) = "compliant" /\ ~dry[i])
                  => rec[i].porch = "ok" /\ i \in inSync

\* Every intent that was accepted, that is, whose create_intent gets as far as handing
\* it to the executor, reaches a terminal state ("Async pipeline: returns 201 immediately,
\* background worker processes"), however long it waits for a worker and whatever fails.
EveryIntentEnds == \A i \in Ids : (i \in submitting) ~> (state[i] \in Terminal)

-----------------------------------------------------------------------------
(* Promises of comments that the code does not keep; the README says how   *)
(* each of them fails.                                                     *)

\* Every record reaches a terminal state, also one whose POST was answered with 500.
EveryRecordEnds == \A i \in Ids : (state[i] = "acknowledged") ~> (state[i] \in Terminal)

\* What _cleanup_reposync promises, across restarts too: once an intent is terminal and no worker
\* is left to clean up after it, its RepoSync is gone.
RepoSyncCleaned ==
  \A i \in Ids : (state[i] \in Terminal /\ pc[i] \in Idle) => plan[i] \notin repoSyncs

\* The same as RepoSyncHasOwner for the RoleBinding, which delete_reposync deletes with
\* its RepoSync ("Delete a RepoSync and its associated RoleBinding").
RoleBindingHasOwner ==
  \A p \in roleBindings : \E i \in Ids : plan[i] = p /\ pc[i] \in Steps

\* "COMPLIANT - ConfigSync synced, workload healthy (completed)", of every intent.
CompliantMeansSynced ==
  \A i \in Ids : ComplianceState(i) = "compliant" => rec[i].configsync = "ok"

\* The two compliance fields of one report agree once the intent is completed.
ReportAgrees ==
  \A i \in Ids : Compliant(i) => ComplianceState(i) = "compliant"

\* A 409 names a state a DELETE is not allowed in ("Cannot cancel intent in '...'
\* state (only acknowledged)").
ConflictNamesOtherState == \A i \in Ids : reply[i] # "acknowledged"

\* "intents completed/failed (by result)": no more intents are counted as failed than
\* there are failed intents.
FailedMeansFailed ==
  finished.failed <= Cardinality({i \in Ids : state[i] = "failed"})
===============================================================================
