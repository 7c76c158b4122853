# A verification project for the Nephoran intent operator

TLA+ models of the two ways this repository carries an intent to a cluster.  The
Python path: the persistent intent store, the asynchronous pipeline, the Git working
tree it shares, the xApp that enforces A1 policies, and the closed loop that creates
intents.  The Go operator: the NetworkIntent and E2NodeSet controllers, the state
manager with its lock manager and cache, and the LLM circuit breaker.  The models are
checked with TLC; their safety results are proved with TLAPS for every value of the
constants.

Line numbers refer to `src/`; `store.py`, `app_v2.py` are in
`llm_nephio_oran/intentd/`, `git_ops.py` in `llm_nephio_oran/gitops/`, `main.go`
in `deployments/xapps/scaling-xapp/`, the Go files in `pkg/controllers/`,
`pkg/shared/` and `pkg/llm/`.

## 1. Inventory

| Component | State it keeps | Operations | Interacts with | What is hard |
|---|---|---|---|---|
| Intent store (`store.py`) | dictionary, id counter, transition counter, `intents.jsonl` (WAL), `intents.snapshot.json` | create, transition, cancel, snapshot + compaction, load | called by every request thread and pipeline worker | crash between file operations, torn lines, failed appends, ids taken outside the lock |
| intentd v2 (`app_v2.py`) | executor queue and workers, `dry_run`, metrics | POST, DELETE, reports, the seven pipeline steps, failure handler, clean-up, shutdown | store, planner, Git, Porch, ConfigSync | DELETE against a starting job, failures after partial effects, crash with jobs in flight, clean-up |
| Porch and ConfigSync clients | PackageRevisions, RepoSyncs, RoleBindings, RootSync status (in the cluster) | create draft, upload, propose, ensure/delete RepoSync, read status | pipeline | calls that take effect and still fail; same name used twice |
| GitOps (`git_ops.py`) | one clone in `WORK_DIR`, branches and pull requests on Gitea | refresh, branch, copy, commit, force-push, open PR | all workers at once | no lock; left-overs of failed or killed jobs |
| Scaling xApp (`main.go`) | dedup cache; policies, Deployments and Redis keys outside | poll type 100, poll type 20008, report | A1 Mediator, Kubernetes, Redis | stale reads, lost status writes, cache against status |
| Planners | global counters | plan from text | pipeline | unlocked counter, ids modulo 10000 |
| Closed loop (`closedloop/`) | `_last_action` per component and controller | observe, analyze, act, steer traffic | POST to intentd, A1, Prometheus, KPIMON | time-out after the server accepted; cooldown in memory; two controllers for one component |
| KPIMON bridge, E2 simulator, A1 client, generator, validators, CLI, demo | caches, none | pure or thin I/O | | |
| intentd v1 (`app.py`) | ledger file | synchronous pipeline | | superseded |
| NetworkIntent controller (`networkintent_controller.go`, `reconciler.go` and the stage handlers) | finalizer, phase and five conditions on the API server; a ProcessingContext in memory | Reconcile, five stages, deletion | LLM, Git, informer cache | stale reads, refused writes, pushes that outlive their time-out, crash between stages |
| E2NodeSet controller (`e2nodeset_controller.go`) | one ConfigMap per node, retry annotations, status, heartbeat goroutines | scale up and down, update, heartbeat, delete | E2 manager, two informer caches | lagging list, partial failures, deletion that must not orphan |
| Lock manager (`lock_manager.go`) | lease records, wait queues | acquire, wait, release, clean up | state manager | leases that end early, missed wake-ups |
| State manager and cache (`state_manager.go`, `state_cache.go`) | cached pointers to intent states | get, update, transition | lock manager, API server | in-place change before the write, reload against update |
| LLM circuit breaker (`circuit_breaker.go`) | state, five counters | Execute, health check, Reset, ForceOpen | LLM clients | results recorded in another era than the one that admitted the request |
| Rest of the Go operator (`pkg/`) | E2 manager, other pools and breakers, package revisions, O-RAN libraries, security, monitoring | | Kubernetes, Porch | large; not on these paths |
| Manifests, CRDs, kpt packages, schemas | declarative | | | |

What makes each modelled component correct is listed with its module below.
`PROJECT.json` lists the hazards at the lines where they bite.

## 2. Modules

`IntentStates` (states, transitions) is extended by everything about intents.

**IntentLifecycle** is what the store promises: every intent has a history that
starts at `acknowledged` and only grows along `_FORWARD_TRANSITIONS`.  No files,
no crashes, no counters.

**IntentStore** models `store.py`.  An intent is its history; `rec["state"]` is
the last entry.  The store lock makes `create` and `transition` one action each
up to the append; a snapshot is one action per file operation (write and rename,
truncate, rewrite the offset) and the process may die between any two.  Loading is
also step by step: snapshot, one WAL line at a time, end.  `_next_intent_id` is an
action of its own because it runs under another lock.  `Faults` selects the I/O
faults the environment may inject.  Two history variables serve the properties:
`seen` is the image clients could read last, `images` the image after each WAL line.
Not modelled: timestamps, payloads, a snapshot file that is itself corrupt (it is
replaced by an atomic rename), and several stores in one process.

Two simplifications of the faults of the store: an append that raises writes nothing
(on a full disk it could leave part of a line, the state fault `torn` reaches), and a torn
line is never a whole record that lacks only its newline.

**IntentPipeline** models `app_v2.py` with the Porch and ConfigSync calls it makes.
A store transition is one atomic, durable step, which is what `IntentStore`
establishes; every remote call that changes something is a step of its own.  A
plan is its `intentId`, which names branch, draft and RepoSync.  The planner,
validators and generator succeed, reject or raise.  The GitOps step is one action
here and a module of its own below.  `Failures` selects what may fail, the append of the
record in the POST itself included.  The planner may give two intents one id, as
`llm_planner.py` can.  Two history variables: `inSync` holds the intents whose commit the
cluster was running when the worker looked; `leaked` the RepoSyncs that nobody knows of any
more, because the reply to their creation was lost, their deletion was refused, or the
process was killed.

**IntentDelivery** is what the pipeline promises about Git and the cluster: records,
branches, drafts, RepoSyncs and RoleBindings, without workers, queues, replies or restarts.
An intent changes anything only while it is executed and is no dry run, the cluster only
after its branch is on the Git server, and a RepoSync or RoleBinding is removed only after
an executed intent has ended.  Its variables are variables of IntentPipeline, so the
refinement mapping is the identity.

**GitWorktree** models `push_to_gitops` command by command on a clone that up to `Workers`
jobs share without a lock.  A tree says of every file which job wrote it; jobs with the same
plan id write into one directory, and only the files a job copied are staged, so that files of an
earlier job of that id stay on its branch.  HEAD, local branches, index, working files,
remote branches and pull requests are separate.  Git itself (what reset, clean, pull, forced
and unforced checkout do to tracked and untracked files) and the merge of a pull request are
modelled as `git_ops.py` uses them.  Two history variables say what overlapping jobs may have
spoilt: `disturbed`, the jobs that were in the tree together with another, and `mixed`, the
branches such a job committed to or made, and those made from them.

**ScalingXApp** models the poll loop of `main.go`, one action per remote call,
against an environment that changes policies, Deployments and Redis keys.
`fresh` abstracts the resourceVersion: nobody changed the Deployment since it was
read.  `settled` turns the environment off for good, to state convergence.  Its
specification is XAppSpec (XAppInit, XAppNext), so that it can be extended beside ClosedLoop.

**ClosedLoop** models `controller_v2.py`, `e2_closed_loop.py` and `analyzer.py` as two
controllers, `v2` and `e2`, that work on the same components with cooldowns of their
own; `e2` has an A1 client or, which is the default, none.  A cycle is one action per remote
call.  intentd is what it is to them: a POST is accepted at once, perhaps without its reply
arriving, and the accepted intent is delivered later, in any order, or never.  The
Deployments start with any number of replicas in `Scales`, and an operator, the xApp or an
intent of somebody else may set one at any time (`OthersScale`; the schema of an intent
accepts 0 to 200).  `since`, `lost` and `others` are history variables: what was accepted in
the current cooldown period of a key, the replies and memories lost in it, and the most
replicas a Deployment had at the start or was given by others.

**NetworkIntentReconciler** models Reconcile for one object: an API server with
optimistic concurrency, an informer cache that lags behind it, the work queue, and the
five stages with every error path.  `fresh` says that Reconcile's copy carries the
current resourceVersion.  The True conditions form a prefix and are counted by `done`.
The clone has what is staged, committed and pushed (`CommitAndPush` of `pkg/git/client.go`);
a failing call leaves any of the three.
A push that outlives its time-out (`late`) ends later on its own, in one step.  The clone is
modelled for one intent; in the code it is shared, and what another intent left staged would be
swept along as well.  The intent's text,
the plan and the manifests are abstracted to whether they are in hand; `Profiles`
names the kinds of intent whose course differs.

**E2NodeSetController** models Reconcile for one E2NodeSet: a ConfigMap per node,
separate informer caches for the set and the ConfigMaps, the retry annotations, the
status, the heartbeats, deletion, and calls of the E2 manager that succeed or fail.  The
heartbeat goroutines, of which every successful Reconcile starts one more
(`e2nodeset_controller.go:459`), never end: they write ConfigMaps (also of connected nodes) and the
set's status as often as they like, and make Reconcile's writes conflict.  `calm`, a history
variable of the fair specification, marks a Reconcile that started with current caches and
was not overtaken by a beat.

**LockManager** models exclusive locks for one key: the lease record, the wait queue,
and the places of a caller in `AcquireLockWithOptions`.  It has no behaviour of its own:
**StateManager** extends it and composes it with `UpdateIntentState`, `GetIntentState`
and the cache, which hands out pointers, so that a heap is modelled.  A state has a
ProcessingPhase, the object a NetworkIntentPhase: a write converts, many to one and to
Pending by default (`phase_conversion.go:40`), and a reload takes the object's phase as it is
(`state_manager.go:545`).  `overran` records
that a lease ended under its holder, `excused` that one of the named causes may have
made the cache differ from the API server.

**CircuitBreaker** models `Execute` in its four steps (read under the read lock,
re-check under the write lock, run, record), the health checker's unguarded transition,
`Reset` and `ForceOpen`.  Time is one flag.  The counters saturate where no test of the
code can tell the difference, which the assumptions on `CountCap` say.

The MC modules give the constants their values.  The theorems are in the modules
`*_proofs`.  Definitions commented as mutants are plausible bugs, one for each checked
property; replacing the named definition by its mutant makes TLC find that property
violated.

## 3. Runs

| Run | Properties | Bounds |
|---|---|---|
| `store` | Durable, FreshIds, ImplementsLifecycle | 2 intents, snapshot every 2 transitions, 2 crashes, 5 transitions, tolerated faults |
| `store_faults` | OrderlyHistories, ServedStepsLegal | the same with 3 transitions and all faults |
| `store_offset` | Durable is violated | fault `offset` only |
| `pipeline` | CompliantMeansDelivered, EveryIntentEnds | 2 intents with one plan id behind 1 worker; stages, Porch, ConfigSync and appends may fail, shutdown and restart |
| `pipeline_crash` | RepoSyncHasOwner, RepoSyncKept, JobsAccounted, CancelledUntouched, ImplementsDelivery | 2 intents that may share a plan id, 2 workers, 1 crash, 1 DELETE, lost replies, refused deletes |
| `git` | OwnPackages, NothingElse | 3 jobs, 2 plans, 3 files, 2 jobs at a time, 1 crash |
| `xapp` | EnforcedIsScaled, ScalingConverges, CacheEvicted | 1 policy of each type, 2 replica counts, a valid and an invalid threshold, every failure |
| `circuit` | HalfOpenAdmits, HalfOpenCount, ClosedBelowThreshold, HalfOpenOnlyAfterTimeout, Recovers | 3 callers, thresholds of 2, rate 2/3, 1 administrator's command, counters to 3 |
| `networkintent` | CommittedMeansPushed, GuardedByFinalizer, CommitsAtMostOnce, ConditionsKept, EventuallySettled | 1 object, 3 faults (refused writes, failures, edits, crashes) |
| `statemanager` | UpdatesExclude, QueueIsWaiting, CacheTruth, CallsReturn | 2 callers, 1 retry, 2 phases to go to and 1 foreign one, 1 fault |
| `e2nodeset` | NothingOrphaned, NodesMoveForward, SettlesOrReports | up to 2 nodes, 1 retry, 2 faults, beats without bound |
| `closedloop` | GuardRail, CooldownHeld, OverloadAnswered | 1 component and 1 cell, max_replicas 2, others give 0, 1, 2 or 4 replicas, 1 other pod, 2 faults |

Every module with behaviour of its own has a `TypeOK` (`XAppTypeOK` in ScalingXApp), which
holds too and is proved for every one of them.

Why the bounds are enough to be interesting: with an interval of 2 and 5 transitions
the store takes two snapshots and replays lines on both sides of an offset, and two
crashes allow a fault, a recovery and a second recovery that suffers from it.  Two
intents are enough for two workers to compete for one RepoSync name (`pipeline_crash`) and
for a queue behind one worker (`pipeline`).  In `git` two jobs share a plan id and one file
name while a third has its own plan; two of them may overlap before, or a crash kill, a job
that is then alone.  The thresholds are the values on both
sides of the validity limits.  Three callers of the breaker are one that trips it, one
whose result comes late and one that probes, and with thresholds of 2 a count can be one
short and complete.  Three faults let a NetworkIntent lose a push, a status write and the
process in one life.  One fault of the state manager is enough for each cause CacheTruth
names, and one retry makes a caller wait, be woken and fail again; the phases are one that is
converted to a value several share, one with a value of its own, and a foreign one that no
ProcessingPhase is.  With one retry an
E2NodeSet uses up its retries and still has a fault left.  In the closed loop two
controllers act on one component, and a cell comes after it in the cycle, so that an
exception cuts the cycle short.  With a maximum of 2, one replica is where a guard rail can
be off by one, and 4 is a Deployment from which a scale-in still asks for more than the
maximum.

CHECK_DEADLOCK is off for the store (the bounds on intents and restarts stop it), for Git
(all jobs are done), and for the two controllers (an object that is settled or gone has
no events).  The pipeline, the xApp, the state manager, the breaker and the closed loop
must not deadlock, and do not.  The symmetry set of `pipeline_crash` permutes intents and
plan ids; it is used only where there is no liveness property.

### Fairness

Pipeline: weak fairness of Submit, of the executor's hand-over to a free thread, of
each worker's next step and of exit and restart.  HTTP and API calls either return or
raise (the code passes time-outs or relies on the clients'), the thread pool is FIFO,
and a Deployment restarts the process.  Nothing forces a request, a crash or a shutdown.
xApp: weak fairness of the poll loop: the ticker ticks and calls return.  The A1 and Redis
calls have time-outs; the Kubernetes calls have none of their own (`main.go:158, 295, 314`), and
that the API server answers is an assumption.
Failures stop when the environment settles; before that they may go on for ever.
Circuit breaker: callers are scheduled, time passes, a health check ends.  The breaker
moves only when it is called, so there is always another caller.
Controllers: the worker and the informers run (weak), and the informer catches up with an
idle worker again and again (strong): requeues after an error back off, and a requeue can
otherwise always come first.  Faults are finite in number, which is what "eventually"
means there.  Heartbeats are not: that they leave a Reconcile undisturbed now and then is the
premise SomeUndisturbed of SettlesOrReports.  Ten seconds lie between two beats of one
goroutine, but their number grows, and nothing in the code ensures the premise.
State manager: every caller takes its next step: API calls return and every wait has a
context with a time-out.  Nobody has to call, and no lease has to expire.
Closed loop: time passes, so cooldowns run out.  Nothing in the repository calls `run_cycle`
again, and it does not catch its exceptions; that somebody runs cycles of `e2` again and again
is therefore the premise of OverloadAnswered and no part of the fairness.  Nobody is obliged
to merge a pull request.

### What the violated property shows

- `store_offset`: the WAL is truncated before the snapshot's offset is rewritten.  A
  crash or a swallowed error in between makes the next load skip new entries.

### Promises the code does not keep

Most of these are definitions at the end of their module, or properties above under other
constants; TLC refutes them in seconds to a minute when they are made the property of a
configuration with the constants given.  The ones without a name were met while the
code was modelled, and the model shows the behaviour.  They are not kept as runs.

Store, pipeline, Git and xApp:

- Durable with fault `torn`: an append after a torn line is glued to it and lost.
- EveryIntentEnds with `MaxCrashes = 1`: after a kill nobody resubmits unfinished intents.
- EveryRecordEnds (failure `append`): a POST whose append fails is answered with 500 and
  leaves a record that says `acknowledged` for ever (store.py:178, app_v2.py:84).
- OwnPackages without `\ disturbed`, NothingElse without `mixed` (two workers): workers share
  a working tree without a lock; a branch is pushed without its packages or with another
  plan's.
- The packages of an earlier job with the same plan id stay on the branch as far as the later
  job does not overwrite them: their removal is not staged (git_ops.py:97-109).
- TsConverges with `Thresholds <- EdgeThresholds` and no failure: valid, invalid, the same
  valid threshold again: the dedup cache skips it and the status stays NOT_ENFORCED.
- SnapshotOnSchedule (no fault, one restart): `_load_snapshot` restores the transition
  counter of the snapshot and replayed transitions are not counted, so restarts postpone
  the next snapshot (store.py:134 "written every SNAPSHOT_INTERVAL transitions").
- Durable with fault `append`: the record is changed before the append that may raise.
- RepoSyncCleaned (1 crash): a crash between `completed` and the clean-up leaves the
  RepoSync of a terminal intent (app_v2.py:456).
- RoleBindingHasOwner (failure `configsync`): when the RepoSync is refused after its
  RoleBinding was created, the record holds an error and the clean-up skips both.
- RepoSyncKept without its last condition: two plans with one id (llm_planner.py:216-223)
  share a RepoSync and the first to finish deletes it.
- CompliantMeansSynced: a dry run is reported compliant (store.py:64).
- ReportAgrees: an undelivered, completed intent has `compliant: true` and
  `complianceState: degraded` in one report.
- CompliantMeansDelivered with failure `silent`: an exception with an empty text is
  recorded as `{"error": ""}` and does not count as an error.
- ConflictNamesOtherState (1 DELETE): the 409 can say that an intent in state
  acknowledged cannot be cancelled.
- FailedMeansFailed (1 DELETE): the job of a cancelled intent is counted as failed.
- TsConverges with failure `redis` or `expire`: a status that could not be written, or
  whose 24 h TTL has passed, is never written again for an unchanged policy.

NetworkIntent controller:

- CompletedMeansCommitted: after a crash that follows ManifestsGenerated the manifests are
  gone from memory, the commit is skipped, and the intent is Completed with nothing in Git
  (reconciler.go:265).
- A crash or a refused write after ResourcesPlanned loses the plan, which is looked for in
  memory only: GenerateManifests fails for ever (resource_planner.go:584).  This is the
  exception PlanLost in EventuallySettled.
- The retry annotation is set on a copy whose status alone is written, so MaxRetries is
  never reached (networkintent_controller.go:566).
- Rejected and bypassed intents are reconciled at every event, an edit of the spec of a
  completed intent is ignored (434), and Completed may be overwritten by Error
  after a stale read (reconciler.go:186).
- IntentDeletionEnds (networkintent_cleanup_test.go "Should remove finalizer when Git operation
  succeeds"): the clean-up of a deleted intent commits no files, and go-git refuses an empty
  commit, so on a clean index the clean-up fails for ever and the finalizer stays
  (gitops_handler.go:453).

Lock and state manager:

- UpdatesExclude without `~overran`: renewal stops when the acquiring call returns, and a
  release does not ask for the owner (lock_manager.go:202).
- A failed update leaves the cached state changed (state_manager.go:314); this is one of
  the causes in CacheTruth.
- CachedIsProcessingPhase: a reload casts the object's phase, so that CurrentPhase can be
  "Deploying", which isPhaseSatisfied compares with no phase (state_manager.go:545).
- NeverBackToPending: the next update of such a state, of its data only, converts the unknown
  phase to Pending and writes that to the API server (state_manager.go:620).
- Outside what is modelled: a shared record is released by its first reader (461), and
  `parseNamespacedName` returns an empty name, so that dependencies are never satisfied
  (state_manager.go:740).

Circuit breaker:

- HalfOpenAdmits without ProbesSuffice: with HalfOpenMaxRequests < SuccessThreshold, which
  nothing validates, a half-open breaker refuses everybody for ever (369).
- The number of probes that run at the same time is not bounded: a request is counted
  when its result is recorded (489).

E2NodeSet controller:

- DeletionEnds without SomeUndisturbed: a status write of a heartbeat between the read and the
  removal of the finalizer has the removal refused, every time (e2nodeset_controller.go:1318).
- Converges (`MaxReplicas = 1`, `DefaultMaxRetries = 3`, `MaxFaults = 3`): used-up retries
  are never tried again, although the code speaks of a "Long delay before retry"
  (e2nodeset_controller.go:855, 429).
- An update of a ConfigMap drops its owner reference (776), a node whose connection
  failed is never connected but becomes Ready and beats (638), and with a stale list
  nodes can be created or deleted beyond what the spec asks for, for a while.

Closed loop:

- NeverAboveMaximum: a scale-in from two or more above max_replicas asks for more than it
  (analyzer.py:110; the message at 92 calls it "Max replicas"), and when it is delivered late it
  can raise a Deployment that somebody had scaled down meanwhile.
- ScaleOutRaises: a failed read counts as 0 or 1 replicas, the v2 controller takes the pods
  of the namespace for the component's, and intents are delivered late: a scale-out can
  take replicas away.
- The v2 controller alone never scales out a component once the namespace has
  `max_replicas` pods (controller_v2.py:102), and it never scales in.
- `requires_human_approval` (analyzer.py:6) is not looked at by either act.

## 4. Proofs

Eight modules hold the proofs; each states an inductive invariant, proves that the initial
states satisfy it and that every action keeps it, one lemma or step per action, and
derives the checked properties.  The invariants were checked with TLC first.

**IntentStore_proofs**, for every number of intents and restarts and every snapshot
interval:

- **StoreTypeOK**: `Spec => []TypeOK`, whatever faults occur.
- **StoreDurable**, **StoreFreshIds**, **StoreImplementsLifecycle**: durability, fresh
  ids and the refinement of `IntentLifecycle` (with `life <- seen`), under the
  assumption that only the tolerated faults occur (`Faults \subseteq {"snapshot",
  "truncate"}`); crashes are always allowed, except in the offset window, which is the
  fault `offset`.
- **ServedStepsTheorem** (ServedStepsLegal) and **OrderlyTheorem** (OrderlyHistories),
  whatever faults occur.

Assumptions on the constants: `StoreAssumption` (naturals, a positive interval, known
fault kinds), which TLC evaluates in every store run.

The argument for the tolerated faults.  Durable is not inductive: after a crash the
dictionary is empty, and that it will be rebuilt depends on the files.  `LogInv` is the
strengthening: `images` has one image per WAL prefix and each is the replay of its line on
the one before; the snapshot is the image at the offset it claims; a serving process
agrees with the last image and the length of the log; a replaying one has the image at
max(cursor, skipUntil).  The one moment where the snapshot's claim is false, between
truncation and rewrite, is named in it, and there the invariant only says that the
snapshot is the last image.  FreshIds follows the same way from a
part about the counter; the refinement follows because `seen` changes only by `Create`
and `Transition`, which the invariant makes steps of the abstract specification.

The argument under every fault.  With torn, glued and lost lines and a stale offset,
`LogInv` is false, and what recovery yields is no longer what was served.  `RecoveryInv`
says what is left: there is a recovery (the dictionary and line_index after each line, as
functions) of the files as they are; everything on its way is orderly; its result is not
ahead of what is being served (no intent that is not served, none further along); and it
counts no more lines than the process has counted.  The last part is why a snapshot covers
every line it makes recovery skip, although a torn line makes the two counts differ; the
part before it is why the next line continues what recovery will find, whether or not the
lines between were lost.  `UnusedIds` is FreshIds for the dictionary at hand.

**IntentPipeline_proofs**, for any set of intents and plans, any number of workers, crashes
and DELETE requests: CancelledTheorem (CancelledUntouched), GitFirstTheorem (GitFirst),
JobsTheorem (JobsAccounted) and PipelineTypeOK, whatever fails; CompliantTheorem
(CompliantMeansDelivered), unless an exception may have an empty text; RepoSyncKeptTheorem
(RepoSyncKept) and RepoSyncOwnedTheorem (RepoSyncHasOwner), whatever fails and whether plan ids
repeat or not: the first speaks of an intent whose id no other has, the second leaves out
what `leaked` names, which section 3 shows to be needed.
The invariant has five layers, each resting on the ones before: Control (a job is in one
place, and its place decides the state of its intent), Git (nothing is touched before a
plan, nothing is in the cluster before the push), Data (what the record and the local
results hold at each place), the RepoSyncs (Kept: who holds one finds it, if nobody shares its
name; Held: one that is not leaked is held) and Metered (the gauge counts
the jobs that have not reported).

PipelineImplementsDelivery is the refinement of IntentDelivery, without any hypothesis: every
step of the pipeline, of any number of workers, under every failure and crash, whether plan
ids repeat or not, is a step of IntentDelivery or changes nothing it sees.  A transition is
an Advance (the planner's is Plan) or was refused; a call of the cluster is Push, Package
or Deliver; a clean-up is CleanUp; crash, restart, shutdown and the executor stutter.  The
layer it needs besides Control and Git is Shipping: at "proposed" the branch is there,
between the creation of a draft and its proposal the draft is there, a worker cleans up
only after an end and only what the record names, and a dry run has nothing on its record.
GitFirst is what remains of this in a single state.  Assumptions: PipelineAssumption of the module.

**GitWorktree_proofs**, for any jobs, plans, packages and crashes and any number of workers in
the one working tree: WorktreeTypeOK, OwnPackagesTheorem (OwnPackages) and NothingElseTheorem
(NothingElse).  The properties speak of the Git server; TreeInv follows the packages of a job
that has the tree to itself from the directory through the index and the local branch to it
(JobAt), starting from what reset, clean, checkout and pull make of any tree whatever; says that
jobs in the tree together are `disturbed` (Overlap); and that a branch which is not `mixed`, in
the clone and on the server, holds besides its own packages only what main has had (Branched).
Assumption: WorktreeAssumption.

**ClosedLoop_proofs**, for any list of components, any maximum and any number of faults:
CooldownTheorem (CooldownHeld) and GuardRailTheorem (TypeOK and GuardRail), whatever number
of replicas others give a Deployment.  For the cooldown the strengthening, Paid, tells a key
that cools down, which explains one action, from one that does not, which explains none;
FallbackCold says that the fall-back intent is posted outside the cooldown although the
check was made before the A1 call.  For the guard rail it is Rail: analyze compares with the
maximum only on the way up, and what keeps a scale-in within it is that "v2", whose number
of pods may be anything, takes every component for loaded, and that "e2" acts on a number it
read from a Deployment, which is above the maximum only if others (`others`) have put it
there.  That the pods of a namespace are a natural number is an induction over the
components, done with sets of numbers in the place of predicates (NumbersInduction,
FoldType).  Assumption: LoopAssumption.

The module also extends ScalingXApp, which has variables and a specification of its own
(XAppSpec), and holds the theorems about this other end of the A1 interface: EnforcedTheorem
(EnforcedIsScaled) and XAppTypes (XAppTypeOK), for any sets of policies, Deployments,
replica counts and thresholds. EnforcedIsScaled is an action property: the step that reaches
the verdict leaves the Deployment with the policy's replicas.  InHand, the invariant it
needs, says what the poll holds at each place: a scaling policy with its spec where a
Deployment is read, updated or reported, a traffic-steering policy with a threshold where
the data key is written.  Assumption: XAppAssumption, in particular that the value for "no
policy" is not a policy and that no id belongs to both policy types.

**CircuitBreaker_proofs**, for every number of callers and every configuration with
HalfOpenMaxRequests >= SuccessThreshold: BreakerTypes, BreakerCounts (HalfOpenCount),
NeverWedged (HalfOpenAdmits), ClosedIsHealthy (ClosedBelowThreshold) and
ProbingStartsLate (HalfOpenOnlyAfterTimeout).  HalfOpenAdmits is not inductive: a result
recorded in the half-open state uses up a request, and only HalfOpenCount says that it
was then a success, of which there are fewer than close the breaker.  Assumptions:
ConfigAssumption, CapAssumption, ProbesSuffice.

**NetworkIntent_proofs**, for any number of faults: CommittedTheorem, OnceTheorem,
GuardedTheorem, IntentTypes and the action property ConditionsNeverLost.  That manifests are
committed once is a fact about versions: a stage runs only after a status write based on the
current version, so its copy agrees with the API server on the conditions (InStep); a commit
exists only after three of them (CommitsLate); so a plan, which is made at one condition, is
made in an untouched repository (Untouched).  Assumption: FaultsAssumption.

**StateManager_proofs**, for every finite set of callers and any number of attempts:
MutualExclusion (UpdatesExclude), NoLeakedWaiter (QueueIsWaiting), CacheTruthTheorem
(CacheTruth) and StateTypeOK.  UpdatesExclude counts callers and does not say what keeps a
second one out; HolderWorks does: as long as no lease ended under its holder, the record is
the worker's own and alive.  CacheTruth needs LoadedTruth and WrittenTruth besides: what a
caller with a current copy is about to cache is the object's phase, and what an update has
just written converts to it.  Assumptions: LockAssumption, StateAssumption.

**E2NodeSet_proofs**, for any number of replicas, retries and faults: NothingOrphanedTheorem
(NothingOrphaned), the action property NodesForwardTheorem (NodesMoveForward) and
NodeSetTypeOK.  NodesMoveForward needs Configured: no copy of the set is newer than its
original and no ConfigMap newer than what Reconcile writes, and Delivered: the informer's copy of
a ConfigMap differs from it only while a change is on its way, because a beat writes what
it has in the cache.  NothingOrphaned needs Guarded
(the finalizer is on the set whenever Reconcile works on its nodes), Visible (a ConfigMap
without an owner reference is in the informer's cache, where handleDeletion lists it) and
Purged (handleDeletion forgets none it has listed).  Assumption: BoundsAssumption.

Only model-checked: all liveness (EveryIntentEnds, ScalingConverges, CacheEvicted, Recovers,
EventuallySettled, CallsReturn, SettlesOrReports, OverloadAnswered), because
fairness is outside what the proof system handles.  Every invariant and every action
property of a passing run, and both refinements, is stated by a theorem.

## 5. Not modelled

The planner's text handling, generator, validators, CLI, demo, metrics queries, E2
simulation and A1 client are pure or thin I/O; the models let them succeed or fail.  Of the
Go operator: shared locks, RenewLock and Stop of the lock manager, the dependencies and
statistics of the state manager, and the metrics of the breaker; the E2 manager, the other
breakers, bulkheads and pools, the package revision engine, the O-RAN libraries, security,
audit, monitoring and disaster recovery.  Most of `pkg/` is such supporting library code,
far larger than the parts that carry an intent.  Manifests and schemas are data.

## 6. Plan

1. Done: IntentStates, IntentLifecycle, IntentStore, IntentPipeline, GitWorktree,
   ScalingXApp; ClosedLoop; CircuitBreaker, NetworkIntentReconciler, LockManager,
   StateManager, E2NodeSetController; eight modules of proofs.
2. PlanIds: the unlocked `_next_seq` and the stub planner's counter (after a restart),
   composed with the pipeline, which now allows any ids.
3. The intentd v1 ledger, `wait_for_sync`, the KPIMON cache, the v1 closed loop.
4. Go operator: E2 manager, package revision life cycle, failover.
5. Done: the abstract specifications IntentLifecycle and IntentDelivery with their refinements,
   and the proofs of every safety property of the runs.
