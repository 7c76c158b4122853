----------------------- MODULE NetworkIntentReconciler -----------------------
(***************************************************************************)
(* The Go operator's NetworkIntent controller, pkg/controllers: Reconcile  *)
(* and its five-stage pipeline (LLM processing, resource planning,         *)
(* manifest generation, GitOps commit, verification) for one NetworkIntent.*)
(*                                                                         *)
(* The object is read from the informer cache, which lags behind the API   *)
(* server, and written with optimistic concurrency: a write is refused     *)
(* unless it is based on the object's current resourceVersion (fresh).     *)
(* Every write is an event that queues the object again (SetupWithManager  *)
(* installs no predicate).  What one stage hands to the next, the          *)
(* ProcessingContext, lives in memory and lasts for one Reconcile.         *)
(*                                                                         *)
(* A stage runs only when the previous stage's condition is True, so the   *)
(* True conditions form a prefix of the five and are counted by done.      *)
(***************************************************************************)
EXTENDS Integers, Sequences

\* The bound on faults: refused writes, failed calls, edits, crashes.
CONSTANT MaxFaults
ASSUME FaultsAssumption == MaxFaults \in Nat

Phases == <<"LLMProcessing", "ResourcePlanning", "ManifestGeneration",
            "GitOpsCommit", "DeploymentVerification">>
AllPhases == {Phases[i] : i \in 1..5}
               \cup {"", "Error", "Processed", "Completed"}

(* What Reconcile cannot change: a normal intent; one the sanitizer rejects;*)
(* one that fails before the call (no LLM client, or a retry annotation that*)
(* says MaxRetries: Reconcile never writes it back, for only the status is  *)
(* updated); and a process run with ENABLE_LLM_INTENT=false.                *)
Profiles == {"normal", "rejected", "exhausted", "bypassed"}

VARIABLES
    api,        \* the object on the API server
    cache,      \* the informer cache's copy of it
    cacheFresh, \* the cache has the current resourceVersion
    queued,     \* the work queue holds the object
    pc,         \* where the worker is in Reconcile
    obj,        \* Reconcile's copy, networkIntent
    fresh,      \* obj carries the current resourceVersion
    ctx,        \* the ProcessingContext: plan, manifests, hash
    git,        \* the intent's files in the clone: commits made, commits
                \* pushed, and whether the index holds them uncommitted
    late,       \* a CommitAndPush whose caller has timed out is still running
    profile, faults

vars == <<api, cache, cacheFresh, queued, pc, obj, fresh, ctx, git, late,
          profile, faults>>
server == <<api, cache, cacheFresh>>
work == <<obj, fresh, ctx>>
repo == <<git, late>>

Objects == [exists : BOOLEAN, deleting : BOOLEAN, finalizer : BOOLEAN,
            phase : AllPhases, done : 0..5,
            reason : {"none", "committed", "skipped"}]

TypeOK ==
    /\ api \in Objects /\ cache \in Objects /\ obj \in Objects
    /\ cacheFresh \in BOOLEAN /\ queued \in BOOLEAN /\ fresh \in BOOLEAN
    /\ pc \in {"idle", "finalizer", "bypass", "enter", "run", "processed",
               "failed", "retry", "finish", "ready", "cleanup", "release"}
    /\ ctx \subseteq {"plan", "manifests", "hash"}
    /\ git \in [local : 0..2, remote : 0..2, staged : BOOLEAN]
    /\ late \in BOOLEAN
    /\ profile \in Profiles
    /\ faults \in 0..MaxFaults

NewObject == [exists |-> TRUE, deleting |-> FALSE, finalizer |-> FALSE,
              phase |-> "", done |-> 0, reason |-> "none"]

Init ==
    /\ api = NewObject /\ cache = NewObject /\ obj = NewObject
    /\ cacheFresh = TRUE /\ queued = TRUE /\ fresh = FALSE
    /\ pc = "idle" /\ ctx = {}
    /\ git = [local |-> 0, remote |-> 0, staged |-> FALSE] /\ late = FALSE
    /\ profile \in Profiles
    /\ faults = 0

Fault == faults < MaxFaults /\ faults' = faults + 1

-----------------------------------------------------------------------------
(* The API server.  Written(o, current) is Status().Update of o, which only *)
(* succeeds on the current resourceVersion: only the status is taken, and   *)
(* the copy comes back current.                                             *)

Written(o, current) ==
    IF current
    THEN /\ api' = [api EXCEPT !.phase = o.phase, !.done = o.done,
                               !.reason = o.reason]
         /\ cacheFresh' = FALSE
         /\ obj' = api' /\ fresh' = TRUE
         /\ UNCHANGED cache
    ELSE obj' = o /\ UNCHANGED <<server, fresh>>

StatusWrite(o, current) == current /\ Written(o, current) /\ UNCHANGED faults

Refused(o, current) ==
    /\ IF current THEN Fault ELSE UNCHANGED faults
    /\ Written(o, FALSE)

(* A status update whose error the caller ignores.                          *)
TryWrite(o, current) == StatusWrite(o, current) \/ Refused(o, current)

(* The informer delivers the object, or the news that it is gone.           *)
CacheSync ==
    /\ ~cacheFresh
    /\ cache' = api /\ cacheFresh' = TRUE
    /\ queued' = TRUE
    /\ UNCHANGED <<api, pc, work, repo, profile, faults>>

UserDelete ==
    /\ api.exists /\ ~api.deleting
    /\ api' = IF api.finalizer THEN [api EXCEPT !.deleting = TRUE]
                               ELSE [api EXCEPT !.exists = FALSE]
    /\ cacheFresh' = FALSE /\ fresh' = FALSE
    /\ UNCHANGED <<cache, queued, pc, obj, ctx, repo, profile, faults>>

(* An edit of the spec or the metadata: a new resourceVersion and nothing   *)
(* Reconcile looks at, for isProcessingComplete ignores the generation.     *)
UserEdit ==
    /\ api.exists
    /\ Fault
    /\ cacheFresh' = FALSE /\ fresh' = FALSE
    /\ UNCHANGED <<api, cache, queued, pc, obj, ctx, repo, profile>>

-----------------------------------------------------------------------------
(* Reconcile.                                                               *)

isProcessingComplete(o) == o.done = 5 /\ o.phase = "Completed"

(* executeProcessingPipeline: the first stage whose condition is not True.  *)
stageOf(o) == o.done + 1

\* A Reconcile that starts the pipeline before the finalizer is in place.
firstStepEager(o) ==
    IF ~o.exists \/ isProcessingComplete(o) THEN "idle"
    ELSE IF o.deleting THEN "cleanup"
    ELSE IF profile = "bypassed" THEN "bypass"
    ELSE IF stageOf(o) <= 5 THEN "enter" ELSE "finish"

(* What Reconcile does with the object it has read.                         *)
firstStep(o) ==
    IF ~o.exists THEN "idle"
    ELSE IF o.deleting THEN "cleanup"
    ELSE IF ~o.finalizer THEN "finalizer"
    ELSE IF isProcessingComplete(o) THEN "idle"
    ELSE IF profile = "bypassed" THEN "bypass"
    ELSE IF stageOf(o) <= 5 THEN "enter" ELSE "finish"

\* A Reconcile that keeps the ProcessingContext of the last one.
ReadKeepingContext ==
    /\ pc = "idle" /\ queued
    /\ queued' = FALSE
    /\ obj' = cache /\ fresh' = cacheFresh
    /\ pc' = firstStep(cache)
    /\ UNCHANGED <<server, ctx, repo, profile, faults>>

Read ==
    /\ pc = "idle" /\ queued
    /\ queued' = FALSE
    /\ obj' = cache /\ fresh' = cacheFresh /\ ctx' = {}
    /\ pc' = firstStep(cache)
    /\ UNCHANGED <<server, repo, profile, faults>>

(* The finalizer is added with Update; either way the object is requeued.   *)
AddFinalizer ==
    /\ pc = "finalizer"
    /\ \/ /\ fresh
          /\ api' = [api EXCEPT !.finalizer = TRUE]
          /\ cacheFresh' = FALSE
          /\ UNCHANGED <<cache, obj, fresh, faults>>
       \/ Refused(obj, fresh)
    /\ pc' = "idle" /\ queued' = TRUE
    /\ UNCHANGED <<ctx, repo, profile>>

(* ENABLE_LLM_INTENT=false: Processed becomes True and nothing else is done.*)
Bypass ==
    /\ pc = "bypass"
    /\ TryWrite([obj EXCEPT !.phase = "Processed",
                            !.done = IF obj.done = 0 THEN 1 ELSE obj.done],
                fresh)
    /\ pc' = "idle"
    /\ UNCHANGED <<queued, ctx, repo, profile>>

(* updatePhase at the head of a stage.                                      *)
EnterStage ==
    LET o == [obj EXCEPT !.phase = Phases[stageOf(obj)]]
    IN  /\ pc = "enter"
        /\ \/ StatusWrite(o, fresh) /\ pc' = "run"
           \/ Refused(o, fresh) /\ pc' = "failed"
        /\ UNCHANGED <<queued, ctx, repo, profile>>

AtStage(i) == pc = "run" /\ stageOf(obj) = i

(* A stage ends by writing its condition: on to the next stage, or out with *)
(* an error if the write is refused.                                        *)
StageDone(o) ==
    \/ /\ StatusWrite(o, fresh)
       /\ pc' = IF stageOf(o) <= 5 THEN "enter" ELSE "finish"
    \/ Refused(o, fresh) /\ pc' = "failed"

(* The skipping branches of CommitToGitOps and VerifyDeployment only log a  *)
(* refused write and go on with the condition True in memory.               *)
StageSkipped(o) ==
    /\ TryWrite(o, fresh)
    /\ pc' = IF stageOf(o) <= 5 THEN "enter" ELSE "finish"

(* ProcessLLMPhase, in the branches that leave Processed False.             *)
LLMFails ==
    /\ AtStage(1)
    /\ \/ \* the retry annotation has reached MaxRetries: Ready=False, error
          /\ profile = "exhausted"
          /\ TryWrite(obj, fresh) /\ pc' = "failed"
       \/ \* SanitizeInput rejects the text: phase Error, no error, no requeue
          /\ profile = "rejected"
          /\ TryWrite([obj EXCEPT !.phase = "Error"], fresh) /\ pc' = "idle"
       \/ \* the breaker is open, or ValidateOutput refuses: Ready=False, error
          /\ profile = "normal" /\ Fault
          /\ Written(obj, fresh) /\ pc' = "failed"
       \/ \* buildTelecomEnhancedPrompt fails: nothing is written, requeue
          /\ profile = "normal" /\ Fault
          /\ pc' = "retry" /\ UNCHANGED <<server, obj, fresh>>
       \/ \* the answer is not JSON: phase Error, requeue
          /\ profile = "normal" /\ Fault
          /\ Written([obj EXCEPT !.phase = "Error"], fresh) /\ pc' = "retry"
       \/ \* the call fails: phase Error goes out on the cached object, requeue
          /\ profile = "normal" /\ Fault
          /\ IF cacheFresh /\ cache.exists
             THEN Written([obj EXCEPT !.phase = "Error"], TRUE)
             ELSE UNCHANGED <<server, obj, fresh>>
          /\ pc' = "retry"
    /\ UNCHANGED <<queued, ctx, repo, profile>>

(* ProcessLLMPhase, success: the parameters are written, and then, in a     *)
(* second write, the condition.                                             *)
LLMParameters ==
    /\ AtStage(1) /\ profile = "normal"
    /\ \/ StatusWrite(obj, fresh) /\ pc' = "processed"
       \/ Refused(obj, fresh) /\ pc' = "failed"
    /\ UNCHANGED <<queued, ctx, repo, profile>>

LLMProcessed ==
    /\ pc = "processed"
    /\ StageDone([obj EXCEPT !.done = 1])
    /\ UNCHANGED <<queued, ctx, repo, profile>>

PlanResources ==
    /\ AtStage(2)
    /\ ctx' = ctx \cup {"plan"}
    /\ StageDone([obj EXCEPT !.done = 2])
    /\ UNCHANGED <<queued, repo, profile>>

(* The plan is only looked for in memory, never in status.extensions.       *)
GenerateManifests ==
    /\ AtStage(3)
    /\ \/ /\ "plan" \in ctx
          /\ ctx' = ctx \cup {"manifests"}
          /\ StageDone([obj EXCEPT !.done = 3])
       \/ /\ "plan" \notin ctx
          /\ TryWrite(obj, fresh) /\ pc' = "failed"
          /\ UNCHANGED ctx
    /\ UNCHANGED <<queued, repo, profile>>

(* CommitAndPush writes and stages its files, commits the index and pushes. *)
Staged(g) == [local |-> g.local, remote |-> g.remote, staged |-> TRUE]
Committed(g) == [local |-> g.local + 1, remote |-> g.remote, staged |-> FALSE]
Pushed(g) == [g EXCEPT !.remote = g.local]

\* A commit whose hash is recorded although the push failed.
CommitToGitOpsUnpushed ==
    /\ AtStage(4) /\ "manifests" \in ctx
    /\ git' = Committed(git)
    /\ ctx' = ctx \cup {"hash"}
    /\ StageDone([obj EXCEPT !.done = 4, !.reason = "committed"])
    /\ UNCHANGED <<queued, late, profile>>

(* CommitToGitOps with manifests in hand: CommitAndPush commits locally and *)
(* pushes.                                                                  *)
CommitToGitOps ==
    /\ AtStage(4) /\ "manifests" \in ctx
    /\ git' = Pushed(Committed(git))
    /\ ctx' = ctx \cup {"hash"}
    /\ StageDone([obj EXCEPT !.done = 4, !.reason = "committed"])
    /\ UNCHANGED <<queued, late, profile>>

(* CommitToGitOps with no manifests in hand: there is nothing to commit.    *)
SkipCommit ==
    /\ AtStage(4) /\ "manifests" \notin ctx
    /\ StageSkipped([obj EXCEPT !.done = 4, !.reason = "skipped"])
    /\ UNCHANGED <<queued, ctx, repo, profile>>

(* InitRepo or CommitAndPush fails, before or after the files are staged or *)
(* committed, or outlives its timeout and runs on: Ready=False is written,  *)
(* and requeued.                                                            *)
CommitFails ==
    /\ AtStage(4) /\ "manifests" \in ctx
    /\ Fault
    /\ \/ git' \in {git, Staged(git), Committed(git)} /\ UNCHANGED late
       \/ late' = TRUE /\ UNCHANGED git
    /\ Written(obj, fresh)
    /\ pc' = "retry"
    /\ UNCHANGED <<queued, ctx, profile>>

(* The goroutine ExecuteWithTimeout left behind ends: it fails, stages and  *)
(* cannot commit, commits and cannot push, or commits and pushes.           *)
LatePush ==
    /\ late /\ late' = FALSE
    /\ git' \in {git, Staged(git), Committed(git), Pushed(Committed(git))}
    /\ UNCHANGED <<server, queued, pc, work, profile, faults>>

VerifyDeployment ==
    /\ AtStage(5)
    /\ \/ "hash" \in ctx /\ StageDone([obj EXCEPT !.done = 5])
       \/ "hash" \notin ctx /\ StageSkipped([obj EXCEPT !.done = 5])
    /\ UNCHANGED <<queued, ctx, repo, profile>>

(* The pipeline has nothing left to do: Completed, unless the phase is      *)
(* already one of the two Reconcile takes for final.                        *)
Finish ==
    /\ pc = "finish"
    /\ \/ /\ obj.phase \in {"Error", "Processed"}
          /\ pc' = "idle"
          /\ UNCHANGED <<server, queued, obj, fresh, faults>>
       \/ /\ obj.phase \notin {"Error", "Processed"}
          /\ \/ /\ StatusWrite([obj EXCEPT !.phase = "Completed"], fresh)
                /\ pc' = "ready" /\ UNCHANGED queued
             \/ Refused(obj, fresh) /\ pc' = "idle" /\ queued' = TRUE
    /\ UNCHANGED <<ctx, repo, profile>>

(* setReadyCondition after Completed.                                       *)
SetReady ==
    /\ pc = "ready"
    /\ TryWrite(obj, fresh)
    /\ pc' = "idle"
    /\ UNCHANGED <<queued, ctx, repo, profile>>

\* An error path that patches the status it holds, whatever its version.
ReturnErrorUnversioned ==
    /\ pc \in {"failed", "retry"}
    /\ api.exists /\ StatusWrite([obj EXCEPT !.phase = "Error"], TRUE)
    /\ pc' = "idle" /\ queued' = TRUE
    /\ UNCHANGED <<ctx, repo, profile>>

\* An error path that relies on the write to queue the object again.
ReturnErrorSilent ==
    /\ pc \in {"failed", "retry"}
    /\ \/ cacheFresh /\ StatusWrite([cache EXCEPT !.phase = "Error"], TRUE)
       \/ Refused(obj, cacheFresh)
    /\ pc' = "idle"
    /\ UNCHANGED <<queued, ctx, repo, profile>>

(* An error, or a requeue with phase Error in memory: the phase is written  *)
(* to a second copy, which is again read from the cache.                    *)
ReturnError ==
    /\ pc \in {"failed", "retry"}
    /\ LET o == [cache EXCEPT !.phase = "Error"]
           due == cache.exists /\ (pc = "failed" \/ obj.phase = "Error")
       IN  \/ due /\ StatusWrite(o, cacheFresh)
           \/ due /\ Refused(obj, cacheFresh)
           \/ ~due /\ UNCHANGED <<server, obj, fresh, faults>>
    /\ pc' = "idle" /\ queued' = TRUE
    /\ UNCHANGED <<ctx, repo, profile>>

-----------------------------------------------------------------------------
(* reconcileDelete: CleanupGitOpsResources commits no files and pushes.  A  *)
(* commit of nothing is an error of go-git, and the deletion is tried again;*)
(* only what a failed CommitAndPush left in the index makes it succeed, and *)
(* that is what is then committed and pushed.  A call that fails or times   *)
(* out may have taken effect.                                               *)

Cleanup ==
    /\ pc = "cleanup"
    /\ \/ /\ git.staged /\ git' = Pushed(Committed(git))
          /\ pc' = "release" /\ UNCHANGED <<queued, faults>>
       \/ /\ git.staged /\ Fault
          /\ git' \in {git, Committed(git), Pushed(Committed(git))}
          /\ pc' = "idle" /\ queued' = TRUE
       \/ /\ ~git.staged /\ UNCHANGED <<git, faults>>
          /\ pc' = "idle" /\ queued' = TRUE
    /\ UNCHANGED <<server, work, late, profile>>

(* The finalizer is removed with Update and the API server drops the object.*)
RemoveFinalizer ==
    /\ pc = "release"
    /\ \/ /\ fresh
          /\ api' = [api EXCEPT !.exists = FALSE, !.finalizer = FALSE]
          /\ cacheFresh' = FALSE
          /\ UNCHANGED <<cache, obj, fresh, queued, faults>>
       \/ Refused(obj, fresh) /\ queued' = TRUE
    /\ pc' = "idle"
    /\ UNCHANGED <<ctx, repo, profile>>

(* The process stops and starts again: the cache is listed afresh, and the  *)
(* context and the goroutines are gone.                                     *)
Crash ==
    /\ Fault
    /\ cache' = api /\ cacheFresh' = TRUE /\ queued' = TRUE
    /\ pc' = "idle" /\ ctx' = {} /\ fresh' = FALSE /\ late' = FALSE
    /\ UNCHANGED <<api, obj, git, profile>>

Worker ==
    \/ Read \/ AddFinalizer \/ Bypass \/ EnterStage
    \/ LLMFails \/ LLMParameters \/ LLMProcessed
    \/ PlanResources \/ GenerateManifests
    \/ CommitToGitOps \/ SkipCommit \/ CommitFails \/ VerifyDeployment
    \/ Finish \/ SetReady \/ ReturnError
    \/ Cleanup \/ RemoveFinalizer

Next == Worker \/ CacheSync \/ LatePush \/ UserDelete \/ UserEdit \/ Crash

Spec == Init /\ [][Next]_vars

(* The worker goroutine, the informer and the goroutine of a late push run. *)
(* The strong fairness says that the informer does not for ever lose the    *)
(* race against the next Reconcile: requeues after an error back off, so it *)
(* catches up with an idle worker again and again.                          *)
FairSpec ==
    /\ Spec
    /\ WF_vars(Worker) /\ WF_vars(CacheSync) /\ WF_vars(LatePush)
    /\ SF_vars(pc = "idle" /\ CacheSync)

-----------------------------------------------------------------------------
(* The status says that a commit was made only when the remote has it       *)
(* (CommitToGitOps), whatever failed, timed out or was retried on the way.  *)
CommittedMeansPushed ==
    api.reason = "committed" => git.remote > 0

(* A commit may still come: from a late goroutine or out of the index.      *)
Pending == late \/ git.staged

(* Nothing of an intent reaches Git, not even in a late goroutine, before   *)
(* its finalizer is on the API server: its deletion passes reconcileDelete. *)
GuardedByFinalizer ==
    (git.local > 0 \/ Pending) /\ api.exists => api.finalizer

(* The manifests are committed at most once: neither a retry nor a crash    *)
(* makes CommitToGitOps run with manifests a second time, nor does the      *)
(* clean-up of a deleted intent commit what is committed already.           *)
CommitsAtMostOnce ==
    git.local + (IF Pending THEN 1 ELSE 0) <= 1 /\ git.remote <= git.local

(* A condition that is True on the API server stays True: no write based on *)
(* a stale copy of the status gets through.                                 *)
ConditionsKept == [][api.done <= api'.done]_vars

(* The plan was lost after ResourcesPlanned was written: GenerateManifests  *)
(* fails in this and in every later Reconcile.                              *)
PlanLost == api.done = 2 /\ "plan" \notin ctx

(* With finitely many faults, a normal intent that is not deleted gets all  *)
(* five conditions, or has lost its plan, and stays so.                     *)
EventuallySettled ==
    <>[](\/ profile # "normal"
         \/ api.deleting \/ ~api.exists
         \/ api.done = 5
         \/ PlanLost)

(* What the ReconciliationCompleted event says: a Completed intent has been *)
(* deployed, that is, its manifests are in the Git repository.              *)
CompletedMeansCommitted == api.phase = "Completed" => git.remote > 0

(* What networkintent_cleanup_test.go asks for: a deletion ends once Git    *)
(* works.  The code does not keep it: with a clean index the commit of no   *)
(* files fails every time and the finalizer stays.                          *)
IntentDeletionEnds == api.deleting ~> ~api.exists
=============================================================================
