------------------------- MODULE NetworkIntent_proofs -------------------------
(***************************************************************************)
(* Proofs about the NetworkIntent controller, for any number of faults.    *)
(*                                                                         *)
(* None of the three invariants is inductive.  That manifests are committed*)
(* once depends on what the status said when the plan was made: a stage    *)
(* runs only after a status write that was based on the current version,   *)
(* so its copy counts the conditions as the API server does (InStep), and  *)
(* a commit exists only once that count has reached three (CommitsLate).   *)
(***************************************************************************)
EXTENDS NetworkIntentReconciler, TLAPS

InPipeline == pc \in {"bypass", "enter", "run", "processed"}

Repos == [local : Nat, remote : Nat, staged : BOOLEAN]

Shapes ==
    /\ api \in Objects /\ cache \in Objects /\ obj \in Objects
    /\ git \in Repos
    /\ pc \in {"enter", "run", "processed"} => obj.done <= 4
    /\ pc = "processed" => obj.done = 0

(* The informer's copy is the object, when nothing was written since.       *)
CacheIsApi == cacheFresh => cache = api

Guarded == api.finalizer \/ ~api.exists
FinalizerKnown ==
    /\ cache.finalizer => Guarded
    /\ InPipeline => Guarded

(* Reconcile's copy does not trail behind a status it may overwrite, and is *)
(* in step with it inside a stage.                                          *)
InStep ==
    /\ fresh /\ pc # "idle" => obj.done >= api.done
    /\ pc \in {"run", "processed"} => obj.done = api.done

(* There is a commit, or a push under way, only after three conditions.     *)
CommitsLate == git.local > 0 \/ Pending => api.done >= 3

(* A Reconcile that holds a plan or manifests and has not passed the commit *)
(* finds the repository untouched.                                          *)
Untouched ==
    /\ pc \in {"enter", "run", "processed"}
    /\ "plan" \in ctx \/ "manifests" \in ctx
    /\ obj.done <= 3
    => git.local = 0 /\ ~Pending

(* The late goroutine has not staged anything yet.                          *)
Calm == late => ~git.staged

(* Every copy of the status that names a commit is true.                    *)
CopiesTrue ==
    api.reason = "committed" \/ cache.reason = "committed"
      \/ obj.reason = "committed" => git.remote > 0

IntentInv ==
    /\ Shapes /\ CacheIsApi /\ FinalizerKnown /\ InStep
    /\ CommitsLate /\ Untouched /\ CopiesTrue /\ Calm
    /\ GuardedByFinalizer /\ CommitsAtMostOnce

-----------------------------------------------------------------------------
(* What a step has to say about the repository and about its next place,    *)
(* when it ends with the copy o of the object.                              *)

RepoOk ==
    /\ git' \in Repos
    /\ CommitsAtMostOnce' /\ Calm'
    /\ git'.remote >= git.remote
    /\ git'.local > 0 \/ Pending' => api.done >= 3 /\ Guarded

PlaceOk(o) ==
    /\ pc' \in {"enter", "run", "processed"} => o.done <= 4
    /\ pc' = "processed" => o.done = 0
    /\ InPipeline' => InPipeline
    /\ /\ pc' \in {"enter", "run", "processed"}
       /\ "plan" \in ctx' \/ "manifests" \in ctx'
       /\ o.done <= 3
       => git'.local = 0 /\ ~Pending'

(* What CommitAndPush does to the clone.                                    *)
LEMMA RepoSteps ==
    ASSUME NEW g \in Repos
    PROVE  /\ Staged(g) = [local |-> g.local, remote |-> g.remote,
                           staged |-> TRUE]
           /\ Committed(g) = [local |-> g.local + 1, remote |-> g.remote,
                              staged |-> FALSE]
           /\ Pushed(Committed(g)) = [local |-> g.local + 1,
                                      remote |-> g.local + 1,
                                      staged |-> FALSE]
<1>1. Pushed(Committed(g)) = [Committed(g) EXCEPT !.remote = g.local + 1]
  BY DEF Pushed, Committed
<1>2. ASSUME NEW b
      PROVE  [[local |-> g.local + 1, remote |-> g.remote, staged |-> b]
                 EXCEPT !.remote = g.local + 1]
             = [local |-> g.local + 1, remote |-> g.local + 1, staged |-> b]
  OBVIOUS
<1> QED BY <1>1, <1>2 DEF Staged, Committed

(* A step that leaves the repository alone.                                 *)
LEMMA RepoSame == ASSUME IntentInv, UNCHANGED repo PROVE RepoOk
  BY DEF IntentInv, Shapes, CommitsLate, GuardedByFinalizer, Guarded,
         CommitsAtMostOnce, Pending, Calm, RepoOk, Repos, repo

(* A new object, with no finalizer and no condition.                        *)
LEMMA InitIntent == Init => IntentInv
<1> SUFFICES ASSUME Init PROVE IntentInv
  OBVIOUS
<1>1. NewObject \in Objects /\ NewObject.done = 0
      /\ NewObject.reason # "committed" /\ ~NewObject.finalizer
  BY DEF NewObject, Objects, AllPhases
<1>2. Shapes
  BY <1>1 DEF Init, Shapes, Repos
<1>3. CacheIsApi /\ FinalizerKnown /\ InStep /\ Untouched /\ CopiesTrue
  BY <1>1 DEF Init, CacheIsApi, FinalizerKnown, InPipeline, InStep, Untouched,
              CopiesTrue
<1>4. CommitsLate /\ GuardedByFinalizer /\ CommitsAtMostOnce
  BY DEF Init, CommitsLate, GuardedByFinalizer, CommitsAtMostOnce, Pending
<1>5. Calm
  BY DEF Init, Calm
<1> QED BY <1>2, <1>3, <1>4, <1>5 DEF IntentInv

(* A status update that the API server accepts.                             *)
LEMMA Accepted ==
    ASSUME IntentInv, NEW o \in Objects, Written(o, TRUE),
           o.done >= api.done, o.reason = "committed" => git'.remote > 0,
           RepoOk, PlaceOk(o)
    PROVE  IntentInv' /\ api.done <= api'.done
<1>1. /\ api' = [api EXCEPT !.phase = o.phase, !.done = o.done,
                            !.reason = o.reason]
      /\ cacheFresh' = FALSE /\ cache' = cache
      /\ obj' = api' /\ fresh' = TRUE
  BY DEF Written
<1>2. /\ api' \in Objects /\ api'.done = o.done /\ api'.reason = o.reason
      /\ api'.finalizer = api.finalizer /\ api'.exists = api.exists
      /\ api.done \in Nat /\ o.done \in Nat
  <2>1. api \in Objects
    BY DEF IntentInv, Shapes
  <2>2. api = [exists |-> api.exists, deleting |-> api.deleting,
               finalizer |-> api.finalizer, phase |-> api.phase,
               done |-> api.done, reason |-> api.reason]
    BY <2>1 DEF Objects
  <2>3. api' = [exists |-> api.exists, deleting |-> api.deleting,
                finalizer |-> api.finalizer, phase |-> o.phase,
                done |-> o.done, reason |-> o.reason]
    BY <1>1, <2>2
  <2>4. api' \in Objects
    BY <2>1, <2>3 DEF Objects
  <2>5. api.done \in Nat /\ o.done \in Nat
    BY <2>1 DEF Objects
  <2> QED BY <2>3, <2>4, <2>5
<1>3. Guarded' = Guarded
  BY <1>2 DEF Guarded
<1>4. Shapes'
  BY <1>1, <1>2 DEF IntentInv, Shapes, PlaceOk, RepoOk
<1>5. CacheIsApi'
  BY <1>1 DEF CacheIsApi
<1>6. FinalizerKnown'
  BY <1>1, <1>3 DEF IntentInv, FinalizerKnown, PlaceOk
<1>7. InStep'
  BY <1>1, <1>2 DEF InStep
<1>8. CommitsLate'
  BY <1>2 DEF CommitsLate, RepoOk
<1>9. Untouched'
  BY <1>1, <1>2 DEF Untouched, PlaceOk
<1>10. CopiesTrue'
  BY <1>1, <1>2 DEF IntentInv, Shapes, Repos, CopiesTrue, RepoOk
<1>11. GuardedByFinalizer'
  BY <1>2 DEF GuardedByFinalizer, RepoOk, Guarded
<1> QED
  BY <1>2, <1>4, <1>5, <1>6, <1>7, <1>8, <1>9, <1>10, <1>11
  DEF IntentInv, RepoOk

(* A step that changes Reconcile's copy at most, and does not enter a stage.*)
LEMMA KeptBack ==
    ASSUME IntentInv, NEW o \in Objects, Written(o, FALSE), pc # "idle",
           o.done >= obj.done, o.reason = "committed" => git'.remote > 0,
           pc' \in {"idle", "enter", "finish", "failed", "retry", "ready",
                      "release"},
           RepoOk, PlaceOk(o)
    PROVE  IntentInv' /\ api.done <= api'.done
<1>1. api' = api /\ cache' = cache /\ cacheFresh' = cacheFresh /\ obj' = o
      /\ fresh' = fresh
  BY DEF Written, server
<1>2. api.done \in Nat /\ o.done \in Nat /\ obj.done \in Nat
  BY DEF Objects, IntentInv, Shapes
<1>4. Shapes'
  BY <1>1 DEF IntentInv, Shapes, PlaceOk, RepoOk
<1>5. CacheIsApi'
  BY <1>1 DEF IntentInv, CacheIsApi
<1>6. FinalizerKnown'
  BY <1>1 DEF IntentInv, FinalizerKnown, PlaceOk, Guarded
<1>7. InStep'
  BY <1>1, <1>2 DEF IntentInv, InStep
<1>8. CommitsLate'
  BY <1>1 DEF CommitsLate, RepoOk
<1>9. Untouched'
  BY <1>1 DEF Untouched, PlaceOk
<1>10. CopiesTrue'
  BY <1>1 DEF IntentInv, Shapes, Repos, CopiesTrue, RepoOk
<1>11. GuardedByFinalizer'
  BY <1>1 DEF GuardedByFinalizer, RepoOk, Guarded
<1> QED
  BY <1>1, <1>2, <1>4, <1>5, <1>6, <1>7, <1>8, <1>9, <1>10, <1>11
  DEF IntentInv, RepoOk

(* An object is the record of its fields.                                   *)
LEMMA ObjectFields ==
    ASSUME NEW x \in Objects
    PROVE  /\ x = [exists |-> x.exists, deleting |-> x.deleting,
                   finalizer |-> x.finalizer, phase |-> x.phase,
                   done |-> x.done, reason |-> x.reason]
           /\ x.exists \in BOOLEAN /\ x.deleting \in BOOLEAN
           /\ x.finalizer \in BOOLEAN /\ x.phase \in AllPhases
           /\ x.done \in 0..5 /\ x.reason \in {"none", "committed", "skipped"}
  BY DEF Objects

(* Edits of a copy of the object: of its phase alone.                       *)
LEMMA EditPhase ==
    ASSUME NEW x \in Objects, NEW p \in AllPhases
    PROVE  LET y == [x EXCEPT !.phase = p]
           IN  y \in Objects /\ y.done = x.done /\ y.reason = x.reason
<1> DEFINE y == [x EXCEPT !.phase = p]
<1>1. y = [exists |-> x.exists, deleting |-> x.deleting,
           finalizer |-> x.finalizer, phase |-> p,
           done |-> x.done, reason |-> x.reason]
  BY ObjectFields
<1> HIDE DEF y
<1>2. y \in Objects /\ y.done = x.done /\ y.reason = x.reason
  BY <1>1, ObjectFields DEF Objects
<1> QED BY <1>2 DEF y

(* The count of the conditions.                                             *)
LEMMA EditDone ==
    ASSUME NEW x \in Objects, NEW n \in 0..5
    PROVE  LET y == [x EXCEPT !.done = n]
           IN  y \in Objects /\ y.done = n /\ y.reason = x.reason
<1> DEFINE y == [x EXCEPT !.done = n]
<1>1. y = [exists |-> x.exists, deleting |-> x.deleting,
           finalizer |-> x.finalizer, phase |-> x.phase,
           done |-> n, reason |-> x.reason]
  BY ObjectFields
<1> HIDE DEF y
<1>2. y \in Objects /\ y.done = n /\ y.reason = x.reason
  BY <1>1, ObjectFields DEF Objects
<1> QED BY <1>2 DEF y

(* Both.                                                                    *)
LEMMA EditPhaseDone ==
    ASSUME NEW x \in Objects, NEW p \in AllPhases, NEW n \in 0..5
    PROVE  LET y == [x EXCEPT !.phase = p, !.done = n]
           IN  y \in Objects /\ y.done = n /\ y.reason = x.reason
<1> DEFINE y == [x EXCEPT !.phase = p, !.done = n]
<1>1. y = [exists |-> x.exists, deleting |-> x.deleting,
           finalizer |-> x.finalizer, phase |-> p,
           done |-> n, reason |-> x.reason]
  <2>1. x = [exists |-> x.exists, deleting |-> x.deleting,
             finalizer |-> x.finalizer, phase |-> x.phase,
             done |-> x.done, reason |-> x.reason]
    BY ObjectFields
  <2>2. ASSUME NEW z, z = [x EXCEPT !.phase = p, !.done = n]
        PROVE  z = [exists |-> x.exists, deleting |-> x.deleting,
                    finalizer |-> x.finalizer, phase |-> p,
                    done |-> n, reason |-> x.reason]
    BY <2>1, <2>2
  <2> QED BY <2>2
<1> HIDE DEF y
<1>2. y \in Objects /\ y.done = n /\ y.reason = x.reason
  BY <1>1, ObjectFields DEF Objects
<1> QED BY <1>2 DEF y

(* The count and the reason of the commit's condition.                      *)
LEMMA EditReason ==
    ASSUME NEW x \in Objects, NEW n \in 0..5,
           NEW r \in {"none", "committed", "skipped"}
    PROVE  LET y == [x EXCEPT !.done = n, !.reason = r]
           IN  y \in Objects /\ y.done = n /\ y.reason = r
<1> DEFINE y == [x EXCEPT !.done = n, !.reason = r]
<1>1. y = [exists |-> x.exists, deleting |-> x.deleting,
           finalizer |-> x.finalizer, phase |-> x.phase,
           done |-> n, reason |-> r]
  <2>1. x = [exists |-> x.exists, deleting |-> x.deleting,
             finalizer |-> x.finalizer, phase |-> x.phase,
             done |-> x.done, reason |-> x.reason]
    BY ObjectFields
  <2>2. ASSUME NEW z, z = [x EXCEPT !.done = n, !.reason = r]
        PROVE  z = [exists |-> x.exists, deleting |-> x.deleting,
                    finalizer |-> x.finalizer, phase |-> x.phase,
                    done |-> n, reason |-> r]
    BY <2>1, <2>2
  <2> QED BY <2>2
<1> HIDE DEF y
<1>2. y \in Objects /\ y.done = n /\ y.reason = r
  BY <1>1, ObjectFields DEF Objects
<1> QED BY <1>2 DEF y

(* The updates of Reconcile, accepted and refused.                          *)
LEMMA WriteKeeps ==
    ASSUME IntentInv, pc # "idle", NEW o \in Objects, o.done >= obj.done,
           o.reason = "committed" => git'.remote > 0, RepoOk, PlaceOk(o),
           \/ StatusWrite(o, fresh)
           \/ /\ Refused(o, fresh) \/ Written(o, FALSE) \/ Written(o, fresh)
              /\ pc' \in {"idle", "enter", "finish", "failed", "retry", "ready",
                      "release"}
    PROVE  IntentInv' /\ api.done <= api'.done
<1>1. CASE fresh /\ Written(o, TRUE)
  <2>1. o.done \in Nat /\ obj.done \in Nat /\ api.done \in Nat
    BY DEF Objects, IntentInv, Shapes
  <2>2. o.done >= api.done
    BY <1>1, <2>1 DEF IntentInv, InStep
  <2> QED BY <1>1, <2>2, Accepted
<1>2. CASE /\ Written(o, FALSE)
           /\ pc' \in {"idle", "enter", "finish", "failed", "retry", "ready",
                      "release"}
  BY <1>2, KeptBack
<1> QED BY <1>1, <1>2 DEF StatusWrite, Refused, Written

(* The same for a step that touches neither the repository nor the context. *)
LEMMA StatusKeeps ==
    ASSUME IntentInv, pc # "idle", NEW o \in Objects, o.done >= obj.done,
           o.reason = obj.reason \/ o.reason # "committed",
           UNCHANGED <<ctx, repo>>,
           pc' \in {"enter", "run", "processed"}
              => o.done <= 4 /\ pc \in {"enter", "run", "processed"},
           pc' = "processed" => o.done = 0,
           pc' # "bypass",
           \/ StatusWrite(o, fresh)
           \/ /\ Refused(o, fresh) \/ Written(o, FALSE) \/ Written(o, fresh)
              /\ pc' \in {"idle", "enter", "finish", "failed", "retry", "ready",
                      "release"}
    PROVE  IntentInv' /\ api.done <= api'.done
<1>1. RepoOk
  BY RepoSame
<1>2. o.reason = "committed" => git'.remote > 0
  BY DEF IntentInv, CopiesTrue, repo
<1>3. PlaceOk(o)
  <2>1. o.done \in Nat /\ obj.done \in Nat
    BY DEF Objects, IntentInv, Shapes
  <2>2. o.done <= 3 => obj.done <= 3
    BY <2>1
  <2>3. InPipeline' => InPipeline
    BY DEF InPipeline
  <2> QED BY <2>2, <2>3 DEF PlaceOk, IntentInv, Untouched, Pending, repo
<1> QED BY <1>1, <1>2, <1>3, WriteKeeps

(* Everything else that leaves the status on the API server alone.          *)
LEMMA QuietKeeps ==
    ASSUME IntentInv, UNCHANGED <<api, pc, obj, ctx, git, late>>,
           cache' = cache \/ cache' = api,
           cacheFresh' => cache' = api,
           fresh' => fresh
    PROVE  IntentInv' /\ api.done <= api'.done
<1>0. api.done \in Nat
  BY DEF Objects, IntentInv, Shapes
<1>1. Shapes' /\ CacheIsApi' /\ InStep' /\ CommitsLate' /\ Untouched'
  BY DEF IntentInv, Shapes, CacheIsApi, InStep, CommitsLate, Untouched,
         Pending
<1>2. FinalizerKnown' /\ CopiesTrue'
  BY DEF IntentInv, FinalizerKnown, CopiesTrue, Guarded, InPipeline
<1>3. GuardedByFinalizer' /\ CommitsAtMostOnce' /\ Calm'
  BY DEF IntentInv, GuardedByFinalizer, CommitsAtMostOnce, Pending, Calm
<1> QED BY <1>0, <1>1, <1>2, <1>3 DEF IntentInv

(* What every step does.                                                    *)
Kept == IntentInv' /\ api.done <= api'.done

(* The types of the three copies.                                           *)
LEMMA ObjFacts ==
    ASSUME IntentInv
    PROVE  /\ obj \in Objects /\ cache \in Objects /\ api \in Objects
           /\ obj.done \in 0..5 /\ api.done \in 0..5
           /\ "Error" \in AllPhases /\ "Processed" \in AllPhases
           /\ "Completed" \in AllPhases
  BY DEF IntentInv, Shapes, Objects, AllPhases

(* Reconcile reads the informer's copy and starts with an empty context.    *)
LEMMA ReadKeeps == ASSUME IntentInv, Read PROVE Kept
<1>1. /\ api' = api /\ cache' = cache /\ cacheFresh' = cacheFresh
      /\ git' = git /\ late' = late /\ obj' = cache /\ fresh' = cacheFresh
      /\ ctx' = {} /\ pc' = firstStep(cache)
  BY DEF Read, server, repo
<1>2. cache.done \in 0..5 /\ api.done \in 0..5
  BY DEF IntentInv, Shapes, Objects
<1>3. /\ pc' \notin {"run", "processed"}
      /\ pc' = "enter" => cache.done <= 4
      /\ pc' \in {"bypass", "enter"} => cache.finalizer
  BY <1>1, <1>2 DEF firstStep, stageOf
<1>4. Shapes' /\ CacheIsApi' /\ CommitsLate' /\ Untouched'
  BY <1>1, <1>3 DEF IntentInv, Shapes, CacheIsApi, CommitsLate, Untouched,
                    Pending
<1>5. InStep'
  BY <1>1, <1>2, <1>3 DEF IntentInv, CacheIsApi, InStep
<1>6. FinalizerKnown'
  BY <1>1, <1>3 DEF IntentInv, FinalizerKnown, InPipeline, Guarded
<1>7. CopiesTrue' /\ GuardedByFinalizer' /\ CommitsAtMostOnce' /\ Calm'
  BY <1>1 DEF IntentInv, CopiesTrue, GuardedByFinalizer, CommitsAtMostOnce,
              Pending, Calm
<1> QED BY <1>1, <1>2, <1>4, <1>5, <1>6, <1>7 DEF IntentInv, Kept

(* Updates of the object itself: the finalizer and the deletion.            *)
LEMMA ObjectKeeps ==
    ASSUME IntentInv, api' \in Objects, api'.done = api.done,
           api'.reason = api.reason, Guarded => Guarded', ~cacheFresh',
           UNCHANGED <<cache, obj, ctx, git, late>>,
           pc' = pc \/ pc' = "idle", fresh' => fresh
    PROVE  Kept
<1>0. api.done \in Nat
  BY DEF Objects, IntentInv, Shapes
<1>1. Shapes' /\ CacheIsApi' /\ InStep' /\ CommitsLate' /\ Untouched'
  BY DEF IntentInv, Shapes, CacheIsApi, InStep, CommitsLate, Untouched,
         Pending
<1>2. FinalizerKnown' /\ CopiesTrue'
  BY DEF IntentInv, FinalizerKnown, CopiesTrue, InPipeline
<1>3. CommitsAtMostOnce' /\ GuardedByFinalizer' /\ Calm'
  BY DEF IntentInv, GuardedByFinalizer, CommitsAtMostOnce, Guarded, Pending,
         Calm
<1> QED BY <1>0, <1>1, <1>2, <1>3 DEF IntentInv, Kept

(* AddFinalizer, RemoveFinalizer and a user's delete.                       *)
LEMMA FinalizerKeeps ==
    ASSUME IntentInv, AddFinalizer \/ RemoveFinalizer \/ UserDelete
    PROVE  Kept
<1>0. /\ api \in Objects
      /\ api = [exists |-> api.exists, deleting |-> api.deleting,
                finalizer |-> api.finalizer, phase |-> api.phase,
                done |-> api.done, reason |-> api.reason]
  BY DEF IntentInv, Shapes, Objects
<1>1. ASSUME pc # "idle", Refused(obj, fresh), pc' = "idle",
             UNCHANGED <<ctx, repo>>
      PROVE  Kept
  <2>1. obj.done >= obj.done
    BY ObjFacts
  <2> QED BY <1>1, <2>1, StatusKeeps, ObjFacts DEF Kept
<1>2. CASE AddFinalizer
  <2>1. CASE /\ api' = [api EXCEPT !.finalizer = TRUE] /\ cacheFresh' = FALSE
             /\ UNCHANGED <<cache, obj, fresh>>
    <3>1. api' = [exists |-> api.exists, deleting |-> api.deleting,
                  finalizer |-> TRUE, phase |-> api.phase,
                  done |-> api.done, reason |-> api.reason]
      BY <1>0, <2>1
    <3>2. api' \in Objects
      BY <1>0, <3>1 DEF Objects
    <3>3. api'.done = api.done /\ api'.reason = api.reason
          /\ api'.finalizer = TRUE
      BY <3>1
    <3> QED BY <1>2, <2>1, <3>2, <3>3, ObjectKeeps
            DEF AddFinalizer, repo, Guarded
  <2> QED BY <1>1, <1>2, <2>1 DEF AddFinalizer
<1>3. CASE RemoveFinalizer
  <2>1. CASE /\ api' = [api EXCEPT !.exists = FALSE, !.finalizer = FALSE]
             /\ cacheFresh' = FALSE
             /\ UNCHANGED <<cache, obj, fresh>>
    <3>1. api' = [exists |-> FALSE, deleting |-> api.deleting,
                  finalizer |-> FALSE, phase |-> api.phase,
                  done |-> api.done, reason |-> api.reason]
      BY <1>0, <2>1
    <3>2. api' \in Objects
      BY <1>0, <3>1 DEF Objects
    <3>3. api'.done = api.done /\ api'.reason = api.reason
          /\ api'.exists = FALSE
      BY <3>1
    <3> QED BY <1>3, <2>1, <3>2, <3>3, ObjectKeeps
            DEF RemoveFinalizer, repo, Guarded
  <2> QED BY <1>1, <1>3, <2>1 DEF RemoveFinalizer
<1>4. CASE UserDelete
  <2>1. \/ /\ api.finalizer
           /\ api' = [exists |-> api.exists, deleting |-> TRUE,
                      finalizer |-> api.finalizer, phase |-> api.phase,
                      done |-> api.done, reason |-> api.reason]
        \/ api' = [exists |-> FALSE, deleting |-> api.deleting,
                   finalizer |-> api.finalizer, phase |-> api.phase,
                   done |-> api.done, reason |-> api.reason]
    BY <1>0, <1>4 DEF UserDelete
  <2>2. api' \in Objects
    BY <1>0, <2>1, ObjectFields DEF Objects
  <2>3. /\ api'.done = api.done /\ api'.reason = api.reason
        /\ Guarded => Guarded'
    BY <2>1 DEF Guarded
  <2> QED BY <1>4, <2>2, <2>3, ObjectKeeps DEF UserDelete, repo
<1> QED BY <1>2, <1>3, <1>4

(* ENABLE_LLM_INTENT=false counts one condition at most.                    *)
LEMMA BypassKeeps == ASSUME IntentInv, Bypass PROVE Kept
<1> DEFINE n == IF obj.done = 0 THEN 1 ELSE obj.done
           o == [obj EXCEPT !.phase = "Processed", !.done = n]
<1>1. n \in 0..5 /\ n >= obj.done
  BY ObjFacts
<1> HIDE DEF n
<1>2. o \in Objects /\ o.done = n /\ o.reason = obj.reason
  BY <1>1, ObjFacts, EditPhaseDone
<1>3. TryWrite(o, fresh)
  BY DEF Bypass, n
<1> HIDE DEF o
<1> QED BY <1>1, <1>2, <1>3, StatusKeeps DEF Bypass, TryWrite, Kept

(* updatePhase lets a stage begin only on the current version.              *)
LEMMA EnterKeeps == ASSUME IntentInv, EnterStage PROVE Kept
<1> DEFINE o == [obj EXCEPT !.phase = Phases[stageOf(obj)]]
<1>1. obj.done \in 0..4
  BY ObjFacts DEF EnterStage, IntentInv, Shapes
<1>2. Phases[stageOf(obj)] \in AllPhases
  <2>1. stageOf(obj) \in 1..5
    BY <1>1 DEF stageOf
  <2> QED BY <2>1 DEF AllPhases
<1>3. o \in Objects /\ o.done = obj.done /\ o.reason = obj.reason
  BY <1>2, ObjFacts, EditPhase
<1>4. \/ StatusWrite(o, fresh) /\ pc' = "run"
      \/ Refused(o, fresh) /\ pc' = "failed"
  BY DEF EnterStage
<1> HIDE DEF o
<1>5. o.done >= obj.done /\ o.done <= 4
  BY <1>1, <1>3
<1> QED BY <1>3, <1>4, <1>5, StatusKeeps DEF EnterStage, Kept

(* Inside a stage the copy counts the conditions as the API server does.    *)
LEMMA StageFacts ==
    ASSUME IntentInv, NEW i \in 1..5, AtStage(i)
    PROVE  /\ pc = "run" /\ obj.done = i - 1 /\ api.done = i - 1
           /\ obj.done \in Nat /\ InPipeline
  BY ObjFacts DEF AtStage, stageOf, IntentInv, InStep, InPipeline

(* Every branch in which the LLM stage does not write its condition.        *)
LEMMA LLMFailsKeeps == ASSUME IntentInv, LLMFails PROVE Kept
<1> DEFINE o == [obj EXCEPT !.phase = "Error"]
<1>0. /\ pc = "run" /\ obj.done = 0 /\ api.done = 0 /\ InPipeline
      /\ UNCHANGED <<ctx, repo>>
  BY StageFacts DEF LLMFails
<1>00. obj.done >= obj.done
  BY <1>0
<1>1. o \in Objects /\ o.done = obj.done /\ o.reason = obj.reason
  BY ObjFacts, EditPhase
<1>11. o.done >= obj.done /\ o.done >= api.done
  BY <1>0, <1>1
<1>2. CASE TryWrite(obj, fresh) /\ pc' = "failed"
  BY <1>0, <1>00, <1>2, StatusKeeps, ObjFacts DEF TryWrite, Kept
<1>3. CASE TryWrite(o, fresh) /\ pc' = "idle"
  <2> HIDE DEF o
  <2> QED BY <1>0, <1>1, <1>11, <1>3, StatusKeeps DEF TryWrite, Kept
<1>4. CASE Written(obj, fresh) /\ pc' = "failed"
  BY <1>0, <1>00, <1>4, StatusKeeps, ObjFacts DEF Kept
<1>5. CASE pc' = "retry" /\ UNCHANGED <<server, obj, fresh>>
  <2>1. Written(obj, FALSE)
    BY <1>5 DEF Written
  <2> QED BY <1>0, <1>00, <1>5, <2>1, StatusKeeps, ObjFacts DEF Kept
<1>6. CASE Written(o, fresh) /\ pc' = "retry"
  <2> HIDE DEF o
  <2> QED BY <1>0, <1>1, <1>11, <1>6, StatusKeeps DEF Kept
<1>7. CASE Written(o, TRUE) /\ pc' = "retry"
  <2> HIDE DEF o
  <2>1. RepoOk
    BY <1>0, RepoSame
  <2>2. PlaceOk(o)
    BY <1>7 DEF PlaceOk, InPipeline
  <2>3. o.reason = "committed" => git'.remote > 0
    BY <1>0, <1>1 DEF IntentInv, CopiesTrue, repo
  <2> QED BY <1>0, <1>1, <1>11, <1>7, <2>1, <2>2, <2>3, Accepted DEF Kept
<1>8. /\ \/ TryWrite(obj, fresh) /\ pc' = "failed"
         \/ TryWrite(o, fresh) /\ pc' = "idle"
         \/ Written(obj, fresh) /\ pc' = "failed"
         \/ pc' = "retry" /\ UNCHANGED <<server, obj, fresh>>
         \/ Written(o, fresh) /\ pc' = "retry"
         \/ Written(o, TRUE) /\ pc' = "retry"
  BY DEF LLMFails
<1> HIDE DEF o
<1> QED BY <1>2, <1>3, <1>4, <1>5, <1>6, <1>7, <1>8

(* The two writes of a successful LLM stage.                                *)
LEMMA LLMKeeps == ASSUME IntentInv, LLMParameters \/ LLMProcessed PROVE Kept
<1>1. CASE LLMParameters
  <2>1. pc = "run" /\ obj.done = 0
    BY <1>1, StageFacts DEF LLMParameters
  <2>2. obj.done >= obj.done /\ obj.done <= 4
    BY <2>1
  <2> QED BY <1>1, <2>1, <2>2, StatusKeeps, ObjFacts DEF LLMParameters, Kept
<1>2. CASE LLMProcessed
  <2> DEFINE o == [obj EXCEPT !.done = 1]
  <2>1. o \in Objects /\ o.done = 1 /\ o.reason = obj.reason
    <3>1. 1 \in 0..5
      OBVIOUS
    <3> QED BY <3>1, ObjFacts, EditDone
  <2>2. pc = "processed" /\ obj.done = 0 /\ UNCHANGED <<ctx, repo>>
    BY <1>2 DEF LLMProcessed, IntentInv, Shapes
  <2>3. \/ StatusWrite(o, fresh) /\ pc' \in {"enter", "finish"}
        \/ Refused(o, fresh) /\ pc' = "failed"
    BY <1>2 DEF LLMProcessed, StageDone
  <2> HIDE DEF o
  <2>4. o.done >= obj.done /\ o.done <= 4
    BY <2>1, <2>2
  <2> QED BY <2>1, <2>2, <2>3, <2>4, StatusKeeps DEF Kept
<1> QED BY <1>1, <1>2

(* A plan is made before anything was committed.                            *)
LEMMA PlanKeeps == ASSUME IntentInv, PlanResources PROVE Kept
<1> DEFINE o == [obj EXCEPT !.done = 2]
<1>1. o \in Objects /\ o.done = 2 /\ o.reason = obj.reason
  <2>1. 2 \in 0..5
    OBVIOUS
  <2> QED BY <2>1, ObjFacts, EditDone
<1>2. pc = "run" /\ obj.done = 1 /\ api.done = 1 /\ InPipeline
  BY StageFacts DEF PlanResources
<1>3. \/ StatusWrite(o, fresh) /\ pc' \in {"enter", "finish"}
      \/ Refused(o, fresh) /\ pc' = "failed"
  BY DEF PlanResources, StageDone
<1>4. UNCHANGED repo /\ RepoOk
  BY RepoSame DEF PlanResources
<1> HIDE DEF o
<1>5. git.local = 0 /\ ~Pending
  BY <1>2 DEF IntentInv, CommitsLate, Shapes, Pending, Repos
<1>6. PlaceOk(o)
  BY <1>1, <1>2, <1>3, <1>4, <1>5 DEF PlaceOk, Pending, repo
<1>7. o.done >= obj.done /\ (o.reason = "committed" => git'.remote > 0)
  BY <1>1, <1>2, <1>4 DEF IntentInv, CopiesTrue, repo
<1> QED BY <1>1, <1>2, <1>3, <1>4, <1>6, <1>7, WriteKeeps DEF Kept

(* Manifests are made from a plan of the same Reconcile.                    *)
LEMMA GenerateKeeps == ASSUME IntentInv, GenerateManifests PROVE Kept
<1>1. /\ pc = "run" /\ obj.done = 2 /\ api.done = 2 /\ InPipeline
      /\ obj.done >= obj.done
  BY StageFacts DEF GenerateManifests
<1>2. CASE "plan" \in ctx /\ StageDone([obj EXCEPT !.done = 3])
  <2> DEFINE o == [obj EXCEPT !.done = 3]
  <2>1. o \in Objects /\ o.done = 3 /\ o.reason = obj.reason
    <3>1. 3 \in 0..5
      OBVIOUS
    <3> QED BY <3>1, ObjFacts, EditDone
  <2>2. \/ StatusWrite(o, fresh) /\ pc' \in {"enter", "finish"}
        \/ Refused(o, fresh) /\ pc' = "failed"
    BY <1>2 DEF StageDone
  <2>3. UNCHANGED repo /\ RepoOk
    BY RepoSame DEF GenerateManifests
  <2> HIDE DEF o
  <2>4. git.local = 0 /\ ~Pending
    BY <1>1, <1>2 DEF IntentInv, Untouched
  <2>5. PlaceOk(o)
    BY <1>1, <2>1, <2>2, <2>3, <2>4 DEF PlaceOk, Pending, repo
  <2>6. o.done >= obj.done /\ (o.reason = "committed" => git'.remote > 0)
    BY <1>1, <2>1, <2>3 DEF IntentInv, CopiesTrue, repo
  <2> QED BY <1>1, <2>1, <2>2, <2>3, <2>5, <2>6, WriteKeeps DEF Kept
<1>3. CASE TryWrite(obj, fresh) /\ pc' = "failed" /\ UNCHANGED ctx
  BY <1>1, <1>3, StatusKeeps, ObjFacts DEF GenerateManifests, TryWrite, Kept
<1> QED BY <1>2, <1>3 DEF GenerateManifests

(* CommitToGitOps pushes into an untouched repository.                      *)
LEMMA CommitKeeps == ASSUME IntentInv, CommitToGitOps PROVE Kept
<1> DEFINE o == [obj EXCEPT !.done = 4, !.reason = "committed"]
<1>1. o \in Objects /\ o.done = 4 /\ o.reason = "committed"
  <2>1. 4 \in 0..5
    OBVIOUS
  <2>2. "committed" \in {"none", "committed", "skipped"}
    OBVIOUS
  <2>3. obj \in Objects
    BY ObjFacts
  <2> HIDE DEF o
  <2>4. \A n \in 0..5, r \in {"none", "committed", "skipped"} :
           LET y == [obj EXCEPT !.done = n, !.reason = r]
           IN  y \in Objects /\ y.done = n /\ y.reason = r
    BY <2>3, EditReason
  <2> QED BY <2>1, <2>2, <2>4 DEF o
<1>2. pc = "run" /\ obj.done = 3 /\ api.done = 3 /\ InPipeline
  BY StageFacts DEF CommitToGitOps
<1>3. \/ StatusWrite(o, fresh) /\ pc' \in {"enter", "finish"}
      \/ Refused(o, fresh) /\ pc' = "failed"
  BY DEF CommitToGitOps, StageDone
<1> HIDE DEF o
<1>4. git.local = 0 /\ ~Pending
  BY <1>2 DEF IntentInv, Untouched, CommitToGitOps
<1>5. git.remote = 0
  BY <1>4 DEF IntentInv, CommitsAtMostOnce, Shapes, Repos
<1>6. git' = [local |-> 1, remote |-> 1, staged |-> FALSE] /\ late' = late
  <2>1. git \in Repos /\ git' = Pushed(Committed(git)) /\ late' = late
    BY DEF CommitToGitOps, IntentInv, Shapes
  <2> QED BY <1>4, <2>1, RepoSteps
<1>7. RepoOk
  BY <1>2, <1>4, <1>5, <1>6
  DEF RepoOk, Repos, Pending, Calm, CommitsAtMostOnce, IntentInv,
      FinalizerKnown
<1>8. PlaceOk(o)
  BY <1>1, <1>2, <1>3 DEF PlaceOk
<1>9. o.done >= obj.done /\ git'.remote > 0
  BY <1>1, <1>2, <1>6
<1> QED BY <1>1, <1>2, <1>3, <1>7, <1>8, <1>9, WriteKeeps DEF Kept

(* A commit that is skipped claims none.                                    *)
LEMMA SkipKeeps == ASSUME IntentInv, SkipCommit PROVE Kept
<1> DEFINE o == [obj EXCEPT !.done = 4, !.reason = "skipped"]
<1>1. o \in Objects /\ o.done = 4 /\ o.reason = "skipped"
  <2>1. 4 \in 0..5
    OBVIOUS
  <2>2. "skipped" \in {"none", "committed", "skipped"}
    OBVIOUS
  <2>3. obj \in Objects
    BY ObjFacts
  <2> HIDE DEF o
  <2>4. \A n \in 0..5, r \in {"none", "committed", "skipped"} :
           LET y == [obj EXCEPT !.done = n, !.reason = r]
           IN  y \in Objects /\ y.done = n /\ y.reason = r
    BY <2>3, EditReason
  <2> QED BY <2>1, <2>2, <2>4 DEF o
<1>2. pc = "run" /\ obj.done = 3
  BY StageFacts DEF SkipCommit
<1>3. /\ StatusWrite(o, fresh) \/ Refused(o, fresh)
      /\ pc' \in {"enter", "finish"}
  BY DEF SkipCommit, StageSkipped, TryWrite
<1> HIDE DEF o
<1>4. o.done >= obj.done /\ o.done <= 4
  BY <1>1, <1>2
<1> QED BY <1>1, <1>2, <1>3, <1>4, StatusKeeps DEF SkipCommit, Kept

(* A failed or late CommitAndPush: at most one commit is left to come.      *)
LEMMA CommitFailsKeeps == ASSUME IntentInv, CommitFails PROVE Kept
<1>1. /\ pc = "run" /\ obj.done = 3 /\ api.done = 3 /\ InPipeline
      /\ Written(obj, fresh) /\ pc' = "retry"
  BY StageFacts DEF CommitFails
<1>2. git.local = 0 /\ ~Pending
  BY <1>1 DEF IntentInv, Untouched, CommitFails
<1>3. git.remote = 0
  BY <1>2 DEF IntentInv, CommitsAtMostOnce, Shapes, Repos
<1>4. Guarded
  BY <1>1 DEF IntentInv, FinalizerKnown
<1>5. RepoOk
  <2>1. git \in Repos /\ git.local = 0 /\ git.remote = 0 /\ ~late
        /\ git.staged = FALSE
    BY <1>2, <1>3 DEF IntentInv, Shapes, Repos, Pending
  <2>2. CASE git' = git /\ late' = late
    BY <2>2, RepoSame DEF repo
  <2>3. CASE git' = Staged(git) /\ late' = late
    <3>1. git' = [local |-> 0, remote |-> 0, staged |-> TRUE]
      BY <2>1, <2>3, RepoSteps
    <3>2. git'.local = 0 /\ git'.remote = 0 /\ git'.staged /\ git' \in Repos
      BY <3>1 DEF Repos
    <3> QED BY <1>1, <1>4, <2>1, <2>3, <3>2
            DEF RepoOk, Repos, CommitsAtMostOnce, Pending, Calm
  <2>4. CASE git' = Committed(git) /\ late' = late
    <3>1. git' = [local |-> 1, remote |-> 0, staged |-> FALSE]
      BY <2>1, <2>4, RepoSteps
    <3> QED BY <1>1, <1>4, <2>1, <2>4, <3>1
            DEF RepoOk, Repos, CommitsAtMostOnce, Pending, Calm
  <2>5. CASE late' = TRUE /\ git' = git
    BY <1>1, <1>4, <2>1, <2>5 DEF RepoOk, CommitsAtMostOnce, Pending, Calm
  <2> QED BY <2>2, <2>3, <2>4, <2>5 DEF CommitFails
<1>6. PlaceOk(obj)
  BY <1>1 DEF PlaceOk, InPipeline
<1>7. obj.done >= obj.done /\ (obj.reason = "committed" => git'.remote > 0)
  BY <1>1, <1>3 DEF IntentInv, CopiesTrue
<1> QED BY <1>1, <1>5, <1>6, <1>7, WriteKeeps, ObjFacts DEF Kept

(* VerifyDeployment is the last stage.                                      *)
LEMMA VerifyKeeps == ASSUME IntentInv, VerifyDeployment PROVE Kept
<1> DEFINE o == [obj EXCEPT !.done = 5]
<1>1. o \in Objects /\ o.done = 5 /\ o.reason = obj.reason
  <2>1. 5 \in 0..5
    OBVIOUS
  <2> QED BY <2>1, ObjFacts, EditDone
<1>2. pc = "run" /\ obj.done = 4
  BY StageFacts DEF VerifyDeployment
<1>3. /\ StatusWrite(o, fresh) \/ Refused(o, fresh)
      /\ pc' \in {"finish", "failed"}
  <2>1. ~(stageOf(o) <= 5)
    BY <1>1 DEF stageOf
  <2> QED BY <2>1 DEF VerifyDeployment, StageDone, StageSkipped, TryWrite
<1> HIDE DEF o
<1>4. o.done >= obj.done
  BY <1>1, <1>2
<1> QED BY <1>1, <1>2, <1>3, <1>4, StatusKeeps DEF VerifyDeployment, Kept

(* The end of Reconcile, good and bad.                                      *)
LEMMA EndKeeps == ASSUME IntentInv, Finish \/ SetReady PROVE Kept
<1>1. obj.done >= obj.done /\ pc # "idle" /\ UNCHANGED <<ctx, repo>>
  BY ObjFacts DEF Finish, SetReady
<1>2. CASE TryWrite(obj, fresh) /\ pc' = "idle"
  BY <1>1, <1>2, StatusKeeps, ObjFacts DEF TryWrite, Kept
<1>3. CASE Refused(obj, fresh) /\ pc' = "idle"
  BY <1>1, <1>3, StatusKeeps, ObjFacts DEF Kept
<1>4. CASE UNCHANGED <<server, obj, fresh>> /\ pc' = "idle"
  <2>1. Written(obj, FALSE)
    BY <1>4 DEF Written
  <2> QED BY <1>1, <1>4, <2>1, StatusKeeps, ObjFacts DEF Kept
<1>5. CASE StatusWrite([obj EXCEPT !.phase = "Completed"], fresh)
           /\ pc' = "ready"
  <2> DEFINE o == [obj EXCEPT !.phase = "Completed"]
  <2>1. o \in Objects /\ o.done = obj.done /\ o.reason = obj.reason
    BY ObjFacts, EditPhase
  <2>2. StatusWrite(o, fresh)
    BY <1>5
  <2> HIDE DEF o
  <2>3. o.done >= obj.done
    BY <2>1, <1>1
  <2> QED BY <1>1, <1>5, <2>1, <2>2, <2>3, StatusKeeps DEF Kept
<1> QED BY <1>2, <1>3, <1>4, <1>5 DEF Finish, SetReady

(* The phase Error goes out on the informer's copy.                         *)
LEMMA ReturnErrorKeeps == ASSUME IntentInv, ReturnError PROVE Kept
<1> DEFINE o == [cache EXCEPT !.phase = "Error"]
<1>1. /\ obj.done >= obj.done /\ pc # "idle" /\ UNCHANGED <<ctx, repo>>
      /\ pc' = "idle"
  BY ObjFacts DEF ReturnError
<1>2. \/ cacheFresh /\ Written(o, TRUE)
      \/ Written(obj, FALSE)
  BY DEF ReturnError, StatusWrite, Refused, Written
<1>3. CASE Written(obj, FALSE)
  BY <1>1, <1>3, StatusKeeps, ObjFacts DEF Kept
<1>4. CASE cacheFresh /\ Written(o, TRUE)
  <2>1. o \in Objects /\ o.done = cache.done /\ o.reason = cache.reason
    BY ObjFacts, EditPhase
  <2>2. cache.done = api.done
    BY <1>4 DEF IntentInv, CacheIsApi
  <2>3. Written(o, TRUE)
    BY <1>4
  <2> HIDE DEF o
  <2>4. o.done >= api.done
    BY <2>1, <2>2, ObjFacts
  <2>5. o.reason = "committed" => git'.remote > 0
    BY <1>1, <2>1 DEF IntentInv, CopiesTrue, repo
  <2>6. RepoOk /\ PlaceOk(o)
    BY <1>1, RepoSame DEF PlaceOk, InPipeline
  <2> QED BY <2>1, <2>3, <2>4, <2>5, <2>6, Accepted DEF Kept
<1> QED BY <1>2, <1>3, <1>4

(* The clean-up leaves the repository alone, or commits the left-overs of  *)
(* the intent's one CommitAndPush.                                          *)
LEMMA CleanupKeeps == ASSUME IntentInv, Cleanup PROVE Kept
<1>1. /\ pc = "cleanup" /\ pc' \in {"release", "idle"} /\ late' = late
      /\ Written(obj, FALSE)
  BY DEF Cleanup, work, Written
<1>2. \/ git' = git
      \/ git.staged /\ git' \in {Committed(git), Pushed(Committed(git))}
  BY DEF Cleanup
<1>3. RepoOk /\ git'.remote >= git.remote /\ git.remote \in Nat
      /\ git'.remote \in Nat
  <2>0. git \in Repos /\ git.remote \in Nat /\ git.local \in Nat
    BY DEF IntentInv, Shapes, Repos
  <2>1. CASE git' = git
    BY <1>1, <2>0, <2>1, RepoSame DEF repo
  <2>2. CASE git.staged /\ git' \in {Committed(git), Pushed(Committed(git))}
    <3>1. git.local = 0 /\ git.remote = 0
      BY <2>0, <2>2 DEF IntentInv, CommitsAtMostOnce, Pending
    <3>2. api.done >= 3 /\ Guarded
      BY <2>2, ObjFacts DEF IntentInv, CommitsLate, GuardedByFinalizer,
                            Guarded, Pending
    <3>3. git' \in {[local |-> 1, remote |-> 0, staged |-> FALSE],
                    [local |-> 1, remote |-> 1, staged |-> FALSE]}
      BY <2>0, <2>2, <3>1, RepoSteps
    <3>4. ~late
      <4>1. CommitsAtMostOnce /\ Calm
        BY DEF IntentInv
      <4> QED BY <2>2, <4>1 DEF Calm
    <3>5. git'.local = 1 /\ git'.remote \in 0..1 /\ ~git'.staged
          /\ git' \in Repos
      <4>1. CASE git' = [local |-> 1, remote |-> 0, staged |-> FALSE]
        BY <4>1 DEF Repos
      <4>2. CASE git' = [local |-> 1, remote |-> 1, staged |-> FALSE]
        BY <4>2 DEF Repos
      <4> QED BY <3>3, <4>1, <4>2
    <3> QED BY <1>1, <3>1, <3>2, <3>4, <3>5
            DEF RepoOk, Repos, CommitsAtMostOnce, Pending, Calm
  <2> QED BY <1>2, <2>1, <2>2
<1>5. PlaceOk(obj)
  BY <1>1 DEF PlaceOk, InPipeline
<1>6. obj.done >= obj.done /\ (obj.reason = "committed" => git'.remote > 0)
  BY <1>3, ObjFacts DEF IntentInv, CopiesTrue, Shapes
<1> QED BY <1>1, <1>3, <1>5, <1>6, KeptBack, ObjFacts DEF Kept

(* The goroutine that outlived its timeout is the only one that commits.    *)
LEMMA LatePushKeeps == ASSUME IntentInv, LatePush PROVE Kept
<1>1. /\ late /\ ~late'
      /\ UNCHANGED <<api, cache, cacheFresh, pc, obj, fresh, ctx>>
  BY DEF LatePush, server, work
<1>2. git.local = 0 /\ git.remote = 0 /\ git \in Repos
  BY <1>1 DEF IntentInv, CommitsAtMostOnce, Shapes, Pending, Repos
<1>3. /\ git' \in Repos /\ git'.remote <= git'.local
      /\ git'.local + (IF git'.staged THEN 1 ELSE 0) <= 1
  <2>1. git.staged = FALSE
    BY <1>1, <1>2 DEF IntentInv, Calm, Repos
  <2>2. git' \in {git, [local |-> 0, remote |-> 0, staged |-> TRUE],
                  [local |-> 1, remote |-> 0, staged |-> FALSE],
                  [local |-> 1, remote |-> 1, staged |-> FALSE]}
    BY <1>2, RepoSteps DEF LatePush
  <2>3. CASE git' = git
    BY <1>2, <2>1, <2>3
  <2>4. CASE git' = [local |-> 0, remote |-> 0, staged |-> TRUE]
    BY <2>4 DEF Repos
  <2>5. CASE git' = [local |-> 1, remote |-> 0, staged |-> FALSE]
    BY <2>5 DEF Repos
  <2>6. CASE git' = [local |-> 1, remote |-> 1, staged |-> FALSE]
    BY <2>6 DEF Repos
  <2> QED BY <2>2, <2>3, <2>4, <2>5, <2>6
<1>4. api.done >= 3 /\ (api.exists => api.finalizer) /\ api.done \in Nat
  BY <1>1, ObjFacts DEF IntentInv, CommitsLate, GuardedByFinalizer, Pending
<1>5. Shapes' /\ CacheIsApi' /\ InStep' /\ FinalizerKnown' /\ Calm'
  BY <1>1, <1>3 DEF IntentInv, Shapes, CacheIsApi, InStep, FinalizerKnown,
                    InPipeline, Guarded, Calm
<1>6. CommitsLate' /\ GuardedByFinalizer' /\ CommitsAtMostOnce'
  BY <1>1, <1>3, <1>4 DEF CommitsLate, GuardedByFinalizer, CommitsAtMostOnce,
                          Pending
<1>7. Untouched'
  BY <1>1 DEF IntentInv, Untouched, Pending
<1>8. CopiesTrue'
  BY <1>1, <1>2 DEF IntentInv, CopiesTrue
<1> QED BY <1>1, <1>4, <1>5, <1>6, <1>7, <1>8 DEF IntentInv, Kept

(* A crash takes the context and the late goroutine with it.                *)
LEMMA CrashKeeps == ASSUME IntentInv, Crash PROVE Kept
<1>1. /\ api' = api /\ cache' = api /\ obj' = obj /\ git' = git
      /\ pc' = "idle" /\ ctx' = {} /\ fresh' = FALSE /\ ~late'
  BY DEF Crash
<1>2. Shapes' /\ CacheIsApi' /\ InStep' /\ Untouched' /\ CommitsLate'
  BY <1>1 DEF IntentInv, Shapes, CacheIsApi, InStep, Untouched, CommitsLate,
              Pending
<1>3. FinalizerKnown' /\ CopiesTrue' /\ GuardedByFinalizer'
  BY <1>1 DEF IntentInv, FinalizerKnown, CopiesTrue, GuardedByFinalizer,
              InPipeline, Guarded, Pending
<1>4. CommitsAtMostOnce' /\ Calm'
  BY <1>1 DEF IntentInv, CommitsAtMostOnce, Shapes, Repos, Pending, Calm
<1> QED BY <1>1, <1>2, <1>3, <1>4, ObjFacts DEF IntentInv, Kept

(* The inductive step, action by action.                                    *)
LEMMA NextKeeps == IntentInv /\ [Next]_vars => Kept
<1> SUFFICES ASSUME IntentInv, [Next]_vars PROVE Kept
  OBVIOUS
<1>1. CASE Worker
  BY <1>1, ReadKeeps, FinalizerKeeps, BypassKeeps, EnterKeeps, LLMFailsKeeps,
     LLMKeeps, PlanKeeps, GenerateKeeps, CommitKeeps, SkipKeeps,
     CommitFailsKeeps, VerifyKeeps, EndKeeps, ReturnErrorKeeps, CleanupKeeps
  DEF Worker
<1>2. CASE CacheSync
  BY <1>2, QuietKeeps DEF CacheSync, work, repo, Kept
<1>3. CASE UserEdit
  BY <1>3, QuietKeeps DEF UserEdit, repo, Kept
<1>4. CASE UNCHANGED vars
  BY <1>4, QuietKeeps DEF vars, Kept, IntentInv, CacheIsApi
<1> QED
  BY <1>1, <1>2, <1>3, <1>4, LatePushKeeps, FinalizerKeeps, CrashKeeps
  DEF Next

(* The inductive invariant of the controller.                               *)
THEOREM ControllerInvariant == Spec => []IntentInv
<1>1. IntentInv /\ [Next]_vars => IntentInv'
  BY NextKeeps DEF Kept
<1> QED BY <1>1, InitIntent, PTL DEF Spec

(* However stages fail, time out and are retried, the status says committed *)
(* only of what was pushed (CommitToGitOps).                                *)
THEOREM CommittedTheorem == Spec => []CommittedMeansPushed
<1>1. IntentInv => CommittedMeansPushed
  BY DEF IntentInv, CopiesTrue, CommittedMeansPushed
<1> QED BY <1>1, ControllerInvariant, PTL

(* No retry, crash or late goroutine commits manifests a second time        *)
(* (CommitToGitOps, ExecuteWithTimeout).                                    *)
THEOREM OnceTheorem == Spec => []CommitsAtMostOnce
  BY ControllerInvariant, PTL DEF IntentInv

(* Nothing is committed before the finalizer is on the API server           *)
(* (Reconcile), so a deletion passes reconcileDelete.                       *)
THEOREM GuardedTheorem == Spec => []GuardedByFinalizer
  BY ControllerInvariant, PTL DEF IntentInv

(* No write of Reconcile takes a True condition back (updatePhase, the      *)
(* stages, the error paths that read the object again).                     *)
THEOREM ConditionsNeverLost == Spec => ConditionsKept
<1>1. IntentInv /\ [Next]_vars => [api.done <= api'.done]_vars
  BY NextKeeps DEF Kept
<1> QED BY <1>1, ControllerInvariant, PTL DEF Spec, ConditionsKept

-----------------------------------------------------------------------------
(* Type correctness: the objects and the repository are typed by IntentInv, *)
(* the rest step by step.                                                   *)

Places ==
    /\ pc \in {"idle", "finalizer", "bypass", "enter", "run", "processed",
               "failed", "retry", "finish", "ready", "cleanup", "release"}
    /\ ctx \subseteq {"plan", "manifests", "hash"}
    /\ profile \in Profiles

Flags == {cacheFresh, queued, fresh, late} \subseteq BOOLEAN

Counted == faults \in 0..MaxFaults

(* The worker goes to a place of Reconcile.                                 *)
LEMMA PlacesKept == Places /\ [Next]_vars => Places'
<1> SUFFICES ASSUME Places, [Next]_vars PROVE Places'
  OBVIOUS
<1>1. profile' = profile
  BY DEF Next, Worker, Read, AddFinalizer, Bypass, EnterStage, LLMFails,
         LLMParameters, LLMProcessed, PlanResources, GenerateManifests,
         CommitToGitOps, SkipCommit, CommitFails, VerifyDeployment, Finish,
         SetReady, ReturnError, Cleanup, RemoveFinalizer, CacheSync, LatePush,
         UserDelete, UserEdit, Crash, vars
<1>2. ctx' \subseteq {"plan", "manifests", "hash"}
  BY DEF Places, Next, Worker, Read, AddFinalizer, Bypass, EnterStage,
         LLMFails, LLMParameters, LLMProcessed, PlanResources,
         GenerateManifests, CommitToGitOps, SkipCommit, CommitFails,
         VerifyDeployment, Finish, SetReady, ReturnError, Cleanup,
         RemoveFinalizer, CacheSync, LatePush, UserDelete, UserEdit, Crash,
         work, vars
<1>3. \/ pc' \in {"idle", "run", "failed", "retry", "processed", "ready",
                  "release", "enter", "finish"}
      \/ pc' = firstStep(cache) \/ pc' = pc
  BY DEF Next, Worker, Read, AddFinalizer, Bypass, EnterStage,
         LLMFails, LLMParameters, LLMProcessed, PlanResources,
         GenerateManifests, CommitToGitOps, SkipCommit, CommitFails,
         VerifyDeployment, Finish, SetReady, ReturnError, Cleanup,
         RemoveFinalizer, CacheSync, LatePush, UserDelete, UserEdit, Crash,
         StageDone, StageSkipped, vars
<1>4. firstStep(cache) \in {"idle", "cleanup", "finalizer", "bypass", "enter",
                            "finish"}
  BY DEF firstStep
<1> QED BY <1>1, <1>2, <1>3, <1>4 DEF Places

(* A status update sets flags to TRUE and FALSE, or leaves them alone.      *)
LEMMA FlagsKept == Flags /\ [Next]_vars => Flags'
<1> SUFFICES ASSUME Flags, [Next]_vars PROVE Flags'
  OBVIOUS
<1>1. ASSUME NEW o, NEW b, Written(o, b)
      PROVE  cacheFresh' \in {cacheFresh, FALSE} /\ fresh' \in {fresh, TRUE}
  BY <1>1 DEF Written, server
<1>2. /\ cacheFresh' \in {cacheFresh, TRUE, FALSE}
      /\ fresh' \in {fresh, cacheFresh, TRUE, FALSE}
  <2>1. CASE \E o, b : Written(o, b)
    BY <1>1, <2>1
  <2>2. CASE Read \/ AddFinalizer \/ Finish \/ ReturnError \/ LLMFails
               \/ Cleanup \/ RemoveFinalizer
    BY <2>1, <2>2
       DEF Read, AddFinalizer, Finish, ReturnError, LLMFails, Cleanup,
           RemoveFinalizer, StatusWrite, Refused, TryWrite, server, work
  <2>3. CASE CacheSync \/ LatePush \/ UserDelete \/ UserEdit \/ Crash
               \/ UNCHANGED vars
    BY <2>3 DEF CacheSync, LatePush, UserDelete, UserEdit, Crash, vars,
                server, work
  <2>4. CASE Bypass \/ EnterStage \/ LLMParameters \/ LLMProcessed
               \/ PlanResources \/ GenerateManifests \/ CommitToGitOps
               \/ SkipCommit \/ CommitFails \/ VerifyDeployment \/ SetReady
    BY <2>1, <2>4
       DEF Bypass, EnterStage, LLMParameters, LLMProcessed, PlanResources,
           GenerateManifests, CommitToGitOps, SkipCommit, CommitFails,
           VerifyDeployment, SetReady, StageDone, StageSkipped, TryWrite,
           StatusWrite, Refused
  <2> QED BY <2>2, <2>3, <2>4 DEF Next, Worker
<1>3. queued' \in {queued, TRUE, FALSE} /\ late' \in {late, TRUE, FALSE}
  BY DEF Next, Worker, Read, AddFinalizer, Bypass, EnterStage,
         LLMFails, LLMParameters, LLMProcessed, PlanResources,
         GenerateManifests, CommitToGitOps, SkipCommit, CommitFails,
         VerifyDeployment, Finish, SetReady, ReturnError, Cleanup,
         RemoveFinalizer, CacheSync, LatePush, UserDelete, UserEdit, Crash,
         repo, vars
<1> QED BY <1>2, <1>3 DEF Flags

(* A fault is counted, and none happens beyond the bound.                   *)
LEMMA FaultsKept == Counted /\ [Next]_vars => Counted'
<1> SUFFICES ASSUME Counted, [Next]_vars PROVE Counted'
  OBVIOUS
<1>1. Fault => Counted'
  BY FaultsAssumption DEF Fault, Counted
<1>2. faults' = faults => Counted'
  BY DEF Counted
<1>3. Fault \/ faults' = faults
  BY DEF Next, Worker, Read, AddFinalizer, Bypass, EnterStage,
         LLMFails, LLMParameters, LLMProcessed, PlanResources,
         GenerateManifests, CommitToGitOps, SkipCommit, CommitFails,
         VerifyDeployment, Finish, SetReady, ReturnError, Cleanup,
         RemoveFinalizer, CacheSync, LatePush, UserDelete, UserEdit, Crash,
         StageDone, StageSkipped, TryWrite, StatusWrite, Refused, vars
<1> QED BY <1>1, <1>2, <1>3

(* The controller, the caches and the repository stay well typed.           *)
THEOREM IntentTypes == Spec => []TypeOK
<1>1. Init => Places /\ Flags /\ Counted
  <2>1. Init => Places
    BY DEF Init, Places
  <2>2. Init => Flags
    BY DEF Init, Flags
  <2>3. Init => Counted
    BY FaultsAssumption DEF Init, Counted
  <2> QED BY <2>1, <2>2, <2>3
<1>2. IntentInv /\ Places /\ Flags /\ Counted => TypeOK
  <2> SUFFICES ASSUME IntentInv, Places, Flags, Counted PROVE TypeOK
    OBVIOUS
  <2>1. git \in [local : 0..2, remote : 0..2, staged : BOOLEAN]
    <3>1. git.local \in Nat /\ git.remote \in Nat /\ git.staged \in BOOLEAN
          /\ git = [local |-> git.local, remote |-> git.remote,
                    staged |-> git.staged]
      BY DEF IntentInv, Shapes, Repos
    <3>2. git.local <= 1 /\ git.remote <= git.local
      BY <3>1 DEF IntentInv, CommitsAtMostOnce
    <3> QED BY <3>1, <3>2
  <2> QED BY <2>1 DEF IntentInv, Shapes, Places, Flags, Counted, TypeOK
<1> QED
  BY <1>1, <1>2, PlacesKept, FlagsKept, FaultsKept, ControllerInvariant, PTL
     DEF Spec
=============================================================================
