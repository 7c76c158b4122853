------------------------ MODULE IntentPipeline_proofs ------------------------
(***************************************************************************)
(* Proofs about the pipeline of intentd v2, for any set of intents and     *)
(* plans, any number of workers, crashes and DELETE requests.              *)
(*                                                                         *)
(* What the runs check follows from where a worker is: its place decides   *)
(* the state of its intent, what the record and the local results hold,    *)
(* and which cluster objects are there.  That relation is the inductive    *)
(* invariant, stated in layers: control, Git, data, RepoSyncs, metrics.    *)
(***************************************************************************)
EXTENDS IntentPipeline, FiniteSetTheorems, TLAPS

-----------------------------------------------------------------------------
(* Control: a job is in one place, and its place decides its state.        *)

Porching == {"draft", "upload", "propose"}
Syncing  == {"rslist", "rsbind", "rscreate"}
Early    == {"begin", "plan", "validate", "generate", "dry", "push"}

Typed ==
  /\ state \in [Ids -> States \cup {"none"}]
  /\ dry \in [Ids -> BOOLEAN]
  /\ plan \in [Ids -> PlanIds \cup {NoPlan}]
  /\ rec \in [Ids -> [porch : Outcomes, reposync : Outcomes,
                      configsync : Outcomes \cup {"undelivered"}]]
  /\ loc \in [Ids -> [porch : Outcomes, reposync : Outcomes,
                      configsync : {"none"}]]
  /\ submitting \subseteq Ids
  /\ deleting \in [Ids -> States \cup {"none"}]
  /\ reply \in [Ids -> States \cup {"none", "200", "500"}]
  /\ queue \in Seq(Ids)
  /\ pc \in [Ids -> Steps \cup Idle]

(* The state of the record at each step of _run_pipeline.                   *)
StateAt(i) ==
  /\ pc[i] = "begin" => state[i] \in {"acknowledged", "cancelled"}
  /\ pc[i] = "plan" => state[i] = "planning"
  /\ pc[i] = "validate" => state[i] = "validating"
  /\ pc[i] = "generate" => state[i] = "generating"
  /\ pc[i] = "dry" => /\ state[i] \in {"executing", "proposed", "applied"}
                      /\ dry[i]
  /\ pc[i] \in {"push", "proposed"} \cup Porching \cup Syncing
       => state[i] = "executing" /\ ~dry[i]
  /\ pc[i] = "status" => state[i] = "proposed" /\ ~dry[i]
  /\ pc[i] = "complete" => state[i] = "applied" /\ ~dry[i]
  /\ pc[i] # "idle" => state[i] # "none"
  /\ deleting[i] # "none" => state[i] # "none"

(* A plan exists once the planner returned it and the state moved on.       *)
Named(i) ==
  pc[i] \in {"validate", "generate", "push", "proposed", "status", "complete"}
              \cup Porching \cup Syncing
    => plan[i] \in PlanIds

(* A job that waits for a thread, or for the handler to hand it over, waits *)
(* once, and nobody has worked on it.                                       *)
Fresh(i) == pc[i] = "idle" /\ state[i] \in {"acknowledged", "cancelled"}
Waiting ==
  /\ \A i \in submitting : Fresh(i)
  /\ \A m \in 1..Len(queue) : Fresh(queue[m]) /\ queue[m] \notin submitting
  /\ \A m, n \in 1..Len(queue) : queue[m] = queue[n] => m = n

Control == Typed /\ Waiting /\ \A i \in Ids : StateAt(i) /\ Named(i)

-----------------------------------------------------------------------------
(* Git.                                                                    *)

(* An intent nobody planned for has touched nothing, and a DELETE that was  *)
(* granted stays granted.                                                   *)
Untouched(i) ==
  /\ state[i] \in {"none", "acknowledged", "planning", "cancelled"}
       => plan[i] = NoPlan /\ rec[i] = NoData
  /\ reply[i] = "200" => state[i] = "cancelled"

(* Past the push, the branch is on the Git server.                          *)
Pushed(i) == pc[i] \in Porching \cup Syncing => plan[i] \in branches

Stored ==
  /\ branches \subseteq PlanIds
  /\ drafts \in [PlanIds -> {"none", "Draft", "Proposed"}]
  /\ repoSyncs \subseteq PlanIds
  /\ roleBindings \subseteq PlanIds
  /\ leaked \subseteq PlanIds
  /\ inSync \subseteq Ids

Git == Stored /\ GitFirst /\ \A i \in Ids : Untouched(i) /\ Pushed(i)

-----------------------------------------------------------------------------
(* Data: what the worker and the record know at each step.                 *)

DataAt(i) ==
  /\ pc[i] \notin {"proposed"} \cup Porching \cup Syncing => loc[i] = NoData
  /\ pc[i] \in Porching \cup Syncing => loc[i].reposync = "none"
  /\ pc[i] \in {"proposed"} \cup Syncing => loc[i].porch # "none"
  /\ pc[i] \in {"proposed"} \cup Early \cup Porching \cup Syncing
       => rec[i] = NoData

(* Unless an exception has an empty text, every outcome is on the record.   *)
Audible(i) ==
  "silent" \notin Failures
    => "silent" \notin {loc[i].porch, rec[i].porch, rec[i].configsync}

(* The outcomes an executed intent has collected when it gets to a state.   *)
Collected(i) ==
  ~dry[i] =>
    /\ state[i] \in {"proposed", "applied", "completed"}
         => rec[i].porch # "none"
    /\ state[i] \in {"applied", "completed"}
         => /\ rec[i].configsync # "none"
            /\ rec[i].configsync = "ok" => i \in inSync

Data == \A i \in Ids : DataAt(i) /\ Audible(i) /\ Collected(i)

-----------------------------------------------------------------------------
(* RepoSyncs: who holds one.                                               *)

Holds(i) ==
  \/ pc[i] = "proposed" /\ loc[i].reposync = "ok"
  \/ /\ pc[i] \in {"status", "complete", "failing", "cleanup"}
     /\ rec[i].reposync = "ok"

(* The planner gave no other intent the same name.                          *)
Unshared(i) == \A j \in Ids \ {i} : plan[j] # plan[i]

(* A worker that holds a RepoSync nobody else was named for finds it in the *)
(* cluster.                                                                 *)
Kept == \A i \in Ids : Holds(i) => /\ plan[i] \in PlanIds
                                   /\ Unshared(i) => plan[i] \in repoSyncs

(* And every RepoSync in the cluster that was not leaked is held by a       *)
(* worker.                                                                  *)
Owned == repoSyncs \ leaked
Held == \A p \in Owned : \E i \in Ids : plan[i] = p /\ Holds(i)

-----------------------------------------------------------------------------
(* Metrics.                                                                *)

Metered ==
  /\ IsFiniteSet(Unreported)
  /\ finished \in [{"completed", "failed"} -> Nat]
  /\ started \in Nat
  /\ JobsAccounted

-----------------------------------------------------------------------------
(* The control layer.                                                      *)

(* Every state has its successors, and the states a transition leads to are *)
(* never the first ones.                                                    *)
LEMMA ForwardFacts ==
  /\ States = {"acknowledged", "planning", "validating", "generating",
               "executing", "proposed", "applied", "completed", "failed",
               "cancelled"}
  /\ Forward["acknowledged"] = {"planning", "cancelled", "failed"}
  /\ Forward["planning"] = {"validating", "failed"}
  /\ Forward["validating"] = {"generating", "failed"}
  /\ Forward["generating"] = {"executing", "failed"}
  /\ Forward["executing"] = {"proposed", "failed"}
  /\ Forward["proposed"] = {"applied", "failed"}
  /\ Forward["applied"] = {"completed", "failed"}
  /\ Forward["completed"] = {}
  /\ Forward["failed"] = {}
  /\ Forward["cancelled"] = {}
  BY DEF States, Forward

(* Nothing waits in the beginning.                                          *)
LEMMA InitControl == Init => Control
  BY DEF Init, Control, Typed, Waiting, StateAt, Named, Steps, Idle, NoData,
         Outcomes, Porching, Syncing

(* A worker moves on: it touches its own intent only, which is not waiting. *)
LEMMA WorkerKeepsWaiting ==
  ASSUME Typed, Waiting, NEW i \in Ids, pc[i] # "idle",
         NEW s, state' = [state EXCEPT ![i] = s],
         NEW q, pc' = [pc EXCEPT ![i] = q],
         UNCHANGED <<submitting, queue>>
  PROVE  Waiting'
<1>1. \A j \in Ids : Fresh(j) => Fresh(j)'
  BY DEF Typed, Fresh
<1>2. \A m \in 1..Len(queue) : queue[m] \in Ids
  BY DEF Typed
<1> QED BY <1>1, <1>2 DEF Waiting, Typed

(* The others stay where they are.                                          *)
LEMMA OthersKeepControl ==
  ASSUME Control, NEW i \in Ids,
         NEW s, state' = [state EXCEPT ![i] = s],
         NEW q, pc' = [pc EXCEPT ![i] = q],
         NEW p, plan' = [plan EXCEPT ![i] = p],
         UNCHANGED <<dry, deleting>>
  PROVE  \A j \in Ids \ {i} : StateAt(j)' /\ Named(j)'
  BY DEF Control, Typed, StateAt, Named

(* What store.transition leaves: the new state with its data, or nothing,   *)
(* and then the exception handler.                                          *)
LEMMA TransitOutcome ==
  ASSUME Typed, NEW i \in Ids, NEW s, NEW data, NEW next,
         Transit(i, s, data, next)
  PROVE  \E x, r, q :
           /\ state' = [state EXCEPT ![i] = x]
           /\ rec' = [rec EXCEPT ![i] = r]
           /\ pc' = [pc EXCEPT ![i] = q]
           /\ \/ /\ s \in Forward[state[i]]
                 /\ x = s /\ r = data /\ q \in {next, "failing"}
              \/ /\ s \notin Forward[state[i]]
                 /\ x = state[i] /\ r = rec[i] /\ q = "failing"
<1>1. CASE s \in Forward[state[i]]
  BY <1>1 DEF Transit
<1>2. CASE s \notin Forward[state[i]]
  <2>1. state' = [state EXCEPT ![i] = state[i]] /\ rec' = [rec EXCEPT ![i] = rec[i]]
    BY <1>2 DEF Transit, Typed
  <2> QED BY <1>2, <2>1 DEF Transit
<1> QED BY <1>1, <1>2

(* A worker that leaves its own job in order leaves the control in order.   *)
LEMMA WorkerKeepsControl ==
  ASSUME Control, NEW i \in Ids, pc[i] # "idle",
         NEW s \in States, state' = [state EXCEPT ![i] = s],
         NEW q \in Steps \cup {"done"}, pc' = [pc EXCEPT ![i] = q],
         NEW p \in PlanIds \cup {NoPlan}, plan' = [plan EXCEPT ![i] = p],
         NEW r \in [porch : Outcomes, reposync : Outcomes,
                    configsync : Outcomes \cup {"undelivered"}],
         rec' = [rec EXCEPT ![i] = r],
         NEW l \in [porch : Outcomes, reposync : Outcomes,
                    configsync : {"none"}],
         loc' = [loc EXCEPT ![i] = l],
         UNCHANGED <<dry, submitting, deleting, reply, queue>>,
         StateAt(i)', Named(i)'
  PROVE  Control'
<1>1. Typed'
  BY DEF Control, Typed, Idle
<1>2. Waiting'
  BY WorkerKeepsWaiting DEF Control
<1>3. \A j \in Ids \ {i} : StateAt(j)' /\ Named(j)'
  BY OthersKeepControl
<1> QED BY <1>1, <1>2, <1>3 DEF Control

(* The same for the steps that leave state, plan and record alone.          *)
LEMMA QuietWorkerKeepsControl ==
  ASSUME Control, NEW i \in Ids, pc[i] # "idle",
         NEW q \in Steps \cup {"done"}, pc' = [pc EXCEPT ![i] = q],
         NEW l \in [porch : Outcomes, reposync : Outcomes,
                    configsync : {"none"}],
         loc' = [loc EXCEPT ![i] = l],
         UNCHANGED <<state, plan, rec, dry, submitting, deleting, reply, queue>>,
         \/ q \in {"failing", "cleanup", "unbind", "done"}
         \/ /\ pc[i] \in {"push"} \cup Porching \cup Syncing
            /\ q \in {"proposed"} \cup Porching \cup Syncing
  PROVE  Control'
<1>1. state' = [state EXCEPT ![i] = state[i]] /\ state[i] \in States
  BY DEF Control, Typed, StateAt
<1>2. plan' = [plan EXCEPT ![i] = plan[i]] /\ plan[i] \in PlanIds \cup {NoPlan}
  BY DEF Control, Typed
<1>3. /\ rec' = [rec EXCEPT ![i] = rec[i]]
      /\ rec[i] \in [porch : Outcomes, reposync : Outcomes,
                     configsync : Outcomes \cup {"undelivered"}]
  BY DEF Control, Typed
<1>4. StateAt(i)' /\ Named(i)'
  BY <1>1 DEF Control, Typed, StateAt, Named, Porching, Syncing
<1> QED BY <1>1, <1>2, <1>3, <1>4, WorkerKeepsControl

(* The handlers: a new intent is handed over once, a cancelled one stays in *)
(* the queue.                                                               *)
LEMMA RequestKeepsControl ==
  ASSUME Control, NEW i \in Ids, Request(i)
  PROVE  Control'
<1> USE DEF Control
<1>q. \A m \in 1..Len(queue) : queue[m] \in Ids
  BY DEF Typed
<1>1. CASE CreateIntent(i)
  <2>1. state[i] = "none" /\ pc[i] = "idle"
    BY <1>1 DEF CreateIntent, StateAt
  <2>2. Typed'
    BY <1>1, ForwardFacts DEF CreateIntent, Typed, pool
  <2>3. \A j \in Ids : Fresh(j) => Fresh(j)' /\ j # i
    BY <1>1, <2>1 DEF CreateIntent, Typed, Fresh, pool
  <2>4. Waiting'
    BY <1>1, <1>q, <2>1, <2>3 DEF CreateIntent, Typed, Waiting, Fresh, pool
  <2>5. \A j \in Ids : StateAt(j)' /\ Named(j)'
    BY <1>1, <2>1 DEF CreateIntent, Typed, StateAt, Named, pool, Porching,
                      Syncing
  <2> QED BY <2>2, <2>4, <2>5
<1>2. CASE Submit(i)
  <2>1. Typed'
    BY <1>2 DEF Submit, Typed, record
  <2>2. \A j \in Ids : /\ StateAt(j)' = StateAt(j)
                       /\ Named(j)' = Named(j)
                       /\ Fresh(j)' = Fresh(j)
    BY <1>2 DEF Submit, StateAt, Named, Fresh, record
  <2>3. /\ Len(queue') = Len(queue) + 1
        /\ \A m \in 1..Len(queue) : queue'[m] = queue[m]
        /\ queue'[Len(queue) + 1] = i
    BY <1>2 DEF Submit, Typed
  <2>4. i \in submitting /\ submitting' = submitting \ {i}
    BY <1>2 DEF Submit
  <2>5. \A m \in 1..Len(queue') : m = Len(queue) + 1 \/ m \in 1..Len(queue)
    BY <2>3 DEF Typed
  <2>6. \A m \in 1..Len(queue) : queue[m] # i
    BY <2>4 DEF Waiting
  <2>7. Waiting'
    BY <1>q, <2>2, <2>3, <2>4, <2>5, <2>6 DEF Waiting, Typed
  <2> QED BY <2>1, <2>2, <2>7
<1>3. CASE DeleteGet(i)
  <2>1. Typed'
    BY <1>3 DEF DeleteGet, Typed, record, pool
  <2>2. Waiting'
    BY <1>3 DEF DeleteGet, Waiting, Fresh, record, pool
  <2>3. \A j \in Ids : StateAt(j)' /\ Named(j)'
    BY <1>3 DEF DeleteGet, Typed, StateAt, Named, record, pool
  <2> QED BY <2>1, <2>2, <2>3
<1>4. CASE DeleteCancel(i)
  <2>1. state[i] \in States
    BY <1>4 DEF DeleteCancel, StateAt, Typed
  <2>2. CASE "cancelled" \in Forward[state[i]]
    <3>1. state[i] = "acknowledged" /\ state' = [state EXCEPT ![i] = "cancelled"]
      BY <1>4, <2>1, <2>2, ForwardFacts DEF DeleteCancel
    <3>c. "cancelled" \in States
      BY ForwardFacts
    <3>2. Typed'
      BY <1>4, <2>2, <3>1, <3>c DEF DeleteCancel, Typed, pool
    <3>3. \A j \in Ids : Fresh(j) => Fresh(j)'
      BY <1>4, <3>1 DEF DeleteCancel, Typed, Fresh, pool
    <3>4. Waiting'
      BY <1>4, <1>q, <3>3 DEF DeleteCancel, Typed, Waiting, pool
    <3>5. \A j \in Ids : StateAt(j)' /\ Named(j)'
      BY <1>4, <3>1 DEF DeleteCancel, Typed, StateAt, Named, pool, Porching,
                        Syncing
    <3> QED BY <3>2, <3>4, <3>5
  <2>3. CASE "cancelled" \notin Forward[state[i]]
    <3>1. Typed'
      BY <1>4, <2>3 DEF DeleteCancel, Typed, pool
    <3>2. Waiting'
      BY <1>4, <2>3 DEF DeleteCancel, Waiting, Fresh, pool
    <3>3. \A j \in Ids : StateAt(j)' /\ Named(j)'
      BY <1>4, <2>3 DEF DeleteCancel, Typed, StateAt, Named, pool
    <3> QED BY <3>1, <3>2, <3>3
  <2> QED BY <2>2, <2>3
<1> QED BY <1>1, <1>2, <1>3, <1>4 DEF Request

(* A thread takes the job at the head of the queue, which was idle.         *)
LEMMA DequeueKeepsControl ==
  ASSUME Control, NEW i \in Ids, Dequeue(i)
  PROVE  Control' /\ pc[i] = "idle"
<1> USE DEF Control
<1>1. /\ Len(queue) > 0
      /\ i = queue[1]
      /\ Len(queue') = Len(queue) - 1
      /\ \A m \in 1..Len(queue') : queue'[m] = queue[m + 1]
  BY DEF Dequeue, Typed
<1>2. Fresh(i) /\ i \notin submitting
  BY <1>1 DEF Waiting, Typed
<1>3. Typed'
  BY DEF Dequeue, Typed, Steps, record, requests
<1>4. \A m \in 1..Len(queue') : m + 1 \in 1..Len(queue) /\ m + 1 # 1
  BY <1>1, <1>3 DEF Typed
<1>5. \A m \in 1..Len(queue) : m # 1 => queue[m] # i /\ queue[m] \in Ids
  BY <1>1 DEF Waiting, Typed
<1>6. \A j \in Ids : j # i /\ Fresh(j) => Fresh(j)'
  BY DEF Dequeue, Typed, Fresh, record
<1>7. Waiting'
  <2>1. \A j \in submitting' : Fresh(j)'
    BY <1>2, <1>6 DEF Dequeue, Waiting, Typed, requests
  <2>2. \A m \in 1..Len(queue') :
          (Fresh(queue[m]) /\ queue[m] \notin submitting)'
    <3> SUFFICES ASSUME NEW m \in 1..Len(queue')
                 PROVE  (Fresh(queue[m]) /\ queue[m] \notin submitting)'
      OBVIOUS
    <3>1. queue'[m] = queue[m + 1] /\ m + 1 \in 1..Len(queue)
      BY <1>1, <1>4
    <3>2. queue[m + 1] \in Ids \ {i} /\ Fresh(queue[m + 1])
          /\ queue[m + 1] \notin submitting
      BY <1>4, <1>5 DEF Waiting
    <3> QED BY <3>1, <3>2 DEF Dequeue, Typed, Fresh, record, requests
  <2>3. \A m, n \in 1..Len(queue') : queue'[m] = queue'[n] => m = n
    <3> SUFFICES ASSUME NEW m \in 1..Len(queue'), NEW n \in 1..Len(queue'),
                        queue'[m] = queue'[n]
                 PROVE  m = n
      OBVIOUS
    <3>1. queue[m + 1] = queue[n + 1]
      BY <1>1
    <3>2. m + 1 \in 1..Len(queue) /\ n + 1 \in 1..Len(queue)
      BY <1>4
    <3>3. \A a, b \in 1..Len(queue) : queue[a] = queue[b] => a = b
      BY DEF Waiting
    <3>4. m + 1 = n + 1
      BY <3>1, <3>2, <3>3
    <3> QED BY <3>4
  <2> QED BY <2>1, <2>2, <2>3 DEF Waiting
<1>8. \A j \in Ids : StateAt(j)' /\ Named(j)'
  BY <1>2 DEF Dequeue, Typed, StateAt, Named, Fresh, record, requests,
              Porching, Syncing
<1> QED BY <1>2, <1>3, <1>7, <1>8 DEF Fresh

(* A transition on the way, with the place and the state it leads to.       *)
LEMMA TransitKeepsControl ==
  ASSUME Control, NEW i \in Ids, pc[i] # "idle",
         NEW s, NEW next \in Steps \cup {"done"},
         NEW data \in [porch : Outcomes, reposync : Outcomes,
                       configsync : Outcomes \cup {"undelivered"}],
         Transit(i, s, data, next),
         NEW p \in PlanIds \cup {NoPlan}, plan' = [plan EXCEPT ![i] = p],
         NEW l \in [porch : Outcomes, reposync : Outcomes,
                    configsync : {"none"}],
         loc' = [loc EXCEPT ![i] = l],
         UNCHANGED <<dry, submitting, deleting, reply, queue>>,
         next \in {"validate", "generate", "push", "status", "complete"}
           => p \in PlanIds,
         \/ s = "planning" /\ next = "plan"
         \/ s = "validating" /\ next = "validate"
         \/ s = "generating" /\ next = "generate"
         \/ s \in {"executing", "proposed", "applied"} /\ next = "dry" /\ dry[i]
         \/ s = "executing" /\ next = "push" /\ ~dry[i]
         \/ s = "proposed" /\ next = "status" /\ ~dry[i]
         \/ s = "applied" /\ next = "complete" /\ ~dry[i]
         \/ s \in {"completed", "failed"} /\ next \in {"done", "cleanup"}
  PROVE  Control'
<1>1. PICK x, r, q :
           /\ state' = [state EXCEPT ![i] = x]
           /\ rec' = [rec EXCEPT ![i] = r]
           /\ pc' = [pc EXCEPT ![i] = q]
           /\ \/ /\ s \in Forward[state[i]]
                 /\ x = s /\ r = data /\ q \in {next, "failing"}
              \/ /\ s \notin Forward[state[i]]
                 /\ x = state[i] /\ r = rec[i] /\ q = "failing"
  BY TransitOutcome DEF Control
<1>2. state[i] \in States
  BY DEF Control, StateAt, Typed
<1>3. s \in States
  BY ForwardFacts
<1>4. x \in States /\ q \in Steps \cup {"done"}
  BY <1>1, <1>2, <1>3 DEF Steps
<1>5. r \in [porch : Outcomes, reposync : Outcomes,
             configsync : Outcomes \cup {"undelivered"}]
  BY <1>1 DEF Control, Typed
<1>6. /\ state'[i] = x /\ pc'[i] = q /\ plan'[i] = p
      /\ dry'[i] = dry[i] /\ deleting'[i] = deleting[i]
  BY <1>1 DEF Control, Typed
<1>7. x # "none"
  BY <1>4, ForwardFacts
<1>8. StateAt(i)'
  BY <1>1, <1>6, <1>7 DEF StateAt, Porching, Syncing
<1>9. Named(i)'
  BY <1>1, <1>6 DEF Named, Porching, Syncing
<1> QED BY <1>1, <1>4, <1>5, <1>8, <1>9, WorkerKeepsControl

(* Frames used by every action: a function is itself at the place it keeps. *)
LEMMA SameFunctions ==
  ASSUME Control, NEW i \in Ids
  PROVE  /\ plan = [plan EXCEPT ![i] = plan[i]]
         /\ loc = [loc EXCEPT ![i] = loc[i]]
         /\ state = [state EXCEPT ![i] = state[i]]
         /\ rec = [rec EXCEPT ![i] = rec[i]]
         /\ plan[i] \in PlanIds \cup {NoPlan}
         /\ rec[i] \in [porch : Outcomes, reposync : Outcomes,
                        configsync : Outcomes \cup {"undelivered"}]
         /\ loc[i] \in [porch : Outcomes, reposync : Outcomes,
                        configsync : {"none"}]
  BY DEF Control, Typed

(* The dry run has one way to go.                                           *)
LEMMA DryNext ==
  ASSUME NEW st \in {"executing", "proposed", "applied"},
         NEW s, s = CHOOSE n \in Forward[st] : n # "failed"
  PROVE  /\ st = "executing" => s = "proposed"
         /\ st = "proposed" => s = "applied"
         /\ st = "applied" => s = "completed"
<1>1. \E n \in Forward[st] : n # "failed"
  BY ForwardFacts
<1>2. s \in Forward[st] /\ s # "failed"
  BY <1>1
<1> QED BY <1>2, ForwardFacts

(* The transitions of the pipeline.                                         *)
LEMMA TransitionsKeepControl ==
  ASSUME Control, NEW i \in Ids,
         \/ Begin(i) \/ Plan(i) \/ Validate(i) \/ Generate(i)
         \/ ManifestErrors(i) \/ DryRun(i) \/ Proposed(i) \/ CheckStatus(i)
         \/ Complete(i)
  PROVE  Control'
<1> DEFINE Recs == [porch : Outcomes, reposync : Outcomes,
                    configsync : Outcomes \cup {"undelivered"}]
           Locs == [porch : Outcomes, reposync : Outcomes,
                    configsync : {"none"}]
<1>f. /\ plan = [plan EXCEPT ![i] = plan[i]] /\ plan[i] \in PlanIds \cup {NoPlan}
      /\ loc = [loc EXCEPT ![i] = loc[i]] /\ loc[i] \in Locs
      /\ rec[i] \in Recs
  BY SameFunctions
<1>s. {"plan", "validate", "generate", "dry", "push", "status", "complete",
       "cleanup"} \subseteq Steps
  BY DEF Steps
<1>a. StateAt(i) /\ Named(i) /\ Typed
  BY DEF Control
<1>1. CASE Begin(i)
  BY <1>1, <1>f, <1>s, TransitKeepsControl DEF Begin, requests
<1>2. CASE Plan(i)
  <2>1. PICK p \in PlanIds : plan' = [plan EXCEPT ![i] = p]
    BY <1>2 DEF Plan
  <2>2. /\ pc[i] = "plan"
        /\ Transit(i, "validating", rec[i], "validate")
        /\ UNCHANGED <<loc, dry, submitting, deleting, reply, queue>>
    BY <1>2 DEF Plan, requests
  <2> QED BY <1>f, <1>s, <2>1, <2>2, TransitKeepsControl
<1>3. CASE Validate(i)
  <2>1. plan[i] \in PlanIds
    BY <1>3, <1>a DEF Validate, Named
  <2> QED BY <1>3, <1>f, <1>s, <2>1, TransitKeepsControl DEF Validate, requests
<1>4. CASE Generate(i)
  <2>1. plan[i] \in PlanIds
    BY <1>4, <1>a DEF Generate, Named
  <2>2. CASE dry[i]
    BY <1>4, <1>f, <1>s, <2>2, TransitKeepsControl DEF Generate, requests
  <2>3. CASE ~dry[i]
    BY <1>4, <1>f, <1>s, <2>1, <2>3, TransitKeepsControl DEF Generate, requests
  <2> QED BY <2>2, <2>3
<1>5. CASE ManifestErrors(i)
  BY <1>5, <1>f, <1>s, TransitKeepsControl DEF ManifestErrors, requests
<1>6. CASE DryRun(i)
  <2> DEFINE s == CHOOSE n \in Forward[state[i]] : n # "failed"
  <2>1. state[i] \in {"executing", "proposed", "applied"} /\ dry[i]
    BY <1>6, <1>a DEF DryRun, StateAt
  <2>2. s \in {"proposed", "applied", "completed"}
    BY <2>1, DryNext
  <2>3. /\ Transit(i, s, rec[i], IF s = "completed" THEN "done" ELSE "dry")
        /\ pc[i] = "dry"
        /\ UNCHANGED <<plan, loc, dry, submitting, deleting, reply, queue>>
    BY <1>6 DEF DryRun, requests
  <2> HIDE DEF s
  <2>4. CASE s = "completed"
    BY <1>f, <1>s, <2>3, <2>4, TransitKeepsControl
  <2>5. CASE s \in {"proposed", "applied"}
    BY <1>f, <1>s, <2>1, <2>3, <2>5, TransitKeepsControl
  <2> QED BY <2>2, <2>4, <2>5
<1>7. CASE Proposed(i)
  <2>1. plan[i] \in PlanIds /\ ~dry[i]
    BY <1>7, <1>a DEF Proposed, Named, StateAt
  <2>2. loc[i] \in Recs /\ NoData \in Locs
    BY <1>f DEF NoData, Outcomes
  <2> QED
    BY <1>7, <1>f, <1>s, <2>1, <2>2, TransitKeepsControl DEF Proposed, requests
<1>8. CASE CheckStatus(i)
  <2>1. plan[i] \in PlanIds /\ ~dry[i]
    BY <1>8, <1>a DEF CheckStatus, Named, StateAt
  <2>2. PICK v \in {"ok", "undelivered", "error", "silent"} :
          Transit(i, "applied", [rec[i] EXCEPT !.configsync = v], "complete")
    BY <1>8 DEF CheckStatus, Errors
  <2>3. [rec[i] EXCEPT !.configsync = v] \in Recs
    BY <1>f DEF Outcomes
  <2> QED
    BY <1>8, <1>f, <1>s, <2>1, <2>2, <2>3, TransitKeepsControl
       DEF CheckStatus, requests
<1>9. CASE Complete(i)
  BY <1>9, <1>f, <1>s, TransitKeepsControl DEF Complete, requests
<1> QED BY <1>1, <1>2, <1>3, <1>4, <1>5, <1>6, <1>7, <1>8, <1>9

(* The other steps of a worker: calls, their failures, the exception        *)
(* handler and the clean-up.                                                *)
LEMMA CallsKeepControl ==
  ASSUME Control, NEW i \in Ids,
         \/ StageRaises(i) \/ Push(i) \/ PushRaises(i) \/ PorchStep(i)
         \/ PorchRaises(i) \/ RepoSyncStep(i) \/ RepoSyncRaises(i)
         \/ RepoSyncReplyLost(i) \/ Cleanup(i) \/ CleanupRaises(i)
  PROVE  Control'
<1> DEFINE Locs == [porch : Outcomes, reposync : Outcomes,
                    configsync : {"none"}]
<1>f. loc = [loc EXCEPT ![i] = loc[i]] /\ loc[i] \in Locs
  BY SameFunctions
<1>o. \A v \in {"ok", "error", "silent"} :
        /\ [loc[i] EXCEPT !.porch = v] \in Locs
        /\ [loc[i] EXCEPT !.reposync = v] \in Locs
  BY <1>f DEF Outcomes
<1>s. {"failing", "draft", "upload", "propose", "rslist", "rsbind",
       "rscreate", "proposed", "unbind"} \subseteq Steps
  BY DEF Steps
<1> USE DEF Porching, Syncing, record, requests
<1>1. CASE StageRaises(i) \/ Push(i) \/ PushRaises(i) \/ CleanupRaises(i)
  <2>1. /\ pc[i] # "idle"
        /\ UNCHANGED <<loc, state, plan, rec, dry, submitting, deleting, reply,
                       queue>>
    BY <1>1 DEF StageRaises, Push, PushRaises, CleanupRaises
  <2>2. \/ pc' = [pc EXCEPT ![i] = "failing"]
        \/ pc' = [pc EXCEPT ![i] = "done"]
        \/ pc' = [pc EXCEPT ![i] = "draft"] /\ pc[i] = "push"
    BY <1>1 DEF StageRaises, Push, PushRaises, CleanupRaises
  <2> QED BY <2>1, <2>2, <1>f, <1>s, QuietWorkerKeepsControl
<1>2. CASE PorchStep(i)
  <2>1. PICK q \in {"upload", "propose", "rslist"}, l \in Locs :
          pc' = [pc EXCEPT ![i] = q] /\ loc' = [loc EXCEPT ![i] = l]
    BY <1>2, <1>f, <1>o DEF PorchStep
  <2> QED BY <1>2, <2>1, <1>s, QuietWorkerKeepsControl DEF PorchStep
<1>3. CASE PorchRaises(i)
  <2>1. PICK l \in Locs : loc' = [loc EXCEPT ![i] = l]
    BY <1>3, <1>o DEF PorchRaises, Errors
  <2> QED BY <1>3, <2>1, <1>s, QuietWorkerKeepsControl DEF PorchRaises
<1>4. CASE RepoSyncStep(i)
  <2>1. PICK q \in {"proposed", "rsbind", "rscreate"}, l \in Locs :
          pc' = [pc EXCEPT ![i] = q] /\ loc' = [loc EXCEPT ![i] = l]
    BY <1>4, <1>f, <1>o DEF RepoSyncStep
  <2> QED BY <1>4, <2>1, <1>s, QuietWorkerKeepsControl DEF RepoSyncStep
<1>5. CASE RepoSyncRaises(i)
  <2>1. PICK l \in Locs : loc' = [loc EXCEPT ![i] = l]
    BY <1>5, <1>o DEF RepoSyncRaises, Errors
  <2> QED BY <1>5, <2>1, <1>s, QuietWorkerKeepsControl DEF RepoSyncRaises
<1>6. CASE RepoSyncReplyLost(i)
  <2>1. PICK l \in Locs : loc' = [loc EXCEPT ![i] = l]
    BY <1>6, <1>o DEF RepoSyncReplyLost, Errors
  <2> QED BY <1>6, <2>1, <1>s, QuietWorkerKeepsControl DEF RepoSyncReplyLost
<1>7. CASE Cleanup(i)
  <2>1. PICK q \in {"unbind", "done"} : pc' = [pc EXCEPT ![i] = q]
    BY <1>7 DEF Cleanup
  <2> QED BY <1>7, <1>f, <2>1, <1>s, QuietWorkerKeepsControl DEF Cleanup
<1> QED BY <1>1, <1>2, <1>3, <1>4, <1>5, <1>6, <1>7

(* The exception handler.                                                   *)
LEMMA FailKeepsControl ==
  ASSUME Control, NEW i \in Ids, Fail(i)
  PROVE  Control'
<1> DEFINE s == IF "failed" \in Forward[state[i]] THEN "failed" ELSE state[i]
<1>1. state[i] \in States /\ state[i] # "none" /\ pc[i] = "failing"
  BY DEF Fail, Control, StateAt, Typed
<1>2. s \in States /\ s # "none"
  BY <1>1, ForwardFacts
<1>3. state' = [state EXCEPT ![i] = s] /\ pc' = [pc EXCEPT ![i] = "cleanup"]
  BY DEF Fail
<1> HIDE DEF s
<1>4. StateAt(i)' /\ Named(i)'
  BY <1>2, <1>3 DEF Fail, Control, Typed, StateAt, Named, Porching, Syncing,
                    requests
<1>5. "cleanup" \in Steps \cup {"done"}
  BY DEF Steps
<1> QED
  BY <1>1, <1>2, <1>3, <1>4, <1>5, SameFunctions, WorkerKeepsControl
     DEF Fail, requests

(* The process dies, stops or starts: no job survives, every record does.   *)
LEMMA ProcessKeepsControl ==
  ASSUME Control, Crash \/ Shutdown \/ Exit \/ Restart
  PROVE  Control'
<1>1. CASE Crash \/ Exit
  <2>1. ForgetJobs /\ UNCHANGED <<state, dry, plan, rec, reply>>
    BY <1>1 DEF Crash, Exit, record
  <2>2. Typed'
    BY <2>1 DEF ForgetJobs, Control, Typed, Idle, NoData, Outcomes
  <2>3. Waiting'
    BY <2>1 DEF ForgetJobs, Waiting
  <2>4. \A i \in Ids : StateAt(i)' /\ Named(i)'
    BY <2>1 DEF ForgetJobs, StateAt, Named, Porching, Syncing
  <2> QED BY <2>2, <2>3, <2>4 DEF Control
<1>2. CASE Shutdown \/ Restart
  BY <1>2 DEF Shutdown, Restart, record, requests, pool, Control, Typed,
              Waiting, Fresh, StateAt, Named
<1> QED BY <1>1, <1>2

(* Every step of the specification keeps the control in order.              *)
LEMMA NextKeepsControl == Control /\ [Next]_vars => Control'
<1> SUFFICES ASSUME Control, [Next]_vars PROVE Control'
  OBVIOUS
<1>1. CASE UNCHANGED vars
  BY <1>1 DEF vars, record, requests, pool, Control, Typed, Waiting, Fresh,
              StateAt, Named
<1>2. ASSUME NEW i \in Ids, Work(i) PROVE Control'
  BY <1>2, TransitionsKeepControl, CallsKeepControl, FailKeepsControl DEF Work
<1> QED
  BY <1>1, <1>2, RequestKeepsControl, DequeueKeepsControl,
     ProcessKeepsControl DEF Next

(* Where a worker is decides the state of its intent, in every reachable    *)
(* state: the relation between _run_pipeline and the records of store.py.   *)
THEOREM ControlInvariant == Spec => []Control
  BY InitControl, NextKeepsControl, PTL DEF Spec

-----------------------------------------------------------------------------
(* What one step of a worker does, intent by intent.                       *)

(* TransitOutcome at each intent.                                           *)
LEMMA TransitAt ==
  ASSUME Control, NEW i \in Ids, NEW s, NEW data, NEW next,
         Transit(i, s, data, next)
  PROVE  /\ \/ /\ s \in Forward[state[i]]
               /\ state'[i] = s /\ rec'[i] = data
               /\ pc'[i] \in {next, "failing"}
            \/ /\ s \notin Forward[state[i]]
               /\ state'[i] = state[i] /\ rec'[i] = rec[i]
               /\ pc'[i] = "failing"
         /\ \A j \in Ids \ {i} : /\ state'[j] = state[j]
                                 /\ rec'[j] = rec[j]
                                 /\ pc'[j] = pc[j]
<1>1. PICK x, r, q :
           /\ state' = [state EXCEPT ![i] = x]
           /\ rec' = [rec EXCEPT ![i] = r]
           /\ pc' = [pc EXCEPT ![i] = q]
           /\ \/ /\ s \in Forward[state[i]]
                 /\ x = s /\ r = data /\ q \in {next, "failing"}
              \/ /\ s \notin Forward[state[i]]
                 /\ x = state[i] /\ r = rec[i] /\ q = "failing"
  BY TransitOutcome DEF Control
<1> QED BY <1>1 DEF Control, Typed

(* A worker leaves the requests, the queue and the other intents alone.     *)
Alone(i) ==
  /\ UNCHANGED <<proc, crashes, dry, requests, queue>>
  /\ \A j \in Ids \ {i} : /\ state'[j] = state[j]
                          /\ plan'[j] = plan[j]
                          /\ rec'[j] = rec[j]
                          /\ loc'[j] = loc[j]
                          /\ pc'[j] = pc[j]
                          /\ j \in inSync' <=> j \in inSync

(* So do the transitions, which do not touch the cluster either ...         *)
LEMMA TransitionsAlone ==
  ASSUME Control, NEW i \in Ids,
         \/ Begin(i) \/ Plan(i) \/ Validate(i) \/ Generate(i)
         \/ ManifestErrors(i) \/ DryRun(i) \/ Proposed(i) \/ CheckStatus(i)
         \/ Complete(i)
  PROVE  Alone(i) /\ UNCHANGED cluster
<1>1. UNCHANGED <<proc, crashes, dry, requests, queue, cluster>>
  BY DEF Begin, Plan, Validate, Generate, ManifestErrors, DryRun, Proposed,
         CheckStatus, Complete
<1>2. \E s, data, next : Transit(i, s, data, next)
  BY DEF Begin, Plan, Validate, Generate, ManifestErrors, DryRun, Proposed,
         CheckStatus, Complete
<1>3. \A j \in Ids \ {i} : /\ state'[j] = state[j]
                           /\ rec'[j] = rec[j]
                           /\ pc'[j] = pc[j]
  BY <1>2, TransitAt
<1>4. \A j \in Ids \ {i} : plan'[j] = plan[j]
  BY DEF Begin, Plan, Validate, Generate, ManifestErrors, DryRun, Proposed,
         CheckStatus, Complete, Control, Typed
<1>5. \A j \in Ids \ {i} : loc'[j] = loc[j] /\ (j \in inSync' <=> j \in inSync)
  BY DEF Begin, Plan, Validate, Generate, ManifestErrors, DryRun, Proposed,
         CheckStatus, Complete, Control, Typed
<1> QED BY <1>1, <1>3, <1>4, <1>5 DEF Alone

(* ... the remote calls, which do not touch the records and the metrics ... *)
LEMMA CallsAlone ==
  ASSUME Control, NEW i \in Ids,
         \/ StageRaises(i) \/ Push(i) \/ PushRaises(i) \/ PorchStep(i)
         \/ PorchRaises(i) \/ RepoSyncStep(i) \/ RepoSyncRaises(i)
         \/ RepoSyncReplyLost(i) \/ Cleanup(i) \/ CleanupRaises(i)
  PROVE  Alone(i) /\ UNCHANGED record /\ UNCHANGED metrics
<1>1. UNCHANGED <<proc, crashes, record, requests, queue, metrics>>
  BY DEF StageRaises, Push, PushRaises, PorchStep, PorchRaises, RepoSyncStep,
         RepoSyncRaises, RepoSyncReplyLost, Cleanup, CleanupRaises
<1>2. \E q : pc' = [pc EXCEPT ![i] = q]
  BY DEF StageRaises, Push, PushRaises, PorchStep, PorchRaises, RepoSyncStep,
         RepoSyncRaises, RepoSyncReplyLost, Cleanup, CleanupRaises
<1>3. loc' = loc \/ \E l : loc' = [loc EXCEPT ![i] = l]
  BY DEF StageRaises, Push, PushRaises, PorchStep, PorchRaises, RepoSyncStep,
         RepoSyncRaises, RepoSyncReplyLost, Cleanup, CleanupRaises
<1>4. \A j \in Ids \ {i} : pc'[j] = pc[j] /\ loc'[j] = loc[j]
  BY <1>2, <1>3 DEF Control, Typed
<1> QED BY <1>1, <1>4 DEF Alone, record

(* ... and the exception handler.                                           *)
LEMMA FailAlone ==
  ASSUME Control, NEW i \in Ids, Fail(i)
  PROVE  Alone(i) /\ UNCHANGED cluster
  BY DEF Fail, Alone, Control, Typed

-----------------------------------------------------------------------------
(* The Git layer.                                                          *)

(* No branch, draft or RepoSync in the beginning.                           *)
LEMMA InitGit == Init => Git
  BY DEF Init, Git, Stored, GitFirst, Untouched, Pushed, Porching, Syncing

(* A worker that keeps its own intent in order keeps all of them.           *)
LEMMA WorkerKeepsGit ==
  ASSUME Control, Git, NEW i \in Ids, Alone(i), branches \subseteq branches',
         Stored', GitFirst', Untouched(i)', Pushed(i)'
  PROVE  Git'
<1>1. \A j \in Ids \ {i} : Untouched(j)' /\ Pushed(j)'
  BY DEF Git, Alone, Untouched, Pushed, requests
<1> QED BY <1>1 DEF Git

(* A transition leads out of the states in which nothing has been touched.  *)
LEMMA TransitionsKeepGit ==
  ASSUME Control, Git, NEW i \in Ids,
         \/ Begin(i) \/ Plan(i) \/ Validate(i) \/ Generate(i)
         \/ ManifestErrors(i) \/ DryRun(i) \/ Proposed(i) \/ CheckStatus(i)
         \/ Complete(i)
  PROVE  Git'
<1>1. Alone(i) /\ UNCHANGED cluster
  BY TransitionsAlone
<1>a. StateAt(i) /\ Untouched(i) /\ state[i] \in States \cup {"none"}
  BY DEF Control, Git, Typed
<1>2. Stored' /\ GitFirst'
  <2>1. inSync' \subseteq Ids
    BY DEF Git, Stored, Begin, Plan, Validate, Generate, ManifestErrors,
           DryRun, Proposed, CheckStatus, Complete
  <2> QED BY <1>1, <2>1 DEF Git, Stored, GitFirst, cluster
<1>3. PICK s, data, next :
        /\ Transit(i, s, data, next)
        /\ next \notin Porching \cup Syncing
        /\ s \notin {"none", "acknowledged", "cancelled"}
  <2>1. CASE DryRun(i)
    <3>1. state[i] \in {"executing", "proposed", "applied"}
      BY <2>1, <1>a DEF DryRun, StateAt
    <3> QED BY <2>1, <3>1, DryNext DEF DryRun, Porching, Syncing
  <2>2. CASE CheckStatus(i)
    <3>1. \E data : Transit(i, "applied", data, "complete")
      BY <2>2 DEF CheckStatus
    <3> QED BY <3>1 DEF Porching, Syncing
  <2> QED
    BY <2>1, <2>2 DEF Begin, Plan, Validate, Generate, ManifestErrors,
                      Proposed, Complete, Porching, Syncing
<1>4. \/ /\ state'[i] \notin {"none", "acknowledged", "cancelled"}
         /\ pc'[i] \in {next, "failing"}
         /\ s \in Forward[state[i]]
      \/ state'[i] = state[i] /\ rec'[i] = rec[i] /\ pc'[i] = "failing"
  BY <1>3, TransitAt
<1>5. Pushed(i)'
  BY <1>3, <1>4 DEF Pushed, Porching, Syncing
<1>6. reply'[i] = reply[i] /\ (state[i] = "cancelled" => state'[i] = state[i])
  BY <1>1, <1>3, TransitAt, ForwardFacts DEF Alone, requests
<1>7. state'[i] \in {"none", "acknowledged", "planning", "cancelled"}
        => plan'[i] = NoPlan /\ rec'[i] = NoData
  <2>1. CASE Begin(i)
    <3>1. Transit(i, "planning", rec[i], "plan") /\ UNCHANGED plan
      BY <2>1 DEF Begin
    <3>2. rec'[i] = rec[i] /\ state'[i] \in {state[i], "planning"}
      BY <3>1, TransitAt
    <3>3. "planning" \in Forward[state[i]] => state[i] = "acknowledged"
      BY <1>a, <2>1, ForwardFacts DEF Begin, StateAt
    <3>4. state'[i] = "planning" =>
            state[i] \in {"acknowledged", "planning"}
      BY <3>1, <3>3, TransitAt
    <3> QED BY <1>a, <3>1, <3>2, <3>4 DEF Untouched
  <2>2. CASE Plan(i)
    <3>1. Transit(i, "validating", rec[i], "validate") /\ state[i] = "planning"
      BY <2>2, <1>a DEF Plan, StateAt
    <3> QED BY <3>1, TransitAt, ForwardFacts
  <2>3. CASE ~Begin(i) /\ ~Plan(i)
    <3>1. UNCHANGED plan
      BY <2>3 DEF Validate, Generate, ManifestErrors, DryRun, Proposed,
                  CheckStatus, Complete
    <3>2. PICK t, d, n : Transit(i, t, d, n)
                         /\ t \notin {"none", "acknowledged", "planning", "cancelled"}
      <4>1. CASE DryRun(i)
        <5>1. state[i] \in {"executing", "proposed", "applied"}
          BY <4>1, <1>a DEF DryRun, StateAt
        <5> QED BY <4>1, <5>1, DryNext DEF DryRun
      <4>2. CASE CheckStatus(i)
        <5>1. \E d : Transit(i, "applied", d, "complete")
          BY <4>2 DEF CheckStatus
        <5> QED BY <5>1
      <4> QED BY <2>3, <4>1, <4>2 DEF Validate, Generate, ManifestErrors,
                                      Proposed, Complete
    <3>3. \/ state'[i] = t
          \/ state'[i] = state[i] /\ rec'[i] = rec[i]
      BY <3>2, TransitAt
    <3> QED BY <1>a, <3>1, <3>2, <3>3 DEF Untouched
  <2> QED BY <2>1, <2>2, <2>3
<1>8. Untouched(i)'
  BY <1>6, <1>7, <1>a DEF Untouched
<1> QED BY <1>1, <1>2, <1>5, <1>8, WorkerKeepsGit DEF cluster

(* The handler moves an intent to failed from states it may fail in.        *)
LEMMA FailKeepsGit ==
  ASSUME Control, Git, NEW i \in Ids, Fail(i)
  PROVE  Git'
<1>1. Alone(i) /\ UNCHANGED cluster /\ UNCHANGED <<plan, rec, inSync>>
  BY FailAlone DEF Fail
<1>2. Stored' /\ GitFirst'
  BY <1>1 DEF Git, Stored, GitFirst, cluster
<1>3. pc'[i] = "cleanup"
  BY DEF Fail, Control, Typed
<1>4. \/ state'[i] = state[i]
      \/ state'[i] = "failed" /\ "failed" \in Forward[state[i]]
  BY DEF Fail, Control, Typed
<1>5. state[i] = "cancelled" => "failed" \notin Forward[state[i]]
  BY ForwardFacts
<1>6. Untouched(i)' /\ Pushed(i)'
  BY <1>1, <1>3, <1>4, <1>5 DEF Git, Untouched, Pushed, Porching, Syncing,
                                Alone, requests
<1> QED BY <1>1, <1>2, <1>6, WorkerKeepsGit DEF cluster

(* Porch and ConfigSync objects are made between the push and the proposal. *)
LEMMA CallsKeepGit ==
  ASSUME Control, Git, NEW i \in Ids,
         \/ StageRaises(i) \/ Push(i) \/ PushRaises(i) \/ PorchStep(i)
         \/ PorchRaises(i) \/ RepoSyncStep(i) \/ RepoSyncRaises(i)
         \/ RepoSyncReplyLost(i) \/ Cleanup(i) \/ CleanupRaises(i)
  PROVE  Git'
<1>1. Alone(i) /\ UNCHANGED record
  BY CallsAlone
<1>2. Untouched(i)'
  BY <1>1 DEF Git, Untouched, Alone, record, requests
<1>3. Named(i) /\ Pushed(i) /\ pc'[i] \in Steps \cup Idle
  <2>1. Control'
    BY CallsKeepControl
  <2> QED BY <2>1 DEF Control, Git, Typed
<1>4. CASE Push(i) \/ PushRaises(i)
  <2>1. plan[i] \in PlanIds
    BY <1>3, <1>4 DEF Push, PushRaises, Named
  <2>2. /\ branches' \in {branches, branches \cup {plan[i]}}
        /\ UNCHANGED <<drafts, repoSyncs, roleBindings, leaked, plan, inSync>>
        /\ pc'[i] = "draft" => plan[i] \in branches'
        /\ pc'[i] \in {"draft", "failing"}
    BY <1>4 DEF Push, PushRaises, record, Control, Typed
  <2>3. Stored' /\ GitFirst' /\ Pushed(i)'
    BY <2>1, <2>2 DEF Git, Stored, GitFirst, Pushed, Porching, Syncing
  <2> QED BY <1>1, <1>2, <2>2, <2>3, WorkerKeepsGit
<1>5. CASE PorchStep(i)
  <2>1. plan[i] \in branches /\ plan[i] \in PlanIds
    BY <1>3, <1>5 DEF PorchStep, Pushed, Named, Porching
  <2>2. UNCHANGED <<branches, repoSyncs, roleBindings, leaked, inSync>>
    BY <1>5 DEF PorchStep, record
  <2>3. \/ drafts' = drafts
        \/ drafts' = [drafts EXCEPT ![plan[i]] = "Draft"]
        \/ drafts' = [drafts EXCEPT ![plan[i]] = "Proposed"]
    BY <1>5 DEF PorchStep
  <2>4. Stored' /\ GitFirst'
    BY <2>1, <2>2, <2>3 DEF Git, Stored, GitFirst
  <2>5. Pushed(i)'
    BY <1>1, <2>1, <2>2 DEF Pushed, record
  <2> QED BY <1>1, <1>2, <2>2, <2>4, <2>5, WorkerKeepsGit
<1>6. CASE RepoSyncStep(i) \/ RepoSyncReplyLost(i)
  <2>1. plan[i] \in branches /\ plan[i] \in PlanIds
    BY <1>3, <1>6 DEF RepoSyncStep, RepoSyncReplyLost, Pushed, Named, Syncing
  <2>2. /\ UNCHANGED <<branches, drafts, inSync>>
        /\ repoSyncs' \in {repoSyncs, repoSyncs \cup {plan[i]}}
        /\ roleBindings' \in {roleBindings, roleBindings \cup {plan[i]}}
        /\ leaked' \in {leaked, leaked \cup {plan[i]}}
    BY <1>6 DEF RepoSyncStep, RepoSyncReplyLost, record
  <2>3. Stored' /\ GitFirst'
    BY <2>1, <2>2 DEF Git, Stored, GitFirst
  <2>4. Pushed(i)'
    BY <1>1, <2>1, <2>2 DEF Pushed, record
  <2> QED BY <1>1, <1>2, <2>2, <2>3, <2>4, WorkerKeepsGit
<1>7. CASE PorchRaises(i) \/ RepoSyncRaises(i)
  <2>1. UNCHANGED <<branches, drafts, repoSyncs, roleBindings, leaked, plan, inSync>>
    BY <1>7 DEF PorchRaises, RepoSyncRaises, cluster, record
  <2>2. pc[i] \in Porching \cup Syncing
    BY <1>7 DEF PorchRaises, RepoSyncRaises, Porching, Syncing
  <2>3. Stored' /\ GitFirst' /\ Pushed(i)'
    BY <2>1, <2>2, <1>3 DEF Git, Stored, GitFirst, Pushed
  <2> QED BY <1>1, <1>2, <2>1, <2>3, WorkerKeepsGit
<1>8. CASE StageRaises(i) \/ Cleanup(i) \/ CleanupRaises(i)
  <2>1. UNCHANGED <<branches, drafts, plan, inSync>>
    BY <1>8 DEF StageRaises, Cleanup, CleanupRaises, cluster, record
  <2>2. /\ repoSyncs' \subseteq repoSyncs /\ roleBindings' \subseteq roleBindings
        /\ leaked' \subseteq leaked \cup repoSyncs
    BY <1>8 DEF StageRaises, Cleanup, CleanupRaises, cluster
  <2>3. pc'[i] \in {"failing", "unbind", "done"}
    BY <1>8 DEF StageRaises, Cleanup, CleanupRaises, Control, Typed
  <2>4. Stored' /\ GitFirst' /\ Pushed(i)'
    BY <2>1, <2>2, <2>3 DEF Git, Stored, GitFirst, Pushed, Porching, Syncing
  <2> QED BY <1>1, <1>2, <2>1, <2>4, WorkerKeepsGit
<1> QED BY <1>4, <1>5, <1>6, <1>7, <1>8

(* The steps that are not a worker's do not touch the cluster.              *)
LEMMA OthersKeepGit ==
  ASSUME Control, Git,
         \/ \E i \in Ids : Request(i) \/ Dequeue(i)
         \/ Crash \/ Shutdown \/ Exit \/ Restart \/ UNCHANGED vars
  PROVE  Git'
<1>1. /\ UNCHANGED <<plan, rec, inSync, branches, drafts, repoSyncs, roleBindings>>
      /\ leaked' \in {leaked, repoSyncs}
  BY DEF Request, CreateIntent, Submit, DeleteGet, DeleteCancel, Dequeue,
         Crash, Shutdown, Exit, Restart, vars, record, cluster
<1>2. Stored' /\ GitFirst'
  BY <1>1 DEF Git, Stored, GitFirst
<1>3. \A j \in Ids : pc'[j] \in {pc[j], "begin", "idle"}
  BY DEF Request, CreateIntent, Submit, DeleteGet, DeleteCancel, Dequeue,
         Crash, Shutdown, Exit, Restart, vars, pool, ForgetJobs, Control, Typed
<1>4. \A j \in Ids : Pushed(j)'
  BY <1>1, <1>3 DEF Git, Pushed, Porching, Syncing
<1>5. \A j \in Ids : Untouched(j)'
  <2>1. CASE \E i \in Ids : CreateIntent(i)
    BY <2>1, <1>1 DEF CreateIntent, Git, Untouched, Control, Typed
  <2>2. CASE \E i \in Ids : DeleteCancel(i)
    <3>1. PICK i \in Ids : DeleteCancel(i)
      BY <2>2
    <3>2. state[i] \in States
      BY <3>1 DEF DeleteCancel, Control, StateAt, Typed
    <3>3. CASE "cancelled" \in Forward[state[i]]
      <4>1. state[i] = "acknowledged"
        BY <3>2, <3>3, ForwardFacts
      <4> QED BY <4>1, <3>1, <3>3, <1>1 DEF DeleteCancel, Git, Untouched,
                                            Control, Typed
    <3>4. CASE "cancelled" \notin Forward[state[i]]
      <4>1. deleting[i] # "200"
        BY ForwardFacts DEF Control, Typed
      <4> QED BY <4>1, <3>1, <3>4, <1>1 DEF DeleteCancel, Git, Untouched,
                                            Control, Typed
    <3> QED BY <3>3, <3>4
  <2>3. CASE UNCHANGED <<state, reply>>
    BY <2>3, <1>1 DEF Git, Untouched
  <2> QED
    BY <2>1, <2>2, <2>3 DEF Request, Submit, DeleteGet, Dequeue, Crash,
       Shutdown, Exit, Restart, vars, record, requests
<1> QED BY <1>2, <1>4, <1>5 DEF Git

(* The Git layer holds in every reachable state.                            *)
LEMMA GitInvariant == Spec => []Git
<1>1. Control /\ Git /\ [Next]_vars => Git'
  <2> SUFFICES ASSUME Control, Git, [Next]_vars PROVE Git'
    OBVIOUS
  <2>1. ASSUME NEW i \in Ids, Work(i) PROVE Git'
    BY <2>1, TransitionsKeepGit, CallsKeepGit, FailKeepsGit DEF Work
  <2> QED BY <2>1, OthersKeepGit DEF Next
<1> QED BY <1>1, InitGit, ControlInvariant, PTL DEF Spec

(* A DELETE that answered 200 is final and came before anything was planned *)
(* (delete_intent against the first transition of _run_pipeline), for every *)
(* failure, crash and interleaving.                                         *)
THEOREM CancelledTheorem == Spec => []CancelledUntouched
<1>1. Git => CancelledUntouched
  BY DEF Git, Untouched, CancelledUntouched
<1> QED BY <1>1, GitInvariant, PTL

(* Porch drafts, RepoSyncs and RoleBindings exist only for plans whose      *)
(* branch is on the Git server (step 4 of _run_pipeline before steps 5 and  *)
(* 5b), even if plans share a name.                                         *)
THEOREM GitFirstTheorem == Spec => []GitFirst
<1>1. Git => GitFirst
  BY DEF Git
<1> QED BY <1>1, GitInvariant, PTL

-----------------------------------------------------------------------------
(* The data layer.                                                         *)

(* Nobody knows anything in the beginning.                                  *)
LEMMA InitData == Init => Data
  BY DEF Init, Data, DataAt, Audible, Collected, NoData, Porching, Syncing,
         Early

(* A worker that keeps its own record in order keeps all of them.           *)
LEMMA WorkerKeepsData ==
  ASSUME Data, NEW i \in Ids, Alone(i),
         DataAt(i)', Audible(i)', Collected(i)'
  PROVE  Data'
<1>1. \A j \in Ids \ {i} : DataAt(j)' /\ Audible(j)' /\ Collected(j)'
  BY DEF Data, Alone, DataAt, Audible, Collected
<1> QED BY <1>1 DEF Data

(* A delivery is reported only for a commit that was live.                  *)
LEMMA DeliveredIsLive ==
  ASSUME NEW raw \in RawStatus, Delivered(raw)
  PROVE  Live(raw)
  BY DEF RawStatus, Delivered, Synced, Live

(* The transitions before the results are in.                               *)
LEMMA EarlyKeepsData ==
  ASSUME Control, Data, NEW i \in Ids,
         \/ Begin(i) \/ Plan(i) \/ Validate(i) \/ Generate(i)
         \/ ManifestErrors(i) \/ DryRun(i)
  PROVE  Data'
<1>1. Alone(i) /\ UNCHANGED <<loc, inSync, dry>>
  BY TransitionsAlone DEF Alone, Begin, Plan, Validate, Generate,
     ManifestErrors, DryRun
<1>a. StateAt(i) /\ DataAt(i) /\ Audible(i) /\ Collected(i)
  BY DEF Control, Data
<1>2. pc[i] \in Early \ {"push"}
  BY DEF Early, Begin, Plan, Validate, Generate, ManifestErrors, DryRun
<1>3. loc[i] = NoData /\ rec[i] = NoData
  BY <1>2, <1>a DEF DataAt, Early, Porching, Syncing
<1>4. PICK s, next :
        /\ Transit(i, s, rec[i], next)
        /\ next \notin {"proposed"} \cup Porching \cup Syncing
        /\ dry[i] \/ s \notin {"proposed", "applied", "completed"}
  <2>1. CASE DryRun(i)
    BY <2>1, <1>a DEF DryRun, StateAt, Porching, Syncing
  <2> QED
    BY <2>1 DEF Begin, Plan, Validate, Generate, ManifestErrors, Porching,
                Syncing
<1>5. /\ rec'[i] = NoData
      /\ state'[i] \in {s, state[i]}
      /\ pc'[i] \in {next, "failing"}
  BY <1>3, <1>4, TransitAt
<1>6. DataAt(i)'
  BY <1>1, <1>3, <1>4, <1>5 DEF DataAt, NoData, Porching, Syncing
<1>7. Audible(i)'
  BY <1>1, <1>3, <1>5 DEF Audible, NoData
<1>8. Collected(i)'
  BY <1>1, <1>3, <1>4, <1>5, <1>a DEF Collected, NoData
<1> QED BY <1>1, <1>6, <1>7, <1>8, WorkerKeepsData

(* The transitions that store the results.                                  *)
LEMMA ResultsKeepData ==
  ASSUME Control, Data, NEW i \in Ids,
         Proposed(i) \/ CheckStatus(i) \/ Complete(i)
  PROVE  Data'
<1>1. Alone(i) /\ UNCHANGED dry
  BY TransitionsAlone DEF Alone
<1>a. /\ StateAt(i) /\ DataAt(i) /\ Audible(i) /\ Collected(i)
      /\ rec[i] \in [porch : Outcomes, reposync : Outcomes,
                     configsync : Outcomes \cup {"undelivered"}]
      /\ loc[i] \in [porch : Outcomes, reposync : Outcomes,
                     configsync : {"none"}]
  BY DEF Control, Data, Typed
<1>2. CASE Proposed(i)
  <2>1. Transit(i, "proposed", loc[i], "status") /\ pc[i] = "proposed"
    BY <1>2 DEF Proposed
  <2>2. rec[i] = NoData /\ state[i] = "executing" /\ ~dry[i]
        /\ loc[i].porch # "none"
    BY <2>1, <1>a DEF DataAt, StateAt
  <2>3. loc'[i] = NoData /\ inSync' = inSync
    BY <1>2 DEF Proposed, Control, Typed
  <2>4. \/ state'[i] = "proposed" /\ rec'[i] = loc[i]
           /\ pc'[i] \in {"status", "failing"}
        \/ state'[i] = state[i] /\ rec'[i] = rec[i] /\ pc'[i] = "failing"
    BY <2>1, TransitAt
  <2>5. DataAt(i)'
    BY <2>3, <2>4 DEF DataAt, Early, Porching, Syncing
  <2>6. Audible(i)'
    BY <2>2, <2>3, <2>4, <1>a DEF Audible, NoData
  <2>7. Collected(i)'
    BY <1>1, <2>2, <2>3, <2>4 DEF Collected
  <2> QED BY <1>1, <2>5, <2>6, <2>7, WorkerKeepsData
<1>3. CASE CheckStatus(i)
  <2>1. pc[i] = "status" /\ state[i] = "proposed" /\ ~dry[i]
        /\ loc[i] = NoData /\ rec[i].porch # "none" /\ UNCHANGED loc
    BY <1>3, <1>a DEF CheckStatus, StateAt, DataAt, Collected, Porching,
                      Syncing
  <2>2. PICK v \in {"ok", "undelivered"} \cup Errors :
          /\ Transit(i, "applied", [rec[i] EXCEPT !.configsync = v], "complete")
          /\ v = "ok" => i \in inSync'
    <3>1. CASE \E raw \in RawStatus :
               /\ Transit(i, "applied",
                          [rec[i] EXCEPT !.configsync =
                             IF Delivered(raw) THEN "ok" ELSE "undelivered"],
                          "complete")
               /\ inSync' = IF Live(raw) THEN inSync \cup {i} ELSE inSync
      BY <3>1, DeliveredIsLive
    <3>2. CASE \E e \in Errors :
               Transit(i, "applied", [rec[i] EXCEPT !.configsync = e], "complete")
      BY <3>2 DEF Errors
    <3> QED BY <1>3, <3>1, <3>2 DEF CheckStatus
  <2>3. \/ /\ state'[i] = "applied"
           /\ rec'[i] = [rec[i] EXCEPT !.configsync = v]
           /\ pc'[i] \in {"complete", "failing"}
        \/ state'[i] = state[i] /\ rec'[i] = rec[i] /\ pc'[i] = "failing"
    BY <2>2, TransitAt
  <2>4. rec'[i].porch = rec[i].porch /\ rec'[i].configsync \in {v, rec[i].configsync}
        /\ (state'[i] = "applied" => rec'[i].configsync = v)
    BY <2>1, <2>3, <1>a
  <2>5. DataAt(i)'
    BY <2>1, <2>3 DEF DataAt, Early, Porching, Syncing
  <2>6. Audible(i)'
    BY <2>1, <2>2, <2>4, <1>a DEF Audible, Errors
  <2>7. Collected(i)'
    BY <1>1, <2>1, <2>2, <2>3, <2>4 DEF Collected, Errors
  <2> QED BY <1>1, <2>5, <2>6, <2>7, WorkerKeepsData
<1>4. CASE Complete(i)
  <2>1. /\ Transit(i, "completed", rec[i], "cleanup")
        /\ pc[i] = "complete" /\ state[i] = "applied" /\ loc[i] = NoData
        /\ UNCHANGED <<loc, inSync>>
    BY <1>4, <1>a DEF Complete, StateAt, DataAt, Porching, Syncing
  <2>2. /\ rec'[i] = rec[i] /\ state'[i] \in {"completed", "applied"}
        /\ pc'[i] \in {"cleanup", "failing"}
    BY <2>1, TransitAt
  <2>3. DataAt(i)' /\ Audible(i)' /\ Collected(i)'
    BY <1>1, <2>1, <2>2, <1>a DEF DataAt, Audible, Collected, Early,
                                  Porching, Syncing
  <2> QED BY <1>1, <2>3, WorkerKeepsData
<1> QED BY <1>2, <1>3, <1>4

(* The calls store their outcome where the proposal will find it.           *)
LEMMA CallsKeepData ==
  ASSUME Control, Data, NEW i \in Ids,
         \/ StageRaises(i) \/ Push(i) \/ PushRaises(i) \/ PorchStep(i)
         \/ PorchRaises(i) \/ RepoSyncStep(i) \/ RepoSyncRaises(i)
         \/ RepoSyncReplyLost(i) \/ Cleanup(i) \/ CleanupRaises(i)
  PROVE  Data'
<1>1. Alone(i) /\ UNCHANGED <<state, dry, rec, inSync>>
  BY CallsAlone DEF record
<1>a. /\ DataAt(i) /\ Audible(i) /\ Collected(i)
      /\ loc[i] \in [porch : Outcomes, reposync : Outcomes,
                     configsync : {"none"}]
  BY DEF Control, Data, Typed
<1>2. Collected(i)'
  BY <1>1, <1>a DEF Collected
<1>3. CASE StageRaises(i) \/ Push(i) \/ PushRaises(i) \/ Cleanup(i)
           \/ CleanupRaises(i)
  <2>1. loc' = loc /\ loc[i] = NoData
    BY <1>3, <1>a DEF StageRaises, Push, PushRaises, Cleanup, CleanupRaises,
                      DataAt, Porching, Syncing
  <2>2. \/ pc'[i] \in {"failing", "unbind", "done"}
        \/ pc'[i] = "draft" /\ pc[i] = "push"
    BY <1>3 DEF StageRaises, Push, PushRaises, Cleanup, CleanupRaises,
                Control, Typed
  <2>3. DataAt(i)' /\ Audible(i)'
    BY <1>1, <1>a, <2>1, <2>2 DEF DataAt, Audible, NoData, Early, Porching,
                                  Syncing
  <2> QED BY <1>1, <1>2, <2>3, WorkerKeepsData
<1>4. CASE PorchStep(i) \/ PorchRaises(i)
  <2>1. pc[i] \in Porching
    BY <1>4 DEF PorchStep, PorchRaises, Porching
  <2>2. \/ loc'[i] = loc[i] /\ pc'[i] \in Porching
        \/ \E e \in {"ok"} \cup Errors :
             loc'[i] = [loc[i] EXCEPT !.porch = e] /\ pc'[i] = "rslist"
    BY <1>4 DEF PorchStep, PorchRaises, Porching, Control, Typed
  <2>3. \/ loc'[i] = loc[i] /\ pc'[i] \in Porching
        \/ /\ loc'[i].reposync = loc[i].reposync
           /\ loc'[i].porch \in {"ok"} \cup Errors
           /\ pc'[i] = "rslist"
    BY <1>a, <2>2
  <2>4. DataAt(i)' /\ Audible(i)'
    BY <1>1, <1>a, <2>1, <2>3 DEF DataAt, Audible, Errors, Early, Porching,
                                  Syncing
  <2> QED BY <1>1, <1>2, <2>4, WorkerKeepsData
<1>5. CASE RepoSyncStep(i) \/ RepoSyncRaises(i) \/ RepoSyncReplyLost(i)
  <2>1. pc[i] \in Syncing
    BY <1>5 DEF RepoSyncStep, RepoSyncRaises, RepoSyncReplyLost, Syncing
  <2>2. \/ loc'[i] = loc[i] /\ pc'[i] \in Syncing
        \/ \E e \in {"ok"} \cup Errors :
             loc'[i] = [loc[i] EXCEPT !.reposync = e] /\ pc'[i] = "proposed"
    BY <1>5 DEF RepoSyncStep, RepoSyncRaises, RepoSyncReplyLost, Syncing,
                Control, Typed
  <2>3. \/ loc'[i] = loc[i] /\ pc'[i] \in Syncing
        \/ loc'[i].porch = loc[i].porch /\ pc'[i] = "proposed"
    BY <1>a, <2>2
  <2>4. DataAt(i)' /\ Audible(i)'
    BY <1>1, <1>a, <2>1, <2>3 DEF DataAt, Audible, Early, Porching, Syncing
  <2> QED BY <1>1, <1>2, <2>4, WorkerKeepsData
<1> QED BY <1>3, <1>4, <1>5

(* The exception handler keeps what is on the record.                       *)
LEMMA FailKeepsData ==
  ASSUME Control, Data, NEW i \in Ids, Fail(i)
  PROVE  Data'
<1>1. Alone(i) /\ UNCHANGED <<dry, rec, loc, inSync>>
  BY FailAlone DEF Fail
<1>2. pc[i] = "failing" /\ pc'[i] = "cleanup" /\ state'[i] \in {state[i], "failed"}
  BY DEF Fail, Control, Typed
<1>3. DataAt(i)' /\ Audible(i)' /\ Collected(i)'
  BY <1>1, <1>2 DEF Data, DataAt, Audible, Collected, Early, Porching, Syncing
<1> QED BY <1>1, <1>3, WorkerKeepsData

(* A job that is taken from the queue has a record without results.         *)
LEMMA OthersKeepData ==
  ASSUME Control, Git, Data,
         \/ \E i \in Ids : Request(i) \/ Dequeue(i)
         \/ Crash \/ Shutdown \/ Exit \/ Restart \/ UNCHANGED vars
  PROVE  Data'
<1>1. UNCHANGED <<rec, inSync>>
  BY DEF Request, CreateIntent, Submit, DeleteGet, DeleteCancel, Dequeue,
         Crash, Shutdown, Exit, Restart, vars, record
<1>2. \A j \in Ids : loc'[j] \in {loc[j], NoData}
  BY DEF Request, CreateIntent, Submit, DeleteGet, DeleteCancel, Dequeue,
         Crash, Shutdown, Exit, Restart, vars, pool, ForgetJobs
<1>3. \A j \in Ids : Audible(j)'
  BY <1>1, <1>2 DEF Data, Audible, NoData
<1>4. \A j \in Ids : \/ state'[j] = state[j] /\ dry'[j] = dry[j]
                     \/ state'[j] \in {"acknowledged", "cancelled"}
  <2>1. CASE \E i \in Ids : CreateIntent(i)
    BY <2>1 DEF CreateIntent, Control, Typed
  <2>2. CASE \E i \in Ids : DeleteCancel(i)
    BY <2>2 DEF DeleteCancel, Control, Typed
  <2>3. CASE UNCHANGED <<state, dry>>
    BY <2>3
  <2> QED
    BY <2>1, <2>2, <2>3 DEF Request, Submit, DeleteGet, Dequeue, Crash,
       Shutdown, Exit, Restart, vars, record
<1>5. \A j \in Ids : Collected(j)'
  BY <1>1, <1>4 DEF Data, Collected
<1>6. \A j \in Ids : \/ pc'[j] = pc[j] /\ loc'[j] = loc[j]
                     \/ pc'[j] = "idle" /\ loc'[j] = NoData
                     \/ pc'[j] = "begin" /\ loc'[j] = NoData /\ rec[j] = NoData
  <2>1. ASSUME NEW i \in Ids, Dequeue(i)
        PROVE  loc[i] = NoData /\ rec[i] = NoData
    <3>1. /\ Len(queue) > 0 /\ i = queue[1]
      BY <2>1 DEF Dequeue, Control, Typed
    <3>2. Fresh(i)
      BY <3>1 DEF Control, Waiting, Typed
    <3> QED BY <3>2 DEF Fresh, Git, Untouched, Data, DataAt, Porching, Syncing
  <2>2. CASE \E i \in Ids : Dequeue(i)
    BY <2>1, <2>2 DEF Dequeue, Control, Typed
  <2>3. CASE Crash \/ Exit
    BY <2>3 DEF Crash, Exit, ForgetJobs
  <2>4. CASE UNCHANGED <<pc, loc>>
    BY <2>4
  <2> QED
    BY <2>2, <2>3, <2>4 DEF Request, CreateIntent, Submit, DeleteGet,
       DeleteCancel, Shutdown, Restart, vars, pool
<1>7. \A j \in Ids : DataAt(j)'
  BY <1>1, <1>6 DEF Data, DataAt, NoData, Early, Porching, Syncing
<1> QED BY <1>3, <1>5, <1>7 DEF Data

(* The data layer holds in every reachable state.                           *)
LEMMA DataInvariant == Spec => []Data
<1>1. Control /\ Git /\ Data /\ [Next]_vars => Data'
  <2> SUFFICES ASSUME Control, Git, Data, [Next]_vars PROVE Data'
    OBVIOUS
  <2>1. ASSUME NEW i \in Ids, Work(i) PROVE Data'
    BY <2>1, EarlyKeepsData, ResultsKeepData, CallsKeepData, FailKeepsData
       DEF Work
  <2> QED BY <2>1, OthersKeepData DEF Next
<1> QED BY <1>1, InitData, ControlInvariant, GitInvariant, PTL DEF Spec

(* Unless an exception may have an empty text, a report that says           *)
(* "compliant" is of an intent whose package Porch has and whose commit was *)
(* live when the worker looked, whatever else fails, crashes included.      *)
THEOREM CompliantTheorem ==
  ASSUME "silent" \notin Failures
  PROVE  Spec => []CompliantMeansDelivered
<1>1. Control /\ Data => CompliantMeansDelivered
  <2> SUFFICES ASSUME Control, Data, NEW i \in Ids,
                      ComplianceState(i) = "compliant", ~dry[i]
               PROVE  rec[i].porch = "ok" /\ i \in inSync
    BY DEF CompliantMeansDelivered
  <2>1. /\ state[i] \in {"applied", "completed"}
        /\ rec[i].porch # "error"
        /\ rec[i].configsync \notin {"error", "undelivered"}
    BY DEF ComplianceState
  <2>2. /\ rec[i].porch \in Outcomes
        /\ rec[i].configsync \in Outcomes \cup {"undelivered"}
    BY DEF Control, Typed
  <2>3. Collected(i) /\ Audible(i)
    BY DEF Data
  <2> QED BY <2>1, <2>2, <2>3 DEF Collected, Audible, Outcomes
<1> QED BY <1>1, ControlInvariant, DataInvariant, PTL

-----------------------------------------------------------------------------
(* The RepoSync layer.                                                     *)

(* What a step of a worker does to its plan and the RepoSync of its plan.   *)
HoldStep(i) ==
  /\ plan'[i] = plan[i] \/ plan[i] = NoPlan
  /\ repoSyncs \ {plan[i]} \subseteq repoSyncs'
  /\ Holds(i)' => /\ plan'[i] = plan[i]
                  /\ \/ plan[i] \in PlanIds \cap repoSyncs'
                     \/ Holds(i) /\ repoSyncs' = repoSyncs
  /\ Holds(i) => plan[i] \notin Owned' \/ (Holds(i)' /\ plan'[i] = plan[i])
  /\ \/ Owned' \subseteq Owned
     \/ Holds(i)' /\ plan'[i] = plan[i] /\ Owned' \subseteq Owned \cup {plan[i]}

(* A worker does not get hold of a RepoSync, nor lose it, by a transition.  *)
LEMMA TransitionsHold ==
  ASSUME Control, Git, Data, NEW i \in Ids,
         \/ Begin(i) \/ Plan(i) \/ Validate(i) \/ Generate(i)
         \/ ManifestErrors(i) \/ DryRun(i) \/ Proposed(i) \/ CheckStatus(i)
         \/ Complete(i)
  PROVE  HoldStep(i)
<1>1. repoSyncs' = repoSyncs /\ Owned' = Owned
  BY TransitionsAlone DEF cluster, Owned
<1>p. plan'[i] = plan[i] \/ plan[i] = NoPlan
  BY DEF Begin, Plan, Validate, Generate, ManifestErrors, DryRun, Proposed,
         CheckStatus, Complete, Control, StateAt, Git, Untouched
<1>a. /\ StateAt(i) /\ DataAt(i)
      /\ rec[i] \in [porch : Outcomes, reposync : Outcomes,
                     configsync : Outcomes \cup {"undelivered"}]
  BY DEF Control, Data, Typed
<1>2. CASE Begin(i) \/ Plan(i) \/ Validate(i) \/ Generate(i)
           \/ ManifestErrors(i) \/ DryRun(i)
  <2>1. pc[i] \in Early
    BY <1>2 DEF Early, Begin, Plan, Validate, Generate, ManifestErrors, DryRun
  <2>2. rec[i] = NoData /\ ~Holds(i)
    BY <2>1, <1>a DEF DataAt, Holds, Early
  <2>3. \E s, next : Transit(i, s, rec[i], next) /\ next # "proposed"
    BY <1>2 DEF Begin, Plan, Validate, Generate, ManifestErrors, DryRun
  <2>4. rec'[i] = NoData /\ pc'[i] # "proposed"
    BY <2>2, <2>3, TransitAt
  <2>5. ~Holds(i)'
    BY <2>4 DEF Holds, NoData
  <2> QED BY <1>1, <1>p, <2>2, <2>5 DEF HoldStep
<1>3. CASE Proposed(i)
  <2>1. /\ Transit(i, "proposed", loc[i], "status") /\ pc[i] = "proposed"
        /\ plan' = plan
    BY <1>3 DEF Proposed
  <2>2. state[i] = "executing"
    BY <2>1, <1>a DEF StateAt
  <2>3. rec'[i] = loc[i] /\ pc'[i] \in {"status", "failing"}
    BY <2>1, <2>2, TransitAt, ForwardFacts
  <2>4. Holds(i)' <=> Holds(i)
    BY <2>1, <2>3 DEF Holds
  <2> QED BY <1>1, <2>1, <2>4 DEF HoldStep
<1>4. CASE CheckStatus(i)
  <2>1. pc[i] = "status" /\ plan' = plan
    BY <1>4 DEF CheckStatus
  <2>2. PICK v : Transit(i, "applied", [rec[i] EXCEPT !.configsync = v], "complete")
    BY <1>4 DEF CheckStatus
  <2>3. /\ rec'[i] \in {rec[i], [rec[i] EXCEPT !.configsync = v]}
        /\ pc'[i] \in {"complete", "failing"}
    BY <2>2, TransitAt
  <2>4. rec'[i].reposync = rec[i].reposync
    BY <2>3, <1>a
  <2>5. Holds(i)' <=> Holds(i)
    BY <2>1, <2>3, <2>4 DEF Holds
  <2> QED BY <1>1, <2>1, <2>5 DEF HoldStep
<1>5. CASE Complete(i)
  <2>1. /\ Transit(i, "completed", rec[i], "cleanup") /\ pc[i] = "complete"
        /\ plan' = plan
    BY <1>5 DEF Complete
  <2>2. rec'[i] = rec[i] /\ pc'[i] \in {"cleanup", "failing"}
    BY <2>1, TransitAt
  <2>3. Holds(i)' <=> Holds(i)
    BY <2>1, <2>2 DEF Holds
  <2> QED BY <1>1, <2>1, <2>3 DEF HoldStep
<1> QED BY <1>2, <1>3, <1>4, <1>5

(* A worker gets hold of a RepoSync by creating or finding it, and lets go  *)
(* of it by deleting it, or by a delete that is refused.                    *)
LEMMA CallsHold ==
  ASSUME Control, Git, Data, NEW i \in Ids,
         \/ StageRaises(i) \/ Push(i) \/ PushRaises(i) \/ PorchStep(i)
         \/ PorchRaises(i) \/ RepoSyncStep(i) \/ RepoSyncRaises(i)
         \/ RepoSyncReplyLost(i) \/ Cleanup(i) \/ CleanupRaises(i)
  PROVE  HoldStep(i)
<1>1. rec' = rec /\ plan' = plan
  BY CallsAlone DEF record
<1>n. Named(i)
  BY DEF Control
<1>a. /\ DataAt(i)
      /\ loc[i] \in [porch : Outcomes, reposync : Outcomes,
                     configsync : {"none"}]
  BY DEF Control, Data, Typed
<1>2. CASE StageRaises(i) \/ Push(i) \/ PushRaises(i)
  <2>1. pc[i] \in Early /\ repoSyncs' = repoSyncs /\ Owned' = Owned
    BY <1>2 DEF Early, StageRaises, Push, PushRaises, cluster, Owned
  <2>2. rec[i] = NoData /\ ~Holds(i)
    BY <2>1, <1>a DEF DataAt, Holds, Early
  <2>3. pc'[i] \in {"draft", "failing"}
    BY <1>2 DEF StageRaises, Push, PushRaises, Control, Typed
  <2>4. ~Holds(i)'
    BY <1>1, <2>2, <2>3 DEF Holds, NoData
  <2> QED BY <1>1, <2>1, <2>2, <2>4 DEF HoldStep
<1>3. CASE PorchStep(i) \/ PorchRaises(i)
  <2>1. pc[i] \in Porching /\ repoSyncs' = repoSyncs /\ Owned' = Owned
    BY <1>3 DEF Porching, PorchStep, PorchRaises, cluster, Owned
  <2>2. pc'[i] \in {"upload", "propose", "rslist"}
    BY <1>3 DEF PorchStep, PorchRaises, Control, Typed
  <2>3. ~Holds(i) /\ ~Holds(i)'
    BY <2>1, <2>2 DEF Holds, Porching
  <2> QED BY <1>1, <2>1, <2>3 DEF HoldStep
<1>4. CASE RepoSyncStep(i)
  <2>1. pc[i] \in Syncing /\ ~Holds(i) /\ plan[i] \in PlanIds /\ leaked' = leaked
    BY <1>4, <1>n DEF Syncing, RepoSyncStep, Holds, Named
  <2>2. CASE repoSyncs' = repoSyncs /\ pc'[i] \in {"rsbind", "rscreate"}
    <3>1. ~Holds(i)'
      BY <2>2 DEF Holds
    <3> QED BY <1>1, <2>1, <2>2, <3>1 DEF HoldStep, Owned
  <2>3. CASE /\ repoSyncs \subseteq repoSyncs'
             /\ repoSyncs' \subseteq repoSyncs \cup {plan[i]}
             /\ plan[i] \in repoSyncs'
             /\ pc'[i] = "proposed"
             /\ loc'[i] = [loc[i] EXCEPT !.reposync = "ok"]
    <3>1. loc'[i].reposync = "ok"
      BY <2>3, <1>a
    <3>2. Holds(i)'
      BY <2>3, <3>1 DEF Holds
    <3>3. Owned' \subseteq Owned \cup {plan[i]}
      BY <2>1, <2>3 DEF Owned
    <3> QED BY <1>1, <2>1, <2>3, <3>2, <3>3 DEF HoldStep
  <2> QED BY <1>4, <2>2, <2>3 DEF RepoSyncStep, Listed, Control, Typed
<1>5. CASE RepoSyncRaises(i)
  <2>1. pc[i] \in Syncing /\ ~Holds(i) /\ repoSyncs' = repoSyncs /\ Owned' = Owned
    BY <1>5 DEF Syncing, RepoSyncRaises, Holds, cluster, Owned
  <2>2. PICK e \in {"error", "silent"} :
          loc'[i] = [loc[i] EXCEPT !.reposync = e] /\ pc'[i] = "proposed"
    BY <1>5 DEF RepoSyncRaises, Errors, Control, Typed
  <2>3. loc'[i].reposync # "ok"
    BY <2>2, <1>a
  <2>4. ~Holds(i)'
    BY <2>2, <2>3 DEF Holds
  <2> QED BY <1>1, <2>1, <2>4 DEF HoldStep
<1>6. CASE RepoSyncReplyLost(i)
  <2>1. /\ repoSyncs \subseteq repoSyncs' /\ Owned' \subseteq Owned
        /\ ~Holds(i)
    BY <1>6 DEF RepoSyncReplyLost, Owned, Holds
  <2>2. PICK e \in {"error", "silent"} :
          loc'[i] = [loc[i] EXCEPT !.reposync = e] /\ pc'[i] = "proposed"
    BY <1>6 DEF RepoSyncReplyLost, Errors, Control, Typed
  <2>3. loc'[i].reposync # "ok"
    BY <2>2, <1>a
  <2>4. ~Holds(i)'
    BY <2>2, <2>3 DEF Holds
  <2> QED BY <1>1, <2>1, <2>4 DEF HoldStep
<1>7. CASE Cleanup(i)
  <2>1. pc'[i] \in {"unbind", "done"}
    BY <1>7 DEF Cleanup, Control, Typed
  <2>2. ~Holds(i)'
    BY <2>1 DEF Holds
  <2>3. \/ repoSyncs' = repoSyncs /\ leaked' = leaked /\ ~Holds(i)
        \/ repoSyncs' = repoSyncs \ {plan[i]} /\ leaked' = leaked \ {plan[i]}
    BY <1>7 DEF Cleanup, Holds
  <2>4. Owned' \subseteq Owned /\ (Holds(i) => plan[i] \notin Owned')
    BY <2>3 DEF Owned
  <2> QED BY <1>1, <2>2, <2>3, <2>4 DEF HoldStep
<1>8. CASE CleanupRaises(i)
  <2>1. pc'[i] = "done" /\ repoSyncs' = repoSyncs
    BY <1>8 DEF CleanupRaises, Control, Typed
  <2>2. ~Holds(i)'
    BY <2>1 DEF Holds
  <2>3. Owned' \subseteq Owned /\ (Holds(i) => plan[i] \notin Owned')
    BY <1>8 DEF CleanupRaises, Owned, Holds
  <2> QED BY <1>1, <2>1, <2>2, <2>3 DEF HoldStep
<1> QED BY <1>2, <1>3, <1>4, <1>5, <1>6, <1>7, <1>8

(* The exception handler keeps what the worker holds for the clean-up.      *)
LEMMA FailHolds ==
  ASSUME Control, NEW i \in Ids, Fail(i)
  PROVE  HoldStep(i)
<1>1. /\ UNCHANGED <<rec, plan, repoSyncs>> /\ Owned' = Owned
      /\ pc[i] = "failing" /\ pc'[i] = "cleanup"
  BY DEF Fail, Control, Typed, cluster, Owned
<1>2. Holds(i)' <=> Holds(i)
  BY <1>1 DEF Holds
<1> QED BY <1>1, <1>2 DEF HoldStep

(* The steps of a worker: it touches the RepoSync of its own plan only.     *)
LEMMA WorkerKeepsSyncs ==
  ASSUME Kept, Held, NEW i \in Ids, Alone(i), HoldStep(i)
  PROVE  Kept' /\ Held'
<1>1. \A j \in Ids \ {i} : (Holds(j)' <=> Holds(j)) /\ plan'[j] = plan[j]
  BY DEF Alone, Holds
<1>2. ASSUME NEW j \in Ids, Holds(j)'
      PROVE  plan'[j] \in PlanIds /\ (Unshared(j)' => plan'[j] \in repoSyncs')
  <2>1. CASE j = i
    <3>1. /\ plan'[i] = plan[i]
          /\ \/ plan[i] \in PlanIds \cap repoSyncs'
             \/ Holds(i) /\ repoSyncs' = repoSyncs
      BY <1>2, <2>1 DEF HoldStep
    <3>2. Unshared(i)' => Unshared(i)
      BY <1>1, <3>1 DEF Unshared
    <3> QED BY <2>1, <3>1, <3>2 DEF Kept
  <2>2. CASE j # i
    <3>1. Holds(j) /\ plan'[j] = plan[j]
      BY <1>1, <1>2, <2>2
    <3>2. plan[j] \in PlanIds /\ (Unshared(j) => plan[j] \in repoSyncs)
      BY <3>1 DEF Kept
    <3>3. Unshared(j)' => plan'[i] # plan[j]
      BY <2>2, <3>1 DEF Unshared
    <3>4. Unshared(j)' => plan[i] # plan[j]
      BY <3>2, <3>3, PipelineAssumption DEF HoldStep, NoPlan
    <3>5. Unshared(j)' => Unshared(j)
      BY <1>1, <3>1, <3>4 DEF Unshared
    <3> QED BY <3>1, <3>2, <3>4, <3>5 DEF HoldStep
  <2> QED BY <2>1, <2>2
<1>3. ASSUME NEW p \in Owned'
      PROVE  \E j \in Ids : plan'[j] = p /\ Holds(j)'
  <2>1. CASE p \in Owned
    <3>1. PICK j \in Ids : plan[j] = p /\ Holds(j)
      BY <2>1 DEF Held
    <3>2. CASE j = i
      BY <1>3, <3>1, <3>2 DEF HoldStep
    <3>3. CASE j # i
      BY <3>1, <3>3, <1>1
    <3> QED BY <3>2, <3>3
  <2>2. CASE p \notin Owned
    BY <1>3, <2>2 DEF HoldStep
  <2> QED BY <2>1, <2>2
<1> QED BY <1>2, <1>3 DEF Kept, Held

(* The other steps: a process that comes to an end by itself leaves nothing *)
(* behind, and one that is killed leaks what there is.                      *)
LEMMA OthersKeepSyncs ==
  ASSUME Control, Kept, Held,
         \/ \E i \in Ids : Request(i) \/ Dequeue(i)
         \/ Crash \/ Shutdown \/ Exit \/ Restart \/ UNCHANGED vars
  PROVE  Kept' /\ Held'
<1>1. CASE \E i \in Ids : Dequeue(i)
  <2>1. PICK i \in Ids : Dequeue(i)
    BY <1>1
  <2>2. UNCHANGED <<plan, rec, loc, repoSyncs, leaked>>
    BY <2>1 DEF Dequeue, record, cluster
  <2>3. ~Holds(i)
    BY <2>1, DequeueKeepsControl DEF Holds
  <2>4. \A j \in Ids : Holds(j)' <=> Holds(j)
    BY <2>1, <2>2, <2>3 DEF Holds, Dequeue, Control, Typed
  <2> QED BY <2>2, <2>4 DEF Kept, Held, Owned, Unshared
<1>2. CASE UNCHANGED <<plan, rec, loc, pc, repoSyncs, leaked>>
  BY <1>2 DEF Kept, Held, Holds, Owned, Unshared
<1>3. CASE Crash \/ Exit
  <2>1. \A j \in Ids : ~Holds(j)'
    BY <1>3 DEF Crash, Exit, ForgetJobs, Holds
  <2>2. CASE Crash
    BY <2>1, <2>2 DEF Crash, Kept, Held, Owned
  <2>3. CASE Exit
    <3>1. \A j \in Ids : ~Holds(j)
      BY <2>3 DEF Exit, Holds, Idle
    <3>2. Owned = {} /\ Owned' = Owned
      BY <2>3, <3>1 DEF Held, Exit, cluster, Owned
    <3> QED BY <2>1, <3>2 DEF Kept, Held
  <2> QED BY <1>3, <2>2, <2>3
<1> QED
  BY <1>1, <1>2, <1>3 DEF Request, CreateIntent, Submit, DeleteGet,
     DeleteCancel, Shutdown, Restart, vars, record, pool, cluster

(* Who holds a RepoSync, in every reachable state.                          *)
LEMMA SyncsInvariant == Spec => [](Kept /\ Held)
<1>1. Init => Kept /\ Held
  BY DEF Init, Kept, Held, Holds, Owned
<1>2. Control /\ Git /\ Data /\ Kept /\ Held /\ [Next]_vars => (Kept /\ Held)'
  <2> SUFFICES ASSUME Control, Git, Data, Kept, Held, [Next]_vars
               PROVE  Kept' /\ Held'
    OBVIOUS
  <2>1. ASSUME NEW i \in Ids, Work(i)
        PROVE  Alone(i) /\ HoldStep(i)
    BY <2>1, TransitionsAlone, CallsAlone, FailAlone, TransitionsHold,
       CallsHold, FailHolds DEF Work
  <2> QED BY <2>1, WorkerKeepsSyncs, OthersKeepSyncs DEF Next
<1> QED
  BY <1>1, <1>2, ControlInvariant, GitInvariant, DataInvariant, PTL DEF Spec

(* From the moment an intent has recorded its RepoSync until its clean-up,  *)
(* the RepoSync exists: _cleanup_reposync of another intent takes it away   *)
(* only if the planner gave both the same name, whatever fails or crashes.  *)
THEOREM RepoSyncKeptTheorem == Spec => []RepoSyncKept
<1>1. Kept => RepoSyncKept
  BY DEF Kept, Holds, Unshared, RepoSyncKept
<1> QED BY <1>1, SyncsInvariant, PTL

(* No RepoSync without a worker that will delete it, unless a create whose  *)
(* reply was lost, a refused delete or a kill leaked it, however often plan *)
(* names repeat and whatever else fails.                                    *)
THEOREM RepoSyncOwnedTheorem == Spec => []RepoSyncHasOwner
<1>1. Held => RepoSyncHasOwner
  BY DEF Held, Holds, Owned, RepoSyncHasOwner, Steps
<1> QED BY <1>1, SyncsInvariant, PTL

-----------------------------------------------------------------------------
(* The metrics layer.                                                      *)

Running == Steps \ {"cleanup", "unbind"}

(* A worker reports exactly when it leaves the steps before the clean-up.   *)
Reports(i) ==
  \/ /\ UNCHANGED metrics
     /\ pc[i] \in Running <=> pc'[i] \in Running
  \/ /\ pc[i] \in Running /\ pc'[i] \notin Running
     /\ \E result \in {"completed", "failed"} : Finish(result)

(* Transitions report when they are the last one and go through.            *)
LEMMA TransitionsReport ==
  ASSUME Control, NEW i \in Ids,
         \/ Begin(i) \/ Plan(i) \/ Validate(i) \/ Generate(i)
         \/ ManifestErrors(i) \/ DryRun(i) \/ Proposed(i) \/ CheckStatus(i)
         \/ Complete(i)
  PROVE  Reports(i)
<1>s. /\ {"begin", "plan", "validate", "generate", "dry", "push", "proposed",
          "status", "complete", "failing"} \subseteq Running
      /\ "done" \notin Running /\ "cleanup" \notin Running
  BY DEF Running, Steps
<1>1. CASE Begin(i) \/ Plan(i) \/ Validate(i) \/ Generate(i) \/ Proposed(i)
           \/ CheckStatus(i)
  <2>1. UNCHANGED metrics /\ pc[i] \in Running
    BY <1>1, <1>s DEF Begin, Plan, Validate, Generate, Proposed, CheckStatus
  <2>2. \E s, data, next : Transit(i, s, data, next) /\ next \in Running
    BY <1>1, <1>s DEF Begin, Plan, Validate, Generate, Proposed, CheckStatus
  <2>3. pc'[i] \in Running
    BY <2>2, <1>s, TransitAt
  <2> QED BY <2>1, <2>3 DEF Reports
<1>2. CASE ManifestErrors(i)
  <2>1. pc'[i] \in {"done", "failing"} /\ pc[i] = "generate"
    BY <1>2, TransitAt DEF ManifestErrors
  <2> QED BY <1>2, <1>s, <2>1 DEF ManifestErrors, Reports
<1>3. CASE DryRun(i)
  <2>1. \E s, data, next : Transit(i, s, data, next) /\ next \in {"done", "dry"}
    BY <1>3 DEF DryRun
  <2>2. pc'[i] \in {"done", "dry", "failing"} /\ pc[i] = "dry"
    BY <1>3, <2>1, TransitAt DEF DryRun
  <2> QED BY <1>3, <1>s, <2>2 DEF DryRun, Reports
<1>4. CASE Complete(i)
  <2>1. pc'[i] \in {"cleanup", "failing"} /\ pc[i] = "complete"
    BY <1>4, TransitAt DEF Complete
  <2> QED BY <1>4, <1>s, <2>1 DEF Complete, Reports
<1> QED BY <1>1, <1>2, <1>3, <1>4

(* Calls do not report; the exception handler does.                         *)
LEMMA CallsReport ==
  ASSUME Control, NEW i \in Ids,
         \/ StageRaises(i) \/ Push(i) \/ PushRaises(i) \/ PorchStep(i)
         \/ PorchRaises(i) \/ RepoSyncStep(i) \/ RepoSyncRaises(i)
         \/ RepoSyncReplyLost(i) \/ Cleanup(i) \/ CleanupRaises(i) \/ Fail(i)
  PROVE  Reports(i)
<1>s. /\ {"plan", "validate", "generate", "push", "draft", "upload", "propose",
          "rslist", "rsbind", "rscreate", "proposed", "failing"}
            \subseteq Running
      /\ "done" \notin Running /\ "cleanup" \notin Running
      /\ "unbind" \notin Running
  BY DEF Running, Steps
<1>1. CASE Fail(i)
  <2>1. pc[i] = "failing" /\ pc'[i] = "cleanup" /\ Finish("failed")
    BY <1>1 DEF Fail, Control, Typed
  <2> QED BY <2>1, <1>s DEF Reports
<1>2. CASE Cleanup(i) \/ CleanupRaises(i)
  <2>1. /\ pc[i] \in {"cleanup", "unbind"} /\ pc'[i] \in {"unbind", "done"}
        /\ UNCHANGED metrics
    BY <1>2 DEF Cleanup, CleanupRaises, Control, Typed
  <2> QED BY <2>1, <1>s DEF Reports
<1>3. CASE StageRaises(i) \/ Push(i) \/ PushRaises(i) \/ PorchStep(i)
         \/ PorchRaises(i) \/ RepoSyncStep(i) \/ RepoSyncRaises(i)
         \/ RepoSyncReplyLost(i)
  <2>1. pc[i] \in {"plan", "validate", "generate", "push", "draft", "upload",
                   "propose", "rslist", "rsbind", "rscreate"}
    BY <1>3 DEF StageRaises, Push, PushRaises, PorchStep, PorchRaises,
                RepoSyncStep, RepoSyncRaises, RepoSyncReplyLost
  <2>2. pc'[i] \in {"failing", "draft", "upload", "propose", "rslist",
                    "rsbind", "rscreate", "proposed"}
    BY <1>3 DEF StageRaises, Push, PushRaises, PorchStep, PorchRaises,
                RepoSyncStep, RepoSyncRaises, RepoSyncReplyLost, Control, Typed
  <2>3. UNCHANGED metrics
    BY <1>3, CallsAlone
  <2> QED BY <2>1, <2>2, <2>3, <1>s DEF Reports
<1> QED BY <1>1, <1>2, <1>3

(* One report lowers the gauge by the job that made it.                     *)
LEMMA WorkerKeepsMetered ==
  ASSUME Control, Metered, NEW i \in Ids, Alone(i), Reports(i)
  PROVE  Metered'
<1>1. \A j \in Ids \ {i} : j \in Unreported' <=> j \in Unreported
  BY DEF Alone, Unreported
<1>2. /\ i \in Unreported <=> pc[i] \in Running
      /\ i \in Unreported' <=> pc'[i] \in Running
      /\ Unreported \subseteq Ids /\ Unreported' \subseteq Ids
  BY DEF Unreported, Running
<1>3. CASE UNCHANGED metrics /\ (pc[i] \in Running <=> pc'[i] \in Running)
  <2>1. Unreported' = Unreported
    BY <1>1, <1>2, <1>3
  <2> QED BY <1>3, <2>1 DEF Metered, JobsAccounted, metrics
<1>4. CASE /\ pc[i] \in Running /\ pc'[i] \notin Running
           /\ \E result \in {"completed", "failed"} : Finish(result)
  <2>1. Unreported' = Unreported \ {i} /\ i \in Unreported
    BY <1>1, <1>2, <1>4
  <2>2. /\ IsFiniteSet(Unreported')
        /\ Cardinality(Unreported') = Cardinality(Unreported) - 1
    BY <2>1, FS_RemoveElement DEF Metered
  <2>3. Cardinality(Unreported) \in Nat /\ active \in Nat
    BY FS_CardinalityType DEF Metered, JobsAccounted
  <2>4. /\ finished' \in [{"completed", "failed"} -> Nat]
        /\ finished'.completed + finished'.failed
             = finished.completed + finished.failed + 1
        /\ active' = active - 1 /\ started' = started
    BY <1>4 DEF Finish, Metered
  <2>5. finished.completed \in Nat /\ finished.failed \in Nat
        /\ finished'.completed \in Nat /\ finished'.failed \in Nat
    BY <2>4 DEF Metered
  <2> QED BY <2>2, <2>3, <2>4, <2>5 DEF Metered, JobsAccounted
<1> QED BY <1>3, <1>4 DEF Reports

(* A job that is taken counts once; a new process counts from nothing.      *)
LEMMA OthersKeepMetered ==
  ASSUME Control, Metered,
         \/ \E i \in Ids : Request(i) \/ Dequeue(i)
         \/ Crash \/ Shutdown \/ Exit \/ Restart \/ UNCHANGED vars
  PROVE  Metered'
<1>1. CASE \E i \in Ids : Dequeue(i)
  <2>1. PICK i \in Ids : Dequeue(i)
    BY <1>1
  <2>2. pc[i] = "idle" /\ pc' = [pc EXCEPT ![i] = "begin"]
    BY <2>1, DequeueKeepsControl DEF Dequeue
  <2>3. Unreported' = Unreported \cup {i} /\ i \notin Unreported
    BY <2>2 DEF Unreported, Steps, Control, Typed
  <2>4. /\ IsFiniteSet(Unreported')
        /\ Cardinality(Unreported') = Cardinality(Unreported) + 1
    BY <2>3, FS_AddElement DEF Metered
  <2>5. Cardinality(Unreported) \in Nat
    BY FS_CardinalityType DEF Metered
  <2>6. finished.completed \in Nat /\ finished.failed \in Nat
    BY DEF Metered
  <2> QED BY <2>1, <2>4, <2>5, <2>6 DEF Dequeue, Metered, JobsAccounted
<1>2. CASE UNCHANGED <<pc, metrics>>
  BY <1>2 DEF Metered, JobsAccounted, Unreported, metrics
<1>3. CASE Crash \/ Exit
  <2>1. ForgetJobs
    BY <1>3 DEF Crash, Exit
  <2>2. Unreported' = {}
    BY <2>1 DEF ForgetJobs, Unreported, Steps
  <2> QED BY <2>1, <2>2, FS_EmptySet DEF ForgetJobs, Metered, JobsAccounted
<1> QED
  BY <1>1, <1>2, <1>3 DEF Request, CreateIntent, Submit, DeleteGet,
     DeleteCancel, Shutdown, Restart, vars, pool

(* The metrics layer holds in every reachable state.                        *)
LEMMA MeteredInvariant == Spec => []Metered
<1>1. ASSUME Init PROVE Metered
  <2>1. Unreported = {}
    BY <1>1 DEF Init, Unreported, Steps
  <2>2. /\ finished = [completed |-> 0, failed |-> 0]
        /\ active = 0 /\ started = 0
    BY <1>1 DEF Init
  <2> QED BY <2>1, <2>2, FS_EmptySet DEF Metered, JobsAccounted
<1>2. Control /\ Metered /\ [Next]_vars => Metered'
  <2> SUFFICES ASSUME Control, Metered, [Next]_vars PROVE Metered'
    OBVIOUS
  <2>1. ASSUME NEW i \in Ids, Work(i) PROVE Metered'
    <3>1. Alone(i) /\ Reports(i)
      BY <2>1, TransitionsAlone, CallsAlone, FailAlone, TransitionsReport,
         CallsReport DEF Work
    <3> QED BY <3>1, WorkerKeepsMetered
  <2> QED BY <2>1, OthersKeepMetered DEF Next
<1> QED BY <1>1, <1>2, ControlInvariant, PTL DEF Spec

(* The gauge is the number of jobs that have not reported, and every job    *)
(* that was started is counted exactly once, on every error path, however   *)
(* many intents and workers there are.                                      *)
THEOREM JobsTheorem == Spec => []JobsAccounted
<1>1. Metered => JobsAccounted
  BY DEF Metered
<1> QED BY <1>1, MeteredInvariant, PTL

(* Type correctness of the records, the handlers, the pool, the metrics and *)
(* the cluster objects of app_v2.py.  The gauge stays a natural number only *)
(* because every worker that lowers it has raised it.                       *)
THEOREM PipelineTypeOK == Spec => []TypeOK
<1> DEFINE Bounded == /\ proc \in {"up", "draining", "down"}
                      /\ crashes \in 0..MaxCrashes
                      /\ deletes \in 0..MaxDeletes
<1>1. Init => Bounded
  BY PipelineAssumption DEF Init
<1>2. Bounded /\ [Next]_vars => Bounded'
  <2> SUFFICES ASSUME Bounded, [Next]_vars PROVE Bounded'
    OBVIOUS
  <2>1. CASE \E i \in Ids : DeleteGet(i)
    BY <2>1, PipelineAssumption DEF DeleteGet
  <2>2. CASE Crash \/ Shutdown \/ Exit \/ Restart
    BY <2>2, PipelineAssumption DEF Crash, Shutdown, Exit, Restart, requests
  <2>3. CASE UNCHANGED <<proc, crashes, deletes>>
    BY <2>3
  <2> QED
    BY <2>1, <2>2, <2>3
    DEF Next, Work, Request, CreateIntent, Submit, DeleteCancel,
        Dequeue, Begin, Plan, Validate, Generate, ManifestErrors, DryRun,
        StageRaises, Push, PushRaises, PorchStep, PorchRaises, RepoSyncStep,
        RepoSyncRaises, RepoSyncReplyLost, Proposed, CheckStatus, Complete,
        Fail, Cleanup, CleanupRaises, vars, requests
<1>3. Metered => active \in Nat
  BY FS_CardinalityType DEF Metered, JobsAccounted
<1>4. Bounded /\ Control /\ Git /\ Metered => TypeOK
  BY <1>3 DEF Control, Typed, Git, Stored, Metered, TypeOK
<1> HIDE DEF Bounded
<1> QED
  BY <1>1, <1>2, <1>4, ControlInvariant, GitInvariant, MeteredInvariant, PTL
     DEF Spec

-----------------------------------------------------------------------------
(* IntentDelivery.                                                         *)

(* What the refinement needs besides: the branch and the draft a worker     *)
(* relies on are there; it cleans up after an end only, and only what the   *)
(* record names; and a dry run has nothing on its record.                   *)
ShipAt(i) ==
  /\ pc[i] = "proposed" => plan[i] \in branches
  /\ pc[i] \in {"upload", "propose"} => drafts[plan[i]] # "none"
  /\ pc[i] \in {"cleanup", "unbind"} => state[i] \in Terminal
  /\ pc[i] = "unbind" => rec[i].reposync = "ok"
  /\ dry[i] => rec[i] = NoData

Shipping == \A i \in Ids : ShipAt(i)

(* A worker that keeps its own part keeps the whole: branches and drafts    *)
(* stay.                                                                    *)
LEMMA WorkerKeepsShipping ==
  ASSUME Control, Shipping, NEW i \in Ids, Alone(i), ShipAt(i)',
         branches \subseteq branches',
         \A p \in PlanIds : drafts[p] # "none" => drafts'[p] # "none"
  PROVE  Shipping'
<1>1. ASSUME NEW j \in Ids \ {i} PROVE ShipAt(j)'
  <2>1. /\ pc'[j] = pc[j] /\ plan'[j] = plan[j] /\ state'[j] = state[j]
        /\ rec'[j] = rec[j] /\ dry' = dry
    BY DEF Alone
  <2>2. ShipAt(j) /\ Named(j)
    BY DEF Shipping, Control
  <2>3. pc[j] \in {"upload", "propose"} => plan[j] \in PlanIds
    BY <2>2 DEF Named, Porching
  <2> QED BY <2>1, <2>2, <2>3 DEF ShipAt
<1> QED BY <1>1 DEF Shipping

(* Transitions: the last one and the one after manifest errors end the      *)
(* intent, and a dry run records nothing.                                   *)
LEMMA TransitionsShip ==
  ASSUME Control, Shipping, NEW i \in Ids,
         \/ Begin(i) \/ Plan(i) \/ Validate(i) \/ Generate(i)
         \/ ManifestErrors(i) \/ DryRun(i) \/ Proposed(i) \/ CheckStatus(i)
         \/ Complete(i)
  PROVE  Shipping'
<1>1. Alone(i) /\ UNCHANGED cluster
  BY TransitionsAlone
<1>2. StateAt(i) /\ ShipAt(i)
  BY DEF Control, Shipping
<1>3. PICK s, data, next :
        /\ Transit(i, s, data, next)
        /\ next \notin {"proposed", "upload", "propose", "unbind"}
        /\ next = "cleanup" => s = "completed"
        /\ dry[i] => data = rec[i]
  <2>1. CASE Proposed(i) \/ CheckStatus(i)
    <3>1. ~dry[i]
      BY <2>1, <1>2 DEF Proposed, CheckStatus, StateAt
    <3>2. CheckStatus(i) => \E data : Transit(i, "applied", data, "complete")
      BY DEF CheckStatus
    <3>3. Proposed(i) => \E data : Transit(i, "proposed", data, "status")
      BY DEF Proposed
    <3> QED BY <2>1, <3>1, <3>2, <3>3
  <2> QED
    BY <2>1 DEF Begin, Plan, Validate, Generate, ManifestErrors, DryRun,
                Complete
<1>4. /\ pc'[i] \in {next, "failing"}
      /\ pc'[i] = next => state'[i] = s \/ next = "failing"
      /\ dry[i] => rec'[i] = rec[i]
  BY <1>3, TransitAt
<1>5. dry'[i] = dry[i]
  BY <1>1 DEF Alone
<1>6. ShipAt(i)'
  BY <1>2, <1>3, <1>4, <1>5 DEF ShipAt, Terminal
<1> QED BY <1>1, <1>6, WorkerKeepsShipping DEF cluster

(* The exception handler: an intent that cannot fail has ended.             *)
LEMMA FailShips ==
  ASSUME Control, Shipping, NEW i \in Ids, Fail(i)
  PROVE  Shipping'
<1>1. Alone(i) /\ UNCHANGED cluster /\ UNCHANGED <<rec, dry>>
  BY FailAlone DEF Fail
<1>2. state[i] \in States /\ pc'[i] = "cleanup"
  BY DEF Fail, Control, StateAt, Typed
<1>3. state'[i] = IF "failed" \in Forward[state[i]] THEN "failed" ELSE state[i]
  BY DEF Fail, Control, Typed
<1>4. state'[i] \in Terminal
  BY <1>2, <1>3, ForwardFacts DEF Terminal
<1>5. ShipAt(i)'
  BY <1>1, <1>2, <1>4 DEF Shipping, ShipAt
<1> QED BY <1>1, <1>5, WorkerKeepsShipping DEF cluster

(* The calls: each leads to a place where what it made is relied on.        *)
LEMMA CallsShip ==
  ASSUME Control, Git, Shipping, NEW i \in Ids,
         \/ StageRaises(i) \/ Push(i) \/ PushRaises(i) \/ PorchStep(i)
         \/ PorchRaises(i) \/ RepoSyncStep(i) \/ RepoSyncRaises(i)
         \/ RepoSyncReplyLost(i) \/ Cleanup(i) \/ CleanupRaises(i)
  PROVE  Shipping'
<1>1. Alone(i) /\ UNCHANGED <<state, dry, plan, rec>>
  BY CallsAlone DEF record
<1>2. ShipAt(i) /\ Pushed(i) /\ Named(i)
  BY DEF Control, Git, Shipping
<1>3. CASE StageRaises(i) \/ Push(i) \/ PushRaises(i) \/ CleanupRaises(i)
  <2>1. pc'[i] \in {"failing", "draft", "done"}
    BY <1>3 DEF StageRaises, Push, PushRaises, CleanupRaises, Control, Typed
  <2>2. branches \subseteq branches' /\ drafts' = drafts
    BY <1>3 DEF StageRaises, Push, PushRaises, CleanupRaises, cluster
  <2>3. ShipAt(i)'
    BY <1>1, <1>2, <2>1 DEF ShipAt
  <2> QED BY <1>1, <2>2, <2>3, WorkerKeepsShipping
<1>4. CASE PorchStep(i)
  <2>1. plan[i] \in PlanIds /\ branches' = branches
    BY <1>2, <1>4 DEF PorchStep, Named, Porching
  <2>2. \/ /\ pc'[i] = "upload"
           /\ drafts' = [drafts EXCEPT ![plan[i]] = "Draft"]
        \/ pc[i] = "upload" /\ pc'[i] = "propose" /\ drafts' = drafts
        \/ /\ pc'[i] = "rslist"
           /\ drafts' = [drafts EXCEPT ![plan[i]] = "Proposed"]
    BY <1>4 DEF PorchStep, Control, Typed
  <2>3. \A p \in PlanIds : drafts[p] # "none" => drafts'[p] # "none"
    BY <2>1, <2>2 DEF Git, Stored
  <2>4. pc'[i] \in {"upload", "propose"} => drafts'[plan[i]] # "none"
    BY <1>2, <2>1, <2>2 DEF Git, Stored, ShipAt
  <2>5. pc'[i] \in {"upload", "propose", "rslist"}
    BY <2>2
  <2>6. ShipAt(i)'
    BY <1>1, <1>2, <2>4, <2>5 DEF ShipAt
  <2> QED BY <1>1, <2>1, <2>3, <2>6, WorkerKeepsShipping
<1>5. CASE PorchRaises(i)
  <2>1. pc'[i] = "rslist" /\ UNCHANGED <<branches, drafts>>
    BY <1>5 DEF PorchRaises, Control, Typed, cluster
  <2>2. ShipAt(i)'
    BY <1>1, <1>2, <2>1 DEF ShipAt
  <2> QED BY <1>1, <2>1, <2>2, WorkerKeepsShipping
<1>6. CASE RepoSyncStep(i) \/ RepoSyncRaises(i) \/ RepoSyncReplyLost(i)
  <2>1. /\ pc'[i] \in {"rsbind", "rscreate", "proposed"}
        /\ UNCHANGED <<branches, drafts>>
    BY <1>6 DEF RepoSyncStep, RepoSyncRaises, RepoSyncReplyLost, Control,
                Typed, cluster
  <2>2. plan[i] \in branches
    BY <1>2, <1>6 DEF RepoSyncStep, RepoSyncRaises, RepoSyncReplyLost, Pushed,
                      Syncing
  <2>3. ShipAt(i)'
    BY <1>1, <1>2, <2>1, <2>2 DEF ShipAt
  <2> QED BY <1>1, <2>1, <2>3, WorkerKeepsShipping
<1>7. CASE Cleanup(i)
  <2>1. /\ UNCHANGED <<branches, drafts>> /\ pc[i] \in {"cleanup", "unbind"}
        /\ \/ pc'[i] = "done"
           \/ pc'[i] = "unbind" /\ rec[i].reposync = "ok"
    BY <1>7 DEF Cleanup, Control, Typed
  <2>2. ShipAt(i)'
    BY <1>1, <1>2, <2>1 DEF ShipAt
  <2> QED BY <1>1, <2>1, <2>2, WorkerKeepsShipping
<1> QED BY <1>3, <1>4, <1>5, <1>6, <1>7

(* The steps that are not a worker's.  A dry run is asked for before there  *)
(* is a record, and nobody is cleaning up when an intent is cancelled.      *)
LEMMA OthersShip ==
  ASSUME Control, Git, Shipping,
         \/ \E i \in Ids : Request(i) \/ Dequeue(i)
         \/ Crash \/ Shutdown \/ Exit \/ Restart \/ UNCHANGED vars
  PROVE  Shipping'
<1>1. UNCHANGED <<plan, rec, branches, drafts>>
  BY DEF Request, CreateIntent, Submit, DeleteGet, DeleteCancel, Dequeue,
         Crash, Shutdown, Exit, Restart, vars, record, cluster
<1>2. \A j \in Ids : pc'[j] \in {pc[j], "begin", "idle"}
  BY DEF Request, CreateIntent, Submit, DeleteGet, DeleteCancel, Dequeue,
         Crash, Shutdown, Exit, Restart, vars, pool, ForgetJobs, Control, Typed
<1>3. \A j \in Ids : state'[j] \in {state[j], "acknowledged", "cancelled"}
                     /\ (state'[j] = "acknowledged" => state[j] \in {"none", "acknowledged"})
  <2>1. CASE \E i \in Ids : CreateIntent(i)
    <3>1. PICK i \in Ids : /\ state[i] = "none"
                          /\ state' = [state EXCEPT ![i] = "acknowledged"]
      BY <2>1 DEF CreateIntent
    <3> QED BY <3>1 DEF Control, Typed
  <2>2. CASE \E i \in Ids : DeleteCancel(i)
    <3>1. PICK i \in Ids : \/ state' = [state EXCEPT ![i] = "cancelled"]
                          \/ state' = state
      BY <2>2 DEF DeleteCancel
    <3> QED BY <3>1 DEF Control, Typed
  <2>3. CASE state' = state
    BY <2>3
  <2> QED
    BY <2>1, <2>2, <2>3 DEF Request, Submit, DeleteGet, Dequeue, Crash,
       Shutdown, Exit, Restart, vars, record
<1>4. \A j \in Ids : dry'[j] => dry[j] \/ state[j] = "none"
  <2>1. CASE \E i \in Ids : CreateIntent(i)
    <3>1. PICK i \in Ids, d \in BOOLEAN :
            state[i] = "none" /\ dry' = [dry EXCEPT ![i] = d]
      BY <2>1 DEF CreateIntent
    <3> QED BY <3>1 DEF Control, Typed
  <2>2. CASE dry' = dry
    BY <2>2
  <2> QED
    BY <2>1, <2>2 DEF Request, Submit, DeleteGet, DeleteCancel, Dequeue, Crash,
       Shutdown, Exit, Restart, vars, record
<1>5. \A j \in Ids : state[j] = "none" => rec[j] = NoData
  BY DEF Git, Untouched
<1>6. ASSUME NEW j \in Ids, state[j] \in Terminal PROVE state'[j] \in Terminal
  BY <1>3, <1>6 DEF Terminal
<1>7. ASSUME NEW j \in Ids PROVE ShipAt(j)'
  <2>1. ShipAt(j)
    BY DEF Shipping
  <2> QED BY <1>1, <1>2, <1>4, <1>5, <1>6, <2>1 DEF ShipAt
<1> QED BY <1>7 DEF Shipping

(* The shipping layer holds in every reachable state.                       *)
LEMMA ShippingInvariant == Spec => []Shipping
<1>1. Init => Shipping
  BY DEF Init, Shipping, ShipAt
<1>2. Control /\ Git /\ Shipping /\ [Next]_vars => Shipping'
  <2> SUFFICES ASSUME Control, Git, Shipping, [Next]_vars PROVE Shipping'
    OBVIOUS
  <2>1. ASSUME NEW i \in Ids, Work(i) PROVE Shipping'
    BY <2>1, TransitionsShip, CallsShip, FailShips DEF Work
  <2> QED BY <2>1, OthersShip DEF Next
<1> QED BY <1>1, <1>2, ControlInvariant, GitInvariant, PTL DEF Spec

(* The abstract specification has the same state machine.                   *)
LEMMA SameForward == Delivery!Forward = Forward
  BY DEF Forward, Delivery!Forward

(* A transition of a planned or unplanned intent, other than the planner's, *)
(* is an Advance or was refused.                                            *)
LEMMA TransitAdvances ==
  ASSUME Control, NEW i \in Ids, NEW s, NEW data, NEW next,
         Transit(i, s, data, next), s # "validating", state[i] # "none",
         s = "proposed" => dry[i] \/ plan[i] \in branches,
         UNCHANGED <<dry, plan, branches, drafts, repoSyncs, roleBindings>>
  PROVE  Delivery!Advance(i) \/ UNCHANGED Delivery!vars
<1>1. CASE s \in Forward[state[i]]
  <2>1. state' = [state EXCEPT ![i] = s]
    BY <1>1 DEF Transit
  <2>2. s \in Delivery!Forward[state[i]] \ {"validating"}
    BY <1>1, SameForward
  <2> QED BY <2>1, <2>2 DEF Delivery!Advance, Delivery!objects
<1>2. CASE s \notin Forward[state[i]]
  BY <1>2 DEF Transit, Delivery!vars, Delivery!records, Delivery!objects
<1> QED BY <1>1, <1>2

(* The transitions of the pipeline.                                         *)
LEMMA TransitionsDeliver ==
  ASSUME Control, Shipping, NEW i \in Ids,
         \/ Begin(i) \/ Plan(i) \/ Validate(i) \/ Generate(i)
         \/ ManifestErrors(i) \/ DryRun(i) \/ Proposed(i) \/ CheckStatus(i)
         \/ Complete(i)
  PROVE  Delivery!Plan(i) \/ Delivery!Advance(i) \/ UNCHANGED Delivery!vars
<1>1. StateAt(i) /\ ShipAt(i)
  BY DEF Control, Shipping
<1>2. UNCHANGED <<dry, branches, drafts, repoSyncs, roleBindings>>
  BY TransitionsAlone DEF Alone, cluster
<1>3. CASE Plan(i)
  <2>1. state[i] = "planning" /\ "validating" \in Forward["planning"]
    BY <1>1, <1>3, ForwardFacts DEF Plan, StateAt
  <2>2. state' = [state EXCEPT ![i] = "validating"]
    BY <1>3, <2>1 DEF Plan, Transit
  <2>3. \E p \in PlanIds : plan' = [plan EXCEPT ![i] = p]
    BY <1>3 DEF Plan
  <2> QED BY <1>2, <2>1, <2>2, <2>3 DEF Delivery!Plan, Delivery!objects
<1>4. CASE ~Plan(i)
  <2>1. PICK s, data, next :
          /\ Transit(i, s, data, next) /\ s # "validating"
          /\ s = "proposed" => dry[i] \/ plan[i] \in branches
    <3>1. CASE DryRun(i)
      <4> DEFINE s == CHOOSE n \in Forward[state[i]] : n # "failed"
      <4>1. state[i] \in {"executing", "proposed", "applied"} /\ dry[i]
        BY <3>1, <1>1 DEF DryRun, StateAt
      <4>2. s # "validating"
        BY <4>1, DryNext
      <4>3. \E data, next : Transit(i, s, data, next)
        BY <3>1 DEF DryRun
      <4> QED BY <4>1, <4>2, <4>3
    <3>2. CASE Proposed(i)
      BY <3>2, <1>1 DEF Proposed, ShipAt
    <3>3. CASE CheckStatus(i)
      <4>1. \E data : Transit(i, "applied", data, "complete")
        BY <3>3 DEF CheckStatus
      <4> QED BY <4>1
    <3> QED
      BY <1>4, <3>1, <3>2, <3>3 DEF Begin, Validate, Generate, ManifestErrors,
                                    Complete
  <2>2. plan' = plan /\ pc[i] # "idle"
    BY <1>4 DEF Begin, Validate, Generate, ManifestErrors, DryRun, Proposed,
                CheckStatus, Complete
  <2>3. state[i] # "none"
    BY <1>1, <2>2 DEF StateAt
  <2> QED BY <1>2, <2>1, <2>2, <2>3, TransitAdvances
<1> QED BY <1>3, <1>4

(* The exception handler fails the intent, or finds it ended.               *)
LEMMA FailDelivers ==
  ASSUME Control, NEW i \in Ids, Fail(i)
  PROVE  Delivery!Advance(i) \/ UNCHANGED Delivery!vars
<1>1. /\ UNCHANGED <<dry, plan, branches, drafts, repoSyncs, roleBindings>>
      /\ state[i] # "none"
  BY DEF Fail, cluster, Control, StateAt
<1>2. CASE "failed" \in Forward[state[i]]
  <2>1. state' = [state EXCEPT ![i] = "failed"]
    BY <1>2 DEF Fail, Control, Typed
  <2>2. "failed" \in Delivery!Forward[state[i]] \ {"validating"}
    BY <1>2, SameForward
  <2> QED BY <1>1, <2>1, <2>2 DEF Delivery!Advance, Delivery!objects
<1>3. CASE "failed" \notin Forward[state[i]]
  <2>1. state' = state
    BY <1>3 DEF Fail, Control, Typed
  <2> QED BY <1>1, <2>1 DEF Delivery!vars, Delivery!records, Delivery!objects
<1> QED BY <1>2, <1>3

(* The calls: a worker that changes the cluster is executing its intent,    *)
(* or cleaning up after it.                                                 *)
LEMMA CallsDeliver ==
  ASSUME Control, Git, Shipping, NEW i \in Ids,
         \/ StageRaises(i) \/ Push(i) \/ PushRaises(i) \/ PorchStep(i)
         \/ PorchRaises(i) \/ RepoSyncStep(i) \/ RepoSyncRaises(i)
         \/ RepoSyncReplyLost(i) \/ Cleanup(i) \/ CleanupRaises(i)
  PROVE  \/ Delivery!Push(i) \/ Delivery!Package(i) \/ Delivery!Deliver(i)
         \/ Delivery!CleanUp(i) \/ UNCHANGED Delivery!vars
<1>1. UNCHANGED <<state, dry, plan>>
  BY CallsAlone DEF record
<1>2. StateAt(i) /\ Named(i) /\ Pushed(i) /\ ShipAt(i) /\ Untouched(i)
  BY DEF Control, Git, Shipping
<1>3. pc[i] \in {"push"} \cup Porching \cup Syncing => Delivery!Executing(i)
  BY <1>2 DEF StateAt, Named, Delivery!Executing
<1>4. ASSUME UNCHANGED <<branches, drafts, repoSyncs, roleBindings>>
      PROVE  UNCHANGED Delivery!vars
  BY <1>1, <1>4 DEF Delivery!vars, Delivery!records, Delivery!objects
<1>5. CASE Push(i) \/ PushRaises(i)
  <2>1. /\ pc[i] = "push"
        /\ UNCHANGED <<drafts, repoSyncs, roleBindings>>
        /\ \/ branches' = branches \cup {plan[i]}
           \/ branches' = branches
    BY <1>5 DEF Push, PushRaises
  <2> QED BY <1>1, <1>3, <1>4, <2>1 DEF Delivery!Push, Delivery!records
<1>6. CASE PorchStep(i)
  <2>1. /\ pc[i] \in Porching
        /\ UNCHANGED <<branches, repoSyncs, roleBindings>>
        /\ \/ /\ drafts[plan[i]] = "none"
              /\ drafts' = [drafts EXCEPT ![plan[i]] = "Draft"]
           \/ drafts' = drafts
           \/ /\ drafts[plan[i]] # "none"
              /\ drafts' = [drafts EXCEPT ![plan[i]] = "Proposed"]
    BY <1>2, <1>6 DEF PorchStep, Porching, ShipAt
  <2>2. plan[i] \in branches
    BY <1>2, <2>1 DEF Pushed
  <2>3. Delivery!Executing(i)
    BY <1>3, <2>1
  <2>4. CASE drafts' = drafts
    BY <1>4, <2>1, <2>4
  <2>5. CASE drafts' # drafts
    <3>1. drafts' = [drafts EXCEPT ![plan[i]] =
                       IF @ = "none" THEN "Draft" ELSE "Proposed"]
      BY <2>1, <2>5
    <3> QED
      BY <1>1, <2>1, <2>2, <2>3, <3>1 DEF Delivery!Package, Delivery!records
  <2> QED BY <2>4, <2>5
<1>7. CASE RepoSyncStep(i) \/ RepoSyncReplyLost(i)
  <2>1. /\ pc[i] \in Syncing
        /\ UNCHANGED <<branches, drafts>>
        /\ \/ repoSyncs' = repoSyncs \cup {plan[i]} /\ UNCHANGED roleBindings
           \/ roleBindings' = roleBindings \cup {plan[i]} /\ UNCHANGED repoSyncs
           \/ UNCHANGED <<repoSyncs, roleBindings>>
    BY <1>7 DEF RepoSyncStep, RepoSyncReplyLost, Syncing
  <2>2. plan[i] \in branches
    BY <1>2, <2>1 DEF Pushed
  <2>3. Delivery!Executing(i)
    BY <1>3, <2>1
  <2> QED
    BY <1>1, <1>4, <2>1, <2>2, <2>3 DEF Delivery!Deliver, Delivery!records
<1>8. CASE Cleanup(i)
  <2>1. /\ UNCHANGED <<branches, drafts>>
        /\ \/ UNCHANGED <<repoSyncs, roleBindings>>
           \/ /\ pc[i] \in {"cleanup", "unbind"} /\ rec[i].reposync = "ok"
              /\ \/ /\ repoSyncs' = repoSyncs \ {plan[i]}
                    /\ UNCHANGED roleBindings
                 \/ /\ roleBindings' = roleBindings \ {plan[i]}
                    /\ UNCHANGED repoSyncs
    BY <1>2, <1>8 DEF Cleanup, ShipAt
  <2>2. ASSUME pc[i] \in {"cleanup", "unbind"}, rec[i].reposync = "ok"
        PROVE  state[i] \in {"completed", "failed"} /\ ~dry[i]
    <3>1. rec[i] # NoData
      BY <2>2 DEF NoData
    <3>2. state[i] \in Terminal /\ state[i] # "cancelled"
      BY <1>2, <2>2, <3>1 DEF ShipAt, Untouched
    <3> QED BY <1>2, <3>1, <3>2 DEF ShipAt, Terminal
  <2> QED
    BY <1>1, <1>4, <2>1, <2>2 DEF Delivery!CleanUp, Delivery!records
<1>9. CASE StageRaises(i) \/ PorchRaises(i) \/ RepoSyncRaises(i)
             \/ CleanupRaises(i)
  BY <1>4, <1>9 DEF StageRaises, PorchRaises, RepoSyncRaises, CleanupRaises,
                    cluster
<1> QED BY <1>5, <1>6, <1>7, <1>8, <1>9

(* The requests: a POST is accepted, a DELETE cancels or is refused.        *)
LEMMA RequestsDeliver ==
  ASSUME Control, NEW i \in Ids, Request(i)
  PROVE  Delivery!Accept(i) \/ Delivery!Advance(i) \/ UNCHANGED Delivery!vars
<1>1. UNCHANGED <<plan, branches, drafts, repoSyncs, roleBindings>>
  BY DEF Request, CreateIntent, Submit, DeleteGet, DeleteCancel, record, cluster
<1>2. CASE CreateIntent(i)
  BY <1>1, <1>2 DEF CreateIntent, Delivery!Accept, Delivery!objects
<1>3. CASE DeleteCancel(i)
  <2>1. state[i] # "none" /\ dry' = dry
    BY <1>3 DEF DeleteCancel, Control, StateAt
  <2>2. CASE "cancelled" \in Forward[state[i]]
    <3>1. state' = [state EXCEPT ![i] = "cancelled"]
      BY <1>3, <2>2 DEF DeleteCancel
    <3>2. "cancelled" \in Delivery!Forward[state[i]] \ {"validating"}
      BY <2>2, SameForward
    <3> QED BY <1>1, <2>1, <3>1, <3>2 DEF Delivery!Advance, Delivery!objects
  <2>3. CASE "cancelled" \notin Forward[state[i]]
    BY <1>1, <1>3, <2>1, <2>3
       DEF DeleteCancel, Delivery!vars, Delivery!records, Delivery!objects
  <2> QED BY <2>2, <2>3
<1>4. CASE Submit(i) \/ DeleteGet(i)
  BY <1>1, <1>4 DEF Submit, DeleteGet, record, Delivery!vars,
                    Delivery!records, Delivery!objects
<1> QED BY <1>2, <1>3, <1>4 DEF Request

(* The executor and the process change nothing a client or the cluster can  *)
(* see: a crash loses jobs and metrics, never a record.                     *)
LEMMA QuietDelivers ==
  ASSUME \/ \E i \in Ids : Dequeue(i)
         \/ Crash \/ Shutdown \/ Exit \/ Restart \/ UNCHANGED vars
  PROVE  UNCHANGED Delivery!vars
  BY DEF Dequeue, Crash, Shutdown, Exit, Restart, vars, record, cluster,
         Delivery!vars, Delivery!records, Delivery!objects

(* The pipeline implements IntentDelivery, for any number of intents,       *)
(* workers, crashes and failures, whether plan ids are unique or not.       *)
THEOREM PipelineImplementsDelivery == Spec => ImplementsDelivery
<1>1. Init => Delivery!Init
  BY DEF Init, Delivery!Init
<1>2. Control /\ Git /\ Shipping /\ [Next]_vars
        => [Delivery!Next]_Delivery!vars
  <2> SUFFICES ASSUME Control, Git, Shipping, [Next]_vars
               PROVE  Delivery!Next \/ UNCHANGED Delivery!vars
    OBVIOUS
  <2>1. ASSUME NEW i \in Ids, Work(i)
        PROVE  Delivery!Next \/ UNCHANGED Delivery!vars
    BY <2>1, TransitionsDeliver, FailDelivers, CallsDeliver
       DEF Work, Delivery!Next
  <2>2. ASSUME NEW i \in Ids, Request(i)
        PROVE  Delivery!Next \/ UNCHANGED Delivery!vars
    BY <2>2, RequestsDeliver DEF Delivery!Next
  <2> QED BY <2>1, <2>2, QuietDelivers DEF Next
<1> QED
  BY <1>1, <1>2, ControlInvariant, GitInvariant, ShippingInvariant, PTL
     DEF Spec, ImplementsDelivery, Delivery!Spec
===============================================================================
