---------------------------- MODULE IntentDelivery ----------------------------
(***************************************************************************)
(* What intentd v2 promises about Git and the cluster, without workers,    *)
(* queues, replies or restarts: an intent changes them only while it is    *)
(* being executed and is not a dry run; it is "proposed" only when its     *)
(* branch is on the Git server; a package goes from Draft to Proposed and  *)
(* never back; and a RepoSync is removed only after the intent has ended.  *)
(* A cancelled intent was never planned.  Intents may share a plan id.     *)
(***************************************************************************)
EXTENDS IntentStates

CONSTANTS Ids, PlanIds, NoPlan

VARIABLES
  state, dry, plan,                            \* the records
  branches,                                    \* the Git server
  drafts, repoSyncs, roleBindings              \* the cluster

records == <<state, dry, plan>>
objects == <<branches, drafts, repoSyncs, roleBindings>>
vars    == <<records, objects>>

Init ==
  /\ state = [i \in Ids |-> "none"]
  /\ dry = [i \in Ids |-> FALSE]
  /\ plan = [i \in Ids |-> NoPlan]
  /\ branches = {}
  /\ drafts = [p \in PlanIds |-> "none"]
  /\ repoSyncs = {}
  /\ roleBindings = {}

\* A POST is accepted, for a dry run or not.
Accept(i) ==
  /\ state[i] = "none"
  /\ state' = [state EXCEPT ![i] = "acknowledged"]
  /\ \E d \in BOOLEAN : dry' = [dry EXCEPT ![i] = d]
  /\ UNCHANGED <<plan, objects>>

\* The planner has answered.
Plan(i) ==
  /\ state[i] = "planning"
  /\ state' = [state EXCEPT ![i] = "validating"]
  /\ \E p \in PlanIds : plan' = [plan EXCEPT ![i] = p]
  /\ UNCHANGED <<dry, objects>>

\* Any other step along the state machine, a cancellation or a failure among them.
Advance(i) ==
  /\ state[i] # "none"
  /\ \E s \in Forward[state[i]] \ {"validating"} :
       /\ s = "proposed" => dry[i] \/ plan[i] \in branches
       /\ state' = [state EXCEPT ![i] = s]
  /\ UNCHANGED <<dry, plan, objects>>

Executing(i) == state[i] = "executing" /\ ~dry[i] /\ plan[i] \in PlanIds

\* The branch of the plan gets to the Git server.
Push(i) ==
  /\ Executing(i)
  /\ branches' = branches \cup {plan[i]}
  /\ UNCHANGED <<records, drafts, repoSyncs, roleBindings>>

\* Porch: a package is created as a draft and then proposed.
Package(i) ==
  /\ Executing(i) /\ plan[i] \in branches
  /\ drafts' = [drafts EXCEPT ![plan[i]] = IF @ = "none" THEN "Draft" ELSE "Proposed"]
  /\ UNCHANGED <<records, branches, repoSyncs, roleBindings>>

\* ConfigSync: the RepoSync of the plan or its RoleBinding is created.
Deliver(i) ==
  /\ Executing(i) /\ plan[i] \in branches
  /\ \/ repoSyncs' = repoSyncs \cup {plan[i]} /\ UNCHANGED roleBindings
     \/ roleBindings' = roleBindings \cup {plan[i]} /\ UNCHANGED repoSyncs
  /\ UNCHANGED <<records, branches, drafts>>

\* One of them is removed when an executed intent has ended.
CleanUp(i) ==
  /\ state[i] \in {"completed", "failed"} /\ ~dry[i]
  /\ \/ repoSyncs' = repoSyncs \ {plan[i]} /\ UNCHANGED roleBindings
     \/ roleBindings' = roleBindings \ {plan[i]} /\ UNCHANGED repoSyncs
  /\ UNCHANGED <<records, branches, drafts>>

Next ==
  \E i \in Ids : \/ Accept(i) \/ Plan(i) \/ Advance(i)
                 \/ Push(i) \/ Package(i) \/ Deliver(i) \/ CleanUp(i)

Spec == Init /\ [][Next]_vars
===============================================================================
