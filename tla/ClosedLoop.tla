------------------------------ MODULE ClosedLoop ------------------------------
(***************************************************************************)
(* The closed loop of llm_nephio_oran/closedloop: two controllers, each    *)
(* with a MetricsAnalyzer and so with a cooldown of its own, that observe  *)
(* the components of a namespace and post scaling intents to intentd.      *)
(* "v2" (controller_v2.py) asks Prometheus about the namespace as a whole; *)
(* "e2" (e2_closed_loop.py) asks KPIMON and Kubernetes about each          *)
(* component, and then steers traffic away from a cell of low quality      *)
(* through an A1 policy or, failing that, an intent.                       *)
(*                                                                         *)
(* intentd accepts an intent at once and delivers it later, in any order,  *)
(* or never: that is the pipeline, the pull request and its review.        *)
(***************************************************************************)
EXTENDS Integers, Sequences, FiniteSets, Functions

CONSTANTS
    Order,         \* the components, in the order the cycles take them
    max_replicas,
    Scales,        \* the numbers of replicas that others give a Deployment
    OtherPods,     \* pods of the namespace that belong to none of them
    MaxFaults      \* bound on failed calls, lost replies, restarts, changes of
                   \* the load and scalings by others

Components == {Order[i] : i \in 1..Len(Order)}

ASSUME LoopAssumption ==
    /\ Order \in Seq(Components) /\ Len(Order) >= 1
    /\ Cardinality(Components) = Len(Order)
    /\ "ts" \notin Components
    /\ max_replicas \in Nat \ {0} /\ Scales \subseteq Nat
    /\ OtherPods \in Nat /\ MaxFaults \in Nat

Controllers == {"v2", "e2"}
Keys == Components \cup {"ts"}       \* what a cooldown is kept for
Loads == {"low", "ok", "high"}

VARIABLES
    a1,        \* whether "e2" was given an A1 client
    load,      \* the load of each component
    lowCqi,    \* the cell's channel quality is below the threshold
    replicas,  \* the replicas of each Deployment
    policy,    \* the traffic steering policy is in force
    pending,   \* intents that intentd accepted and has not delivered
    cycle,     \* where each controller's run_cycle is
    cooling,   \* the keys for which a controller's cooldown is active
    since,     \* history: what was accepted from each controller in the
               \* current cooldown period of each key
    lost,      \* history: replies and memories lost in that period
    others,    \* history: the most replicas each Deployment had when the
               \* controllers started or was given by others since
    faults

vars == <<a1, load, lowCqi, replicas, policy, pending, cycle, cooling, since,
          lost, others, faults>>
world == <<a1, load, lowCqi, replicas, others>>

Intents == [component : Components, replicas : Nat]
              \cup [component : {"ts"}, replicas : {0}]

(* A cycle: its place, the index of the component it is at, what it has     *)
(* observed, and the number of replicas it works with.                      *)
Cycles == [pc : {"idle", "read", "act", "steer", "fallback"},
           i : 0..Len(Order), seen : [Components -> Loads], cqi : BOOLEAN,
           current : Nat]
NoCycle == [pc |-> "idle", i |-> 0, seen |-> [c \in Components |-> "ok"],
            cqi |-> FALSE, current |-> 0]

TypeOK ==
    /\ a1 \in BOOLEAN
    /\ load \in [Components -> Loads] /\ lowCqi \in BOOLEAN
    /\ replicas \in [Components -> Nat] /\ others \in [Components -> Scales]
    /\ policy \in BOOLEAN
    /\ pending \subseteq Intents
    /\ cycle \in [Controllers -> Cycles]
    /\ cooling \in [Controllers -> SUBSET Keys]
    /\ since \in [Controllers -> [Keys -> 0..MaxFaults + 1]]
    /\ lost \in [Controllers -> [Keys -> 0..MaxFaults]]
    /\ faults \in 0..MaxFaults

Init ==
    /\ a1 \in BOOLEAN
    /\ load \in [Components -> Loads] /\ lowCqi \in BOOLEAN
    /\ replicas \in [Components -> Scales] /\ others = replicas
    /\ policy = FALSE /\ pending = {}
    /\ cycle = [k \in Controllers |-> NoCycle]
    /\ cooling = [k \in Controllers |-> {}]
    /\ since = [k \in Controllers |-> [x \in Keys |-> 0]] /\ lost = since
    /\ faults = 0

Fault == faults < MaxFaults /\ faults' = faults + 1

-----------------------------------------------------------------------------
(* MetricsAnalyzer.analyze, after the cooldown check: the number of replicas*)
(* to ask for, which is the current one when there is nothing to do.        *)

\* A guard rail that compares with the new number.
analyzeOffByOne(util, current) ==
    IF util = "high" /\ current + 1 < max_replicas THEN current + 1
    ELSE IF util = "low" /\ current > 1 THEN current - 1 ELSE current

\* An analyzer without its guard rail.
analyzeUnbounded(util, current) ==
    IF util = "high" THEN current + 1
    ELSE IF util = "low" /\ current > 1 THEN current - 1 ELSE current

analyze(util, current) ==
    IF util = "high" /\ current < max_replicas THEN current + 1
    ELSE IF util = "low" /\ current > 1 THEN current - 1 ELSE current

-----------------------------------------------------------------------------
(* The start of run_cycle.                                                  *)

(* What check_scaling_thresholds may say: the namespace exceeds a threshold *)
(* only if some component is loaded, and then every component is taken for  *)
(* loaded and the pods of the namespace for its replicas.  A failed query   *)
(* of the load ends the cycle, one of the pods counts as no pods.           *)
ObserveV2 ==
    /\ cycle["v2"].pc = "idle"
    /\ \E c \in Components : load[c] = "high"
    /\ \E pods \in {0, FoldFunction(+, OtherPods, replicas)} :
          /\ IF pods = 0 THEN Fault ELSE UNCHANGED faults
          /\ cycle' = [cycle EXCEPT !["v2"] =
                         [pc |-> "act", i |-> 1, cqi |-> FALSE,
                          seen |-> [c \in Components |-> "high"],
                          current |-> pods]]
    /\ UNCHANGED <<world, policy, pending, cooling, since, lost>>

(* KPIMON is asked once for the whole cycle.                                *)
ObserveE2 ==
    /\ cycle["e2"].pc = "idle"
    /\ cycle' = [cycle EXCEPT !["e2"] =
                   [pc |-> "read", i |-> 1, cqi |-> lowCqi, seen |-> load,
                    current |-> 0]]
    /\ UNCHANGED <<world, policy, pending, cooling, since, lost, faults>>

(* _get_current_replicas: 1 when the call fails, and when there is none.    *)
SpecReplicas(c) == IF replicas[c] = 0 THEN 1 ELSE replicas[c]

GetCurrentReplicas ==
    /\ cycle["e2"].pc = "read"
    /\ \E n \in {1, SpecReplicas(Order[cycle["e2"].i])} :
          /\ IF n = SpecReplicas(Order[cycle["e2"].i])
             THEN UNCHANGED faults ELSE Fault
          /\ cycle' = [cycle EXCEPT !["e2"].pc = "act",
                                    !["e2"].current = n]
    /\ UNCHANGED <<world, policy, pending, cooling, since, lost>>

-----------------------------------------------------------------------------
(* The loop goes on: to the next component, to the traffic steering, or to  *)
(* its end.                                                                 *)
Advanced(k) ==
    LET c == cycle[k]
    IN  IF c.i < Len(Order)
        THEN [c EXCEPT !.pc = IF k = "v2" THEN "act" ELSE "read", !.i = @ + 1,
                       !.current = IF k = "v2" THEN @ ELSE 0]
        ELSE IF k = "e2" /\ c.pc = "act"
        THEN [NoCycle EXCEPT !.pc = "steer", !.cqi = c.cqi]
        ELSE NoCycle

Goto(k, place) == cycle' = [cycle EXCEPT ![k] = place]

record_action(k, x) == cooling' = [cooling EXCEPT ![k] = @ \cup {x}]

Counted(k, x) == since' = [since EXCEPT ![k][x] = @ + 1]

(* _post_intent and the record_action after it.  The reply may be lost, by  *)
(* the timeout, after intentd has accepted the intent; any exception ends   *)
(* the cycle before anything is recorded.                                   *)
Post(k, x, n, next) ==
    \/ /\ pending' = pending \cup {[component |-> x, replicas |-> n]}
       /\ Counted(k, x) /\ record_action(k, x) /\ Goto(k, next)
       /\ UNCHANGED <<lost, faults>>
    \/ /\ Fault
       /\ pending' = pending \cup {[component |-> x, replicas |-> n]}
       /\ Counted(k, x) /\ lost' = [lost EXCEPT ![k][x] = @ + 1]
       /\ Goto(k, NoCycle) /\ UNCHANGED cooling
    \/ /\ Fault
       /\ Goto(k, NoCycle) /\ UNCHANGED <<pending, cooling, since, lost>>

\* An act without its record_action.
ActUnrecorded(k) ==
    LET x == Order[cycle[k].i]
        n == analyze(cycle[k].seen[x], cycle[k].current)
    IN  /\ cycle[k].pc = "act"
        /\ \/ /\ x \in cooling[k] \/ n = cycle[k].current
              /\ UNCHANGED <<pending, since>>
           \/ /\ x \notin cooling[k] /\ n # cycle[k].current
              /\ pending' = pending \cup {[component |-> x, replicas |-> n]}
              /\ Counted(k, x)
        /\ Goto(k, Advanced(k))
        /\ UNCHANGED <<world, policy, cooling, lost, faults>>

(* analyze and act for the component the cycle is at.                       *)
Act(k) ==
    LET x == Order[cycle[k].i]
        n == analyze(cycle[k].seen[x], cycle[k].current)
    IN  /\ cycle[k].pc = "act"
        /\ \/ /\ x \in cooling[k] \/ n = cycle[k].current
              /\ Goto(k, Advanced(k))
              /\ UNCHANGED <<pending, cooling, since, lost, faults>>
           \/ /\ x \notin cooling[k] /\ n # cycle[k].current
              /\ Post(k, x, n, Advanced(k))
        /\ UNCHANGED <<world, policy>>

(* _act_traffic_steer: the A1 policy is created, or there is no A1 client,  *)
(* or its call raises, with or without effect; in the last two cases an     *)
(* intent is posted in its place.                                           *)
Steer ==
    /\ cycle["e2"].pc = "steer"
    /\ \/ /\ ~cycle["e2"].cqi \/ "ts" \in cooling["e2"]
          /\ Goto("e2", NoCycle)
          /\ UNCHANGED <<policy, cooling, since, lost, faults>>
       \/ /\ cycle["e2"].cqi /\ "ts" \notin cooling["e2"]
          /\ \/ /\ a1
                /\ policy' = TRUE /\ Counted("e2", "ts")
                /\ record_action("e2", "ts") /\ Goto("e2", NoCycle)
                /\ UNCHANGED <<lost, faults>>
             \/ /\ ~a1 /\ Goto("e2", [cycle["e2"] EXCEPT !.pc = "fallback"])
                /\ UNCHANGED <<policy, cooling, since, lost, faults>>
             \/ /\ a1 /\ Fault
                /\ Goto("e2", [cycle["e2"] EXCEPT !.pc = "fallback"])
                /\ \/ /\ policy' = TRUE /\ Counted("e2", "ts")
                      /\ lost' = [lost EXCEPT !["e2"]["ts"] = @ + 1]
                   \/ UNCHANGED <<policy, since, lost>>
                /\ UNCHANGED cooling
    /\ UNCHANGED <<world, pending>>

SteerByIntent ==
    /\ cycle["e2"].pc = "fallback"
    /\ Post("e2", "ts", 0, NoCycle)
    /\ UNCHANGED <<world, policy>>

-----------------------------------------------------------------------------
(* cooldown_seconds have passed since the controller last acted on x: what  *)
(* it had posted before it recorded that is older still.                    *)
CooldownElapses(k, x) ==
    /\ x \in cooling[k] \/ since[k][x] > 0
    /\ cooling' = [cooling EXCEPT ![k] = @ \ {x}]
    /\ since' = [since EXCEPT ![k][x] = 0] /\ lost' = [lost EXCEPT ![k][x] = 0]
    /\ UNCHANGED <<world, policy, pending, cycle, faults>>

(* The cooldown is kept in memory only.                                     *)
Restart(k) ==
    /\ Fault
    /\ cooling' = [cooling EXCEPT ![k] = {}]
    /\ lost' = [lost EXCEPT ![k] =
                  [x \in Keys |-> lost[k][x]
                                    + (IF x \in cooling[k] THEN 1 ELSE 0)]]
    /\ Goto(k, NoCycle)
    /\ UNCHANGED <<world, policy, pending, since>>

(* The pipeline and the pull request of an accepted intent come to an end:  *)
(* the cluster has what it asks for, or it failed or was rejected.          *)
Deliver(intent) ==
    /\ intent \in pending
    /\ pending' = pending \ {intent}
    /\ \/ UNCHANGED <<replicas, policy>>
       \/ /\ intent.component = "ts"
          /\ policy' = TRUE /\ UNCHANGED replicas
       \/ /\ intent.component # "ts"
          /\ replicas' = [replicas EXCEPT ![intent.component] = intent.replicas]
          /\ UNCHANGED policy
    /\ UNCHANGED <<a1, load, lowCqi, cycle, cooling, since, lost, others,
                   faults>>

(* An operator, the xApp or another intent scales a Deployment.             *)
OthersScale ==
    /\ Fault
    /\ \E c \in Components, n \in Scales :
          /\ n # replicas[c]
          /\ replicas' = [replicas EXCEPT ![c] = n]
          /\ others' = [others EXCEPT ![c] = IF n > @ THEN n ELSE @]
    /\ UNCHANGED <<a1, load, lowCqi, policy, pending, cycle, cooling, since,
                   lost>>

LoadChanges ==
    /\ Fault
    /\ \/ /\ \E c \in Components, l \in Loads : load' = [load EXCEPT ![c] = l]
          /\ UNCHANGED lowCqi
       \/ lowCqi' = ~lowCqi /\ UNCHANGED load
    /\ UNCHANGED <<a1, replicas, policy, pending, cycle, cooling, since, lost,
                   others>>

E2Step ==
    ObserveE2 \/ GetCurrentReplicas \/ Act("e2") \/ Steer \/ SteerByIntent
V2Step == ObserveV2 \/ Act("v2")

Next ==
    \/ E2Step \/ V2Step
    \/ \E k \in Controllers : Restart(k) \/ \E x \in Keys : CooldownElapses(k, x)
    \/ \E intent \in pending : Deliver(intent)
    \/ LoadChanges \/ OthersScale

Spec == Init /\ [][Next]_vars

(* Time passes.  Nothing in the repository calls run_cycle again, so no     *)
(* cycle is assumed here; nobody is obliged to merge either.                *)
FairSpec ==
    /\ Spec
    /\ \A k \in Controllers, x \in Keys : WF_vars(CooldownElapses(k, x))

-----------------------------------------------------------------------------
(* One action of a controller on one component or cell in a cooldown period *)
(* (_check_cooldown, record_action): every further one is paid for by a     *)
(* reply that was lost after the server had accepted, or by a restart that  *)
(* forgot the cooldown.                                                     *)
CooldownHeld ==
    \A k \in Controllers, x \in Keys : since[k][x] <= 1 + lost[k][x]

(* The guard rail of MetricsAnalyzer, over failed and stale reads, two      *)
(* controllers and late deliveries: nobody is asked for less than one       *)
(* replica, or for more than max_replicas unless as a scale-in from a       *)
(* number that others had set; and the loop takes no Deployment beyond both *)
(* max_replicas and the most that others ever gave it.                      *)
GuardRail ==
    /\ \A c \in Components :
          replicas[c] > max_replicas => replicas[c] <= others[c]
    /\ \A intent \in pending :
          intent.component # "ts" =>
             /\ intent.replicas >= 1
             /\ intent.replicas > max_replicas =>
                   intent.replicas < others[intent.component]

(* If cycles of "e2" are run again and again, an overloaded component below *)
(* its maximum is not overlooked: unless load or replicas change, an intent *)
(* that raises it is accepted in the end, and a cell of low quality is      *)
(* steered, although an exception for one of them ends the cycle for all    *)
(* that come after it (run_cycle).                                          *)
OverloadAnswered ==
    []<><<ObserveE2>>_vars =>
    /\ \A c \in Components :
          (load[c] = "high" /\ replicas[c] < max_replicas)
             ~> \/ load[c] # "high" \/ replicas[c] >= max_replicas
                \/ \E intent \in pending : /\ intent.component = c
                                           /\ intent.replicas > replicas[c]
    /\ lowCqi ~> \/ ~lowCqi \/ policy
                 \/ \E intent \in pending : intent.component = "ts"

(* What "Max replicas" in the analyzer's message promises, and it does not  *)
(* keep: a scale-in from two or more above it still asks for more than it.  *)
NeverAboveMaximum ==
    \A intent \in pending : intent.replicas <= max_replicas

(* What scale_out is for: delivering an intent for a loaded component never *)
(* takes replicas away from it.                                             *)
ScaleOutRaises ==
    [][\A c \in Components :
          load[c] = "high" /\ load' = load => replicas'[c] >= replicas[c]]_vars
=============================================================================
