-------------------------- MODULE ClosedLoop_proofs --------------------------
(***************************************************************************)
(* Proofs about the cooldown and the guard rail of the closed loop, for    *)
(* any number of components and any number of lost replies and restarts,   *)
(* and, at the end, about the xApp that enforces A1 policies.              *)
(*                                                                         *)
(* CooldownHeld is not inductive.  What makes it so is the difference      *)
(* between a key that cools down and one that does not: the second has no  *)
(* action left to explain, which is what a repeated action uses up.        *)
(***************************************************************************)
EXTENDS ClosedLoop, ScalingXApp, FiniteSetTheorems, TLAPS

(* What a controller did in the current period of a key is paid for by      *)
(* what was lost, and by the cooldown if it is active.                      *)
Paid ==
    \A k \in Controllers, x \in Keys :
        since[k][x] <= lost[k][x] + (IF x \in cooling[k] THEN 1 ELSE 0)

(* The intent in place of an A1 policy is posted outside a cooldown: the    *)
(* check was made before the A1 call, and nothing else records "ts".        *)
FallbackCold == cycle["e2"].pc = "fallback" => "ts" \notin cooling["e2"]

(* Where a cycle is at a component, it is at one of the list.               *)
Placed ==
    \A k \in Controllers :
        cycle[k].pc \in {"read", "act"} => cycle[k].i \in 1..Len(Order)

(* A cycle is a record; nothing is said here of what it has observed.       *)
Shaped ==
    /\ cycle = [k \in Controllers |-> cycle[k]]
    /\ \A k \in Controllers :
          cycle[k] = [pc |-> cycle[k].pc, i |-> cycle[k].i,
                      seen |-> cycle[k].seen, cqi |-> cycle[k].cqi,
                      current |-> cycle[k].current]

Counters ==
    /\ since \in [Controllers -> [Keys -> Nat]]
    /\ lost \in [Controllers -> [Keys -> Nat]]
    /\ cooling \in [Controllers -> SUBSET Keys]

LoopInv == Counters /\ Shaped /\ Placed /\ FallbackCold /\ Paid

(* A controller starts without a cooldown and without a cycle.              *)
LEMMA InitLoop == Init => LoopInv
<1> SUFFICES ASSUME Init PROVE LoopInv
  OBVIOUS
<1>1. Counters
  BY DEF Init, Counters
<1>2. Shaped /\ Placed /\ FallbackCold
  BY DEF Init, Shaped, Placed, FallbackCold, NoCycle, Controllers
<1>3. Paid
  BY DEF Init, Paid
<1> QED BY <1>1, <1>2, <1>3 DEF LoopInv

(* The next place of a cycle is at a component of the list, if at any, and  *)
(* never in the fall-back.                                                  *)
LEMMA AdvancedPlace ==
    ASSUME LoopInv, NEW k \in Controllers, cycle[k].pc \in {"read", "act"}
    PROVE  LET a == Advanced(k)
           IN  /\ a = [pc |-> a.pc, i |-> a.i, seen |-> a.seen,
                       cqi |-> a.cqi, current |-> a.current]
               /\ a.pc \in {"read", "act"} => a.i \in 1..Len(Order)
               /\ a.pc # "fallback"
<1> DEFINE c == cycle[k]
<1>1. c = [pc |-> c.pc, i |-> c.i, seen |-> c.seen, cqi |-> c.cqi,
           current |-> c.current]
  BY DEF LoopInv, Shaped
<1>2. c.i \in 1..Len(Order) /\ Len(Order) \in Nat
  BY LoopAssumption DEF LoopInv, Placed
<1> HIDE DEF c
<1>3. Advanced(k) =
        IF c.i < Len(Order)
        THEN [c EXCEPT !.pc = IF k = "v2" THEN "act" ELSE "read", !.i = @ + 1,
                       !.current = IF k = "v2" THEN @ ELSE 0]
        ELSE IF k = "e2" /\ c.pc = "act"
        THEN [NoCycle EXCEPT !.pc = "steer", !.cqi = c.cqi]
        ELSE NoCycle
  BY DEF Advanced, c
<1>4. CASE c.i < Len(Order)
  <2>1. Advanced(k) = [pc |-> IF k = "v2" THEN "act" ELSE "read",
                       i |-> c.i + 1, seen |-> c.seen, cqi |-> c.cqi,
                       current |-> IF k = "v2" THEN c.current ELSE 0]
    BY <1>1, <1>3, <1>4
  <2>2. c.i + 1 \in 1..Len(Order)
    BY <1>2, <1>4
  <2> QED BY <2>1, <2>2
<1>5. CASE ~(c.i < Len(Order))
  <2>1. \/ Advanced(k) = [pc |-> "steer", i |-> 0, seen |-> NoCycle.seen,
                          cqi |-> c.cqi, current |-> 0]
        \/ Advanced(k) = [pc |-> "idle", i |-> 0, seen |-> NoCycle.seen,
                          cqi |-> FALSE, current |-> 0]
    BY <1>3, <1>5 DEF NoCycle
  <2> QED BY <2>1
<1> QED BY <1>4, <1>5

(* A controller moves to a well-formed place.                               *)
LEMMA GotoKeeps ==
    ASSUME LoopInv, NEW k \in Controllers, NEW a, Goto(k, a),
           a = [pc |-> a.pc, i |-> a.i, seen |-> a.seen, cqi |-> a.cqi,
                current |-> a.current],
           a.pc \in {"read", "act"} => a.i \in 1..Len(Order)
    PROVE  Shaped' /\ Placed'
<1>1. /\ cycle' = [j \in Controllers |-> IF j = k THEN a ELSE cycle[j]]
  BY DEF Goto, LoopInv, Shaped
<1>2. \A j \in Controllers : cycle'[j] = IF j = k THEN a ELSE cycle[j]
  BY <1>1
<1>3. cycle' = [j \in Controllers |-> cycle'[j]]
  BY <1>1
<1>4. Shaped'
  BY <1>2, <1>3 DEF LoopInv, Shaped
<1>5. Placed'
  BY <1>2 DEF LoopInv, Placed
<1> QED BY <1>4, <1>5

(* An action of a controller on a key outside its cooldown: it is recorded, *)
(* or the reply that should have recorded it is lost.                       *)
LEMMA CountedKeeps ==
    ASSUME LoopInv, NEW k \in Controllers, NEW x \in Keys, x \notin cooling[k],
           Counted(k, x),
           \/ record_action(k, x) /\ UNCHANGED lost
           \/ lost' = [lost EXCEPT ![k][x] = @ + 1] /\ UNCHANGED cooling
    PROVE  Counters' /\ Paid'
<1>1. Counters'
  <2>1. /\ since[k] \in [Keys -> Nat] /\ since[k][x] + 1 \in Nat
        /\ lost[k] \in [Keys -> Nat] /\ lost[k][x] + 1 \in Nat
    BY DEF LoopInv, Counters
  <2>2. since' \in [Controllers -> [Keys -> Nat]]
    BY <2>1 DEF LoopInv, Counters, Counted
  <2>3. lost' \in [Controllers -> [Keys -> Nat]]
    <3>1. CASE UNCHANGED lost
      BY <3>1 DEF LoopInv, Counters
    <3>2. CASE lost' = [lost EXCEPT ![k][x] = @ + 1]
      BY <2>1, <3>2 DEF LoopInv, Counters
    <3> QED BY <3>1, <3>2
  <2>4. cooling' \in [Controllers -> SUBSET Keys]
    BY DEF LoopInv, Counters, record_action
  <2> QED BY <2>2, <2>3, <2>4 DEF Counters
<1>2. ASSUME NEW j \in Controllers, NEW y \in Keys
      PROVE  since'[j][y] <= lost'[j][y] + (IF y \in cooling'[j] THEN 1 ELSE 0)
  <2>1. since[j][y] <= lost[j][y] + (IF y \in cooling[j] THEN 1 ELSE 0)
    BY DEF LoopInv, Paid
  <2>2. /\ since[j][y] \in Nat /\ lost[j][y] \in Nat
        /\ since[j] \in [Keys -> Nat] /\ lost[j] \in [Keys -> Nat]
    BY DEF LoopInv, Counters
  <2>3. since'[j][y] = IF j = k /\ y = x THEN since[j][y] + 1 ELSE since[j][y]
    BY <2>2 DEF LoopInv, Counters, Counted
  <2>4. CASE record_action(k, x) /\ UNCHANGED lost
    <3>1. y \in cooling'[j] <=> (y \in cooling[j] \/ (j = k /\ y = x))
      BY <2>4 DEF LoopInv, Counters, record_action
    <3> QED BY <2>1, <2>2, <2>3, <2>4, <3>1
  <2>5. CASE lost' = [lost EXCEPT ![k][x] = @ + 1] /\ UNCHANGED cooling
    <3>1. lost'[j][y] = IF j = k /\ y = x THEN lost[j][y] + 1 ELSE lost[j][y]
      BY <2>2, <2>5 DEF LoopInv, Counters
    <3> QED BY <2>1, <2>2, <2>3, <2>5, <3>1
  <2> QED BY <2>4, <2>5
<1>3. Paid'
  BY <1>2 DEF Paid
<1> QED BY <1>1, <1>3

(* A step that neither acts nor forgets.                                    *)
LEMMA IdleKeeps ==
    ASSUME LoopInv, UNCHANGED <<since, lost, cooling>>
    PROVE  Counters' /\ Paid'
<1>1. Counters'
  BY DEF LoopInv, Counters
<1>2. Paid'
  BY DEF LoopInv, Paid
<1> QED BY <1>1, <1>2

(* A controller in a cycle goes back to waiting for the next one.           *)
LEMMA EndKeeps ==
    ASSUME LoopInv, NEW k \in Controllers, Goto(k, NoCycle)
    PROVE  Shaped' /\ Placed'
<1>1. NoCycle = [pc |-> NoCycle.pc, i |-> NoCycle.i, seen |-> NoCycle.seen,
                 cqi |-> NoCycle.cqi, current |-> NoCycle.current]
      /\ NoCycle.pc = "idle"
  BY DEF NoCycle
<1> QED BY <1>1, GotoKeeps

(* What a move of a controller says about the fall-back.                    *)
LEMMA FallbackKeeps ==
    ASSUME LoopInv, NEW k \in Controllers, NEW a, Goto(k, a),
           a.pc # "fallback",
           \A j \in Controllers : j # k => cooling'[j] = cooling[j]
    PROVE  FallbackCold'
<1>1. \A j \in Controllers : cycle'[j] = IF j = k THEN a ELSE cycle[j]
  BY DEF Goto, LoopInv, Shaped
<1> QED BY <1>1 DEF LoopInv, FallbackCold, Controllers

(* _post_intent: accepted and recorded, accepted without a reply, or not    *)
(* accepted.                                                                *)
LEMMA PostKeeps ==
    ASSUME LoopInv, NEW k \in Controllers, NEW x \in Keys, x \notin cooling[k],
           NEW n, NEW a, Post(k, x, n, a),
           a = [pc |-> a.pc, i |-> a.i, seen |-> a.seen, cqi |-> a.cqi,
                current |-> a.current],
           a.pc \in {"read", "act"} => a.i \in 1..Len(Order),
           a.pc # "fallback"
    PROVE  LoopInv'
<1>0. NoCycle.pc # "fallback"
  BY DEF NoCycle
<1>1. CASE Counted(k, x) /\ record_action(k, x) /\ Goto(k, a) /\ UNCHANGED lost
  <2>1. \A j \in Controllers : j # k => cooling'[j] = cooling[j]
    BY <1>1 DEF record_action, LoopInv, Counters
  <2> QED BY <1>1, <2>1, CountedKeeps, GotoKeeps, FallbackKeeps DEF LoopInv
<1>2. CASE /\ Counted(k, x) /\ lost' = [lost EXCEPT ![k][x] = @ + 1]
           /\ Goto(k, NoCycle) /\ UNCHANGED cooling
  BY <1>0, <1>2, CountedKeeps, EndKeeps, FallbackKeeps DEF LoopInv
<1>3. CASE Goto(k, NoCycle) /\ UNCHANGED <<cooling, since, lost>>
  BY <1>0, <1>3, IdleKeeps, EndKeeps, FallbackKeeps DEF LoopInv
<1> QED BY <1>1, <1>2, <1>3 DEF Post

(* act, for both controllers.                                               *)
LEMMA ActKeeps ==
    ASSUME LoopInv, NEW k \in Controllers, Act(k)
    PROVE  LoopInv'
<1> DEFINE x == Order[cycle[k].i]
           n == analyze(cycle[k].seen[x], cycle[k].current)
           a == Advanced(k)
<1>1. cycle[k].pc = "act"
  BY DEF Act
<1>2. x \in Keys
  BY <1>1 DEF LoopInv, Placed, Keys, Components
<1>3. /\ a = [pc |-> a.pc, i |-> a.i, seen |-> a.seen, cqi |-> a.cqi,
              current |-> a.current]
      /\ a.pc \in {"read", "act"} => a.i \in 1..Len(Order)
      /\ a.pc # "fallback"
  BY <1>1, AdvancedPlace
<1> HIDE DEF x, n, a
<1>4. CASE Goto(k, a) /\ UNCHANGED <<cooling, since, lost>>
  BY <1>3, <1>4, IdleKeeps, GotoKeeps, FallbackKeeps DEF LoopInv
<1>5. CASE x \notin cooling[k] /\ Post(k, x, n, a)
  BY <1>2, <1>3, <1>5, PostKeeps
<1> QED BY <1>4, <1>5 DEF Act, x, n, a

(* The start of a cycle and the read of the replicas.                       *)
LEMMA ObserveKeeps ==
    ASSUME LoopInv, ObserveV2 \/ ObserveE2 \/ GetCurrentReplicas
    PROVE  LoopInv'
<1>0. 1 \in 1..Len(Order)
  BY LoopAssumption
<1>1. CASE ObserveV2
  <2>1. PICK pods : Goto("v2", [pc |-> "act", i |-> 1, cqi |-> FALSE,
                                seen |-> [c \in Components |-> "high"],
                                current |-> pods])
    BY <1>1 DEF ObserveV2, Goto
  <2> DEFINE a == [pc |-> "act", i |-> 1, cqi |-> FALSE,
                   seen |-> [c \in Components |-> "high"], current |-> pods]
  <2>2. /\ a = [pc |-> a.pc, i |-> a.i, seen |-> a.seen, cqi |-> a.cqi,
                current |-> a.current]
        /\ a.i = 1 /\ a.pc = "act"
    OBVIOUS
  <2>3. Goto("v2", a) /\ UNCHANGED <<since, lost, cooling>>
    BY <1>1, <2>1 DEF ObserveV2
  <2> HIDE DEF a
  <2> QED
    BY <1>0, <2>2, <2>3, IdleKeeps, GotoKeeps, FallbackKeeps
    DEF LoopInv, Controllers
<1>2. CASE ObserveE2
  <2> DEFINE a == [pc |-> "read", i |-> 1, cqi |-> lowCqi, seen |-> load,
                   current |-> 0]
  <2>2. /\ a = [pc |-> a.pc, i |-> a.i, seen |-> a.seen, cqi |-> a.cqi,
                current |-> a.current]
        /\ a.i = 1 /\ a.pc = "read"
    OBVIOUS
  <2>3. Goto("e2", a) /\ UNCHANGED <<since, lost, cooling>>
    BY <1>2 DEF ObserveE2, Goto
  <2> HIDE DEF a
  <2> QED
    BY <1>0, <2>2, <2>3, IdleKeeps, GotoKeeps, FallbackKeeps
    DEF LoopInv, Controllers
<1>3. CASE GetCurrentReplicas
  <2> DEFINE c == cycle["e2"]
  <2>1. PICK m : cycle' = [cycle EXCEPT !["e2"].pc = "act",
                                        !["e2"].current = m]
    BY <1>3 DEF GetCurrentReplicas
  <2> DEFINE a == [pc |-> "act", i |-> c.i, cqi |-> c.cqi, seen |-> c.seen,
                   current |-> m]
  <2>2. c = [pc |-> c.pc, i |-> c.i, seen |-> c.seen, cqi |-> c.cqi,
             current |-> c.current]
    BY DEF LoopInv, Shaped, Controllers
  <2>3. [[c EXCEPT !.pc = "act"] EXCEPT !.current = m] = a
    <3> HIDE DEF c
    <3>1. [c EXCEPT !.pc = "act"]
            = [pc |-> "act", i |-> c.i, seen |-> c.seen, cqi |-> c.cqi,
               current |-> c.current]
      BY <2>2
    <3> DEFINE d == [c EXCEPT !.pc = "act"]
    <3>2. d = [pc |-> "act", i |-> c.i, seen |-> c.seen, cqi |-> c.cqi,
               current |-> c.current]
      BY <3>1
    <3> HIDE DEF d
    <3>3. [d EXCEPT !.current = m] = a
      BY <3>2
    <3> QED BY <3>3 DEF d
  <2>4. cycle' = [cycle EXCEPT !["e2"] = a]
    BY <2>1, <2>3 DEF LoopInv, Shaped, Controllers
  <2>5. /\ a = [pc |-> a.pc, i |-> a.i, seen |-> a.seen, cqi |-> a.cqi,
                current |-> a.current]
        /\ a.i = c.i /\ a.pc = "act"
    OBVIOUS
  <2>6. c.i \in 1..Len(Order)
    BY <1>3 DEF GetCurrentReplicas, LoopInv, Placed, Controllers
  <2>7. Goto("e2", a) /\ UNCHANGED <<since, lost, cooling>>
    BY <1>3, <2>4 DEF GetCurrentReplicas, Goto
  <2> HIDE DEF a
  <2> QED
    BY <2>5, <2>6, <2>7, IdleKeeps, GotoKeeps, FallbackKeeps
    DEF LoopInv, Controllers
<1> QED BY <1>1, <1>2, <1>3

(* _act_traffic_steer, with and without its fall-back.                      *)
LEMMA SteerKeeps == ASSUME LoopInv, Steer PROVE LoopInv'
<1> DEFINE c == cycle["e2"]
           a == [c EXCEPT !.pc = "fallback"]
<1>0. "e2" \in Controllers /\ "ts" \in Keys /\ NoCycle.pc # "fallback"
  BY DEF Controllers, Keys, NoCycle
<1>1. CASE Goto("e2", NoCycle) /\ UNCHANGED <<cooling, since, lost>>
  BY <1>0, <1>1, IdleKeeps, EndKeeps, FallbackKeeps DEF LoopInv
<1>2. CASE /\ "ts" \notin cooling["e2"] /\ Counted("e2", "ts")
           /\ record_action("e2", "ts") /\ Goto("e2", NoCycle)
           /\ UNCHANGED lost
  <2>1. \A j \in Controllers : j # "e2" => cooling'[j] = cooling[j]
    BY <1>2 DEF record_action, LoopInv, Counters
  <2>2. Counters' /\ Paid'
    BY <1>0, <1>2, CountedKeeps
  <2> QED BY <1>0, <1>2, <2>1, <2>2, EndKeeps, FallbackKeeps DEF LoopInv
<1>3. CASE /\ "ts" \notin cooling["e2"] /\ Goto("e2", a)
           /\ \/ /\ Counted("e2", "ts")
                 /\ lost' = [lost EXCEPT !["e2"]["ts"] = @ + 1]
              \/ UNCHANGED <<since, lost>>
           /\ UNCHANGED cooling
  <2>1. c = [pc |-> c.pc, i |-> c.i, seen |-> c.seen, cqi |-> c.cqi,
             current |-> c.current]
    BY <1>0 DEF LoopInv, Shaped
  <2> HIDE DEF c
  <2>2. a = [pc |-> "fallback", i |-> c.i, seen |-> c.seen, cqi |-> c.cqi,
             current |-> c.current]
    BY <2>1
  <2>3. /\ a = [pc |-> a.pc, i |-> a.i, seen |-> a.seen, cqi |-> a.cqi,
                current |-> a.current]
        /\ a.pc = "fallback"
    BY <2>2
  <2> HIDE DEF a
  <2>4. Counters' /\ Paid'
    BY <1>0, <1>3, CountedKeeps, IdleKeeps
  <2>5. Shaped' /\ Placed'
    BY <1>0, <1>3, <2>3, GotoKeeps
  <2>6. FallbackCold'
    BY <1>3 DEF FallbackCold
  <2> QED BY <2>4, <2>5, <2>6 DEF LoopInv
<1> QED BY <1>1, <1>2, <1>3 DEF Steer

(* The intent in place of the policy.                                       *)
LEMMA FallbackPosts == ASSUME LoopInv, SteerByIntent PROVE LoopInv'
<1>1. "e2" \in Controllers /\ "ts" \in Keys /\ "ts" \notin cooling["e2"]
  BY DEF Controllers, Keys, LoopInv, FallbackCold, SteerByIntent
<1>2. NoCycle = [pc |-> NoCycle.pc, i |-> NoCycle.i, seen |-> NoCycle.seen,
                 cqi |-> NoCycle.cqi, current |-> NoCycle.current]
      /\ NoCycle.pc = "idle"
  BY DEF NoCycle
<1> QED BY <1>1, <1>2, PostKeeps DEF SteerByIntent

(* The cooldown ends: nothing of the period is left to explain.             *)
LEMMA ElapseKeeps ==
    ASSUME LoopInv, NEW k \in Controllers, NEW x \in Keys,
           CooldownElapses(k, x)
    PROVE  LoopInv'
<1>1. Counters'
  BY DEF LoopInv, Counters, CooldownElapses
<1>2. Shaped' /\ Placed' /\ FallbackCold'
  BY DEF LoopInv, Counters, Shaped, Placed, FallbackCold, CooldownElapses,
         Controllers
<1>3. ASSUME NEW j \in Controllers, NEW y \in Keys
      PROVE  since'[j][y] <= lost'[j][y] + (IF y \in cooling'[j] THEN 1 ELSE 0)
  <2>1. /\ since[j] \in [Keys -> Nat] /\ lost[j] \in [Keys -> Nat]
        /\ since[j][y] <= lost[j][y] + (IF y \in cooling[j] THEN 1 ELSE 0)
    BY DEF LoopInv, Counters, Paid
  <2>2. CASE j = k /\ y = x
    BY <2>1, <2>2 DEF LoopInv, Counters, CooldownElapses
  <2>3. CASE ~(j = k /\ y = x)
    <3>1. since'[j][y] = since[j][y] /\ lost'[j][y] = lost[j][y]
      BY <2>1, <2>3 DEF LoopInv, Counters, CooldownElapses
    <3>2. y \in cooling'[j] <=> y \in cooling[j]
      BY <2>3 DEF LoopInv, Counters, CooldownElapses
    <3> QED BY <2>1, <3>1, <3>2
  <2> QED BY <2>2, <2>3
<1>4. Paid'
  BY <1>3 DEF Paid
<1> QED BY <1>1, <1>2, <1>4 DEF LoopInv

(* A restart forgets the cooldowns, and each of them is a memory lost.      *)
LEMMA RestartKeeps ==
    ASSUME LoopInv, NEW k \in Controllers, Restart(k)
    PROVE  LoopInv'
<1>1. \A j \in Controllers, y \in Keys :
         /\ since[j][y] \in Nat /\ lost[j][y] \in Nat
         /\ since[j][y] <= lost[j][y] + (IF y \in cooling[j] THEN 1 ELSE 0)
  BY DEF LoopInv, Counters, Paid
<1>2. \A j \in Controllers, y \in Keys :
         lost'[j][y] = IF j = k
                       THEN lost[j][y] + (IF y \in cooling[j] THEN 1 ELSE 0)
                       ELSE lost[j][y]
  BY DEF Restart, LoopInv, Counters
<1>3. \A j \in Controllers : cooling'[j] = IF j = k THEN {} ELSE cooling[j]
  BY DEF Restart, LoopInv, Counters
<1>4. Paid'
  BY <1>1, <1>2, <1>3 DEF Paid, Restart
<1>5. Counters'
  <2>1. [x \in Keys |-> lost[k][x] + (IF x \in cooling[k] THEN 1 ELSE 0)]
          \in [Keys -> Nat]
    BY <1>1
  <2> QED BY <2>1 DEF Restart, LoopInv, Counters
<1>6. Shaped' /\ Placed'
  BY EndKeeps DEF Restart
<1>7. FallbackCold'
  BY <1>3, FallbackKeeps DEF Restart, NoCycle
<1> QED BY <1>4, <1>5, <1>6, <1>7 DEF LoopInv

(* The inductive step, action by action.                                    *)
LEMMA NextKeeps == LoopInv /\ [Next]_vars => LoopInv'
<1> SUFFICES ASSUME LoopInv, [Next]_vars PROVE LoopInv'
  OBVIOUS
<1>1. CASE E2Step \/ V2Step
  BY <1>1, ObserveKeeps, ActKeeps, SteerKeeps, FallbackPosts
  DEF E2Step, V2Step, Controllers
<1>2. ASSUME NEW k \in Controllers, Restart(k) PROVE LoopInv'
  BY <1>2, RestartKeeps
<1>3. ASSUME NEW k \in Controllers, NEW x \in Keys, CooldownElapses(k, x)
      PROVE  LoopInv'
  BY <1>3, ElapseKeeps
<1>4. ASSUME UNCHANGED <<cycle, cooling, since, lost>> PROVE LoopInv'
  BY <1>4 DEF LoopInv, Counters, Shaped, Placed, FallbackCold, Paid
<1>5. ASSUME NEW intent \in pending, Deliver(intent) PROVE LoopInv'
  BY <1>4, <1>5 DEF Deliver
<1>6. CASE LoadChanges \/ OthersScale \/ UNCHANGED vars
  BY <1>4, <1>6 DEF LoadChanges, OthersScale, vars
<1> QED BY <1>1, <1>2, <1>3, <1>5, <1>6 DEF Next

(* Every repeated action of a controller on one component or cell within a *)
(* cooldown period is paid for by a lost reply or a restart                 *)
(* (_check_cooldown, record_action, _post_intent, _act_traffic_steer).      *)
THEOREM CooldownTheorem == Spec => []CooldownHeld
<1>1. Spec => []LoopInv
  BY InitLoop, NextKeeps, PTL DEF Spec
<1>2. LoopInv => CooldownHeld
  BY DEF LoopInv, Counters, Paid, CooldownHeld
<1> QED BY <1>1, <1>2, PTL

-----------------------------------------------------------------------------
(* The pods of a namespace are counted with a fold.  That their number is a *)
(* natural number is an induction over the components, which is done here   *)
(* with sets of numbers in the place of predicates.                         *)

(* A set of numbers with 0 and every successor has all of them: the others  *)
(* would have a least one.                                                  *)
LEMMA NumbersInduction ==
    ASSUME NEW T \in SUBSET Nat, 0 \in T, \A n \in T : n + 1 \in T
    PROVE  \A n \in Nat : n \in T
<1> DEFINE U == Nat \ T
<1> SUFFICES ASSUME U # {} PROVE FALSE
  OBVIOUS
<1>0. U \subseteq Nat
  OBVIOUS
<1> HIDE DEF U
<1>1. PICK x \in U : \A y \in U : ~(<<y, x>> \in OpToRel(<, Nat))
  BY <1>0, NatLessThanWellFounded, WFMin, Zenon
<1>2. x \in Nat /\ x # 0
  BY DEF U
<1>3. x - 1 \in Nat /\ x - 1 < x /\ (x - 1) + 1 = x
  BY <1>2
<1>4. x - 1 \in U
  BY <1>2, <1>3 DEF U
<1>5. <<x - 1, x>> \in OpToRel(<, Nat)
  BY <1>2, <1>3, Zenon DEF OpToRel
<1> QED BY <1>1, <1>4, <1>5

(* One step of the fold: the element it takes, and what it makes of it.     *)
Pick(s) == CHOOSE x \in s : TRUE
Folded(g, f, b, s) == IF s = {} THEN b ELSE f[Pick(s)] + g[s \ {Pick(s)}]

(* The function over all subsets that the fold is defined by.               *)
Fold(f, b, S) == CHOOSE g : g = [s \in SUBSET S |-> Folded(g, f, b, s)]
FoldOf(g, f, b, S) ==
    g \in [SUBSET S -> Nat] /\ \A s \in SUBSET S : g[s] = Folded(g, f, b, s)

(* FoldFunction is that function at the whole set.                          *)
LEMMA FoldIsFold ==
    ASSUME NEW b, NEW f
    PROVE  FoldFunction(+, b, f) = Fold(f, b, DOMAIN f)[DOMAIN f]
BY Zenon DEF FoldFunction, FoldFunctionOnSet, MapThenFoldSet, Fold, Folded, Pick

(* Taking an element leaves one less.                                       *)
LEMMA Picked ==
    ASSUME NEW S, IsFiniteSet(S), NEW s \in SUBSET S, s # {}
    PROVE  /\ Pick(s) \in s /\ s \ {Pick(s)} \in SUBSET S
           /\ Cardinality(s) \in Nat /\ Cardinality(s) >= 1
           /\ Cardinality(s \ {Pick(s)}) = Cardinality(s) - 1
<1>1. Pick(s) \in s
  BY DEF Pick
<1>2. IsFiniteSet(s) /\ Cardinality(s) \in Nat
  BY FS_Subset, FS_CardinalityType
<1>3. Cardinality(s) # 0
  BY <1>2, FS_EmptySet
<1>4. Cardinality(s \ {Pick(s)}) = Cardinality(s) - 1
  BY <1>1, <1>2, FS_RemoveElement
<1>5. s \ {Pick(s)} \in SUBSET S
  OBVIOUS
<1> QED BY <1>1, <1>2, <1>3, <1>4, <1>5

(* There is such a function: from one that is right up to n elements one is *)
(* made that is right up to n + 1.                                          *)
LEMMA FoldExists ==
    ASSUME NEW S, IsFiniteSet(S), NEW f \in [S -> Nat], NEW b \in Nat
    PROVE  \E g : FoldOf(g, f, b, S)
<1> DEFINE Upto(g, n) ==
             \A s \in SUBSET S : Cardinality(s) <= n => g[s] = Folded(g, f, b, s)
           T == {n \in Nat : \E g \in [SUBSET S -> Nat] : Upto(g, n)}
<1>1. 0 \in T
  <2> DEFINE g == [s \in SUBSET S |-> b]
  <2>1. g \in [SUBSET S -> Nat]
    OBVIOUS
  <2>2. ASSUME NEW s \in SUBSET S, Cardinality(s) <= 0, s # {} PROVE FALSE
    <3>1. Cardinality(s) \in Nat /\ Cardinality(s) >= 1
      BY <2>2, Picked
    <3> QED BY <2>2, <3>1
  <2>3. ASSUME NEW s \in SUBSET S, Cardinality(s) <= 0
        PROVE  g[s] = Folded(g, f, b, s)
    BY <2>2, <2>3 DEF Folded
  <2> QED BY <2>1, <2>3
<1>2. ASSUME NEW n \in T PROVE n + 1 \in T
  <2>1. PICK g \in [SUBSET S -> Nat] : Upto(g, n)
    BY <1>2
  <2>0. n \in Nat
    BY <1>2
  <2> DEFINE h == [s \in SUBSET S |-> IF Cardinality(s) <= n THEN g[s]
                                      ELSE Folded(g, f, b, s)]
  <2>2. ASSUME NEW s \in SUBSET S PROVE Folded(g, f, b, s) \in Nat
    <3>1. CASE s = {}
      BY <3>1 DEF Folded
    <3>2. CASE s # {}
      <4>1. Pick(s) \in S /\ s \ {Pick(s)} \in SUBSET S
        BY <3>2, Picked
      <4>2. f[Pick(s)] \in Nat /\ g[s \ {Pick(s)}] \in Nat
        BY <4>1
      <4>3. Folded(g, f, b, s) = f[Pick(s)] + g[s \ {Pick(s)}]
        BY <3>2 DEF Folded
      <4> QED BY <4>2, <4>3
    <3> QED BY <3>1, <3>2
  <2>3. h \in [SUBSET S -> Nat]
    BY <2>2
  <2>4. ASSUME NEW s \in SUBSET S, Cardinality(s) <= n + 1
        PROVE  h[s] = Folded(h, f, b, s)
    <3>1. h[s] = Folded(g, f, b, s)
      BY <2>1
    <3>2. CASE s = {}
      BY <3>1, <3>2 DEF Folded
    <3>3. CASE s # {}
      <4>1. /\ s \ {Pick(s)} \in SUBSET S
            /\ Cardinality(s) \in Nat
            /\ Cardinality(s \ {Pick(s)}) = Cardinality(s) - 1
        BY <3>3, Picked
      <4>2. Cardinality(s \ {Pick(s)}) <= n
        BY <2>0, <2>4, <4>1
      <4>3. h[s \ {Pick(s)}] = g[s \ {Pick(s)}]
        BY <4>1, <4>2
      <4> HIDE DEF h
      <4> QED BY <3>1, <3>3, <4>3 DEF Folded
    <3> QED BY <3>2, <3>3
  <2> HIDE DEF h
  <2>5. n + 1 \in Nat /\ Upto(h, n + 1)
    BY <2>0, <2>4
  <2> QED BY <2>3, <2>5
<1>3. T \in SUBSET Nat
  OBVIOUS
<1>4. Cardinality(S) \in Nat
  BY FS_CardinalityType
<1> HIDE DEF T
<1>5. Cardinality(S) \in T
  BY <1>1, <1>2, <1>3, <1>4, NumbersInduction
<1>6. PICK g \in [SUBSET S -> Nat] : Upto(g, Cardinality(S))
  BY <1>5 DEF T
<1>7. \A s \in SUBSET S : Cardinality(s) <= Cardinality(S)
  BY FS_Subset
<1>8. FoldOf(g, f, b, S)
  BY <1>6, <1>7 DEF FoldOf
<1> QED BY <1>8, Zenon

(* The sum of finitely many natural numbers is one.                         *)
LEMMA FoldType ==
    ASSUME NEW S, IsFiniteSet(S), NEW f \in [S -> Nat], NEW b \in Nat
    PROVE  FoldFunction(+, b, f) \in Nat
<1> DEFINE g == Fold(f, b, S)
           T == {n \in Nat : \A s \in SUBSET S : Cardinality(s) = n => g[s] \in Nat}
<1>1. g = [s \in SUBSET S |-> Folded(g, f, b, s)]
  <2> HIDE DEF T
  <2>1. PICK h : FoldOf(h, f, b, S)
    BY FoldExists, Zenon
  <2>2. h = [s \in SUBSET S |-> Folded(h, f, b, s)]
    BY <2>1 DEF FoldOf
  <2>3. \E k : k = [s \in SUBSET S |-> Folded(k, f, b, s)]
    BY <2>2, Zenon
  <2> QED BY <2>3, Zenon DEF Fold
<1> HIDE DEF g
<1>2. \A s \in SUBSET S : g[s] = Folded(g, f, b, s)
  BY <1>1
<1>3. 0 \in T
  <2>1. ASSUME NEW s \in SUBSET S, Cardinality(s) = 0 PROVE g[s] \in Nat
    <3>1. s # {} => Cardinality(s) \in Nat /\ Cardinality(s) >= 1
      BY Picked
    <3>2. s = {}
      BY <2>1, <3>1
    <3> QED BY <1>2, <3>2 DEF Folded
  <2> QED BY <2>1
<1>4. ASSUME NEW n \in T PROVE n + 1 \in T
  <2>1. n \in Nat /\ \A s \in SUBSET S : Cardinality(s) = n => g[s] \in Nat
    BY <1>4
  <2>2. ASSUME NEW s \in SUBSET S, Cardinality(s) = n + 1 PROVE g[s] \in Nat
    <3>1. s # {}
      <4>1. Cardinality({}) = 0
        BY FS_EmptySet
      <4> QED BY <2>1, <2>2, <4>1
    <3>2. /\ Pick(s) \in S /\ s \ {Pick(s)} \in SUBSET S
          /\ Cardinality(s \ {Pick(s)}) = Cardinality(s) - 1
      BY <3>1, Picked
    <3>3. Cardinality(s \ {Pick(s)}) = n
      BY <2>1, <2>2, <3>2
    <3>4. g[s \ {Pick(s)}] \in Nat /\ f[Pick(s)] \in Nat
      BY <2>1, <3>2, <3>3
    <3>5. g[s] = f[Pick(s)] + g[s \ {Pick(s)}]
      BY <1>2, <3>1 DEF Folded
    <3> QED BY <3>4, <3>5
  <2> QED BY <2>1, <2>2
<1>5. T \in SUBSET Nat
  OBVIOUS
<1>6. Cardinality(S) \in Nat
  BY FS_CardinalityType
<1> HIDE DEF T
<1>7. Cardinality(S) \in T
  BY <1>3, <1>4, <1>5, <1>6, NumbersInduction
<1>8. g[S] \in Nat
  BY <1>7 DEF T
<1>9. DOMAIN f = S
  OBVIOUS
<1>10. FoldFunction(+, b, f) = g[S]
  BY <1>9, FoldIsFold, Zenon DEF g
<1> QED BY <1>8, <1>10

-----------------------------------------------------------------------------
(* The guard rail.  analyze only compares with max_replicas on the way up:  *)
(* on the way down it relies on where the current number came from.         *)

(* "v2" may hold any number of pods, but takes every component for loaded   *)
(* and so never scales in; "e2" acts on a number it read from a Deployment, *)
(* which is above max_replicas only if others have put it there.            *)
Rail(k, c) ==
    /\ k = "v2" /\ c.pc # "idle" => \A x \in Components : c.seen[x] = "high"
    /\ k = "e2" /\ c.pc = "act" /\ c.current > max_replicas =>
          c.current <= others[Order[c.i]]

Railed == \A k \in Controllers : Rail(k, cycle[k])

Cycled == cycle \in [Controllers -> Cycles]

(* What may be asked for.                                                   *)
Allowed(intent) ==
    intent.component # "ts" =>
       /\ intent.replicas >= 1
       /\ intent.replicas > max_replicas =>
             intent.replicas < others[intent.component]

World ==
    /\ a1 \in BOOLEAN
    /\ load \in [Components -> Loads] /\ lowCqi \in BOOLEAN
    /\ replicas \in [Components -> Nat] /\ others \in [Components -> Scales]
    /\ policy \in BOOLEAN
    /\ pending \subseteq Intents

(* Every reply or memory that was lost is a fault of its own.               *)
Bounds ==
    /\ faults \in 0..MaxFaults
    /\ \A k \in Controllers, x \in Keys : lost[k][x] <= faults

GuardInv == World /\ GuardRail /\ Cycled /\ Railed /\ Bounds

(* A cycle is a record of the right fields.                                 *)
LEMMA CycleFields ==
    ASSUME NEW c \in Cycles
    PROVE  /\ c = [pc |-> c.pc, i |-> c.i, seen |-> c.seen, cqi |-> c.cqi,
                   current |-> c.current]
           /\ c.pc \in {"idle", "read", "act", "steer", "fallback"}
           /\ c.i \in 0..Len(Order) /\ c.seen \in [Components -> Loads]
           /\ c.cqi \in BOOLEAN /\ c.current \in Nat
BY DEF Cycles

(* A record of the right fields is a cycle.                                 *)
LEMMA CycleMade ==
    ASSUME NEW place \in {"idle", "read", "act", "steer", "fallback"},
           NEW i \in 0..Len(Order), NEW seen \in [Components -> Loads],
           NEW cqi \in BOOLEAN, NEW current \in Nat
    PROVE  [pc |-> place, i |-> i, seen |-> seen, cqi |-> cqi,
            current |-> current]
             \in Cycles
BY DEF Cycles

(* The components are finitely many, and so their pods can be counted.      *)
LEMMA PodsType ==
    ASSUME World
    PROVE  FoldFunction(+, OtherPods, replicas) \in Nat
<1>1. Len(Order) \in Nat /\ Order \in [1..Len(Order) -> Components]
  BY LoopAssumption
<1>2. IsFiniteSet(1..Len(Order))
  BY <1>1, FS_Interval
<1>3. Order \in Surjection(1..Len(Order), Components)
  BY <1>1 DEF Surjection, Components
<1>4. IsFiniteSet(Components)
  BY <1>2, <1>3, FS_Surjection
<1>5. replicas \in [Components -> Nat] /\ OtherPods \in Nat
  BY LoopAssumption DEF World
<1> QED BY <1>4, <1>5, FoldType

(* Waiting for the next cycle is always allowed.                            *)
LEMMA NoCycleRail ==
    /\ NoCycle \in Cycles
    /\ NoCycle.pc = "idle"
    /\ \A k : Rail(k, NoCycle)
<1>1. "ok" \in Loads /\ Len(Order) \in Nat
  BY LoopAssumption DEF Loads
<1>2. NoCycle \in Cycles
  BY <1>1 DEF NoCycle, Cycles
<1>3. NoCycle.pc = "idle"
  BY DEF NoCycle
<1> QED BY <1>2, <1>3 DEF Rail

(* A controller moves to a place that keeps the rail.                       *)
LEMMA MoveKeeps ==
    ASSUME GuardInv, NEW k \in Controllers, NEW a \in Cycles, Goto(k, a),
           Rail(k, a), UNCHANGED others
    PROVE  Cycled' /\ Railed'
<1>1. cycle' \in [Controllers -> Cycles]
  BY DEF GuardInv, Cycled, Goto
<1>2. \A j \in Controllers : cycle'[j] = IF j = k THEN a ELSE cycle[j]
  BY DEF GuardInv, Cycled, Goto
<1>3. ASSUME NEW j \in Controllers PROVE Rail(j, cycle'[j])
  <2>1. CASE j = k
    <3>1. cycle'[j] = a
      BY <1>2, <2>1
    <3> QED BY <2>1, <3>1
  <2>2. CASE j # k
    <3>1. cycle'[j] = cycle[j]
      BY <1>2, <2>2
    <3>2. Rail(j, cycle[j])
      BY DEF GuardInv, Railed
    <3> QED BY <3>1, <3>2
  <2> QED BY <2>1, <2>2
<1> QED BY <1>1, <1>3 DEF Cycled, Railed, Rail

(* So does the next place of the loop.                                      *)
LEMMA AdvancedRail ==
    ASSUME LoopInv, GuardInv, NEW k \in Controllers, cycle[k].pc = "act"
    PROVE  Advanced(k) \in Cycles /\ Rail(k, Advanced(k))
<1> DEFINE c == cycle[k]
           a == Advanced(k)
<1>1. c \in Cycles /\ Rail(k, c) /\ c.pc = "act"
  BY DEF GuardInv, Cycled, Railed
<1>2. /\ c = [pc |-> c.pc, i |-> c.i, seen |-> c.seen, cqi |-> c.cqi,
              current |-> c.current]
      /\ c.i \in 0..Len(Order) /\ c.seen \in [Components -> Loads]
      /\ c.cqi \in BOOLEAN /\ c.current \in Nat
  BY <1>1, CycleFields
<1>3. Len(Order) \in Nat /\ "ok" \in Loads
  BY LoopAssumption DEF Loads
<1>4. a = IF c.i < Len(Order)
          THEN [c EXCEPT !.pc = IF k = "v2" THEN "act" ELSE "read", !.i = @ + 1,
                         !.current = IF k = "v2" THEN @ ELSE 0]
          ELSE IF k = "e2" /\ c.pc = "act"
          THEN [NoCycle EXCEPT !.pc = "steer", !.cqi = c.cqi]
          ELSE NoCycle
  BY DEF Advanced
<1> HIDE DEF c, a
<1>5. CASE c.i < Len(Order)
  <2> DEFINE p == IF k = "v2" THEN "act" ELSE "read"
             n == IF k = "v2" THEN c.current ELSE 0
  <2>1. a = [pc |-> p, i |-> c.i + 1, seen |-> c.seen, cqi |-> c.cqi,
             current |-> n]
    BY <1>2, <1>4, <1>5
  <2>2. c.i + 1 \in 0..Len(Order)
    BY <1>2, <1>3, <1>5
  <2>3. p \in {"idle", "read", "act", "steer", "fallback"} /\ n \in Nat
    BY <1>2
  <2>4. (k = "e2" => p = "read") /\ a.pc = p /\ a.seen = c.seen
    BY <2>1
  <2> HIDE DEF p, n
  <2>5. a \in Cycles
    BY <1>2, <2>1, <2>2, <2>3, CycleMade
  <2>6. Rail(k, a)
    BY <1>1, <2>4 DEF Rail
  <2> QED BY <2>5, <2>6 DEF a
<1>6. CASE ~(c.i < Len(Order)) /\ k = "e2"
  <2> DEFINE ok == [x \in Components |-> "ok"]
  <2>1. a = [pc |-> "steer", i |-> 0, seen |-> ok, cqi |-> c.cqi, current |-> 0]
    BY <1>1, <1>4, <1>6 DEF NoCycle
  <2>2. ok \in [Components -> Loads] /\ 0 \in 0..Len(Order) /\ 0 \in Nat
    BY <1>3
  <2>3. a.pc = "steer"
    BY <2>1
  <2> HIDE DEF ok
  <2>4. a \in Cycles
    BY <1>2, <2>1, <2>2, CycleMade
  <2>5. Rail(k, a)
    BY <1>6, <2>3 DEF Rail
  <2> QED BY <2>4, <2>5 DEF a
<1>7. CASE ~(c.i < Len(Order)) /\ k # "e2"
  BY <1>4, <1>7, NoCycleRail DEF a
<1> QED BY <1>5, <1>6, <1>7

(* The guard rail holds on for a step that asks for nothing and scales      *)
(* nothing, and for one more intent that is allowed.                        *)
LEMMA RailFrames ==
    ASSUME GuardInv, UNCHANGED <<replicas, others>>
    PROVE  /\ pending' \subseteq pending => GuardRail'
           /\ \A intent : Allowed(intent) /\ pending' = pending \cup {intent}
                 => GuardRail'
BY DEF GuardInv, GuardRail, Allowed

(* What analyze recommends, when it is not to leave things as they are, is  *)
(* allowed.                                                                 *)
LEMMA AskedRail ==
    ASSUME LoopInv, GuardInv, NEW k \in Controllers, cycle[k].pc = "act",
           NEW x, x = Order[cycle[k].i],
           NEW n, n = analyze(cycle[k].seen[x], cycle[k].current),
           n # cycle[k].current
    PROVE  /\ [component |-> x, replicas |-> n] \in Intents
           /\ Allowed([component |-> x, replicas |-> n])
<1> DEFINE c == cycle[k]
<1>1. c \in Cycles /\ Rail(k, c) /\ c.pc = "act" /\ c.i \in 1..Len(Order)
  BY DEF GuardInv, Cycled, Railed, LoopInv, Placed
<1>2. c.seen \in [Components -> Loads] /\ c.current \in Nat
  BY <1>1, CycleFields
<1>3. x \in Components
  BY <1>1 DEF Components
<1>4. max_replicas \in Nat /\ max_replicas # 0
  BY LoopAssumption
<1>5. \/ c.seen[x] = "high"
      \/ c.current > max_replicas => c.current <= others[x]
  BY <1>1, <1>3 DEF Rail, Controllers
<1>8. others[x] \in Nat
  BY <1>3, LoopAssumption DEF GuardInv, World
<1>6. n = analyze(c.seen[x], c.current) /\ n # c.current
  OBVIOUS
<1> HIDE DEF c
<1>7. n \in Nat /\ n >= 1 /\ (n > max_replicas => n < others[x])
  BY <1>2, <1>4, <1>5, <1>6, <1>8 DEF analyze
<1> QED BY <1>3, <1>7 DEF Intents, Allowed

(* A step without a fault loses nothing.                                    *)
LEMMA SameBounds ==
    ASSUME GuardInv, UNCHANGED <<lost, faults>>
    PROVE  Bounds'
BY DEF GuardInv, Bounds

(* A fault loses at most one thing for each key.                            *)
LEMMA FaultBounds ==
    ASSUME LoopInv, GuardInv, Fault,
           \A k \in Controllers, x \in Keys :
              lost'[k][x] = lost[k][x] \/ lost'[k][x] = lost[k][x] + 1
    PROVE  Bounds'
<1>1. faults \in Nat /\ faults' = faults + 1 /\ faults' \in 0..MaxFaults
  BY LoopAssumption DEF GuardInv, Bounds, Fault
<1>2. ASSUME NEW k \in Controllers, NEW x \in Keys PROVE lost'[k][x] <= faults'
  <2>1. lost[k][x] \in Nat /\ lost[k][x] <= faults
    BY DEF LoopInv, Counters, GuardInv, Bounds
  <2>2. lost'[k][x] = lost[k][x] \/ lost'[k][x] = lost[k][x] + 1
    OBVIOUS
  <2> QED BY <1>1, <2>1, <2>2
<1> QED BY <1>1, <1>2 DEF Bounds

(* One reply is lost.                                                       *)
LEMMA LostBounds ==
    ASSUME LoopInv, GuardInv, Fault, NEW k \in Controllers, NEW x \in Keys,
           lost' = [lost EXCEPT ![k][x] = @ + 1] \/ UNCHANGED lost
    PROVE  Bounds'
<1>1. ASSUME NEW j \in Controllers, NEW y \in Keys
      PROVE  lost'[j][y] = lost[j][y] \/ lost'[j][y] = lost[j][y] + 1
  <2>1. lost \in [Controllers -> [Keys -> Nat]] /\ lost[k] \in [Keys -> Nat]
    BY DEF LoopInv, Counters
  <2> QED BY <2>1
<1> QED BY <1>1, FaultBounds

(* _post_intent asks for what the rail allows.                              *)
LEMMA PostRail ==
    ASSUME LoopInv, GuardInv, NEW k \in Controllers, NEW x \in Keys, NEW n,
           [component |-> x, replicas |-> n] \in Intents,
           Allowed([component |-> x, replicas |-> n]),
           NEW a \in Cycles, Rail(k, a), Post(k, x, n, a), UNCHANGED <<world, policy>>
    PROVE  GuardInv'
<1>1. pending' \subseteq Intents
  BY DEF Post, GuardInv, World
<1>2. World'
  BY <1>1 DEF GuardInv, World, world
<1>6. GuardRail'
  BY RailFrames DEF Post, world
<1>3. \/ Goto(k, a) /\ UNCHANGED <<lost, faults>>
      \/ /\ Fault /\ Goto(k, NoCycle)
         /\ lost' = [lost EXCEPT ![k][x] = @ + 1] \/ UNCHANGED lost
  BY DEF Post
<1>4. Cycled' /\ Railed'
  BY <1>3, MoveKeeps, NoCycleRail DEF world
<1>5. Bounds'
  BY <1>3, SameBounds, LostBounds
<1> QED BY <1>2, <1>4, <1>5, <1>6 DEF GuardInv

(* act, for both controllers.                                               *)
LEMMA ActRail ==
    ASSUME LoopInv, GuardInv, NEW k \in Controllers, Act(k)
    PROVE  GuardInv'
<1> DEFINE x == Order[cycle[k].i]
           n == analyze(cycle[k].seen[x], cycle[k].current)
           a == Advanced(k)
<1>1. cycle[k].pc = "act" /\ UNCHANGED <<world, policy>>
  BY DEF Act
<1>2. x \in Keys
  BY <1>1 DEF LoopInv, Placed, Keys, Components
<1>3. a \in Cycles /\ Rail(k, a)
  BY <1>1, AdvancedRail
<1>4. n # cycle[k].current =>
         /\ [component |-> x, replicas |-> n] \in Intents
         /\ Allowed([component |-> x, replicas |-> n])
  BY <1>1, AskedRail
<1> HIDE DEF x, n, a
<1>5. CASE Goto(k, a) /\ UNCHANGED <<pending, cooling, since, lost, faults>>
  <2>1. World' /\ UNCHANGED <<replicas, others>>
    BY <1>1, <1>5 DEF GuardInv, World, world
  <2>2. GuardRail'
    BY <1>5, <2>1, RailFrames
  <2> QED BY <1>3, <1>5, <2>1, <2>2, MoveKeeps, SameBounds DEF GuardInv
<1>6. CASE n # cycle[k].current /\ Post(k, x, n, a)
  BY <1>1, <1>2, <1>3, <1>4, <1>6, PostRail
<1> QED BY <1>5, <1>6 DEF Act, x, n, a

(* The start of a cycle and the read of the replicas.                       *)
LEMMA ObserveRail ==
    ASSUME LoopInv, GuardInv, ObserveV2 \/ ObserveE2 \/ GetCurrentReplicas
    PROVE  GuardInv'
<1>0. /\ 1 \in 0..Len(Order) /\ 0 \in Nat /\ "high" \in Loads
      /\ "v2" \in Controllers /\ "e2" \in Controllers
  BY LoopAssumption DEF Loads, Controllers
<1>w. ASSUME UNCHANGED <<world, policy, pending>>
      PROVE  World' /\ GuardRail' /\ UNCHANGED others
  <2>1. World' /\ UNCHANGED <<replicas, others>>
    BY <1>w DEF GuardInv, World, world
  <2> QED BY <1>w, <2>1, RailFrames
<1>f. ASSUME UNCHANGED lost, Fault \/ UNCHANGED faults PROVE Bounds'
  BY <1>f, SameBounds, FaultBounds
<1>1. CASE ObserveV2
  <2> DEFINE total == FoldFunction(+, OtherPods, replicas)
  <2>1. PICK pods \in {0, total} :
          /\ Fault \/ UNCHANGED faults
          /\ Goto("v2", [pc |-> "act", i |-> 1, cqi |-> FALSE,
                         seen |-> [c \in Components |-> "high"],
                         current |-> pods])
    BY <1>1 DEF ObserveV2, Goto
  <2>2. total \in Nat
    BY PodsType DEF GuardInv
  <2> HIDE DEF total
  <2>3. pods \in Nat
    BY <2>1, <2>2
  <2> DEFINE high == [c \in Components |-> "high"]
             a == [pc |-> "act", i |-> 1, seen |-> high, cqi |-> FALSE,
                   current |-> pods]
  <2>4. high \in [Components -> Loads] /\ \A c \in Components : high[c] = "high"
    BY <1>0
  <2>5. Goto("v2", a)
    BY <2>1
  <2>6. a.pc = "act" /\ a.seen = high
    OBVIOUS
  <2> HIDE DEF high
  <2>7. a \in Cycles
    BY <1>0, <2>3, <2>4, CycleMade
  <2> HIDE DEF a
  <2>8. Rail("v2", a)
    BY <2>4, <2>6 DEF Rail
  <2>9. Cycled' /\ Railed'
    BY <1>1, <1>w, <1>0, <2>5, <2>7, <2>8, MoveKeeps DEF ObserveV2
  <2>10. World' /\ GuardRail' /\ Bounds'
    BY <1>1, <1>w, <1>f, <2>1 DEF ObserveV2
  <2> QED BY <2>9, <2>10 DEF GuardInv
<1>2. CASE ObserveE2
  <2> DEFINE a == [pc |-> "read", i |-> 1, seen |-> load, cqi |-> lowCqi,
                   current |-> 0]
  <2>1. Goto("e2", a)
    BY <1>2 DEF ObserveE2, Goto
  <2>2. load \in [Components -> Loads] /\ lowCqi \in BOOLEAN
    BY DEF GuardInv, World
  <2>3. a \in Cycles
    BY <1>0, <2>2, CycleMade
  <2>4. a.pc = "read"
    OBVIOUS
  <2> HIDE DEF a
  <2>5. Rail("e2", a)
    BY <2>4 DEF Rail
  <2>6. Cycled' /\ Railed'
    BY <1>2, <1>w, <1>0, <2>1, <2>3, <2>5, MoveKeeps DEF ObserveE2
  <2>7. World' /\ GuardRail' /\ Bounds'
    BY <1>2, <1>w, <1>f DEF ObserveE2
  <2> QED BY <2>6, <2>7 DEF GuardInv
<1>3. CASE GetCurrentReplicas
  <2> DEFINE c == cycle["e2"]
  <2>1. c \in Cycles /\ c.pc = "read" /\ c.i \in 1..Len(Order)
    BY <1>0, <1>3 DEF GetCurrentReplicas, GuardInv, Cycled, LoopInv, Placed
  <2>2. /\ SpecReplicas(Order[c.i]) \in Nat
        /\ SpecReplicas(Order[c.i]) > max_replicas =>
              SpecReplicas(Order[c.i]) <= others[Order[c.i]]
    <3>1. Order[c.i] \in Components
      BY <2>1 DEF Components
    <3> QED BY <3>1, LoopAssumption
            DEF GuardInv, World, GuardRail, SpecReplicas
  <2>3. PICK m \in {1, SpecReplicas(Order[c.i])} :
          /\ Fault \/ UNCHANGED faults
          /\ cycle' = [cycle EXCEPT !["e2"].pc = "act", !["e2"].current = m]
    BY <1>3 DEF GetCurrentReplicas
  <2>4. m \in Nat /\ (m > max_replicas => m <= others[Order[c.i]])
    BY <2>2, <2>3, LoopAssumption
  <2>5. /\ c = [pc |-> c.pc, i |-> c.i, seen |-> c.seen, cqi |-> c.cqi,
                current |-> c.current]
        /\ c.i \in 0..Len(Order) /\ c.seen \in [Components -> Loads]
        /\ c.cqi \in BOOLEAN
    BY <2>1, CycleFields
  <2> DEFINE a == [pc |-> "act", i |-> c.i, seen |-> c.seen, cqi |-> c.cqi,
                   current |-> m]
  <2>6. [[c EXCEPT !.pc = "act"] EXCEPT !.current = m] = a
    <3> HIDE DEF c
    <3> DEFINE d == [c EXCEPT !.pc = "act"]
    <3>1. d = [pc |-> "act", i |-> c.i, seen |-> c.seen, cqi |-> c.cqi,
               current |-> c.current]
      BY <2>5
    <3> HIDE DEF d
    <3>2. [d EXCEPT !.current = m] = a
      BY <3>1
    <3> QED BY <3>2 DEF d
  <2>7. Goto("e2", a)
    BY <1>0, <2>3, <2>6 DEF GuardInv, Cycled, Goto
  <2>8. a.pc = "act" /\ a.current = m /\ a.i = c.i
    OBVIOUS
  <2>9. a \in Cycles
    <3> HIDE DEF c
    <3> QED BY <2>4, <2>5, CycleMade
  <2> HIDE DEF a
  <2>10. Rail("e2", a)
    BY <2>4, <2>8 DEF Rail
  <2>11. Cycled' /\ Railed'
    BY <1>3, <1>w, <1>0, <2>7, <2>9, <2>10, MoveKeeps DEF GetCurrentReplicas
  <2>12. World' /\ GuardRail' /\ Bounds'
    BY <1>3, <1>w, <1>f, <2>3 DEF GetCurrentReplicas
  <2> QED BY <2>11, <2>12 DEF GuardInv
<1> QED BY <1>1, <1>2, <1>3

(* The traffic steering asks for no replicas.                               *)
LEMMA SteerRail ==
    ASSUME LoopInv, GuardInv, Steer \/ SteerByIntent
    PROVE  GuardInv'
<1>0. "e2" \in Controllers /\ "ts" \in Keys
  BY DEF Controllers, Keys
<1>1. CASE Steer
  <2> DEFINE c == cycle["e2"]
             a == [c EXCEPT !.pc = "fallback"]
  <2>1. c \in Cycles
    BY <1>0 DEF GuardInv, Cycled
  <2>2. a \in Cycles /\ a.pc = "fallback"
    <3>1. /\ c = [pc |-> c.pc, i |-> c.i, seen |-> c.seen, cqi |-> c.cqi,
                  current |-> c.current]
          /\ c.i \in 0..Len(Order) /\ c.seen \in [Components -> Loads]
          /\ c.cqi \in BOOLEAN /\ c.current \in Nat
      BY <2>1, CycleFields
    <3> HIDE DEF c
    <3>2. a = [pc |-> "fallback", i |-> c.i, seen |-> c.seen, cqi |-> c.cqi,
               current |-> c.current]
      BY <3>1
    <3> HIDE DEF a
    <3> QED BY <3>1, <3>2, CycleMade
  <2>3. /\ \/ Goto("e2", NoCycle) /\ UNCHANGED <<lost, faults>>
           \/ Goto("e2", a) /\ UNCHANGED <<lost, faults>>
           \/ /\ Fault /\ Goto("e2", a)
              /\ lost' = [lost EXCEPT !["e2"]["ts"] = @ + 1] \/ UNCHANGED lost
        /\ policy' = TRUE \/ UNCHANGED policy
        /\ UNCHANGED <<world, pending>>
    BY <1>1 DEF Steer
  <2> HIDE DEF a, c
  <2>4. Rail("e2", a)
    BY <2>2 DEF Rail
  <2>5. Cycled' /\ Railed'
    BY <1>0, <2>2, <2>3, <2>4, NoCycleRail, MoveKeeps DEF world
  <2>6. Bounds'
    BY <1>0, <2>3, SameBounds, LostBounds
  <2>7. World' /\ UNCHANGED <<replicas, others>>
    BY <2>3 DEF GuardInv, World, world
  <2>8. GuardRail'
    BY <2>3, <2>7, RailFrames
  <2> QED BY <2>5, <2>6, <2>7, <2>8 DEF GuardInv
<1>2. CASE SteerByIntent
  <2>1. /\ [component |-> "ts", replicas |-> 0] \in Intents
        /\ Allowed([component |-> "ts", replicas |-> 0])
    BY DEF Intents, Allowed
  <2>2. Post("e2", "ts", 0, NoCycle) /\ UNCHANGED <<world, policy>>
    BY <1>2 DEF SteerByIntent
  <2> QED BY <1>0, <2>1, <2>2, NoCycleRail, PostRail
<1> QED BY <1>1, <1>2

(* Time, restarts, deliveries, the load and others.                         *)
LEMMA EnvironmentRail ==
    ASSUME LoopInv, GuardInv,
           \/ \E k \in Controllers :
                 Restart(k) \/ \E x \in Keys : CooldownElapses(k, x)
           \/ \E intent \in pending : Deliver(intent)
           \/ LoadChanges \/ OthersScale
    PROVE  GuardInv'
<1>0. lost \in [Controllers -> [Keys -> Nat]] /\ faults \in Nat
  BY LoopAssumption DEF LoopInv, Counters, GuardInv, Bounds
<1>c. ASSUME UNCHANGED <<cycle, others>> PROVE Cycled' /\ Railed'
  BY <1>c DEF GuardInv, Cycled, Railed, Rail
<1>1. ASSUME NEW k \in Controllers, Restart(k) PROVE GuardInv'
  <2>1. World' /\ GuardRail'
    BY <1>1, RailFrames DEF Restart, GuardInv, World, world
  <2>2. Cycled' /\ Railed'
    BY <1>1, NoCycleRail, MoveKeeps DEF Restart, world
  <2>3. ASSUME NEW j \in Controllers, NEW y \in Keys
        PROVE  lost'[j][y] = lost[j][y] \/ lost'[j][y] = lost[j][y] + 1
    <3>1. lost[j][y] \in Nat
      BY <1>0
    <3>2. lost'[j][y] = IF j = k
                        THEN lost[j][y] + (IF y \in cooling[j] THEN 1 ELSE 0)
                        ELSE lost[j][y]
      BY <1>0, <1>1 DEF Restart
    <3> QED BY <3>1, <3>2
  <2>4. Bounds'
    BY <1>1, <2>3, FaultBounds DEF Restart
  <2> QED BY <2>1, <2>2, <2>4 DEF GuardInv
<1>2. ASSUME NEW k \in Controllers, NEW x \in Keys, CooldownElapses(k, x)
      PROVE  GuardInv'
  <2>1. World' /\ GuardRail'
    BY <1>2, RailFrames DEF CooldownElapses, GuardInv, World, world
  <2>2. Cycled' /\ Railed'
    BY <1>2, <1>c DEF CooldownElapses, world
  <2>3. ASSUME NEW j \in Controllers, NEW y \in Keys PROVE lost'[j][y] <= faults
    <3>1. lost[j] \in [Keys -> Nat] /\ lost[j][y] <= faults
      BY <1>0 DEF GuardInv, Bounds
    <3>2. lost'[j][y] = IF j = k /\ y = x THEN 0 ELSE lost[j][y]
      BY <1>0, <1>2, <3>1 DEF CooldownElapses
    <3> QED BY <1>0, <3>1, <3>2
  <2>4. Bounds'
    BY <1>2, <2>3 DEF CooldownElapses, GuardInv, Bounds
  <2> QED BY <2>1, <2>2, <2>4 DEF GuardInv
<1>3. ASSUME NEW intent \in pending, Deliver(intent) PROVE GuardInv'
  <2>1. intent \in Intents
    BY DEF GuardInv, World
  <2>2. intent.component # "ts" =>
          /\ intent.component \in Components /\ intent.replicas \in Nat
          /\ intent.replicas > max_replicas =>
                intent.replicas < others[intent.component]
    BY <2>1 DEF Intents, GuardInv, GuardRail
  <2>3. replicas' \in [Components -> Nat]
    BY <1>3, <2>2 DEF Deliver, GuardInv, World
  <2>7. ASSUME NEW c \in Components, replicas'[c] > max_replicas
        PROVE  replicas'[c] <= others[c]
    <3>1. others[c] \in Nat /\ replicas[c] \in Nat
      BY LoopAssumption DEF GuardInv, World
    <3>2. \/ replicas'[c] = replicas[c]
          \/ /\ c = intent.component /\ intent.component # "ts"
             /\ replicas'[c] = intent.replicas
      BY <1>3, <2>2 DEF Deliver, GuardInv, World
    <3>3. CASE replicas'[c] = replicas[c]
      BY <2>7, <3>3 DEF GuardInv, GuardRail
    <3>4. CASE c = intent.component /\ intent.component # "ts"
               /\ replicas'[c] = intent.replicas
      BY <2>2, <2>7, <3>1, <3>4
    <3> QED BY <3>2, <3>3, <3>4
  <2>8. GuardRail'
    BY <1>3, <2>7 DEF Deliver, GuardInv, GuardRail
  <2>4. policy' \in BOOLEAN /\ pending' \subseteq Intents
    BY <1>3 DEF Deliver, GuardInv, World
  <2>5. World'
    BY <1>3, <2>3, <2>4 DEF Deliver, GuardInv, World
  <2>6. Cycled' /\ Railed' /\ Bounds'
    BY <1>3, <1>c, SameBounds DEF Deliver
  <2> QED BY <2>5, <2>6, <2>8 DEF GuardInv
<1>4. CASE LoadChanges
  <2>1. load' \in [Components -> Loads] /\ lowCqi' \in BOOLEAN
    BY <1>4 DEF LoadChanges, GuardInv, World
  <2>2. World' /\ GuardRail'
    BY <1>4, <2>1, RailFrames DEF LoadChanges, GuardInv, World
  <2>3. Cycled' /\ Railed'
    BY <1>4, <1>c DEF LoadChanges
  <2>4. Bounds'
    BY <1>4, FaultBounds DEF LoadChanges
  <2> QED BY <2>2, <2>3, <2>4 DEF GuardInv
<1>5. CASE OthersScale
  <2>1. PICK c \in Components, n \in Scales :
          /\ replicas' = [replicas EXCEPT ![c] = n]
          /\ others' = [others EXCEPT ![c] = IF n > @ THEN n ELSE @]
    BY <1>5 DEF OthersScale
  <2>2. /\ n \in Nat
        /\ \A x \in Components :
              /\ others[x] \in Nat /\ others'[x] \in Nat
              /\ others[x] <= others'[x]
              /\ x = c => replicas'[x] = n /\ n <= others'[x]
              /\ x # c => replicas'[x] = replicas[x]
        /\ replicas' \in [Components -> Nat] /\ others' \in [Components -> Scales]
    <3>1. /\ n \in Nat /\ Scales \subseteq Nat
          /\ replicas \in [Components -> Nat] /\ others \in [Components -> Scales]
      BY <2>1, LoopAssumption DEF GuardInv, World
    <3>0. /\ n \in Scales
          /\ \A x \in Components : others[x] \in Scales /\ others[x] \in Nat
      BY <2>1, <3>1
    <3> DEFINE m == IF n > others[c] THEN n ELSE others[c]
    <3>2. m \in Scales /\ m \in Nat /\ n <= m /\ others[c] <= m
      BY <2>1, <3>0, <3>1
    <3>3. others' = [others EXCEPT ![c] = m]
      BY <2>1, <3>1
    <3> HIDE DEF m
    <3>4. \A x \in Components :
             /\ others'[x] = IF x = c THEN m ELSE others[x]
             /\ replicas'[x] = IF x = c THEN n ELSE replicas[x]
      BY <2>1, <3>1, <3>3
    <3>5. replicas' \in [Components -> Nat] /\ others' \in [Components -> Scales]
      BY <2>1, <3>1, <3>2, <3>3
    <3>6. ASSUME NEW x \in Components
          PROVE  /\ others[x] \in Nat /\ others'[x] \in Nat
                 /\ others[x] <= others'[x]
                 /\ x = c => replicas'[x] = n /\ n <= others'[x]
                 /\ x # c => replicas'[x] = replicas[x]
      BY <3>0, <3>2, <3>4
    <3> QED BY <3>1, <3>5, <3>6
  <2>3. World'
    BY <1>5, <2>2 DEF OthersScale, GuardInv, World
  <2>4. ASSUME NEW x \in Components, replicas'[x] > max_replicas
        PROVE  replicas'[x] <= others'[x]
    <3>1. CASE x = c
      BY <2>2, <3>1
    <3>2. CASE x # c
      <4>1. replicas[x] \in Nat /\ replicas'[x] = replicas[x]
        BY <2>2, <3>2 DEF GuardInv, World
      <4>2. replicas[x] <= others[x]
        BY <2>4, <4>1 DEF GuardInv, GuardRail
      <4> QED BY <2>2, <4>1, <4>2
    <3> QED BY <3>1, <3>2
  <2>5. ASSUME NEW intent \in pending', intent.component # "ts"
        PROVE  /\ intent.replicas >= 1
               /\ intent.replicas > max_replicas =>
                     intent.replicas < others'[intent.component]
    <3>1. intent \in pending /\ intent \in Intents
      BY <1>5, <2>5 DEF OthersScale, GuardInv, World
    <3>2. intent.component \in Components /\ intent.replicas \in Nat
      BY <2>5, <3>1 DEF Intents
    <3> QED BY <2>2, <2>5, <3>1, <3>2 DEF GuardInv, GuardRail
  <2>6. GuardRail'
    BY <2>4, <2>5 DEF GuardRail
  <2>7. cycle' = cycle /\ Cycled'
    BY <1>5 DEF OthersScale, GuardInv, Cycled
  <2>8. ASSUME NEW k \in Controllers PROVE Rail(k, cycle[k])'
    <3>1. Rail(k, cycle[k]) /\ cycle[k] \in Cycles
      BY DEF GuardInv, Railed, Cycled
    <3>2. cycle[k].current \in Nat
      BY <3>1, CycleFields
    <3>3. ASSUME k = "e2", cycle[k].pc = "act", cycle[k].current > max_replicas
          PROVE  cycle[k].current <= others'[Order[cycle[k].i]]
      <4>1. Order[cycle[k].i] \in Components
        BY <3>3 DEF LoopInv, Placed, Components
      <4>2. cycle[k].current <= others[Order[cycle[k].i]]
        BY <3>1, <3>3 DEF Rail
      <4> QED BY <2>2, <3>2, <4>1, <4>2
    <3> QED BY <2>7, <3>1, <3>3 DEF Rail
  <2>9. Railed'
    BY <2>8 DEF Railed
  <2>10. Bounds'
    BY <1>5, FaultBounds DEF OthersScale
  <2> QED BY <2>3, <2>6, <2>7, <2>9, <2>10 DEF GuardInv
<1> QED BY <1>1, <1>2, <1>3, <1>4, <1>5

(* The inductive step.                                                      *)
LEMMA NextRail == LoopInv /\ GuardInv /\ [Next]_vars => GuardInv'
<1> SUFFICES ASSUME LoopInv, GuardInv, [Next]_vars PROVE GuardInv'
  OBVIOUS
<1>1. CASE E2Step \/ V2Step
  BY <1>1, ObserveRail, ActRail, SteerRail DEF E2Step, V2Step, Controllers
<1>2. CASE UNCHANGED vars
  BY <1>2 DEF vars, GuardInv, World, GuardRail, Cycled, Railed, Rail, Bounds
<1> QED BY <1>1, <1>2, EnvironmentRail DEF Next

(* The loop starts with any Deployments and nothing lost.                   *)
LEMMA InitRail == Init => GuardInv
<1> SUFFICES ASSUME Init PROVE GuardInv
  OBVIOUS
<1>1. Scales \subseteq Nat /\ 0 \in 0..MaxFaults
  BY LoopAssumption
<1>2. World
  BY <1>1 DEF Init, World
<1>5. GuardRail
  <2>1. others = replicas /\ \A c \in Components : replicas[c] \in Nat
    BY <1>2 DEF Init, World
  <2>2. pending = {}
    BY DEF Init
  <2> QED BY <2>1, <2>2 DEF GuardRail
<1>3. Cycled /\ Railed
  BY NoCycleRail DEF Init, Cycled, Railed
<1>4. Bounds
  BY <1>1 DEF Init, Bounds
<1> QED BY <1>2, <1>3, <1>4, <1>5 DEF GuardInv

(* No step of the loop leads out of its types.                              *)
LEMMA LoopTypes == LoopInv /\ GuardInv => TypeOK
<1> SUFFICES ASSUME LoopInv, GuardInv PROVE TypeOK
  OBVIOUS
<1>1. ASSUME NEW k \in Controllers, NEW x \in Keys
      PROVE  lost[k][x] \in 0..MaxFaults /\ since[k][x] \in 0..MaxFaults + 1
  <2>1. since[k][x] \in Nat /\ lost[k][x] \in Nat
    BY DEF LoopInv, Counters
  <2>2. lost[k][x] <= faults /\ faults \in 0..MaxFaults
    BY DEF GuardInv, Bounds
  <2>3. since[k][x] <= lost[k][x] + 1
    BY <2>1 DEF LoopInv, Paid
  <2> QED BY <2>1, <2>2, <2>3, LoopAssumption
<1>2. /\ lost \in [Controllers -> [Keys -> 0..MaxFaults]]
      /\ since \in [Controllers -> [Keys -> 0..MaxFaults + 1]]
  BY <1>1 DEF LoopInv, Counters
<1> QED BY <1>2 DEF LoopInv, Counters, GuardInv, World, Cycled, Bounds, TypeOK
(* The guard rail of analyzer.py, for any components, any max_replicas and  *)
(* whatever others do to the Deployments: what was read, failed to be read  *)
(* or is delivered late never makes the loop ask for less than one replica, *)
(* nor take a Deployment beyond max_replicas and beyond what others have    *)
(* given it.                                                                *)
THEOREM GuardRailTheorem == Spec => [](TypeOK /\ GuardRail)
<1>1. Init => LoopInv /\ GuardInv
  BY InitLoop, InitRail
<1>2. LoopInv /\ GuardInv /\ [Next]_vars => (LoopInv /\ GuardInv)'
  BY NextKeeps, NextRail
<1>3. LoopInv /\ GuardInv => TypeOK /\ GuardRail
  BY LoopTypes DEF GuardInv
<1> QED BY <1>1, <1>2, <1>3, PTL DEF Spec

-----------------------------------------------------------------------------
(* The other end of the A1 interface: the scaling xApp, which enforces the  *)
(* policies the loop puts.  ScalingXApp has a state of its own; what is     *)
(* proved of it holds for its own specification, whoever puts policies.     *)

(* What the poll holds in its hands at each place.                          *)
InHand ==
    /\ pc \in {"scale", "update"} => cur \in ScalingIds /\ spec \in Specs
    /\ pc = "write" => cur \in TsIds /\ threshold \in Thresholds
    /\ pc = "report" => /\ cur \in Policies
                        /\ cur \in ScalingIds => spec \in Specs

(* The verdict of a poll concerns the policy it has in hand.                *)
XAppInv == XAppTypeOK /\ InHand

(* What EnforcedIsScaled says of one step.                                  *)
Truthful ==
    (pc # "report" /\ pc' = "report" /\ enforced' /\ cur' \in ScalingIds)
      => deployments'[spec'.target] = spec'.replicas

(* No poll is under way in the beginning.                                   *)
LEMMA InitXApp == XAppInit => XAppInv
  BY DEF XAppInit, XAppInv, XAppTypeOK, InHand

(* The steps between two policies, and a restart, hold nothing in hand.     *)
LEMMA PollEmptyHanded ==
    ASSUME XAppInv,
           \/ ListScaling \/ ListScalingFails \/ ScalingDone
           \/ ListTs \/ ListTsFails \/ EvictDeleted
           \/ Tick \/ RestartXApp
    PROVE  XAppInv'
<1>1. pc' \in {"list100", "next100", "list20008", "next20008", "idle"}
  BY DEF ListScaling, ListScalingFails, ScalingDone,
         ListTs, ListTsFails, EvictDeleted, Tick,
         RestartXApp
<1>2. XAppTypeOK'
  BY <1>1 DEF XAppInv, XAppTypeOK, Policies, outside, redis,
         ListScaling, ListScalingFails, ScalingDone,
         ListTs, ListTsFails, EvictDeleted, Tick,
         RestartXApp
<1> QED BY <1>1, <1>2 DEF XAppInv, InHand

(* A policy is taken in hand.                                               *)
LEMMA PollTakesPolicy ==
    ASSUME XAppInv, ScalingIds \cap TsIds = {},
           \/ \E p \in ScalingIds : GetScaling(p)
           \/ \E p \in TsIds : GetTs(p)
    PROVE  XAppInv'
<1>1. ASSUME NEW p \in ScalingIds, GetScaling(p) PROVE XAppInv'
  <2>1. \/ pc' = "scale" /\ cur' = p /\ spec' = scaling[p] /\ scaling[p] # None
        \/ pc' = "next100" /\ UNCHANGED <<cur, spec>>
    BY <1>1 DEF GetScaling
  <2>2. XAppTypeOK'
    BY <1>1, <2>1 DEF GetScaling, XAppInv, XAppTypeOK, Policies,
                      outside, redis
  <2> QED
    BY <2>1, <2>2 DEF XAppInv, XAppTypeOK, InHand
<1>2. ASSUME NEW p \in TsIds, GetTs(p) PROVE XAppInv'
  <2>1. /\ \/ cur' = p /\ threshold' = ts[p] /\ ts[p] # None
           \/ UNCHANGED <<cur, threshold>> /\ pc' = pc
        /\ \/ pc' = pc /\ enforced' = enforced /\ tsCache' = tsCache
           \/ /\ pc' = "report" /\ enforced' = FALSE /\ tsCache' = tsCache
              /\ cur' = p
           \/ /\ pc' = "write" /\ enforced' = enforced /\ cur' = p
              /\ threshold' = ts[p] /\ ts[p] # None
              /\ tsCache' = [tsCache EXCEPT ![p] = ts[p]]
              /\ Valid(ts[p])
        /\ pc = "next20008"
        /\ todo' \subseteq todo
        /\ UNCHANGED <<scaling, ts, deployments, settled, status, tsData,
                       listed, spec, fresh>>
    BY <1>2 DEF GetTs, Verdict, outside, redis
  <2>2. ts[p] # None => ts[p] \in Thresholds
    BY DEF XAppInv, XAppTypeOK
  <2>3. tsCache' \in [TsIds -> {t \in Thresholds : Valid(t)} \cup {None}]
    BY <2>1, <2>2 DEF XAppInv, XAppTypeOK
  <2>4. XAppTypeOK'
    BY <2>1, <2>2, <2>3 DEF XAppInv, XAppTypeOK, Policies
  <2> QED
    BY <2>1, <2>2, <2>4 DEF XAppInv, InHand, Policies
<1> QED BY <1>1, <1>2

(* The Deployment is read, compared and updated; a verdict that the policy  *)
(* is enforced has seen its replicas in place.                              *)
LEMMA PollScales ==
    ASSUME XAppInv, GetDeployment \/ UpdateDeployment
                      \/ DeploymentCallFails
    PROVE  XAppInv' /\ Truthful
<1>1. /\ cur \in ScalingIds /\ spec \in Specs
      /\ UNCHANGED <<cur, spec, scaling, ts, settled, status, tsData, tsCache,
                     todo, listed, threshold>>
  BY DEF XAppInv, InHand, GetDeployment, UpdateDeployment,
         DeploymentCallFails, outside, redis
<1>2. spec.target \in Deployments /\ spec.replicas \in Replicas
  BY <1>1 DEF Specs
<1>3. /\ deployments' \in {deployments,
                           [deployments EXCEPT ![spec.target] = spec.replicas]}
      /\ pc' \in {"report", "update"} /\ fresh' \in BOOLEAN
      /\ enforced' \in BOOLEAN
      /\ pc' = "report" /\ enforced' => deployments'[spec.target] = spec.replicas
  <2>1. /\ fresh \in BOOLEAN /\ enforced \in BOOLEAN
        /\ deployments \in [Deployments -> Replicas \cup {None}]
    BY DEF XAppInv, XAppTypeOK
  <2>2. CASE GetDeployment
    BY <2>1, <2>2 DEF GetDeployment, Verdict, outside
  <2>3. CASE UpdateDeployment
    <3>1. CASE fresh
      BY <1>2, <2>1, <2>3, <3>1 DEF UpdateDeployment, Verdict
    <3>2. CASE ~fresh
      BY <2>1, <2>3, <3>2 DEF UpdateDeployment, Verdict
    <3> QED BY <3>1, <3>2
  <2>4. CASE DeploymentCallFails
    BY <2>1, <2>4 DEF DeploymentCallFails, Verdict
  <2> QED BY <2>2, <2>3, <2>4
<1>4. deployments' \in [Deployments -> Replicas \cup {None}]
  BY <1>2, <1>3 DEF XAppInv, XAppTypeOK
<1>5. XAppTypeOK'
  BY <1>1, <1>3, <1>4 DEF XAppInv, XAppTypeOK
<1>6. InHand'
  BY <1>1, <1>3 DEF InHand, Policies
<1> QED BY <1>1, <1>3, <1>5, <1>6 DEF XAppInv, Truthful

(* The writes to Redis.                                                     *)
LEMMA PollWrites ==
    ASSUME XAppInv, ScalingIds \cap TsIds = {},
           Report \/ ReportFails \/ WriteTsData
    PROVE  XAppInv'
<1>1. CASE Report \/ ReportFails
  <2>1. /\ pc' \in {"next100", "next20008"}
        /\ \/ status' = status
           \/ \E v \in {"ENFORCED", "NOT_ENFORCED"} :
                 status' = [status EXCEPT ![cur] = v]
        /\ UNCHANGED <<scaling, ts, deployments, settled, tsData, tsCache,
                       todo, listed, cur, spec, threshold, fresh, enforced>>
    BY <1>1 DEF Report, ReportFails, Resume, outside,
                redis
  <2>2. status' \in [Policies -> {"ENFORCED", "NOT_ENFORCED", None}]
    BY <2>1 DEF XAppInv, XAppTypeOK
  <2>3. XAppTypeOK'
    BY <2>1, <2>2 DEF XAppInv, XAppTypeOK
  <2> QED BY <2>1, <2>3 DEF XAppInv, InHand
<1>2. CASE WriteTsData
  <2>1. /\ pc' = "report" /\ enforced' = TRUE
        /\ tsData' \in {tsData, [tsData EXCEPT ![cur] = threshold]}
        /\ cur \in TsIds /\ threshold \in Thresholds
        /\ UNCHANGED <<scaling, ts, deployments, settled, status, tsCache,
                       todo, listed, cur, spec, threshold, fresh>>
    BY <1>2 DEF WriteTsData, Verdict, outside, XAppInv, InHand
  <2>2. tsData' \in [TsIds -> Thresholds \cup {None}]
    BY <2>1 DEF XAppInv, XAppTypeOK
  <2>3. XAppTypeOK'
    BY <2>1, <2>2 DEF XAppInv, XAppTypeOK
  <2> QED
    BY <2>1, <2>3 DEF XAppInv, InHand, Policies
<1> QED BY <1>1, <1>2

(* The environment: policies and keys come and go, and whoever changes the  *)
(* Deployment in hand makes what was read of it stale.                      *)
LEMMA EnvironmentKeeps ==
    ASSUME XAppInv, None \notin Specs, Environment
    PROVE  XAppInv'
<1>1. UNCHANGED <<tsCache, pc, todo, listed, cur, spec, threshold, enforced>>
  BY DEF Environment, PutScaling, PutTs, ExpireTs,
         OthersChange, Settle, xapp
<1>2. InHand'
  BY <1>1 DEF XAppInv, InHand, Specs, Policies
<1>3. ASSUME NEW d \in Deployments, OthersChange(d) PROVE XAppInv'
  <2>1. PICK n \in Replicas \cup {None} :
               deployments' = [deployments EXCEPT ![d] = n]
    BY <1>3 DEF OthersChange
  <2>2. /\ fresh' \in BOOLEAN
        /\ UNCHANGED <<scaling, ts, settled, status, tsData>>
    BY <1>3 DEF OthersChange, redis, XAppInv, XAppTypeOK
  <2>3. XAppTypeOK'
    BY <1>1, <2>1, <2>2 DEF XAppInv, XAppTypeOK
  <2> QED BY <1>2, <2>3 DEF XAppInv
<1>4. ASSUME UNCHANGED <<deployments, fresh>>, XAppTypeOK' PROVE XAppInv'
  BY <1>1, <1>2, <1>4 DEF XAppInv
<1>5. ASSUME NEW p \in ScalingIds, PutScaling(p) PROVE XAppInv'
  <2>1. UNCHANGED <<ts, deployments, settled, status, tsData, fresh>>
    BY <1>5 DEF PutScaling, redis
  <2>2. scaling' \in [ScalingIds -> Specs \cup {None}]
    BY <1>5 DEF PutScaling, XAppInv, XAppTypeOK
  <2>3. XAppTypeOK'
    BY <1>1, <2>1, <2>2 DEF XAppInv, XAppTypeOK
  <2> QED BY <1>4, <2>1, <2>3
<1>6. ASSUME NEW p \in TsIds, PutTs(p) PROVE XAppInv'
  <2>1. UNCHANGED <<scaling, deployments, settled, status, tsData, fresh>>
    BY <1>6 DEF PutTs, redis
  <2>2. ts' \in [TsIds -> Thresholds \cup {None}]
    BY <1>6 DEF PutTs, XAppInv, XAppTypeOK
  <2>3. XAppTypeOK'
    BY <1>1, <2>1, <2>2 DEF XAppInv, XAppTypeOK
  <2> QED BY <1>4, <2>1, <2>3
<1>7. ASSUME NEW p \in TsIds, ExpireTs(p) PROVE XAppInv'
  <2>1. UNCHANGED <<scaling, ts, deployments, settled, fresh>>
    BY <1>7 DEF ExpireTs, outside
  <2>2. /\ status' \in [Policies -> {"ENFORCED", "NOT_ENFORCED", None}]
        /\ tsData' \in [TsIds -> Thresholds \cup {None}]
    BY <1>7 DEF ExpireTs, XAppInv, XAppTypeOK
  <2>3. XAppTypeOK'
    BY <1>1, <2>1, <2>2 DEF XAppInv, XAppTypeOK
  <2> QED BY <1>4, <2>1, <2>3
<1>8. CASE Settle
  <2>1. /\ UNCHANGED <<scaling, ts, deployments, status, tsData, fresh>>
        /\ settled' \in BOOLEAN
    BY <1>8 DEF Settle, redis
  <2>2. XAppTypeOK'
    BY <1>1, <2>1 DEF XAppInv, XAppTypeOK
  <2> QED BY <1>4, <2>1, <2>2
<1> QED BY <1>3, <1>5, <1>6, <1>7, <1>8 DEF Environment

(* The invariant of the xApp.                                               *)
LEMMA XAppInvariant == XAppSpec => []XAppInv
<1>1. None \notin Specs /\ ScalingIds \cap TsIds = {}
  BY XAppAssumption
<1>2. XAppInv /\ [XAppNext]_xappVars => XAppInv'
  <2> SUFFICES ASSUME XAppInv, [XAppNext]_xappVars PROVE XAppInv'
    OBVIOUS
  <2>1. CASE UNCHANGED xappVars
    BY <2>1 DEF XAppInv, XAppTypeOK, InHand,
                xappVars, outside, redis, Policies, Specs
  <2>2. CASE Poll
    BY <1>1, <2>2, PollEmptyHanded, PollTakesPolicy, PollScales, PollWrites
       DEF Poll
  <2> QED
    BY <1>1, <2>1, <2>2, PollEmptyHanded, EnvironmentKeeps DEF XAppNext
<1> QED BY <1>2, InitXApp, PTL DEF XAppSpec

(* Type correctness of the xApp; the cache of executeTSPolicy holds valid   *)
(* thresholds only.                                                         *)
THEOREM XAppTypes == XAppSpec => []XAppTypeOK
<1>1. XAppInv => XAppTypeOK
  BY DEF XAppInv
<1> QED BY <1>1, XAppInvariant, PTL

(* No false ENFORCED: for any policies, Deployments and replica counts,     *)
(* whatever failed, changed or expired between two calls of the xApp, at    *)
(* the moment it decides that a policy is enforced the Deployment has the   *)
(* replicas of the policy (executeScalingPolicy, scaleDeployment).          *)
THEOREM EnforcedTheorem == XAppSpec => EnforcedIsScaled
<1>1. XAppInv /\ [XAppNext]_xappVars => [Truthful]_xappVars
  <2> SUFFICES ASSUME XAppInv, XAppNext PROVE Truthful
    BY DEF xappVars
  <2>1. CASE GetDeployment \/ UpdateDeployment \/ DeploymentCallFails
    BY <2>1, PollScales
  <2>2. ASSUME NEW p \in TsIds, GetTs(p) PROVE Truthful
    <3>1. enforced' = FALSE \/ pc' \in {pc, "write"}
      BY <2>2 DEF GetTs, Verdict
    <3> QED BY <3>1 DEF Truthful
  <2>3. CASE WriteTsData
    <3>1. cur' \in TsIds
      BY <2>3 DEF WriteTsData, XAppInv, InHand
    <3> QED BY <3>1, XAppAssumption DEF Truthful
  <2>4. CASE Environment
    BY <2>4 DEF Environment, PutScaling, PutTs, ExpireTs, OthersChange, Settle,
                xapp, Truthful
  <2>5. ASSUME NEW p \in ScalingIds, GetScaling(p) PROVE Truthful
    BY <2>5 DEF GetScaling, Truthful
  <2>6. CASE \/ ListScaling \/ ListScalingFails \/ ScalingDone \/ ListTs
             \/ ListTsFails \/ EvictDeleted \/ Tick \/ RestartXApp
             \/ Report \/ ReportFails
    BY <2>6 DEF ListScaling, ListScalingFails, ScalingDone, ListTs,
                ListTsFails, EvictDeleted, Tick, RestartXApp, Report,
                ReportFails, Resume, Truthful
  <2> QED BY <2>1, <2>2, <2>3, <2>4, <2>5, <2>6 DEF XAppNext, Poll
<1> QED BY <1>1, XAppInvariant, PTL DEF XAppSpec, EnforcedIsScaled, Truthful
=============================================================================
