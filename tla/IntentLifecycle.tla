--------------------------- MODULE IntentLifecycle ---------------------------
(***************************************************************************)
(* What the intent store promises its clients, without files, locks or     *)
(* restarts: every intent has one history, which starts at "acknowledged"  *)
(* and from then on only grows, along the transitions of the state         *)
(* machine.  A crash, a restart, a snapshot or a log compaction is a       *)
(* stuttering step here.                                                   *)
(***************************************************************************)
EXTENDS IntentStates

CONSTANT Ids          \* the intent ids that can be handed out

VARIABLE life         \* life[i]: the history of intent i that clients have seen

Init == life = [i \in Ids |-> NoHistory]

\* store.create(): an id that was never used becomes an acknowledged intent.
Create(i) ==
  /\ life[i] = NoHistory
  /\ life' = [life EXCEPT ![i] = <<"acknowledged">>]

\* store.transition(): one step along the state machine.
Transition(i, s) ==
  /\ life[i] # NoHistory
  /\ s \in Forward[StateOf(life[i])]
  /\ life' = [life EXCEPT ![i] = Append(@, s)]

Next == \E i \in Ids : Create(i) \/ \E s \in States : Transition(i, s)

Spec == Init /\ [][Next]_life
=============================================================================
