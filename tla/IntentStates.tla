---------------------------- MODULE IntentStates ----------------------------
(***************************************************************************)
(* The vocabulary of the intent state machine of intentd/store.py: the     *)
(* states an intent can be in, the transitions the store accepts and the   *)
(* TMF921 compliance state a report derives from them.  Constant-level     *)
(* only; the store, the pipeline and the abstract life cycle extend it.    *)
(***************************************************************************)
EXTENDS Naturals, Sequences

\* _FORWARD_TRANSITIONS: the states IntentState.valid_next() allows after each
\* state.  The three terminal states allow none.
Forward ==
  [acknowledged |-> {"planning", "cancelled", "failed"},
   planning     |-> {"validating", "failed"},
   validating   |-> {"generating", "failed"},
   generating   |-> {"executing", "failed"},
   executing    |-> {"proposed", "failed"},
   proposed     |-> {"applied", "failed"},
   applied      |-> {"completed", "failed"},
   completed    |-> {},
   failed       |-> {},
   cancelled    |-> {}]

\* class IntentState.
States == DOMAIN Forward

\* The states build_report calls terminal.
Terminal == {"completed", "failed", "cancelled"}

\* The history of an intent is the sequence of the states it went through: the
\* "to" fields of rec["history"].  rec["state"] is always the last of them, and
\* an intent the store does not know has the empty history.
Histories == Seq(States)
NoHistory == <<>>
StateOf(h) == h[Len(h)]
=============================================================================
