---------------------------- MODULE MCIntentStore ----------------------------
(***************************************************************************)
(* Instances of IntentStore for TLC: with the faults the code claims to    *)
(* tolerate, with all of them, and with one kind at a time.                *)
(***************************************************************************)
EXTENDS IntentStore

\* The swallowed exceptions of _write_snapshot and _compact_wal.
ToleratedFaults == {"snapshot", "truncate"}

CONSTANTS
  MaxTransitions,   \* bound: transitions of all intents clients can have seen
  MaxLog            \* bound: lines of the WAL

\* The search stops at these bounds; both leave room for two snapshots and for
\* replaying lines on both sides of a snapshot's offset.
FewTransitions ==
  LET made(i) == IF seen[i] = NoHistory THEN 0 ELSE Len(seen[i]) - 1
  IN  made(1) + made(2) <= MaxTransitions
ShortLog == Len(wal) <= MaxLog
=============================================================================
