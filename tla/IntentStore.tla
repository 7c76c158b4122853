----------------------------- MODULE IntentStore -----------------------------
(***************************************************************************)
(* The persistent intent store of intentd/store.py: an in-memory           *)
(* dictionary, a jsonl write-ahead log (WAL) that every operation appends  *)
(* to, and a snapshot file written every SnapshotInterval transitions,     *)
(* after which the WAL is truncated.  A restart reads the snapshot and     *)
(* replays the WAL lines the snapshot does not cover.                      *)
(*                                                                         *)
(* The process may die between any two file operations.  The store lock    *)
(* makes create and transition atomic for other threads, so an operation   *)
(* is one action up to its append, and the snapshot that may follow it is  *)
(* one action per file operation, with the lock still held (pc is not      *)
(* "serving").  Ids are allocated under a different lock, before the store *)
(* lock is taken, so an allocated id waits in `allocated'.                 *)
(***************************************************************************)
EXTENDS IntentStates, FiniteSets

CONSTANTS
  MaxIntents,        \* bound: ids that are ever allocated
  SnapshotInterval,  \* SNAPSHOT_INTERVAL
  MaxRestarts,       \* bound: how often the process dies
  Faults             \* the I/O faults the environment may inject, see below

(***************************************************************************)
(* "snapshot"  writing the snapshot raises, the exception is swallowed     *)
(* "truncate"  truncating the WAL raises, the exception is swallowed       *)
(* "offset"    the process dies, or the rewrite of the snapshot raises,    *)
(*             between the truncation and the rewrite of wal_line_count    *)
(* "torn"      the process dies inside an append and leaves part of a line *)
(* "append"    an append raises (disk full) after the record was changed   *)
(***************************************************************************)
FaultKinds == {"snapshot", "truncate", "offset", "torn", "append"}

ASSUME StoreAssumption ==
  /\ MaxIntents \in Nat
  /\ SnapshotInterval \in Nat \ {0}
  /\ MaxRestarts \in Nat
  /\ Faults \subseteq FaultKinds

Ids == 1..MaxIntents

VARIABLES
  pc,         \* where the process is: see Phases
  intents,    \* _intents, as the history of every id
  seq,        \* _seq_counter
  allocated,  \* ids returned by _next_intent_id whose create has not got the lock
  count,      \* _transition_count
  walLines,   \* _wal_line_count
  skipUntil,  \* _wal_lines_at_snapshot, as _replay_wal reads it
  cursor,     \* WAL lines _replay_wal has read
  index,      \* line_index of _replay_wal
  wal,        \* intents.jsonl: a sequence of lines
  snap,       \* intents.snapshot.json
  restarts,   \* times the process died so far
  seen,       \* history variable: the image of the store clients could read last
  images      \* history variable: images[k + 1] is what the first k lines of the
              \* WAL make of images[1], the image at the last truncation

memory == <<intents, seq, allocated, count, walLines, skipUntil, cursor, index>>
disk   == <<wal, snap>>
vars   == <<pc, memory, disk, restarts, seen, images>>

Serving == {"serving", "snapshot", "truncate", "offset"}
Phases  == Serving \cup {"down", "replay"}

NoIntents == [i \in Ids |-> NoHistory]
Images    == [Ids -> Histories]

\* A WAL line.  A create line carries the record, whose history is just
\* "acknowledged".  "torn" is the rest of an append that was cut short: it has no
\* newline.  Both it and a "corrupt" line are no JSON.
CreateLine(i)        == [op |-> "create", id |-> i, to |-> "acknowledged"]
TransitionLine(i, s) == [op |-> "transition", id |-> i, to |-> s]
TornLine             == [op |-> "torn"]
CorruptLine          == [op |-> "corrupt"]
Entries == [op : {"create", "transition"}, id : Ids, to : States]
Lines   == Entries \cup {TornLine, CorruptLine}

\* The snapshot file; version 0 stands for a file that does not exist.
NoSnapshot == [version |-> 0]
Snapshots  == [version : {1}, intents : Images, seq : Nat, count : Nat, walLines : Nat]
                \cup {NoSnapshot}

-----------------------------------------------------------------------------

\* What replaying one WAL entry does to the dictionary: a create line stores its
\* record, a transition line extends the history of a known intent and is skipped
\* for an unknown one; a line that is no JSON does nothing.
Apply(image, line) ==
  IF line.op = "create"
    THEN [image EXCEPT ![line.id] = <<line.to>>]
    ELSE IF line.op = "transition" /\ image[line.id] # NoHistory
           THEN [image EXCEPT ![line.id] = Append(@, line.to)]
           ELSE image

\* Bytes appended to a file whose last line has no newline continue that line.
Glued == wal # <<>> /\ wal[Len(wal)] = TornLine

\* _append_log: one more line at the end of the WAL, and what replay will make of
\* it.  A line glued to a torn one is lost with it.
AppendLog(line) ==
  /\ wal' = IF Glued THEN [wal EXCEPT ![Len(wal)] = CorruptLine] ELSE Append(wal, line)
  /\ images' = IF Glued THEN images
               ELSE Append(images, Apply(images[Len(images)], line))
  /\ walLines' = walLines + 1

\* A fresh process: __init__ before _load.
ResetMemory ==
  /\ intents' = NoIntents
  /\ seq' = 0
  /\ allocated' = {}
  /\ count' = 0
  /\ walLines' = 0
  /\ skipUntil' = 0
  /\ cursor' = 0
  /\ index' = 0

Init ==
  /\ pc = "down"
  /\ intents = NoIntents
  /\ seq = 0
  /\ allocated = {}
  /\ count = 0
  /\ walLines = 0
  /\ skipUntil = 0
  /\ cursor = 0
  /\ index = 0
  /\ wal = <<>>
  /\ snap = NoSnapshot
  /\ restarts = 0
  /\ seen = NoIntents
  /\ images = <<NoIntents>>

-----------------------------------------------------------------------------
(* Operations of a running store.                                          *)

\* _next_intent_id: under _seq_lock only, so also while another thread holds the
\* store lock for a snapshot.
NextIntentId ==
  /\ pc \in Serving
  /\ seq < MaxIntents
  /\ seq' = seq + 1
  /\ allocated' = allocated \cup {seq + 1}
  /\ UNCHANGED <<pc, intents, count, walLines, skipUntil, cursor, index, disk,
                 restarts, seen, images>>

\* create, from the moment it has the store lock.
Create(i) ==
  /\ pc = "serving"
  /\ i \in allocated
  /\ allocated' = allocated \ {i}
  /\ intents' = [intents EXCEPT ![i] = <<"acknowledged">>]
  /\ seen' = intents'
  /\ AppendLog(CreateLine(i))
  /\ UNCHANGED <<pc, seq, count, skipUntil, cursor, index, snap, restarts>>

\* The check of transition: InvalidTransition and KeyError change nothing.
CanTransition(i, s) ==
  /\ intents[i] # NoHistory
  /\ s \in Forward[StateOf(intents[i])]

\* transition (and cancel, which is transition to "cancelled"): the record first,
\* then the log, then the counter that decides whether a snapshot follows.
Transition(i, s) ==
  /\ pc = "serving"
  /\ CanTransition(i, s)
  /\ intents' = [intents EXCEPT ![i] = Append(@, s)]
  /\ seen' = intents'
  /\ AppendLog(TransitionLine(i, s))
  /\ count' = count + 1
  /\ pc' = IF (count + 1) % SnapshotInterval = 0 THEN "snapshot" ELSE "serving"
  /\ UNCHANGED <<seq, allocated, skipUntil, cursor, index, snap, restarts>>

\* The append of a transition raises: the record has been changed and can be read,
\* the log has not, and the counter is not reached.
TransitionAppendFails(i, s) ==
  /\ "append" \in Faults
  /\ pc = "serving"
  /\ CanTransition(i, s)
  /\ intents' = [intents EXCEPT ![i] = Append(@, s)]
  /\ seen' = intents'
  /\ UNCHANGED <<pc, seq, allocated, count, walLines, skipUntil, cursor, index,
                 disk, restarts, images>>

\* The same for create.
CreateAppendFails(i) ==
  /\ "append" \in Faults
  /\ pc = "serving"
  /\ i \in allocated
  /\ allocated' = allocated \ {i}
  /\ intents' = [intents EXCEPT ![i] = <<"acknowledged">>]
  /\ seen' = intents'
  /\ UNCHANGED <<pc, seq, count, walLines, skipUntil, cursor, index, disk,
                 restarts, images>>

-----------------------------------------------------------------------------
(* The snapshot and the compaction, with the store lock held.              *)
\* _write_snapshot up to the rename, which replaces the old snapshot atomically.
WriteSnapshot ==
  /\ pc = "snapshot"
  /\ snap' = [version |-> 1, intents |-> intents, seq |-> seq,
              count |-> count, walLines |-> walLines]
  /\ pc' = "truncate"
  /\ UNCHANGED <<memory, wal, restarts, seen, images>>

\* The snapshot cannot be written: logged, and the transition returns.
WriteSnapshotFails ==
  /\ "snapshot" \in Faults
  /\ pc = "snapshot"
  /\ pc' = "serving"
  /\ UNCHANGED <<memory, disk, restarts, seen, images>>

\* _compact_wal: the WAL becomes the empty file.
CompactWal ==
  /\ pc = "truncate"
  /\ wal' = <<>>
  /\ images' = <<images[Len(images)]>>
  /\ walLines' = 0
  /\ pc' = "offset"
  /\ UNCHANGED <<intents, seq, allocated, count, skipUntil, cursor, index, snap,
                 restarts, seen>>

\* The WAL cannot be truncated: logged as non-fatal.
CompactWalFails ==
  /\ "truncate" \in Faults
  /\ pc = "truncate"
  /\ pc' = "serving"
  /\ UNCHANGED <<memory, disk, restarts, seen, images>>

\* _update_snapshot_wal_offset: the snapshot again, with wal_line_count 0.
UpdateSnapshotOffset ==
  /\ pc = "offset"
  /\ snap' = [snap EXCEPT !.walLines = 0]
  /\ pc' = "serving"
  /\ UNCHANGED <<memory, wal, restarts, seen, images>>

\* The rewrite raises: logged as non-fatal, and the snapshot keeps its old offset.
UpdateSnapshotOffsetFails ==
  /\ "offset" \in Faults
  /\ pc = "offset"
  /\ pc' = "serving"
  /\ UNCHANGED <<memory, disk, restarts, seen, images>>

-----------------------------------------------------------------------------
(* Crash and recovery.                                                     *)

\* The process dies; only the two files survive.
Crash ==
  /\ pc # "down"
  /\ pc = "offset" => "offset" \in Faults
  /\ restarts < MaxRestarts
  /\ restarts' = restarts + 1
  /\ pc' = "down"
  /\ ResetMemory
  /\ UNCHANGED <<disk, seen, images>>

\* The process dies while an append is being written out.
CrashInAppend ==
  /\ "torn" \in Faults
  /\ pc = "serving"
  /\ allocated # {} \/ \E i \in Ids, s \in States : CanTransition(i, s)
  /\ restarts < MaxRestarts
  /\ restarts' = restarts + 1
  /\ pc' = "down"
  /\ ResetMemory
  /\ wal' = IF Glued THEN wal ELSE Append(wal, TornLine)
  /\ images' = IF Glued THEN images ELSE Append(images, images[Len(images)])
  /\ UNCHANGED <<snap, seen>>
\* Mutant of LoadSnapshot: the offset of the snapshot is not read back.
LoadSnapshotReplayAll ==
  /\ pc = "down"
  /\ pc' = "replay"
  /\ IF snap.version = 1
       THEN intents' = snap.intents /\ seq' = snap.seq /\ count' = snap.count
       ELSE UNCHANGED <<intents, seq, count>>
  /\ UNCHANGED <<skipUntil, allocated, walLines, cursor, index, disk, restarts, seen, images>>

\* _load_snapshot, in a process that has just started.
LoadSnapshot ==
  /\ pc = "down"
  /\ pc' = "replay"
  /\ IF snap.version = 1
       THEN /\ intents' = snap.intents
            /\ seq' = snap.seq
            /\ count' = snap.count
            /\ skipUntil' = snap.walLines
       ELSE UNCHANGED <<intents, seq, count, skipUntil>>
  /\ UNCHANGED <<allocated, walLines, cursor, index, disk, restarts, seen, images>>
\* Mutant of ReplayLine: < for <=, so the last covered line is applied again.
ReplayLineOffByOne ==
  /\ pc = "replay"
  /\ cursor < Len(wal)
  /\ cursor' = cursor + 1
  /\ IF wal[cursor + 1] \in {TornLine, CorruptLine}
       THEN UNCHANGED <<intents, index>>
       ELSE /\ index' = index + 1
            /\ intents' = IF index + 1 < skipUntil THEN intents
                          ELSE Apply(intents, wal[cursor + 1])
  /\ UNCHANGED <<pc, seq, allocated, count, walLines, skipUntil, disk, restarts,
                 seen, images>>

\* One turn of the loop of _replay_wal.  A line that is no JSON is not counted; of
\* the others the first skipUntil are covered by the snapshot.
ReplayLine ==
  /\ pc = "replay"
  /\ cursor < Len(wal)
  /\ cursor' = cursor + 1
  /\ IF wal[cursor + 1] \in {TornLine, CorruptLine}
       THEN UNCHANGED <<intents, index>>
       ELSE /\ index' = index + 1
            /\ intents' = IF index + 1 <= skipUntil THEN intents
                          ELSE Apply(intents, wal[cursor + 1])
  /\ UNCHANGED <<pc, seq, allocated, count, walLines, skipUntil, disk, restarts,
                 seen, images>>
\* Mutant of FinishLoad: the counter is not moved up (no _init_seq_from_existing).
FinishLoadKeepsSeq ==
  /\ pc = "replay"
  /\ cursor = Len(wal)
  /\ walLines' = index
  /\ cursor' = 0
  /\ index' = 0
  /\ pc' = "serving"
  /\ UNCHANGED <<intents, seq, allocated, count, skipUntil, disk, restarts, seen, images>>

\* The end of _replay_wal, and _init_seq_from_existing: the counter moves up to the
\* highest id that was loaded.  The store is ready.
FinishLoad ==
  /\ pc = "replay"
  /\ cursor = Len(wal)
  /\ walLines' = index
  /\ LET known == {i \in Ids : intents[i] # NoHistory} \cup {seq}
     IN  \E m \in known : (\A i \in known : i <= m) /\ seq' = m
  /\ cursor' = 0
  /\ index' = 0
  /\ pc' = "serving"
  /\ UNCHANGED <<intents, allocated, count, skipUntil, disk, restarts, seen, images>>

-----------------------------------------------------------------------------

Operate == \/ NextIntentId
           \/ \E i \in Ids :
                \/ Create(i)
                \/ CreateAppendFails(i)
                \/ \E s \in States : Transition(i, s) \/ TransitionAppendFails(i, s)

Snapshot == \/ WriteSnapshot
            \/ WriteSnapshotFails
            \/ CompactWal
            \/ CompactWalFails
            \/ UpdateSnapshotOffset
            \/ UpdateSnapshotOffsetFails

Recover == LoadSnapshot \/ ReplayLine \/ FinishLoad

Next == Operate \/ Snapshot \/ Crash \/ CrashInAppend \/ Recover

Spec == Init /\ [][Next]_vars

-----------------------------------------------------------------------------
(* Properties.                                                             *)

\* Type correctness of the dictionary, the counters, the two files and the two
\* history variables of store.py.
TypeOK ==
  /\ pc \in Phases
  /\ intents \in Images
  /\ seq \in Nat
  /\ allocated \subseteq Ids
  /\ count \in Nat
  /\ walLines \in Nat
  /\ skipUntil \in Nat
  /\ cursor \in 0..Len(wal)
  /\ index \in 0..cursor
  /\ wal \in Seq(Lines)
  /\ snap \in Snapshots
  /\ restarts \in Nat
  /\ seen \in Images
  /\ images \in Seq(Images)

\* Durability: whenever the store serves requests, its dictionary is exactly what
\* clients could read before, whatever crashes, snapshots and compactions came in
\* between (_load, "snapshot -> replay WAL entries after snapshot").
Durable == pc \in Serving => intents = seen

\* Ids are fresh: an id that is allocated, or will be allocated next, was never
\* given to an intent a client has seen (_init_seq_from_existing, "to prevent ID
\* collision"), even though the counter lives in memory and the id is taken outside
\* the store lock.
FreshIds ==
  pc \in Serving => /\ \A i \in allocated : seen[i] = NoHistory /\ i <= seq
                    /\ \A i \in Ids : i > seq => seen[i] = NoHistory

\* Whatever goes wrong with the files, recovery may lose entries but never invents,
\* repeats or reorders them: a served history starts at "acknowledged", moves
\* strictly forward in the order of the pipeline and has nothing after a terminal
\* state (_replay_wal: skipped lines, lines of unknown intents, reused ids).
Rank(s) == CASE s = "acknowledged" -> 0
             [] s = "planning"     -> 1
             [] s = "validating"   -> 2
             [] s = "generating"   -> 3
             [] s = "executing"    -> 4
             [] s = "proposed"     -> 5
             [] s = "applied"      -> 6
             [] s \in Terminal     -> 7

OrderlyHistories ==
  pc \in Serving =>
    \A i \in Ids : LET h == intents[i] IN
      /\ h # NoHistory => h[1] = "acknowledged"
      /\ \A k \in 1..(Len(h) - 1) : Rank(h[k]) < Rank(h[k + 1])

\* Whatever was lost before, a running process never overwrites or rewinds a record
\* it holds: every step it takes on its dictionary creates an unknown intent or
\* moves one intent along _FORWARD_TRANSITIONS (create with an id that may have been
\* handed out before the crash, transition).
ServedStep ==
  \/ UNCHANGED intents
  \/ \E i \in Ids : /\ intents[i] = NoHistory
                    /\ intents' = [intents EXCEPT ![i] = <<"acknowledged">>]
  \/ \E i \in Ids, s \in States : /\ CanTransition(i, s)
                                 /\ intents' = [intents EXCEPT ![i] = Append(@, s)]
ServedStepsLegal == [][(pc \in Serving /\ pc' \in Serving) => ServedStep]_vars

\* Why recovery works (the inductive core of Durable): on disk, the image after
\* each WAL line is the replay of that line; the snapshot is the image after the
\* lines it claims to cover; a serving process agrees with the last image and with
\* the length of the WAL, and a replaying one with the image it has reached.  The
\* snapshot's claim is false in one place only: between the truncation of the WAL
\* and the rewrite of wal_line_count, where it still counts the lines removed.
Replayed == IF cursor >= skipUntil THEN cursor ELSE skipUntil

LogInv ==
  /\ Len(images) = Len(wal) + 1
  /\ \A k \in 1..Len(wal) : wal[k] \in Entries /\ images[k + 1] = Apply(images[k], wal[k])
  /\ seen = images[Len(images)]
  /\ snap.version = 1 /\ pc # "offset" => /\ snap.walLines <= Len(wal)
                                     /\ snap.intents = images[snap.walLines + 1]
  /\ snap.version = 1 /\ pc = "offset" => snap.intents = seen
  /\ snap.version = 0 => images[1] = NoIntents
  /\ pc \in Serving => intents = seen /\ walLines = Len(wal)
  /\ pc = "truncate" => snap.walLines = Len(wal)
  /\ pc = "offset" => wal = <<>> /\ snap.version = 1
  /\ pc = "replay" => /\ index = cursor
                      /\ skipUntil = (IF snap.version = 1 THEN snap.walLines ELSE 0)
                      /\ intents = images[Replayed + 1]
  /\ pc \notin Serving => allocated = {}
  /\ pc = "down" => intents = NoIntents /\ skipUntil = 0
  /\ pc # "replay" => cursor = 0 /\ index = 0

\* The store implements the life cycle: no client ever sees an intent's history
\* shrink, fork or leave the state machine, over any number of restarts.
Lifecycle == INSTANCE IntentLifecycle WITH life <- seen
ImplementsLifecycle == Lifecycle!Spec

-----------------------------------------------------------------------------
(* A promise of a comment that the code does not keep (see the README).    *)

\* "Snapshot ...: full state, written every SNAPSHOT_INTERVAL transitions": with no
\* I/O error the WAL never holds more transitions than one interval.
SnapshotOnSchedule ==
  Cardinality({k \in 1..Len(wal) : wal[k].op = "transition"}) <= SnapshotInterval
=============================================================================
