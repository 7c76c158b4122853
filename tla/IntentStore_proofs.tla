-------------------------- MODULE IntentStore_proofs --------------------------
(***************************************************************************)
(* Proofs about the intent store, for any number of intents and restarts   *)
(* and any snapshot interval.                                              *)
(***************************************************************************)
EXTENDS IntentStore, SequenceTheorems, TLAPS

\* _FORWARD_TRANSITIONS only leads to states of the machine.
LEMMA ForwardStates ==
  /\ "acknowledged" \in States
  /\ \A s \in States : Forward[s] \subseteq States
BY DEF Forward, States

\* Replaying a line (the body of the loop of _replay_wal) maps a dictionary to a
\* dictionary.
LEMMA ApplyType ==
  ASSUME NEW image \in Images, NEW line \in Lines
  PROVE  Apply(image, line) \in Images
<1>1. CASE line \in Entries
  <2>1. /\ line.op \in {"create", "transition"}
        /\ line.id \in Ids
        /\ line.to \in States
    BY <1>1 DEF Entries
  <2>2. CASE line.op = "create"
    <3>1. Apply(image, line) = [image EXCEPT ![line.id] = <<line.to>>]
      BY <2>2 DEF Apply
    <3>2. <<line.to>> \in Histories
      BY <2>1 DEF Histories
    <3> QED
      BY <2>1, <3>1, <3>2 DEF Images
  <2>3. CASE line.op = "transition" /\ image[line.id] # NoHistory
    <3>1. Apply(image, line) = [image EXCEPT ![line.id] = Append(@, line.to)]
      BY <2>3 DEF Apply
    <3>2. Append(image[line.id], line.to) \in Histories
      BY <2>1 DEF Histories, Images
    <3> QED
      BY <2>1, <3>1, <3>2 DEF Images
  <2>4. CASE ~(line.op = "create") /\ ~(line.op = "transition" /\ image[line.id] # NoHistory)
    BY <2>4 DEF Apply
  <2> QED
    BY <2>2, <2>3, <2>4
<1>2. CASE line \in {TornLine, CorruptLine}
  BY <1>2 DEF Apply, TornLine, CorruptLine
<1> QED
  BY <1>1, <1>2 DEF Lines

-----------------------------------------------------------------------------
\* What type correctness needs besides TypeOK: the image list is never empty,
\* a compaction only runs after a snapshot was written, and the replay variables
\* are at rest outside _replay_wal.
TypeInv ==
  /\ TypeOK
  /\ Len(images) >= 1
  /\ pc \in {"truncate", "offset"} => snap.version = 1
  /\ pc # "replay" => cursor = 0 /\ index = 0

\* Appending a line (_append_log) keeps the WAL and its images typed.
LEMMA AppendLogType ==
  ASSUME TypeInv, NEW line \in Entries, AppendLog(line)
  PROVE  /\ wal' \in Seq(Lines)
         /\ images' \in Seq(Images)
         /\ Len(images') >= 1
         /\ walLines' \in Nat
<1>1. /\ wal \in Seq(Lines) /\ images \in Seq(Images) /\ Len(images) \in Nat
      /\ Len(images) >= 1 /\ walLines \in Nat
  BY DEF TypeInv, TypeOK
<1>2. line \in Lines /\ CorruptLine \in Lines
  BY DEF Lines
<1>3. images[Len(images)] \in Images
  BY <1>1
<1>4. Apply(images[Len(images)], line) \in Images
  BY <1>2, <1>3, ApplyType
<1>5. walLines' \in Nat
  BY <1>1 DEF AppendLog
<1>6. CASE Glued
  <2>1. wal' = [wal EXCEPT ![Len(wal)] = CorruptLine] /\ images' = images
    BY <1>6 DEF AppendLog
  <2>2. Len(wal) \in 1..Len(wal)
    BY <1>1, <1>6, EmptySeq DEF Glued
  <2>3. wal' \in Seq(Lines)
    BY <1>1, <1>2, <2>1, <2>2, ExceptSeq
  <2> QED
    BY <1>1, <1>5, <2>1, <2>3
<1>7. CASE ~Glued
  <2>1. /\ wal' = Append(wal, line)
        /\ images' = Append(images, Apply(images[Len(images)], line))
    BY <1>7 DEF AppendLog
  <2> QED
    BY <1>1, <1>2, <1>4, <1>5, <2>1
<1> QED
  BY <1>6, <1>7

\* The store starts well-typed.
LEMMA InitTypeInv == Init => TypeInv
<1> SUFFICES ASSUME Init PROVE TypeInv
  OBVIOUS
<1>1. NoIntents \in Images
  BY DEF NoIntents, Images, NoHistory, Histories
<1>2. snap \in Snapshots
  BY DEF Init, Snapshots
<1>3. <<NoIntents>> \in Seq(Images) /\ Len(<<NoIntents>>) = 1
  BY <1>1
<1>4. wal \in Seq(Lines) /\ Len(wal) = 0
  BY DEF Init
<1> QED
  BY <1>1, <1>2, <1>3, <1>4 DEF Init, TypeInv, TypeOK, Phases, Serving

\* A process that has just died, or is about to load, has typed memory.
LEMMA ResetMemoryType ==
  ASSUME ResetMemory, wal' \in Seq(Lines)
  PROVE  /\ intents' \in Images /\ seq' \in Nat /\ allocated' \subseteq Ids
         /\ count' \in Nat /\ walLines' \in Nat /\ skipUntil' \in Nat
         /\ cursor' \in 0..Len(wal') /\ index' \in 0..cursor'
         /\ cursor' = 0 /\ index' = 0
<1>1. NoIntents \in Images
  BY DEF NoIntents, Images, NoHistory, Histories
<1>2. Len(wal') \in Nat
  BY LenProperties
<1> QED
  BY <1>1, <1>2 DEF ResetMemory

\* Every step keeps the store well-typed, under every fault.
LEMMA NextTypeInv == TypeInv /\ [Next]_vars => TypeInv'
<1> SUFFICES ASSUME TypeInv, [Next]_vars PROVE TypeInv'
  OBVIOUS
<1> USE StoreAssumption
<1>0. /\ pc \in Phases /\ intents \in Images /\ seq \in Nat /\ allocated \subseteq Ids
      /\ count \in Nat /\ walLines \in Nat /\ skipUntil \in Nat
      /\ cursor \in 0..Len(wal) /\ index \in 0..cursor /\ wal \in Seq(Lines)
      /\ Len(wal) \in Nat
      /\ snap \in Snapshots /\ restarts \in Nat /\ seen \in Images
      /\ images \in Seq(Images) /\ Len(images) \in Nat /\ Len(images) >= 1
      /\ images[Len(images)] \in Images
      /\ pc \in {"truncate", "offset"} => snap.version = 1
      /\ pc # "replay" => cursor = 0 /\ index = 0
  BY DEF TypeInv, TypeOK
<1>1. CASE NextIntentId
  <2>1. seq + 1 \in Ids
    BY <1>0, <1>1 DEF NextIntentId, Ids
  <2> QED
    BY <1>0, <1>1, <2>1 DEF NextIntentId, disk, TypeInv, TypeOK, Phases, Serving
<1>2. ASSUME NEW i \in Ids, Create(i) PROVE TypeInv'
  <2>1. CreateLine(i) \in Entries
    BY ForwardStates DEF CreateLine, Entries
  <2>2. AppendLog(CreateLine(i))
    BY <1>2 DEF Create
  <2>3. /\ wal' \in Seq(Lines) /\ images' \in Seq(Images)
        /\ Len(images') >= 1 /\ walLines' \in Nat
    BY <2>1, <2>2, AppendLogType
  <2>4. <<"acknowledged">> \in Histories
    BY ForwardStates DEF Histories
  <2>5. intents' \in Images
    BY <1>0, <1>2, <2>4 DEF Create, Images
  <2>6. Len(wal') \in Nat
    BY <2>3, LenProperties
  <2> QED
    BY <1>0, <1>2, <2>3, <2>5, <2>6 DEF Create, TypeInv, TypeOK, Phases, Serving
<1>3. ASSUME NEW i \in Ids, CreateAppendFails(i) PROVE TypeInv'
  <2>1. <<"acknowledged">> \in Histories
    BY ForwardStates DEF Histories
  <2>2. intents' \in Images
    BY <1>0, <1>3, <2>1 DEF CreateAppendFails, Images
  <2> QED
    BY <1>0, <1>3, <2>2 DEF CreateAppendFails, disk, TypeInv, TypeOK, Phases, Serving
<1>4. ASSUME NEW i \in Ids, NEW s \in States, Transition(i, s) PROVE TypeInv'
  <2>1. TransitionLine(i, s) \in Entries
    BY DEF TransitionLine, Entries
  <2>2. AppendLog(TransitionLine(i, s))
    BY <1>4 DEF Transition
  <2>3. /\ wal' \in Seq(Lines) /\ images' \in Seq(Images)
        /\ Len(images') >= 1 /\ walLines' \in Nat
    BY <2>1, <2>2, AppendLogType
  <2>4. Append(intents[i], s) \in Histories
    BY <1>0 DEF Images, Histories
  <2>5. intents' \in Images
    BY <1>0, <1>4, <2>4 DEF Transition, Images
  <2>6. Len(wal') \in Nat
    BY <2>3, LenProperties
  <2> QED
    BY <1>0, <1>4, <2>3, <2>5, <2>6 DEF Transition, TypeInv, TypeOK, Phases, Serving
<1>5. ASSUME NEW i \in Ids, NEW s \in States, TransitionAppendFails(i, s) PROVE TypeInv'
  <2>1. Append(intents[i], s) \in Histories
    BY <1>0 DEF Images, Histories
  <2>2. intents' \in Images
    BY <1>0, <1>5, <2>1 DEF TransitionAppendFails, Images
  <2> QED
    BY <1>0, <1>5, <2>2 DEF TransitionAppendFails, disk, TypeInv, TypeOK, Phases, Serving
<1>6. CASE WriteSnapshot
  <2>1. snap' \in Snapshots /\ snap'.version = 1
    BY <1>0, <1>6 DEF WriteSnapshot, Snapshots
  <2> QED
    BY <1>0, <1>6, <2>1 DEF WriteSnapshot, memory, TypeInv, TypeOK, Phases, Serving
<1>7. CASE WriteSnapshotFails \/ CompactWalFails \/ UpdateSnapshotOffsetFails
  BY <1>0, <1>7 DEF WriteSnapshotFails, CompactWalFails, UpdateSnapshotOffsetFails,
     memory, disk, TypeInv, TypeOK, Phases, Serving
<1>8. CASE CompactWal
  <2>1. wal' \in Seq(Lines) /\ Len(wal') = 0
    BY <1>8, EmptySeq DEF CompactWal
  <2>2. images' \in Seq(Images) /\ Len(images') = 1
    BY <1>0, <1>8 DEF CompactWal
  <2> QED
    BY <1>0, <1>8, <2>1, <2>2 DEF CompactWal, TypeInv, TypeOK, Phases, Serving
<1>9. CASE UpdateSnapshotOffset
  <2>1. snap' \in Snapshots
    BY <1>0, <1>9 DEF UpdateSnapshotOffset, Snapshots, NoSnapshot
  <2> QED
    BY <1>0, <1>9, <2>1 DEF UpdateSnapshotOffset, memory, TypeInv, TypeOK, Phases, Serving
<1>10. CASE Crash
  <2>1. ResetMemory /\ wal' = wal
    BY <1>10 DEF Crash, disk
  <2> QED
    BY <1>0, <1>10, <2>1, ResetMemoryType DEF Crash, disk, TypeInv, TypeOK, Phases, Serving
<1>11. CASE CrashInAppend
  <2>1. TornLine \in Lines
    BY DEF Lines
  <2>2. /\ wal' \in Seq(Lines) /\ images' \in Seq(Images) /\ Len(images') >= 1
    BY <1>0, <1>11, <2>1 DEF CrashInAppend
  <2>3. ResetMemory
    BY <1>11 DEF CrashInAppend
  <2> QED
    BY <1>0, <1>11, <2>2, <2>3, ResetMemoryType
       DEF CrashInAppend, TypeInv, TypeOK, Phases, Serving
<1>12. CASE LoadSnapshot
  <2>1. snap.version = 1 =>
          /\ snap.intents \in Images /\ snap.seq \in Nat
          /\ snap.count \in Nat /\ snap.walLines \in Nat
    BY <1>0 DEF Snapshots, NoSnapshot
  <2> QED
    BY <1>0, <1>12, <2>1 DEF LoadSnapshot, disk, TypeInv, TypeOK, Phases, Serving
<1>13. CASE ReplayLine
  <2>1. wal[cursor + 1] \in Lines
    BY <1>0, <1>13 DEF ReplayLine
  <2>2. Apply(intents, wal[cursor + 1]) \in Images
    BY <1>0, <2>1, ApplyType
  <2> QED
    BY <1>0, <1>13, <2>2 DEF ReplayLine, disk, TypeInv, TypeOK, Phases, Serving
<1>14. CASE FinishLoad
  <2>1. seq' \in Nat
    BY <1>0, <1>14 DEF FinishLoad, Ids
  <2> QED
    BY <1>0, <1>14, <2>1 DEF FinishLoad, disk, TypeInv, TypeOK, Phases, Serving
<1>15. CASE UNCHANGED vars
  BY <1>0, <1>15 DEF vars, memory, disk, TypeInv, TypeOK
<1> QED
  BY <1>1, <1>2, <1>3, <1>4, <1>5, <1>6, <1>7, <1>8, <1>9, <1>10, <1>11, <1>12,
     <1>13, <1>14, <1>15 DEF Next, Operate, Snapshot, Recover

\* Type correctness of the store of store.py under every fault the model injects:
\* in particular the replay cursor stays inside the WAL and the counters stay
\* natural numbers.
THEOREM StoreTypeOK == Spec => []TypeOK
<1>1. TypeInv => TypeOK
  BY DEF TypeInv
<1> QED
  BY <1>1, InitTypeInv, NextTypeInv, PTL DEF Spec

-----------------------------------------------------------------------------
\* Only the faults whose exceptions _write_snapshot and _compact_wal swallow: no
\* crash inside the offset window, no torn append, no failed append.
Tolerated == Faults \subseteq {"snapshot", "truncate"}

StoreInv == TypeInv /\ LogInv

\* Replaying the line an operation logged does to the dictionary what the
\* operation did (create, transition against the loop of _replay_wal).
LEMMA ApplyCreate ==
  ASSUME NEW image \in Images, NEW i \in Ids
  PROVE  Apply(image, CreateLine(i)) = [image EXCEPT ![i] = <<"acknowledged">>]
BY DEF Apply, CreateLine

LEMMA ApplyTransition ==
  ASSUME NEW image \in Images, NEW i \in Ids, NEW s \in States, image[i] # NoHistory
  PROVE  Apply(image, TransitionLine(i, s)) = [image EXCEPT ![i] = Append(@, s)]
BY DEF Apply, TransitionLine

\* An append to a WAL without a torn tail extends the chain of images by one.
LEMMA AppendLogInv ==
  ASSUME StoreInv, NEW line \in Entries, AppendLog(line)
  PROVE  /\ wal' = Append(wal, line)
         /\ images' = Append(images, Apply(seen, line))
         /\ Len(wal') = Len(wal) + 1
         /\ Len(images') = Len(images) + 1
         /\ Len(images') = Len(wal') + 1
         /\ \A k \in 1..Len(images) : images'[k] = images[k]
         /\ images'[Len(images')] = Apply(seen, line)
         /\ \A k \in 1..Len(wal') :
               wal'[k] \in Entries /\ images'[k + 1] = Apply(images'[k], wal'[k])
<1>1. /\ wal \in Seq(Lines) /\ images \in Seq(Images) /\ Len(wal) \in Nat
      /\ Len(images) = Len(wal) + 1 /\ seen = images[Len(images)]
      /\ \A k \in 1..Len(wal) : wal[k] \in Entries
                                /\ images[k + 1] = Apply(images[k], wal[k])
  BY DEF StoreInv, TypeInv, TypeOK, LogInv
<1>2. ~Glued
  <2>1. SUFFICES ASSUME Glued PROVE FALSE
    OBVIOUS
  <2>2. Len(wal) \in 1..Len(wal)
    BY <1>1, <2>1, EmptySeq DEF Glued
  <2>3. wal[Len(wal)] \in Entries
    BY <1>1, <2>2
  <2>4. wal[Len(wal)].op \in {"create", "transition"}
    BY <2>3 DEF Entries
  <2>5. TornLine.op = "torn"
    BY DEF TornLine
  <2> QED
    BY <2>1, <2>4, <2>5 DEF Glued
<1>3. /\ wal' = Append(wal, line)
      /\ images' = Append(images, Apply(seen, line))
  BY <1>1, <1>2 DEF AppendLog
<1>4. line \in Lines /\ Apply(seen, line) \in Images
  <2>1. line \in Lines
    BY DEF Lines
  <2>2. seen \in Images
    BY DEF StoreInv, TypeInv, TypeOK
  <2> QED
    BY <2>1, <2>2, ApplyType
<1>5. /\ Len(wal') = Len(wal) + 1
      /\ \A k \in 1..Len(wal) : wal'[k] = wal[k]
      /\ wal'[Len(wal) + 1] = line
  BY <1>1, <1>3, <1>4
<1>6. /\ Len(images') = Len(images) + 1
      /\ \A k \in 1..Len(images) : images'[k] = images[k]
      /\ images'[Len(images) + 1] = Apply(seen, line)
  BY <1>1, <1>3, <1>4
<1>7. ASSUME NEW k \in 1..Len(wal')
      PROVE  wal'[k] \in Entries /\ images'[k + 1] = Apply(images'[k], wal'[k])
  <2>1. CASE k \in 1..Len(wal)
    <3>1. k \in 1..Len(images) /\ k + 1 \in 1..Len(images)
      BY <1>1, <2>1
    <3> QED
      BY <1>1, <1>5, <1>6, <2>1, <3>1
  <2>2. CASE k = Len(wal) + 1
    <3>1. images'[k] = seen
      BY <1>1, <1>6, <2>2
    <3> QED
      BY <1>1, <1>5, <1>6, <2>2, <3>1
  <2> QED
    BY <1>1, <1>5, <2>1, <2>2
<1> QED
  BY <1>1, <1>3, <1>5, <1>6, <1>7

\* The log invariant holds of an empty directory.
LEMMA InitLogInv == Init => LogInv
BY DEF Init, LogInv, NoSnapshot, Serving

\* Every step preserves the log invariant as long as only tolerated faults occur.
LEMMA NextLogInv ==
  ASSUME Tolerated, StoreInv, [Next]_vars
  PROVE  LogInv'
<1> USE StoreAssumption
<1>0. /\ intents \in Images /\ cursor \in 0..Len(wal) /\ index \in 0..cursor
      /\ wal \in Seq(Lines) /\ Len(wal) \in Nat /\ snap \in Snapshots
      /\ seen \in Images /\ images \in Seq(Images) /\ walLines \in Nat
      /\ skipUntil \in Nat /\ pc \in Phases
      /\ snap.version = 1 => snap.walLines \in Nat
      /\ pc \in {"truncate", "offset"} => snap.version = 1
  BY DEF StoreInv, TypeInv, TypeOK, Snapshots, NoSnapshot
<1>a. LogInv
  BY DEF StoreInv
<1>t. "offset" \notin Faults /\ "torn" \notin Faults /\ "append" \notin Faults
  BY DEF Tolerated
<1>1. CASE NextIntentId
  BY <1>1, <1>a DEF NextIntentId, disk, LogInv, Replayed, Serving
<1>2. ASSUME NEW line \in Entries, AppendLog(line), pc = "serving",
             pc' \in {"serving", "snapshot"},
             intents' = Apply(seen, line), seen' = intents',
             UNCHANGED <<snap, cursor, index>>
      PROVE  LogInv'
  <2>1. /\ Len(wal') = Len(wal) + 1
        /\ Len(images') = Len(wal') + 1
        /\ \A k \in 1..Len(images) : images'[k] = images[k]
        /\ images'[Len(images')] = Apply(seen, line)
        /\ \A k \in 1..Len(wal') :
              wal'[k] \in Entries /\ images'[k + 1] = Apply(images'[k], wal'[k])
    BY <1>2, AppendLogInv
  <2>2. walLines' = Len(wal')
    BY <1>2, <1>a, <2>1 DEF AppendLog, LogInv, Serving
  <2>3. Len(images) = Len(wal) + 1
    BY <1>a DEF LogInv
  <2>4. images'[1] = images[1]
    BY <1>0, <2>1, <2>3
  <2>5. snap.version = 1 => /\ snap.walLines <= Len(wal')
                            /\ snap.intents = images'[snap.walLines + 1]
    BY <1>0, <1>2, <1>a, <2>1, <2>3 DEF LogInv
  <2> QED
    BY <1>2, <1>a, <2>1, <2>2, <2>4, <2>5 DEF LogInv, Serving
<1>3. ASSUME NEW i \in Ids, Create(i) PROVE LogInv'
  <2>1. CreateLine(i) \in Entries
    BY ForwardStates DEF CreateLine, Entries
  <2>2. intents = seen
    BY <1>3, <1>a DEF Create, LogInv, Serving
  <2>3. intents' = Apply(seen, CreateLine(i))
    BY <1>0, <1>3, <2>2, ApplyCreate DEF Create
  <2> QED
    BY <1>2, <1>3, <2>1, <2>3 DEF Create
<1>4. ASSUME NEW i \in Ids, NEW s \in States, Transition(i, s) PROVE LogInv'
  <2>1. TransitionLine(i, s) \in Entries
    BY DEF TransitionLine, Entries
  <2>2. intents = seen
    BY <1>4, <1>a DEF Transition, LogInv, Serving
  <2>3. intents' = Apply(seen, TransitionLine(i, s))
    BY <1>0, <1>4, <2>2, ApplyTransition DEF Transition, CanTransition
  <2>4. pc' \in {"serving", "snapshot"}
    BY <1>4 DEF Transition
  <2> QED
    BY <1>2, <1>4, <2>1, <2>3, <2>4 DEF Transition
<1>5. ASSUME NEW i \in Ids PROVE ~CreateAppendFails(i)
  BY <1>t DEF CreateAppendFails
<1>6. ASSUME NEW i \in Ids, NEW s \in States PROVE ~TransitionAppendFails(i, s)
  BY <1>t DEF TransitionAppendFails
<1>7. CASE WriteSnapshot
  <2>1. /\ snap'.version = 1 /\ snap'.intents = intents /\ snap'.walLines = walLines
    BY <1>7 DEF WriteSnapshot
  <2> QED
    BY <1>0, <1>7, <1>a, <2>1 DEF WriteSnapshot, memory, LogInv, Serving
<1>8. CASE WriteSnapshotFails \/ CompactWalFails
  BY <1>0, <1>8, <1>a DEF WriteSnapshotFails, CompactWalFails, memory, disk, LogInv, Serving
<1>9. CASE CompactWal
  <2>1. wal' = <<>> /\ Len(wal') = 0
    BY <1>9 DEF CompactWal
  <2>2. images' = <<seen>> /\ Len(images') = 1 /\ images'[1] = seen
    BY <1>9, <1>a DEF CompactWal, LogInv
  <2>3. snap.intents = seen
    BY <1>0, <1>9, <1>a DEF CompactWal, LogInv
  <2> QED
    BY <1>0, <1>9, <1>a, <2>1, <2>2, <2>3 DEF CompactWal, LogInv, Serving
<1>10. CASE UpdateSnapshotOffset
  <2>1. snap'.version = 1 /\ snap'.intents = snap.intents /\ snap'.walLines = 0
    BY <1>0, <1>10 DEF UpdateSnapshotOffset, Snapshots, NoSnapshot
  <2>2. Len(wal) = 0 /\ snap.intents = images[1]
    BY <1>0, <1>10, <1>a DEF UpdateSnapshotOffset, LogInv
  <2> QED
    BY <1>0, <1>10, <1>a, <2>1, <2>2 DEF UpdateSnapshotOffset, memory, LogInv, Serving
<1>11. CASE UpdateSnapshotOffsetFails \/ CrashInAppend
  BY <1>11, <1>t DEF UpdateSnapshotOffsetFails, CrashInAppend
<1>12. CASE Crash
  BY <1>0, <1>12, <1>a, <1>t DEF Crash, ResetMemory, disk, LogInv, Serving
<1>13. CASE LoadSnapshot
  <2>1. pc = "down" /\ cursor = 0 /\ index = 0 /\ skipUntil = 0 /\ intents = NoIntents
    BY <1>13, <1>a DEF LoadSnapshot, LogInv
  <2>2. snap.version = 0 \/ snap.version = 1
    BY <1>0 DEF Snapshots, NoSnapshot
  <2>3. skipUntil' = (IF snap.version = 1 THEN snap.walLines ELSE 0)
    BY <1>13, <2>1 DEF LoadSnapshot
  <2>4. skipUntil' \in Nat /\ cursor' = 0 /\ index' = 0
    BY <1>0, <1>13, <2>1, <2>3 DEF LoadSnapshot
  <2>5. Replayed' = skipUntil'
    BY <2>4 DEF Replayed
  <2>6. intents' = images[skipUntil' + 1]
    BY <1>0, <1>13, <1>a, <2>1, <2>2, <2>3 DEF LoadSnapshot, LogInv
  <2> QED
    BY <1>13, <1>a, <2>1, <2>3, <2>4, <2>5, <2>6 DEF LoadSnapshot, disk, LogInv, Serving
<1>14. CASE ReplayLine
  <2>1. cursor + 1 \in 1..Len(wal) /\ index = cursor /\ intents = images[Replayed + 1]
    BY <1>0, <1>14, <1>a DEF ReplayLine, LogInv
  <2>2. /\ wal[cursor + 1] \in Entries
        /\ images[cursor + 1 + 1] = Apply(images[cursor + 1], wal[cursor + 1])
    BY <1>a, <2>1 DEF LogInv
  <2>3. wal[cursor + 1] \notin {TornLine, CorruptLine}
    <3>1. wal[cursor + 1].op \in {"create", "transition"}
      BY <2>2 DEF Entries
    <3>2. TornLine.op = "torn" /\ CorruptLine.op = "corrupt"
      BY DEF TornLine, CorruptLine
    <3> QED
      BY <3>1, <3>2
  <2>4. /\ cursor' = cursor + 1 /\ index' = index + 1 /\ skipUntil' = skipUntil
        /\ intents' = IF index + 1 <= skipUntil THEN intents
                      ELSE Apply(intents, wal[cursor + 1])
    BY <1>14, <2>3 DEF ReplayLine
  <2>5. intents' = images[Replayed' + 1]
    <3>1. CASE index + 1 <= skipUntil
      <4>1. Replayed = skipUntil /\ Replayed' = skipUntil
        BY <1>0, <2>1, <2>4, <3>1 DEF Replayed
      <4> QED
        BY <2>1, <2>4, <3>1, <4>1
    <3>2. CASE ~(index + 1 <= skipUntil)
      <4>1. Replayed = cursor /\ Replayed' = cursor + 1
        BY <1>0, <2>1, <2>4, <3>2 DEF Replayed
      <4> QED
        BY <2>1, <2>2, <2>4, <3>2, <4>1
    <3> QED
      BY <3>1, <3>2
  <2> QED
    BY <1>14, <1>a, <2>1, <2>4, <2>5 DEF ReplayLine, disk, LogInv, Serving
<1>15. CASE FinishLoad
  <2>1. cursor = Len(wal) /\ index = cursor /\ intents = images[Replayed + 1]
    BY <1>15, <1>a DEF FinishLoad, LogInv
  <2>2. Replayed = Len(wal)
    <3>1. skipUntil <= Len(wal)
      BY <1>0, <1>15, <1>a DEF FinishLoad, LogInv
    <3> QED
      BY <1>0, <2>1, <3>1 DEF Replayed
  <2>3. intents = seen
    BY <1>a, <2>1, <2>2 DEF LogInv
  <2> QED
    BY <1>15, <1>a, <2>1, <2>3 DEF FinishLoad, disk, LogInv, Serving
<1>16. CASE UNCHANGED vars
  BY <1>16, <1>a DEF vars, memory, disk, LogInv, Replayed
<1> QED
  BY <1>1, <1>3, <1>4, <1>5, <1>6, <1>7, <1>8, <1>9, <1>10, <1>11, <1>12, <1>13,
     <1>14, <1>15, <1>16 DEF Next, Operate, Snapshot, Recover

\* The two invariants hold together.
LEMMA StoreInvariant == ASSUME Tolerated PROVE Spec => []StoreInv
<1>1. Init => StoreInv
  BY InitTypeInv, InitLogInv DEF StoreInv
<1>2. StoreInv /\ [Next]_vars => StoreInv'
  BY NextTypeInv, NextLogInv DEF StoreInv
<1> QED
  BY <1>1, <1>2, PTL DEF Spec

\* Durability of the store of store.py for any number of intents, crashes and
\* snapshots: with only tolerated faults, what a serving store holds is exactly
\* what clients could read before.
THEOREM StoreDurable == ASSUME Tolerated PROVE Spec => []Durable
<1>1. StoreInv => Durable
  BY DEF StoreInv, LogInv, Durable
<1> QED
  BY <1>1, StoreInvariant, PTL

-----------------------------------------------------------------------------
\* Every step keeps the ids fresh: a recovered counter is at least the highest id
\* the recovered dictionary holds, and by the log invariant that is the highest id
\* any client has seen.
LEMMA NextFreshIds ==
  ASSUME Tolerated, StoreInv, FreshIds, [Next]_vars
  PROVE  FreshIds'
<1> USE StoreAssumption
<1>0. /\ intents \in Images /\ seen \in Images /\ seq \in Nat /\ allocated \subseteq Ids
      /\ pc \in Phases
  BY DEF StoreInv, TypeInv, TypeOK
<1>a. /\ pc \in Serving => intents = seen
      /\ pc \notin Serving => allocated = {}
  BY DEF StoreInv, LogInv
<1>t. "offset" \notin Faults /\ "torn" \notin Faults /\ "append" \notin Faults
  BY DEF Tolerated
<1>1. CASE NextIntentId
  BY <1>0, <1>1 DEF NextIntentId, FreshIds, Ids, Serving
<1>2. ASSUME NEW i \in Ids, Create(i) PROVE FreshIds'
  <2>1. /\ pc = "serving" /\ pc' = "serving" /\ i \in allocated
        /\ allocated' = allocated \ {i} /\ seq' = seq
        /\ seen' = [seen EXCEPT ![i] = <<"acknowledged">>]
    BY <1>2, <1>a DEF Create, Serving
  <2>2. i <= seq
    BY <2>1 DEF FreshIds, Serving
  <2>3. \A j \in Ids : j # i => seen'[j] = seen[j]
    BY <1>0, <2>1 DEF Images
  <2>4. \A j \in allocated' : seen'[j] = NoHistory /\ j <= seq'
    BY <1>0, <2>1, <2>3 DEF FreshIds, Serving
  <2>5. \A j \in Ids : j > seq' => seen'[j] = NoHistory
    BY <1>0, <2>1, <2>2, <2>3 DEF FreshIds, Serving, Ids
  <2> QED
    BY <2>4, <2>5 DEF FreshIds
<1>3. ASSUME NEW i \in Ids, NEW s \in States, Transition(i, s) PROVE FreshIds'
  <2>1. /\ pc = "serving" /\ allocated' = allocated /\ seq' = seq
        /\ seen[i] # NoHistory
        /\ seen' = [seen EXCEPT ![i] = Append(@, s)]
    BY <1>3, <1>a DEF Transition, CanTransition, Serving
  <2>2. \A j \in Ids : j # i => seen'[j] = seen[j]
    BY <1>0, <2>1 DEF Images
  <2>3. i \notin allocated /\ ~(i > seq)
    BY <1>0, <2>1 DEF FreshIds, Serving
  <2> QED
    BY <1>0, <2>1, <2>2, <2>3 DEF FreshIds, Serving
<1>4. ASSUME NEW i \in Ids
      PROVE  ~CreateAppendFails(i) /\ \A s \in States : ~TransitionAppendFails(i, s)
  BY <1>t DEF CreateAppendFails, TransitionAppendFails
<1>5. CASE Snapshot
  BY <1>5 DEF Snapshot, WriteSnapshot, WriteSnapshotFails, CompactWal, CompactWalFails,
     UpdateSnapshotOffset, UpdateSnapshotOffsetFails, memory, disk, FreshIds, Serving
<1>6. CASE Crash
  BY <1>6 DEF Crash, FreshIds, Serving
<1>7. CASE CrashInAppend
  BY <1>7, <1>t DEF CrashInAppend
<1>8. CASE LoadSnapshot \/ ReplayLine
  BY <1>8 DEF LoadSnapshot, ReplayLine, FreshIds, Serving
<1>9. CASE FinishLoad
  <2>1. LogInv'
    BY NextLogInv, <1>9
  <2>2. pc' = "serving" /\ intents' = intents /\ allocated' = {} /\ seen' = seen
    BY <1>9, <1>a DEF FinishLoad, Serving
  <2>3. intents = seen
    BY <2>1, <2>2 DEF LogInv, Serving
  <2>4. \A i \in Ids : intents[i] # NoHistory => i <= seq'
    BY <1>9 DEF FinishLoad
  <2>5. seq' \in Nat
    BY <1>0, <1>9 DEF FinishLoad, Ids
  <2> QED
    BY <2>2, <2>3, <2>4, <2>5 DEF FreshIds, Ids
<1>10. CASE UNCHANGED vars
  BY <1>10 DEF vars, memory, FreshIds
<1> QED
  BY <1>1, <1>2, <1>3, <1>4, <1>5, <1>6, <1>7, <1>8, <1>9, <1>10
     DEF Next, Operate, Recover

\* No id collision in store.py, for any number of restarts: neither an allocated id
\* nor any id still to be allocated belongs to an intent a client has seen.
THEOREM StoreFreshIds == ASSUME Tolerated PROVE Spec => []FreshIds
<1>1. Init => FreshIds
  BY DEF Init, FreshIds, Serving
<1>2. StoreInv /\ FreshIds /\ [Next]_vars => FreshIds'
  BY NextFreshIds
<1> QED
  BY <1>1, <1>2, StoreInvariant, PTL DEF Spec

\* Every step of the store is a step of the life cycle or leaves it alone.
LEMMA NextLifecycle ==
  ASSUME Tolerated, StoreInv, FreshIds, [Next]_vars
  PROVE  [Lifecycle!Next]_seen
<1>a. pc \in Serving => intents = seen
  BY DEF StoreInv, LogInv
<1>t. "append" \notin Faults
  BY DEF Tolerated
<1>1. ASSUME NEW i \in Ids, Create(i) PROVE Lifecycle!Next
  <2>1. seen[i] = NoHistory
    BY <1>1 DEF Create, FreshIds, Serving
  <2>2. seen' = [seen EXCEPT ![i] = <<"acknowledged">>]
    BY <1>1, <1>a DEF Create, Serving
  <2>3. Lifecycle!Create(i)
    BY <2>1, <2>2 DEF Lifecycle!Create, Lifecycle!NoHistory, NoHistory
  <2> QED
    BY <2>3 DEF Lifecycle!Next
<1>2. ASSUME NEW i \in Ids, NEW s \in States, Transition(i, s) PROVE Lifecycle!Next
  <2>1. /\ seen[i] # NoHistory /\ s \in Forward[StateOf(seen[i])]
        /\ seen' = [seen EXCEPT ![i] = Append(@, s)]
    BY <1>2, <1>a DEF Transition, CanTransition, Serving
  <2>2. Lifecycle!Transition(i, s)
    BY <2>1 DEF Lifecycle!Transition, Lifecycle!NoHistory, NoHistory, Lifecycle!Forward,
       Forward, Lifecycle!StateOf, StateOf
  <2>3. s \in Lifecycle!States
    BY DEF Lifecycle!States, Lifecycle!Forward, States, Forward
  <2> QED
    BY <2>2, <2>3 DEF Lifecycle!Next
<1>3. ASSUME NEW i \in Ids
      PROVE  ~CreateAppendFails(i) /\ \A s \in States : ~TransitionAppendFails(i, s)
  BY <1>t DEF CreateAppendFails, TransitionAppendFails
<1>4. CASE NextIntentId \/ Snapshot \/ Crash \/ CrashInAppend \/ Recover \/ UNCHANGED vars
  BY <1>4 DEF NextIntentId, Snapshot, WriteSnapshot, WriteSnapshotFails, CompactWal,
     CompactWalFails, UpdateSnapshotOffset, UpdateSnapshotOffsetFails, Crash,
     CrashInAppend, Recover, LoadSnapshot, ReplayLine, FinishLoad, vars
<1> QED
  BY <1>1, <1>2, <1>3, <1>4 DEF Next, Operate

\* The store with its log, snapshots and restarts implements the life cycle: what
\* clients see of an intent only ever grows, along the state machine of store.py.
THEOREM StoreImplementsLifecycle == ASSUME Tolerated PROVE Spec => ImplementsLifecycle
<1>1. Init => Lifecycle!Init
  BY DEF Init, Lifecycle!Init, NoIntents, NoHistory, Lifecycle!NoHistory
<1>2. StoreInv /\ FreshIds /\ [Next]_vars => [Lifecycle!Next]_seen
  BY NextLifecycle
<1> QED
  BY <1>1, <1>2, StoreInvariant, StoreFreshIds, PTL
     DEF Spec, ImplementsLifecycle, Lifecycle!Spec

-----------------------------------------------------------------------------
(* Under every fault, torn and failed appends and a stale offset included. *)

\* The ids a running process has handed out or will hand out are not in the
\* dictionary it holds.  Unlike FreshIds this says nothing of what clients saw
\* before a crash: after a fault that may be more than what was recovered.
UnusedIds ==
  IF pc \in Serving
    THEN /\ \A i \in allocated : intents[i] = NoHistory /\ i <= seq
         /\ \A i \in Ids : i > seq => intents[i] = NoHistory
    ELSE allocated = {}

\* Every step keeps the ids of a running process unused, whatever was lost: the
\* counter moves up to the highest id recovered (_init_seq_from_existing) before
\* the first id is handed out.
LEMMA NextUnusedIds ==
  ASSUME TypeInv, UnusedIds, [Next]_vars
  PROVE  UnusedIds'
<1> USE StoreAssumption
<1>0. /\ intents \in Images /\ seq \in Nat /\ allocated \subseteq Ids /\ pc \in Phases
  BY DEF TypeInv, TypeOK
<1>1. CASE NextIntentId
  BY <1>0, <1>1 DEF NextIntentId, UnusedIds, Ids, Serving
<1>2. ASSUME NEW i \in Ids, Create(i) \/ CreateAppendFails(i) PROVE UnusedIds'
  <2>1. /\ pc = "serving" /\ pc' = "serving" /\ i \in allocated
        /\ allocated' = allocated \ {i} /\ seq' = seq
        /\ intents' = [intents EXCEPT ![i] = <<"acknowledged">>]
    BY <1>2 DEF Create, CreateAppendFails
  <2>2. i <= seq
    BY <2>1 DEF UnusedIds, Serving
  <2>3. \A j \in Ids : j # i => intents'[j] = intents[j]
    BY <1>0, <2>1 DEF Images
  <2>4. \A j \in allocated' : intents'[j] = NoHistory /\ j <= seq'
    BY <1>0, <2>1, <2>3 DEF UnusedIds, Serving
  <2>5. \A j \in Ids : j > seq' => intents'[j] = NoHistory
    BY <1>0, <2>1, <2>2, <2>3 DEF UnusedIds, Serving, Ids
  <2> QED
    BY <2>1, <2>4, <2>5 DEF UnusedIds, Serving
<1>3. ASSUME NEW i \in Ids, NEW s \in States,
             Transition(i, s) \/ TransitionAppendFails(i, s)
      PROVE  UnusedIds'
  <2>1. /\ pc = "serving" /\ allocated' = allocated /\ seq' = seq
        /\ intents[i] # NoHistory /\ pc' \in {"serving", "snapshot"}
        /\ intents' = [intents EXCEPT ![i] = Append(@, s)]
    BY <1>3 DEF Transition, TransitionAppendFails, CanTransition
  <2>2. \A j \in Ids : j # i => intents'[j] = intents[j]
    BY <1>0, <2>1 DEF Images
  <2>3. i \notin allocated /\ ~(i > seq)
    BY <1>0, <2>1 DEF UnusedIds, Serving
  <2> QED
    BY <1>0, <2>1, <2>2, <2>3 DEF UnusedIds, Serving
<1>4. CASE Snapshot
  BY <1>4 DEF Snapshot, WriteSnapshot, WriteSnapshotFails, CompactWal, CompactWalFails,
     UpdateSnapshotOffset, UpdateSnapshotOffsetFails, memory, disk, UnusedIds, Serving
<1>5. CASE Crash \/ CrashInAppend
  BY <1>5 DEF Crash, CrashInAppend, ResetMemory, UnusedIds, Serving
<1>6. CASE LoadSnapshot \/ ReplayLine
  BY <1>6 DEF LoadSnapshot, ReplayLine, UnusedIds, Serving
<1>7. CASE FinishLoad
  <2>1. pc' = "serving" /\ intents' = intents /\ allocated' = {}
    BY <1>7 DEF FinishLoad, UnusedIds, Serving
  <2>2. \A i \in Ids : intents[i] # NoHistory => i <= seq'
    BY <1>7 DEF FinishLoad
  <2>3. seq' \in Nat
    BY <1>0, <1>7 DEF FinishLoad, Ids
  <2> QED
    BY <2>1, <2>2, <2>3 DEF UnusedIds, Ids, Serving
<1>8. CASE UNCHANGED vars
  BY <1>8 DEF vars, memory, UnusedIds
<1> QED
  BY <1>1, <1>2, <1>3, <1>4, <1>5, <1>6, <1>7, <1>8 DEF Next, Operate, Recover

\* Whatever the files lost, a running store.py never overwrites or rewinds a record
\* it holds: create finds its id unused, transition follows _FORWARD_TRANSITIONS.
THEOREM ServedStepsTheorem == Spec => ServedStepsLegal
<1>1. Init => UnusedIds
  BY DEF Init, UnusedIds, Serving
<1>2. TypeInv /\ UnusedIds /\ [Next]_vars => UnusedIds'
  BY NextUnusedIds
<1>3. TypeInv /\ UnusedIds /\ [Next]_vars
        => [(pc \in Serving /\ pc' \in Serving) => ServedStep]_vars
  <2> SUFFICES ASSUME UnusedIds, [Next]_vars, pc \in Serving, pc' \in Serving
               PROVE  ServedStep
    OBVIOUS
  <2>1. ASSUME NEW i \in Ids, Create(i) \/ CreateAppendFails(i) PROVE ServedStep
    <3>1. intents[i] = NoHistory
      BY <2>1 DEF Create, CreateAppendFails, UnusedIds, Serving
    <3> QED
      BY <2>1, <3>1 DEF Create, CreateAppendFails, ServedStep
  <2>2. ASSUME NEW i \in Ids, NEW s \in States,
               Transition(i, s) \/ TransitionAppendFails(i, s)
        PROVE  ServedStep
    BY <2>2 DEF Transition, TransitionAppendFails, ServedStep
  <2>3. CASE NextIntentId \/ Snapshot \/ FinishLoad \/ UNCHANGED vars
    BY <2>3 DEF NextIntentId, Snapshot, WriteSnapshot, WriteSnapshotFails, CompactWal,
       CompactWalFails, UpdateSnapshotOffset, UpdateSnapshotOffsetFails, FinishLoad,
       vars, memory, ServedStep
  <2>4. ~(Crash \/ CrashInAppend \/ LoadSnapshot \/ ReplayLine)
    BY DEF Crash, CrashInAppend, LoadSnapshot, ReplayLine, Serving
  <2> QED
    BY <2>1, <2>2, <2>3, <2>4 DEF Next, Operate, Recover
<1> QED
  BY <1>1, <1>2, <1>3, InitTypeInv, NextTypeInv, PTL DEF Spec, ServedStepsLegal

-----------------------------------------------------------------------------
\* A history as OrderlyHistories wants it, and a dictionary of such histories.
Orderly(h) ==
  /\ h # NoHistory => h[1] = "acknowledged"
  /\ \A k \in 1..(Len(h) - 1) : Rank(h[k]) < Rank(h[k + 1])

OrderlyImage(image) == \A i \in Ids : Orderly(image[i])

\* What recovery finds of an intent has not got further than what is being served.
NotAhead(old, new) ==
  \A i \in Ids : old[i] # NoHistory =>
    /\ new[i] # NoHistory
    /\ Rank(StateOf(old[i])) <= Rank(StateOf(new[i]))

\* Where the next recovery starts: what _load_snapshot reads from the file on disk.
Base   == IF snap.version = 1 THEN snap.intents ELSE NoIntents
Offset == IF snap.version = 1 THEN snap.walLines ELSE 0

\* One turn of the loop of _replay_wal, from the dictionary and the line_index
\* before it to the ones after it.
Turn(line, offset, old, oldIndex, new, newIndex) ==
  IF line \in {TornLine, CorruptLine}
    THEN new = old /\ newIndex = oldIndex
    ELSE /\ newIndex = oldIndex + 1
         /\ new = IF oldIndex + 1 <= offset THEN old ELSE Apply(old, line)

\* A whole recovery: dicts[k] and lines[k] are the dictionary and the line_index
\* after k lines of the log.
Recovery(log, base, offset, dicts, lines) ==
  /\ dicts \in [0..Len(log) -> Images] /\ lines \in [0..Len(log) -> Nat]
  /\ dicts[0] = base /\ lines[0] = 0
  /\ \A k \in 1..Len(log) :
       Turn(log[k], offset, dicts[k - 1], lines[k - 1], dicts[k], lines[k])
  /\ \A k \in 0..Len(log) : lines[k] <= lines[Len(log)] /\ OrderlyImage(dicts[k])

\* That recovery against the process.  The line counter of a serving process is
\* never short of the lines recovery counts, so a snapshot covers every line it
\* makes recovery skip.
Recoverable(dicts, lines) ==
  /\ pc \in Serving => /\ NotAhead(dicts[Len(wal)], intents)
                       /\ lines[Len(wal)] <= walLines
  /\ pc = "replay" => intents = dicts[cursor] /\ index = lines[cursor]

Served ==
  /\ pc \in Serving => OrderlyImage(intents)
  /\ pc \in {"truncate", "offset"} => snap.intents = intents
  /\ pc = "offset" => wal = <<>>
  /\ pc = "down" => intents = NoIntents /\ skipUntil = 0
  /\ pc = "replay" => skipUntil = Offset

RecoveryInv ==
  /\ Served
  /\ \E dicts, lines :
       Recovery(wal, Base, Offset, dicts, lines) /\ Recoverable(dicts, lines)

\* The states of the machine have ranks, and _FORWARD_TRANSITIONS only goes up.
LEMMA RankForward ==
  /\ \A s \in States : Rank(s) \in 0..7
  /\ \A s \in States : \A t \in Forward[s] : Rank(s) < Rank(t)
<1>1. States = {"acknowledged", "planning", "validating", "generating", "executing",
                "proposed", "applied", "completed", "failed", "cancelled"}
  BY DEF States, Forward
<1>2. /\ Rank("acknowledged") = 0 /\ Rank("planning") = 1 /\ Rank("validating") = 2
      /\ Rank("generating") = 3 /\ Rank("executing") = 4 /\ Rank("proposed") = 5
      /\ Rank("applied") = 6 /\ Rank("completed") = 7 /\ Rank("failed") = 7
      /\ Rank("cancelled") = 7
  BY DEF Rank, Terminal
<1>3. \A s \in States : Rank(s) \in 0..7
  BY <1>1, <1>2
<1>4. ASSUME NEW s \in States, NEW t \in Forward[s] PROVE Rank(s) < Rank(t)
  BY <1>1, <1>2 DEF Forward
<1> QED
  BY <1>3, <1>4

\* A history stays orderly when a state of a higher rank is appended.
LEMMA OrderlyAppend ==
  ASSUME NEW h \in Histories, Orderly(h), h # NoHistory, NEW s \in States,
         Rank(StateOf(h)) < Rank(s)
  PROVE  /\ Orderly(Append(h, s)) /\ Append(h, s) # NoHistory
         /\ StateOf(Append(h, s)) = s
<1>1. /\ h \in Seq(States) /\ Len(h) \in Nat /\ Len(h) >= 1
  BY EmptySeq DEF Histories, NoHistory
<1> DEFINE g == Append(h, s)
<1>2. /\ g \in Seq(States) /\ Len(g) = Len(h) + 1 /\ g[Len(h) + 1] = s
      /\ \A k \in 1..Len(h) : g[k] = h[k]
  BY <1>1
<1> HIDE DEF g
<1>3. g[1] = "acknowledged"
  BY <1>1, <1>2 DEF Orderly
<1>4. ASSUME NEW k \in 1..(Len(g) - 1) PROVE Rank(g[k]) < Rank(g[k + 1])
  <2>1. k \in 1..Len(h) /\ g[k] = h[k]
    BY <1>1, <1>2, <1>4
  <2>2. CASE k = Len(h)
    BY <1>2, <2>1, <2>2 DEF StateOf
  <2>3. CASE k # Len(h)
    <3>1. k \in 1..(Len(h) - 1) /\ k + 1 \in 1..Len(h)
      BY <1>1, <2>1, <2>3
    <3>2. g[k + 1] = h[k + 1]
      BY <1>2, <3>1
    <3> QED
      BY <2>1, <3>1, <3>2 DEF Orderly
  <2> QED
    BY <2>2, <2>3
<1>5. g # NoHistory
  BY <1>1, <1>2 DEF NoHistory
<1>6. StateOf(g) = s
  BY <1>2 DEF StateOf
<1> QED
  BY <1>3, <1>4, <1>5, <1>6 DEF Orderly, g

\* The history create gives an intent.
LEMMA OrderlyCreated ==
  /\ <<"acknowledged">> \in Histories /\ Orderly(<<"acknowledged">>)
  /\ <<"acknowledged">> # NoHistory /\ StateOf(<<"acknowledged">>) = "acknowledged"
BY ForwardStates DEF Histories, Orderly, NoHistory, StateOf

\* The last state of a known history is a state of the machine.
LEMMA StateOfType ==
  ASSUME NEW h \in Histories, h # NoHistory
  PROVE  StateOf(h) \in States /\ Rank(StateOf(h)) \in Nat
<1>1. StateOf(h) \in States
  BY EmptySeq DEF Histories, NoHistory, StateOf
<1> QED
  BY <1>1, RankForward

\* An empty dictionary is orderly and not ahead of any other.
LEMMA NoIntentsOrderly ==
  /\ NoIntents \in Images
  /\ OrderlyImage(NoIntents)
<1>1. NoIntents \in Images
  BY DEF NoIntents, Images, NoHistory, Histories
<1>2. Orderly(NoHistory)
  BY DEF Orderly, NoHistory
<1> QED
  BY <1>1, <1>2 DEF OrderlyImage, NoIntents

\* A dictionary is not ahead of itself.
LEMMA NotAheadSelf ==
  ASSUME NEW image \in Images
  PROVE  NotAhead(image, image)
<1> SUFFICES ASSUME NEW i \in Ids, image[i] # NoHistory
             PROVE  Rank(StateOf(image[i])) <= Rank(StateOf(image[i]))
  BY DEF NotAhead
<1>1. image[i] \in Histories
  BY DEF Images
<1> QED
  BY <1>1, StateOfType

\* The effect of create on a served dictionary: whether recovery will see its line
\* or not, what recovery finds is orderly and not ahead of what is served.
LEMMA CreateKeeps ==
  ASSUME NEW old \in Images, NEW new \in Images, OrderlyImage(old), OrderlyImage(new),
         NotAhead(old, new), NEW i \in Ids, new[i] = NoHistory, NEW after,
         after = [new EXCEPT ![i] = <<"acknowledged">>]
  PROVE  /\ OrderlyImage(after) /\ NotAhead(old, after)
         /\ OrderlyImage(Apply(old, CreateLine(i)))
         /\ NotAhead(Apply(old, CreateLine(i)), after)
<1>1. old[i] = NoHistory
  BY DEF NotAhead
<1> DEFINE h == <<"acknowledged">>
           found == Apply(old, CreateLine(i))
<1>2. h \in Histories /\ Orderly(h) /\ h # NoHistory /\ Rank(StateOf(h)) \in Nat
  BY OrderlyCreated, StateOfType
<1>3. found = [old EXCEPT ![i] = h]
  BY ApplyCreate
<1>4. /\ after[i] = h /\ \A j \in Ids : j # i => after[j] = new[j]
      /\ found[i] = h /\ \A j \in Ids : j # i => found[j] = old[j]
  BY <1>3 DEF Images
<1> HIDE DEF h, found
<1>5. OrderlyImage(after) /\ OrderlyImage(found)
  BY <1>2, <1>4 DEF OrderlyImage
<1>6. NotAhead(old, after)
  BY <1>1, <1>4 DEF NotAhead
<1>7. NotAhead(found, after)
  BY <1>2, <1>4 DEF NotAhead
<1> QED
  BY <1>5, <1>6, <1>7 DEF found

\* The same for transition.
LEMMA TransitionKeeps ==
  ASSUME NEW old \in Images, NEW new \in Images, OrderlyImage(old), OrderlyImage(new),
         NotAhead(old, new), NEW i \in Ids, NEW s \in States, new[i] # NoHistory,
         s \in Forward[StateOf(new[i])], NEW after,
         after = [new EXCEPT ![i] = Append(@, s)]
  PROVE  /\ OrderlyImage(after) /\ NotAhead(old, after)
         /\ OrderlyImage(Apply(old, TransitionLine(i, s)))
         /\ NotAhead(Apply(old, TransitionLine(i, s)), after)
<1> DEFINE h == Append(new[i], s)
           found == Apply(old, TransitionLine(i, s))
<1>1. /\ new[i] \in Histories /\ old[i] \in Histories
      /\ Orderly(new[i]) /\ Orderly(old[i])
  BY DEF Images, OrderlyImage
<1>2. StateOf(new[i]) \in States /\ Rank(StateOf(new[i])) \in Nat /\ Rank(s) \in Nat
  BY <1>1, StateOfType, RankForward
<1>3. Rank(StateOf(new[i])) < Rank(s)
  BY <1>2, RankForward
<1>4. Orderly(h) /\ h # NoHistory /\ StateOf(h) = s
  BY <1>1, <1>3, OrderlyAppend
<1>5. after[i] = h /\ \A j \in Ids : j # i => after[j] = new[j]
  BY DEF Images
<1>6. OrderlyImage(after)
  BY <1>4, <1>5 DEF OrderlyImage
<1> HIDE DEF h
<1>7. NotAhead(old, after)
  <2> SUFFICES ASSUME NEW j \in Ids, old[j] # NoHistory
               PROVE  /\ after[j] # NoHistory
                      /\ Rank(StateOf(old[j])) <= Rank(StateOf(after[j]))
    BY DEF NotAhead
  <2>1. CASE j # i
    BY <1>5, <2>1 DEF NotAhead
  <2>2. CASE j = i
    <3>1. Rank(StateOf(old[i])) \in Nat
      BY <1>1, <2>2, StateOfType
    <3>2. Rank(StateOf(old[i])) <= Rank(StateOf(new[i]))
      BY <2>2 DEF NotAhead
    <3>3. after[i] # NoHistory /\ StateOf(after[i]) = s
      BY <1>4, <1>5
    <3>4. Rank(StateOf(after[i])) = Rank(s)
      BY <3>3, Zenon
    <3>5. Rank(StateOf(old[i])) <= Rank(StateOf(after[i]))
      BY <1>2, <1>3, <3>1, <3>2, <3>4
    <3> QED
      BY <2>2, <3>3, <3>5
  <2> QED
    BY <2>1, <2>2
<1>8. CASE old[i] = NoHistory
  <2>1. found = old
    BY <1>8 DEF Apply, TransitionLine
  <2> QED
    BY <1>6, <1>7, <2>1
<1>9. CASE old[i] # NoHistory
  <2>1. found = [old EXCEPT ![i] = Append(@, s)]
    BY <1>9, ApplyTransition
  <2> DEFINE g == Append(old[i], s)
  <2>2. found[i] = g /\ \A j \in Ids : j # i => found[j] = old[j]
    BY <2>1 DEF Images
  <2>3. /\ Rank(StateOf(old[i])) \in Nat
        /\ Rank(StateOf(old[i])) <= Rank(StateOf(new[i]))
    BY <1>1, <1>9, StateOfType DEF NotAhead
  <2>4. Rank(StateOf(old[i])) < Rank(s)
    BY <1>2, <1>3, <2>3
  <2>5. Orderly(g) /\ g # NoHistory /\ StateOf(g) = s
    BY <1>1, <1>9, <2>4, OrderlyAppend
  <2> HIDE DEF g, found
  <2>6. OrderlyImage(found)
    BY <2>2, <2>5 DEF OrderlyImage
  <2>7. NotAhead(found, after)
    <3> SUFFICES ASSUME NEW j \in Ids, found[j] # NoHistory
                 PROVE  /\ after[j] # NoHistory
                        /\ Rank(StateOf(found[j])) <= Rank(StateOf(after[j]))
      BY DEF NotAhead
    <3>1. CASE j # i
      BY <1>5, <2>2, <3>1 DEF NotAhead
    <3>2. CASE j = i
      <4>1. /\ after[i] # NoHistory /\ StateOf(after[i]) = s /\ StateOf(found[i]) = s
        BY <1>4, <1>5, <2>2, <2>5
      <4>2. Rank(StateOf(after[i])) = Rank(s) /\ Rank(StateOf(found[i])) = Rank(s)
        BY <4>1, Zenon
      <4>3. Rank(StateOf(found[i])) <= Rank(StateOf(after[i]))
        BY <1>2, <4>2
      <4> QED
        BY <3>2, <4>1, <4>3
    <3> QED
      BY <3>1, <3>2
  <2> QED
    BY <1>6, <1>7, <2>6, <2>7 DEF found
<1> QED
  BY <1>8, <1>9

\* A line that is JSON is neither torn nor corrupt.
LEMMA EntryIsJson == \A line \in Entries : line \notin {TornLine, CorruptLine}
<1> SUFFICES ASSUME NEW line \in Entries PROVE line \notin {TornLine, CorruptLine}
  OBVIOUS
<1>1. line.op \in {"create", "transition"}
  BY DEF Entries
<1>2. TornLine.op = "torn" /\ CorruptLine.op = "corrupt"
  BY DEF TornLine, CorruptLine
<1> QED
  BY <1>1, <1>2

\* The recovery of a WAL that got one more line.
LEMMA LongerRecovery ==
  ASSUME NEW log \in Seq(Lines), NEW line \in Lines, NEW base, NEW offset,
         NEW dicts, NEW lines, Recovery(log, base, offset, dicts, lines),
         NEW dict \in Images, NEW n \in Nat, OrderlyImage(dict),
         Turn(line, offset, dicts[Len(log)], lines[Len(log)], dict, n)
  PROVE  \E d, l : /\ Recovery(Append(log, line), base, offset, d, l)
                   /\ d[Len(log) + 1] = dict /\ l[Len(log) + 1] = n
<1> DEFINE len == Len(log)
           longer == Append(log, line)
           d == [k \in 0..(len + 1) |-> IF k <= len THEN dicts[k] ELSE dict]
           l == [k \in 0..(len + 1) |-> IF k <= len THEN lines[k] ELSE n]
<1>1. /\ len \in Nat /\ Len(longer) = len + 1 /\ longer[len + 1] = line
      /\ \A k \in 1..len : longer[k] = log[k]
  BY LenProperties, AppendProperties
<1>2. /\ dicts \in [0..len -> Images] /\ lines \in [0..len -> Nat]
      /\ dicts[0] = base /\ lines[0] = 0
      /\ \A k \in 1..len :
           Turn(log[k], offset, dicts[k - 1], lines[k - 1], dicts[k], lines[k])
      /\ \A k \in 0..len : lines[k] <= lines[len] /\ OrderlyImage(dicts[k])
  BY DEF Recovery
<1>3. /\ d \in [0..(len + 1) -> Images] /\ l \in [0..(len + 1) -> Nat]
      /\ \A k \in 0..len : d[k] = dicts[k] /\ l[k] = lines[k]
      /\ d[len + 1] = dict /\ l[len + 1] = n
  BY <1>1, <1>2
<1>4. \A k \in 0..len : lines[k] \in Nat
  BY <1>2
<1>5. Turn(line, offset, dicts[len], lines[len], dict, n)
  OBVIOUS
<1> HIDE DEF d, l, len, longer
<1>6. lines[len] <= n
  BY <1>1, <1>4, <1>5 DEF Turn
<1>7. d[0] = base /\ l[0] = 0
  BY <1>1, <1>2, <1>3
<1>8. ASSUME NEW k \in 1..(len + 1)
      PROVE  Turn(longer[k], offset, d[k - 1], l[k - 1], d[k], l[k])
  <2>1. CASE k \in 1..len
    <3>1. k - 1 \in 0..len /\ k \in 0..len
      BY <1>1, <2>1
    <3>2. /\ longer[k] = log[k] /\ d[k - 1] = dicts[k - 1] /\ d[k] = dicts[k]
          /\ l[k - 1] = lines[k - 1] /\ l[k] = lines[k]
      BY <1>1, <1>3, <2>1, <3>1
    <3>3. Turn(log[k], offset, dicts[k - 1], lines[k - 1], dicts[k], lines[k])
      BY <1>2, <2>1
    <3> QED
      BY <3>2, <3>3, Zenon
  <2>2. CASE k = len + 1
    <3>1. k - 1 = len /\ len \in 0..len
      BY <1>1, <2>2
    <3>2. /\ longer[k] = line /\ d[k - 1] = dicts[len] /\ d[k] = dict
          /\ l[k - 1] = lines[len] /\ l[k] = n
      BY <1>1, <1>3, <2>2, <3>1
    <3> QED
      BY <1>5, <3>2, Zenon
  <2> QED
    BY <1>1, <2>1, <2>2
<1>9. ASSUME NEW k \in 0..(len + 1)
      PROVE  l[k] <= l[len + 1] /\ OrderlyImage(d[k])
  <2>1. CASE k \in 0..len
    <3>1. lines[k] <= lines[len] /\ OrderlyImage(dicts[k])
      BY <1>2, <2>1
    <3>2. lines[k] \in Nat /\ lines[len] \in Nat
      BY <1>1, <1>4, <2>1
    <3>3. l[k] <= l[len + 1]
      BY <1>3, <1>6, <2>1, <3>1, <3>2
    <3>4. d[k] = dicts[k]
      BY <1>3, <2>1
    <3>5. OrderlyImage(d[k])
      BY <3>1, <3>4, Zenon
    <3> QED
      BY <3>3, <3>5
  <2>2. CASE k = len + 1
    <3>1. l[k] <= l[len + 1]
      BY <1>3, <2>2
    <3>2. d[k] = dict
      BY <1>3, <2>2
    <3>3. OrderlyImage(d[k])
      BY <3>2, Zenon
    <3> QED
      BY <3>1, <3>3
  <2> QED
    BY <1>1, <2>1, <2>2
<1>10. Recovery(longer, base, offset, d, l)
  BY <1>1, <1>3, <1>7, <1>8, <1>9 DEF Recovery
<1>11. /\ Recovery(Append(log, line), base, offset, d, l)
       /\ d[Len(log) + 1] = dict /\ l[Len(log) + 1] = n
  BY <1>3, <1>10 DEF len, longer
<1> QED
  BY <1>11, Zenon

\* Bytes glued to a torn line change nothing for recovery: neither is JSON.
LEMMA GluedRecovery ==
  ASSUME NEW log \in Seq(Lines), log # <<>>, log[Len(log)] = TornLine,
         NEW base, NEW offset, NEW dicts, NEW lines,
         Recovery(log, base, offset, dicts, lines)
  PROVE  Recovery([log EXCEPT ![Len(log)] = CorruptLine], base, offset, dicts, lines)
<1> DEFINE glued == [log EXCEPT ![Len(log)] = CorruptLine]
<1>1. Len(log) \in Nat /\ Len(log) \in 1..Len(log)
  BY EmptySeq
<1>2. /\ Len(glued) = Len(log) /\ glued[Len(log)] = CorruptLine
      /\ \A k \in 1..Len(log) : k # Len(log) => glued[k] = log[k]
  BY <1>1
<1> HIDE DEF glued
<1>3. ASSUME NEW k \in 1..Len(log)
      PROVE  Turn(glued[k], offset, dicts[k - 1], lines[k - 1], dicts[k], lines[k])
  <2>1. Turn(log[k], offset, dicts[k - 1], lines[k - 1], dicts[k], lines[k])
    BY DEF Recovery
  <2>2. CASE k # Len(log)
    <3>1. glued[k] = log[k]
      BY <1>2, <2>2
    <3> QED
      BY <2>1, <3>1, Zenon
  <2>3. CASE k = Len(log)
    <3>1. log[k] = TornLine /\ glued[k] = CorruptLine
      BY <1>2, <2>3
    <3> QED
      BY <2>1, <3>1 DEF Turn
  <2> QED
    BY <2>2, <2>3
<1>4. Recovery(glued, base, offset, dicts, lines)
  BY <1>2, <1>3 DEF Recovery
<1> QED
  BY <1>4 DEF glued

\* What the next recovery finds after _append_log: the line was glued to a torn one,
\* is skipped as covered by the snapshot, or is replayed.
LEMMA AppendedRecovery ==
  ASSUME TypeInv, NEW line \in Entries, AppendLog(line), snap' = snap,
         NEW dicts, NEW lines, Recovery(wal, Base, Offset, dicts, lines),
         lines[Len(wal)] <= walLines,
         NEW after, NotAhead(dicts[Len(wal)], after),
         OrderlyImage(Apply(dicts[Len(wal)], line)),
         NotAhead(Apply(dicts[Len(wal)], line), after)
  PROVE  \E d, l : /\ Recovery(wal', Base', Offset', d, l)
                   /\ NotAhead(d[Len(wal')], after)
                   /\ l[Len(wal')] <= walLines'
<1>0. /\ wal \in Seq(Lines) /\ Len(wal) \in Nat /\ walLines \in Nat /\ snap \in Snapshots
  BY DEF TypeInv, TypeOK
<1>1. Base' = Base /\ Offset' = Offset
  BY DEF Base, Offset
<1>2. walLines' = walLines + 1
  BY DEF AppendLog
<1>3. /\ dicts[Len(wal)] \in Images /\ lines[Len(wal)] \in Nat
      /\ OrderlyImage(dicts[Len(wal)])
  BY <1>0 DEF Recovery
<1>4. CASE Glued
  <2>1. wal' = [wal EXCEPT ![Len(wal)] = CorruptLine]
    BY <1>4 DEF AppendLog
  <2>2. Len(wal') = Len(wal)
    BY <1>0, <2>1
  <2>3. Recovery(wal', Base, Offset, dicts, lines)
    BY <1>0, <1>4, <2>1, GluedRecovery DEF Glued
  <2>4. lines[Len(wal)] <= walLines'
    BY <1>0, <1>2, <1>3
  <2>5. /\ Recovery(wal', Base', Offset', dicts, lines)
        /\ NotAhead(dicts[Len(wal')], after)
        /\ lines[Len(wal')] <= walLines'
    BY <1>1, <2>2, <2>3, <2>4
  <2> QED
    BY <2>5, Zenon
<1>5. CASE ~Glued
  <2> DEFINE old == dicts[Len(wal)]
             n == lines[Len(wal)]
             dict == IF n + 1 <= Offset THEN old ELSE Apply(old, line)
  <2>1. wal' = Append(wal, line)
    BY <1>5 DEF AppendLog
  <2>2. line \in Lines /\ line \notin {TornLine, CorruptLine}
    BY EntryIsJson DEF Lines
  <2>3. Apply(old, line) \in Images
    BY <1>3, <2>2, ApplyType
  <2>4. dict \in Images /\ OrderlyImage(dict) /\ NotAhead(dict, after)
    BY <1>3, <2>3
  <2>5. Turn(line, Offset, old, n, dict, n + 1)
    BY <2>2 DEF Turn
  <2>6. n + 1 \in Nat
    BY <1>3
  <2> HIDE DEF dict
  <2>7. PICK d, l : /\ Recovery(Append(wal, line), Base, Offset, d, l)
                    /\ d[Len(wal) + 1] = dict /\ l[Len(wal) + 1] = n + 1
    BY <1>0, <2>2, <2>4, <2>5, <2>6, LongerRecovery
  <2>8. Len(wal') = Len(wal) + 1
    BY <1>0, <2>1, <2>2
  <2>9. Recovery(wal', Base', Offset', d, l)
    BY <1>1, <2>1, <2>7
  <2>10. d[Len(wal')] = dict /\ l[Len(wal')] = n + 1
    BY <2>7, <2>8
  <2>11. NotAhead(d[Len(wal')], after)
    BY <2>4, <2>10, Zenon
  <2>12. l[Len(wal')] <= walLines'
    BY <1>0, <1>2, <1>3, <2>10
  <2> QED
    BY <2>9, <2>11, <2>12, Zenon
<1> QED
  BY <1>4, <1>5

\* What the proof of a step knows of the state before it.
LEMMA RecoveryFacts ==
  ASSUME TypeInv, NEW dicts, NEW lines, Recovery(wal, Base, Offset, dicts, lines)
  PROVE  /\ wal \in Seq(Lines) /\ Len(wal) \in Nat /\ walLines \in Nat
         /\ snap \in Snapshots /\ intents \in Images /\ allocated \subseteq Ids
         /\ pc \in Phases /\ cursor \in 0..Len(wal) /\ index \in 0..cursor
         /\ Base \in Images /\ Offset \in Nat
         /\ snap.version = 0 \/ snap.version = 1
         /\ dicts \in [0..Len(wal) -> Images] /\ lines \in [0..Len(wal) -> Nat]
         /\ dicts[Len(wal)] \in Images /\ lines[Len(wal)] \in Nat
         /\ OrderlyImage(dicts[Len(wal)]) /\ OrderlyImage(Base)
<1>1. /\ wal \in Seq(Lines) /\ Len(wal) \in Nat /\ walLines \in Nat
      /\ snap \in Snapshots /\ intents \in Images /\ allocated \subseteq Ids
      /\ pc \in Phases /\ cursor \in 0..Len(wal) /\ index \in 0..cursor
  BY DEF TypeInv, TypeOK
<1>2. /\ snap.version = 0 \/ snap.version = 1
      /\ snap.version = 1 => snap.intents \in Images /\ snap.walLines \in Nat
  BY <1>1 DEF Snapshots, NoSnapshot
<1>3. Base \in Images /\ Offset \in Nat
  BY <1>2, NoIntentsOrderly DEF Base, Offset
<1>4. /\ dicts \in [0..Len(wal) -> Images] /\ lines \in [0..Len(wal) -> Nat]
      /\ dicts[0] = Base
      /\ \A k \in 0..Len(wal) : OrderlyImage(dicts[k])
  BY DEF Recovery
<1>5. 0 \in 0..Len(wal) /\ Len(wal) \in 0..Len(wal)
  BY <1>1
<1>6. OrderlyImage(Base)
  <2>1. OrderlyImage(dicts[0])
    BY <1>4, <1>5
  <2> QED
    BY <1>4, <2>1, Zenon
<1> QED
  BY <1>1, <1>2, <1>3, <1>4, <1>5, <1>6

\* A step that leaves the two files alone leaves their recovery alone.
LEMMA SameRecovery ==
  ASSUME NEW dicts, NEW lines, Recovery(wal, Base, Offset, dicts, lines),
         wal' = wal, snap' = snap, Served', Recoverable(dicts, lines)'
  PROVE  RecoveryInv'
<1>1. Base' = Base /\ Offset' = Offset
  BY DEF Base, Offset
<1>2. Recovery(wal', Base', Offset', dicts, lines)
  BY <1>1
<1> QED
  BY <1>2, Zenon DEF RecoveryInv

\* A snapshot that covers every line makes recovery skip every line: the counter it
\* stores is at least the number of lines recovery counts.
LEMMA CoveredRecovery ==
  ASSUME NEW log \in Seq(Lines), NEW base, NEW offset \in Nat, NEW dicts, NEW lines,
         Recovery(log, base, offset, dicts, lines),
         NEW dict \in Images, OrderlyImage(dict),
         NEW covered \in Nat, lines[Len(log)] <= covered
  PROVE  Recovery(log, dict, covered, [k \in 0..Len(log) |-> dict], lines)
<1> DEFINE d == [k \in 0..Len(log) |-> dict]
<1>1. Len(log) \in Nat
  OBVIOUS
<1>2. /\ lines \in [0..Len(log) -> Nat] /\ lines[0] = 0
      /\ \A k \in 1..Len(log) :
           Turn(log[k], offset, dicts[k - 1], lines[k - 1], dicts[k], lines[k])
      /\ \A k \in 0..Len(log) : lines[k] <= lines[Len(log)]
  BY DEF Recovery
<1>3. /\ d \in [0..Len(log) -> Images] /\ \A k \in 0..Len(log) : d[k] = dict
  OBVIOUS
<1> HIDE DEF d
<1>4. ASSUME NEW k \in 1..Len(log)
      PROVE  Turn(log[k], covered, d[k - 1], lines[k - 1], d[k], lines[k])
  <2>1. k \in 0..Len(log) /\ k - 1 \in 0..Len(log)
    BY <1>1
  <2>2. d[k] = dict /\ d[k - 1] = dict
    BY <1>3, <2>1
  <2>3. /\ lines[k] \in Nat /\ lines[k - 1] \in Nat /\ lines[Len(log)] \in Nat
        /\ lines[k] <= covered
    BY <1>1, <1>2, <2>1
  <2>4. Turn(log[k], offset, dicts[k - 1], lines[k - 1], dicts[k], lines[k])
    BY <1>2
  <2>5. CASE log[k] \in {TornLine, CorruptLine}
    BY <2>2, <2>4, <2>5 DEF Turn
  <2>6. CASE log[k] \notin {TornLine, CorruptLine}
    <3>1. lines[k] = lines[k - 1] + 1
      BY <2>4, <2>6 DEF Turn
    <3> QED
      BY <2>2, <2>3, <2>6, <3>1 DEF Turn
  <2> QED
    BY <2>5, <2>6
<1>5. d[0] = dict
  BY <1>1, <1>3
<1>6. \A k \in 0..Len(log) : OrderlyImage(d[k])
  BY <1>3, Zenon
<1>7. Recovery(log, dict, covered, d, lines)
  BY <1>2, <1>3, <1>4, <1>5, <1>6 DEF Recovery
<1> QED
  BY <1>7 DEF d

\* The recovery of an empty WAL is the snapshot.
LEMMA EmptyRecovery ==
  ASSUME NEW base \in Images, OrderlyImage(base), NEW offset
  PROVE  \E d, l : /\ Recovery(<<>>, base, offset, d, l)
                   /\ d[0] = base /\ l[0] = 0
<1> DEFINE d == [k \in 0..0 |-> base]
           l == [k \in 0..0 |-> 0]
<1>1. /\ d \in [0..0 -> Images] /\ l \in [0..0 -> Nat] /\ d[0] = base /\ l[0] = 0
  OBVIOUS
<1>2. Len(<<>>) = 0
  OBVIOUS
<1> HIDE DEF d, l
<1>3. \A k \in 0..0 : OrderlyImage(d[k]) /\ l[k] <= l[0]
  <2> SUFFICES ASSUME NEW k \in 0..0 PROVE OrderlyImage(d[k]) /\ l[k] <= l[0]
    OBVIOUS
  <2>1. d[k] = base /\ l[k] <= l[0]
    BY <1>1
  <2> QED
    BY <2>1, Zenon
<1>4. 1..0 = {}
  OBVIOUS
<1>5. Recovery(<<>>, base, offset, d, l)
  BY <1>1, <1>2, <1>3, <1>4 DEF Recovery
<1> QED
  BY <1>1, <1>5

\* Every step keeps the recovery the files would give orderly and not ahead of what
\* is served, under every fault.
LEMMA NextRecoveryInv ==
  ASSUME TypeInv, UnusedIds, RecoveryInv, [Next]_vars
  PROVE  RecoveryInv'
<1> USE StoreAssumption
<1>0. Served
  BY DEF RecoveryInv
<1> PICK dicts, lines :
      Recovery(wal, Base, Offset, dicts, lines) /\ Recoverable(dicts, lines)
  BY DEF RecoveryInv
<1> DEFINE last == dicts[Len(wal)]
           n == lines[Len(wal)]
<1>a. /\ wal \in Seq(Lines) /\ Len(wal) \in Nat /\ walLines \in Nat
      /\ snap \in Snapshots /\ intents \in Images /\ allocated \subseteq Ids
      /\ pc \in Phases /\ cursor \in 0..Len(wal) /\ index \in 0..cursor
      /\ Base \in Images /\ Offset \in Nat
      /\ snap.version = 0 \/ snap.version = 1
      /\ dicts \in [0..Len(wal) -> Images] /\ lines \in [0..Len(wal) -> Nat]
      /\ last \in Images /\ n \in Nat
      /\ OrderlyImage(last) /\ OrderlyImage(Base)
  BY RecoveryFacts
<1>b. pc \in Serving => /\ OrderlyImage(intents) /\ NotAhead(last, intents)
                        /\ n <= walLines
  BY <1>0 DEF Served, Recoverable
<1>1. CASE NextIntentId
  <2>1. wal' = wal /\ snap' = snap
    BY <1>1 DEF NextIntentId, disk
  <2>2. Served'
    BY <1>0, <1>1, <2>1 DEF NextIntentId, Served, Serving
  <2>3. Recoverable(dicts, lines)'
    BY <1>1, <2>1 DEF NextIntentId, Recoverable, Serving
  <2> QED
    BY <2>1, <2>2, <2>3, SameRecovery
<1>2. ASSUME NEW i \in Ids, Create(i) \/ CreateAppendFails(i) PROVE RecoveryInv'
  <2>1. /\ pc = "serving" /\ pc' = "serving" /\ i \in allocated /\ snap' = snap
        /\ intents' = [intents EXCEPT ![i] = <<"acknowledged">>]
    BY <1>2 DEF Create, CreateAppendFails, disk
  <2>2. intents[i] = NoHistory
    BY <2>1 DEF UnusedIds, Serving
  <2>3. pc \in Serving
    BY <2>1 DEF Serving
  <2>4. /\ OrderlyImage(intents') /\ NotAhead(last, intents')
        /\ OrderlyImage(Apply(last, CreateLine(i)))
        /\ NotAhead(Apply(last, CreateLine(i)), intents')
    BY <1>a, <1>b, <2>1, <2>2, <2>3, CreateKeeps
  <2>5. Served'
    BY <2>1, <2>4 DEF Served
  <2>6. CASE Create(i)
    <3>1. CreateLine(i) \in Entries /\ AppendLog(CreateLine(i))
      BY <2>6, ForwardStates DEF Create, CreateLine, Entries
    <3>2. PICK d, l : /\ Recovery(wal', Base', Offset', d, l)
                      /\ NotAhead(d[Len(wal')], intents')
                      /\ l[Len(wal')] <= walLines'
      BY <1>b, <2>1, <2>3, <2>4, <3>1, AppendedRecovery
    <3>3. Recoverable(d, l)'
      BY <2>1, <3>2 DEF Recoverable
    <3> QED
      BY <2>5, <3>2, <3>3 DEF RecoveryInv
  <2>7. CASE CreateAppendFails(i)
    <3>1. wal' = wal /\ walLines' = walLines
      BY <2>7 DEF CreateAppendFails, disk
    <3>2. Recoverable(dicts, lines)'
      BY <1>b, <2>1, <2>3, <2>4, <3>1 DEF Recoverable
    <3> QED
      BY <2>1, <2>5, <3>1, <3>2, SameRecovery
  <2> QED
    BY <1>2, <2>6, <2>7
<1>3. ASSUME NEW i \in Ids, NEW s \in States,
             Transition(i, s) \/ TransitionAppendFails(i, s)
      PROVE  RecoveryInv'
  <2>1. /\ pc = "serving" /\ pc' \in {"serving", "snapshot"} /\ snap' = snap
        /\ intents[i] # NoHistory /\ s \in Forward[StateOf(intents[i])]
        /\ intents' = [intents EXCEPT ![i] = Append(@, s)]
    BY <1>3 DEF Transition, TransitionAppendFails, CanTransition, disk
  <2>2. pc \in Serving
    BY <2>1 DEF Serving
  <2>3. /\ OrderlyImage(intents') /\ NotAhead(last, intents')
        /\ OrderlyImage(Apply(last, TransitionLine(i, s)))
        /\ NotAhead(Apply(last, TransitionLine(i, s)), intents')
    <3> HIDE DEF last
    <3>1. /\ last \in Images /\ intents \in Images /\ OrderlyImage(last)
          /\ OrderlyImage(intents) /\ NotAhead(last, intents)
      BY <1>a, <1>b, <2>2
    <3>2. \A after : after = [intents EXCEPT ![i] = Append(@, s)] =>
            /\ OrderlyImage(after) /\ NotAhead(last, after)
            /\ OrderlyImage(Apply(last, TransitionLine(i, s)))
            /\ NotAhead(Apply(last, TransitionLine(i, s)), after)
      BY <2>1, <3>1, TransitionKeeps
    <3> QED
      BY <2>1, <3>2
  <2>4. Served'
    BY <2>1, <2>3 DEF Served
  <2>5. CASE Transition(i, s)
    <3>1. TransitionLine(i, s) \in Entries /\ AppendLog(TransitionLine(i, s))
      BY <2>5 DEF Transition, TransitionLine, Entries
    <3>2. PICK d, l : /\ Recovery(wal', Base', Offset', d, l)
                      /\ NotAhead(d[Len(wal')], intents')
                      /\ l[Len(wal')] <= walLines'
      BY <1>b, <2>1, <2>2, <2>3, <3>1, AppendedRecovery
    <3>3. Recoverable(d, l)'
      BY <2>1, <3>2 DEF Recoverable
    <3> QED
      BY <2>4, <3>2, <3>3 DEF RecoveryInv
  <2>6. CASE TransitionAppendFails(i, s)
    <3>1. wal' = wal /\ walLines' = walLines
      BY <2>6 DEF TransitionAppendFails, disk
    <3>2. Recoverable(dicts, lines)'
      BY <1>b, <2>1, <2>2, <2>3, <3>1 DEF Recoverable
    <3> QED
      BY <2>1, <2>4, <3>1, <3>2, SameRecovery
  <2> QED
    BY <1>3, <2>5, <2>6
<1>4. CASE WriteSnapshot
  <2>1. /\ pc = "snapshot" /\ pc' = "truncate" /\ wal' = wal
        /\ intents' = intents /\ walLines' = walLines
        /\ snap'.version = 1 /\ snap'.intents = intents /\ snap'.walLines = walLines
    BY <1>4 DEF WriteSnapshot, memory
  <2>2. pc \in Serving
    BY <2>1 DEF Serving
  <2>3. Base' = intents /\ Offset' = walLines
    BY <2>1 DEF Base, Offset
  <2> DEFINE d == [k \in 0..Len(wal) |-> intents]
  <2>4. Recovery(wal, intents, walLines, d, lines)
    BY <1>a, <1>b, <2>2, CoveredRecovery
  <2>5. d[Len(wal)] = intents
    BY <1>a
  <2> HIDE DEF d
  <2>6. NotAhead(intents, intents)
    BY <1>a, NotAheadSelf
  <2>7. NotAhead(d[Len(wal)], intents)
    BY <2>5, <2>6, Zenon
  <2>8. Served'
    BY <1>b, <2>1, <2>2 DEF Served
  <2>9. Recovery(wal', Base', Offset', d, lines)
    BY <2>1, <2>3, <2>4
  \* A name that priming leaves alone: d is about the state before the step.
  <2>10. PICK e : e = d
    OBVIOUS
  <2>11. NotAhead(e[Len(wal')], intents') /\ lines[Len(wal')] <= walLines'
    BY <1>b, <2>1, <2>2, <2>7, <2>10
  <2>12. Recoverable(e, lines)'
    BY <2>1, <2>11 DEF Recoverable
  <2>13. Recovery(wal', Base', Offset', e, lines)
    BY <2>9, <2>10
  <2> QED
    BY <2>8, <2>12, <2>13 DEF RecoveryInv
<1>5. CASE WriteSnapshotFails \/ CompactWalFails \/ UpdateSnapshotOffsetFails
  <2>1. /\ wal' = wal /\ snap' = snap /\ intents' = intents /\ walLines' = walLines
        /\ pc' = "serving" /\ pc \in Serving
    BY <1>5 DEF WriteSnapshotFails, CompactWalFails, UpdateSnapshotOffsetFails,
       memory, disk, Serving
  <2>2. Served'
    BY <1>b, <2>1 DEF Served
  <2>3. Recoverable(dicts, lines)'
    BY <1>b, <2>1 DEF Recoverable
  <2> QED
    BY <2>1, <2>2, <2>3, SameRecovery
<1>6. CASE CompactWal
  <2>1. /\ pc = "truncate" /\ pc' = "offset" /\ wal' = <<>> /\ snap' = snap
        /\ intents' = intents /\ walLines' = 0
    BY <1>6 DEF CompactWal
  <2>2. pc \in Serving
    BY <2>1 DEF Serving
  <2>3. snap.intents = intents /\ snap.version = 1
    BY <1>0, <2>1 DEF Served, TypeInv
  <2>4. Base' = intents
    BY <2>1, <2>3 DEF Base
  <2>5. PICK d, l : /\ Recovery(<<>>, intents, Offset, d, l) /\ d[0] = intents /\ l[0] = 0
    BY <1>a, <1>b, <2>2, EmptyRecovery
  <2>6. Len(wal') = 0
    BY <2>1
  <2>7. Offset' = Offset
    BY <2>1 DEF Offset
  <2>8. Recovery(wal', Base', Offset', d, l)
    BY <2>1, <2>4, <2>5, <2>7
  <2>9. NotAhead(intents, intents)
    BY <1>a, NotAheadSelf
  <2>10. NotAhead(d[Len(wal')], intents') /\ l[Len(wal')] <= walLines'
    BY <2>1, <2>5, <2>6, <2>9
  <2>11. Recoverable(d, l)'
    BY <2>1, <2>10 DEF Recoverable
  <2>12. Served'
    BY <1>b, <2>1, <2>2, <2>3 DEF Served
  <2> QED
    BY <2>8, <2>11, <2>12 DEF RecoveryInv
<1>7. CASE UpdateSnapshotOffset
  <2>1. /\ pc = "offset" /\ pc' = "serving" /\ wal' = wal
        /\ intents' = intents /\ walLines' = walLines
        /\ snap' = [snap EXCEPT !.walLines = 0]
    BY <1>7 DEF UpdateSnapshotOffset, memory
  <2>2. pc \in Serving
    BY <2>1 DEF Serving
  <2>3. wal = <<>> /\ snap.intents = intents /\ snap.version = 1
    BY <1>0, <2>1 DEF Served, TypeInv
  <2>4. snap'.version = 1 /\ snap'.intents = intents /\ snap'.walLines = 0
    BY <1>a, <2>1, <2>3 DEF Snapshots, NoSnapshot
  <2>5. Base' = intents
    BY <2>4 DEF Base
  <2>6. PICK d, l : /\ Recovery(<<>>, intents, 0, d, l) /\ d[0] = intents /\ l[0] = 0
    BY <1>a, <1>b, <2>2, EmptyRecovery
  <2>7. Len(wal') = 0 /\ wal' = <<>>
    BY <2>1, <2>3
  <2>8. Offset' = 0
    BY <2>4 DEF Offset
  <2>9. Recovery(wal', Base', Offset', d, l)
    BY <2>5, <2>6, <2>7, <2>8
  <2>10. NotAhead(intents, intents)
    BY <1>a, NotAheadSelf
  <2>11. NotAhead(d[Len(wal')], intents') /\ l[Len(wal')] <= walLines'
    BY <1>a, <2>1, <2>6, <2>7, <2>10
  <2>12. Recoverable(d, l)'
    BY <2>1, <2>11 DEF Recoverable
  <2>13. Served'
    BY <1>b, <2>1, <2>2 DEF Served
  <2> QED
    BY <2>9, <2>12, <2>13 DEF RecoveryInv
<1>8. CASE Crash
  <2>1. /\ wal' = wal /\ snap' = snap /\ pc' = "down" /\ intents' = NoIntents
        /\ skipUntil' = 0
    BY <1>8 DEF Crash, ResetMemory, disk
  <2>2. Served' /\ Recoverable(dicts, lines)'
    BY <2>1 DEF Served, Recoverable, Serving
  <2> QED
    BY <2>1, <2>2, SameRecovery
<1>9. CASE CrashInAppend
  <2>1. /\ snap' = snap /\ pc' = "down" /\ intents' = NoIntents /\ skipUntil' = 0
        /\ wal' = IF Glued THEN wal ELSE Append(wal, TornLine)
    BY <1>9 DEF CrashInAppend, ResetMemory
  <2>2. Served'
    BY <2>1 DEF Served, Serving
  <2>3. CASE Glued
    <3>1. Recoverable(dicts, lines)'
      BY <2>1 DEF Recoverable, Serving
    <3> QED
      BY <2>1, <2>2, <2>3, <3>1, SameRecovery
  <2>4. CASE ~Glued
    <3>1. TornLine \in Lines
      BY DEF Lines
    <3>2. Turn(TornLine, Offset, last, n, last, n)
      BY DEF Turn
    <3>3. PICK d, l : Recovery(Append(wal, TornLine), Base, Offset, d, l)
      BY <1>a, <3>1, <3>2, LongerRecovery
    <3>4. Base' = Base /\ Offset' = Offset
      BY <2>1 DEF Base, Offset
    <3>5. Recovery(wal', Base', Offset', d, l)
      BY <2>1, <2>4, <3>3, <3>4
    <3>6. Recoverable(d, l)'
      BY <2>1 DEF Recoverable, Serving
    <3> QED
      BY <2>2, <3>5, <3>6 DEF RecoveryInv
  <2> QED
    BY <2>3, <2>4
<1>10. CASE LoadSnapshot
  <2>1. /\ wal' = wal /\ snap' = snap /\ pc' = "replay" /\ pc = "down"
        /\ cursor' = cursor /\ index' = index
    BY <1>10 DEF LoadSnapshot, disk
  <2>2. /\ cursor = 0 /\ index = 0 /\ intents = NoIntents /\ skipUntil = 0
    BY <1>0, <2>1 DEF TypeInv, Served
  <2>3. intents' = Base /\ skipUntil' = Offset
    BY <1>10, <2>2 DEF LoadSnapshot, Base, Offset
  <2>4. Offset' = Offset
    BY <2>1 DEF Offset
  <2>5. Served'
    BY <2>1, <2>3, <2>4 DEF Served, Serving
  <2>6. dicts[0] = Base /\ lines[0] = 0
    BY DEF Recovery
  <2>7. Recoverable(dicts, lines)'
    BY <2>1, <2>2, <2>3, <2>6 DEF Recoverable, Serving
  <2> QED
    BY <2>1, <2>5, <2>7, SameRecovery
<1>11. CASE ReplayLine
  <2>1. /\ wal' = wal /\ snap' = snap /\ pc' = "replay" /\ pc = "replay"
        /\ cursor < Len(wal) /\ cursor' = cursor + 1 /\ skipUntil' = skipUntil
    BY <1>11 DEF ReplayLine, disk
  <2>2. /\ intents = dicts[cursor] /\ index = lines[cursor] /\ skipUntil = Offset
    BY <1>0, <2>1 DEF Recoverable, Served
  <2>3. cursor + 1 \in 1..Len(wal) /\ (cursor + 1) - 1 = cursor
    BY <1>a, <2>1
  <2>4. Turn(wal[cursor + 1], Offset, dicts[cursor], lines[cursor],
             dicts[cursor + 1], lines[cursor + 1])
    BY <2>3 DEF Recovery
  <2>5. intents' = dicts[cursor + 1] /\ index' = lines[cursor + 1]
    BY <1>11, <2>2, <2>4 DEF ReplayLine, Turn
  <2>6. Offset' = Offset
    BY <2>1 DEF Offset
  <2>7. Served'
    BY <2>1, <2>2, <2>6 DEF Served, Serving
  <2>8. Recoverable(dicts, lines)'
    BY <2>1, <2>5 DEF Recoverable, Serving
  <2> QED
    BY <2>1, <2>7, <2>8, SameRecovery
<1>12. CASE FinishLoad
  <2>1. /\ wal' = wal /\ snap' = snap /\ pc' = "serving" /\ pc = "replay"
        /\ cursor = Len(wal) /\ walLines' = index /\ intents' = intents
    BY <1>12 DEF FinishLoad, disk
  <2>2. intents = last /\ index = n
    BY <2>1 DEF Recoverable
  <2>3. OrderlyImage(intents') /\ NotAhead(last, intents')
    BY <1>a, <2>1, <2>2, NotAheadSelf
  <2>4. n <= walLines'
    BY <1>a, <2>1, <2>2
  <2>5. Served'
    BY <2>1, <2>3 DEF Served
  <2>6. Recoverable(dicts, lines)'
    BY <2>1, <2>3, <2>4 DEF Recoverable
  <2> QED
    BY <2>1, <2>5, <2>6, SameRecovery
<1>13. CASE UNCHANGED vars
  <2>1. /\ wal' = wal /\ snap' = snap /\ pc' = pc /\ intents' = intents
        /\ walLines' = walLines /\ cursor' = cursor /\ index' = index
        /\ skipUntil' = skipUntil
    BY <1>13 DEF vars, memory, disk
  <2>2. Offset' = Offset
    BY <2>1 DEF Offset
  <2>3. Served'
    BY <1>0, <2>1, <2>2 DEF Served
  <2>4. Recoverable(dicts, lines)'
    BY <2>1 DEF Recoverable
  <2> QED
    BY <2>1, <2>3, <2>4, SameRecovery
<1> QED
  BY <1>1, <1>2, <1>3, <1>4, <1>5, <1>6, <1>7, <1>8, <1>9, <1>10, <1>11, <1>12, <1>13
     DEF Next, Operate, Snapshot, Recover

\* An empty directory recovers to an empty dictionary.
LEMMA InitRecoveryInv == Init => RecoveryInv
<1> SUFFICES ASSUME Init PROVE RecoveryInv
  OBVIOUS
<1>1. Served
  BY DEF Init, Served, Serving
<1>2. Base = NoIntents /\ wal = <<>> /\ pc = "down"
  BY DEF Init, Base, NoSnapshot
<1>3. PICK d, l : Recovery(<<>>, NoIntents, Offset, d, l)
  BY NoIntentsOrderly, EmptyRecovery
<1>4. Recoverable(d, l)
  BY <1>2 DEF Recoverable, Serving
<1> QED
  BY <1>1, <1>2, <1>3, <1>4 DEF RecoveryInv

\* Under every fault of the model, recovery in store.py may lose entries but never
\* repeats or reorders them: a served history starts at "acknowledged" and only
\* moves forward in the order of the pipeline.
THEOREM OrderlyTheorem == Spec => []OrderlyHistories
<1>1. Init => UnusedIds
  BY DEF Init, UnusedIds, Serving
<1>2. TypeInv /\ UnusedIds /\ [Next]_vars => UnusedIds'
  BY NextUnusedIds
<1>3. TypeInv /\ UnusedIds /\ RecoveryInv /\ [Next]_vars => RecoveryInv'
  BY NextRecoveryInv
<1>4. RecoveryInv => OrderlyHistories
  BY DEF RecoveryInv, Served, OrderlyImage, Orderly, OrderlyHistories
<1> QED
  BY <1>1, <1>2, <1>3, <1>4, InitTypeInv, NextTypeInv, InitRecoveryInv, PTL DEF Spec
=============================================================================
