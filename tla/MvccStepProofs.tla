--------------------------- MODULE MvccStepProofs ---------------------------
(***************************************************************************)
(* The first half of the proofs about Mvcc: types, what a step does to the *)
(* commits in flight, the watermark, the registered snapshots, the intents.*)
(***************************************************************************)
EXTENDS Mvcc, TLAPS

(***************************************************************************)
(* Lookups.                                                                *)
(***************************************************************************)
LEMMA NewestSubset ==
  ASSUME NEW S, NEW s
  PROVE  NewestAt(S, s) \subseteq S
BY DEF NewestAt

\* reclaim_covered drains versions of the key only.
LEMMA DrainedSubset ==
  ASSUME NEW S, NEW s
  PROVE  Drained(S, s) \subseteq S
BY DEF Drained

\* The timestamps of live versions are numbers.
LEMMA LiveAtType ==
  ASSUME NEW S, S \subseteq Version
  PROVE  LiveAt(S) \subseteq Nat
BY DEF LiveAt, Version

\* The idle build is a build.
LEMMA NoBuildType == NoBuild \in Build
BY DEF NoBuild, Build, Generation

(***************************************************************************)
(* Types, one lemma per group of variables.                                *)
(***************************************************************************)
LEMMA InitType == Init => TypeOK
<1> SUFFICES ASSUME Init PROVE TypeOK
  OBVIOUS
<1>1. TimestampsOK
  BY DEF Init, TimestampsOK
<1>2. StateOK
  BY DEF Init, StateOK
<1>3. TransactionsOK
  BY DEF Init, TransactionsOK, Phase, Operation
<1>4. ThreadsOK
  BY NoBuildType, Zenon DEF Init, ThreadsOK
<1> QED
  BY <1>1, <1>2, <1>3, <1>4 DEF TypeOK

\* complete_timestamp keeps the timestamps typed and never lowers the watermark.
LEMMA CompleteType ==
  ASSUME TimestampsOK, NEW timestamp \in Nat,
         timestamp > visible_through, timestamp < next_commit_timestamp,
         Complete(timestamp),
         UNCHANGED next_commit_timestamp
  PROVE  TimestampsOK' /\ visible_through <= visible_through'
BY DEF TimestampsOK, Complete

\* Every step keeps the transactions' variables typed.
LEMMA TransactionsTyped ==
  ASSUME TypeOK, [Next]_vars
  PROVE  TransactionsOK'
<1> USE DEF TypeOK, TransactionsOK, Phase, Operation
<1>1. ASSUME NEW t \in Txns, TxnStep(t)
      PROVE  TransactionsOK'
  <2>1. CASE Begin(t)
    BY <2>1 DEF Begin, TimestampsOK
  <2>2. CASE ProtectScans(t)
    BY <2>2 DEF ProtectScans
  <2>3. CASE Rollback(t)
    BY <2>3 DEF Rollback, Dropped
  <2>4. ASSUME NEW k \in Keys, NEW op \in {"put", "delete"}, Write(t, k, op)
        PROVE  TransactionsOK'
    BY <2>4 DEF Write
  <2>5. ASSUME NEW p \in Prefixes, RecordScan(t, p)
        PROVE  TransactionsOK'
    BY <2>5 DEF RecordScan
  <2>6. CASE PrepareCommit(t)
    BY <2>6 DEF PrepareCommit, TimestampsOK
  <2>7. CASE CommitConflict(t)
    BY <2>7 DEF CommitConflict
  <2>8. CASE PersistCommit(t) \/ PersistFailure(t)
    BY <2>8 DEF PersistCommit, PersistFailure
  <2>9. CASE FinishCommit(t) \/ FinishAbort(t)
    BY <2>9 DEF FinishCommit, FinishAbort
  <2>10. CASE MarkIndexDirty(t)
    BY <2>10 DEF MarkIndexDirty
  <2>11. CASE EndTransaction(t)
    BY <2>11 DEF EndTransaction, Dropped
  <2> QED
    BY <1>1, <2>1, <2>2, <2>3, <2>4, <2>5, <2>6, <2>7, <2>8, <2>9, <2>10, <2>11
    DEF TxnStep
<1>2. CASE PublisherWake
  BY <1>2 DEF PublisherWake, txnVars
<1>3. ASSUME NEW b \in Builders, BuilderStep(b)
      PROVE  TransactionsOK'
  BY <1>3 DEF BuilderStep, CallRebuild, Publish, RebuildFailure, txnVars
<1>4. CASE UNCHANGED vars
  BY <1>4 DEF vars, txnVars
<1> QED
  BY <1>1, <1>2, <1>3, <1>4 DEF Next

\* The entries a rebuild captures are typed.
LEMMA CapturedType ==
  ASSUME TypeOK, NEW base \in SUBSET generations
  PROVE  CapturedEntries(base) \in [Keys -> SUBSET Nat]
<1> SUFFICES ASSUME NEW k \in Keys
             PROVE  /\ LiveAt(NewestAt(versions[k], visible_through)) \subseteq Nat
                    /\ UNION {g.entries[k] : g \in base} \subseteq Nat
  BY DEF CapturedEntries
<1>1. versions[k] \subseteq Version
  BY DEF TypeOK, StateOK
<1>2. NewestAt(versions[k], visible_through) \subseteq Version
  BY <1>1, NewestSubset
<1>3. LiveAt(NewestAt(versions[k], visible_through)) \subseteq Nat
  BY <1>2, LiveAtType
<1>4. \A g \in base : g.entries[k] \subseteq Nat
  BY DEF TypeOK, StateOK, Generation
<1> QED
  BY <1>3, <1>4

\* A capture keeps the builds typed.
LEMMA CaptureType ==
  ASSUME TypeOK, NEW b \in Builders, Capture(b)
  PROVE  build' \in [Builders -> Build]
<1>1. CapturedEntries(LatestGeneration) \in [Keys -> SUBSET Nat]
  BY CapturedType DEF LatestGeneration
<1>2. [timestamp |-> visible_through,
       entries |-> CapturedEntries(LatestGeneration)] \in Generation
  BY <1>1 DEF TypeOK, TimestampsOK, Generation
<1>3. build' = [build EXCEPT ![b] =
                  [running |-> TRUE,
                   generation |-> [timestamp |-> visible_through,
                                   entries |-> CapturedEntries(LatestGeneration)]]]
  BY DEF Capture
<1> HIDE DEF Capture
<1> DEFINE g == [timestamp |-> visible_through,
                 entries |-> CapturedEntries(LatestGeneration)]
<1>4. [running |-> TRUE, generation |-> g] \in Build
  BY <1>2 DEF Build
<1> QED
  BY <1>3, <1>4 DEF TypeOK, ThreadsOK

\* Every step keeps the rebuilding threads' variables typed.
LEMMA ThreadsTyped ==
  ASSUME TypeOK, [Next]_vars
  PROVE  ThreadsOK'
<1> USE DEF TypeOK, ThreadsOK
<1>1. ASSUME NEW t \in Txns, TxnStep(t)
      PROVE  ThreadsOK'
  <2>1. /\ UNCHANGED build
        /\ signal_dirty' \in {signal_dirty, TRUE}
        /\ poisoned' \in {poisoned, TRUE}
    BY <1>1 DEF TxnStep, Begin, ProtectScans, Rollback, Write, RecordScan,
       PrepareCommit, CommitConflict, PersistCommit, PersistFailure,
       FinishCommit, FinishAbort, MarkIndexDirty, EndTransaction
  <2>2. range_protected' \in [Txns -> BOOLEAN]
    <3>1. \/ UNCHANGED range_protected
          \/ range_protected' = [range_protected EXCEPT ![t] = TRUE]
          \/ range_protected' = [range_protected EXCEPT ![t] = FALSE]
      BY <1>1 DEF TxnStep, Begin, ProtectScans, Rollback, Write, RecordScan,
         PrepareCommit, CommitConflict, PersistCommit, PersistFailure,
         FinishCommit, FinishAbort, MarkIndexDirty, EndTransaction, Dropped
    <3> QED
      BY <3>1, Zenon
  <2> QED
    BY <2>1, <2>2
<1>2. CASE PublisherWake
  BY <1>2, CaptureType DEF PublisherWake, Builders, txnVars
<1>3. ASSUME NEW b \in Builders, BuilderStep(b)
      PROVE  ThreadsOK'
  BY <1>3, CaptureType, NoBuildType
  DEF BuilderStep, CallRebuild, Publish, RebuildFailure, txnVars
<1>4. CASE UNCHANGED vars
  BY <1>4 DEF vars, txnVars
<1> QED
  BY <1>1, <1>2, <1>3, <1>4 DEF Next

\* Every step keeps the variables under the state lock typed.
LEMMA StateTyped ==
  ASSUME TypeOK, [Next]_vars
  PROVE  StateOK'
<1> USE DEF TypeOK, StateOK
<1>1. ASSUME NEW t \in Txns, FinishCommit(t)
      PROVE  StateOK'
  <2>1. [timestamp |-> commit_timestamp[t], snapshot |-> snapshot[t],
         writes |-> writes[t], scanned |-> scanned_prefixes[t]] \in Commit
    BY DEF TransactionsOK, Commit
  <2>2. committed' \in SUBSET Commit
    BY <1>1, <2>1 DEF FinishCommit
  <2>3. \A k \in Keys : [timestamp |-> commit_timestamp[t],
                         live |-> writes[t][k] = "put"] \in Version
    BY DEF TransactionsOK, Version
  <2>4. versions' \in [Keys -> SUBSET Version]
    BY <1>1, <2>3 DEF FinishCommit
  <2> QED
    BY <1>1, <2>2, <2>4 DEF FinishCommit, ReleasedIntents, Written
<1>2. ASSUME NEW t \in Txns, TxnStep(t), ~ FinishCommit(t)
      PROVE  StateOK'
  BY <1>2 DEF TxnStep, Begin, ProtectScans, Rollback, Write, RecordScan,
     PrepareCommit, CommitConflict, PersistCommit, PersistFailure,
     FinishAbort, MarkIndexDirty, EndTransaction, ReleasedIntents, lockVars
<1>3. CASE PublisherWake
  BY <1>3 DEF PublisherWake, lockVars
<1>4. ASSUME NEW b \in Builders, Publish(b)
      PROVE  StateOK'
  <2>1. build[b].generation \in Generation
    BY DEF ThreadsOK, Build
  <2>2. generations' \in SUBSET Generation
    BY <1>4, <2>1, DrainedSubset DEF Publish, ReclaimCovered
  <2>3. versions' \in [Keys -> SUBSET Version]
    BY <1>4, DrainedSubset DEF Publish, ReclaimCovered
  <2> QED
    BY <1>4, <2>2, <2>3 DEF Publish
<1>5. ASSUME NEW b \in Builders, BuilderStep(b), ~ Publish(b)
      PROVE  StateOK'
  BY <1>5 DEF BuilderStep, CallRebuild, RebuildFailure, lockVars
<1>6. CASE UNCHANGED vars
  BY <1>6 DEF vars, lockVars
<1> QED
  BY <1>1, <1>2, <1>3, <1>4, <1>5, <1>6 DEF Next

(***************************************************************************)
(* What a step can do to the commits in flight: three actions change them, *)
(* and no other action touches anything prepare_commit decided on.         *)
(***************************************************************************)
Quiet ==
  /\ UNCHANGED <<intents, completed_timestamps, next_commit_timestamp,
                 visible_through, committed, commit_timestamp>>
  /\ \A t \in Txns : InFlight(t)' <=> InFlight(t)
  /\ \A t \in Txns : InFlight(t) => /\ writes'[t] = writes[t]
                                    /\ scanned_prefixes'[t] = scanned_prefixes[t]
                                    /\ snapshot'[t] = snapshot[t]

\* Only preparing and finishing change which commits are in flight.
LEMMA FlightSteps ==
  ASSUME TypeOK, [Next]_vars
  PROVE  \/ Quiet
         \/ \E t \in Txns : PrepareCommit(t) \/ FinishCommit(t) \/ FinishAbort(t)
<1> USE DEF TypeOK, TransactionsOK, Quiet, InFlight
<1>1. ASSUME NEW t \in Txns, TxnStep(t),
             ~ PrepareCommit(t), ~ FinishCommit(t), ~ FinishAbort(t)
      PROVE  Quiet
  <2>1. CASE Begin(t)
    BY <2>1 DEF Begin
  <2>2. CASE ProtectScans(t)
    BY <2>2 DEF ProtectScans, lockVars
  <2>3. CASE Rollback(t)
    BY <2>3 DEF Rollback, Dropped
  <2>4. ASSUME NEW k \in Keys, NEW op \in {"put", "delete"}, Write(t, k, op)
        PROVE  Quiet
    BY <2>4 DEF Write, lockVars
  <2>5. ASSUME NEW p \in Prefixes, RecordScan(t, p)
        PROVE  Quiet
    BY <2>5 DEF RecordScan, lockVars
  <2>6. CASE CommitConflict(t)
    BY <2>6 DEF CommitConflict, lockVars
  <2>7. CASE PersistCommit(t) \/ PersistFailure(t)
    BY <2>7 DEF PersistCommit, PersistFailure, lockVars
  <2>8. CASE MarkIndexDirty(t)
    BY <2>8 DEF MarkIndexDirty, lockVars
  <2>9. CASE EndTransaction(t)
    BY <2>9 DEF EndTransaction, Dropped
  <2> QED
    BY <1>1, <2>1, <2>2, <2>3, <2>4, <2>5, <2>6, <2>7, <2>8, <2>9 DEF TxnStep
<1>2. CASE PublisherWake
  BY <1>2 DEF PublisherWake, txnVars, lockVars
<1>3. ASSUME NEW b \in Builders, BuilderStep(b)
      PROVE  Quiet
  BY <1>3 DEF BuilderStep, CallRebuild, Publish, RebuildFailure, txnVars, lockVars
<1>4. CASE UNCHANGED vars
  BY <1>4 DEF vars, txnVars, lockVars
<1> HIDE DEF TypeOK, TransactionsOK, Quiet, InFlight
<1> QED
  BY <1>1, <1>2, <1>3, <1>4 DEF Next

\* Only begin, rollback and the end of a transaction touch the registry.
LEMMA OtherSteps ==
  ASSUME TypeOK, NEW t \in Txns, TxnStep(t),
         ~ Begin(t), ~ Rollback(t), ~ EndTransaction(t)
  PROVE  /\ UNCHANGED <<active, snapshot>>
         /\ \A u \in Txns : phase'[u] \in {"idle", "done"} <=> phase[u] \in {"idle", "done"}
<1> USE DEF TypeOK, TransactionsOK
<1> DEFINE Done == /\ UNCHANGED <<active, snapshot>>
                   /\ \A u \in Txns : phase'[u] \in {"idle", "done"} <=> phase[u] \in {"idle", "done"}
<1>1. CASE ProtectScans(t)
  BY <1>1 DEF ProtectScans, lockVars
<1>2. ASSUME NEW k \in Keys, NEW op \in {"put", "delete"}, Write(t, k, op)
      PROVE  Done
  BY <1>2 DEF Write, lockVars
<1>3. ASSUME NEW p \in Prefixes, RecordScan(t, p)
      PROVE  Done
  BY <1>3 DEF RecordScan, lockVars
<1>4. CASE PrepareCommit(t)
  BY <1>4 DEF PrepareCommit
<1>5. CASE CommitConflict(t)
  BY <1>5 DEF CommitConflict, lockVars
<1>6. CASE PersistCommit(t) \/ PersistFailure(t)
  BY <1>6 DEF PersistCommit, PersistFailure, lockVars
<1>7. CASE FinishCommit(t)
  BY <1>7 DEF FinishCommit
<1>8. CASE FinishAbort(t)
  BY <1>8 DEF FinishAbort
<1>9. CASE MarkIndexDirty(t)
  BY <1>9 DEF MarkIndexDirty, lockVars
<1> HIDE DEF TypeOK, TransactionsOK, Done
<1>10. Done
  BY <1>1, <1>2, <1>3, <1>4, <1>5, <1>6, <1>7, <1>8, <1>9 DEF TxnStep, Done
<1> QED
  BY <1>10 DEF Done

(***************************************************************************)
(* The watermark.                                                          *)
(***************************************************************************)
LEMMA InFlightTimestamp ==
  ASSUME TypeOK, WatermarkExact, NEW t \in Txns, InFlight(t)
  PROVE  /\ commit_timestamp[t] \in Nat
         /\ commit_timestamp[t] > visible_through
         /\ commit_timestamp[t] < next_commit_timestamp
BY DEF TypeOK, TransactionsOK, WatermarkExact

\* Every step keeps the timestamps typed, and they never go back.
LEMMA TimestampsTyped ==
  ASSUME TypeOK, WatermarkExact, [Next]_vars
  PROVE  TimestampsOK' /\ visible_through <= visible_through'
                       /\ next_commit_timestamp <= next_commit_timestamp'
<1> USE DEF TypeOK
<1>1. CASE Quiet
  BY <1>1 DEF Quiet, TimestampsOK
<1>2. ASSUME NEW t \in Txns, PrepareCommit(t)
      PROVE  TimestampsOK' /\ UNCHANGED visible_through
             /\ next_commit_timestamp <= next_commit_timestamp'
  BY <1>2 DEF PrepareCommit, TimestampsOK
<1>3. ASSUME NEW t \in Txns, FinishCommit(t) \/ FinishAbort(t)
      PROVE  TimestampsOK' /\ visible_through <= visible_through'
             /\ UNCHANGED next_commit_timestamp
  <2>1. /\ InFlight(t)
        /\ Complete(commit_timestamp[t])
        /\ UNCHANGED next_commit_timestamp
    BY <1>3 DEF FinishCommit, FinishAbort, InFlight
  <2> QED
    BY <2>1, InFlightTimestamp, CompleteType
<1> QED
  BY <1>1, <1>2, <1>3, FlightSteps DEF TimestampsOK

\* The watermark after a commit t leaves, in terms of the commits still in
\* flight.
LEMMA CompleteExact ==
  ASSUME TypeOK, WatermarkExact, NEW t \in Txns, InFlight(t),
         Complete(commit_timestamp[t]),
         UNCHANGED <<next_commit_timestamp, commit_timestamp>>,
         \A u \in Txns : InFlight(u)' <=> InFlight(u) /\ u # t
  PROVE  WatermarkExact'
<1> DEFINE done == completed_timestamps \cup {commit_timestamp[t]}
<1>1. /\ commit_timestamp \in [Txns -> Nat]
      /\ next_commit_timestamp \in Nat
      /\ visible_through \in Nat
      /\ visible_through < next_commit_timestamp
      /\ completed_timestamps \subseteq
           (visible_through + 1) .. (next_commit_timestamp - 1)
  BY DEF TypeOK, TransactionsOK, TimestampsOK
<1>2. PICK n \in visible_through .. next_commit_timestamp - 1 :
        /\ (visible_through + 1) .. n \subseteq done
        /\ n + 1 \notin done
        /\ visible_through' = n
        /\ completed_timestamps' = done \ ((visible_through + 1) .. n)
  BY DEF Complete
<1>3. \A u \in Txns : InFlight(u)' => commit_timestamp[u] \notin done
  BY <1>1 DEF WatermarkExact
<1>4. \A u \in Txns : InFlight(u)' =>
        /\ commit_timestamp'[u] > visible_through'
        /\ commit_timestamp'[u] < next_commit_timestamp'
        /\ commit_timestamp'[u] \notin completed_timestamps'
  <2> SUFFICES ASSUME NEW u \in Txns, InFlight(u)'
               PROVE  /\ commit_timestamp[u] > n
                      /\ commit_timestamp[u] < next_commit_timestamp
                      /\ commit_timestamp[u] \notin completed_timestamps'
    BY <1>2
  <2>1. /\ commit_timestamp[u] > visible_through
        /\ commit_timestamp[u] < next_commit_timestamp
    BY DEF WatermarkExact
  <2>2. commit_timestamp[u] \notin (visible_through + 1) .. n
    BY <1>2, <1>3
  <2> QED
    BY <1>1, <1>2, <1>3, <2>1, <2>2
<1>5. visible_through' + 1 \notin completed_timestamps'
  BY <1>1, <1>2
<1>6. \A u, w \in Txns :
        InFlight(u)' /\ InFlight(w)' /\ commit_timestamp'[w] = commit_timestamp'[u]
          => w = u
  BY DEF WatermarkExact
<1>7. ASSUME NEW m \in (visible_through' + 1) .. (next_commit_timestamp' - 1)
      PROVE  \/ m \in completed_timestamps'
             \/ \E u \in Txns : InFlight(u)' /\ commit_timestamp'[u] = m
  <2>1. m \in (visible_through + 1) .. (next_commit_timestamp - 1) /\ m > n
    BY <1>1, <1>2
  <2>2. CASE m \in done
    BY <1>1, <1>2, <2>1, <2>2
  <2>3. CASE m \notin done
    <3>1. PICK u \in Txns : InFlight(u) /\ commit_timestamp[u] = m
      BY <2>1, <2>3 DEF WatermarkExact
    <3> QED
      BY <2>3, <3>1
  <2> QED
    BY <2>2, <2>3
<1> QED
  BY <1>4, <1>5, <1>6, <1>7 DEF WatermarkExact

\* Every step keeps the watermark just below the oldest unresolved commit.
LEMMA WatermarkPreserved ==
  ASSUME TypeOK, WatermarkExact, [Next]_vars
  PROVE  WatermarkExact'
<1>1. CASE Quiet
  BY <1>1 DEF Quiet, WatermarkExact
<1>2. ASSUME NEW t \in Txns, PrepareCommit(t)
      PROVE  WatermarkExact'
  <2>1. /\ \A u \in Txns : InFlight(u)' <=> InFlight(u) \/ u = t
        /\ commit_timestamp'[t] = next_commit_timestamp
        /\ \A u \in Txns : u # t => commit_timestamp'[u] = commit_timestamp[u]
        /\ ~ InFlight(t)
        /\ next_commit_timestamp' = next_commit_timestamp + 1
        /\ UNCHANGED <<visible_through, completed_timestamps>>
    BY <1>2 DEF PrepareCommit, InFlight, TypeOK, TransactionsOK
  <2>2. /\ commit_timestamp \in [Txns -> Nat]
        /\ next_commit_timestamp \in Nat
        /\ visible_through \in Nat
        /\ visible_through < next_commit_timestamp
        /\ completed_timestamps \subseteq
             (visible_through + 1) .. (next_commit_timestamp - 1)
    BY DEF TypeOK, TimestampsOK, TransactionsOK
  <2>3. \A u \in Txns : InFlight(u)' =>
          /\ commit_timestamp'[u] > visible_through'
          /\ commit_timestamp'[u] < next_commit_timestamp'
          /\ commit_timestamp'[u] \notin completed_timestamps'
    BY <2>1, <2>2 DEF WatermarkExact
  <2>4. \A u, w \in Txns :
          InFlight(u)' /\ InFlight(w)' /\ commit_timestamp'[w] = commit_timestamp'[u]
            => w = u
    BY <2>1, <2>2 DEF WatermarkExact
  <2>5. ASSUME NEW m \in (visible_through' + 1) .. (next_commit_timestamp' - 1)
        PROVE  \/ m \in completed_timestamps'
               \/ \E u \in Txns : InFlight(u)' /\ commit_timestamp'[u] = m
    <3>1. CASE m = next_commit_timestamp
      BY <2>1, <3>1
    <3>2. CASE m # next_commit_timestamp
      <4>1. m \in (visible_through + 1) .. (next_commit_timestamp - 1)
        BY <2>1, <2>2, <3>2
      <4> QED
        BY <2>1, <4>1 DEF WatermarkExact
    <3> QED
      BY <3>1, <3>2
  <2>6. visible_through' + 1 \notin completed_timestamps'
    BY <2>1 DEF WatermarkExact
  <2> QED
    BY <2>3, <2>4, <2>5, <2>6 DEF WatermarkExact
<1>3. ASSUME NEW t \in Txns, FinishCommit(t) \/ FinishAbort(t)
      PROVE  WatermarkExact'
  <2>1. /\ InFlight(t)
        /\ Complete(commit_timestamp[t])
        /\ UNCHANGED <<next_commit_timestamp, commit_timestamp>>
        /\ \A u \in Txns : InFlight(u)' <=> InFlight(u) /\ u # t
    <3>1. CASE FinishCommit(t)
      BY <3>1, SMTT(30) DEF FinishCommit, InFlight, TypeOK, TransactionsOK
    <3>2. CASE FinishAbort(t)
      BY <3>2, SMTT(30) DEF FinishAbort, InFlight, TypeOK, TransactionsOK
    <3> QED
      BY <1>3, <3>1, <3>2, Zenon
  <2> QED
    BY <2>1, CompleteExact
<1> QED
  BY <1>1, <1>2, <1>3, FlightSteps

(***************************************************************************)
(* Snapshots and intents.                                                  *)
(***************************************************************************)
LEMMA RegisteredPreserved ==
  ASSUME TypeOK, WatermarkExact, SnapshotsRegistered, [Next]_vars
  PROVE  SnapshotsRegistered'
<1> USE DEF SnapshotsRegistered, TypeOK, TransactionsOK, StateOK
<1>0. visible_through \in Nat /\ visible_through' \in Nat
      /\ visible_through <= visible_through'
  BY TimestampsTyped DEF TimestampsOK
<1>1. ASSUME NEW t \in Txns, Begin(t)
      PROVE  SnapshotsRegistered'
  BY <1>0, <1>1 DEF Begin
<1>2. ASSUME NEW t \in Txns, Rollback(t) \/ EndTransaction(t)
      PROVE  SnapshotsRegistered'
  BY <1>0, <1>2 DEF Rollback, EndTransaction, Dropped
<1>3. ASSUME NEW t \in Txns, TxnStep(t),
             ~ Begin(t), ~ Rollback(t), ~ EndTransaction(t)
      PROVE  SnapshotsRegistered'
  BY <1>0, <1>3, OtherSteps, SMTT(30)
<1>s. ASSUME active' = active, snapshot' = snapshot, phase' = phase
      PROVE  SnapshotsRegistered'
  BY <1>0, <1>s
<1> HIDE DEF SnapshotsRegistered, TypeOK, TransactionsOK, StateOK
<1>4. CASE PublisherWake
  <2>1. active' = active /\ snapshot' = snapshot /\ phase' = phase
    BY <1>4 DEF PublisherWake, txnVars, lockVars
  <2> QED
    BY <1>s, <2>1, Zenon
<1>5. ASSUME NEW b \in Builders, BuilderStep(b)
      PROVE  SnapshotsRegistered'
  <2>1. active' = active /\ snapshot' = snapshot /\ phase' = phase
    BY <1>5, Zenon DEF BuilderStep, CallRebuild, Publish, RebuildFailure, txnVars, lockVars
  <2> QED
    BY <1>s, <2>1, Zenon
<1>6. CASE UNCHANGED vars
  <2>1. active' = active /\ snapshot' = snapshot /\ phase' = phase
    BY <1>6, Zenon DEF vars, txnVars, lockVars
  <2> QED
    BY <1>s, <2>1, Zenon
<1> QED
  BY <1>1, <1>2, <1>3, <1>4, <1>5, <1>6 DEF Next

\* Every step keeps the intents the keys of the commits in flight.
LEMMA IntentsPreserved ==
  ASSUME TypeOK, IntentsExact, [Next]_vars
  PROVE  IntentsExact'
<1> USE NoTxnAssumption DEF IntentsExact
<1>1. CASE Quiet
  <2> SUFFICES ASSUME NEW k \in Keys, NEW t \in Txns
               PROVE  intents'[k] = t <=> InFlight(t)' /\ writes'[t][k] # "none"
    OBVIOUS
  <2>1. /\ intents' = intents
        /\ InFlight(t)' <=> InFlight(t)
        /\ InFlight(t) => writes'[t] = writes[t]
    BY <1>1, Zenon DEF Quiet
  <2> QED
    BY <2>1
<1>2. ASSUME NEW t \in Txns, PrepareCommit(t)
      PROVE  IntentsExact'
  <2>1. /\ \A u \in Txns : InFlight(u)' <=> InFlight(u) \/ u = t
        /\ ~ InFlight(t)
        /\ UNCHANGED writes
        /\ intents' = [k \in Keys |-> IF writes[t][k] # "none" THEN t ELSE intents[k]]
    BY <1>2 DEF PrepareCommit, InFlight, TypeOK, TransactionsOK
  <2>2. \A k \in Keys : writes[t][k] # "none" => intents[k] = NoTxn
    BY <1>2, <2>1 DEF PrepareCommit, WriteConflict, Written, TypeOK, StateOK
  <2> QED
    BY <2>1, <2>2
<1>3. ASSUME NEW t \in Txns, FinishCommit(t) \/ FinishAbort(t)
      PROVE  IntentsExact'
  <2>1. /\ \A u \in Txns : InFlight(u)' <=> InFlight(u) /\ u # t
        /\ InFlight(t)
        /\ UNCHANGED writes
        /\ intents' = ReleasedIntents(t)
    BY <1>3 DEF FinishCommit, FinishAbort, InFlight, TypeOK, TransactionsOK
  <2> QED
    BY <2>1 DEF ReleasedIntents
<1> QED
  BY <1>1, <1>2, <1>3, FlightSteps

\* What the three steps that change the commits in flight do to them.
LEMMA PrepareEffect ==
  ASSUME TypeOK, NEW t \in Txns, PrepareCommit(t)
  PROVE  /\ ~ InFlight(t)
         /\ \A u \in Txns : InFlight(u)' <=> InFlight(u) \/ u = t
         /\ commit_timestamp'[t] = next_commit_timestamp
         /\ \A u \in Txns : u # t => commit_timestamp'[u] = commit_timestamp[u]
         /\ UNCHANGED <<writes, scanned_prefixes, snapshot, committed>>
BY DEF PrepareCommit, InFlight, TypeOK, TransactionsOK

\* What finishing, in either way, does to the commits in flight.
LEMMA FinishEffect ==
  ASSUME TypeOK, NEW t \in Txns, FinishCommit(t) \/ FinishAbort(t)
  PROVE  /\ InFlight(t)
         /\ \A u \in Txns : InFlight(u)' <=> InFlight(u) /\ u # t
         /\ UNCHANGED <<commit_timestamp, writes, scanned_prefixes, snapshot,
                        next_commit_timestamp>>
         /\ FinishAbort(t) => UNCHANGED committed
BY DEF FinishCommit, FinishAbort, InFlight, TypeOK, TransactionsOK

\* finish_commit adds to the history the commit it finishes and no other.
LEMMA FinishHistory ==
  ASSUME TypeOK, NEW t \in Txns, FinishCommit(t), NEW c \in committed'
  PROVE  \/ c \in committed
         \/ /\ c.timestamp = commit_timestamp[t]
            /\ c.snapshot = snapshot[t]
            /\ c.writes = writes[t]
            /\ c.scanned = scanned_prefixes[t]
<1>1. committed' = committed \cup {[timestamp |-> commit_timestamp[t],
                                    snapshot |-> snapshot[t],
                                    writes |-> writes[t],
                                    scanned |-> scanned_prefixes[t]]}
  BY Zenon DEF FinishCommit
<1>2. QED
  BY <1>1
=============================================================================
