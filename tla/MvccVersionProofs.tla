------------------------- MODULE MvccVersionProofs --------------------------
(***************************************************************************)
(* The first half of the proofs about what Mvcc reads: newest elements,    *)
(* what reads return given the invariant, and the versions in the map.     *)
(***************************************************************************)
EXTENDS MvccProofs

(***************************************************************************)
(* Newest elements.                                                        *)
(***************************************************************************)

\* CommittedAt of a given history.
HistoryAt(C, k, s) ==
  {c.timestamp : c \in {d \in NewestAt({e \in C : e.writes[k] # "none"}, s) :
                          d.writes[k] = "put"}}

\* A set with a version at or below a snapshot has a newest one.
LEMMA NewestExists ==
  ASSUME NEW S, \A w \in S : w.timestamp \in Nat,
         NEW s \in Nat, NEW v \in S, v.timestamp <= s
  PROVE  \E n \in S : n \in NewestAt(S, s)
<1> DEFINE below == {w \in S : w.timestamp <= s}
           gaps  == {s - w.timestamp : w \in below}
<1>1. gaps \in SUBSET Nat
  OBVIOUS
<1>2. gaps # {}
  OBVIOUS
<1>3. PICK d \in gaps : \A e \in gaps : d <= e
  BY <1>1, <1>2, LeastNatural
<1>4. PICK n \in below : d = s - n.timestamp
  OBVIOUS
<1>5. ASSUME NEW w \in S, w.timestamp <= s
      PROVE  w.timestamp <= n.timestamp
  <2>1. s - w.timestamp \in gaps
    BY <1>5
  <2>2. s - n.timestamp <= s - w.timestamp
    BY <1>3, <1>4, <2>1
  <2> QED
    BY <2>2
<1>6. n \in NewestAt(S, s)
  BY <1>4, <1>5 DEF NewestAt
<1> QED
  BY <1>6

\* Commits newer than s do not change the history at s.
LEMMA HistoryGrows ==
  ASSUME NEW C, NEW D, C \subseteq D, NEW s \in Nat, NEW k,
         \A d \in D : d.timestamp \in Nat,
         \A d \in D : d \in C \/ d.timestamp > s
  PROVE  HistoryAt(C, k, s) = HistoryAt(D, k, s)
<1>1. NewestAt({e \in C : e.writes[k] # "none"}, s)
        = NewestAt({e \in D : e.writes[k] # "none"}, s)
  BY DEF NewestAt
<1> QED
  BY <1>1 DEF HistoryAt

\* Nor does moving s over timestamps at which nobody committed the key.
LEMMA HistorySame ==
  ASSUME NEW C, \A c \in C : c.timestamp \in Nat,
         NEW k, NEW r \in Nat, NEW s \in Nat, r <= s,
         \A c \in C : c.writes[k] # "none" /\ c.timestamp <= s => c.timestamp <= r
  PROVE  HistoryAt(C, k, r) = HistoryAt(C, k, s)
<1>1. NewestAt({e \in C : e.writes[k] # "none"}, r)
        = NewestAt({e \in C : e.writes[k] # "none"}, s)
  BY DEF NewestAt
<1> QED
  BY <1>1 DEF HistoryAt

\* CommittedAt is HistoryAt of the current history.
LEMMA CommittedIsHistory ==
  ASSUME NEW k, NEW s
  PROVE  CommittedAt(k, s) = HistoryAt(committed, k, s)
BY DEF CommittedAt, HistoryAt

(***************************************************************************)
(* Reads, from the invariant.                                              *)
(***************************************************************************)
LEMMA TypedTimestamps ==
  ASSUME TypeOK
  PROVE  /\ visible_through \in Nat
         /\ Readable \subseteq Nat
         /\ \A c \in committed : c.timestamp \in Nat
         /\ \A k \in Keys : versions[k] \subseteq Version
         /\ \A k \in Keys : \A v \in versions[k] : v.timestamp \in Nat
         /\ \A g \in generations : g.timestamp \in Nat
         /\ \A g \in Generated : g \in Generation /\ g.timestamp \in Nat
<1>1. visible_through \in Nat
  BY DEF TypeOK, TimestampsOK
<1>2. Readable \subseteq Nat
  BY <1>1 DEF TypeOK, StateOK, TransactionsOK, Readable
<1>3. /\ \A c \in committed : c.timestamp \in Nat
      /\ \A k \in Keys : versions[k] \subseteq Version
      /\ \A k \in Keys : \A v \in versions[k] : v.timestamp \in Nat
  BY DEF TypeOK, StateOK, Commit, Version
<1>4. \A g \in Generated : g \in Generation
  BY DEF TypeOK, StateOK, ThreadsOK, Generated, Build
<1>5. \A g \in Generated : g.timestamp \in Nat
  BY <1>4 DEF Generation
<1> QED
  BY <1>1, <1>2, <1>3, <1>4, <1>5 DEF Generated

\* What the map answers is the history.
LEMMA MapExact ==
  ASSUME TypeOK, CommittedUnique, VersionsCommitted, VersionsSuffix,
         NEW k \in Keys, NEW s \in Nat, NewestAt(versions[k], s) # {}
  PROVE  LiveAt(NewestAt(versions[k], s)) = CommittedAt(k, s)
<1> DEFINE writers == {e \in committed : e.writes[k] # "none"}
<1>0. /\ \A c \in committed : c.timestamp \in Nat
      /\ versions[k] \subseteq Version
      /\ \A v \in versions[k] : v.timestamp \in Nat
  BY TypedTimestamps
<1>1. PICK n \in NewestAt(versions[k], s) : TRUE
  OBVIOUS
<1>2. /\ n \in versions[k] /\ n.timestamp <= s
      /\ \A w \in versions[k] : w.timestamp <= s => w.timestamp <= n.timestamp
  BY <1>1 DEF NewestAt
<1>3. PICK c \in committed : /\ c.timestamp = n.timestamp
                             /\ c.writes[k] # "none"
                             /\ n.live = (c.writes[k] = "put")
  BY <1>2 DEF VersionsCommitted
<1>4. ASSUME NEW d \in writers, d.timestamp <= s
      PROVE  d.timestamp <= c.timestamp
  <2> SUFFICES ASSUME d.timestamp > n.timestamp PROVE FALSE
    BY <1>0, <1>2, <1>3
  <2>1. PICK w \in versions[k] : w.timestamp = d.timestamp
    BY <1>2 DEF VersionsSuffix
  <2> QED
    BY <1>0, <1>2, <1>4, <2>1
<1>5. NewestAt(writers, s) = {c}
  <2>1. c \in NewestAt(writers, s)
    BY <1>2, <1>3, <1>4 DEF NewestAt
  <2>2. ASSUME NEW d \in NewestAt(writers, s) PROVE d = c
    <3>1. d \in committed /\ d.timestamp <= c.timestamp /\ c.timestamp <= d.timestamp
      BY <1>2, <1>3, <1>4 DEF NewestAt
    <3> QED
      BY <1>0, <3>1 DEF CommittedUnique
  <2> QED
    BY <2>1, <2>2
<1>6. NewestAt(versions[k], s) = {n}
  <2>1. ASSUME NEW m \in NewestAt(versions[k], s) PROVE m = n
    <3>1. m \in versions[k] /\ m.timestamp = n.timestamp
      BY <1>0, <1>2 DEF NewestAt
    <3>2. PICK d \in committed : /\ d.timestamp = m.timestamp
                                 /\ m.live = (d.writes[k] = "put")
      BY <3>1 DEF VersionsCommitted
    <3>3. d = c
      BY <1>3, <3>1, <3>2 DEF CommittedUnique
    <3>4. m.live = n.live
      BY <1>3, <3>2, <3>3
    <3> QED
      BY <1>0, <1>2, <3>1, <3>4 DEF Version
  <2> QED
    BY <1>1, <2>1
<1>7. CASE n.live
  <2>1. c.writes[k] = "put"
    BY <1>3, <1>7
  <2>2. LiveAt(NewestAt(versions[k], s)) = {n.timestamp}
    BY <1>6, <1>7 DEF LiveAt
  <2>3. CommittedAt(k, s) = {c.timestamp}
    BY <1>5, <2>1 DEF CommittedAt
  <2> QED
    BY <1>3, <2>2, <2>3
<1>8. CASE ~ n.live
  <2>1. c.writes[k] # "put"
    BY <1>3, <1>8
  <2>2. LiveAt(NewestAt(versions[k], s)) = {}
    BY <1>6, <1>8 DEF LiveAt
  <2>3. CommittedAt(k, s) = {}
    BY <1>5, <2>1 DEF CommittedAt
  <2> QED
    BY <2>2, <2>3
<1> QED
  BY <1>7, <1>8

\* Given the invariant, a read returns the committed state at its snapshot.
LEMMA ReadExact ==
  ASSUME TypeOK, ReadInvariant, NEW s \in Readable, NEW k \in Keys
  PROVE  Read(k, s) = CommittedAt(k, s)
<1> USE DEF ReadInvariant
<1>0. /\ s \in Nat
      /\ \A c \in committed : c.timestamp \in Nat
      /\ \A v \in versions[k] : v.timestamp \in Nat
      /\ \A g \in generations : g.timestamp \in Nat
  BY TypedTimestamps
<1>1. CASE NewestAt(versions[k], s) # {}
  BY <1>0, <1>1, MapExact DEF Read
<1>2. CASE NewestAt(versions[k], s) = {}
  <2>1. Read(k, s) = UNION {g.entries[k] : g \in NewestAt(generations, s)}
    BY <1>2 DEF Read
  <2>2. \A v \in versions[k] : ~ (v.timestamp <= s)
    BY <1>0, <1>2, NewestExists
  <2>3. ASSUME NEW c \in committed, c.writes[k] # "none", c.timestamp <= s
        PROVE  \E g \in generations : c.timestamp <= g.timestamp /\ g.timestamp <= s
    BY <2>2, <2>3 DEF HistoryReachable
  <2>4. ASSUME NEW g \in NewestAt(generations, s)
        PROVE  g.entries[k] = CommittedAt(k, s)
    <3>1. /\ g \in generations /\ g.timestamp \in Nat /\ g.timestamp <= s
          /\ \A h \in generations : h.timestamp <= s => h.timestamp <= g.timestamp
      BY <1>0 DEF NewestAt
    <3>2. g.entries[k] = CommittedAt(k, g.timestamp)
      BY <3>1 DEF GenerationsExact, Generated
    <3>3. ASSUME NEW c \in committed, c.writes[k] # "none", c.timestamp <= s
          PROVE  c.timestamp <= g.timestamp
      <4>1. PICK h \in generations : c.timestamp <= h.timestamp /\ h.timestamp <= s
        BY <2>3, <3>3
      <4> QED
        BY <1>0, <3>1, <4>1
    <3>4. HistoryAt(committed, k, g.timestamp) = HistoryAt(committed, k, s)
      BY <1>0, <3>1, <3>3, HistorySame
    <3> QED
      BY <3>2, <3>4, CommittedIsHistory
  <2>5. CASE NewestAt(generations, s) # {}
    BY <2>1, <2>4, <2>5
  <2>6. CASE NewestAt(generations, s) = {}
    <3>1. \A g \in generations : ~ (g.timestamp <= s)
      BY <1>0, <2>6, NewestExists
    <3>2. CommittedAt(k, s) = {}
      BY <2>3, <3>1 DEF CommittedAt, NewestAt
    <3> QED
      BY <2>1, <2>6, <3>2
  <2> QED
    BY <2>5, <2>6
<1> QED
  BY <1>1, <1>2

(***************************************************************************)
(* What a step can do to the state a read depends on.                      *)
(***************************************************************************)
NewGeneration ==
  [timestamp |-> visible_through, entries |-> CapturedEntries(LatestGeneration)]

Still ==
  /\ UNCHANGED <<committed, versions, generations, dirty_keys, visible_through,
                 completed_timestamps>>
  /\ Readable' \subseteq Readable
  /\ Generated' \subseteq Generated \cup {NewGeneration}

\* A capture starts one new generation and no other.
LEMMA CaptureGenerated ==
  ASSUME TypeOK, NEW b \in Builders, Capture(b), UNCHANGED generations
  PROVE  Generated' \subseteq Generated \cup {NewGeneration}
<1> SUFFICES ASSUME NEW c \in Builders, build'[c].running
             PROVE  build'[c].generation \in Generated \cup {NewGeneration}
  BY DEF Generated
<1>1. build' = [build EXCEPT ![b] = [running |-> TRUE, generation |-> NewGeneration]]
  BY DEF Capture, NewGeneration
<1>2. CASE c = b
  BY <1>1, <1>2 DEF TypeOK, ThreadsOK
<1>3. CASE c # b
  BY <1>1, <1>3 DEF TypeOK, ThreadsOK, Generated
<1> QED
  BY <1>2, <1>3

\* Giving a build up starts no generation.
LEMMA ReleaseGenerated ==
  ASSUME TypeOK, NEW b \in Builders, build' = [build EXCEPT ![b] = NoBuild]
  PROVE  {build'[c].generation : c \in {d \in Builders : build'[d].running}}
           \subseteq Generated
BY DEF TypeOK, ThreadsOK, Generated, NoBuild

\* Only finishing a commit and publishing change what reads look at.
LEMMA ReadSteps ==
  ASSUME TypeOK, [Next]_vars
  PROVE  \/ Still
         \/ \E t \in Txns : FinishCommit(t) \/ FinishAbort(t)
         \/ \E b \in Builders : Publish(b)
<1>1. ASSUME NEW t \in Txns, Begin(t)
      PROVE  Still
  <2>1. Readable' \subseteq Readable
    BY <1>1 DEF Begin, Readable, TypeOK, StateOK, TransactionsOK
  <2> QED
    BY <1>1, <2>1 DEF Begin, Still, Generated
<1>2. ASSUME NEW t \in Txns, Rollback(t) \/ EndTransaction(t)
      PROVE  Still
  <2>1. Readable' \subseteq Readable
    BY <1>2 DEF Rollback, EndTransaction, Dropped, Readable, TypeOK, StateOK,
       TransactionsOK
  <2> QED
    BY <1>2, <2>1 DEF Rollback, EndTransaction, Still, Generated
<1>3. ASSUME NEW t \in Txns, TxnStep(t), ~ Begin(t), ~ Rollback(t),
             ~ EndTransaction(t), ~ FinishCommit(t), ~ FinishAbort(t)
      PROVE  Still
  <2>1. UNCHANGED <<committed, versions, generations, dirty_keys,
                    visible_through, completed_timestamps, active, snapshot, build>>
    BY <1>3 DEF TxnStep, ProtectScans, Write, RecordScan, PrepareCommit,
       CommitConflict, PersistCommit, PersistFailure, MarkIndexDirty, lockVars
  <2> QED
    BY <2>1 DEF Still, Readable, Generated
<1>4. CASE PublisherWake
  <2>1. Generated' \subseteq Generated \cup {NewGeneration}
    BY <1>4, CaptureGenerated DEF PublisherWake, Builders, lockVars, Generated
  <2> QED
    BY <1>4, <2>1 DEF PublisherWake, Still, Readable, lockVars, txnVars
<1>5. ASSUME NEW b \in Builders, CallRebuild(b)
      PROVE  Still
  <2>1. Generated' \subseteq Generated \cup {NewGeneration}
    BY <1>5, CaptureGenerated DEF CallRebuild, lockVars
  <2> QED
    BY <1>5, <2>1 DEF CallRebuild, Still, Readable, lockVars, txnVars
<1>6. ASSUME NEW b \in Builders, RebuildFailure(b)
      PROVE  Still
  <2>1. Generated' \subseteq Generated
    BY <1>6, ReleaseGenerated DEF RebuildFailure, lockVars, Generated
  <2> QED
    BY <1>6, <2>1 DEF RebuildFailure, Still, Readable, lockVars, txnVars
<1>7. CASE UNCHANGED vars
  BY <1>7 DEF vars, lockVars, txnVars, Still, Readable, Generated
<1> QED
  BY <1>1, <1>2, <1>3, <1>4, <1>5, <1>6, <1>7 DEF Next, BuilderStep

\* finish_prepared, with or without pages.
LEMMA FinishReads ==
  ASSUME SafetyInvariant, [Next]_vars, NEW t \in Txns,
         FinishCommit(t) \/ FinishAbort(t)
  PROVE  /\ UNCHANGED <<generations, active, snapshot>>
         /\ Generated' = Generated
         /\ Readable' \subseteq Readable \cup {visible_through'}
         /\ visible_through' \in Nat /\ visible_through <= visible_through'
         /\ committed \subseteq committed'
         /\ dirty_keys \subseteq dirty_keys'
         /\ \A k \in Keys : versions[k] \subseteq versions'[k]
<1>1. UNCHANGED <<generations, active, snapshot, build>>
  BY DEF FinishCommit, FinishAbort
<1>2. visible_through' \in Nat /\ visible_through <= visible_through'
  BY TimestampsTyped DEF SafetyInvariant, TimestampsOK
<1>3. \A k \in Keys : versions[k] \subseteq versions'[k]
  BY DEF FinishCommit, FinishAbort
<1> QED
  BY <1>1, <1>2, <1>3 DEF FinishCommit, FinishAbort, Generated, Readable

\* The commit that finishes is newer than every snapshot and than every other
\* commit of its keys, and has a timestamp of its own.
LEMMA FinishNewest ==
  ASSUME SafetyInvariant, CommittedResolved, NEW t \in Txns, FinishCommit(t)
  PROVE  /\ commit_timestamp[t] \in Nat
         /\ commit_timestamp[t] > visible_through
         /\ \A c \in committed : c.timestamp # commit_timestamp[t]
         /\ \A c \in committed : \A k \in Keys :
              c.writes[k] # "none" /\ writes[t][k] # "none" =>
                c.timestamp < commit_timestamp[t]
<1> USE DEF SafetyInvariant
<1>1. InFlight(t)
  BY FinishEffect
<1>2. /\ commit_timestamp[t] \in Nat
      /\ commit_timestamp[t] > visible_through
      /\ commit_timestamp[t] \notin completed_timestamps
  BY <1>1, InFlightTimestamp DEF WatermarkExact
<1>3. /\ visible_through \in Nat
      /\ \A c \in committed : c.timestamp \in Nat
  BY TypedTimestamps
<1>4. \A c \in committed : c.timestamp # commit_timestamp[t]
  BY <1>2, <1>3 DEF CommittedResolved
<1>5. snapshot[t] \in Nat /\ snapshot[t] <= visible_through
  BY <1>1 DEF SnapshotsRegistered, InFlight, TypeOK, TransactionsOK
<1>6. ASSUME NEW c \in committed, NEW k \in Keys,
             c.writes[k] # "none", writes[t][k] # "none"
      PROVE  c.timestamp < commit_timestamp[t]
  <2>1. c.timestamp <= snapshot[t]
    BY <1>1, <1>6 DEF InFlightWrites, Written
  <2> QED
    BY <1>2, <1>3, <1>5, <2>1
<1> QED
  BY <1>2, <1>4, <1>6

\* publish under the state lock.
LEMMA PublishReads ==
  ASSUME TypeOK, NEW b \in Builders, Publish(b)
  PROVE  /\ UNCHANGED <<committed, visible_through, completed_timestamps>>
         /\ Readable' = Readable
         /\ Generated' \subseteq Generated
         /\ \A k \in Keys : versions'[k] \in {{}, Drained(versions[k], OldestActive)}
         /\ \A k \in Keys : versions'[k] \subseteq versions[k]
<1>1. UNCHANGED <<committed, visible_through, completed_timestamps, active, snapshot>>
  BY DEF Publish, txnVars
<1>2. \A k \in Keys : versions'[k] \in {{}, Drained(versions[k], OldestActive)}
  BY DEF Publish, ReclaimCovered
<1>3. generations' \subseteq generations \cup {build[b].generation}
  BY DrainedSubset DEF Publish, ReclaimCovered
<1>4. build' = [build EXCEPT ![b] = NoBuild] /\ build[b].running
  BY DEF Publish
<1>5. Generated' \subseteq Generated
  BY <1>3, <1>4, ReleaseGenerated DEF Generated
<1> QED
  BY <1>1, <1>2, <1>5, DrainedSubset DEF Readable

\* Pruning the ring keeps, for every generation, one at least as new that
\* every readable snapshot may use in its place.
LEMMA RingKeeps ==
  ASSUME TypeOK, SnapshotsRegistered, NEW b \in Builders, Publish(b),
         NEW h \in generations \cup {build[b].generation}
  PROVE  \E r \in generations' :
           /\ h.timestamp <= r.timestamp
           /\ \A s \in Readable : h.timestamp <= s => r.timestamp <= s
<1> DEFINE ring == generations \cup {build[b].generation}
<1>1. /\ OldestActive \in Nat
      /\ \A s \in Readable : s \in Nat /\ OldestActive <= s
  BY OldestActiveBound, TypedTimestamps DEF Readable
<1>2. \A r \in ring : r.timestamp \in Nat
  BY DEF TypeOK, StateOK, ThreadsOK, Build, Generation
<1>3. generations' = Drained(ring, OldestActive)
  BY DEF Publish, ReclaimCovered
<1>4. CASE h \in generations'
  BY <1>2, <1>4
<1>5. CASE h \notin generations'
  <2>1. PICK n \in NewestAt(ring, OldestActive) : ~ (n.timestamp <= h.timestamp)
    BY <1>3, <1>5 DEF Drained
  <2>2. n \in ring /\ n.timestamp <= OldestActive
    BY <2>1 DEF NewestAt
  <2>3. n \in generations'
    BY <1>3, <2>1, <2>2 DEF Drained, NewestAt
  <2>4. h.timestamp <= n.timestamp
    BY <1>2, <2>1, <2>2
  <2>5. \A s \in Readable : n.timestamp <= s
    BY <1>1, <1>2, <2>2
  <2> QED
    BY <2>3, <2>4, <2>5
<1> QED
  BY <1>4, <1>5

(***************************************************************************)
(* The history and the map.                                                *)
(***************************************************************************)
LEMMA ResolvedPreserved ==
  ASSUME SafetyInvariant, CommittedResolved, [Next]_vars
  PROVE  CommittedResolved'
<1> USE DEF SafetyInvariant
<1>1. CASE Still
  BY <1>1 DEF Still, CommittedResolved
<1>2. ASSUME NEW t \in Txns, FinishCommit(t) \/ FinishAbort(t)
      PROVE  CommittedResolved'
  <2> DEFINE done == completed_timestamps \cup {commit_timestamp[t]}
  <2>1. PICK n \in visible_through .. next_commit_timestamp - 1 :
          /\ visible_through' = n
          /\ completed_timestamps' = done \ ((visible_through + 1) .. n)
    BY <1>2 DEF FinishCommit, FinishAbort, Complete
  <2>2. visible_through \in Nat /\ next_commit_timestamp \in Nat
    BY DEF TypeOK, TimestampsOK
  <2>3. /\ commit_timestamp[t] \in Nat
        /\ commit_timestamp[t] > visible_through
    BY <1>2, FinishEffect, InFlightTimestamp
  <2>4. \A c \in committed : c.timestamp \in Nat
    BY TypedTimestamps
  <2>5. ASSUME NEW c \in committed'
        PROVE  /\ c.timestamp \in Nat /\ c.timestamp > 0
               /\ c.timestamp <= visible_through \/ c.timestamp \in done
    <3>1. CASE c \in committed
      BY <2>4, <3>1 DEF CommittedResolved
    <3>2. CASE c.timestamp = commit_timestamp[t]
      BY <2>2, <2>3, <3>2
    <3> QED
      BY <1>2, <3>1, <3>2, FinishHistory, FinishEffect
  <2>6. \A m \in Nat : m <= visible_through \/ m \in done =>
          m <= n \/ m \in completed_timestamps'
    BY <2>1, <2>2
  <2> QED
    BY <2>1, <2>5, <2>6, SMTT(30) DEF CommittedResolved
<1>3. ASSUME NEW b \in Builders, Publish(b)
      PROVE  CommittedResolved'
  BY <1>3, PublishReads DEF CommittedResolved
<1> QED
  BY <1>1, <1>2, <1>3, ReadSteps

\* No two commits get the same timestamp.
LEMMA UniquePreserved ==
  ASSUME SafetyInvariant, CommittedResolved, CommittedUnique, [Next]_vars
  PROVE  CommittedUnique'
<1>1. CASE UNCHANGED committed
  BY <1>1 DEF CommittedUnique
<1>2. ASSUME NEW t \in Txns, FinishCommit(t)
      PROVE  CommittedUnique'
  <2> DEFINE new == [timestamp |-> commit_timestamp[t], snapshot |-> snapshot[t],
                     writes |-> writes[t], scanned |-> scanned_prefixes[t]]
  <2>1. committed' = committed \cup {new} /\ new.timestamp = commit_timestamp[t]
    BY <1>2 DEF FinishCommit
  <2>2. \A c \in committed : c.timestamp # new.timestamp
    BY <1>2, FinishNewest
  <2> HIDE DEF new
  <2> QED
    BY <2>1, <2>2 DEF CommittedUnique
<1> QED
  BY <1>1, <1>2, CommittedOnly DEF SafetyInvariant

\* What finish_prepared(Some(..)) does to one key.
LEMMA FinishKey ==
  ASSUME TypeOK, NEW t \in Txns, FinishCommit(t), NEW k \in Keys
  PROVE  /\ \A v \in versions'[k] :
              \/ v \in versions[k]
              \/ /\ v.timestamp = commit_timestamp[t]
                 /\ v.live = (writes[t][k] = "put")
                 /\ writes[t][k] # "none"
         /\ writes[t][k] # "none" =>
              \E v \in versions'[k] : v.timestamp = commit_timestamp[t]
         /\ \E c \in committed' : /\ c.timestamp = commit_timestamp[t]
                                  /\ c.writes = writes[t]
<1> DEFINE new == [timestamp |-> commit_timestamp[t], live |-> writes[t][k] = "put"]
<1>1. new.timestamp = commit_timestamp[t] /\ new.live = (writes[t][k] = "put")
  OBVIOUS
<1>2. versions'[k] = IF writes[t][k] # "none" THEN versions[k] \cup {new}
                     ELSE versions[k]
  BY DEF FinishCommit
<1>3. [timestamp |-> commit_timestamp[t], snapshot |-> snapshot[t],
       writes |-> writes[t], scanned |-> scanned_prefixes[t]] \in committed'
  BY DEF FinishCommit
<1>4. \E c \in committed' : c.timestamp = commit_timestamp[t] /\ c.writes = writes[t]
  BY <1>3
<1> HIDE DEF new
<1> QED
  BY <1>1, <1>2, <1>4

\* The map receives committed versions only.
LEMMA VersionsCommittedPreserved ==
  ASSUME SafetyInvariant, VersionsCommitted, [Next]_vars
  PROVE  VersionsCommitted'
<1> USE DEF SafetyInvariant
<1>1. CASE Still
  BY <1>1, SMTT(30) DEF Still, VersionsCommitted
<1>2. ASSUME NEW t \in Txns, FinishCommit(t)
      PROVE  VersionsCommitted'
  <2> SUFFICES ASSUME NEW k \in Keys, NEW v \in versions'[k]
               PROVE  \E c \in committed' : /\ c.timestamp = v.timestamp
                                            /\ c.writes[k] # "none"
                                            /\ v.live = (c.writes[k] = "put")
    BY DEF VersionsCommitted
  <2>1. CASE v \in versions[k]
    BY <1>2, <2>1, FinishReads DEF VersionsCommitted
  <2>2. CASE /\ v.timestamp = commit_timestamp[t]
             /\ v.live = (writes[t][k] = "put")
             /\ writes[t][k] # "none"
    BY <1>2, <2>2, FinishKey
  <2> QED
    BY <1>2, <2>1, <2>2, FinishKey
<1>3. ASSUME NEW t \in Txns, FinishAbort(t)
      PROVE  VersionsCommitted'
  BY <1>3 DEF FinishAbort, VersionsCommitted
<1>4. ASSUME NEW b \in Builders, Publish(b)
      PROVE  VersionsCommitted'
  BY <1>4, PublishReads DEF VersionsCommitted
<1> QED
  BY <1>1, <1>2, <1>3, <1>4, ReadSteps

\* Reclamation removes the oldest versions of a key first.
LEMMA VersionsSuffixPreserved ==
  ASSUME SafetyInvariant, CommittedResolved, VersionsSuffix, [Next]_vars
  PROVE  VersionsSuffix'
<1> USE DEF SafetyInvariant
<1>0. /\ \A c \in committed : c.timestamp \in Nat
      /\ \A k \in Keys : \A v \in versions[k] : v.timestamp \in Nat
  BY TypedTimestamps
<1>1. CASE Still
  BY <1>1 DEF Still, VersionsSuffix
<1>2. ASSUME NEW t \in Txns, FinishCommit(t)
      PROVE  VersionsSuffix'
  <2> SUFFICES ASSUME NEW k \in Keys, NEW v \in versions'[k], NEW c \in committed',
                      c.writes[k] # "none", c.timestamp > v.timestamp
               PROVE  \E w \in versions'[k] : w.timestamp = c.timestamp
    BY DEF VersionsSuffix
  <2>1. CASE c.timestamp = commit_timestamp[t] /\ c.writes = writes[t]
    BY <1>2, <2>1, FinishKey
  <2>2. CASE c \in committed /\ v \in versions[k]
    BY <1>2, <2>2, FinishReads DEF VersionsSuffix
  <2>3. CASE /\ c \in committed
             /\ v.timestamp = commit_timestamp[t]
             /\ writes[t][k] # "none"
    <3>1. c.timestamp < commit_timestamp[t]
      BY <1>2, <2>3, FinishNewest
    <3> QED
      BY <1>0, <1>2, <2>3, <3>1, FinishNewest
  <2> QED
    BY <1>2, <2>1, <2>2, <2>3, FinishKey, FinishHistory
<1>3. ASSUME NEW t \in Txns, FinishAbort(t)
      PROVE  VersionsSuffix'
  BY <1>3 DEF FinishAbort, VersionsSuffix
<1>4. ASSUME NEW b \in Builders, Publish(b)
      PROVE  VersionsSuffix'
  <2> SUFFICES ASSUME NEW k \in Keys, NEW v \in versions'[k], NEW c \in committed,
                      c.writes[k] # "none", c.timestamp > v.timestamp
               PROVE  \E w \in versions'[k] : w.timestamp = c.timestamp
    BY <1>4, PublishReads DEF VersionsSuffix
  <2>1. v \in versions[k] /\ versions'[k] = Drained(versions[k], OldestActive)
    BY <1>4, PublishReads
  <2>2. PICK w \in versions[k] : w.timestamp = c.timestamp
    BY <2>1 DEF VersionsSuffix
  <2>3. \A n \in NewestAt(versions[k], OldestActive) : n.timestamp <= w.timestamp
    <3> SUFFICES ASSUME NEW n \in NewestAt(versions[k], OldestActive)
                 PROVE  n.timestamp <= w.timestamp
      OBVIOUS
    <3>1. n \in versions[k]
      BY NewestSubset
    <3>2. n.timestamp <= v.timestamp
      BY <2>1 DEF Drained
    <3> QED
      BY <1>0, <2>1, <2>2, <3>1, <3>2
  <2>4. w \in versions'[k]
    BY <2>1, <2>3 DEF Drained
  <2> QED
    BY <2>2, <2>4
<1> QED
  BY <1>1, <1>2, <1>3, <1>4, ReadSteps
=============================================================================
