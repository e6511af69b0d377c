--------------------------- MODULE MvccReadProofs ---------------------------
(***************************************************************************)
(* Proofs about what Mvcc reads, for any sets of keys, prefixes,           *)
(* transactions and threads: every snapshot that may be read sees exactly  *)
(* the committed history at its timestamp, although commits finish out of  *)
(* order, index generations are derived from one another and reclamation   *)
(* removes versions and generations under the readers.                     *)
(***************************************************************************)
EXTENDS MvccVersionProofs

(***************************************************************************)
(* Reclamation against the readers.                                        *)
(***************************************************************************)
LEMMA ReachablePreserved ==
  ASSUME SafetyInvariant, CommittedResolved, VersionsSuffix, HistoryReachable,
         [Next]_vars
  PROVE  HistoryReachable'
<1> USE DEF SafetyInvariant
<1>0. /\ visible_through \in Nat
      /\ visible_through \in Readable
      /\ \A s \in Readable : s \in Nat /\ s <= visible_through
      /\ \A c \in committed : c.timestamp \in Nat
      /\ \A k \in Keys : \A v \in versions[k] : v.timestamp \in Nat
      /\ \A g \in generations : g.timestamp \in Nat
  BY TypedTimestamps DEF Readable, SnapshotsRegistered, TypeOK, StateOK
<1>1. CASE Still
  BY <1>1, SMTT(30) DEF Still, HistoryReachable
<1>2. ASSUME NEW t \in Txns, FinishCommit(t) \/ FinishAbort(t)
      PROVE  HistoryReachable'
  <2>1. ASSUME NEW c \in committed', NEW k \in Keys, c.writes[k] # "none",
               c \notin committed
        PROVE  /\ c.timestamp \in Nat
               /\ c.timestamp > visible_through
               /\ \E v \in versions'[k] : v.timestamp = c.timestamp
    <3>1. /\ FinishCommit(t) /\ c.timestamp = commit_timestamp[t]
          /\ c.writes = writes[t]
      BY <1>2, <2>1, FinishEffect, FinishHistory, SMTT(30)
    <3> QED
      BY <2>1, <3>1, FinishKey, FinishNewest
  <2> SUFFICES ASSUME NEW s \in Readable', NEW k \in Keys, NEW c \in committed',
                      c.writes[k] # "none", c.timestamp <= s
               PROVE  \/ \E v \in versions'[k] : v.timestamp <= s
                      \/ \E g \in generations :
                           c.timestamp <= g.timestamp /\ g.timestamp <= s
    BY <1>2, FinishReads DEF HistoryReachable
  <2>2. CASE c \notin committed
    <3>1. PICK v \in versions'[k] : v.timestamp = c.timestamp
      BY <2>1, <2>2
    <3> QED
      BY <3>1
  <2>3. CASE c \in committed /\ s \in Readable
    BY <1>2, <2>3, FinishReads DEF HistoryReachable
  <2>4. CASE c \in committed /\ c.timestamp > visible_through
    <3>1. PICK v \in versions[k] : v.timestamp = c.timestamp
      BY <2>4 DEF RecentInMap, Written
    <3> QED
      BY <1>2, <3>1, FinishReads
  <2>5. CASE c \in committed /\ c.timestamp <= visible_through /\ s = visible_through'
    <3>1. visible_through' \in Nat /\ visible_through <= visible_through'
      BY <1>2, FinishReads
    <3>2. \/ \E v \in versions[k] : v.timestamp <= visible_through
          \/ \E g \in generations :
               c.timestamp <= g.timestamp /\ g.timestamp <= visible_through
      BY <1>0, <2>5 DEF HistoryReachable
    <3>3. CASE \E v \in versions[k] : v.timestamp <= visible_through
      BY <1>0, <1>2, <2>5, <3>1, <3>3, FinishReads, SMTT(30)
    <3>4. CASE \E g \in generations :
                 c.timestamp <= g.timestamp /\ g.timestamp <= visible_through
      BY <1>0, <2>5, <3>1, <3>4, SMTT(30)
    <3> QED
      BY <3>2, <3>3, <3>4
  <2> QED
    BY <1>0, <1>2, <2>2, <2>3, <2>4, <2>5, FinishReads, SMTT(30)
<1>3. ASSUME NEW b \in Builders, Publish(b)
      PROVE  HistoryReachable'
  <2>0. /\ OldestActive \in Nat
        /\ \A s \in Readable : OldestActive <= s
    BY OldestActiveBound DEF Readable
  <2> SUFFICES ASSUME NEW s \in Readable, NEW k \in Keys, NEW c \in committed,
                      c.writes[k] # "none", c.timestamp <= s
               PROVE  \/ \E v \in versions'[k] : v.timestamp <= s
                      \/ \E g \in generations' :
                           c.timestamp <= g.timestamp /\ g.timestamp <= s
    BY <1>3, PublishReads DEF HistoryReachable
  <2> DEFINE kept  == Drained(versions[k], OldestActive)
             ring  == generations \cup {build[b].generation}
  <2>r. ASSUME NEW h \in ring, c.timestamp <= h.timestamp, h.timestamp <= s
        PROVE  \E g \in generations' : c.timestamp <= g.timestamp /\ g.timestamp <= s
    <3>1. PICK g \in generations' : h.timestamp <= g.timestamp /\ g.timestamp <= s
      BY <1>3, <2>r, RingKeeps, SMTT(30)
    <3>2. h.timestamp \in Nat /\ g.timestamp \in Nat
      BY <1>3, <3>1, DrainedSubset DEF Publish, ReclaimCovered, TypeOK, StateOK,
         ThreadsOK, Build, Generation
    <3> QED
      BY <1>0, <2>r, <3>1, <3>2
  <2>1. CASE \E g \in generations : c.timestamp <= g.timestamp /\ g.timestamp <= s
    BY <2>1, <2>r
  <2>2. ASSUME NEW v \in versions[k], v.timestamp <= s, versions'[k] = kept
        PROVE  \E w \in versions'[k] : w.timestamp <= s
    <3>1. CASE NewestAt(versions[k], OldestActive) = {}
      BY <2>2, <3>1 DEF Drained
    <3>2. ASSUME NEW n \in NewestAt(versions[k], OldestActive)
          PROVE  n \in kept /\ n.timestamp <= s
      BY <1>0, <2>0 DEF Drained, NewestAt
    <3> QED
      BY <2>2, <3>1, <3>2, SMTT(30)
  <2>3. ASSUME NEW v \in versions[k], v.timestamp <= s, versions'[k] # kept
        PROVE  \E g \in generations' : c.timestamp <= g.timestamp /\ g.timestamp <= s
    <3>1. PICK h \in NewestAt(ring, OldestActive), w \in kept :
            kept = {w} /\ w.timestamp <= h.timestamp
      BY <1>3, <2>3 DEF Publish, ReclaimCovered
    <3>2. /\ h \in ring /\ h.timestamp \in Nat /\ h.timestamp <= OldestActive
          /\ w \in versions[k] /\ w.timestamp \in Nat
      BY <1>0, <3>1, DrainedSubset
      DEF NewestAt, TypeOK, StateOK, ThreadsOK, Build, Generation
    <3>3. c.timestamp <= w.timestamp
      <4>0. c.timestamp \in Nat /\ w.timestamp \in Nat
        BY <1>0, <3>2, Zenon
      <4> SUFFICES ASSUME c.timestamp > w.timestamp PROVE FALSE
        BY <4>0, NotAbove, Zenon
      <4>1. PICK x \in versions[k] : x.timestamp = c.timestamp
        BY <3>2 DEF VersionsSuffix
      <4>2. \A n \in NewestAt(versions[k], OldestActive) : n.timestamp <= x.timestamp
        BY <1>0, <3>1, <3>2, <4>1, NewestSubset DEF Drained
      <4>3. x \in kept
        BY <4>2 DEF Drained
      <4>4. x = w
        BY <3>1, <4>3, Zenon
      <4>5. PICK a \in Nat : a = w.timestamp
        BY <3>2, Zenon
      <4>6. c.timestamp = a /\ c.timestamp > a
        BY <4>1, <4>4, <4>5, Zenon
      <4>7. a > a
        BY <4>6, Zenon
      <4> QED
        BY <4>7, Irreflexive, Zenon
    <3>4. c.timestamp <= h.timestamp /\ h.timestamp <= s
      BY <1>0, <2>0, <3>1, <3>2, <3>3
    <3> QED
      BY <2>r, <3>2, <3>4, SMTT(30)
  <2>4. \/ \E v \in versions[k] : v.timestamp <= s
        \/ \E g \in generations : c.timestamp <= g.timestamp /\ g.timestamp <= s
    BY DEF HistoryReachable
  <2> QED
    BY <2>1, <2>2, <2>3, <2>4
<1> QED
  BY <1>1, <1>2, <1>3, ReadSteps

\* A key leaves dirty_keys only once a generation has its commits.
LEMMA CleanPreserved ==
  ASSUME SafetyInvariant, VersionsSuffix, HistoryReachable, CleanCovered,
         [Next]_vars
  PROVE  CleanCovered'
<1> USE DEF SafetyInvariant
<1>0. /\ visible_through \in Nat
      /\ visible_through \in Readable
      /\ \A c \in committed : c.timestamp \in Nat
      /\ \A k \in Keys : \A v \in versions[k] : v.timestamp \in Nat
      /\ \A g \in Generated : g.timestamp \in Nat
  BY TypedTimestamps DEF Readable
<1>1. CASE Still
  BY <1>1 DEF Still, CleanCovered
<1>2. ASSUME NEW t \in Txns, FinishCommit(t)
      PROVE  CleanCovered'
  <2> SUFFICES ASSUME NEW k \in Keys \ dirty_keys', NEW c \in committed',
                      c.writes[k] # "none"
               PROVE  \E g \in generations : c.timestamp <= g.timestamp
    BY <1>2, FinishReads, SMTT(30) DEF CleanCovered
  <2>1. k \notin dirty_keys /\ writes[t][k] = "none"
    BY <1>2 DEF FinishCommit, Written
  <2>2. c \in committed
    BY <1>2, <2>1, FinishHistory
  <2> QED
    BY <2>1, <2>2 DEF CleanCovered
<1>3. ASSUME NEW t \in Txns, FinishAbort(t)
      PROVE  CleanCovered'
  BY <1>3 DEF FinishAbort, CleanCovered
<1>4. ASSUME NEW b \in Builders, Publish(b)
      PROVE  CleanCovered'
  <2> DEFINE g == build[b].generation
  <2> SUFFICES ASSUME NEW k \in Keys \ dirty_keys', NEW c \in committed,
                      c.writes[k] # "none"
               PROVE  \E r \in generations' : c.timestamp <= r.timestamp
    BY <1>4, PublishReads, SMTT(30) DEF CleanCovered
  <2>1. /\ g \in Generated
        /\ generations' \subseteq Generated
    BY <1>4, DrainedSubset DEF Publish, ReclaimCovered, Generated
  <2>2. ASSUME NEW h \in generations \cup {g}, c.timestamp <= h.timestamp
        PROVE  \E r \in generations' : c.timestamp <= r.timestamp
    <3>1. PICK r \in generations' : h.timestamp <= r.timestamp
      BY <1>4, RingKeeps
    <3>2. h.timestamp \in Nat /\ r.timestamp \in Nat
      BY <1>0, <2>1, <3>1 DEF Generated
    <3> QED
      BY <1>0, <2>2, <3>1, <3>2
  <2>3. CASE k \notin dirty_keys
    BY <2>2, <2>3 DEF CleanCovered
  <2>4. CASE k \in dirty_keys
    <3>1. \A v \in versions[k] : v.timestamp <= g.timestamp
      BY <1>0, <1>4, <2>1, <2>4 DEF Publish
    <3>2. ASSUME NEW v \in versions[k]
          PROVE  c.timestamp <= g.timestamp
      <4>1. CASE c.timestamp > v.timestamp
        BY <3>1, <4>1 DEF VersionsSuffix
      <4>2. CASE c.timestamp <= v.timestamp
        BY <1>0, <2>1, <3>1, <4>2
      <4> QED
        BY <1>0, <4>1, <4>2
    <3>3. CASE versions[k] = {}
      <4>1. c.timestamp <= visible_through
        BY <1>0, <3>3 DEF RecentInMap, Written
      <4> QED
        BY <1>0, <2>2, <3>3, <4>1, SMTT(30) DEF HistoryReachable
    <3> QED
      BY <2>2, <3>2, <3>3
  <2> QED
    BY <2>3, <2>4
<1> QED
  BY <1>1, <1>2, <1>3, <1>4, ReadSteps

(***************************************************************************)
(* Index generations.                                                      *)
(***************************************************************************)
LEMMA PastGenerations ==
  ASSUME SafetyInvariant, GenerationsPast, [Next]_vars
  PROVE  GenerationsPast'
<1> USE DEF SafetyInvariant
<1>0. visible_through \in Nat /\ \A g \in Generated : g.timestamp \in Nat
  BY TypedTimestamps
<1>1. CASE Still
  BY <1>0, <1>1 DEF Still, GenerationsPast, NewGeneration
<1>2. ASSUME NEW t \in Txns, FinishCommit(t) \/ FinishAbort(t)
      PROVE  GenerationsPast'
  BY <1>0, <1>2, FinishReads DEF GenerationsPast
<1>3. ASSUME NEW b \in Builders, Publish(b)
      PROVE  GenerationsPast'
  BY <1>3, PublishReads DEF GenerationsPast
<1> QED
  BY <1>1, <1>2, <1>3, ReadSteps

\* rebuild_index derives the exact state at the watermark from the newest
\* generation and the dirty keys.
LEMMA CaptureExact ==
  ASSUME TypeOK, ReadInvariant, NEW k \in Keys
  PROVE  CapturedEntries(LatestGeneration)[k] = CommittedAt(k, visible_through)
<1> USE DEF ReadInvariant
<1> DEFINE newest == NewestAt(versions[k], visible_through)
           base   == LatestGeneration
<1>0. /\ visible_through \in Nat
      /\ visible_through \in Readable
      /\ \A c \in committed : c.timestamp \in Nat
      /\ \A v \in versions[k] : v.timestamp \in Nat
      /\ \A g \in generations : g.timestamp \in Nat /\ g.timestamp <= visible_through
  BY TypedTimestamps DEF Readable, GenerationsPast, Generated
<1>1. CapturedEntries(base)[k] =
        IF \/ base = {}
           \/ k \in dirty_keys /\ \E n \in newest, g \in base : n.timestamp > g.timestamp
        THEN LiveAt(newest)
        ELSE UNION {g.entries[k] : g \in base}
  BY DEF CapturedEntries
<1>2. CASE base = {}
  <2>1. generations = {}
    <3> SUFFICES ASSUME NEW h \in generations PROVE FALSE
      OBVIOUS
    <3>1. PICK g \in generations : g \in NewestAt(generations, visible_through)
      BY <1>0, NewestExists
    <3> QED
      BY <1>0, <1>2, <3>1 DEF LatestGeneration, NewestAt
  <2>2. LiveAt(newest) = Read(k, visible_through)
    BY <2>1 DEF Read, LiveAt, NewestAt
  <2> QED
    BY <1>0, <1>1, <1>2, <2>2, ReadExact
<1>3. CASE /\ base # {}
           /\ k \in dirty_keys
           /\ \E n \in newest, g \in base : n.timestamp > g.timestamp
  BY <1>0, <1>1, <1>3, MapExact, SMTT(30)
<1>4. CASE /\ base # {}
           /\ k \in dirty_keys => ~ \E n \in newest, g \in base : n.timestamp > g.timestamp
  <2>1. ASSUME NEW g \in base
        PROVE  g.entries[k] = CommittedAt(k, visible_through)
    <3>1. /\ g \in generations
          /\ \A h \in generations : h.timestamp <= g.timestamp
      BY DEF LatestGeneration
    <3>2. ASSUME NEW c \in committed, c.writes[k] # "none",
                 c.timestamp <= visible_through
          PROVE  c.timestamp <= g.timestamp
      <4>1. ASSUME NEW h \in generations, c.timestamp <= h.timestamp
            PROVE  c.timestamp <= g.timestamp
        BY <1>0, <3>1, <4>1
      <4>2. CASE k \notin dirty_keys
        BY <3>2, <4>1, <4>2 DEF CleanCovered
      <4>3. ASSUME k \in dirty_keys, NEW v \in versions[k],
                   v.timestamp <= visible_through
            PROVE  c.timestamp <= g.timestamp
        <5>1. PICK n \in versions[k] : n \in newest
          BY <1>0, <4>3, NewestExists
        <5>2. n.timestamp <= g.timestamp
          BY <1>0, <1>4, <3>1, <4>3, <5>1
        <5>3. c.timestamp <= n.timestamp
          <6> SUFFICES ASSUME c.timestamp > n.timestamp PROVE FALSE
            BY <1>0, <5>1
          <6>1. PICK w \in versions[k] : w.timestamp = c.timestamp
            BY <3>2, <5>1 DEF VersionsSuffix
          <6> QED
            BY <1>0, <3>2, <5>1, <6>1 DEF NewestAt
        <5> QED
          BY <1>0, <3>1, <5>1, <5>2, <5>3
      <4>4. \/ \E v \in versions[k] : v.timestamp <= visible_through
            \/ \E h \in generations : c.timestamp <= h.timestamp
        BY <1>0, <3>2 DEF HistoryReachable
      <4> QED
        BY <4>1, <4>2, <4>3, <4>4
    <3>3. HistoryAt(committed, k, g.timestamp) = HistoryAt(committed, k, visible_through)
      BY <1>0, <3>1, <3>2, HistorySame
    <3>4. g.entries[k] = CommittedAt(k, g.timestamp)
      BY <3>1 DEF GenerationsExact, Generated
    <3> QED
      BY <3>3, <3>4, CommittedIsHistory
  <2> QED
    BY <1>1, <1>4, <2>1
<1> QED
  BY <1>2, <1>3, <1>4

\* The history at a past timestamp is final.
LEMMA PastIsFinal ==
  ASSUME SafetyInvariant, CommittedResolved, [Next]_vars,
         NEW k, NEW s \in Nat, s <= visible_through
  PROVE  HistoryAt(committed', k, s) = HistoryAt(committed, k, s)
<1> USE DEF SafetyInvariant
<1>1. CASE UNCHANGED committed
  BY <1>1
<1>2. ASSUME NEW t \in Txns, FinishCommit(t)
      PROVE  HistoryAt(committed', k, s) = HistoryAt(committed, k, s)
  <2>1. /\ visible_through \in Nat
        /\ \A c \in committed : c.timestamp \in Nat
    BY TypedTimestamps
  <2>2. \A c \in committed' : c \in committed \/ c.timestamp = commit_timestamp[t]
    BY <1>2, FinishHistory
  <2>3. /\ committed \subseteq committed'
        /\ commit_timestamp[t] \in Nat
        /\ commit_timestamp[t] > visible_through
    BY <1>2, FinishReads, FinishNewest
  <2>4. \A c \in committed' : c.timestamp \in Nat /\ (c \in committed \/ c.timestamp > s)
    BY <2>1, <2>2, <2>3
  <2> QED
    BY <2>3, <2>4, HistoryGrows
<1> QED
  BY <1>1, <1>2, CommittedOnly

\* build_index yields the committed state at the generation's timestamp.
LEMMA ExactPreserved ==
  ASSUME SafetyInvariant, ReadInvariant, [Next]_vars
  PROVE  GenerationsExact'
<1> USE DEF SafetyInvariant
<1>0. \A g \in Generated : g.timestamp \in Nat /\ g.timestamp <= visible_through
  BY TypedTimestamps DEF ReadInvariant, GenerationsPast
<1>1. ASSUME NEW g \in Generated, NEW k \in Keys
      PROVE  g.entries[k] = HistoryAt(committed', k, g.timestamp)
  <2>1. g.entries[k] = HistoryAt(committed, k, g.timestamp)
    BY CommittedIsHistory DEF ReadInvariant, GenerationsExact
  <2> QED
    BY <1>0, <2>1, PastIsFinal DEF ReadInvariant
<1>2. ASSUME NEW k, NEW s
      PROVE  CommittedAt(k, s)' = HistoryAt(committed', k, s)
  BY DEF CommittedAt, HistoryAt
<1>3. CASE Generated' \subseteq Generated
  BY <1>1, <1>2, <1>3 DEF GenerationsExact
<1>4. CASE Still
  <2>1. \A k \in Keys : NewGeneration.entries[k] =
                          HistoryAt(committed', k, NewGeneration.timestamp)
    BY <1>4, CaptureExact, CommittedIsHistory DEF NewGeneration, Still
  <2>2. \A g \in Generated' : g \in Generated \/ g = NewGeneration
    BY <1>4 DEF Still
  <2>3. \A g \in Generated' : \A k \in Keys :
          g.entries[k] = HistoryAt(committed', k, g.timestamp)
    BY <1>1, <2>1, <2>2
  <2> QED
    BY <1>2, <2>3 DEF GenerationsExact
<1> QED
  BY <1>3, <1>4, ReadSteps, FinishReads, PublishReads

(***************************************************************************)
(* The theorems.                                                           *)
(***************************************************************************)
LEMMA InitReads == Init => ReadInvariant
<1> SUFFICES ASSUME Init PROVE ReadInvariant
  OBVIOUS
<1>1. /\ committed = {} /\ generations = {}
      /\ \A k \in Keys : versions[k] = {}
      /\ \A b \in Builders : ~ build[b].running
  BY DEF Init, NoBuild
<1>2. Generated = {}
  BY <1>1 DEF Generated
<1> QED
  BY <1>1, <1>2
  DEF ReadInvariant, CommittedResolved, CommittedUnique, VersionsCommitted,
      VersionsSuffix, HistoryReachable, GenerationsPast, CleanCovered,
      GenerationsExact

\* Every step preserves the whole read invariant.
LEMMA StepReads ==
  SafetyInvariant /\ ReadInvariant /\ [Next]_vars => ReadInvariant'
<1> SUFFICES ASSUME SafetyInvariant, ReadInvariant, [Next]_vars
             PROVE  ReadInvariant'
  OBVIOUS
<1>1. CommittedResolved' /\ CommittedUnique'
  BY ResolvedPreserved, UniquePreserved DEF ReadInvariant
<1>2. VersionsCommitted' /\ VersionsSuffix'
  BY VersionsCommittedPreserved, VersionsSuffixPreserved DEF ReadInvariant
<1>3. HistoryReachable' /\ GenerationsPast' /\ CleanCovered'
  BY ReachablePreserved, PastGenerations, CleanPreserved DEF ReadInvariant
<1>4. GenerationsExact'
  BY ExactPreserved
<1> QED
  BY <1>1, <1>2, <1>3, <1>4 DEF ReadInvariant

\* Commits, rebuilds and reclamation never leave the invariant that says
\* where each committed version can still be found.
THEOREM ReadSafety == Spec => []ReadInvariant
BY InitReads, StepReads, Safety, PTL DEF Spec

\* Every registered snapshot, and the one the next begin takes, reads exactly
\* the committed history at its timestamp (Inner::read), wherever
\* reclaim_covered has left each version.
THEOREM SnapshotReadsAlways == Spec => []SnapshotReads
<1>1. SafetyInvariant /\ ReadInvariant => SnapshotReads
  BY ReadExact DEF SnapshotReads, SafetyInvariant
<1> QED
  BY <1>1, Safety, ReadSafety, PTL

\* rebuild_index publishes the exact state of the database at the
\* generation's timestamp, however many generations it was derived through
\* and whatever committed while the tree was being written.
THEOREM GenerationsExactAlways == Spec => []GenerationsExact
<1>1. ReadInvariant => GenerationsExact
  BY DEF ReadInvariant
<1> QED
  BY <1>1, ReadSafety, PTL

\* A transaction that stays registered keeps its snapshot.
LEMMA SnapshotKept ==
  ASSUME SafetyInvariant, SafetyInvariant', [Next]_vars,
         NEW t \in active, t \in active'
  PROVE  t \in Txns /\ snapshot'[t] = snapshot[t]
<1>1. t \in Txns
  BY DEF SafetyInvariant, TypeOK, StateOK
<1>2. phase[t] # "idle" /\ phase'[t] # "done"
  BY <1>1 DEF SafetyInvariant, SnapshotsRegistered
<1>3. ASSUME NEW u \in Txns, Begin(u) \/ Rollback(u) \/ EndTransaction(u)
      PROVE  snapshot'[t] = snapshot[t]
  <2>0. snapshot \in [Txns -> Nat]
    BY DEF SafetyInvariant, TypeOK, TransactionsOK
  <2>1. CASE Begin(u)
    BY <1>1, <1>2, <2>0, <2>1 DEF Begin
  <2>2. CASE Rollback(u)
    BY <2>2 DEF Rollback, Dropped
  <2>3. CASE EndTransaction(u)
    BY <2>3 DEF EndTransaction, Dropped
  <2> QED
    BY <1>3, <2>1, <2>2, <2>3, Zenon
<1>4. ASSUME NEW u \in Txns, TxnStep(u),
             ~ Begin(u), ~ Rollback(u), ~ EndTransaction(u)
      PROVE  UNCHANGED snapshot
  BY <1>4, OtherSteps DEF SafetyInvariant
<1>5. ASSUME NEW b \in Builders, BuilderStep(b)
      PROVE  UNCHANGED snapshot
  BY <1>5 DEF BuilderStep, CallRebuild, Publish, RebuildFailure, txnVars
<1>6. CASE PublisherWake \/ UNCHANGED vars
  BY <1>1, <1>6, SMTT(30) DEF PublisherWake, vars, txnVars
<1> QED
  BY <1>1, <1>3, <1>4, <1>5, <1>6 DEF Next

\* What a registered snapshot reads of a key does not change.
LEMMA ReadKept ==
  ASSUME SafetyInvariant, SafetyInvariant', ReadInvariant,
         SnapshotReads, SnapshotReads', [Next]_vars,
         NEW t \in active, t \in active', NEW k \in Keys
  PROVE  Read(k, snapshot[t])' = Read(k, snapshot[t])
<1>1. t \in Txns /\ snapshot'[t] = snapshot[t]
  BY SnapshotKept
<1>2. snapshot[t] \in Nat /\ snapshot[t] <= visible_through
  BY <1>1, SMTT(30) DEF SafetyInvariant, SnapshotsRegistered, TypeOK, TransactionsOK
<1>3. Read(k, snapshot[t]) = HistoryAt(committed, k, snapshot[t])
  BY CommittedIsHistory DEF SnapshotReads, Readable
<1>4. Read(k, snapshot[t])' = CommittedAt(k, snapshot[t])'
  BY DEF SnapshotReads, Readable
<1>5. CommittedAt(k, snapshot[t])' = HistoryAt(committed', k, snapshot[t])
  BY <1>1 DEF CommittedAt, HistoryAt
<1>6. HistoryAt(committed', k, snapshot[t]) = HistoryAt(committed, k, snapshot[t])
  BY <1>2, PastIsFinal DEF ReadInvariant
<1> QED
  BY <1>3, <1>4, <1>5, <1>6, Zenon

\* Repeatable reads: no commit, rebuild or reclamation changes what a
\* registered snapshot reads for any key.
THEOREM SnapshotsStableAlways == Spec => SnapshotsStable
<1>1. SafetyInvariant /\ SafetyInvariant' /\ ReadInvariant
      /\ SnapshotReads /\ SnapshotReads' /\ [Next]_vars
        => [\A t \in active \cap active' : \A k \in Keys :
              Read(k, snapshot[t])' = Read(k, snapshot[t])]_vars
  BY ReadKept
<1> QED
  BY <1>1, Safety, ReadSafety, SnapshotReadsAlways, PTL DEF Spec, SnapshotsStable

\* scan_prefix, which assembles its answer from the map, the index and the
\* write buffer, finds exactly the keys Transaction::get finds.
THEOREM ScanMatchesGetAlways == Spec => []ScanMatchesGet
<1>1. TypeOK => ScanMatchesGet
  <2> SUFFICES ASSUME TypeOK, NEW t \in active, NEW p \in SUBSET Keys, NEW k \in p
               PROVE  k \in ScanPrefix(t, p) <=> Get(t, k) # {}
    BY DEF ScanMatchesGet, ScanPrefix
  <2>1. writes[t][k] \in {"none", "put", "delete"}
    BY DEF TypeOK, StateOK, TransactionsOK, Operation
  <2> QED
    BY <2>1, SMTT(30) DEF ScanPrefix, Get, Read
<1> QED
  BY <1>1, TypeCorrect, PTL
=============================================================================
