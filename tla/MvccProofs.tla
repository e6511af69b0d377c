----------------------------- MODULE MvccProofs -----------------------------
(***************************************************************************)
(* Proofs about Mvcc, for any sets of keys, prefixes, transactions and     *)
(* threads: conflicts, scans and the theorems.                             *)
(***************************************************************************)
EXTENDS MvccStepProofs, WellFoundedInduction, NaturalsInduction

(***************************************************************************)
(* Reclamation keeps what a registered or future snapshot may still        *)
(* conflict with.                                                          *)
(***************************************************************************)
LEMMA LeastNatural ==
  ASSUME NEW S \in SUBSET Nat, S # {}
  PROVE  \E s \in S : \A r \in S : s <= r
<1> DEFINE R == OpToRel(<, Nat)
<1>1. IsWellFoundedOn(R, Nat)
  BY NatLessThanWellFounded
<1>2. \A r, s \in Nat : r < s => <<r, s>> \in R
  BY DEF OpToRel
<1> HIDE DEF R
<1>3. PICK s \in S : \A r \in S : ~ (<<r, s>> \in R)
  BY <1>1, WFMin
<1>4. \A r \in S : ~ (r < s)
  BY <1>2, <1>3
<1>5. \A r \in S : s <= r
  BY <1>4
<1> QED
  BY <1>5

\* reclaim_covered's oldest snapshot is not above the watermark or any active one.
LEMMA OldestActiveBound ==
  ASSUME TypeOK, SnapshotsRegistered
  PROVE  /\ OldestActive \in Nat
         /\ OldestActive <= visible_through
         /\ \A t \in active : OldestActive <= snapshot[t]
<1> DEFINE snapshots == {snapshot[t] : t \in active}
<1>1. visible_through \in Nat
  BY DEF TypeOK, TimestampsOK
<1>2. snapshots \in SUBSET Nat
  BY DEF TypeOK, StateOK, TransactionsOK
<1>3. CASE active = {}
  BY <1>1, <1>3 DEF OldestActive
<1>4. CASE active # {}
  <2>n. snapshots # {}
    BY <1>4
  <2>1. \E s \in snapshots : \A r \in snapshots : s <= r
    <3> HIDE DEF snapshots
    <3> QED
      BY <1>2, <2>n, LeastNatural
  <2>2. /\ OldestActive \in snapshots
        /\ \A r \in snapshots : OldestActive <= r
    BY <1>4, <2>1 DEF OldestActive
  <2>3. \A t \in active : snapshot[t] \in snapshots /\ snapshot[t] <= visible_through
    BY DEF TypeOK, StateOK, SnapshotsRegistered
  <2>4. PICK t \in active : TRUE
    BY <1>4
  <2> QED
    BY <1>1, <1>2, <2>2, <2>3, <2>4
<1> QED
  BY <1>3, <1>4

\* Two facts of the order of timestamps, for leaves that have no arithmetic.
LEMMA Irreflexive ==
  /\ \A a \in Nat : ~ (a > a)
  /\ \A a, b, c \in Nat : a <= b /\ b <= c => ~ (a > c)
OBVIOUS

\* Timestamps are totally ordered.
LEMMA NotAbove == \A a, b \in Nat : ~ (a > b) => a <= b
OBVIOUS

\* reclaim_covered keeps every version newer than the oldest active snapshot.
LEMMA PublishKeepsRecent ==
  ASSUME TypeOK, SnapshotsRegistered, NEW b \in Builders, Publish(b),
         NEW k \in Keys, NEW v \in versions[k], v.timestamp > OldestActive
  PROVE  v \in versions'[k]
<1>1. OldestActive \in Nat
  BY OldestActiveBound
<1>2. versions[k] \subseteq Version
  BY DEF TypeOK, StateOK
<1>3. v \in Drained(versions[k], OldestActive)
  BY <1>1, <1>2 DEF Drained, NewestAt, Version
<1> DEFINE g     == build[b].generation
           ring  == generations \cup {g}
           cover == NewestAt(ring, OldestActive)
           kept  == Drained(versions[k], OldestActive)
<1>4. \A c \in cover : c.timestamp \in Nat /\ c.timestamp <= OldestActive
  BY <1>1 DEF NewestAt, TypeOK, StateOK, ThreadsOK, Build, Generation
<1>5. ~ \E c \in cover : \E w \in kept : kept = {w} /\ w.timestamp <= c.timestamp
  <2> SUFFICES ASSUME NEW c \in cover, NEW w \in kept,
                      kept = {w}, w.timestamp <= c.timestamp
               PROVE  FALSE
    BY Zenon
  <2>1. w = v
    BY <1>3
  <2>2. v.timestamp \in Nat
    BY <1>2 DEF Version
  <2>3. PICK a, x, o \in Nat : a = v.timestamp /\ x = c.timestamp /\ o = OldestActive
    BY <1>1, <1>4, <2>2, SMTT(30)
  <2>4. a <= x /\ x <= o
    BY <1>4, <2>1, <2>3, Zenon
  <2>5. a > o
    BY <2>3, Zenon
  <2> QED
    BY <2>4, <2>5, Irreflexive, Zenon
<1>6. versions'[k] = kept
  BY <1>5 DEF Publish, ReclaimCovered
<1> QED
  BY <1>3, <1>6

\* What is committed above a snapshot stays in the map whatever step is taken.
LEMMA RecentPreserved ==
  ASSUME TypeOK, WatermarkExact, SnapshotsRegistered, RecentInMap, [Next]_vars
  PROVE  RecentInMap'
<1>0. /\ visible_through \in Nat /\ visible_through' \in Nat
      /\ visible_through <= visible_through'
      /\ snapshot \in [Txns -> Nat] /\ active \in SUBSET Txns
      /\ \A c \in committed : c.timestamp \in Nat
  BY TimestampsTyped DEF TypeOK, TimestampsOK, TransactionsOK, StateOK, Commit
<1>1. ASSUME NEW t \in Txns, FinishCommit(t)
      PROVE  RecentInMap'
  <2>1. UNCHANGED <<active, snapshot>>
    BY <1>1, SMTT(30) DEF FinishCommit
  <2>2. \A k \in Keys : versions[k] \subseteq versions'[k]
    BY <1>1 DEF FinishCommit, TypeOK, StateOK
  <2>3. ASSUME NEW c \in committed, NEW k \in Written(c.writes),
               c.timestamp > visible_through'
                 \/ \E u \in active' : c.timestamp > snapshot'[u]
        PROVE  \E v \in versions'[k] : v.timestamp = c.timestamp
    <3>1. c.timestamp > visible_through \/ \E u \in active : c.timestamp > snapshot[u]
      BY <1>0, <2>1, <2>3
    <3>2. k \in Keys
      BY DEF Written
    <3> QED
      BY <2>2, <3>1, <3>2 DEF RecentInMap
  <2>4. ASSUME NEW k \in Written(writes[t])
        PROVE  \E v \in versions'[k] : v.timestamp = commit_timestamp[t]
    <3> DEFINE v == [timestamp |-> commit_timestamp[t],
                     live |-> writes[t][k] = "put"]
    <3>1. versions'[k] = versions[k] \cup {v}
      BY <1>1, SMTT(30) DEF FinishCommit, Written
    <3>2. v \in versions'[k] /\ v.timestamp = commit_timestamp[t]
      BY <3>1
    <3> QED
      BY <3>2, SMTT(30)
  <2> SUFFICES ASSUME NEW c \in committed', NEW k \in Written(c.writes),
                      c.timestamp > visible_through'
                        \/ \E u \in active' : c.timestamp > snapshot'[u]
               PROVE  \E v \in versions'[k] : v.timestamp = c.timestamp
    BY DEF RecentInMap
  <2>5. \/ c \in committed
        \/ c.timestamp = commit_timestamp[t] /\ c.writes = writes[t]
    BY <1>1, FinishHistory
  <2>6. CASE c \in committed
    BY <2>3, <2>6
  <2>7. CASE c.timestamp = commit_timestamp[t] /\ c.writes = writes[t]
    BY <2>4, <2>7
  <2> QED
    BY <2>5, <2>6, <2>7, SMTT(30)
<1>2. ASSUME NEW t \in Txns, Begin(t)
      PROVE  RecentInMap'
  BY <1>0, <1>2 DEF RecentInMap, Begin
<1>3. ASSUME NEW t \in Txns, Rollback(t) \/ EndTransaction(t)
      PROVE  RecentInMap'
  BY <1>0, <1>3 DEF RecentInMap, Rollback, EndTransaction, Dropped
<1>4. ASSUME NEW t \in Txns, TxnStep(t), ~ FinishCommit(t),
             ~ Begin(t), ~ Rollback(t), ~ EndTransaction(t)
      PROVE  RecentInMap'
  <2>1. UNCHANGED <<active, snapshot, versions, committed>>
    BY <1>4 DEF TxnStep, ProtectScans, Write, RecordScan, PrepareCommit,
       CommitConflict, PersistCommit, PersistFailure, FinishAbort,
       MarkIndexDirty, lockVars
  <2> QED
    BY <1>0, <2>1, SMTT(30) DEF RecentInMap
<1>5. ASSUME NEW b \in Builders, Publish(b)
      PROVE  RecentInMap'
  <2> SUFFICES ASSUME NEW c \in committed, NEW k \in Written(c.writes),
                      c.timestamp > visible_through
                        \/ \E u \in active : c.timestamp > snapshot[u]
               PROVE  \E v \in versions'[k] : v.timestamp = c.timestamp
    BY <1>5 DEF RecentInMap, Publish, txnVars
  <2>1. PICK v \in versions[k] : v.timestamp = c.timestamp
    BY DEF RecentInMap
  <2>2. v.timestamp > OldestActive
    BY <1>0, <2>1, OldestActiveBound, SMTT(30)
  <2> QED
    BY <1>5, <2>1, <2>2, PublishKeepsRecent DEF Written
<1>6. CASE PublisherWake
  BY <1>6 DEF RecentInMap, PublisherWake, txnVars, lockVars
<1>7. ASSUME NEW b \in Builders, BuilderStep(b), ~ Publish(b)
      PROVE  RecentInMap'
  BY <1>7 DEF RecentInMap, BuilderStep, CallRebuild, RebuildFailure, txnVars, lockVars
<1>8. CASE UNCHANGED vars
  BY <1>8 DEF RecentInMap, vars, txnVars, lockVars
<1> QED
  BY <1>1, <1>2, <1>3, <1>4, <1>5, <1>6, <1>7, <1>8 DEF Next

(***************************************************************************)
(* The commits in flight against the committed ones.                       *)
(***************************************************************************)

\* No step puts a commit into the history at a timestamp not handed out yet.
LEMMA PastPreserved ==
  ASSUME TypeOK, WatermarkExact, CommittedInPast, [Next]_vars
  PROVE  CommittedInPast'
<1>0. /\ next_commit_timestamp \in Nat /\ next_commit_timestamp' \in Nat
      /\ next_commit_timestamp <= next_commit_timestamp'
      /\ \A c \in committed : c.timestamp \in Nat
  BY TimestampsTyped DEF TypeOK, TimestampsOK, StateOK, Commit
<1>1. CASE Quiet
  BY <1>0, <1>1 DEF Quiet, CommittedInPast
<1>2. ASSUME NEW t \in Txns, PrepareCommit(t)
      PROVE  CommittedInPast'
  BY <1>0, <1>2, PrepareEffect DEF CommittedInPast
<1>3. ASSUME NEW t \in Txns, FinishCommit(t)
      PROVE  CommittedInPast'
  BY <1>3, FinishEffect, FinishHistory, InFlightTimestamp DEF CommittedInPast
<1>4. ASSUME NEW t \in Txns, FinishAbort(t)
      PROVE  CommittedInPast'
  BY <1>4, FinishEffect DEF CommittedInPast
<1> QED
  BY <1>1, <1>2, <1>3, <1>4, FlightSteps

\* prepare_commit finds every commit newer than its snapshot in the map.
LEMMA ConflictSeen ==
  ASSUME TypeOK, SnapshotsRegistered, RecentInMap,
         NEW t \in Txns, phase[t] = "running",
         NEW k \in Keys, \A v \in versions[k] : ~ (v.timestamp > snapshot[t]),
         NEW c \in committed, c.writes[k] # "none"
  PROVE  c.timestamp <= snapshot[t]
<1>1. t \in active /\ snapshot[t] \in Nat /\ c.timestamp \in Nat
  BY SMTT(30) DEF SnapshotsRegistered, TypeOK, TransactionsOK, StateOK, Commit
<1>2. k \in Written(c.writes)
  BY DEF Written
<1>3. SUFFICES ASSUME c.timestamp > snapshot[t] PROVE FALSE
  BY <1>1
<1>4. PICK v \in versions[k] : v.timestamp = c.timestamp
  BY <1>1, <1>2, <1>3 DEF RecentInMap
<1> QED
  BY <1>3, <1>4

\* prepare_commit's conflict test keeps holding until the commit finishes.
LEMMA InFlightWritesPreserved ==
  ASSUME TypeOK, SnapshotsRegistered, IntentsExact, RecentInMap,
         InFlightWrites, [Next]_vars
  PROVE  InFlightWrites'
<1>1. CASE Quiet
  BY <1>1 DEF Quiet, InFlightWrites
<1>2. ASSUME NEW t \in Txns, PrepareCommit(t)
      PROVE  InFlightWrites'
  <2>1. ASSUME NEW c \in committed, NEW k \in Written(c.writes),
               writes[t][k] # "none"
        PROVE  c.timestamp <= snapshot[t]
    <3>1. k \in Keys /\ c.writes[k] # "none" /\ phase[t] = "running"
      BY <1>2 DEF Written, PrepareCommit
    <3>2. \A v \in versions[k] : ~ (v.timestamp > snapshot[t])
      BY <1>2, <2>1, <3>1 DEF PrepareCommit, WriteConflict, Written
    <3> QED
      BY <3>1, <3>2, ConflictSeen
  <2> QED
    BY <1>2, <2>1, PrepareEffect DEF InFlightWrites
<1>3. ASSUME NEW t \in Txns, FinishCommit(t)
      PROVE  InFlightWrites'
  <2> SUFFICES ASSUME NEW u \in Txns, InFlight(u), u # t,
                      NEW c \in committed', NEW k \in Written(c.writes),
                      writes[u][k] # "none"
               PROVE  c.timestamp <= snapshot[u]
    BY <1>3, FinishEffect DEF InFlightWrites
  <2>1. CASE c \in committed
    BY <2>1, SMTT(30) DEF InFlightWrites
  <2>2. CASE c.writes = writes[t]
    <3>1. intents[k] = u /\ intents[k] = t
      BY <1>3, <2>2, FinishEffect DEF IntentsExact, Written
    <3> QED
      BY <3>1
  <2> QED
    BY <1>3, <2>1, <2>2, FinishHistory
<1>4. ASSUME NEW t \in Txns, FinishAbort(t)
      PROVE  InFlightWrites'
  BY <1>4, FinishEffect DEF InFlightWrites
<1> QED
  BY <1>1, <1>2, <1>3, <1>4, FlightSteps

\* Likewise its test of the scanned prefixes.
LEMMA InFlightScansPreserved ==
  ASSUME TypeOK, WatermarkExact, SnapshotsRegistered, IntentsExact,
         RecentInMap, CommittedInPast, InFlightScans, [Next]_vars
  PROVE  InFlightScans'
<1>0. /\ \A t \in Txns : \A p \in scanned_prefixes[t] : p \subseteq Keys
      /\ commit_timestamp \in [Txns -> Nat]
      /\ next_commit_timestamp \in Nat
      /\ \A c \in committed : c.timestamp \in Nat
  BY PrefixAssumption DEF TypeOK, TransactionsOK, TimestampsOK, StateOK, Commit
<1>1. CASE Quiet
  BY <1>1, SMTT(30) DEF Quiet, InFlightScans
<1>2. ASSUME NEW t \in Txns, PrepareCommit(t)
      PROVE  InFlightScans'
  <2>1. ASSUME NEW p \in scanned_prefixes[t], NEW k \in p
        PROVE  /\ intents[k] \in {NoTxn, t}
               /\ \A v \in versions[k] : ~ (v.timestamp > snapshot[t])
               /\ phase[t] = "running"
    BY <1>2 DEF PrepareCommit, RangeConflict
  <2>2. ASSUME NEW p \in scanned_prefixes[t], NEW k \in p,
               NEW c \in committed, c.writes[k] # "none"
        PROVE  c.timestamp <= snapshot[t]
    BY <1>0, <2>1, <2>2, ConflictSeen, SMTT(30)
  <2>3. ASSUME NEW p \in scanned_prefixes[t], NEW k \in p,
               NEW u \in Txns \ {t}, InFlight(u), writes[u][k] # "none"
        PROVE  FALSE
    <3>1. intents[k] = u
      BY <1>0, <2>3 DEF IntentsExact
    <3> QED
      BY <2>1, <3>1, NoTxnAssumption, SMTT(30)
  <2>4. ASSUME NEW u \in Txns, InFlight(u)
        PROVE  commit_timestamp[u] < next_commit_timestamp /\ u # t
    BY <1>2, <2>4, InFlightTimestamp, PrepareEffect
  <2> SUFFICES ASSUME NEW w \in Txns, InFlight(w)',
                      NEW p \in scanned_prefixes[w], NEW k \in p
               PROVE  /\ \A c \in committed :
                           c.writes[k] # "none" /\ c.timestamp < commit_timestamp'[w] =>
                             c.timestamp <= snapshot[w]
                      /\ \A u \in Txns \ {w} :
                           InFlight(u)' /\ writes[u][k] # "none" =>
                             commit_timestamp'[w] < commit_timestamp'[u]
    BY <1>2, PrepareEffect DEF InFlightScans
  <2>5. CASE w = t
    BY <1>2, <2>2, <2>3, <2>5, PrepareEffect, SMTT(30)
  <2>6. CASE w # t
    <3>1. InFlight(w) /\ commit_timestamp'[w] = commit_timestamp[w]
      BY <1>2, <2>6, PrepareEffect
    <3>2. \A u \in Txns \ {w} : InFlight(u)' /\ writes[u][k] # "none" =>
            commit_timestamp[w] < commit_timestamp'[u]
      BY <1>2, <2>4, <3>1, PrepareEffect DEF InFlightScans
    <3> QED
      BY <3>1, <3>2 DEF InFlightScans
  <2> QED
    BY <2>5, <2>6
<1>3. ASSUME NEW t \in Txns, FinishCommit(t)
      PROVE  InFlightScans'
  <2>0. InFlight(t)
    BY <1>3, FinishEffect, SMTT(30)
  <2>e. \A u \in Txns : InFlight(u)' <=> InFlight(u) /\ u # t
    BY <1>3, FinishEffect, Zenon
  <2>f. /\ commit_timestamp' = commit_timestamp /\ writes' = writes
        /\ scanned_prefixes' = scanned_prefixes /\ snapshot' = snapshot
    BY <1>3, FinishEffect, Zenon
  <2> DEFINE Past(w, k) == \A c \in committed' :
                             c.writes[k] # "none" /\ c.timestamp < commit_timestamp[w] =>
                               c.timestamp <= snapshot[w]
             Ahead(w, k) == \A u \in Txns \ {w} :
                              InFlight(u) /\ writes[u][k] # "none" =>
                                commit_timestamp[w] < commit_timestamp[u]
  <2> SUFFICES ASSUME NEW w \in Txns, InFlight(w), w # t,
                      NEW p \in scanned_prefixes[w], NEW k \in p
               PROVE  Past(w, k) /\ Ahead(w, k)
    <3>1. \A w \in Txns : InFlight(w)' =>
            \A p \in scanned_prefixes[w] : \A k \in p : Past(w, k) /\ Ahead(w, k)
      BY <2>e, Zenon
    <3> QED
      BY <2>e, <2>f, <3>1 DEF InFlightScans
  <2>1. ASSUME NEW c \in committed', c.writes[k] # "none",
               c.timestamp < commit_timestamp[w]
        PROVE  c.timestamp <= snapshot[w]
    <3>1. CASE c \in committed
      BY <2>1, <3>1 DEF InFlightScans
    <3>2. CASE c.writes = writes[t] /\ c.timestamp = commit_timestamp[t]
      <4>1. commit_timestamp[w] < commit_timestamp[t]
        BY <2>0, <2>1, <3>2 DEF InFlightScans
      <4> QED
        BY <1>0, <2>1, <3>2, <4>1
    <3> QED
      BY <1>3, <3>1, <3>2, FinishHistory
  <2> QED
    BY <2>1 DEF InFlightScans
<1>4. ASSUME NEW t \in Txns, FinishAbort(t)
      PROVE  InFlightScans'
  BY <1>4, FinishEffect DEF InFlightScans
<1> QED
  BY <1>1, <1>2, <1>3, <1>4, FlightSteps

\* A later writer into a prefix a commit scanned has a later timestamp.
LEMMA CommittedScansPreserved ==
  ASSUME TypeOK, CommittedInPast, InFlightScans, CommittedScans, [Next]_vars
  PROVE  CommittedScans'
<1>1. CASE Quiet
  BY <1>1 DEF Quiet, CommittedScans
<1>2. ASSUME NEW t \in Txns, PrepareCommit(t)
      PROVE  CommittedScans'
  BY <1>2, PrepareEffect DEF CommittedScans, CommittedInPast
<1>3. ASSUME NEW t \in Txns, FinishCommit(t)
      PROVE  CommittedScans'
  <2> SUFFICES ASSUME NEW d \in committed', NEW p \in d.scanned, NEW k \in p,
                      NEW u \in Txns, u # t, InFlight(u), writes[u][k] # "none"
               PROVE  d.timestamp < commit_timestamp[u]
    BY <1>3, FinishEffect DEF CommittedScans
  <2>1. CASE d \in committed
    BY <2>1, SMTT(30) DEF CommittedScans
  <2>2. CASE d.scanned = scanned_prefixes[t] /\ d.timestamp = commit_timestamp[t]
    BY <1>3, <2>2, FinishEffect, SMTT(30) DEF InFlightScans
  <2> QED
    BY <1>3, <2>1, <2>2, FinishHistory
<1>4. ASSUME NEW t \in Txns, FinishAbort(t)
      PROVE  CommittedScans'
  BY <1>4, FinishEffect, SMTT(30) DEF CommittedScans
<1> QED
  BY <1>1, <1>2, <1>3, <1>4, FlightSteps

(***************************************************************************)
(* The two conflict rules.                                                 *)
(***************************************************************************)
LEMMA CommittedOnly ==
  ASSUME TypeOK, [Next]_vars
  PROVE  UNCHANGED committed \/ \E t \in Txns : FinishCommit(t)
BY FlightSteps, PrepareEffect, FinishEffect DEF Quiet

\* No finish makes two commits of one key that do not see each other.
LEMMA FirstCommitterPreserved ==
  ASSUME TypeOK, WatermarkExact, SnapshotsRegistered, InFlightWrites,
         FirstCommitterWins, [Next]_vars
  PROVE  FirstCommitterWins'
<1>1. CASE UNCHANGED committed
  BY <1>1 DEF FirstCommitterWins
<1>2. ASSUME NEW t \in Txns, FinishCommit(t)
      PROVE  FirstCommitterWins'
  <2>0. /\ InFlight(t)
        /\ snapshot[t] \in Nat /\ visible_through \in Nat
        /\ snapshot[t] <= visible_through
        /\ commit_timestamp[t] \in Nat
        /\ commit_timestamp[t] > visible_through
        /\ \A e \in committed : e.timestamp \in Nat
    BY <1>2, FinishEffect, InFlightTimestamp
    DEF TypeOK, TransactionsOK, TimestampsOK, StateOK, Commit,
        SnapshotsRegistered, InFlight
  <2> SUFFICES ASSUME NEW c \in committed', NEW d \in committed',
                      c.timestamp < d.timestamp,
                      NEW k \in Written(c.writes), k \in Written(d.writes)
               PROVE  c.timestamp <= d.snapshot
    BY DEF FirstCommitterWins
  <2>1. CASE c \in committed /\ d \in committed
    BY <2>1 DEF FirstCommitterWins
  <2>2. CASE c \in committed /\ d.writes = writes[t] /\ d.snapshot = snapshot[t]
    BY <2>0, <2>2 DEF InFlightWrites, Written
  <2>3. CASE /\ c.writes = writes[t] /\ c.timestamp = commit_timestamp[t]
             /\ d \in committed
    <3>1. d.timestamp <= snapshot[t]
      BY <2>0, <2>3 DEF InFlightWrites, Written
    <3> QED
      BY <2>0, <2>3, <3>1
  <2>4. CASE /\ c.timestamp = commit_timestamp[t]
             /\ d.timestamp = commit_timestamp[t]
    BY <2>0, <2>4
  <2> QED
    BY <1>2, <2>1, <2>2, <2>3, <2>4, FinishHistory
<1> QED
  BY <1>1, <1>2, CommittedOnly

\* No finish puts a writer between a commit's snapshot and its scans.
LEMMA NoPhantomPreserved ==
  ASSUME TypeOK, InFlightScans, CommittedScans, NoPhantom, [Next]_vars
  PROVE  NoPhantom'
<1>1. CASE UNCHANGED committed
  BY <1>1 DEF NoPhantom
<1>2. ASSUME NEW t \in Txns, FinishCommit(t)
      PROVE  NoPhantom'
  <2>0. /\ InFlight(t)
        /\ commit_timestamp[t] \in Nat
        /\ \A e \in committed : e.timestamp \in Nat
    BY <1>2, FinishEffect DEF TypeOK, TransactionsOK, StateOK, Commit
  <2> SUFFICES ASSUME NEW c \in committed', NEW d \in committed',
                      c.timestamp < d.timestamp,
                      NEW p \in d.scanned, NEW k \in p, k \in Written(c.writes)
               PROVE  c.timestamp <= d.snapshot
    BY DEF NoPhantom
  <2>1. CASE c \in committed /\ d \in committed
    BY <2>1 DEF NoPhantom
  <2>2. CASE /\ c \in committed
             /\ d.timestamp = commit_timestamp[t]
             /\ d.snapshot = snapshot[t]
             /\ d.scanned = scanned_prefixes[t]
    BY <2>0, <2>2 DEF InFlightScans, Written
  <2>3. CASE /\ c.writes = writes[t] /\ c.timestamp = commit_timestamp[t]
             /\ d \in committed
    <3>1. d.timestamp < commit_timestamp[t]
      BY <2>0, <2>3 DEF CommittedScans, Written
    <3> QED
      BY <2>0, <2>3, <3>1
  <2>4. CASE /\ c.timestamp = commit_timestamp[t]
             /\ d.timestamp = commit_timestamp[t]
    BY <2>0, <2>4
  <2> QED
    BY <1>2, <2>1, <2>2, <2>3, <2>4, FinishHistory
<1> QED
  BY <1>1, <1>2, CommittedOnly

(***************************************************************************)
(* The theorems.                                                           *)
(***************************************************************************)
LEMMA InitSafe == Init => SafetyInvariant
<1> SUFFICES ASSUME Init PROVE SafetyInvariant
  OBVIOUS
<1>1. TypeOK
  BY InitType
<1>2. \A t \in Txns : phase[t] = "idle" /\ ~ InFlight(t)
  BY DEF Init, InFlight
<1>3. committed = {} /\ active = {} /\ completed_timestamps = {}
      /\ next_commit_timestamp = 1 /\ visible_through = 0
  BY DEF Init
<1>4. IntentsExact
  BY <1>2, NoTxnAssumption DEF Init, IntentsExact
<1>5. WatermarkExact
  BY <1>2, <1>3 DEF WatermarkExact
<1> QED
  BY <1>1, <1>2, <1>3, <1>4, <1>5
  DEF SafetyInvariant, SnapshotsRegistered, RecentInMap, CommittedInPast,
      InFlightWrites, InFlightScans, CommittedScans, FirstCommitterWins, NoPhantom

\* Every step preserves the whole safety invariant.
LEMMA StepSafe == SafetyInvariant /\ [Next]_vars => SafetyInvariant'
<1> SUFFICES ASSUME SafetyInvariant, [Next]_vars PROVE SafetyInvariant'
  OBVIOUS
<1> USE DEF SafetyInvariant
<1>1. TypeOK'
  BY TimestampsTyped, StateTyped, TransactionsTyped, ThreadsTyped DEF TypeOK
<1>2. WatermarkExact' /\ SnapshotsRegistered' /\ IntentsExact'
  BY WatermarkPreserved, RegisteredPreserved, IntentsPreserved
<1>3. RecentInMap' /\ CommittedInPast'
  BY RecentPreserved, PastPreserved
<1>4. InFlightWrites' /\ InFlightScans' /\ CommittedScans'
  BY InFlightWritesPreserved, InFlightScansPreserved, CommittedScansPreserved
<1>5. FirstCommitterWins' /\ NoPhantom'
  BY FirstCommitterPreserved, NoPhantomPreserved
<1> QED
  BY <1>1, <1>2, <1>3, <1>4, <1>5

\* The transaction layer never leaves its inductive invariant, whatever the
\* threads of commit, rollback, rebuild_index and publish_loop interleave.
THEOREM Safety == Spec => []SafetyInvariant
BY InitSafe, StepSafe, PTL DEF Spec

\* State and the Transaction values keep their types, and the watermark's
\* variables stay ordered.
THEOREM TypeCorrect == Spec => []TypeOK
<1>1. SafetyInvariant => TypeOK
  BY DEF SafetyInvariant
<1> QED
  BY <1>1, Safety, PTL

\* finish_prepared moves the watermark over exactly the finished timestamps,
\* in whatever order commits finish and whether they persisted or failed.
THEOREM WatermarkCorrect == Spec => []WatermarkExact
<1>1. SafetyInvariant => WatermarkExact
  BY DEF SafetyInvariant
<1> QED
  BY <1>1, Safety, PTL

\* reclaim_covered never removes a version that prepare_commit would need to
\* see for an active transaction.
THEOREM RecentVersionsKept == Spec => []RecentKept
<1>1. SafetyInvariant => RecentKept
  BY DEF SafetyInvariant, RecentInMap, RecentKept
<1> QED
  BY <1>1, Safety, PTL

\* prepare_commit's tests on the map and the intents give first committer
\* wins, although the timestamp order, the finish order and reclamation are
\* independent of one another.
THEOREM FirstCommitterWinsAlways == Spec => []FirstCommitterWins
<1>1. SafetyInvariant => FirstCommitterWins
  BY DEF SafetyInvariant
<1> QED
  BY <1>1, Safety, PTL

\* A transaction under protect_scans commits only if nobody committed, before
\* it in timestamp order, into a prefix it scanned after its snapshot.
THEOREM NoPhantomAlways == Spec => []NoPhantom
<1>1. SafetyInvariant => NoPhantom
  BY DEF SafetyInvariant
<1> QED
  BY <1>1, Safety, PTL
=============================================================================
