------------------------ MODULE MvccRefinementProofs ------------------------
(***************************************************************************)
(* Mvcc implements SnapshotIsolation, for any sets of keys, prefixes,      *)
(* transactions and threads.                                               *)
(***************************************************************************)
EXTENDS MvccRefinement, MvccReadProofs, SequenceTheorems

(***************************************************************************)
(* The abstract log.                                                       *)
(***************************************************************************)
LogEntry == [snapshot : Nat, writes : [Keys -> Operation]]

\* A log entry has its type, whether or not its timestamp committed.
LEMMA EntryType ==
  ASSUME TypeOK, NEW n \in Nat
  PROVE  Entry(n) \in LogEntry
<1> DEFINE here == {c \in committed : c.timestamp = n}
<1>1. CASE here = {}
  BY <1>1 DEF Entry, EntryOf, LogEntry, Operation
<1>2. CASE here # {}
  <2>1. (CHOOSE c \in here : TRUE) \in here
    BY <1>2
  <2>2. (CHOOSE c \in here : TRUE) \in Commit
    BY <2>1 DEF TypeOK, StateOK
  <2> QED
    BY <1>2, <2>2 DEF Entry, EntryOf, LogEntry, Commit
<1> QED
  BY <1>1, <1>2

\* The entry of a committed timestamp is that commit.
LEMMA EntryOfCommit ==
  ASSUME CommittedUnique, NEW c \in committed
  PROVE  Entry(c.timestamp) = [snapshot |-> c.snapshot, writes |-> c.writes]
<1> DEFINE here == {d \in committed : d.timestamp = c.timestamp}
<1>1. here = {c}
  BY DEF CommittedUnique
<1>2. (CHOOSE d \in here : TRUE) = c
  BY <1>1
<1> QED
  BY <1>1, <1>2 DEF Entry, EntryOf

\* The entry of a timestamp that was given up writes nothing.
LEMMA EntryOfNone ==
  ASSUME NEW n, \A c \in committed : c.timestamp # n
  PROVE  Entry(n) = [snapshot |-> n, writes |-> [k \in Keys |-> "none"]]
BY DEF Entry, EntryOf

\* The abstract log has one entry for each timestamp up to the watermark.
LEMMA LogType ==
  ASSUME TypeOK
  PROVE  /\ VisibleLog \in Seq(LogEntry)
         /\ Len(VisibleLog) = visible_through
         /\ \A i \in 1 .. visible_through : VisibleLog[i] = Entry(i)
<1>1. visible_through \in Nat
  BY DEF TypeOK, TimestampsOK
<1>2. VisibleLog \in [1 .. visible_through -> LogEntry]
  BY <1>1, EntryType DEF VisibleLog
<1>3. VisibleLog \in Seq(LogEntry)
  BY <1>1, <1>2, SeqDef
<1>4. DOMAIN VisibleLog = 1 .. visible_through
  BY DEF VisibleLog
<1>5. Len(VisibleLog) = visible_through
  BY <1>1, <1>3, <1>4, LenProperties
<1> QED
  BY <1>3, <1>5 DEF VisibleLog

\* The history at the watermark, read off the abstract log.
LEMMA ValueIsHistory ==
  ASSUME TypeOK, CommittedResolved, CommittedUnique, NEW k \in Keys
  PROVE  SI!ValueAfter(Len(VisibleLog), k) = CommittedAt(k, visible_through)
<1> DEFINE writers == {e \in committed : e.writes[k] # "none"}
<1>0. /\ visible_through \in Nat
      /\ \A c \in committed : c.timestamp \in Nat /\ c.timestamp > 0
  BY TypedTimestamps DEF CommittedResolved
<1>1. /\ Len(VisibleLog) = visible_through
      /\ \A i \in 1 .. visible_through : VisibleLog[i] = Entry(i)
  BY LogType
<1>2. ASSUME NEW i \in 1 .. visible_through, Entry(i).writes[k] # "none"
      PROVE  \E c \in writers : c.timestamp = i /\ Entry(i).writes = c.writes
  <2>1. PICK c \in committed : c.timestamp = i
    BY <1>2, EntryOfNone
  <2>2. Entry(i) = [snapshot |-> c.snapshot, writes |-> c.writes]
    BY <2>1, EntryOfCommit
  <2> QED
    BY <1>2, <2>1, <2>2
<1>3. ASSUME NEW c \in writers
      PROVE  Entry(c.timestamp).writes[k] = c.writes[k]
  <2>1. Entry(c.timestamp) = [snapshot |-> c.snapshot, writes |-> c.writes]
    BY EntryOfCommit
  <2> QED
    BY <2>1
<1>4. ASSUME NEW i \in SI!ValueAfter(visible_through, k)
      PROVE  i \in CommittedAt(k, visible_through)
  <2>1. /\ i \in 1 .. visible_through
        /\ Entry(i).writes[k] = "put"
        /\ \A j \in i + 1 .. visible_through : Entry(j).writes[k] = "none"
    BY <1>0, <1>1 DEF SI!ValueAfter
  <2>2. PICK c \in writers : c.timestamp = i /\ Entry(i).writes = c.writes
    BY <1>2, <2>1
  <2>3. ASSUME NEW d \in writers, d.timestamp <= visible_through
        PROVE  d.timestamp <= c.timestamp
    <3> SUFFICES ASSUME d.timestamp > i PROVE FALSE
      BY <1>0, <2>2
    <3>1. d.timestamp \in i + 1 .. visible_through
      BY <1>0, <2>1, <2>3
    <3> QED
      BY <1>3, <2>1, <3>1
  <2>4. c \in NewestAt(writers, visible_through)
    BY <2>1, <2>2, <2>3 DEF NewestAt
  <2> QED
    BY <2>1, <2>2, <2>4 DEF CommittedAt
<1>5. ASSUME NEW i \in CommittedAt(k, visible_through)
      PROVE  i \in SI!ValueAfter(visible_through, k)
  <2>1. PICK c \in NewestAt(writers, visible_through) :
          c.writes[k] = "put" /\ c.timestamp = i
    BY DEF CommittedAt
  <2>2. /\ c \in writers /\ i \in 1 .. visible_through
        /\ \A d \in writers : d.timestamp <= visible_through => d.timestamp <= i
    BY <1>0, <2>1 DEF NewestAt
  <2>3. Entry(i).writes[k] = "put"
    BY <1>3, <2>1, <2>2
  <2>4. ASSUME NEW j \in i + 1 .. visible_through
        PROVE  Entry(j).writes[k] = "none"
    <3> SUFFICES ASSUME Entry(j).writes[k] # "none" PROVE FALSE
      OBVIOUS
    <3>1. PICK d \in writers : d.timestamp = j
      BY <1>2, <2>2
    <3> QED
      BY <1>0, <2>2, <3>1
  <2> QED
    BY <1>0, <1>1, <2>2, <2>3, <2>4 DEF SI!ValueAfter
<1> QED
  BY <1>1, <1>4, <1>5

\* The facts about the log, as a state predicate.
LogShape ==
  /\ VisibleLog \in Seq(LogEntry)
  /\ Len(VisibleLog) = visible_through
  /\ \A i \in 1 .. visible_through : VisibleLog[i] = Entry(i)
  /\ \A c \in committed :
       Entry(c.timestamp) = [snapshot |-> c.snapshot, writes |-> c.writes]
  /\ \A n \in Nat : (\A c \in committed : c.timestamp # n) =>
       Entry(n) = [snapshot |-> n, writes |-> [k \in Keys |-> "none"]]

\* The two invariants give the shape of the log.
LEMMA LogFacts == SafetyInvariant /\ ReadInvariant => LogShape
BY LogType, EntryOfCommit, EntryOfNone DEF SafetyInvariant, ReadInvariant, LogShape

(***************************************************************************)
(* Steps.                                                                  *)
(***************************************************************************)

\* What is in the log stays as it is.
LEMMA EntryKept ==
  ASSUME SafetyInvariant, ReadInvariant, [Next]_vars,
         NEW n \in 1 .. visible_through
  PROVE  Entry(n)' = Entry(n)
<1>1. {c \in committed' : c.timestamp = n} = {c \in committed : c.timestamp = n}
  <2>1. CASE UNCHANGED committed
    BY <2>1
  <2>2. ASSUME NEW t \in Txns, FinishCommit(t)
        PROVE  {c \in committed' : c.timestamp = n} = {c \in committed : c.timestamp = n}
    <3>1. commit_timestamp[t] \in Nat /\ commit_timestamp[t] > visible_through
      BY <2>2, FinishNewest DEF ReadInvariant
    <3>2. \A c \in committed' : c \in committed \/ c.timestamp = commit_timestamp[t]
      BY <2>2, FinishHistory DEF SafetyInvariant
    <3>3. committed \subseteq committed' /\ visible_through \in Nat
      BY <2>2, FinishReads DEF SafetyInvariant, TypeOK, TimestampsOK
    <3> QED
      BY <3>1, <3>2, <3>3
  <2> QED
    BY <2>1, <2>2, CommittedOnly DEF SafetyInvariant
<1> QED
  BY <1>1 DEF Entry

\* A step that leaves the watermark alone leaves the log alone.
LEMMA LogKept ==
  ASSUME SafetyInvariant, ReadInvariant, [Next]_vars, UNCHANGED visible_through
  PROVE  VisibleLog' = VisibleLog
BY EntryKept DEF VisibleLog

\* A step that neither begins nor ends a transaction leaves its view alone.
LEMMA ViewsKept ==
  ASSUME SafetyInvariant, SafetyInvariant', ReadInvariant,
         SnapshotReads, SnapshotReads', [Next]_vars,
         NEW t \in Txns, t \in active <=> t \in active'
  PROVE  View'[t] = View[t]
<1>1. CASE t \in active
  <2>1. \A k \in Keys : Read(k, snapshot[t])' = Read(k, snapshot[t])
    BY <1>1, ReadKept
  <2> QED
    BY <1>1, <2>1 DEF View
<1>2. CASE t \notin active
  BY <1>2 DEF View, NoView
<1> QED
  BY <1>1, <1>2

\* The watermark moves: whole transactions join the log, each with every
\* earlier writer of its keys in its snapshot.
LEMMA CommitRefines ==
  ASSUME SafetyInvariant, SafetyInvariant', ReadInvariant, LogShape, LogShape',
         [Next]_vars, visible_through' # visible_through, UNCHANGED View
  PROVE  SI!SICommit
<1>0. /\ visible_through \in Nat /\ visible_through' \in Nat
      /\ visible_through < visible_through'
      /\ \A c \in committed' : c.timestamp \in Nat /\ c.snapshot \in Nat
  <2>1. visible_through <= visible_through'
    BY TimestampsTyped DEF SafetyInvariant
  <2>2. visible_through \in Nat /\ visible_through' \in Nat
    BY DEF SafetyInvariant, TypeOK, TimestampsOK
  <2>3. \A c \in committed' : c.timestamp \in Nat /\ c.snapshot \in Nat
    BY DEF SafetyInvariant, TypeOK, StateOK, Commit
  <2> QED
    BY <2>1, <2>2, <2>3
<1>1. Len(VisibleLog') > Len(VisibleLog)
  BY <1>0 DEF LogShape
<1>2. SubSeq(VisibleLog', 1, Len(VisibleLog)) = VisibleLog
  <2> DEFINE sub == SubSeq(VisibleLog', 1, visible_through)
  <2>1. /\ VisibleLog' \in Seq(LogEntry)
        /\ Len(VisibleLog') = visible_through'
        /\ VisibleLog \in Seq(LogEntry)
        /\ Len(VisibleLog) = visible_through
    BY DEF LogShape, LogEntry, Operation
  <2>2. /\ sub \in Seq(LogEntry)
        /\ Len(sub) = visible_through
        /\ \A i \in 1 .. visible_through : sub[i] = VisibleLog'[i]
    BY <1>0, <2>1, SubSeqProperties
  <2>3. ASSUME NEW i \in 1 .. visible_through
        PROVE  sub[i] = VisibleLog[i]
    <3>1. sub[i] = VisibleLog'[i]
      BY <2>2
    <3>2. VisibleLog'[i] = Entry(i)'
      BY <1>0 DEF LogShape
    <3>3. VisibleLog[i] = Entry(i)
      BY DEF LogShape
    <3> QED
      BY <3>1, <3>2, <3>3, EntryKept
  <2> HIDE DEF sub
  <2>4. sub = VisibleLog
    BY <2>1, <2>2, <2>3, SeqEqual
  <2> QED
    BY <2>1, <2>4 DEF sub
<1>3. ASSUME NEW i \in visible_through + 1 .. visible_through',
             NEW j \in VisibleLog'[i].snapshot + 1 .. i - 1, NEW k \in Keys,
             VisibleLog'[i].writes[k] # "none", VisibleLog'[j].writes[k] # "none"
      PROVE  FALSE
  <2>1. i \in Nat /\ i \in 1 .. visible_through' /\ VisibleLog'[i] = Entry(i)'
    BY <1>0 DEF LogShape
  <2>2. PICK c \in committed' : c.timestamp = i
    BY <1>3, <2>1 DEF LogShape
  <2>3. Entry(i)' = [snapshot |-> c.snapshot, writes |-> c.writes]
    BY <2>2 DEF LogShape
  <2>4. VisibleLog'[i].snapshot = c.snapshot /\ c.writes[k] # "none"
    BY <1>3, <2>1, <2>3
  <2>5. j \in c.snapshot + 1 .. i - 1
    BY <1>3, <2>4
  <2>6. j \in Nat /\ j \in 1 .. visible_through' /\ c.snapshot < j /\ j < i
    BY <1>0, <2>1, <2>5
  <2>7. VisibleLog'[j] = Entry(j)'
    BY <2>6 DEF LogShape
  <2>8. PICK d \in committed' : d.timestamp = j
    BY <1>3, <2>6, <2>7 DEF LogShape
  <2>9. Entry(j)' = [snapshot |-> d.snapshot, writes |-> d.writes]
    BY <2>8 DEF LogShape
  <2>10. d.writes[k] # "none"
    BY <1>3, <2>7, <2>9
  <2>11. k \in Written(c.writes) \cap Written(d.writes)
    BY <2>4, <2>10 DEF Written
  <2>12. d.timestamp <= c.snapshot
    BY <2>2, <2>6, <2>8, <2>11, SMTT(30) DEF SafetyInvariant, FirstCommitterWins, Written
  <2> QED
    BY <1>0, <2>6, <2>8, <2>12
<1>4. /\ Len(VisibleLog) = visible_through
      /\ Len(VisibleLog') = visible_through'
  BY DEF LogShape
<1> QED
  BY <1>1, <1>2, <1>3, <1>4 DEF SI!SICommit

\* begin is the abstract begin.
LEMMA BeginRefines ==
  ASSUME SafetyInvariant, SafetyInvariant', ReadInvariant,
         SnapshotReads, SnapshotReads', [Next]_vars,
         NEW t \in Txns, Begin(t)
  PROVE  SI!SIBegin(t)
<1>1. t \notin active /\ t \in active' /\ active' = active \cup {t}
  BY DEF Begin, SafetyInvariant, SnapshotsRegistered
<1>2. View[t] = NoView
  BY <1>1 DEF View
<1>3. VisibleLog' = VisibleLog
  BY LogKept DEF Begin
<1>4. \A u \in Txns : u # t => View'[u] = View[u]
  BY <1>1, ViewsKept
<1>5. /\ snapshot'[t] = visible_through
      /\ UNCHANGED <<visible_through, committed>>
  BY DEF Begin, SafetyInvariant, TypeOK, TransactionsOK
<1>6. ASSUME NEW k \in Keys
      PROVE  Read(k, snapshot[t])' = SI!ValueAfter(Len(VisibleLog), k)
  <2>1. Read(k, snapshot[t])' = CommittedAt(k, snapshot[t])'
    BY <1>1 DEF SnapshotReads, Readable
  <2>2. CommittedAt(k, snapshot[t])' = CommittedAt(k, visible_through)
    BY <1>5 DEF CommittedAt
  <2> QED
    BY <2>1, <2>2, ValueIsHistory DEF SafetyInvariant, ReadInvariant
<1>7. View'[t] = [k \in Keys |-> SI!ValueAfter(Len(VisibleLog), k)]
  <2>1. View'[t] = [k \in Keys |-> Read(k, snapshot[t])']
    BY <1>1 DEF View
  <2> QED
    BY <1>6, <2>1
<1>8. View' = [View EXCEPT ![t] = [k \in Keys |-> SI!ValueAfter(Len(VisibleLog), k)]]
  <2>1. /\ View = [u \in Txns |-> View[u]]
        /\ View' = [u \in Txns |-> View'[u]]
    BY DEF View
  <2> QED
    BY <1>4, <1>7, <2>1
<1> QED
  BY <1>2, <1>3, <1>8 DEF SI!SIBegin

\* Ending a transaction is the abstract end, or nothing when it was not active.
LEMMA EndRefines ==
  ASSUME SafetyInvariant, SafetyInvariant', ReadInvariant,
         SnapshotReads, SnapshotReads', [Next]_vars,
         NEW t \in Txns, Rollback(t) \/ EndTransaction(t)
  PROVE  SI!SIEnd(t) \/ UNCHANGED SI!siVars
<1>1. t \in active /\ t \notin active' /\ active' = active \ {t}
  BY DEF Rollback, EndTransaction, SafetyInvariant, SnapshotsRegistered
<1>2. View'[t] = NoView
  BY <1>1 DEF View, NoView
<1>3. VisibleLog' = VisibleLog
  BY LogKept DEF Rollback, EndTransaction
<1>4. \A u \in Txns : u # t => View'[u] = View[u]
  BY <1>1, ViewsKept
<1>5. /\ View = [u \in Txns |-> View[u]]
      /\ View' = [u \in Txns |-> View'[u]]
  BY DEF View
<1>6. View' = [View EXCEPT ![t] = NoView]
  BY <1>2, <1>4, <1>5
<1>7. CASE View[t] # NoView
  BY <1>3, <1>6, <1>7 DEF SI!SIEnd
<1>8. CASE View[t] = NoView
  <2>1. View' = View
    BY <1>2, <1>4, <1>5, <1>8
  <2> QED
    BY <1>3, <2>1 DEF SI!siVars
<1> QED
  BY <1>7, <1>8

\* Every step is a step of SnapshotIsolation or a stutter.
LEMMA StepRefines ==
  ASSUME SafetyInvariant, SafetyInvariant', ReadInvariant, LogShape, LogShape',
         SnapshotReads, SnapshotReads', [Next]_vars
  PROVE  [SI!SINext]_(SI!siVars)
<1>1. ASSUME NEW t \in Txns, Begin(t)
      PROVE  SI!SINext
  BY <1>1, BeginRefines DEF SI!SINext
<1>2. ASSUME NEW t \in Txns, Rollback(t) \/ EndTransaction(t)
      PROVE  [SI!SINext]_(SI!siVars)
  BY <1>2, EndRefines DEF SI!SINext
<1>3. CASE UNCHANGED active
  <2>1. /\ View = [u \in Txns |-> View[u]]
        /\ View' = [u \in Txns |-> View'[u]]
    BY DEF View
  <2>2. View' = View
    BY <1>3, <2>1, ViewsKept
  <2>3. CASE visible_through' # visible_through
    BY <2>2, <2>3, CommitRefines DEF SI!SINext
  <2>4. CASE visible_through' = visible_through
    BY <2>2, <2>4, LogKept, SMTT(30) DEF SI!siVars
  <2> QED
    BY <2>3, <2>4
<1>4. ASSUME NEW t \in Txns, TxnStep(t),
             ~ Begin(t), ~ Rollback(t), ~ EndTransaction(t)
      PROVE  UNCHANGED active
  BY <1>4
  DEF TxnStep, ProtectScans, Write, RecordScan, PrepareCommit, CommitConflict,
      PersistCommit, PersistFailure, FinishCommit, FinishAbort, MarkIndexDirty,
      lockVars
<1>5. ASSUME NEW b \in Builders, BuilderStep(b)
      PROVE  UNCHANGED active
  BY <1>5 DEF BuilderStep, CallRebuild, Publish, RebuildFailure, lockVars
<1>6. CASE PublisherWake \/ UNCHANGED vars
  BY <1>3, <1>6 DEF PublisherWake, vars, lockVars
<1> QED
  BY <1>1, <1>2, <1>3, <1>4, <1>5, <1>6 DEF Next

\* The initial states map to initial states.
LEMMA InitRefines == Init => SI!SIInit
<1> SUFFICES ASSUME Init PROVE SI!SIInit
  OBVIOUS
<1>1. visible_through = 0 /\ active = {}
  BY DEF Init
<1>2. VisibleLog = << >>
  BY <1>1 DEF VisibleLog
<1>3. View = [t \in Txns |-> NoView]
  BY <1>1 DEF View
<1> QED
  BY <1>2, <1>3 DEF SI!SIInit

\* The transaction layer implements snapshot isolation: every step of begin,
\* commit, rollback, rebuild_index and publish_loop extends the log by whole
\* transactions that first committer wins admits, opens a view of the whole
\* log, closes one, or changes nothing a client can see.
THEOREM Refinement == Spec => ImplementsSnapshotIsolation
<1>1. SafetyInvariant /\ SafetyInvariant' /\ ReadInvariant /\ LogShape /\ LogShape'
      /\ SnapshotReads /\ SnapshotReads' /\ [Next]_vars => [SI!SINext]_(SI!siVars)
  BY StepRefines
<1>2. Spec => []LogShape
  BY LogFacts, Safety, ReadSafety, PTL
<1> QED
  BY <1>1, <1>2, InitRefines, Safety, ReadSafety, SnapshotReadsAlways, PTL
  DEF Spec, ImplementsSnapshotIsolation, SI!SISpec
=============================================================================
