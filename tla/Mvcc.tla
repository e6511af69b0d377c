-------------------------------- MODULE Mvcc --------------------------------
(***************************************************************************)
(* The transaction layer of QuantaDB: mvcc/src/database.rs.                *)
(*                                                                         *)
(* One mutex protects `State`: the version map, the write intents, the     *)
(* active snapshots, the commit timestamps and their watermark, the ring   *)
(* of published index generations and the dirty keys.  A commit takes that *)
(* mutex twice (prepare_commit, finish_prepared) and writes to storage in  *)
(* between; an index rebuild takes it twice (capture, publish) and writes  *)
(* its tree in between.  Each critical section is one action here, so the  *)
(* interleavings of this module are the interleavings of the code.         *)
(*                                                                         *)
(* Abstractions.  A version's value is identified with its commit          *)
(* timestamp, so a version is a timestamp and whether it is a tombstone.   *)
(* An index generation is the mapping its tree encodes: key to the         *)
(* timestamp of the indexed version.  The pages that hold the records are  *)
(* the subject of VersionPages.  Every transaction identifier is used      *)
(* once, as `begin` hands out fresh ones.  A sorted vector of versions     *)
(* with distinct timestamps is a set; so is the ring of generations,       *)
(* because two generations built at one timestamp are equal                *)
(* (GenerationsExact).                                                     *)
(***************************************************************************)
EXTENDS Integers, FiniteSets

CONSTANTS
  Keys,       \* the keys of the database
  Prefixes,   \* what scan_prefix can be asked for: each a set of keys
  Txns,       \* transaction identifiers
  NoTxn,      \* no owner of an intent
  Callers,    \* threads that call rebuild_index (checkpoint) themselves
  Publisher,  \* the background publisher thread
  IoErrors    \* which storage calls may fail: of a commit, of a rebuild

ASSUME NoTxnAssumption == NoTxn \notin Txns
ASSUME PrefixAssumption == Prefixes \subseteq SUBSET Keys
ASSUME IoErrorsAssumption == IoErrors \subseteq {"commit", "rebuild"}

Builders == Callers \cup {Publisher}

VARIABLES
  versions,               \* State.versions: key -> set of versions
  intents,                \* State.intents: key -> owner
  active,                 \* domain of State.active
  completed_timestamps,   \* finished above the watermark
  next_commit_timestamp,
  visible_through,        \* the watermark
  generations,            \* the ring of published index generations
  dirty_keys,
  phase,                  \* where each transaction's owner thread is
  snapshot,               \* Transaction.snapshot, also State.active[t]
  writes,                 \* Transaction.writes: key -> buffered operation
  range_protected,
  scanned_prefixes,
  commit_timestamp,       \* the timestamp prepare_commit returned
  signal_dirty,           \* PublishSignal.dirty
  build,                  \* what each rebuild_index call has captured
  poisoned,               \* the store refuses writes after an I/O error
  committed               \* history: every transaction that committed

lockVars == <<versions, intents, active, completed_timestamps,
              next_commit_timestamp, visible_through, generations, dirty_keys>>
txnVars == <<phase, snapshot, writes, range_protected, scanned_prefixes,
             commit_timestamp>>
vars == <<lockVars, txnVars, signal_dirty, build, poisoned, committed>>

(***************************************************************************)
(* Types.                                                                  *)
(***************************************************************************)
Version == [timestamp : Nat, live : BOOLEAN]

Operation == {"none", "put", "delete"}

Generation == [timestamp : Nat, entries : [Keys -> SUBSET Nat]]

\* A rebuild between its two critical sections holds the generation it is
\* going to publish.
Build == [running : BOOLEAN, generation : Generation]

Phase == {"idle", "running", "prepared", "persisted", "failed", "finished",
          "ending", "done"}

Commit == [timestamp : Nat, snapshot : Nat, writes : [Keys -> Operation],
           scanned : SUBSET Prefixes]

Written(w) == {k \in Keys : w[k] # "none"}

NoBuild == [running |-> FALSE,
            generation |-> [timestamp |-> 0, entries |-> [k \in Keys |-> {}]]]

(***************************************************************************)
(* Lookups.  `rev().find(timestamp <= snapshot)` yields an option: here a  *)
(* set with at most one element.                                           *)
(***************************************************************************)
NewestAt(S, s) ==
  {v \in S : /\ v.timestamp <= s
             /\ \A w \in S : w.timestamp <= s => w.timestamp <= v.timestamp}

LatestGeneration ==
  {g \in generations : \A h \in generations : h.timestamp <= g.timestamp}

\* Timestamps of the live versions in S.
LiveAt(S) == {v.timestamp : v \in {w \in S : w.live}}

\* Inner::read: the map first, else the newest generation not newer than s.
\* The result is {} (no such key) or the timestamp of the version read.
Read(k, s) ==
  IF NewestAt(versions[k], s) # {}
  THEN LiveAt(NewestAt(versions[k], s))
  ELSE UNION {g.entries[k] : g \in NewestAt(generations, s)}

\* Transaction::get: the transaction's own writes first (a buffered value is
\* written 0, as it has no timestamp yet).
Get(t, k) ==
  CASE writes[t][k] = "put"    -> {0}
    [] writes[t][k] = "delete" -> {}
    [] OTHER                   -> Read(k, snapshot[t])

\* Mutant: a tombstone in the map does not mask the index entry.
ScanWithoutTombstones(t, p) ==
  LET mapped  == {k \in p : LiveAt(NewestAt(versions[k], snapshot[t])) # {}}
      indexed == {k \in p \ mapped :
                    \E g \in NewestAt(generations, snapshot[t]) : g.entries[k] # {}}
      put     == {k \in p : writes[t][k] = "put"}
      deleted == {k \in p : writes[t][k] = "delete"}
  IN  ((mapped \cup indexed) \ deleted) \cup put

\* Transaction::scan_prefix: live versions from the map, then the index
\* entries the map does not mask, then the transaction's own writes.
ScanPrefix(t, p) ==
  LET masked  == {k \in p : NewestAt(versions[k], snapshot[t]) # {}}
      mapped  == {k \in masked : LiveAt(NewestAt(versions[k], snapshot[t])) # {}}
      indexed == {k \in p \ masked :
                    \E g \in NewestAt(generations, snapshot[t]) : g.entries[k] # {}}
      put     == {k \in p : writes[t][k] = "put"}
      deleted == {k \in p : writes[t][k] = "delete"}
  IN  ((mapped \cup indexed) \ deleted) \cup put

\* Mutant: active snapshots do not hold reclamation back.
OldestIsWatermark == visible_through

\* State::oldest_active_snapshot.
OldestActive ==
  LET snapshots == {snapshot[t] : t \in active}
  IN  IF active = {} THEN visible_through
      ELSE CHOOSE s \in snapshots : \A r \in snapshots : s <= r

(***************************************************************************)
(* Transactions.                                                           *)
(***************************************************************************)
Init ==
  /\ versions = [k \in Keys |-> {}]
  /\ intents = [k \in Keys |-> NoTxn]
  /\ active = {}
  /\ completed_timestamps = {}
  /\ next_commit_timestamp = 1
  /\ visible_through = 0
  /\ generations = {}
  /\ dirty_keys = {}
  /\ phase = [t \in Txns |-> "idle"]
  /\ snapshot = [t \in Txns |-> 0]
  /\ writes = [t \in Txns |-> [k \in Keys |-> "none"]]
  /\ range_protected = [t \in Txns |-> FALSE]
  /\ scanned_prefixes = [t \in Txns |-> {}]
  /\ commit_timestamp = [t \in Txns |-> 0]
  /\ signal_dirty = FALSE
  /\ build = [b \in Builders |-> NoBuild]
  /\ poisoned = FALSE
  /\ committed = {}

\* MvccDatabase::begin: the snapshot is the watermark, registered under the
\* same lock.
Begin(t) ==
  /\ phase[t] = "idle"
  /\ phase' = [phase EXCEPT ![t] = "running"]
  /\ snapshot' = [snapshot EXCEPT ![t] = visible_through]
  /\ active' = active \cup {t}
  /\ UNCHANGED <<versions, intents, completed_timestamps,
                 next_commit_timestamp, visible_through, generations,
                 dirty_keys, writes, range_protected, scanned_prefixes,
                 commit_timestamp, signal_dirty, build, poisoned, committed>>

\* Transaction::put and Transaction::delete replace the key's buffered
\* operation.
Write(t, k, op) ==
  /\ phase[t] = "running"
  /\ writes' = [writes EXCEPT ![t][k] = op]
  /\ UNCHANGED <<lockVars, phase, snapshot, range_protected,
                 scanned_prefixes, commit_timestamp, signal_dirty, build,
                 poisoned, committed>>

ProtectScans(t) ==
  /\ phase[t] = "running"
  /\ range_protected' = [range_protected EXCEPT ![t] = TRUE]
  /\ UNCHANGED <<lockVars, phase, snapshot, writes, scanned_prefixes,
                 commit_timestamp, signal_dirty, build, poisoned, committed>>

\* What a protected scan_prefix records: a prefix inside one already scanned
\* adds nothing, a wider one replaces the narrower ones.
RecordScan(t, p) ==
  /\ phase[t] = "running"
  /\ range_protected[t]
  /\ ~ \E q \in scanned_prefixes[t] : p \subseteq q
  /\ scanned_prefixes' =
       [scanned_prefixes EXCEPT ![t] = {q \in @ : ~ q \subseteq p} \cup {p}]
  /\ UNCHANGED <<lockVars, phase, snapshot, writes, range_protected,
                 commit_timestamp, signal_dirty, build, poisoned, committed>>

\* The Transaction value is gone: its buffers with it.
Dropped(t) ==
  /\ snapshot' = [snapshot EXCEPT ![t] = 0]
  /\ writes' = [writes EXCEPT ![t] = [k \in Keys |-> "none"]]
  /\ range_protected' = [range_protected EXCEPT ![t] = FALSE]
  /\ scanned_prefixes' = [scanned_prefixes EXCEPT ![t] = {}]

\* Transaction::rollback, Drop of an unfinished transaction, and the commit
\* of a transaction with no writes: all only end the snapshot.
Rollback(t) ==
  /\ phase[t] = "running"
  /\ phase' = [phase EXCEPT ![t] = "done"]
  /\ active' = active \ {t}
  /\ Dropped(t)
  /\ UNCHANGED <<versions, intents, completed_timestamps,
                 next_commit_timestamp, visible_through, generations,
                 dirty_keys, commit_timestamp, signal_dirty, build, poisoned,
                 committed>>

\* Mutants: a claim by another commit in flight is overlooked.
WriteConflictIgnoringIntents(t) ==
  \E k \in Written(writes[t]) : \E v \in versions[k] : v.timestamp > snapshot[t]

RangeConflictIgnoringIntents(t) ==
  \E p \in scanned_prefixes[t] : \E k \in p : \E v \in versions[k] :
    v.timestamp > snapshot[t]

\* prepare_commit's two tests.
WriteConflict(t) ==
  \E k \in Written(writes[t]) :
    \/ intents[k] \notin {NoTxn, t}
    \/ \E v \in versions[k] : v.timestamp > snapshot[t]

RangeConflict(t) ==
  \E p \in scanned_prefixes[t] : \E k \in p :
    \/ intents[k] \notin {NoTxn, t}
    \/ \E v \in versions[k] : v.timestamp > snapshot[t]

\* prepare_commit: take a timestamp and claim the written keys.
PrepareCommit(t) ==
  /\ phase[t] = "running"
  /\ Written(writes[t]) # {}
  /\ ~ WriteConflict(t)
  /\ ~ RangeConflict(t)
  /\ phase' = [phase EXCEPT ![t] = "prepared"]
  /\ commit_timestamp' = [commit_timestamp EXCEPT ![t] = next_commit_timestamp]
  /\ next_commit_timestamp' = next_commit_timestamp + 1
  /\ intents' = [k \in Keys |-> IF writes[t][k] # "none" THEN t ELSE intents[k]]
  /\ UNCHANGED <<versions, active, completed_timestamps, visible_through,
                 generations, dirty_keys, snapshot, writes, range_protected,
                 scanned_prefixes, signal_dirty, build, poisoned, committed>>

\* prepare_commit's early returns: nothing was claimed.
CommitConflict(t) ==
  /\ phase[t] = "running"
  /\ Written(writes[t]) # {}
  /\ WriteConflict(t) \/ RangeConflict(t)
  /\ phase' = [phase EXCEPT ![t] = "ending"]
  /\ UNCHANGED <<lockVars, snapshot, writes, range_protected,
                 scanned_prefixes, commit_timestamp, signal_dirty, build,
                 poisoned, committed>>

\* persist_commit returned Ok: the records are durable.
PersistCommit(t) ==
  /\ phase[t] = "prepared"
  /\ ~ poisoned
  /\ phase' = [phase EXCEPT ![t] = "persisted"]
  /\ UNCHANGED <<lockVars, snapshot, writes, range_protected,
                 scanned_prefixes, commit_timestamp, signal_dirty, build,
                 poisoned, committed>>

\* persist_commit returned an error.  An error of the log poisons the store,
\* which fails every later write; one raised before the log is reached (page
\* reservation, encoding) does not.
PersistFailure(t) ==
  /\ phase[t] = "prepared"
  /\ "commit" \in IoErrors \/ poisoned
  /\ phase' = [phase EXCEPT ![t] = "failed"]
  /\ poisoned' \in {poisoned, TRUE}
  /\ UNCHANGED <<lockVars, snapshot, writes, range_protected,
                 scanned_prefixes, commit_timestamp, signal_dirty, build,
                 committed>>

\* Mutants: the watermark jumps to the newest completed timestamp; the
\* timestamps it passes stay in the completed set; it moves one step only.
CompleteToNewest(timestamp) ==
  LET done == completed_timestamps \cup {timestamp}
  IN  /\ visible_through' = CHOOSE n \in done : \A m \in done : m <= n
      /\ completed_timestamps' = {}

CompleteWithoutRemoving(timestamp) ==
  LET done == completed_timestamps \cup {timestamp}
  IN  \E n \in visible_through .. next_commit_timestamp - 1 :
        /\ (visible_through + 1) .. n \subseteq done
        /\ n + 1 \notin done
        /\ visible_through' = n
        /\ completed_timestamps' = done

\* finish_prepared's last step: the watermark moves over every consecutive
\* completed timestamp and stops at the first one still in flight.
Complete(timestamp) ==
  LET done == completed_timestamps \cup {timestamp}
  IN  \E n \in visible_through .. next_commit_timestamp - 1 :
        /\ (visible_through + 1) .. n \subseteq done
        /\ n + 1 \notin done
        /\ visible_through' = n
        /\ completed_timestamps' = done \ ((visible_through + 1) .. n)

ReleasedIntents(t) ==
  [k \in Keys |-> IF writes[t][k] # "none" /\ intents[k] = t
                  THEN NoTxn ELSE intents[k]]

\* finish_prepared(Some(page_ids)): intents become versions.
FinishCommit(t) ==
  /\ phase[t] = "persisted"
  /\ phase' = [phase EXCEPT ![t] = "finished"]
  /\ intents' = ReleasedIntents(t)
  /\ versions' =
       [k \in Keys |->
          IF writes[t][k] # "none"
          THEN versions[k] \cup {[timestamp |-> commit_timestamp[t],
                                  live |-> writes[t][k] = "put"]}
          ELSE versions[k]]
  /\ dirty_keys' = dirty_keys \cup Written(writes[t])
  /\ Complete(commit_timestamp[t])
  /\ committed' = committed \cup {[timestamp |-> commit_timestamp[t],
                                   snapshot |-> snapshot[t],
                                   writes |-> writes[t],
                                   scanned |-> scanned_prefixes[t]]}
  /\ UNCHANGED <<active, next_commit_timestamp, generations, snapshot, writes,
                 range_protected, scanned_prefixes, commit_timestamp,
                 signal_dirty, build, poisoned>>

\* Mutant: a failed commit gives back its claims and forgets its timestamp.
FinishAbortForgotten(t) ==
  /\ phase[t] = "failed"
  /\ phase' = [phase EXCEPT ![t] = "ending"]
  /\ intents' = ReleasedIntents(t)
  /\ UNCHANGED <<versions, active, completed_timestamps, next_commit_timestamp,
                 visible_through, generations, dirty_keys, snapshot, writes,
                 range_protected, scanned_prefixes, commit_timestamp,
                 signal_dirty, build, poisoned, committed>>

\* finish_prepared(None): the timestamp is spent, nothing becomes visible.
FinishAbort(t) ==
  /\ phase[t] = "failed"
  /\ phase' = [phase EXCEPT ![t] = "ending"]
  /\ intents' = ReleasedIntents(t)
  /\ Complete(commit_timestamp[t])
  /\ UNCHANGED <<versions, active, next_commit_timestamp, generations,
                 dirty_keys, snapshot, writes, range_protected,
                 scanned_prefixes, commit_timestamp, signal_dirty, build,
                 poisoned, committed>>

\* Mutant: the publisher is only told when it is waiting.
MarkIndexDirtyWhenIdle(t) ==
  /\ phase[t] = "finished"
  /\ phase' = [phase EXCEPT ![t] = "ending"]
  /\ signal_dirty' = (signal_dirty \/ ~ build[Publisher].running)
  /\ UNCHANGED <<lockVars, snapshot, writes, range_protected,
                 scanned_prefixes, commit_timestamp, build, poisoned,
                 committed>>

\* mark_index_dirty, after finish_prepared has released the state lock.
MarkIndexDirty(t) ==
  /\ phase[t] = "finished"
  /\ phase' = [phase EXCEPT ![t] = "ending"]
  /\ signal_dirty' = TRUE
  /\ UNCHANGED <<lockVars, snapshot, writes, range_protected,
                 scanned_prefixes, commit_timestamp, build, poisoned,
                 committed>>

EndTransaction(t) ==
  /\ phase[t] = "ending"
  /\ phase' = [phase EXCEPT ![t] = "done"]
  /\ active' = active \ {t}
  /\ Dropped(t)
  /\ UNCHANGED <<versions, intents, completed_timestamps,
                 next_commit_timestamp, visible_through, generations,
                 dirty_keys, commit_timestamp, signal_dirty, build, poisoned,
                 committed>>

(***************************************************************************)
(* Index generations and reclamation.                                      *)
(***************************************************************************)

\* The entries of a generation at the watermark: every key when there is no
\* base, else the base edited by the dirty keys that changed since.
CapturedEntries(base) ==
  [k \in Keys |->
     LET newest == NewestAt(versions[k], visible_through)
     IN  IF \/ base = {}
            \/ /\ k \in dirty_keys
               /\ \E n \in newest, g \in base : n.timestamp > g.timestamp
         THEN LiveAt(newest)
         ELSE UNION {g.entries[k] : g \in base}]

\* rebuild_index, first critical section.  A newest generation already at
\* the watermark makes the call return without effect.
Capture(b) ==
  /\ ~ build[b].running
  /\ \A g \in LatestGeneration : g.timestamp # visible_through
  /\ build' = [build EXCEPT ![b] =
                 [running |-> TRUE,
                  generation |-> [timestamp |-> visible_through,
                                  entries |-> CapturedEntries(LatestGeneration)]]]

\* A checkpoint call, or any other caller of rebuild_index.
CallRebuild(b) ==
  /\ b \in Callers
  /\ Capture(b)
  /\ UNCHANGED <<lockVars, txnVars, signal_dirty, poisoned, committed>>

\* publish_loop: the flag is cleared before the rebuild looks at the state.
PublisherWake ==
  /\ signal_dirty
  /\ ~ build[Publisher].running
  /\ signal_dirty' = FALSE
  /\ \/ Capture(Publisher)
     \/ /\ \E g \in LatestGeneration : g.timestamp = visible_through
        /\ UNCHANGED build
  /\ UNCHANGED <<lockVars, txnVars, poisoned, committed>>

\* Mutant: everything below the watermark's newest version is drained.
DrainedToWatermark(S, oldest) ==
  {v \in S : \A n \in NewestAt(S, visible_through) : n.timestamp <= v.timestamp}

\* Versions of one key that survive: those not older than the newest one the
\* oldest active snapshot can see.
Drained(S, oldest) ==
  {v \in S : \A n \in NewestAt(S, oldest) : n.timestamp <= v.timestamp}

\* Mutant: the newest generation counts as covering.
ReclaimUnderNewest(ring, dirty) ==
  LET cover == {g \in ring : \A h \in ring : h.timestamp <= g.timestamp}
      fully_covered(k) ==
        \E c \in cover : \E v \in Drained(versions[k], OldestActive) :
          /\ Drained(versions[k], OldestActive) = {v}
          /\ v.timestamp <= c.timestamp
  IN  /\ generations' = Drained(ring, OldestActive)
      /\ versions' =
           [k \in Keys |->
              IF fully_covered(k) /\ k \notin dirty /\ intents[k] = NoTxn
              THEN {} ELSE Drained(versions[k], OldestActive)]

\* State::reclaim_covered, applied to a ring and a set of dirty keys: prune
\* the generations older than the covering one, drain old versions, and drop
\* a key whose only version the covering generation holds.
ReclaimCovered(ring, dirty) ==
  LET cover == NewestAt(ring, OldestActive)
      fully_covered(k) ==
        \E c \in cover : \E v \in Drained(versions[k], OldestActive) :
          /\ Drained(versions[k], OldestActive) = {v}
          /\ v.timestamp <= c.timestamp
  IN  /\ generations' = Drained(ring, OldestActive)
      /\ versions' =
           [k \in Keys |->
              IF fully_covered(k) /\ k \notin dirty /\ intents[k] = NoTxn
              THEN {} ELSE Drained(versions[k], OldestActive)]

\* Mutant: publishing forgets keys that became dirty during the build.
PublishClearingDirty(b) ==
  LET g == build[b].generation
  IN  /\ build[b].running
      /\ ~ poisoned
      /\ build' = [build EXCEPT ![b] = NoBuild]
      /\ dirty_keys' = {}
      /\ ReclaimCovered(generations \cup {g}, {})
      /\ UNCHANGED <<intents, active, completed_timestamps,
                     next_commit_timestamp, visible_through, txnVars,
                     signal_dirty, poisoned, committed>>

\* rebuild_index, second critical section: the pages are in the log, so the
\* generation enters the ring; keys it covers are clean; then reclaim.
Publish(b) ==
  LET g     == build[b].generation
      dirty == {k \in dirty_keys :
                  \E v \in versions[k] : v.timestamp > g.timestamp}
  IN  /\ build[b].running
      /\ ~ poisoned
      /\ build' = [build EXCEPT ![b] = NoBuild]
      /\ dirty_keys' = dirty
      /\ ReclaimCovered(generations \cup {g}, dirty)
      /\ UNCHANGED <<intents, active, completed_timestamps,
                     next_commit_timestamp, visible_through, txnVars,
                     signal_dirty, poisoned, committed>>

\* A failed rebuild returns its error; nothing was published.  A node that
\* cannot be read leaves the store usable, a failed log write does not.
RebuildFailure(b) ==
  /\ build[b].running
  /\ "rebuild" \in IoErrors \/ poisoned
  /\ build' = [build EXCEPT ![b] = NoBuild]
  /\ poisoned' \in {poisoned, TRUE}
  /\ UNCHANGED <<lockVars, txnVars, signal_dirty, committed>>

TxnStep(t) ==
  \/ Begin(t) \/ ProtectScans(t) \/ Rollback(t)
  \/ \E k \in Keys, op \in {"put", "delete"} : Write(t, k, op)
  \/ \E p \in Prefixes : RecordScan(t, p)
  \/ PrepareCommit(t) \/ CommitConflict(t)
  \/ PersistCommit(t) \/ PersistFailure(t)
  \/ FinishCommit(t) \/ FinishAbort(t)
  \/ MarkIndexDirty(t) \/ EndTransaction(t)

BuilderStep(b) == CallRebuild(b) \/ Publish(b) \/ RebuildFailure(b)

Next ==
  \/ \E t \in Txns : TxnStep(t)
  \/ PublisherWake
  \/ \E b \in Builders : BuilderStep(b)

Spec == Init /\ [][Next]_vars

\* Threads inside commit and the publisher run until they are done; when a
\* client begins, writes, scans, commits or rolls back is its own business.
Fairness ==
  /\ \A t \in Txns :
       /\ WF_vars(PersistCommit(t) \/ PersistFailure(t))
       /\ WF_vars(FinishCommit(t) \/ FinishAbort(t))
       /\ WF_vars(MarkIndexDirty(t) \/ EndTransaction(t))
  /\ WF_vars(PublisherWake)
  /\ WF_vars(Publish(Publisher) \/ RebuildFailure(Publisher))

FairSpec == Spec /\ Fairness

(***************************************************************************)
(* Properties.                                                             *)
(***************************************************************************)

\* The watermark's three variables are ordered.
TimestampsOK ==
  /\ next_commit_timestamp \in Nat
  /\ visible_through \in Nat
  /\ visible_through < next_commit_timestamp
  /\ completed_timestamps \subseteq
       (visible_through + 1) .. (next_commit_timestamp - 1)

\* The rest of State.
StateOK ==
  /\ versions \in [Keys -> SUBSET Version]
  /\ intents \in [Keys -> Txns \cup {NoTxn}]
  /\ active \in SUBSET Txns
  /\ generations \in SUBSET Generation
  /\ dirty_keys \in SUBSET Keys
  /\ committed \in SUBSET Commit

\* The Transaction values, and the threads that commit them.
TransactionsOK ==
  /\ phase \in [Txns -> Phase]
  /\ snapshot \in [Txns -> Nat]
  /\ writes \in [Txns -> [Keys -> Operation]]
  /\ scanned_prefixes \in [Txns -> SUBSET Prefixes]
  /\ commit_timestamp \in [Txns -> Nat]

\* The flags, and the rebuilds.
ThreadsOK ==
  /\ build \in [Builders -> Build]
  /\ range_protected \in [Txns -> BOOLEAN]
  /\ signal_dirty \in BOOLEAN
  /\ poisoned \in BOOLEAN

\* Every variable has its type, and the three variables of the watermark are
\* ordered: completed timestamps lie between visible_through and
\* next_commit_timestamp (State, mvcc/src/database.rs).
TypeOK == TimestampsOK /\ StateOK /\ TransactionsOK /\ ThreadsOK

InFlight(t) == phase[t] \in {"prepared", "persisted", "failed"}

\* The watermark never passes a timestamp whose commit is still between
\* prepare_commit and finish_prepared, and never stops short of one that is
\* finished: every timestamp handed out above visible_through is either
\* recorded as completed or held by exactly one commit in flight, and the
\* first one above it is in flight.
WatermarkExact ==
  /\ visible_through + 1 \notin completed_timestamps
  /\ \A t \in Txns : InFlight(t) =>
       /\ commit_timestamp[t] > visible_through
       /\ commit_timestamp[t] < next_commit_timestamp
       /\ commit_timestamp[t] \notin completed_timestamps
       /\ \A u \in Txns :
            InFlight(u) /\ commit_timestamp[u] = commit_timestamp[t] => u = t
  /\ \A n \in (visible_through + 1) .. (next_commit_timestamp - 1) :
       \/ n \in completed_timestamps
       \/ \E t \in Txns : InFlight(t) /\ commit_timestamp[t] = n

\* First committer wins: of two committed transactions that wrote one key,
\* the later one had the earlier one in its snapshot.  prepare_commit sees
\* only the version map and the intents, and reclaim_covered shrinks the map
\* behind its back.
FirstCommitterWins ==
  \A c, d \in committed :
    /\ c.timestamp < d.timestamp
    /\ Written(c.writes) \cap Written(d.writes) # {}
    => c.timestamp <= d.snapshot

\* No phantoms under protect_scans: nothing committed under a prefix a
\* protected transaction scanned, after its snapshot and before its own
\* commit timestamp.
NoPhantom ==
  \A c, d \in committed :
    /\ c.timestamp < d.timestamp
    /\ Written(c.writes) \cap UNION d.scanned # {}
    => c.timestamp <= d.snapshot

\* What the committed history says key k is at timestamp s.
CommittedAt(k, s) ==
  {c.timestamp : c \in
     {d \in NewestAt({e \in committed : e.writes[k] # "none"}, s) :
        d.writes[k] = "put"}}

\* The registered snapshots, and the one `begin` would hand out now.
Readable == {snapshot[t] : t \in active} \cup {visible_through}

\* Every registered snapshot, and the one `begin` would hand out now, reads
\* exactly the committed history at its timestamp, wherever reclamation has
\* left each version: in the map, in a generation, or masked.
SnapshotReads ==
  \A s \in Readable : \A k \in Keys : Read(k, s) = CommittedAt(k, s)

\* scan_prefix assembles its answer from the map, the index and the write
\* buffer; it finds exactly the keys that `get` finds.
ScanMatchesGet ==
  \A t \in active : \A p \in SUBSET Keys :
    ScanPrefix(t, p) = {k \in p : Get(t, k) # {}}

\* The published generations and those being built.
Generated ==
  generations \cup {build[b].generation : b \in {c \in Builders : build[c].running}}

\* Every published generation, and every one being built, is the exact state
\* of the database at its timestamp, although rebuild_index derives it from a
\* base generation and the dirty keys only.
GenerationsExact ==
  \A g \in Generated : \A k \in Keys :
    g.entries[k] = CommittedAt(k, g.timestamp)

\* What prepare_commit relies on: reclamation never removes a version newer
\* than an active snapshot.
RecentKept ==
  \A t \in active : \A c \in committed : \A k \in Written(c.writes) :
    c.timestamp > snapshot[t] =>
      \E v \in versions[k] : v.timestamp = c.timestamp

\* Repeatable reads: no step of anyone changes what a registered snapshot
\* reads for any key.
SnapshotsStable ==
  [][\A t \in active \cap active' : \A k \in Keys :
       Read(k, snapshot[t])' = Read(k, snapshot[t])]_vars

(***************************************************************************)
(* The inductive invariant behind WatermarkExact, RecentKept,              *)
(* FirstCommitterWins and NoPhantom.                                       *)
(***************************************************************************)

\* A transaction is registered from begin to end_transaction, and no
\* registered snapshot is ahead of the watermark.
SnapshotsRegistered ==
  \A t \in Txns :
    /\ t \in active <=> phase[t] \notin {"idle", "done"}
    /\ t \in active => snapshot[t] <= visible_through

\* The intents are exactly the claims of the commits in flight.
IntentsExact ==
  \A k \in Keys, t \in Txns :
    intents[k] = t <=> InFlight(t) /\ writes[t][k] # "none"

\* RecentKept, also for the snapshot the next `begin` will take.
RecentInMap ==
  \A c \in committed : \A k \in Written(c.writes) :
    (c.timestamp > visible_through \/ \E t \in active : c.timestamp > snapshot[t]) =>
      \E v \in versions[k] : v.timestamp = c.timestamp

CommittedInPast == \A c \in committed : c.timestamp < next_commit_timestamp

\* A commit in flight has every committed writer of its keys in its snapshot.
InFlightWrites ==
  \A t \in Txns : InFlight(t) =>
    \A c \in committed : \A k \in Written(c.writes) :
      writes[t][k] # "none" => c.timestamp <= snapshot[t]

\* The same for the prefixes it scanned, except for commits that took their
\* timestamp after it did.
InFlightScans ==
  \A t \in Txns : InFlight(t) =>
    \A p \in scanned_prefixes[t] : \A k \in p :
      /\ \A c \in committed :
           c.writes[k] # "none" /\ c.timestamp < commit_timestamp[t] =>
             c.timestamp <= snapshot[t]
      /\ \A u \in Txns \ {t} :
           InFlight(u) /\ writes[u][k] # "none" =>
             commit_timestamp[t] < commit_timestamp[u]

CommittedScans ==
  \A d \in committed : \A p \in d.scanned : \A k \in p : \A u \in Txns :
    InFlight(u) /\ writes[u][k] # "none" => d.timestamp < commit_timestamp[u]

\* No step of any thread breaks these together.
SafetyInvariant ==
  /\ TypeOK
  /\ WatermarkExact
  /\ SnapshotsRegistered
  /\ IntentsExact
  /\ RecentInMap
  /\ CommittedInPast
  /\ InFlightWrites
  /\ InFlightScans
  /\ CommittedScans
  /\ FirstCommitterWins
  /\ NoPhantom

(***************************************************************************)
(* The inductive invariant behind SnapshotReads, SnapshotsStable and       *)
(* GenerationsExact: where every committed version can still be found.     *)
(***************************************************************************)

\* A finished commit is below the watermark or waits in completed_timestamps;
\* timestamp 0 is the empty database's.
CommittedResolved ==
  \A c \in committed :
    /\ c.timestamp > 0
    /\ c.timestamp <= visible_through \/ c.timestamp \in completed_timestamps

CommittedUnique == \A c, d \in committed : c.timestamp = d.timestamp => c = d

\* The map holds committed versions only, and of each key it holds every one
\* from some timestamp on.
VersionsCommitted ==
  \A k \in Keys : \A v \in versions[k] : \E c \in committed :
    /\ c.timestamp = v.timestamp
    /\ c.writes[k] # "none"
    /\ v.live = (c.writes[k] = "put")

VersionsSuffix ==
  \A k \in Keys : \A v \in versions[k] : \A c \in committed :
    c.writes[k] # "none" /\ c.timestamp > v.timestamp =>
      \E w \in versions[k] : w.timestamp = c.timestamp

\* A snapshot that may be read finds each commit it sees masked by the map or
\* covered by a generation not newer than itself.
HistoryReachable ==
  \A s \in Readable : \A k \in Keys : \A c \in committed :
    c.writes[k] # "none" /\ c.timestamp <= s =>
      \/ \E v \in versions[k] : v.timestamp <= s
      \/ \E g \in generations : c.timestamp <= g.timestamp /\ g.timestamp <= s

GenerationsPast == \A g \in Generated : g.timestamp <= visible_through

\* A key that is not dirty has all its commits in some generation.
CleanCovered ==
  \A k \in Keys \ dirty_keys : \A c \in committed :
    c.writes[k] # "none" => \E g \in generations : c.timestamp <= g.timestamp

\* With SafetyInvariant, no step of any thread breaks these together.
ReadInvariant ==
  /\ CommittedResolved
  /\ CommittedUnique
  /\ VersionsCommitted
  /\ VersionsSuffix
  /\ HistoryReachable
  /\ GenerationsPast
  /\ CleanCovered
  /\ GenerationsExact

(***************************************************************************)
(* Liveness.                                                               *)
(***************************************************************************)

\* A timestamp handed out is always passed by the watermark in the end,
\* whether its commit persisted or failed: one stuck commit would freeze
\* every later snapshot.
TimestampsResolved ==
  \A t \in Txns :
    phase[t] = "prepared" ~> visible_through >= commit_timestamp[t]

\* t took a timestamp and its records were not persisted.
Aborted(t) ==
  /\ commit_timestamp[t] # 0 /\ ~ InFlight(t)
  /\ \A c \in committed : c.timestamp # commit_timestamp[t]

\* No lost wake-up: once a commit is finished, a generation that covers it is
\* published in the end (publish_loop, mark_index_dirty).  Two things excuse
\* the publisher: a failed log write poisoned the store; or the watermark was
\* held back by an earlier commit that failed, because finish_prepared(None)
\* moves it on and wakes nobody.
PublisherCatchesUp ==
  \A t \in Txns :
    phase[t] = "finished" ~>
      \/ \E g \in generations : g.timestamp >= commit_timestamp[t]
      \/ poisoned
      \/ \E u \in Txns : Aborted(u) /\ commit_timestamp[u] < commit_timestamp[t]
=============================================================================
