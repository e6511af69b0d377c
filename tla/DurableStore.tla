---------------------------- MODULE DurableStore ----------------------------
(***************************************************************************)
(* The page store of QuantaDB with the two threads that drive it:          *)
(* storage/src/store.rs, storage/src/wal.rs, storage/src/data_file.rs and  *)
(* the commit worker and checkpointer of storage/src/group_commit.rs.      *)
(*                                                                         *)
(* The commit worker applies one group at a time: its images are logged    *)
(* and enter the dirty table, then its appends, then one sync covers both; *)
(* then it flushes a few dirty pages without syncing, then it decides      *)
(* whether to checkpoint.  A background checkpoint rotates the log and     *)
(* hands a job to the checkpointer, which writes pages, syncs the data     *)
(* file and seals the retired segment while commits go on, in the middle   *)
(* of a group too: the job takes no store lock.  Nor do readers.           *)
(*                                                                         *)
(* Files.  `file` and `wal` are what the process reads back; a crash keeps *)
(* of each page one of the images in `disk` and of each segment a prefix   *)
(* not shorter than what was synced, possibly with the first records of    *)
(* the next batch (scan_and_repair stops at the first record that is not   *)
(* whole).                                                                 *)
(*                                                                         *)
(* Data.  A page's payload is the set of changes it holds, each named by   *)
(* its LSN: an image replaces the set, an append adds to it.  One LSN      *)
(* stands for a batch and its commit record, so a batch changes a page at  *)
(* most once.                                                              *)
(***************************************************************************)
EXTENDS Integers, Sequences, FiniteSets

CONSTANTS
  Pages,
  FlushBudget,      \* flush_pages_per_batch; 0 disables pacing
  Loads             \* name -> what a behaviour is about; one is chosen

Change == {"none", "image", "append", "seal"}

\* A load: its batches (page -> kind of change); whether each is synced; the
\* log length that triggers a checkpoint (0 never); what may fail; whether
\* shared readers take part; and the bounds on LSNs and on crashes.
Load == [changes : SUBSET [Pages -> Change], durabilities : SUBSET BOOLEAN,
         checkpoint_after : Nat,
         faults : SUBSET {"log", "flush", "job", "share", "torn"},
         reads : BOOLEAN, max_lsn : Nat, max_crashes : Nat]

ASSUME PagesAssumption == IsFiniteSet(Pages)
ASSUME BudgetAssumption == FlushBudget \in Nat
ASSUME LoadsAssumption == \A name \in DOMAIN Loads : Loads[name] \in Load

VARIABLES
  load,                  \* the name of its load, never changed
  file,                  \* data file, as read back: page -> image
  disk,                  \* images a crash may leave: page -> set of images
  wal,                   \* the two segments: 0, 1 -> sequence of records
  synced,                \* how many records of each segment are synced
  active, retired,       \* segment numbers; retired = 2 when there is none
  next_lsn,
  dirty,                 \* dirty table: page -> image, NoPage when absent
  flushed,               \* page -> LSN written to the data file, 0 if none
  flush_queue,
  open_pages,
  checkpoint_in_flight,
  poisoned,
  job,                   \* the BackgroundCheckpoint the checkpointer holds
  worker,                \* where the commit worker is
  reading,               \* a SharedReader between its two lookups
  phase,                 \* "open", "down" or "recovered"
  crashes,
  history, base,         \* the batches since the last open, and the contents
                         \* they started from
  passed_over            \* history: page -> the LSN at which a checkpoint
                         \* listed it and left it unwritten, 0 if none

fileVars == <<file, disk>>
logVars == <<wal, synced, active, retired, next_lsn>>
memVars == <<dirty, flushed, flush_queue, open_pages>>
ghostVars == <<history, base, passed_over>>
envVars == <<reading, phase, crashes, load>>
vars == <<fileVars, logVars, memVars, checkpoint_in_flight, poisoned, job,
          worker, envVars, ghostVars>>

Image == [lsn : {-1} \cup Nat, content : SUBSET Nat]
NoPage == [lsn |-> 0, content |-> {}]
Corrupt == [lsn |-> -1, content |-> {}]   \* fails its checksum

Segments == {0, 1}
NoSegment == 2

Record == [kind : {"batch", "partial", "checkpoint"}, lsn : Nat,
           ops : [Pages -> Change]]
NoChange == [p \in Pages |-> "none"]

NoJob == [at |-> "none", manifest |-> [p \in Pages |-> 0],
          written |-> [p \in Pages |-> 0]]

IsDirty(p) == dirty[p] # NoPage

MaxOf(S) == CHOOSE m \in S : \A n \in S : n <= m

NoRead == [page |-> "none", seen |-> 0]

\* DurableStore::read_page, under the store lock.
ReadPage(p) == IF IsDirty(p) THEN dirty[p] ELSE file[p]

\* How a batch ended: its group is not answered yet; synced and answered;
\* answered without a sync; refused because a log write failed, or because
\* the sync failed, when its pages were in the dirty table already.
Outcome == {"pending", "durable", "relaxed", "unlogged", "unsynced"}

\* The batches in the dirty table or, later, in the data file.
Visible == {i \in DOMAIN history : history[i].outcome # "unlogged"}

Init ==
  /\ load \in DOMAIN Loads
  /\ file = [p \in Pages |-> NoPage]
  /\ disk = [p \in Pages |-> {NoPage}]
  /\ wal = [s \in Segments |-> << >>]
  /\ synced = [s \in Segments |-> 0]
  /\ active = 0
  /\ retired = NoSegment
  /\ next_lsn = 1
  /\ dirty = [p \in Pages |-> NoPage]
  /\ flushed = [p \in Pages |-> 0]
  /\ flush_queue = << >>
  /\ open_pages = {}
  /\ checkpoint_in_flight = FALSE
  /\ poisoned = FALSE
  /\ job = NoJob
  /\ worker = "idle"
  /\ reading = NoRead
  /\ phase = "open"
  /\ crashes = 0
  /\ history = << >>
  /\ base = [p \in Pages |-> {}]
  /\ passed_over = [p \in Pages |-> 0]

(***************************************************************************)
(* Files.                                                                  *)
(***************************************************************************)

\* data_file::write of the images in W (a function on a set of pages): they
\* are in the operating system's cache, and a crash may keep the old image,
\* the new one, or (where they differ) a mixture.
WriteData(W) ==
  /\ file' = [p \in Pages |-> IF p \in DOMAIN W THEN W[p] ELSE file[p]]
  /\ disk' = [p \in Pages |->
                IF p \in DOMAIN W
                THEN disk[p] \cup {W[p]}
                     \cup (IF "torn" \in Loads[load].faults /\ disk[p] # {W[p]}
                           THEN {Corrupt} ELSE {})
                ELSE disk[p]]

SyncData ==
  /\ disk' = [p \in Pages |-> {file[p]}]
  /\ UNCHANGED file

\* Wal::append to the active segment: the records of a batch with their
\* commit record, or a checkpoint record.
Log(record) ==
  /\ wal' = [wal EXCEPT ![active] = Append(@, record)]
  /\ next_lsn' = next_lsn + 1

\* Mutant: the segment's end offset is not reset.
SealWithoutReset(s) ==
  /\ wal' = [wal EXCEPT ![s] = << >>]
  /\ UNCHANGED synced

\* A stop marker at offset zero, synced.
SealSegment(s) ==
  /\ wal' = [wal EXCEPT ![s] = << >>]
  /\ synced' = [synced EXCEPT ![s] = 0]

(***************************************************************************)
(* The commit worker: execute_group, pace_flush, maybe_checkpoint.         *)
(***************************************************************************)

\* The image a page has after the change ops[p].
Grown(p, ops) ==
  [lsn |-> next_lsn,
   content |-> CASE ops[p] = "image"  -> {next_lsn}
                 [] ops[p] = "append" -> ReadPage(p).content \cup {next_lsn}
                 [] OTHER             -> ReadPage(p).content]

\* The orders in which a caller may list the pages of S.
Orders(S) == {q \in [1 .. Cardinality(S) -> S] : \A p \in S : \E i \in DOMAIN q : q[i] = p}

\* The worker may log one more batch.
Accepting ==
  /\ phase = "open" /\ ~ poisoned
  /\ next_lsn <= Loads[load].max_lsn

\* write_pages_inner and append_pages_inner, called with durable = false: log
\* the batch, then put its pages into the dirty table.  An image or a sealed
\* page joins the flush queue, a page still collecting appends stays out.
LogBatch(ops, outcome) ==
  /\ Log([kind |-> "batch", lsn |-> next_lsn, ops |-> ops])
  /\ dirty' = [p \in Pages |-> IF ops[p] = "none" THEN dirty[p] ELSE Grown(p, ops)]
  /\ \E q \in Orders({p \in Pages : ops[p] \in {"image", "seal"}}) :
       flush_queue' = flush_queue \o q
  /\ open_pages' = (open_pages \ {p \in Pages : ops[p] = "seal"})
                   \cup {p \in Pages : ops[p] = "append"}
  /\ history' = Append(history, [lsn |-> next_lsn, ops |-> ops, outcome |-> outcome])
  /\ UNCHANGED <<fileVars, synced, active, retired, flushed, checkpoint_in_flight,
                 poisoned, job, envVars, base, passed_over>>

AllImages(ops) == \A p \in Pages : ops[p] \in {"none", "image"}

\* apply_batch with the images of a group.  Only commit_relaxed, which takes
\* images, asks for no sync: its group is complete.
WritePages(ops, durable) ==
  /\ Accepting /\ worker = "idle" /\ AllImages(ops)
  /\ LogBatch(ops, IF durable THEN "pending" ELSE "relaxed")
  /\ worker' = IF durable THEN "written" ELSE "pacing"

\* The appends of a group, after its images if it has any.
AppendPages(ops) ==
  /\ Accepting /\ worker \in {"idle", "written"} /\ ~ AllImages(ops)
  /\ LogBatch(ops, "pending")
  /\ worker' = "applied"

\* The batches of the group, answered with this outcome.
Answered(outcome) ==
  [i \in DOMAIN history |->
     IF history[i].outcome = "pending" THEN [history[i] EXCEPT !.outcome = outcome]
     ELSE history[i]]

\* The end of apply_batch_inner: one Wal::sync, of the active segment, covers
\* the group, which is then answered.
SyncBatch ==
  /\ worker \in {"written", "applied"}
  /\ synced' = [synced EXCEPT ![active] = Len(wal[active])]
  /\ history' = Answered("durable")
  /\ worker' = "pacing"
  /\ UNCHANGED <<fileVars, wal, active, retired, next_lsn, memVars,
                 checkpoint_in_flight, poisoned, job, envVars, base, passed_over>>

\* A log write of a batch fails: the group is refused and the store takes no
\* further writes.  The batch is not in the dirty table, but the group's
\* images may be; its records may be in the file, in part or whole.
LogError(ops) ==
  /\ "log" \in Loads[load].faults
  /\ Accepting
  /\ worker = "idle" \/ (worker = "written" /\ ~ AllImages(ops))
  /\ Log([kind |-> "batch", lsn |-> next_lsn, ops |-> ops])
  /\ poisoned' = TRUE
  /\ worker' = "pacing"
  /\ history' = Append(Answered("unsynced"),
                       [lsn |-> next_lsn, ops |-> ops, outcome |-> "unlogged"])
  /\ UNCHANGED <<fileVars, synced, active, retired, memVars, checkpoint_in_flight,
                 job, envVars, base, passed_over>>

\* The sync fails: the group is refused, with its pages in the dirty table and
\* in the flush queue.
SyncError ==
  /\ "log" \in Loads[load].faults
  /\ worker \in {"written", "applied"}
  /\ poisoned' = TRUE
  /\ worker' = "pacing"
  /\ history' = Answered("unsynced")
  /\ UNCHANGED <<fileVars, logVars, memVars, checkpoint_in_flight, job, envVars,
                 base, passed_over>>

\* What flush_some_dirty has to write when it meets p in the queue.
NeedsFlush(p) == IsDirty(p) /\ flushed[p] # dirty[p].lsn

\* The queue entries it pops: up to the one that fills the budget.
Popped ==
  LET pending(n) == Cardinality({i \in 1 .. n : NeedsFlush(flush_queue[i])})
  IN  CHOOSE n \in 0 .. Len(flush_queue) :
        /\ pending(n) = FlushBudget \/ (n = Len(flush_queue) /\ pending(n) < FlushBudget)
        /\ \A m \in 0 .. n - 1 : pending(m) < FlushBudget

\* The pages among the first n entries that have to be written.
Pending(n) == {p \in Pages : NeedsFlush(p) /\ \E i \in 1 .. n : flush_queue[i] = p}

CanPace == FlushBudget > 0 /\ ~ checkpoint_in_flight

PaceFlush ==
  /\ worker = "pacing"
  /\ worker' = "deciding"
  /\ IF CanPace
     THEN /\ WriteData([p \in Pending(Popped) |-> dirty[p]])
          /\ flushed' = [p \in Pages |-> IF p \in Pending(Popped)
                                         THEN dirty[p].lsn ELSE flushed[p]]
          /\ flush_queue' = SubSeq(flush_queue, Popped + 1, Len(flush_queue))
     ELSE UNCHANGED <<fileVars, flushed, flush_queue>>
  /\ UNCHANGED <<logVars, dirty, open_pages, checkpoint_in_flight, poisoned,
                 job, envVars, ghostVars>>

\* A page write fails after the pages in W: flush_some_dirty returns the
\* error and pace_flush drops it.  The popped entries are gone.
PaceFlushError ==
  /\ "flush" \in Loads[load].faults
  /\ worker = "pacing" /\ CanPace
  /\ worker' = "deciding"
  /\ \E W \in SUBSET Pending(Popped) :
       /\ W # Pending(Popped)
       /\ WriteData([p \in W |-> dirty[p]])
       /\ flushed' = [p \in Pages |-> IF p \in W THEN dirty[p].lsn ELSE flushed[p]]
  /\ flush_queue' = SubSeq(flush_queue, Popped + 1, Len(flush_queue))
  /\ UNCHANGED <<logVars, dirty, open_pages, checkpoint_in_flight, poisoned,
                 job, envVars, ghostVars>>

(***************************************************************************)
(* Checkpoints.                                                            *)
(***************************************************************************)
Oversized == Loads[load].checkpoint_after > 0 /\ Len(wal[active]) >= Loads[load].checkpoint_after

CanRotate == retired = NoSegment /\ wal[1 - active] = << >>

\* What checkpoint_inner has to write.
Unflushed ==
  {p \in Pages : /\ NeedsFlush(p)
                 /\ \/ p \in open_pages
                    \/ \E i \in DOMAIN flush_queue : flush_queue[i] = p}

\* Its first part: open pages join the queue and everything in it is written,
\* unsynced.  When a page write fails after the pages in W, the checkpoint is
\* refused and the store poisoned.
StartCheckpoint ==
  /\ \E W \in SUBSET Unflushed :
       /\ WriteData([p \in W |-> dirty[p]])
       /\ flushed' = [p \in Pages |-> IF p \in W THEN dirty[p].lsn ELSE flushed[p]]
       /\ \/ W = Unflushed /\ worker' = "syncing" /\ UNCHANGED poisoned
          \/ /\ W # Unflushed /\ "flush" \in Loads[load].faults
             /\ worker' = "idle" /\ poisoned' = TRUE
  /\ flush_queue' = << >>
  /\ open_pages' = {}
  /\ UNCHANGED <<logVars, dirty, checkpoint_in_flight, job, envVars, ghostVars>>

\* begin_background_checkpoint: rotate and list the dirty pages.  When a file
\* handle cannot be cloned there is no job, but the flag is set already and
\* nobody clears it.
BeginBackground ==
  /\ retired' = active
  /\ active' = 1 - active
  /\ \/ job' = [NoJob EXCEPT !.at = "queued",
                             !.manifest = [p \in Pages |-> dirty[p].lsn]]
     \/ "share" \in Loads[load].faults /\ UNCHANGED job
  /\ checkpoint_in_flight' = TRUE
  /\ worker' = "idle"
  /\ UNCHANGED <<fileVars, wal, synced, next_lsn, memVars, poisoned, envVars,
                 ghostVars>>

WorkerIdle ==
  /\ worker' = "idle"
  /\ UNCHANGED <<fileVars, logVars, memVars, checkpoint_in_flight, poisoned,
                 job, envVars, ghostVars>>

\* maybe_checkpoint: a background checkpoint when the spare segment is empty,
\* else a full one, which a poisoned store refuses.
MaybeCheckpoint ==
  /\ worker = "deciding"
  /\ \/ (~ Oversized \/ checkpoint_in_flight \/ poisoned) /\ WorkerIdle
     \/ /\ Oversized /\ ~ checkpoint_in_flight /\ ~ poisoned
        /\ IF CanRotate THEN BeginBackground ELSE StartCheckpoint

\* A client asks for a checkpoint; the worker takes the command.
RequestCheckpoint ==
  /\ phase = "open" /\ worker = "idle"
  /\ next_lsn <= Loads[load].max_lsn
  /\ worker' = "waiting"
  /\ UNCHANGED <<fileVars, logVars, memVars, checkpoint_in_flight, poisoned,
                 job, envVars, ghostVars>>

\* explicit_checkpoint: wait for the background checkpoint, then run.
ExplicitCheckpoint ==
  /\ worker = "waiting"
  /\ ~ checkpoint_in_flight
  /\ IF poisoned THEN WorkerIdle ELSE StartCheckpoint

\* The data file is synced, then the checkpoint record is logged and synced.
\* A sync of the log that fails refuses the checkpoint.
CheckpointLog ==
  /\ worker = "syncing"
  /\ SyncData
  /\ Log([kind |-> "checkpoint", lsn |-> next_lsn, ops |-> NoChange])
  /\ \/ /\ synced' = [synced EXCEPT ![active] = Len(wal[active]) + 1]
        /\ worker' = "sealing"
        /\ UNCHANGED poisoned
     \/ /\ "log" \in Loads[load].faults
        /\ worker' = "idle"
        /\ poisoned' = TRUE
        /\ UNCHANGED synced
  /\ passed_over' = [p \in Pages |-> 0]
  /\ UNCHANGED <<active, retired, memVars, checkpoint_in_flight, job, envVars,
                 history, base>>

\* reset_after_checkpoint seals one segment after the other; then the synced
\* pages leave the dirty table.
SealFirst ==
  /\ worker = "sealing"
  /\ SealSegment(0)
  /\ worker' = "sealed"
  /\ UNCHANGED <<fileVars, active, retired, next_lsn, memVars,
                 checkpoint_in_flight, poisoned, job, envVars, ghostVars>>

SealSecond ==
  /\ worker = "sealed"
  /\ SealSegment(1)
  /\ retired' = NoSegment
  /\ dirty' = [p \in Pages |-> IF flushed[p] = dirty[p].lsn THEN NoPage ELSE dirty[p]]
  /\ flushed' = [p \in Pages |-> 0]
  /\ worker' = "idle"
  /\ UNCHANGED <<fileVars, active, next_lsn, flush_queue, open_pages,
                 checkpoint_in_flight, poisoned, job, envVars, ghostVars>>

\* The data file's sync, the log write or a seal fails.
CheckpointError ==
  /\ "log" \in Loads[load].faults
  /\ worker \in {"syncing", "sealing", "sealed"}
  /\ worker' = "idle"
  /\ poisoned' = TRUE
  /\ UNCHANGED <<fileVars, logVars, memVars, checkpoint_in_flight, job, envVars,
                 ghostVars>>

\* The checkpointer, without the store lock: write the manifested pages that
\* still carry their LSN (the instance has fewer pages than a chunk), sync,
\* seal the retired segment.
JobWrite ==
  LET current == {p \in Pages : job.manifest[p] # 0 /\ dirty[p].lsn = job.manifest[p]}
  IN  /\ job.at = "queued"
      /\ WriteData([p \in current |-> dirty[p]])
      /\ job' = [job EXCEPT !.at = "written",
                            !.written = [p \in Pages |-> IF p \in current
                                                         THEN dirty[p].lsn ELSE 0]]
      /\ UNCHANGED <<logVars, memVars, checkpoint_in_flight, poisoned, worker,
                     envVars, ghostVars>>

\* Mutant: the data file is not synced before the log is sealed.
JobSyncSkipped ==
  /\ job.at = "written"
  /\ job' = [job EXCEPT !.at = "synced"]
  /\ UNCHANGED <<fileVars, logVars, memVars, checkpoint_in_flight, poisoned,
                 worker, envVars, ghostVars>>

\* sync_shared.
JobSync ==
  /\ job.at = "written"
  /\ SyncData
  /\ job' = [job EXCEPT !.at = "synced"]
  /\ UNCHANGED <<logVars, memVars, checkpoint_in_flight, poisoned, worker,
                 envVars, ghostVars>>

\* seal_file of the retired segment, whether every listed page was written or
\* not.
JobSeal ==
  /\ job.at = "synced"
  /\ SealSegment(retired)
  /\ job' = [job EXCEPT !.at = "sealed"]
  /\ passed_over' = [p \in Pages |-> IF job.written[p] # 0 THEN 0
                                     ELSE IF job.manifest[p] # 0 THEN job.manifest[p]
                                     ELSE passed_over[p]]
  /\ UNCHANGED <<fileVars, active, retired, next_lsn, memVars,
                 checkpoint_in_flight, poisoned, worker, envVars, history, base>>

\* apply_batch holds the store lock until its sync has returned.
StoreUnlocked == worker \notin {"written", "applied"}

\* Mutant: written pages leave the dirty table whatever LSN they carry now.
JobCompleteAnyLsn ==
  LET written == {p \in Pages : job.written[p] # 0}
  IN  /\ job.at = "sealed" /\ StoreUnlocked
      /\ retired' = NoSegment
      /\ dirty' = [p \in Pages |-> IF p \in written THEN NoPage ELSE dirty[p]]
      /\ flushed' = [p \in Pages |-> IF p \in written THEN 0 ELSE flushed[p]]
      /\ job' = NoJob
      /\ checkpoint_in_flight' = FALSE
      /\ UNCHANGED <<fileVars, wal, synced, active, next_lsn, flush_queue,
                     open_pages, poisoned, worker, envVars, ghostVars>>

\* complete_background_checkpoint, under the store lock.
JobComplete ==
  LET written == {p \in Pages : job.written[p] # 0}
  IN  /\ job.at = "sealed" /\ StoreUnlocked
      /\ retired' = NoSegment
      /\ dirty' = [p \in Pages |-> IF p \in written /\ dirty[p].lsn = job.written[p]
                                   THEN NoPage ELSE dirty[p]]
      /\ flushed' = [p \in Pages |-> IF p \in written /\ flushed[p] = job.written[p]
                                     THEN 0 ELSE flushed[p]]
      /\ job' = NoJob
      /\ checkpoint_in_flight' = FALSE
      /\ UNCHANGED <<fileVars, wal, synced, active, next_lsn, flush_queue,
                     open_pages, poisoned, worker, envVars, ghostVars>>

\* run() failed at some step; the retired segment stays for a full
\* checkpoint to repair.
JobAbort ==
  /\ "job" \in Loads[load].faults
  /\ job.at # "none" /\ StoreUnlocked
  /\ job' = NoJob
  /\ checkpoint_in_flight' = FALSE
  /\ UNCHANGED <<fileVars, logVars, memVars, poisoned, worker, envVars,
                 ghostVars>>

(***************************************************************************)
(* SharedReader::read_page, which takes no store lock: a page found in the *)
(* dirty table is returned; one that is not there is read from the file.   *)
(***************************************************************************)
ReadMiss(p) ==
  /\ phase = "open" /\ Loads[load].reads
  /\ reading = NoRead
  /\ ~ IsDirty(p)
  /\ reading' = [page |-> p, seen |-> Cardinality(Visible)]
  /\ UNCHANGED <<fileVars, logVars, memVars, checkpoint_in_flight, poisoned, job,
                 worker, phase, crashes, load, ghostVars>>

ReadFile ==
  /\ reading # NoRead
  /\ reading' = NoRead
  /\ UNCHANGED <<fileVars, logVars, memVars, checkpoint_in_flight, poisoned, job,
                 worker, phase, crashes, load, ghostVars>>

(***************************************************************************)
(* Crash and recovery.                                                     *)
(***************************************************************************)

\* What a crash can leave of segment s.
Surviving(s) ==
  LET kept(n) == SubSeq(wal[s], 1, n)
  IN  {kept(n) : n \in synced[s] .. Len(wal[s])}
      \cup {Append(kept(n), [wal[s][n + 1] EXCEPT !.kind = "partial"]) :
              n \in {m \in synced[s] .. Len(wal[s]) - 1 : wal[s][m + 1].kind = "batch"}}

Crash ==
  /\ phase = "open"
  /\ crashes < Loads[load].max_crashes
  /\ crashes' = crashes + 1
  /\ phase' = "down"
  /\ \E a \in Surviving(0), b \in Surviving(1) :
       /\ wal' = [s \in Segments |-> IF s = 0 THEN a ELSE b]
       /\ synced' = [s \in Segments |-> IF s = 0 THEN Len(a) ELSE Len(b)]
  /\ \E f \in [Pages -> UNION {disk[p] : p \in Pages}] :
       /\ \A p \in Pages : f[p] \in disk[p]
       /\ file' = f
       /\ disk' = [p \in Pages |-> {f[p]}]
  /\ dirty' = [p \in Pages |-> NoPage]
  /\ flushed' = [p \in Pages |-> 0]
  /\ flush_queue' = << >>
  /\ open_pages' = {}
  /\ checkpoint_in_flight' = FALSE
  /\ poisoned' = FALSE
  /\ job' = NoJob
  /\ worker' = "idle"
  /\ reading' = NoRead
  /\ UNCHANGED <<active, retired, next_lsn, load, ghostVars>>

\* Wal::open: the segments in the order of their first LSNs; a later one
\* that does not continue the earlier one is garbage.
LaterSegment ==
  IF wal[1] = << >> THEN 0
  ELSE IF wal[0] = << >> \/ wal[0][1].lsn < wal[1][1].lsn THEN 1 ELSE 0

Monotonic(earlier, later) ==
  earlier = << >> \/ later = << >> \/ later[1].lsn > earlier[Len(earlier)].lsn

OpenedWal ==
  LET l == LaterSegment
      e == 1 - l
  IN  IF Monotonic(wal[e], wal[l])
      THEN [records |-> wal[e] \o wal[l], active |-> l, wal |-> wal]
      ELSE [records |-> wal[e], active |-> e, wal |-> [wal EXCEPT ![l] = << >>]]

\* committed_page_images: whole batches after the last checkpoint record.
CommittedImages(records) ==
  {i \in DOMAIN records :
     /\ records[i].kind = "batch"
     /\ \A j \in i .. Len(records) : records[j].kind # "checkpoint"}

\* recover: replay what is newer than the page, in order.  A page that fails
\* its checksum counts as absent.
ReplayPage(p, records) ==
  LET changes == {i \in CommittedImages(records) :
                    records[i].ops[p] # "none" /\ records[i].lsn > file[p].lsn}
      images  == {i \in changes : records[i].ops[p] = "image"}
      kept    == {i \in changes : /\ records[i].ops[p] # "seal"
                                  /\ \A j \in images : j <= i}
  IN  IF changes = {} THEN file[p]
      ELSE [lsn |-> records[MaxOf(changes)].lsn,
            content |-> (IF images = {} THEN file[p].content ELSE {})
                        \cup {records[i].lsn : i \in kept}]

\* Mutant: LSNs resume from the log alone.
LsnAfterLog(records, pages) ==
  1 + MaxOf({0} \cup {records[i].lsn : i \in DOMAIN records})

\* The LSN after everything in the log and in the data file.
LsnAfter(records, pages) ==
  1 + MaxOf({0} \cup {records[i].lsn : i \in DOMAIN records}
                \cup {pages[p].lsn : p \in Pages})

\* DurableStore::open.  When both segments hold records, a full checkpoint
\* (of no dirty pages) empties both.
Recover ==
  LET opened == OpenedWal
      both   == \A s \in Segments : opened.wal[s] # << >>
  IN  /\ phase = "down"
      /\ phase' = "recovered"
      /\ file' = [p \in Pages |-> ReplayPage(p, opened.records)]
      /\ disk' = [p \in Pages |-> {file'[p]}]
      /\ active' = opened.active
      /\ retired' = NoSegment
      /\ wal' = IF both THEN [s \in Segments |-> << >>] ELSE opened.wal
      /\ synced' = [s \in Segments |-> Len(wal'[s])]
      /\ next_lsn' = LsnAfter(opened.records, file') + (IF both THEN 1 ELSE 0)
      /\ UNCHANGED <<memVars, checkpoint_in_flight, poisoned, job, worker,
                     reading, crashes, load, ghostVars>>

\* open returned; what the store holds now is the new starting point.
Resume ==
  /\ phase = "recovered"
  /\ \A p \in Pages : file[p] # Corrupt
  /\ phase' = "open"
  /\ base' = [p \in Pages |-> file[p].content]
  /\ history' = << >>
  /\ passed_over' = [p \in Pages |-> 0]
  /\ UNCHANGED <<fileVars, logVars, memVars, checkpoint_in_flight, poisoned,
                 job, worker, reading, crashes, load>>

WorkerStep ==
  \/ \E ops \in Loads[load].changes, durable \in Loads[load].durabilities :
       WritePages(ops, durable)
  \/ \E ops \in Loads[load].changes : AppendPages(ops) \/ LogError(ops)
  \/ SyncBatch \/ SyncError
  \/ PaceFlush \/ PaceFlushError \/ MaybeCheckpoint
  \/ RequestCheckpoint \/ ExplicitCheckpoint
  \/ CheckpointLog \/ SealFirst \/ SealSecond \/ CheckpointError

CheckpointerStep == JobWrite \/ JobSync \/ JobSeal \/ JobComplete \/ JobAbort

ReaderStep == (\E p \in Pages : ReadMiss(p)) \/ ReadFile

Next == WorkerStep \/ CheckpointerStep \/ ReaderStep \/ Crash \/ Recover \/ Resume

Spec == Init /\ [][Next]_vars

(***************************************************************************)
(* Properties.                                                             *)
(***************************************************************************)

\* Every variable has its type.
TypeOK ==
  /\ file \in [Pages -> Image]
  /\ disk \in [Pages -> SUBSET Image]
  /\ \A s \in Segments : \A i \in DOMAIN wal[s] : wal[s][i] \in Record
  /\ \A s \in Segments : synced[s] \in 0 .. Len(wal[s])
  /\ active \in Segments
  /\ retired \in {1 - active, NoSegment}
  /\ next_lsn \in Nat
  /\ dirty \in [Pages -> Image]
  /\ flushed \in [Pages -> Nat]
  /\ \A i \in DOMAIN flush_queue : flush_queue[i] \in Pages
  /\ open_pages \subseteq Pages
  /\ checkpoint_in_flight \in BOOLEAN
  /\ poisoned \in BOOLEAN
  /\ job.at \in {"none", "queued", "written", "synced", "sealed"}
  /\ worker \in {"idle", "written", "applied", "pacing", "deciding", "waiting", "syncing",
                 "sealing", "sealed"}
  /\ phase \in {"open", "down", "recovered"}
  /\ reading = NoRead \/ reading \in [page : Pages, seen : Nat]
  /\ \A i \in DOMAIN history : history[i].outcome \in Outcome
  /\ passed_over \in [Pages -> Nat]

\* What page p should hold after the first n batches since the store opened.
ContentAfter(n, p) ==
  LET wiped(i) == \E j \in i + 1 .. n : history[j].ops[p] = "image"
  IN  (IF wiped(0) THEN {} ELSE base[p])
      \cup {history[i].lsn : i \in {j \in 1 .. n : /\ history[j].ops[p] \in {"image", "append"}
                                                   /\ ~ wiped(j)}}

DurableBatches == {i \in DOMAIN history : history[i].outcome = "durable"}

Holds(p, n) == file[p] # Corrupt /\ file[p].content = ContentAfter(n, p)

\* A group was answered while its pages were in the dirty table and its
\* records not synced: it was relaxed, or its sync failed.
AnsweredUnsynced == \E i \in DOMAIN history : history[i].outcome \in {"relaxed", "unsynced"}

\* A background checkpoint left p unwritten, because it had changed, and sealed
\* the segment with its earlier changes; no image of p is synced since.
Unprotected(p) ==
  /\ passed_over[p] # 0
  /\ ~ \E i \in DurableBatches :
         history[i].lsn > passed_over[p] /\ history[i].ops[p] = "image"

\* While every answered batch is synced, and no checkpoint passes over a page, a
\* crash at any moment loses nothing: the store that opens again is the one
\* some prefix of the batches made, whole batches only, and the prefix ends no
\* earlier than the last batch whose sync was acknowledged (apply_batch_inner,
\* BackgroundCheckpoint::run, checkpoint_inner, recover).
RecoversPrefix ==
  phase = "recovered" /\ ~ AnsweredUnsynced /\ (\A p \in Pages : ~ Unprotected(p)) =>
    \E n \in MaxOf({0} \cup DurableBatches) .. Len(history) :
      \A p \in Pages : Holds(p, n)

\* p is as it was at its last acknowledged change or later.
KeepsAcked(p) ==
  \E n \in MaxOf({0} \cup {i \in DurableBatches : history[i].ops[p] # "none"})
           .. Len(history) : Holds(p, n)

\* Relaxed groups, and groups whose sync failed, do no harm to others: every
\* page no checkpoint passed over keeps its acknowledged changes in a crash
\* (apply_batch_inner, flush_some_dirty, recover).
AckedSurvive ==
  phase = "recovered" => \A p \in Pages : Unprotected(p) \/ KeepsAcked(p)

\* The comment on DirtyPages, store.rs:64, and docs/storage-format-v1.md:21: a
\* crash loses nothing that was acknowledged.
CrashLosesNothing ==
  phase = "recovered" => \A p \in Pages : KeepsAcked(p)

\* A batch without an acknowledged sync is kept or lost as a unit.
BatchesAtomic ==
  phase = "recovered" =>
    \E n \in 0 .. Len(history) : \A p \in Pages : Holds(p, n)

\* A relaxed batch is durable as soon as a later synced batch is.
RelaxedRidesNextSync ==
  phase = "recovered" =>
    \A p \in Pages :
      \E n \in MaxOf({0} \cup DurableBatches) .. Len(history) : Holds(p, n)

\* A reader finds every page, with all its changes, in the dirty table or in
\* the data file, whatever the worker and the checkpointer are doing.  It sees
\* a batch from the moment the batch enters the dirty table, before its sync,
\* and a batch whose sync failed ever after.  One that looked for the page in
\* the dirty table in vain reads from the file the page as it was then or
\* later (SharedReader::read_page, flush_some_dirty, checkpoint_inner,
\* complete_background_checkpoint).
ReadersSeeCommitted ==
  phase = "open" =>
    /\ \A p \in Pages : ReadPage(p).content = ContentAfter(Cardinality(Visible), p)
    /\ reading # NoRead =>
         \E n \in reading.seen .. Cardinality(Visible) :
           file[reading.page].content = ContentAfter(n, reading.page)

\* GroupCommitOptions: the log is checkpointed once it grows past its budget
\* and can overshoot it by at most one batch.
LogBounded ==
  Loads[load].checkpoint_after > 0 => Len(wal[active]) <= Loads[load].checkpoint_after + 1
=============================================================================
