---------------------------- MODULE GroupCommit ----------------------------
(***************************************************************************)
(* The group committer, storage/src/group_commit.rs: callers, the bounded  *)
(* command queue, the commit worker that gathers calls into one batch, the *)
(* checkpointer, and the shutdown that joins both threads.                 *)
(*                                                                         *)
(* Here the store is its log, one element per LSN; what a batch does to    *)
(* pages and what a crash leaves of it is DurableStore's.  The worker's    *)
(* paced flush between two batches changes nothing callers can tell and is *)
(* left out.                                                               *)
(***************************************************************************)
EXTENDS Integers, Sequences, FiniteSets, SequencesExt, FiniteSetsExt

CONSTANTS
  Clients,          \* threads that hold a clone of the handle
  Committer,        \* the owner of the GroupCommitter, who shuts it down
  Operations,       \* the calls they make: kind, pages
  QueueDepth, MaxBatchPages,
  CheckpointAfter,  \* log records that make it oversized; 0 never
  Faults,           \* subset of {"log", "job", "share"}
  MaxCalls          \* bound on the calls of a behaviour, per client

ASSUME OptionsAssumption ==
  /\ QueueDepth \in Nat \ {0} /\ MaxBatchPages \in Nat \ {0}
  /\ CheckpointAfter \in Nat
  /\ Committer \notin Clients

VARIABLES
  call,         \* client -> where its call is, and the operation
  number,       \* client -> calls made
  answer,       \* client -> what its last call returned
  closing,      \* where stop_worker is
  queue,        \* callers whose command is in the channel
  pending,      \* the command the worker set aside, if any
  worker,       \* where commit_worker is
  group,        \* callers of the commands the worker is serving
  replies,      \* answers it has still to send: <<client, answer>>
  log,          \* one element per LSN: whose page it is, or Marker
  synced,       \* the LSNs a sync has covered
  start,        \* the first LSN of the active segment
  retired,      \* the spare segment holds records
  poisoned,
  checkpoint_in_flight,
  jobs,         \* the checkpoint channel
  checkpointer,
  unshared      \* begin_background_checkpoint failed with the flag set

callVars == <<call, number, answer>>
storeVars == <<log, synced, start, retired, poisoned>>
jobVars == <<checkpoint_in_flight, jobs, checkpointer, unshared>>
vars == <<callVars, closing, queue, pending, worker, group, replies, storeVars,
          jobVars>>

NoCall == [at |-> "idle", op |-> [kind |-> "nothing", pages |-> 0]]
Marker == <<"marker", 0>>
Empty == << >>

Ok(lsns) == [kind |-> "ok", lsns |-> lsns]
Error == [kind |-> "error", lsns |-> Empty]
Stopped == [kind |-> "stopped", lsns |-> Empty]

Init ==
  /\ call = [c \in Clients |-> NoCall]
  /\ number = [c \in Clients |-> 0]
  /\ answer = [c \in Clients |-> [kind |-> "none", lsns |-> Empty]]
  /\ closing = "open"
  /\ queue = Empty /\ pending = Empty
  /\ worker = "receiving" /\ group = Empty /\ replies = Empty
  /\ log = Empty /\ synced = {} /\ start = 1
  /\ retired = FALSE /\ poisoned = FALSE
  /\ checkpoint_in_flight = FALSE /\ jobs = Empty /\ checkpointer = "receiving"
  /\ unshared = FALSE

(***************************************************************************)
(* The callers: submit, checkpoint, stop_worker.                           *)
(***************************************************************************)

\* commit, commit_relaxed, append or checkpoint is called.  (A call without
\* pages, or with one too large for a page, returns before it gets here.)
Call(c) ==
  /\ call[c].at = "idle" /\ number[c] < MaxCalls
  /\ \E op \in Operations : call' = [call EXCEPT ![c] = [at |-> "sending", op |-> op]]
  /\ number' = [number EXCEPT ![c] = @ + 1]
  /\ UNCHANGED <<answer, closing, queue, pending, worker, group, replies,
                 storeVars, jobVars>>

HasRoom == worker # "stopped" /\ Len(queue) < QueueDepth

\* The channel takes the command; a full one makes the sender wait.
Send(c) ==
  /\ call[c].at = "sending" /\ HasRoom
  /\ call' = [call EXCEPT ![c].at = "waiting"]
  /\ queue' = Append(queue, c)
  /\ UNCHANGED <<number, answer, closing, pending, worker, group, replies,
                 storeVars, jobVars>>

Return(c, result) ==
  /\ call' = [call EXCEPT ![c] = NoCall]
  /\ answer' = [answer EXCEPT ![c] = result]
  /\ UNCHANGED number

\* The receiver is gone, and with it every command still in the channel:
\* send or recv fails.
FindStopped(c) ==
  /\ worker = "stopped" /\ call[c].at \in {"sending", "waiting"}
  /\ Return(c, Stopped)
  /\ UNCHANGED <<closing, queue, pending, worker, group, replies, storeVars, jobVars>>

StartShutdown ==
  /\ closing = "open"
  /\ closing' = "sending"
  /\ UNCHANGED <<callVars, queue, pending, worker, group, replies, storeVars, jobVars>>

SendShutdown ==
  /\ closing = "sending" /\ HasRoom
  /\ closing' = "waiting"
  /\ queue' = Append(queue, Committer)
  /\ UNCHANGED <<callVars, pending, worker, group, replies, storeVars, jobVars>>

\* Mutant: the checkpointer is not joined.
JoinWorkerOnly ==
  /\ closing = "joining" /\ worker = "stopped"
  /\ closing' = "done"
  /\ UNCHANGED <<callVars, queue, pending, worker, group, replies, storeVars, jobVars>>

\* The worker is joined, then the checkpointer.
JoinThreads ==
  /\ closing = "joining" /\ worker = "stopped" /\ checkpointer = "gone"
  /\ closing' = "done"
  /\ UNCHANGED <<callVars, queue, pending, worker, group, replies, storeVars, jobVars>>

(***************************************************************************)
(* The commit worker.                                                      *)
(***************************************************************************)
IsCommit(x) == x # Committer /\ call[x].op.kind # "checkpoint"

\* The command at the top of the loop: the one set aside before the queue's.
Receive ==
  /\ worker = "receiving" /\ pending \o queue # Empty
  /\ LET x == Head(pending \o queue)
     IN  /\ IF x = Committer THEN worker' = "stopping" /\ UNCHANGED group
            ELSE /\ worker' = IF IsCommit(x) THEN "gathering" ELSE "waiting"
                 /\ group' = <<x>>
         /\ IF pending = Empty THEN queue' = Tail(queue) /\ UNCHANGED pending
            ELSE pending' = Empty /\ UNCHANGED queue
  /\ UNCHANGED <<callVars, closing, replies, storeVars, jobVars>>

PageCount(g) == MapThenSumSet(LAMBDA i : call[g[i]].op.pages, DOMAIN g)

\* While the group is small and its deadline has not passed, commits join
\* it; another command is set aside and closes it.
Gather ==
  /\ worker = "gathering" /\ queue # Empty
  /\ PageCount(group) < MaxBatchPages
  /\ queue' = Tail(queue)
  /\ IF IsCommit(Head(queue))
     THEN group' = Append(group, Head(queue)) /\ UNCHANGED <<pending, worker>>
     ELSE pending' = <<Head(queue)>> /\ worker' = "closing" /\ UNCHANGED group
  /\ UNCHANGED <<callVars, closing, replies, storeVars, jobVars>>

Id(c) == <<c, number[c]>>
Appends(c) == call[c].op.kind = "append"

\* The members of the group that write images, and those that append; a
\* request does one or the other.
Part(appending) == SelectSeq(group, LAMBDA c : Appends(c) = appending)

\* The log records of part p: its pages, then the commit record.
Records(p) ==
  IF p = Empty THEN Empty
  ELSE FlattenSeq([i \in DOMAIN p |-> [j \in 1 .. call[p[i]].op.pages |-> Id(p[i])]])
       \o <<Marker>>

BatchRecords == Records(Part(FALSE)) \o Records(Part(TRUE))

\* Where the pages of group[i] start in the list of its kind.
SpanStart(i) ==
  MapThenSumSet(LAMBDA j : call[group[j]].op.pages,
                {j \in 1 .. i - 1 : Appends(group[j]) = Appends(group[i])})

\* Mutant: one span for both lists.
LsnsOneSpan(i) ==
  LET first == Len(log) + (IF Appends(group[i]) THEN Len(Records(Part(FALSE))) ELSE 0)
      from == MapThenSumSet(LAMBDA j : call[group[j]].op.pages, 1 .. i - 1)
  IN  [k \in 1 .. call[group[i]].op.pages |-> first + from + k]

\* write_lsns[span] or append_lsns[span].
Lsns(i) ==
  LET first == Len(log) + (IF Appends(group[i]) THEN Len(Records(Part(FALSE))) ELSE 0)
  IN  [k \in 1 .. call[group[i]].op.pages |-> first + SpanStart(i) + k]

Durable == \E i \in DOMAIN group : call[group[i]].op.kind # "relaxed"

\* execute_group: one batch, synced if any member asked for it (the sync
\* covers the active segment), and an answer for each.
ExecuteGroup ==
  /\ worker \in {"gathering", "closing"} /\ ~ poisoned
  /\ log' = log \o BatchRecords
  /\ synced' = IF Durable THEN synced \cup (start .. Len(log')) ELSE synced
  /\ replies' = [i \in DOMAIN group |-> <<group[i], Ok(Lsns(i))>>]
  /\ worker' = "answering" /\ group' = Empty
  /\ UNCHANGED <<callVars, closing, queue, pending, start, retired, poisoned, jobVars>>

\* The store is poisoned, or becomes so in the middle of the batch: every
\* member gets the error, whichever of them it was about.
ExecuteGroupError ==
  /\ worker \in {"gathering", "closing"}
  /\ IF poisoned THEN UNCHANGED <<log, poisoned>>
     ELSE /\ "log" \in Faults
          /\ \E n \in 0 .. Len(BatchRecords) : log' = log \o SubSeq(BatchRecords, 1, n)
          /\ poisoned' = TRUE
  /\ replies' = [i \in DOMAIN group |-> <<group[i], Error>>]
  /\ worker' = "answering" /\ group' = Empty
  /\ UNCHANGED <<callVars, closing, queue, pending, synced, start, retired, jobVars>>

\* The next answer is handed over; the caller returns with it.
Reply ==
  /\ worker = "answering" /\ replies # Empty
  /\ LET c == Head(replies)[1]
     IN  /\ Return(c, Head(replies)[2])
         /\ replies' = Tail(replies)
         /\ worker' = IF replies' # Empty THEN "answering"
                      ELSE IF IsCommit(c) THEN "deciding" ELSE "receiving"
  /\ UNCHANGED <<closing, queue, pending, group, storeVars, jobVars>>

(***************************************************************************)
(* Checkpoints.                                                            *)
(***************************************************************************)
Oversized == CheckpointAfter > 0 /\ Len(log) - start + 1 >= CheckpointAfter

\* DurableStore::checkpoint succeeds: a record is logged and synced, and
\* both segments are empty.
FullCheckpoint ==
  /\ ~ poisoned
  /\ log' = Append(log, Marker)
  /\ synced' = DOMAIN log'
  /\ start' = Len(log') + 1
  /\ retired' = FALSE
  /\ UNCHANGED poisoned

\* It is refused, or fails and poisons the store.
CheckpointFails ==
  /\ poisoned \/ "log" \in Faults
  /\ poisoned' = TRUE
  /\ UNCHANGED <<log, synced, start, retired>>

MustCheckpoint == Oversized /\ ~ checkpoint_in_flight
CanBegin == ~ poisoned /\ ~ retired

SkipCheckpoint ==
  /\ worker = "deciding" /\ ~ MustCheckpoint
  /\ worker' = "receiving"
  /\ UNCHANGED <<callVars, closing, queue, pending, group, replies, storeVars, jobVars>>

\* Rotate, set the flag, hand the job over; a channel that does not take it
\* makes the worker clear the flag again.
BeginBackground ==
  /\ worker = "deciding" /\ MustCheckpoint /\ CanBegin
  /\ start' = Len(log) + 1 /\ retired' = TRUE
  /\ IF jobs = Empty /\ checkpointer # "gone"
     THEN jobs' = <<"job">> /\ checkpoint_in_flight' = TRUE
     ELSE UNCHANGED <<jobs, checkpoint_in_flight>>
  /\ worker' = "receiving"
  /\ UNCHANGED <<callVars, closing, queue, pending, group, replies, log, synced,
                 poisoned, checkpointer, unshared>>

\* A file handle cannot be cloned: begin_background_checkpoint returns the
\* error with the flag already set, and there is no job to clear it.
BeginBackgroundError ==
  /\ "share" \in Faults
  /\ worker = "deciding" /\ MustCheckpoint /\ CanBegin
  /\ start' = Len(log) + 1 /\ retired' = TRUE
  /\ checkpoint_in_flight' = TRUE /\ unshared' = TRUE
  /\ worker' = "receiving"
  /\ UNCHANGED <<callVars, closing, queue, pending, group, replies, log, synced,
                 poisoned, jobs, checkpointer>>

\* The spare segment still holds what a failed job left.
CheckpointInstead ==
  /\ worker = "deciding" /\ MustCheckpoint /\ ~ CanBegin
  /\ FullCheckpoint \/ CheckpointFails
  /\ worker' = "receiving"
  /\ UNCHANGED <<callVars, closing, queue, pending, group, replies, jobVars>>

\* explicit_checkpoint: poll until no job is in flight, then run.
ExplicitCheckpoint ==
  /\ worker = "waiting" /\ ~ checkpoint_in_flight
  /\ \/ FullCheckpoint /\ replies' = <<<<group[1], Ok(<<Len(log')>>)>>>>
     \/ CheckpointFails /\ replies' = <<<<group[1], Error>>>>
  /\ worker' = "answering" /\ group' = Empty
  /\ UNCHANGED <<callVars, closing, queue, pending, jobVars>>

\* The shutdown command is acknowledged and the worker returns, dropping its
\* receiver and the checkpoint sender.
Stop ==
  /\ worker = "stopping" /\ closing = "waiting"
  /\ worker' = "stopped" /\ closing' = "joining"
  /\ queue' = Empty
  /\ UNCHANGED <<callVars, pending, group, replies, storeVars, jobVars>>

TakeJob ==
  /\ checkpointer = "receiving" /\ jobs # Empty
  /\ checkpointer' = "running" /\ jobs' = Empty
  /\ UNCHANGED <<callVars, closing, queue, pending, worker, group, replies,
                 storeVars, checkpoint_in_flight, unshared>>

\* The job ran and the retired segment is free again.
CompleteJob ==
  /\ checkpointer = "running"
  /\ checkpointer' = "receiving" /\ checkpoint_in_flight' = FALSE
  /\ retired' = FALSE
  /\ UNCHANGED <<callVars, closing, queue, pending, worker, group, replies, log,
                 synced, start, poisoned, jobs, unshared>>

\* Mutant: the flag stays set when the job fails.
AbortJobInFlight ==
  /\ "job" \in Faults /\ checkpointer = "running"
  /\ checkpointer' = "receiving"
  /\ UNCHANGED <<callVars, closing, queue, pending, worker, group, replies,
                 storeVars, checkpoint_in_flight, jobs, unshared>>

\* The job failed; the segment waits for a full checkpoint.
AbortJob ==
  /\ "job" \in Faults /\ checkpointer = "running"
  /\ checkpointer' = "receiving" /\ checkpoint_in_flight' = FALSE
  /\ UNCHANGED <<callVars, closing, queue, pending, worker, group, replies,
                 storeVars, jobs, unshared>>

\* The channel is empty and its sender gone.
CheckpointerExits ==
  /\ checkpointer = "receiving" /\ jobs = Empty /\ worker = "stopped"
  /\ checkpointer' = "gone"
  /\ UNCHANGED <<callVars, closing, queue, pending, worker, group, replies,
                 storeVars, checkpoint_in_flight, jobs, unshared>>

WorkerStep ==
  \/ Receive \/ Gather \/ ExecuteGroup \/ ExecuteGroupError \/ Reply
  \/ SkipCheckpoint \/ BeginBackground \/ BeginBackgroundError
  \/ CheckpointInstead \/ ExplicitCheckpoint \/ Stop

CheckpointerStep == TakeJob \/ CompleteJob \/ AbortJob \/ CheckpointerExits

ClientStep(c) == Send(c) \/ FindStopped(c)

ShutdownStep == SendShutdown \/ JoinThreads

Next ==
  \/ \E c \in Clients : Call(c) \/ ClientStep(c)
  \/ StartShutdown \/ ShutdownStep
  \/ WorkerStep \/ CheckpointerStep

Spec == Init /\ [][Next]_vars

\* Every thread in the middle of a call runs; nobody has to call.
FairSpec ==
  /\ Spec
  /\ WF_vars(WorkerStep)
  /\ WF_vars(CheckpointerStep)
  /\ \A c \in Clients : WF_vars(ClientStep(c))
  /\ WF_vars(ShutdownStep)

(***************************************************************************)
(* Properties.                                                             *)
(***************************************************************************)
Replied(c) == \E i \in DOMAIN replies : replies[i][1] = c

Promise == INSTANCE CommitLog WITH
  broken <- poisoned,
  asked <- [c \in Clients |-> IF Replied(c) THEN NoCall.op ELSE call[c].op],
  outcome <- [c \in Clients |->
                IF Replied(c)
                THEN (CHOOSE r \in Range(replies) : r[1] = c)[2] ELSE answer[c]]

\* Each call is committed once, atomically, between being made and being
\* answered, its answer names the LSNs of its own pages however the group
\* mixed images and appends, a durable member makes the whole group durable,
\* a call told the committer has stopped left nothing in the log, and after
\* a failed batch nothing is acknowledged any more.
ImplementsCommitLog == Promise!LogSpec

\* The in-flight flag is set exactly while a job is in the channel or
\* running (or after a handle could not be cloned), so that the channel of
\* size one takes every job and a checkpoint that finds the flag clear is
\* alone; and once shutdown has returned neither thread can touch the files.
JobsOwned ==
  /\ checkpoint_in_flight <=> jobs # Empty \/ checkpointer = "running" \/ unshared
  /\ jobs # Empty => checkpointer = "receiving" /\ ~ unshared
  /\ closing = "done" => worker = "stopped" /\ checkpointer = "gone" /\ jobs = Empty

\* Every call is answered in the end, checkpoints and shutdown included,
\* whatever is in the queue when the worker stops.  The exception is the
\* flag that nobody clears: a checkpoint then waits for it for ever, and
\* everybody behind it.
EveryCallReturns ==
  /\ \A c \in Clients : call[c].at # "idle" ~> (call[c].at = "idle" \/ unshared)
  /\ closing # "open" ~> (closing = "done" \/ unshared)

\* The same without the exception.
EveryCallReturnsAnyway ==
  \A c \in Clients : call[c].at # "idle" ~> call[c].at = "idle"
=============================================================================
