--------------------------- MODULE MCDurableStore ---------------------------
\* Finite instances of DurableStore.
EXTENDS DurableStore, TLC

\* Every non-empty batch of page images.
ImageBatches == [Pages -> {"none", "image"}] \ {NoChange}

\* What persist_commit asks for: records appended to the open page, and pages
\* left behind for it sealed.
AppendBatches == {ops \in [Pages -> {"none", "append", "seal"}] :
                    \E p \in Pages : ops[p] = "append"}

\* With the images that blank a page for reuse.
AllBatches == ImageBatches \cup AppendBatches

\* A page that is left behind is sealed; without those.
UnsealedBatches == {ops \in AllBatches : \A p \in Pages : ops[p] # "seal"}

\* Images beside background checkpoints, pages torn.
ImageLoad == [changes |-> ImageBatches, durabilities |-> {TRUE}, checkpoint_after |-> 2,
              faults |-> {"torn"}, reads |-> FALSE, max_lsn |-> 5, max_crashes |-> 1]

\* Appends, beside background checkpoints, failing jobs.
AppendLoad == [ImageLoad EXCEPT !.changes = AppendBatches, !.faults = {"job"},
                               !.max_lsn = 4]

\* Images, appends and relaxed batches; explicit checkpoints only.
MixedLoad == [changes |-> UnsealedBatches, durabilities |-> {TRUE, FALSE},
              checkpoint_after |-> 0, faults |-> {}, reads |-> FALSE,
              max_lsn |-> 4, max_crashes |-> 1]

\* The three, shorter, with more that fails and a second crash after the recovery.
ImageTwice == [ImageLoad EXCEPT !.faults = {"torn", "job", "share"}, !.max_lsn = 4,
                                !.max_crashes = 2]
AppendTwice == [AppendLoad EXCEPT !.faults = {"log", "job"}, !.max_lsn = 3,
                                  !.max_crashes = 2]
MixedTwice == [MixedLoad EXCEPT !.changes = AllBatches, !.faults = {"log"},
                                !.max_lsn = 3, !.max_crashes = 2]

\* Paced flushing fails, and the process lives on; a reader takes part.
FlushLoad == [changes |-> UnsealedBatches, durabilities |-> {TRUE}, checkpoint_after |-> 2,
              faults |-> {"log", "flush", "job"}, reads |-> TRUE,
              max_lsn |-> 3, max_crashes |-> 0]

SomeLoads == [images |-> ImageLoad, images_twice |-> ImageTwice,
              appends |-> AppendLoad, appends_twice |-> AppendTwice,
              mixed |-> MixedLoad, mixed_twice |-> MixedTwice, flush |-> FlushLoad]

\* Appends beside background checkpoints, nothing failing; the same for images.
AppendLoads == [appends |-> [AppendLoad EXCEPT !.faults = {}]]
ImageRaceLoads == [images |-> [ImageLoad EXCEPT !.faults = {}]]

\* One load each for what section 8 of the README describes.
FlushCrash == [changes |-> ImageBatches, durabilities |-> {TRUE}, checkpoint_after |-> 0,
               faults |-> {"flush"}, reads |-> FALSE, max_lsn |-> 5, max_crashes |-> 1]
FlushCrashLoads == [flush |-> FlushCrash]
TornAppendLoads ==
  [torn |-> [FlushCrash EXCEPT !.changes = AppendBatches, !.faults = {"torn"}]]
SyncErrorLoads ==
  [refused |-> [FlushCrash EXCEPT !.faults = {"log"}]]
RelaxedFlushLoads ==
  [relaxed |-> [FlushCrash EXCEPT !.durabilities = {TRUE, FALSE}, !.faults = {},
                                  !.max_lsn = 4]]
RelaxedRotationLoads ==
  [relaxed |-> [FlushCrash EXCEPT !.durabilities = {TRUE, FALSE}, !.faults = {},
                                  !.checkpoint_after = 2]]
LogGrowthLoads ==
  [growth |-> [FlushCrash EXCEPT !.faults = {}, !.checkpoint_after = 1,
                                 !.max_lsn = 6, !.max_crashes = 0]]

PageSymmetry == Permutations(Pages)
=============================================================================
