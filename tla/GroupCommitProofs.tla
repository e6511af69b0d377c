-------------------------- MODULE GroupCommitProofs --------------------------
(***************************************************************************)
(* JobsOwned holds for any number of callers, any options and any pattern  *)
(* of faults.                                                              *)
(***************************************************************************)
EXTENDS GroupCommit, TLAPS

\* The types of what JobsOwned is about; the owner joins a worker that has
\* returned; and a flag left set by a failed start means no job can run.
IInv ==
  /\ checkpoint_in_flight \in BOOLEAN /\ unshared \in BOOLEAN
  /\ checkpointer \in {"receiving", "running", "gone"}
  /\ checkpointer = "running" => ~ unshared
  /\ closing = "joining" => worker = "stopped"
  /\ JobsOwned

\* The committer starts without a job.
LEMMA InitIInv == Init => IInv
BY DEF Init, IInv, JobsOwned, Empty

\* Steps that leave the jobs, the worker's end and the shutdown alone.
LEMMA QuietStep ==
  ASSUME IInv, UNCHANGED <<jobVars, closing>>,
         worker' # worker => worker # "stopped"
  PROVE  IInv'
BY DEF IInv, JobsOwned, jobVars

\* Every step of every thread keeps the flag in agreement with the jobs.
LEMMA NextIInv == IInv /\ [Next]_vars => IInv'
<1> SUFFICES ASSUME IInv, [Next]_vars PROVE IInv'
  OBVIOUS
<1>1. CASE UNCHANGED vars
  BY <1>1 DEF vars, jobVars, IInv, JobsOwned
<1>2. ASSUME NEW c \in Clients, Call(c) \/ ClientStep(c) PROVE IInv'
  BY <1>2, QuietStep DEF Call, ClientStep, Send, FindStopped
<1>3. CASE Receive
  BY <1>3, QuietStep DEF Receive
<1>4. CASE Gather
  BY <1>4, QuietStep DEF Gather
<1>5. CASE ExecuteGroup \/ ExecuteGroupError
  BY <1>5, QuietStep DEF ExecuteGroup, ExecuteGroupError
<1>6. CASE Reply
  BY <1>6, QuietStep DEF Reply
<1>7. CASE SkipCheckpoint \/ CheckpointInstead \/ ExplicitCheckpoint
  BY <1>7, QuietStep DEF SkipCheckpoint, CheckpointInstead, ExplicitCheckpoint
<1>8. CASE BeginBackground
  <2>1. ~ checkpoint_in_flight /\ worker = "deciding" /\ worker' = "receiving"
    BY <1>8 DEF BeginBackground, MustCheckpoint
  <2>2. jobs = Empty /\ checkpointer # "running" /\ ~ unshared
    BY <2>1 DEF IInv, JobsOwned
  <2>3. closing' = closing /\ closing # "done" /\ closing # "joining"
    BY <1>8, <2>1 DEF BeginBackground, IInv, JobsOwned
  <2>4. CASE checkpointer = "gone"
    BY <1>8, <2>1, <2>2, <2>3, <2>4 DEF BeginBackground, IInv, JobsOwned
  <2>5. CASE checkpointer # "gone"
    <3>1. /\ jobs' = <<"job">> /\ checkpoint_in_flight' = TRUE
          /\ unshared' = unshared /\ checkpointer' = checkpointer
      BY <1>8, <2>2, <2>5 DEF BeginBackground
    <3>2. checkpointer = "receiving"
      BY <2>2, <2>5 DEF IInv, JobsOwned
    <3>3. <<"job">> # Empty
      BY DEF Empty
    <3> QED
      BY <3>1, <3>2, <3>3, <2>1, <2>2, <2>3 DEF IInv, JobsOwned
  <2> QED
    BY <2>4, <2>5
<1>9. CASE BeginBackgroundError
  BY <1>9 DEF BeginBackgroundError, MustCheckpoint, IInv, JobsOwned
<1>10. CASE Stop
  BY <1>10 DEF Stop, jobVars, IInv, JobsOwned
<1>11. CASE TakeJob
  BY <1>11 DEF TakeJob, IInv, JobsOwned
<1>12. CASE CompleteJob
  BY <1>12 DEF CompleteJob, IInv, JobsOwned
<1>13. CASE AbortJob
  BY <1>13 DEF AbortJob, IInv, JobsOwned
<1>14. CASE CheckpointerExits
  BY <1>14 DEF CheckpointerExits, IInv, JobsOwned
<1>15. CASE StartShutdown \/ ShutdownStep
  BY <1>15 DEF StartShutdown, ShutdownStep, SendShutdown, JoinThreads, jobVars, IInv, JobsOwned
<1> QED
  BY <1>1, <1>2, <1>3, <1>4, <1>5, <1>6, <1>7, <1>8, <1>9, <1>10, <1>11,
     <1>12, <1>13, <1>14, <1>15 DEF Next, WorkerStep, CheckpointerStep

\* In every reachable state the in-flight flag of the store is set exactly
\* while a background checkpoint is queued or running, and shutdown returns
\* only when both threads are done.
THEOREM JobsOwnedAlways == Spec => []JobsOwned
<1>1. Spec => []IInv
  BY InitIInv, NextIInv, PTL DEF Spec
<1>2. IInv => JobsOwned
  BY DEF IInv
<1> QED
  BY <1>1, <1>2, PTL
=============================================================================
