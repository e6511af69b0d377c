-------------------------- MODULE SnapshotIsolation --------------------------
(***************************************************************************)
(* What the transaction layer promises, with no trace of how: the promises *)
(* listed at the head of mvcc/tests/history.rs.                            *)
(*                                                                         *)
(* The database is a log of commits.  A transaction that begins gets a     *)
(* view of the state after the whole log and keeps it until it ends.  The  *)
(* log only grows at its end, by whole transactions, and a transaction may *)
(* only be added when every earlier writer of one of its keys was in its   *)
(* snapshot.                                                               *)
(***************************************************************************)
EXTENDS Naturals, Sequences

CONSTANTS Keys, Txns, NoView

VARIABLES
  log,    \* sequence of [snapshot, writes]; an aborted slot writes nothing
  view    \* transaction -> key -> position read ({} when absent), or NoView

siVars == <<log, view>>

\* The position of the entry that key k has after the first n entries.
ValueAfter(n, k) ==
  {i \in 1 .. n : /\ log[i].writes[k] = "put"
                  /\ \A j \in i + 1 .. n : log[j].writes[k] = "none"}

SIInit ==
  /\ log = << >>
  /\ view = [t \in Txns |-> NoView]

SIBegin(t) ==
  /\ view[t] = NoView
  /\ view' = [view EXCEPT ![t] = [k \in Keys |-> ValueAfter(Len(log), k)]]
  /\ UNCHANGED log

SIEnd(t) ==
  /\ view[t] # NoView
  /\ view' = [view EXCEPT ![t] = NoView]
  /\ UNCHANGED log

\* One or more transactions become visible at once.
SICommit ==
  /\ Len(log') > Len(log)
  /\ SubSeq(log', 1, Len(log)) = log
  /\ \A i \in Len(log) + 1 .. Len(log') :
       \A j \in log'[i].snapshot + 1 .. i - 1 : \A k \in Keys :
         log'[i].writes[k] = "none" \/ log'[j].writes[k] = "none"
  /\ UNCHANGED view

SINext == SICommit \/ \E t \in Txns : SIBegin(t) \/ SIEnd(t)

SISpec == SIInit /\ [][SINext]_siVars
=============================================================================
