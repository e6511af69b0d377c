--------------------------- MODULE MvccRefinement ---------------------------
(***************************************************************************)
(* Mvcc implements SnapshotIsolation.  The abstract log is the history up  *)
(* to the watermark, one entry per timestamp (a failed commit leaves an    *)
(* entry that writes nothing); the view of a transaction is what           *)
(* Inner::read answers for each key at its snapshot.                       *)
(***************************************************************************)
EXTENDS Mvcc, Sequences

\* The view of a transaction that is not open: the function with no keys.
NoView == << >>

EntryOf(here, n) ==
  [snapshot |-> IF here = {} THEN n ELSE (CHOOSE c \in here : TRUE).snapshot,
   writes   |-> IF here = {} THEN [k \in Keys |-> "none"]
                ELSE (CHOOSE c \in here : TRUE).writes]

Entry(n) == EntryOf({c \in committed : c.timestamp = n}, n)

VisibleLog == [n \in 1 .. visible_through |-> Entry(n)]

View ==
  [t \in Txns |-> IF t \in active
                  THEN [k \in Keys |-> Read(k, snapshot[t])] ELSE NoView]

SI == INSTANCE SnapshotIsolation WITH log <- VisibleLog, view <- View

\* Every step of the transaction layer is a step of the snapshot-isolated
\* database or changes nothing a client can see: commits, rebuilds and
\* reclamation leave every open view alone, the log is only ever extended,
\* whole transactions at a time, and first committer wins.
ImplementsSnapshotIsolation == SI!SISpec
=============================================================================
