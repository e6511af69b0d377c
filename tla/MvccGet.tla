------------------------------ MODULE MvccGet -------------------------------
(***************************************************************************)
(* MvccDatabase::get: a read outside any transaction.  It copies the       *)
(* watermark under the state lock, releases the lock, and reads at that    *)
(* timestamp under a second acquisition.  Nothing registers the snapshot   *)
(* in between.                                                             *)
(***************************************************************************)
EXTENDS Mvcc

VARIABLE reader   \* one call of get: where it is, its snapshot, its answer

Reader == [at : {"called", "reading", "returned"}, snapshot : Nat,
           key : Keys, expected : SUBSET Nat, answer : SUBSET Nat]

getVars == <<vars, reader>>

GetInit ==
  /\ Init
  /\ reader \in [at : {"called"}, snapshot : {0}, key : Keys,
                 expected : {{}}, answer : {{}}]

\* `let snapshot = lock_state()?.visible_through;` with, as history, what the
\* committed transactions say the key is at that moment.
GetSnapshot ==
  /\ reader.at = "called"
  /\ reader' = [reader EXCEPT !.at = "reading", !.snapshot = visible_through,
                              !.expected = CommittedAt(reader.key, visible_through)]
  /\ UNCHANGED vars

\* `self.inner.read(key, snapshot)`.
GetRead ==
  /\ reader.at = "reading"
  /\ reader' = [reader EXCEPT !.at = "returned",
                              !.answer = Read(reader.key, reader.snapshot)]
  /\ UNCHANGED vars

GetNext == GetSnapshot \/ GetRead \/ (Next /\ UNCHANGED reader)

GetSpec == GetInit /\ [][GetNext]_getVars

\* The comment on Inner::read: the value a snapshot saw stays reachable, and
\* only a key that truly did not exist at the snapshot is found in neither
\* the map nor a generation.
GetSeesItsSnapshot ==
  reader.at = "returned" => reader.answer = reader.expected
=============================================================================
