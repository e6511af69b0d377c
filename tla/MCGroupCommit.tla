--------------------------- MODULE MCGroupCommit ---------------------------
\* A finite instance of GroupCommit.
EXTENDS GroupCommit

\* One of each kind of call, with enough pages that a group can mix both
\* lists, overshoot its limit, and be led by a relaxed batch.
SomeOperations ==
  {[kind |-> "commit", pages |-> 2], [kind |-> "relaxed", pages |-> 1],
   [kind |-> "append", pages |-> 1], [kind |-> "checkpoint", pages |-> 0]}
=============================================================================
