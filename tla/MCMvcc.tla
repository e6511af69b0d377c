------------------------------- MODULE MCMvcc -------------------------------
\* Finite instances of Mvcc.  Keys and transactions are interchangeable, and
\* the only prefix a run scans is the whole key space, so both may be permuted.
EXTENDS MvccRefinement, TLC

Whole == {Keys}
NoScans == {}
KeysAndTxns ==
  {f @@ g : f \in Permutations(Txns), g \in Permutations(Keys)}
=============================================================================
