--------------------------- MODULE MCVersionPages ---------------------------
(***************************************************************************)
(* Instances of VersionPages for TLC.                                      *)
(***************************************************************************)
EXTENDS VersionPages, TLC

CONSTANTS k1, k2, w1, w2, w3

\* w2 may overlap w1 and w3, which overwrite one key and do the same.
Overlap == [writes |-> w1 :> <<k1>> @@ w2 :> <<k2>> @@ w3 :> <<k1>>, deletes |-> {},
            reads |-> {k1}, cache |-> FALSE, max_crashes |-> 0]

\* Every commit writes k1, so no two of them overlap; w2 deletes.  Readers
\* only hold their snapshots.
Restart == [writes |-> [w \in {w1, w2, w3} |-> <<k1>>], deletes |-> {w2},
            reads |-> {}, cache |-> FALSE, max_crashes |-> 1]

\* Commits that fill a page each, so that none grows once it was decoded.
Packed == [writes |-> [w \in {w1, w2, w3} |-> IF w = w2 THEN <<>> ELSE <<k1, k2>>],
           deletes |-> {}, reads |-> {k1}, cache |-> TRUE, max_crashes |-> 0]

SomeLoads == [overlap |-> Overlap, restart |-> Restart, packed |-> Packed]
WriterSymmetry == Permutations({w1, w3})

\* Two commits that may share a page.
Gap == [writes |-> w1 :> <<k1>> @@ w2 :> <<k2>>, deletes |-> {},
        reads |-> {k1}, cache |-> TRUE, max_crashes |-> 1]
GapLoads == [gap |-> Gap]

\* A decode put into the cache after its page has grown.
StaleDecodeLoads == [stale |-> [Overlap EXCEPT !.cache = TRUE]]
=============================================================================
