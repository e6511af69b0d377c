---------------------------- MODULE MCBPlusTree ----------------------------
(***************************************************************************)
(* Instances of BPlusTree for TLC.                                         *)
(***************************************************************************)
EXTENDS BPlusTree

\* Two entries to a leaf, three children to an internal node.
UniformSize == [k \in Keys |-> 1]

\* The third key is as large as a page allows.
OneLargeKey == [k \in Keys |-> IF k = 3 THEN Capacity ELSE 1]
=============================================================================
