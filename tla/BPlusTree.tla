----------------------------- MODULE BPlusTree -----------------------------
(***************************************************************************)
(* The index of QuantaDB: index/src/tree.rs and index/src/node.rs.         *)
(*                                                                         *)
(* A generation is an immutable B+ tree.  The first one is built bottom up *)
(* (`plan`); each later one is the previous tree with a batch of mutations *)
(* applied, every mutation rewriting the path from a leaf to the root      *)
(* (`edit_plan`).  Readers descend (`get`) or walk leaves left to right    *)
(* (`range`).  Here every operation is a function on trees, and the state  *)
(* is the tree and the mapping it should encode.                           *)
(*                                                                         *)
(* Abstractions.  Nodes are never changed once written, so a page ID is    *)
(* identified with the node it names: a child is a node.  What is left of  *)
(* the page format is the size a node takes: the sum of its entries' sizes *)
(* (leaf_entry_size and internal_entry_size agree) against the room a page *)
(* has after its header.                                                   *)
(***************************************************************************)
EXTENDS Integers, FiniteSets, FiniteSetsExt, SequencesExt

CONSTANTS
  Keys,       \* positive numbers, for the order of byte strings
  Values,     \* the page IDs an index entry can hold
  Size,       \* key -> the size of an entry with that key
  Capacity,   \* MAX_PAGE_PAYLOAD less the header
  MaxBatch    \* how many mutations one edit_plan is given at most

ASSUME KeysAssumption == Keys \subseteq Nat \ {0} /\ IsFiniteSet(Keys)
\* validate_entries: an entry larger than a page is refused.
Admitted(k) == Size[k] <= Capacity
ASSUME SizeAssumption ==
  Size \in [Keys -> Nat \ {0}] /\ \A k \in Keys : Admitted(k)
ASSUME MaxBatchAssumption == MaxBatch \in Nat \ {0}

VARIABLES
  root,     \* {} or {[node, height, entries]}: Option<IndexRoot>
  content,  \* history: the mapping, key -> {} or {value}
  failed    \* a plan was refused because a node outgrew its page

vars == <<root, content, failed>>

\* The members of a set of keys in order.
Ascending(S) == SelectSeq([i \in 1 .. Max(Keys) |-> i], LAMBDA i : i \in S)

(***************************************************************************)
(* Nodes.                                                                  *)
(***************************************************************************)
Leaf(entries) == [level |-> 0, entries |-> entries, separators |-> <<>>,
                  children |-> <<>>]

\* An internal node names its first child without a key.
Internal(level, group) ==
  [level |-> level, entries |-> <<>>,
   separators |-> [i \in 1 .. Len(group) - 1 |-> group[i + 1].first_key],
   children |-> [i \in 1 .. Len(group) |-> group[i].node]]

SizeOf(keys) == FoldLeft(LAMBDA sum, k : sum + Size[k], 0, keys)

\* Node::encode's only refusal.
Fits(node) ==
  SizeOf([i \in DOMAIN node.entries |-> node.entries[i].key] \o node.separators)
    <= Capacity

RECURSIVE Nodes(_)
Nodes(node) ==
  {node} \cup UNION {Nodes(node.children[i]) : i \in DOMAIN node.children}

\* partition_by and partition_internal: each group takes as many as fit; the
\* first of an internal group costs nothing.
RECURSIVE Partition(_, _)
Partition(keys, free) ==
  IF keys = <<>> THEN <<>>
  ELSE LET ends == {e \in 1 .. Len(keys) :
                      SizeOf(SubSeq(keys, 1 + free, e)) <= Capacity}
           end  == CHOOSE e \in ends : \A f \in ends : f <= e
       IN  <<end>> \o Partition(SubSeq(keys, end + 1, Len(keys)), free)

\* Cut s into consecutive pieces of the given lengths.
RECURSIVE Cut(_, _)
Cut(s, lengths) ==
  IF lengths = <<>> THEN <<>>
  ELSE <<SubSeq(s, 1, Head(lengths))>>
         \o Cut(SubSeq(s, Head(lengths) + 1, Len(s)), Tail(lengths))

\* The leaves for a run of entries, as children of the level above.
MakeLeaves(entries) ==
  LET pieces == Cut(entries, Partition([i \in DOMAIN entries |-> entries[i].key], 0))
  IN  [i \in DOMAIN pieces |-> [first_key |-> pieces[i][1].key, node |-> Leaf(pieces[i])]]

\* Mutant: all children go into one node.
MakeInternalLevelWhole(level, children) ==
  << [first_key |-> children[1].first_key, node |-> Internal(level, children)] >>

MakeInternalLevel(level, children) ==
  LET pieces == Cut(children, Partition([i \in DOMAIN children |-> children[i].first_key], 1))
  IN  [i \in DOMAIN pieces |-> [first_key |-> pieces[i][1].first_key,
                                node |-> Internal(level, pieces[i])]]

(***************************************************************************)
(* plan: a tree from ordered entries, level by level.                      *)
(***************************************************************************)
RECURSIVE Stack(_, _)
Stack(level, children) ==
  IF Len(children) = 1 THEN [node |-> children[1].node, height |-> level + 1]
  ELSE Stack(level + 1, MakeInternalLevel(level + 1, children))

Plan(entries) ==
  IF entries = <<>> THEN {}
  ELSE LET top == Stack(0, MakeLeaves(entries))
       IN  {[node |-> top.node, height |-> top.height, entries |-> Len(entries)]}

(***************************************************************************)
(* edit_plan: one mutation after the other, each copying a path.           *)
(***************************************************************************)
RECURSIVE FirstKey(_)
FirstKey(node) ==
  IF node.level = 0 THEN node.entries[1].key ELSE FirstKey(node.children[1])

\* The children of an internal node with the keys they are filed under; the
\* first one has the key its parent knows the whole node by.
ChildrenOf(node, first_key) ==
  [i \in DOMAIN node.children |->
     [first_key |-> IF i = 1 THEN first_key ELSE node.separators[i - 1],
      node |-> node.children[i]]]

\* Mutant: a child's own first key is looked for to the left of it.
ChildForLeft(children, key) ==
  LET below == {i \in DOMAIN children : children[i].first_key < key}
  IN  IF below = {} THEN 1 ELSE CHOOSE i \in below : \A j \in below : j <= i

\* The last child not above the key, or the first when all are.
ChildFor(children, key) ==
  LET below == {i \in DOMAIN children : children[i].first_key <= key}
  IN  IF below = {} THEN 1 ELSE CHOOSE i \in below : \A j \in below : j <= i

\* A leaf's entries with the key set to value ({} removes it).
Edited(entries, key, value) ==
  SelectSeq(entries, LAMBDA e : e.key < key)
    \o (IF value = {} THEN <<>> ELSE << [key |-> key, value |-> CHOOSE v \in value : TRUE] >>)
    \o SelectSeq(entries, LAMBDA e : e.key > key)

\* What takes a node's place among its parent's children.
RECURSIVE Replacement(_, _, _, _)
Spliced(node, first_key, key, value) ==
  LET children == ChildrenOf(node, first_key)
      at       == ChildFor(children, key)
  IN  SubSeq(children, 1, at - 1)
        \o Replacement(children[at].node, children[at].first_key, key, value)
        \o SubSeq(children, at + 1, Len(children))

Replacement(node, first_key, key, value) ==
  IF node.level = 0 THEN MakeLeaves(Edited(node.entries, key, value))
  ELSE LET spliced == Spliced(node, first_key, key, value)
       IN  IF spliced = <<>> THEN <<>> ELSE MakeInternalLevel(node.level, spliced)

\* The leaf a key belongs to, as `apply` finds it.
RECURSIVE LeafFor(_, _, _)
LeafFor(node, first_key, key) ==
  IF node.level = 0 THEN node
  ELSE LET children == ChildrenOf(node, first_key)
           at       == ChildFor(children, key)
       IN  LeafFor(children[at].node, children[at].first_key, key)

Holds(leaf, key) == \E i \in DOMAIN leaf.entries : leaf.entries[i].key = key

\* Mutant: a root that keeps one child keeps its height too.
ShrunkNever(top, spliced) == 0

\* Mutant: any root replaced by one node costs a level, a leaf too.
ShrunkLeaf(top, spliced) == IF Len(spliced) = 1 THEN 1 ELSE 0

\* A root left with one child gives way to it: the tree loses a level.
Shrunk(top, spliced) == IF top.level > 0 /\ Len(spliced) = 1 THEN 1 ELSE 0

\* Editor::apply on a tree that has a root.
ApplyTo(r, key, value) ==
  LET top     == r.node
      present == Holds(LeafFor(top, FirstKey(top), key), key)
      spliced == IF top.level = 0 THEN MakeLeaves(Edited(top.entries, key, value))
                 ELSE Spliced(top, FirstKey(top), key, value)
      height  == r.height - Shrunk(top, spliced)
      above   == IF top.level = 0 \/ Len(spliced) <= 1 THEN spliced
                 ELSE MakeInternalLevel(top.level, spliced)
      count   == CASE present /\ value = {}   -> r.entries - 1
                   [] ~ present /\ value # {} -> r.entries + 1
                   [] OTHER                   -> r.entries
  IN  IF ~ present /\ value = {} THEN {r}
      ELSE CASE Len(above) = 0 -> {}
             [] Len(above) = 1 -> {[node |-> above[1].node, height |-> height,
                                    entries |-> count]}
             [] OTHER -> {[node |-> Internal(height, above), height |-> height + 1,
                           entries |-> count]}

\* Editor::apply.
Apply(tree, key, value) ==
  IF tree # {} THEN UNION {ApplyTo(r, key, value) : r \in tree}
  ELSE IF value = {} THEN {}
  ELSE {[node |-> Leaf(Edited(<<>>, key, value)), height |-> 1, entries |-> 1]}

\* edit_plan on a batch: a function from the mutated keys to their values.
EditPlan(tree, batch) ==
  FoldLeft(LAMBDA acc, k : Apply(acc, k, batch[k]), tree,
           Ascending(DOMAIN batch))

(***************************************************************************)
(* Reads.                                                                  *)
(***************************************************************************)
\* What a read returns when a node is not at the level it expects.
CorruptNode == {-1}

\* Mutant: a key equal to a separator is looked for to the left of it.
BranchLeft(node, key) ==
  1 + Cardinality({i \in DOMAIN node.separators : node.separators[i] < key})

\* `separators.partition_point(|s| s <= key)`: which child to descend to.
Branch(node, key) ==
  1 + Cardinality({i \in DOMAIN node.separators : node.separators[i] <= key})

\* BPlusTree::get.
RECURSIVE GetFrom(_, _, _)
GetFrom(node, expected_level, key) ==
  IF node.level # expected_level THEN CorruptNode
  ELSE IF node.level = 0
       THEN {node.entries[i].value : i \in {j \in DOMAIN node.entries : node.entries[j].key = key}}
       ELSE GetFrom(node.children[Branch(node, key)], expected_level - 1, key)

Get(tree, key) == UNION {GetFrom(r.node, r.height - 1, key) : r \in tree}

\* descend_to_leaf and advance_to_next_leaf: the entries of the leaf for the
\* start key and of all leaves after it, left to right.  (Their checks that a
\* node is at the level expected are those of get.)
RECURSIVE EntriesFrom(_, _)
EntriesFrom(node, start) ==
  IF node.level = 0 THEN node.entries
  ELSE LET at == Branch(node, start)
       IN  EntriesFrom(node.children[at], start)
             \o FlattenSeq([i \in 1 .. Len(node.children) - at |->
                              EntriesFrom(node.children[at + i], 0)])

\* BPlusTree::range over [start, end), where 0 is the empty key that stands
\* for no start, and no end is a key above all.
RangeScan(tree, start, end, limit) ==
  IF limit = 0 \/ start >= end THEN <<>>
  ELSE LET walked == FlattenSeq([i \in 1 .. Cardinality(tree) |->
                       EntriesFrom((CHOOSE r \in tree : TRUE).node, start)])
           within == SelectSeq(walked, LAMBDA e : start <= e.key /\ e.key < end)
       IN  SubSeq(within, 1, IF Len(within) < limit THEN Len(within) ELSE limit)

(***************************************************************************)
(* Generations.                                                            *)
(***************************************************************************)
Option == {{}} \cup {{v} : v \in Values}

EntriesOf(mapping) ==
  LET keys == Ascending({k \in Keys : mapping[k] # {}})
  IN  [i \in DOMAIN keys |->
         [key |-> keys[i], value |-> CHOOSE v \in mapping[keys[i]] : TRUE]]

\* The first generation is bulk-built from what is live.
Init ==
  /\ content \in [Keys -> Option]
  /\ root = Plan(EntriesOf(content))
  /\ failed = FALSE

Batches == UNION {[S -> Option] : S \in {T \in SUBSET Keys : Cardinality(T) \in 1 .. MaxBatch}}

AllFit(tree) == \A r \in tree : \A node \in Nodes(r.node) : Fits(node)

\* A later generation; it is not published when a node cannot be encoded.
Edit(batch) ==
  \E edited \in {EditPlan(root, batch)} :
    IF AllFit(edited)
    THEN /\ root' = edited
         /\ content' = [k \in Keys |-> IF k \in DOMAIN batch THEN batch[k] ELSE content[k]]
         /\ UNCHANGED failed
    ELSE failed' = TRUE /\ UNCHANGED <<root, content>>

Next == \E batch \in Batches : Edit(batch)

Spec == Init /\ [][Next]_vars

(***************************************************************************)
(* Properties.                                                             *)
(***************************************************************************)
\* Every variable has its type: there is at most one root, whose height and
\* count are positive, so that height - 1 is a level (IndexRoot); whether they
\* are the tree's is ShapeSound.
TypeOK ==
  /\ content \in [Keys -> Option]
  /\ failed \in BOOLEAN
  /\ Cardinality(root) <= 1
  /\ \A r \in root : r.height \in Nat \ {0} /\ r.entries \in Nat \ {0}

\* get finds exactly what is indexed: whatever splits, removed leaves and
\* shrunk roots a sequence of edits produced, every key is where the
\* separators lead.
LookupExact == \A k \in Keys : Get(root, k) = content[k]

Limits == 0 .. Cardinality(Keys)
Ends == Keys \cup {Max(Keys) + 1}

\* range returns, for any bounds and limit, the indexed entries between them
\* in order, the first `limit` of them.
RangeExact ==
  \A start \in Keys \cup {0}, end \in Ends, limit \in Limits :
    LET due == SelectSeq(EntriesOf(content), LAMBDA e : start <= e.key /\ e.key < end)
    IN  RangeScan(root, start, end, limit) =
          IF start >= end THEN <<>>
          ELSE SubSeq(due, 1, IF Len(due) < limit THEN Len(due) ELSE limit)

\* Every node of a published tree fits its page, no leaf is empty, children
\* are one level down and every separator is the least key below it; the
\* root's count is the number of entries.
ShapeSound ==
  \A r \in root :
    /\ r.node.level = r.height - 1
    /\ r.entries = Len(EntriesOf(content))
    /\ \A node \in Nodes(r.node) :
         /\ Fits(node)
         /\ IF node.level = 0 THEN node.entries # <<>>
            ELSE Len(node.children) = Len(node.separators) + 1
         /\ \A i \in DOMAIN node.children :
              /\ node.children[i].level = node.level - 1
              /\ i > 1 => FirstKey(node.children[i]) = node.separators[i - 1]

\* No entry takes more than half a page, so a leaf that outgrows its page
\* splits in two.
HalfPageEntries == \A k \in Keys : 2 * Size[k] <= Capacity

\* Entries of at most half a page can always be indexed: no sequence of edits
\* leaves a node that does not fit its page, although `apply` puts whatever
\* replaces the root under a new root without partitioning it (tree.rs:441).
EditsSucceed == HalfPageEntries => ~ failed
====
