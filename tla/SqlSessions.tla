---------------------------- MODULE SqlSessions ----------------------------
(***************************************************************************)
(* SQL sessions over one database (SqlSession, engine/src/database.rs):    *)
(* explicit transactions, autocommit statements that are re-run on a fresh *)
(* snapshot when they lose a conflict, and what concurrent definition and  *)
(* data statements leave behind in the catalog, the rows, the unique keys  *)
(* and the index entries.                                                  *)
(*                                                                         *)
(* The database below is the one Mvcc promises: a transaction sees the     *)
(* store as of its begin and its own writes, and commits unless a key it   *)
(* wrote was committed since.  The engine never calls protect_scans, so    *)
(* what a transaction only read is not validated.  A statement works on a  *)
(* private view, so it is one step; its commit is another.                 *)
(***************************************************************************)
EXTENDS Tables

CONSTANTS
  Sessions,
  Setups,          \* statement sequences; one has run before the sessions start
  Statements,      \* the data statements clients send
  MaxStatements,   \* how many of them each session sends
  Probes,          \* constants a WHERE clause compares a column with
  Queries          \* SELECT statements whose announced types are checked

ASSUME StatementBound == MaxStatements \in Nat \ {0}

VARIABLES
  store,      \* committed keys and their values
  status,     \* SessionState
  running,    \* {} or {the autocommit statement in progress}
  txn,        \* {} or {the open transaction}, of the session or the attempt
  changed,    \* keys others committed since the transaction began
  left,       \* statements the client may still send
  raced       \* history: ids of indexes whose creation overlapped a writer

vars == <<store, status, running, txn, changed, left, raced>>

Fresh == [view |-> store, written |-> {}, ok |-> TRUE]
Open(s) == CHOOSE tx \in txn[s] : TRUE

RunSetup(setup) ==
  FoldLeft(ExecuteInTransaction,
           [view |-> <<>>, written |-> {}, ok |-> TRUE], setup)

Init ==
  /\ \E setup \in Setups : store = RunSetup(setup).view
  /\ status = [s \in Sessions |-> "idle"]
  /\ running = [s \in Sessions |-> {}]
  /\ txn = [s \in Sessions |-> {}]
  /\ changed = [s \in Sessions |-> {}]
  /\ left = [s \in Sessions |-> MaxStatements]
  /\ raced = {}

(***************************************************************************)
(* The transaction layer.                                                  *)
(***************************************************************************)
BeginAs(s, tx) ==
  /\ txn' = [txn EXCEPT ![s] = {tx}]
  /\ changed' = [changed EXCEPT ![s] = {}]

Drop(s) ==
  /\ txn' = [txn EXCEPT ![s] = {}]
  /\ changed' = [changed EXCEPT ![s] = {}]

Conflicts(s) == Open(s).written \cap changed[s] # {}

\* Whether a set of keys has a row of the table.
TouchesRows(keys, table_id) ==
  \E key \in keys : key[1] = "row" /\ key[2] = table_id

\* Indexes registered by one side of the commit over rows written by the
\* other: created here after others wrote rows, or created by others before
\* rows written here.
RacedBy(s) ==
  LET tx == Open(s)
  IN  {tx.view[key].id : key \in {k \in tx.written \cap DOMAIN tx.view :
         k[1] = "index" /\ TouchesRows(changed[s], tx.view[k].table_id)}}
      \cup
      {store[key].id : key \in {k \in changed[s] \cap DOMAIN store :
         k[1] = "index" /\ TouchesRows(tx.written, store[k].table_id)}}

Publish(s) ==
  LET tx == Open(s)
  IN  /\ store' = Restrict(tx.view, tx.written \cap DOMAIN tx.view)
                    @@ Restrict(store, DOMAIN store \ tx.written)
      /\ txn' = [txn EXCEPT ![s] = {}]
      /\ changed' = [u \in Sessions |->
                       IF u = s \/ txn[u] = {} THEN {}
                       ELSE changed[u] \cup tx.written]
      /\ raced' = raced \cup RacedBy(s)

(***************************************************************************)
(* Statements of an explicit transaction.  What a session refuses (BEGIN   *)
(* unless idle, COMMIT unless active, ROLLBACK when idle) changes nothing. *)
(***************************************************************************)
Ready(s) == running[s] = {}

Begin(s) ==
  /\ Ready(s) /\ status[s] = "idle" /\ left[s] > 0
  /\ status' = [status EXCEPT ![s] = "active"]
  /\ BeginAs(s, Fresh)
  /\ UNCHANGED <<store, running, left, raced>>

\* COMMIT leaves the transaction whether or not it loses a conflict.
Commit(s) ==
  /\ status[s] = "active"
  /\ status' = [status EXCEPT ![s] = "idle"]
  /\ IF Conflicts(s) THEN Drop(s) /\ UNCHANGED <<store, raced>>
     ELSE Publish(s)
  /\ UNCHANGED <<running, left>>

Rollback(s) ==
  /\ status[s] \in {"active", "failed"}
  /\ status' = [status EXCEPT ![s] = "idle"]
  /\ Drop(s)
  /\ UNCHANGED <<store, running, left, raced>>

\* Mutant: the transaction is kept open.
SyntaxErrorKeepsTransaction(s) ==
  /\ status[s] = "active"
  /\ status' = [status EXCEPT ![s] = "failed"]
  /\ UNCHANGED <<store, running, txn, changed, left, raced>>

\* A batch that does not parse fails the transaction.
SyntaxError(s) ==
  /\ status[s] = "active"
  /\ status' = [status EXCEPT ![s] = "failed"]
  /\ Drop(s)
  /\ UNCHANGED <<store, running, left, raced>>

ExecuteDataStatement(s, statement) ==
  /\ status[s] = "active" /\ left[s] > 0
  /\ left' = [left EXCEPT ![s] = @ - 1]
  /\ \E tx \in {ExecuteInTransaction(Open(s), statement)} :
       IF tx.ok
       THEN /\ txn' = [txn EXCEPT ![s] = {tx}]
            /\ UNCHANGED <<status, changed>>
       ELSE Drop(s) /\ status' = [status EXCEPT ![s] = "failed"]
  /\ UNCHANGED <<store, running, raced>>

(***************************************************************************)
(* execute_autocommit.                                                     *)
(***************************************************************************)
StartAutocommit(s, statement) ==
  /\ Ready(s) /\ status[s] = "idle" /\ left[s] > 0
  /\ left' = [left EXCEPT ![s] = @ - 1]
  /\ running' = [running EXCEPT ![s] = {statement}]
  /\ UNCHANGED <<store, status, txn, changed, raced>>

Answer(s) == running' = [running EXCEPT ![s] = {}]

\* One turn of the loop, up to the commit.  An error of the statement itself
\* is returned.
Attempt(s) ==
  /\ running[s] # {} /\ txn[s] = {}
  /\ \E statement \in running[s] :
       \E tx \in {ExecuteInTransaction(Fresh, statement)} :
         IF tx.ok THEN BeginAs(s, tx) /\ UNCHANGED running
         ELSE Answer(s) /\ UNCHANGED <<txn, changed>>
  /\ UNCHANGED <<store, status, left, raced>>

CommitAttempt(s) ==
  /\ running[s] # {} /\ txn[s] # {}
  /\ ~Conflicts(s)
  /\ Publish(s)
  /\ Answer(s)
  /\ UNCHANGED <<status, left>>

\* A conflict is retried, or returned once RETRY_BUDGET has elapsed; when
\* that is depends on the clock.
LoseConflict(s) ==
  /\ running[s] # {} /\ txn[s] # {}
  /\ Conflicts(s)
  /\ Drop(s)
  /\ Answer(s) \/ UNCHANGED running
  /\ UNCHANGED <<store, status, left, raced>>

Next ==
  \E s \in Sessions :
    \/ Begin(s)
    \/ Commit(s)
    \/ Rollback(s)
    \/ SyntaxError(s)
    \/ \E statement \in Statements : ExecuteDataStatement(s, statement)
    \/ \E statement \in Statements : StartAutocommit(s, statement)
    \/ Attempt(s)
    \/ CommitAttempt(s)
    \/ LoseConflict(s)

Spec == Init /\ [][Next]_vars

(***************************************************************************)
(* Properties, of the committed store and of every open transaction's view *)
(* (one that wrote nothing is a store committed earlier).                  *)
(***************************************************************************)
Views ==
  {store} \cup {tx.view : tx \in {x \in UNION {txn[s] : s \in Sessions} : x.written # {}}}

Reading(view) == [view |-> view, written |-> {}, ok |-> TRUE]
TablesOf(view) == {view[key] : key \in {k \in DOMAIN view : k[1] = "table"}}
RowsOf(view, schema) == Under(Reading(view), "row", schema.id)
IndexesOf(view, schema) == Range(LoadTableIndexes(Reading(view), schema.id))
SoundIndexes(view, schema) ==
  {index \in IndexesOf(view, schema) : index.id \notin raced}

\* The sessions are in one of the engine's three states; a transaction is open
\* exactly while a session is active or an attempt is about to commit; nobody
\* conflicts with a transaction that is not open.
TypeOK ==
  \A s \in Sessions :
    /\ status[s] \in {"idle", "active", "failed"}
    /\ running[s] \subseteq Statements /\ Cardinality(running[s]) <= 1
    /\ running[s] # {} => status[s] = "idle"
    /\ status[s] = "active" => Cardinality(txn[s]) = 1
    /\ status[s] # "active" /\ running[s] = {} => txn[s] = {}
    /\ txn[s] = {} => changed[s] = {}
    /\ left[s] \in 0 .. MaxStatements

\* PRIMARY KEY, UNIQUE and unique indexes hold in every view: no two rows have
\* equal values there, and each row lies under its own primary key.  INSERT
\* and UPDATE check against what they read, which may be stale by the time
\* they commit; the write conflicts on row keys, unique keys and entries have
\* to make up for it.
ConstraintsHold ==
  \A view \in Views : \A schema \in TablesOf(view) :
    LET rows == RowsOf(view, schema)
        columns == schema.columns
    IN  /\ \A k, l \in rows : k # l =>
             /\ \A p \in DOMAIN columns :
                  columns[p].unique \/ columns[p].primary_key =>
                    IsNull(view[k][p]) \/ ~SameValue(view[k][p], view[l][p])
             /\ \A index \in SoundIndexes(view, schema) :
                  index.unique /\ Indexed(index, view[k]) =>
                    IndexedValues(index, view[k]) # IndexedValues(index, view[l])
        /\ \A k \in rows : ValidRow(schema, view[k])
        /\ HasPrimaryKey(schema) =>
             \A k \in rows : k[3] = view[k][PrimaryKey(schema)]

\* The unique keys of a table and the entries of an index are exactly those
\* of its rows, each leading to its row: "entries move with their rows".
\* raced indexes are left to the next property.
ExpectedUnique(view, schema) ==
  {<<UniqueKey(schema.id, p, view[k][p]), k>> :
     <<k, p>> \in {kp \in RowsOf(view, schema) \X Range(UniqueColumns(schema)) :
                    ~IsNull(view[kp[1]][kp[2]])}}
ExpectedEntries(view, schema, index) ==
  {<<IndexEntryKey(index, IndexedValues(index, view[k]), k), k>> :
     k \in {key \in RowsOf(view, schema) : Indexed(index, view[key])}}
Stored(view, kind, id) ==
  {<<key, view[key]>> : key \in Under(Reading(view), kind, id)}
EntriesExact ==
  \A view \in Views : \A schema \in TablesOf(view) :
    /\ Stored(view, "unique", schema.id) = ExpectedUnique(view, schema)
    /\ \A index \in SoundIndexes(view, schema) :
         Stored(view, "entry", index.id) = ExpectedEntries(view, schema, index)

\* The same for every index, as docs/execution.md promises for CREATE INDEX.
IndexesExact ==
  \A view \in Views : \A schema \in TablesOf(view) :
    \A index \in IndexesOf(view, schema) :
      Stored(view, "entry", index.id) = ExpectedEntries(view, schema, index)

\* An id is given once: no two tables or indexes share one, counters are
\* ahead of every id in use, and a table without a primary key is ahead of
\* its row ids, so what a race leaves behind never shows up in a new table.
Ids(view, kind) == {view[key].id : key \in {k \in DOMAIN view : k[1] = kind}}
IdsFresh ==
  \A view \in Views :
    LET Catalogued(kind) == {k \in DOMAIN view : k[1] = kind}
    IN  /\ \A kind \in {"table", "index"} :
             Cardinality(Ids(view, kind)) = Cardinality(Catalogued(kind))
        /\ \A key \in DOMAIN view :
             /\ key[1] \in {"row", "unique"} =>
                  key[2] < Counter(Reading(view), TableCounter)
             /\ key[1] = "entry" => key[2] < Counter(Reading(view), IndexCounter)
        /\ \A id \in Ids(view, "table") : id < Counter(Reading(view), TableCounter)
        /\ \A id \in Ids(view, "index") : id < Counter(Reading(view), IndexCounter)
        /\ \A schema \in TablesOf(view) : ~HasPrimaryKey(schema) =>
             \A key \in RowsOf(view, schema) : key[3][2] < schema.next_row_id

\* Whatever path `plan` picks for "column = constant" (row key, unique key,
\* first usable index, scan), it leads to exactly the rows a scan and the
\* predicate would select, each once, and never to a missing row
\* (CorruptRecord in read_rows).
PathsAgree ==
  \A view \in Views : \A schema \in TablesOf(view) :
    IndexesOf(view, schema) = SoundIndexes(view, schema) =>
      \A p \in DOMAIN schema.columns, value \in Probes :
        LET where == BinaryExpr(Column(p), "=", Literal(value))
            column == schema.columns[p]
        IN  IsNull(value) \/ Valid(column, Coerce(value, column.type)) =>
            \A read \in {ReadRows(Reading(view), schema, where)} :
              LET hits == SelectSeq(read.rows,
                                    LAMBDA r : Predicate(where, r.row) = Bool(TRUE))
              IN
              /\ read.ok
              /\ {hits[i].key : i \in DOMAIN hits} =
                   {k \in RowsOf(view, schema) :
                      Predicate(where, view[k]) = Bool(TRUE)}
              /\ Len(hits) = Cardinality({hits[i].key : i \in DOMAIN hits})

\* A SELECT that succeeds returns, in every column it announced
\* (projection_columns, which describe shows a client before any row is
\* read), values of that column's type, and NULL only where it said so.
SelectTyped ==
  \A view \in Views : \A s \in Queries :
    \A result \in {ExecuteSelect(Reading(view), s)} :
      \A i \in DOMAIN result.rows :
        /\ Len(result.rows[i]) = Len(result.columns)
        /\ \A c \in DOMAIN result.columns :
             LET value == result.rows[i][c]
             IN  IF IsNull(value) THEN result.columns[c].nullable
                 ELSE value[1] = result.columns[c].type
=============================================================================
