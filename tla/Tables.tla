------------------------------- MODULE Tables -------------------------------
(***************************************************************************)
(* What a SQL data statement does to the keys of one transaction           *)
(* (execute_in_transaction, engine/src/database.rs): catalog, rows, unique *)
(* keys and secondary index entries, and the access path a WHERE clause    *)
(* takes through them (access.rs, codec.rs, schema.rs).                    *)
(*                                                                         *)
(* A transaction in progress is [view, written, ok]: what it sees of the   *)
(* database, its own writes included; the keys it has written; and whether *)
(* the statement has succeeded so far.  A key is a tuple that starts with  *)
(* its kind; the encodings of codec.rs are injective and keep the order of *)
(* identities, so a key holds the values themselves.  Columns are named by *)
(* their position.                                                         *)
(***************************************************************************)
EXTENDS Expressions, FiniteSets, SequencesExt

(***************************************************************************)
(* The transaction's own view.                                             *)
(***************************************************************************)
Present(tx, key) == key \in DOMAIN tx.view
Put(tx, key, value) ==
  [tx EXCEPT !.view = (key :> value) @@ @, !.written = @ \cup {key}]
DeleteAll(tx, keys) ==
  [tx EXCEPT !.view = Restrict(@, DOMAIN @ \ keys), !.written = @ \cup keys]
Delete(tx, key) == DeleteAll(tx, {key})
Fail(tx) == [tx EXCEPT !.ok = FALSE]

\* A loop whose body may return an error.
Each(Body(_, _), tx, items) ==
  FoldLeft(LAMBDA t, x : IF t.ok THEN Body(t, x) ELSE t, tx, items)

\* The members of S from the least to the greatest.
Arrange(S, Less(_, _)) ==
  [i \in 1 .. Cardinality(S) |->
     CHOOSE x \in S : Cardinality({y \in S : Less(y, x)}) = i - 1]

(***************************************************************************)
(* Keys.                                                                   *)
(***************************************************************************)
TableCounter == <<"counter", "table">>
IndexCounter == <<"counter", "index">>
CatalogKey(name) == <<"table", name>>
IndexCatalogKey(name) == <<"index", name>>
RowKey(table_id, identity) == <<"row", table_id, identity>>
UniqueKey(table_id, p, value) == <<"unique", table_id, p, value>>

\* A unique index keys on the values alone; a regular one appends the row.
IndexEntryKey(index, values, row_key) ==
  IF index.unique THEN <<"entry", index.id, values>>
  ELSE <<"entry", index.id, values, row_key>>

\* scan_prefix over one kind of key of one table or index, as a set.
Under(tx, kind, id) ==
  {key \in DOMAIN tx.view : key[1] = kind /\ key[2] = id}

Counter(tx, key) == IF Present(tx, key) THEN tx.view[key] ELSE 1

\* Rows come in the order of their identities, which are of one type.
RowOrder(k, l) == k[3][2] < l[3][2]
ScanRows(tx, table_id) == Arrange(Under(tx, "row", table_id), RowOrder)

\* Index entries come in the order of their values, then of their rows.
EntryRank(key) ==
  [i \in DOMAIN key[3] |-> key[3][i][2]]
    \o (IF Len(key) = 4 THEN <<key[4][3][2]>> ELSE <<>>)
EntryOrder(k, l) ==
  \E i \in DOMAIN EntryRank(k) :
    /\ EntryRank(k)[i] < EntryRank(l)[i]
    /\ \A j \in 1 .. i - 1 : EntryRank(k)[j] = EntryRank(l)[j]

(***************************************************************************)
(* Schemas.                                                                *)
(***************************************************************************)
PrimaryKeys(columns) == {p \in DOMAIN columns : columns[p].primary_key}
HasPrimaryKey(schema) == PrimaryKeys(schema.columns) # {}
PrimaryKey(schema) == CHOOSE p \in PrimaryKeys(schema.columns) : TRUE

\* ColumnSchema::validate.
Valid(column, value) ==
  IF IsNull(value) THEN column.nullable
  ELSE /\ value[1] = column.type
       /\ column.type = "text" => value[2] <= column.max_length
ValidRow(schema, row) ==
  \A p \in DOMAIN schema.columns : Valid(schema.columns[p], row[p])

\* Columns whose values are claimed by a unique key.
UniqueColumns(schema) ==
  SelectSeq([p \in DOMAIN schema.columns |-> p],
            LAMBDA p : /\ schema.columns[p].unique
                       /\ ~schema.columns[p].primary_key)

\* validate_unique_values: some row already has the candidate's value in a
\* column that must be unique.
Duplicates(schema, candidate, rows) ==
  \E i \in DOMAIN rows : \E p \in DOMAIN schema.columns :
    /\ schema.columns[p].unique \/ schema.columns[p].primary_key
    /\ ~IsNull(candidate[p])
    /\ SameValue(candidate[p], rows[i][p])

LoadTableIndexes(tx, table_id) ==
  LET names == {key \in DOMAIN tx.view :
                  key[1] = "index" /\ tx.view[key].table_id = table_id}
      ordered == Arrange(names, LAMBDA k, l : k[2] < l[2])
  IN  [i \in DOMAIN ordered |-> tx.view[ordered[i]]]

(***************************************************************************)
(* Index entries and unique keys of one row.                               *)
(***************************************************************************)
IndexedValues(index, row) == [i \in DOMAIN index.columns |-> row[index.columns[i]]]
\* Rows with a NULL in an indexed column are not indexed.
Indexed(index, row) == \A i \in DOMAIN index.columns : ~IsNull(row[index.columns[i]])

AddIndexEntries(tx, indexes, row, row_key) ==
  Each(LAMBDA t, index :
         LET entry == IndexEntryKey(index, IndexedValues(index, row), row_key)
         IN  IF ~Indexed(index, row) THEN t
             ELSE IF index.unique /\ Present(t, entry) THEN Fail(t)
             ELSE Put(t, entry, row_key),
       tx, indexes)

\* Mutant: the entries of a regular index are left behind.
RemoveUniqueEntries(tx, indexes, row, row_key) ==
  Each(LAMBDA t, index :
         IF Indexed(index, row) /\ index.unique
         THEN Delete(t, IndexEntryKey(index, IndexedValues(index, row), row_key))
         ELSE t,
       tx, indexes)

RemoveIndexEntries(tx, indexes, row, row_key) ==
  Each(LAMBDA t, index :
         IF Indexed(index, row)
         THEN Delete(t, IndexEntryKey(index, IndexedValues(index, row), row_key))
         ELSE t,
       tx, indexes)

\* Mutant: the check against the rows just scanned is thought to be enough.
AcquireNothing(tx, schema, row, row_key) == tx

AcquireUniqueKeys(tx, schema, row, row_key) ==
  Each(LAMBDA t, p :
         LET key == UniqueKey(schema.id, p, row[p])
         IN  IF IsNull(row[p]) THEN t
             ELSE IF Present(t, key) THEN Fail(t)
             ELSE Put(t, key, row_key),
       tx, UniqueColumns(schema))

ReleaseUniqueKeys(tx, schema, row) ==
  Each(LAMBDA t, p : IF IsNull(row[p]) THEN t
                     ELSE Delete(t, UniqueKey(schema.id, p, row[p])),
       tx, UniqueColumns(schema))

\* update_unique_keys, one column: claim the new value, then let the old go.
ClaimNew(tx, schema, p, old, new, new_key) ==
  LET key == UniqueKey(schema.id, p, new[p])
  IN  IF IsNull(new[p]) THEN tx
      ELSE IF ~SameValue(old[p], new[p]) /\ Present(tx, key) THEN Fail(tx)
      ELSE Put(tx, key, new_key)
LetOldGo(tx, schema, p, old, new) ==
  IF tx.ok /\ ~SameValue(old[p], new[p]) /\ ~IsNull(old[p])
  THEN Delete(tx, UniqueKey(schema.id, p, old[p])) ELSE tx
UpdateUniqueKeys(tx, schema, old, new, old_key, new_key) ==
  Each(LAMBDA t, p :
         IF SameValue(old[p], new[p]) /\ old_key = new_key THEN t
         ELSE LetOldGo(ClaimNew(t, schema, p, old, new, new_key),
                       schema, p, old, new),
       tx, UniqueColumns(schema))

(***************************************************************************)
(* Access paths (access.rs) and the rows they lead to.                     *)
(***************************************************************************)
NoWhere == [op |-> "none"]

Coerce(value, type) ==
  IF value[1] = "int" /\ type = "float" THEN Float(value[2]) ELSE value

\* equality_column_and_constant.
IsEquality(e) ==
  /\ e.op = "binary" /\ e.of = "="
  /\ \/ e.left.op = "column" /\ IsConstant(e.right)
     \/ e.right.op = "column" /\ IsConstant(e.left)
ProbedColumn(e) == IF e.left.op = "column" THEN e.left.at ELSE e.right.at
ProbedValue(e) == IF e.left.op = "column" THEN e.right ELSE e.left

\* A path is an error, a scan, or the sequence of row keys it names; an index
\* path must find every row it names, a point may find none.
PathError == [kind |-> "error", keys |-> <<>>]
Scan == [kind |-> "scan", keys |-> <<>>]
Point(tx, key) ==
  [kind |-> "point", keys |-> IF Present(tx, key) THEN <<tx.view[key]>> ELSE <<>>]
IndexPrefix(tx, index, value) ==
  LET entries == Arrange({key \in Under(tx, "entry", index.id) :
                            key[3][1] = value}, EntryOrder)
  IN  [kind |-> "index",
       keys |-> [i \in DOMAIN entries |-> tx.view[entries[i]]]]

\* The first index that can answer the equality, if there is one.
ProbeIndex(tx, usable, value) ==
  IF usable = <<>> THEN Scan
  ELSE IF usable[1].unique /\ Len(usable[1].columns) = 1
  THEN Point(tx, <<"entry", usable[1].id, <<value>>>>)
  ELSE IndexPrefix(tx, usable[1], value)

\* Mutant: an index is usable whatever the place of the column in it.
ProbeAnyColumn(tx, schema, p, value) ==
  IF schema.columns[p].primary_key
  THEN [kind |-> "point", keys |-> <<RowKey(schema.id, value)>>]
  ELSE IF schema.columns[p].unique
  THEN Point(tx, UniqueKey(schema.id, p, value))
  ELSE ProbeIndex(tx, SelectSeq(LoadTableIndexes(tx, schema.id),
                                LAMBDA index : p \in Range(index.columns)), value)

\* The path of an equality with a constant that is not NULL.
Probe(tx, schema, p, value) ==
  IF schema.columns[p].primary_key
  THEN [kind |-> "point", keys |-> <<RowKey(schema.id, value)>>]
  ELSE IF schema.columns[p].unique
  THEN Point(tx, UniqueKey(schema.id, p, value))
  ELSE ProbeIndex(tx, SelectSeq(LoadTableIndexes(tx, schema.id),
                                LAMBDA index : index.columns[1] = p), value)

PlanEquality(tx, schema, p, value) ==
  LET probed == Coerce(value, schema.columns[p].type)
  IN  IF value = Error THEN PathError
      ELSE IF IsNull(value) THEN [kind |-> "point", keys |-> <<>>]
      ELSE IF ~Valid(schema.columns[p], probed) THEN PathError
      ELSE Probe(tx, schema, p, probed)

Plan(tx, schema, where) ==
  IF where = NoWhere THEN Scan
  ELSE IF ~IsEquality(where) THEN Scan
  ELSE IF ProbedColumn(where) \notin DOMAIN schema.columns THEN PathError
  ELSE PlanEquality(tx, schema, ProbedColumn(where),
                    Evaluate(ProbedValue(where), <<>>))

\* [ok, rows]: what is found of the rows a path names, each with its key.
Follow(tx, kind, keys) ==
  LET found == SelectSeq(keys, LAMBDA key : Present(tx, key))
  IN  [ok |-> kind # "error" /\ (kind = "index" => found = keys),
       rows |-> [i \in DOMAIN found |->
                   [key |-> found[i], row |-> tx.view[found[i]]]]]
ReadPath(tx, schema, path) ==
  Follow(tx, path.kind, IF path.kind = "scan" THEN ScanRows(tx, schema.id)
                        ELSE path.keys)
ReadRows(tx, schema, where) == ReadPath(tx, schema, Plan(tx, schema, where))

Selected(where, row) ==
  IF where = NoWhere THEN Bool(TRUE) ELSE Predicate(where, row)

(***************************************************************************)
(* Definition statements.                                                  *)
(***************************************************************************)
\* What IF EXISTS and IF NOT EXISTS turn into a success without effect.
Lenient(tx, s) == IF s.lenient THEN tx ELSE Fail(tx)

\* Mutant: the counter stays where it was.
ExecuteCreateTableSameId(tx, s) ==
  LET schema == [id |-> Counter(tx, TableCounter), columns |-> s.columns,
                 next_row_id |-> 1]
  IN  IF Present(tx, CatalogKey(s.table)) THEN Lenient(tx, s)
      ELSE Put(tx, CatalogKey(s.table), schema)

ExecuteCreateTable(tx, s) ==
  LET id == Counter(tx, TableCounter)
      schema == [id |-> id, columns |-> s.columns, next_row_id |-> 1]
  IN  IF Present(tx, CatalogKey(s.table)) THEN Lenient(tx, s)
      ELSE IF Cardinality(PrimaryKeys(s.columns)) > 1 THEN Fail(tx)
      ELSE Put(Put(tx, CatalogKey(s.table), schema), TableCounter, id + 1)

ExecuteDropTable(tx, s) ==
  LET schema == tx.view[CatalogKey(s.table)]
      indexes == {key \in DOMAIN tx.view :
                    key[1] = "index" /\ tx.view[key].table_id = schema.id}
      entries == UNION {Under(tx, "entry", tx.view[key].id) : key \in indexes}
  IN  IF ~Present(tx, CatalogKey(s.table)) THEN Lenient(tx, s)
      ELSE DeleteAll(tx, Under(tx, "row", schema.id)
                         \cup Under(tx, "unique", schema.id)
                         \cup entries \cup indexes \cup {CatalogKey(s.table)})

ExecuteCreateIndex(tx, s) ==
  LET schema == tx.view[CatalogKey(s.table)]
      id == Counter(tx, IndexCounter)
      index == [id |-> id, table_id |-> schema.id, columns |-> s.columns,
                unique |-> s.unique]
      registered == Put(Put(tx, IndexCounter, id + 1),
                        IndexCatalogKey(s.index), index)
  IN  IF Present(tx, IndexCatalogKey(s.index)) THEN Lenient(tx, s)
      ELSE IF ~Present(tx, CatalogKey(s.table)) THEN Fail(tx)
      ELSE IF \/ ~(Range(s.columns) \subseteq DOMAIN schema.columns)
              \/ ~IsInjective(s.columns)
      THEN Fail(tx)
      ELSE Each(LAMBDA t, key : AddIndexEntries(t, <<index>>, t.view[key], key),
                registered, ScanRows(tx, schema.id))

ExecuteDropIndex(tx, s) ==
  LET key == IndexCatalogKey(s.index)
  IN  IF ~Present(tx, key) THEN Lenient(tx, s)
      ELSE DeleteAll(tx, Under(tx, "entry", tx.view[key].id) \cup {key})

(***************************************************************************)
(* INSERT, UPDATE and DELETE.  The loops carry more than the transaction;  *)
(* Close drops what they added.                                            *)
(***************************************************************************)
Close(st) == [view |-> st.view, written |-> st.written, ok |-> st.ok]

\* The values of one VALUES row, evaluated from left to right over what is
\* already there, or Error in a column.
Assemble(schema, positions, expressions) ==
  FoldLeft(LAMBDA row, i :
             [p \in DOMAIN row |->
                IF p # positions[i] THEN row[p]
                ELSE Coerce(Evaluate(expressions[i], row),
                            schema.columns[p].type)],
           [p \in DOMAIN schema.columns |-> Null],
           [i \in DOMAIN positions |-> i])

AppendRow(st, key, row) ==
  IF st.ok THEN [Put(st, key, row) EXCEPT !.fresh = Append(@, row)] ELSE st

InsertRow(st, schema, indexes, existing, row) ==
  LET hidden == ~HasPrimaryKey(schema)
      identity == IF hidden THEN <<"id", st.next_row_id>>
                  ELSE row[PrimaryKey(schema)]
      key == RowKey(schema.id, identity)
      numbered == IF hidden THEN [st EXCEPT !.next_row_id = @ + 1] ELSE st
  IN  IF \/ ~ValidRow(schema, row)
         \/ Duplicates(schema, row, existing \o st.fresh)
         \/ Present(st, key)
      THEN Fail(st)
      ELSE AppendRow(AddIndexEntries(AcquireUniqueKeys(numbered, schema, row, key),
                                     indexes, row, key), key, row)

\* A table without a primary key keeps its next row id in the catalog.
FinishInsert(st, s, schema) ==
  IF st.ok /\ ~HasPrimaryKey(schema)
  THEN Put(st, CatalogKey(s.table), [schema EXCEPT !.next_row_id = st.next_row_id])
  ELSE st

\* s.positions names the columns; <<>> names them all.
ExecuteInsert(tx, s) ==
  LET schema == tx.view[CatalogKey(s.table)]
      positions == IF s.positions = <<>> THEN [p \in DOMAIN schema.columns |-> p]
                   ELSE s.positions
      scanned == ScanRows(tx, schema.id)
      existing == [i \in DOMAIN scanned |-> tx.view[scanned[i]]]
      indexes == LoadTableIndexes(tx, schema.id)
      start == [view |-> tx.view, written |-> tx.written, ok |-> TRUE,
                next_row_id |-> schema.next_row_id, fresh |-> <<>>]
  IN  IF ~Present(tx, CatalogKey(s.table)) THEN Fail(tx)
      ELSE IF \/ ~(Range(positions) \subseteq DOMAIN schema.columns)
              \/ ~IsInjective(positions)
      THEN Fail(tx)
      ELSE Close(FinishInsert(
             Each(LAMBDA st, expressions :
                    IF Len(expressions) # Len(positions) THEN Fail(st)
                    ELSE InsertRow(st, schema, indexes, existing,
                                   Assemble(schema, positions, expressions)),
                  start, s.rows),
             s, schema))

\* Assignments read the original row.
Assign(schema, assignments, original) ==
  FoldLeft(LAMBDA row, a :
             [row EXCEPT ![a.at] = Coerce(Evaluate(a.value, original),
                                          schema.columns[a.at].type)],
           original, assignments)

\* A changed primary key moves the row, onto no other row.
MoveRow(st, i, old_key, new_key) ==
  IF ~st.ok \/ new_key = old_key THEN st
  ELSE IF \/ Present(st, new_key)
          \/ \E j \in DOMAIN st.rows \ {i} : st.rows[j].key = new_key
  THEN Fail(st)
  ELSE Delete(st, old_key)

\* Unique keys, index entries and the row follow the new values.
StoreRow(st, i, key, row) ==
  IF st.ok THEN [Put(st, key, row) EXCEPT !.rows[i] = [key |-> key, row |-> row]]
  ELSE st
ReplaceRow(st, schema, indexes, i, old, new, new_key) ==
  StoreRow(MoveRow(AddIndexEntries(RemoveIndexEntries(
             UpdateUniqueKeys(st, schema, old.row, new, old.key, new_key),
             indexes, old.row, old.key), indexes, new, new_key),
             i, old.key, new_key), i, new_key, new)

UpdateRow(st, schema, indexes, i, new) ==
  IF \/ ~ValidRow(schema, new)
     \/ Duplicates(schema, new, [j \in DOMAIN st.rows \ {i} |-> st.rows[j].row])
  THEN Fail(st)
  ELSE ReplaceRow(st, schema, indexes, i, st.rows[i], new,
                  IF HasPrimaryKey(schema)
                  THEN RowKey(schema.id, new[PrimaryKey(schema)])
                  ELSE st.rows[i].key)

UpdateRows(tx, s, schema, read) ==
  LET indexes == LoadTableIndexes(tx, schema.id)
      start == [view |-> tx.view, written |-> tx.written, ok |-> TRUE,
                rows |-> read.rows]
  IN  IF ~read.ok THEN Fail(tx)
      ELSE Close(Each(LAMBDA st, i :
             LET selected == Selected(s.where, st.rows[i].row)
             IN  IF selected = Error THEN Fail(st)
                 ELSE IF selected = Bool(FALSE) THEN st
                 ELSE UpdateRow(st, schema, indexes, i,
                                Assign(schema, s.assignments, st.rows[i].row)),
             start, [i \in DOMAIN read.rows |-> i]))

ExecuteUpdate(tx, s) ==
  LET schema == tx.view[CatalogKey(s.table)]
      assigned == [i \in DOMAIN s.assignments |-> s.assignments[i].at]
  IN  IF ~Present(tx, CatalogKey(s.table)) THEN Fail(tx)
      ELSE IF \/ ~(Range(assigned) \subseteq DOMAIN schema.columns)
              \/ ~IsInjective(assigned)
      THEN Fail(tx)
      ELSE UpdateRows(tx, s, schema, ReadRows(tx, schema, s.where))

DeleteRows(tx, s, schema, read) ==
  LET indexes == LoadTableIndexes(tx, schema.id)
  IN  IF ~read.ok THEN Fail(tx)
      ELSE Each(LAMBDA t, r :
             LET selected == Selected(s.where, r.row)
             IN  IF ~ValidRow(schema, r.row) \/ selected = Error THEN Fail(t)
                 ELSE IF selected = Bool(FALSE) THEN t
                 ELSE Delete(RemoveIndexEntries(
                               ReleaseUniqueKeys(t, schema, r.row),
                               indexes, r.row, r.key), r.key),
             tx, read.rows)

ExecuteDelete(tx, s) ==
  LET schema == tx.view[CatalogKey(s.table)]
  IN  IF ~Present(tx, CatalogKey(s.table)) THEN Fail(tx)
      ELSE DeleteRows(tx, s, schema, ReadRows(tx, schema, s.where))

(***************************************************************************)
(* SELECT: [ok, columns, rows].  A projection is a sequence of expressions *)
(* and Wildcards.                                                          *)
(***************************************************************************)
Wildcard == [op |-> "*"]
NoLimit == -1

ProjectionColumns(schema, projection) ==
  FlattenSeq([i \in DOMAIN projection |->
    IF projection[i] = Wildcard
    THEN [p \in DOMAIN schema.columns |->
            [type |-> schema.columns[p].type,
             nullable |-> schema.columns[p].nullable]]
    ELSE <<InferType(projection[i], schema.columns)>>])

Project(projection, row) ==
  FlattenSeq([i \in DOMAIN projection |->
    IF projection[i] = Wildcard THEN row
    ELSE <<Evaluate(projection[i], row)>>])

\* compare_sort_values: NULL after every value, floats by total_cmp.
SortRank(value) == IF value[1] = "int" THEN 2 * value[2] ELSE value[2]
SortsBefore(v, w) ==
  \/ ~IsNull(v) /\ IsNull(w)
  \/ ~IsNull(v) /\ ~IsNull(w) /\ SortRank(v) < SortRank(w)

\* compare_order_keys: the first key that tells two rows apart decides.
KeysBefore(k, l, order_by) ==
  \E i \in DOMAIN order_by :
    /\ IF order_by[i].descending THEN SortsBefore(l[i], k[i])
       ELSE SortsBefore(k[i], l[i])
    /\ \A j \in 1 .. i - 1 : ~SortsBefore(k[j], l[j]) /\ ~SortsBefore(l[j], k[j])

\* A stable sort of what the scan collected.
SortedRows(collected, order_by) ==
  LET places == Arrange(DOMAIN collected, LAMBDA i, j :
                  \/ KeysBefore(collected[i].keys, collected[j].keys, order_by)
                  \/ /\ ~KeysBefore(collected[j].keys, collected[i].keys, order_by)
                     /\ i < j)
  IN  [n \in DOMAIN places |-> collected[places[n]]]

Collect(st, projected, keys) ==
  IF Error \in Range(projected) \cup Range(keys) THEN Fail(st)
  ELSE [st EXCEPT !.rows = Append(@, [keys |-> keys, row |-> projected])]

\* Without ORDER BY the scan stops as soon as it has LIMIT rows.
CollectRow(st, s, schema, row) ==
  LET selected == Selected(s.where, row)
  IN  IF s.order_by = <<>> /\ Len(st.rows) = s.limit THEN st
      ELSE IF ~ValidRow(schema, row) \/ selected = Error THEN Fail(st)
      ELSE IF selected = Bool(FALSE) THEN st
      ELSE Collect(st, Project(s.projection, row),
                   [i \in DOMAIN s.order_by |-> Evaluate(s.order_by[i].key, row)])

NoAnswer == [ok |-> FALSE, columns |-> <<>>, rows |-> <<>>]

FirstRows(sorted, limit) ==
  [n \in 1 .. (IF limit = NoLimit \/ limit > Len(sorted) THEN Len(sorted) ELSE limit)
     |-> sorted[n].row]
AnswerRows(st, s, columns) ==
  IF st.ok
  THEN [ok |-> TRUE, columns |-> columns,
        rows |-> FirstRows(SortedRows(st.rows, s.order_by), s.limit)]
  ELSE NoAnswer
SelectRows(s, schema, columns, read) ==
  IF read.ok
  THEN AnswerRows(Each(LAMBDA st, r : CollectRow(st, s, schema, r.row),
                       [ok |-> TRUE, rows |-> <<>>], read.rows), s, columns)
  ELSE NoAnswer

ExecuteSelect(tx, s) ==
  LET schema == tx.view[CatalogKey(s.table)]
      columns == ProjectionColumns(schema, s.projection)
      order_types == [i \in DOMAIN s.order_by |->
                        InferType(s.order_by[i].key, schema.columns)]
  IN  IF ~Present(tx, CatalogKey(s.table)) THEN NoAnswer
      ELSE IF NoType \in Range(columns) \cup Range(order_types) THEN NoAnswer
      ELSE IF s.limit = 0 THEN [ok |-> TRUE, columns |-> columns, rows |-> <<>>]
      ELSE SelectRows(s, schema, columns, ReadRows(tx, schema, s.where))

(***************************************************************************)
(* execute_in_transaction.                                                 *)
(***************************************************************************)
ExecuteInTransaction(tx, s) ==
  CASE s.kind = "create table" -> ExecuteCreateTable(tx, s)
    [] s.kind = "drop table" -> ExecuteDropTable(tx, s)
    [] s.kind = "create index" -> ExecuteCreateIndex(tx, s)
    [] s.kind = "drop index" -> ExecuteDropIndex(tx, s)
    [] s.kind = "insert" -> ExecuteInsert(tx, s)
    [] s.kind = "update" -> ExecuteUpdate(tx, s)
    [] s.kind = "delete" -> ExecuteDelete(tx, s)
    [] s.kind = "select" -> IF ExecuteSelect(tx, s).ok THEN tx ELSE Fail(tx)
    [] OTHER -> Fail(tx)
=============================================================================
