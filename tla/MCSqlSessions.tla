--------------------------- MODULE MCSqlSessions ---------------------------
(***************************************************************************)
(* Instances of SqlSessions for TLC.  Table and index names are numbers in *)
(* catalog order.                                                          *)
(***************************************************************************)
EXTENDS SqlSessions

IntColumn == [type |-> "int", nullable |-> TRUE, primary_key |-> FALSE,
              unique |-> FALSE, max_length |-> 0]
KeyColumn == [IntColumn EXCEPT !.primary_key = TRUE, !.nullable = FALSE]
UniqueColumn == [IntColumn EXCEPT !.unique = TRUE]

\* t (id BIGINT PRIMARY KEY, u BIGINT UNIQUE, v BIGINT)
Keyed == <<KeyColumn, UniqueColumn, IntColumn>>
\* The same without a primary key: rows have hidden ids.
Hidden == <<IntColumn, UniqueColumn, IntColumn>>

Is(p, n) == BinaryExpr(Column(p), "=", Literal(IntVal(n)))
Plus(p, n) == BinaryExpr(Column(p), "+", Literal(IntVal(n)))
Ints(ns) == [i \in DOMAIN ns |-> Literal(IF ns[i] = 0 THEN Null ELSE IntVal(ns[i]))]

CreateTable(columns) ==
  [kind |-> "create table", table |-> 1, columns |-> columns, lenient |-> FALSE]
DropTable == [kind |-> "drop table", table |-> 1, lenient |-> FALSE]
CreateIndex(name, columns, unique) ==
  [kind |-> "create index", index |-> name, table |-> 1, columns |-> columns,
   unique |-> unique, lenient |-> FALSE]
DropIndex(name) == [kind |-> "drop index", index |-> name, lenient |-> TRUE]
Insert(rows) ==
  [kind |-> "insert", table |-> 1, positions |-> <<>>,
   rows |-> [i \in DOMAIN rows |-> Ints(rows[i])]]
Update(p, value, where) ==
  [kind |-> "update", table |-> 1,
   assignments |-> <<[at |-> p, value |-> value]>>, where |-> where]
DeleteFrom(where) == [kind |-> "delete", table |-> 1, where |-> where]
Select(projection, where, order_by, limit) ==
  [kind |-> "select", table |-> 1, projection |-> projection, where |-> where,
   order_by |-> order_by, limit |-> limit]

(***************************************************************************)
(* Two rows; primary keys move, unique values change hands, an index is    *)
(* created and dropped under way.                                          *)
(***************************************************************************)
KeyedSetup == <<CreateTable(Keyed), Insert(<< <<1, 1, 1>>, <<3, 3, 0>> >>)>>
IndexedSetup == KeyedSetup \o <<CreateIndex(1, <<3, 1>>, FALSE),
                                CreateIndex(2, <<3>>, TRUE)>>
HiddenSetup == <<CreateTable(Hidden), Insert(<< <<1, 1, 1>>, <<3, 3, 0>> >>)>>

DataStatements ==
  {Insert(<< <<2, 2, 1>>, <<4, 0, 2>> >>),
   Insert(<< <<2, 1, 2>> >>),
   Update(1, Plus(1, 1), NoWhere),
   Update(2, Literal(IntVal(2)), Is(3, 1)),
   Update(3, Plus(3, 1), Is(1, 1)),
   DeleteFrom(Is(2, 1)),
   CreateIndex(1, <<3, 1>>, FALSE),
   CreateIndex(2, <<3>>, TRUE),
   DropIndex(1),
   DropTable,
   CreateTable(Keyed)}

\* SELECT *, v + 1, u IS NULL FROM t ORDER BY u DESC LIMIT 2
\* SELECT v = 1 AND u IS NOT NULL, -v FROM t WHERE v = 1
SomeQueries ==
  {Select(<<Wildcard, Plus(3, 1), IsNullExpr(Column(2), FALSE)>>, NoWhere,
          <<[key |-> Column(2), descending |-> TRUE]>>, 2),
   Select(<<BinaryExpr(Is(3, 1), "and", IsNullExpr(Column(2), TRUE)),
            UnaryExpr("minus", Column(3))>>, Is(3, 1), <<>>, NoLimit)}
SomeProbes == {Null, IntVal(1), IntVal(2)}

\* An index whose second column may be NULL.
NullableSetups == {KeyedSetup}
NullableStatements ==
  {Insert(<< <<4, 0, 2>> >>), CreateIndex(1, <<3, 2>>, FALSE)}

\* An index created while another session inserts.
RaceSetups == {KeyedSetup}
RaceStatements ==
  {Insert(<< <<2, 2, 1>> >>), CreateIndex(1, <<3, 1>>, FALSE)}

\* t (id BIGINT PRIMARY KEY, u DOUBLE UNIQUE, v BIGINT) with zeros of both
\* signs in u.
ZeroSetups ==
  {<<CreateTable(<<KeyColumn, [UniqueColumn EXCEPT !.type = "float"],
                   IntColumn>>), Insert(<< <<2, 1, 0>> >>)>>}
ZeroStatements ==
  {[Insert(<<>>) EXCEPT !.rows =
      << <<Literal(IntVal(1)), UnaryExpr("minus", Literal(Float(0))),
           Literal(Null)>> >>],
   Update(2, Literal(Float(0)), Is(1, 2))}
ZeroProbes == {Float(0)}

AllSetups == {IndexedSetup, HiddenSetup}
SessionSymmetry == Permutations(Sessions)
=============================================================================
