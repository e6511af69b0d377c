----------------------------- MODULE PgProtocol -----------------------------
(***************************************************************************)
(* What one connection of the PostgreSQL front end does with a message:    *)
(* server/src/pg.rs, on top of the session of engine/src/database.rs.      *)
(*                                                                         *)
(* A text of SQL is what the server can tell of it: whether it parses, the *)
(* statements it holds and how many parameters it takes.  A reply is its   *)
(* message type; the rows of a statement and its completion tag are one    *)
(* "C".  What a data statement meets in the tables is a choice (the SQL    *)
(* engine has a model of its own), so a handler is a set of outcomes.      *)
(***************************************************************************)
EXTENDS Integers, Sequences, SequencesExt

CONSTANTS
  Names,   \* names of prepared statements and portals
  Texts    \* SQL texts: parses, statements, parameters

Statuses == {"Idle", "InTransaction", "Failed"}

(***************************************************************************)
(* SqlSession::execute.                                                    *)
(***************************************************************************)
Succeed(r, status) == [r EXCEPT !.status = status, !.outputs = Append(@, "C")]
Refuse(r, status) == [r EXCEPT !.status = status, !.failed = TRUE]

\* execute_statement.
ExecuteStatement(r, statement) ==
  CASE statement = "begin" ->
         IF r.status = "Idle" THEN {Succeed(r, "InTransaction")} ELSE {Refuse(r, r.status)}
    [] statement = "commit" ->
         IF r.status = "InTransaction" THEN {Succeed(r, "Idle"), Refuse(r, "Idle")}
         ELSE {Refuse(r, r.status)}
    [] statement = "rollback" ->
         IF r.status = "Idle" THEN {Refuse(r, "Idle")} ELSE {Succeed(r, "Idle")}
    [] OTHER ->
         CASE r.status = "Idle"          -> {Succeed(r, "Idle"), Refuse(r, "Idle")}
           [] r.status = "InTransaction" -> {Succeed(r, "InTransaction"), Refuse(r, "Failed")}
           [] r.status = "Failed"        -> {Refuse(r, "Failed")}

\* The statements one after the other until one fails; then the outputs of
\* the earlier ones are lost, though not what they did.
Execute(status, text) ==
  LET fresh == [status |-> status, failed |-> FALSE, outputs |-> << >>]
      step(R, statement) ==
        UNION {IF r.failed THEN {r} ELSE ExecuteStatement(r, statement) : r \in R}
  IN  IF text.parses THEN FoldLeft(step, {fresh}, text.statements)
      ELSE {Refuse(fresh, IF status = "InTransaction" THEN "Failed" ELSE status)}

\* SqlSession::describe: the columns of a single SELECT, if its table is
\* there, and nothing for the rest.
Describe(text) ==
  IF ~ text.parses THEN {"E"}
  ELSE IF text.statements = <<"select">> THEN {"T", "E"} ELSE {"n"}

(***************************************************************************)
(* ExtendedState, and the replies since the client was last told that the  *)
(* server is ready, that notice included.                                  *)
(***************************************************************************)
NoText == [parses |-> FALSE, statements |-> << >>, parameters |-> -1]

NewConnection ==
  [statements |-> [n \in Names |-> NoText], portals |-> [n \in Names |-> NoText],
   skip_until_sync |-> FALSE, segment |-> << >>, status |-> "Idle", open |-> TRUE]

IsReady(segment) == segment # << >> /\ Last(segment) = "Z"

Write(x, replies) ==
  [x EXCEPT !.segment = IF IsReady(@) /\ replies # << >> THEN replies ELSE @ \o replies]

Close(x) == [x EXCEPT !.open = FALSE, !.status = "none"]

\* Mutant: the error is sent and the rest of the sequence goes on.
ExtendedErrorGoesOn(x, replies) == Write(x, Append(replies, "E"))

\* send_error, and skip what follows until Sync.
ExtendedError(x, replies) ==
  [Write(x, Append(replies, "E")) EXCEPT !.skip_until_sync = TRUE]

RunSimpleQuery(x, text) ==
  IF text.parses /\ text.statements = << >> THEN {Write(x, <<"I", "Z">>)}
  ELSE {[Write(x, IF r.failed THEN <<"E", "Z">> ELSE Append(r.outputs, "Z"))
           EXCEPT !.status = r.status] : r \in Execute(x.status, text)}

HandleParse(x, m) ==
  IF m.malformed THEN {ExtendedError(x, << >>)}
  ELSE {[Write(x, <<"1">>) EXCEPT !.statements[m.name] = m.text]}

\* The portal keeps its own copy of the statement, values filled in.
HandleBind(x, m) ==
  IF m.malformed \/ x.statements[m.name].parameters # m.values
  THEN {ExtendedError(x, << >>)}
  ELSE {[Write(x, <<"2">>) EXCEPT !.portals[m.portal] = x.statements[m.name]]}

\* A statement's parameters are described before its columns.
HandleDescribe(x, m) ==
  LET text   == IF m.target = "S" THEN x.statements[m.name] ELSE x.portals[m.name]
      before == IF m.target = "S" THEN <<"t">> ELSE << >>
  IN  IF m.malformed \/ text = NoText THEN {ExtendedError(x, << >>)}
      ELSE {IF d = "E" THEN ExtendedError(x, before) ELSE Write(x, Append(before, d)) :
              d \in Describe(text)}

HandleExecute(x, m) ==
  IF m.malformed \/ x.portals[m.name] = NoText THEN {ExtendedError(x, << >>)}
  ELSE {[(IF r.failed THEN ExtendedError(x, << >>) ELSE Write(x, r.outputs))
           EXCEPT !.status = r.status] : r \in Execute(x.status, x.portals[m.name])}

\* handle_close does not mind what it cannot read or find.
HandleClose(x, m) ==
  LET y == Write(x, <<"3">>)
  IN  {CASE m.malformed     -> y
         [] m.target = "S"  -> [y EXCEPT !.statements[m.name] = NoText]
         [] OTHER           -> [y EXCEPT !.portals[m.name] = NoText]}

\* One turn of run_connection.
HandleMessage(x, m) ==
  CASE m.kind = "length" -> {Close(Write(x, <<"E">>))}
    [] m.kind # "length" /\ x.skip_until_sync /\ m.kind \notin {"S", "X"} -> {x}
    [] m.kind = "X" -> {Close(x)}
    [] m.kind = "S" -> {[Write(x, <<"Z">>) EXCEPT !.skip_until_sync = FALSE]}
    [] OTHER ->
         CASE m.kind = "Q" -> RunSimpleQuery(x, m.text)
           [] m.kind = "P" -> HandleParse(x, m)
           [] m.kind = "B" -> HandleBind(x, m)
           [] m.kind = "D" -> HandleDescribe(x, m)
           [] m.kind = "E" -> HandleExecute(x, m)
           [] m.kind = "C" -> HandleClose(x, m)
           [] m.kind = "H" -> {x}
           [] OTHER        -> {Write(x, <<"E", "Z">>)}
=============================================================================
