------------------------------ MODULE MCServer ------------------------------
\* A finite instance of Server.
EXTENDS Server

Sql(statements, parameters) ==
  [parses |-> TRUE, statements |-> statements, parameters |-> parameters]

SomeTexts ==
  {Sql(<<"begin">>, 0), Sql(<<"commit">>, 0), Sql(<<"rollback">>, 0),
   Sql(<<"select">>, 1), Sql(<<"data", "data">>, 0),
   [parses |-> FALSE, statements |-> << >>, parameters |-> 0]}

Message(kind) ==
  [kind |-> kind, name |-> "", portal |-> "", target |-> "S", malformed |-> FALSE,
   values |-> 0, text |-> Sql(<< >>, 0)]

SomeMessages ==
  {Message(k) : k \in {"Q", "B", "D", "E", "C", "H", "S", "X", "length", "other"}}
  \cup {[Message(k) EXCEPT !.text = t] : k \in {"Q", "P"}, t \in SomeTexts}
  \cup {[Message(k) EXCEPT !.target = "P"] : k \in {"D", "C"}}
  \cup {[Message(k) EXCEPT !.malformed = TRUE] : k \in {"P", "C"}}
  \cup {[Message("B") EXCEPT !.values = 1]}

\* One PostgreSQL client talks at length; or one of each kind share the
\* pool; or the v1 clients outnumber their slots.
Budget(v1, pg_, http) ==
  [c \in Conns |-> IF c \in V1 THEN v1 ELSE IF c \in Pg THEN pg_ ELSE http]

SomeBudgets ==
  {Budget(0, 6, 0), Budget(1, 0, 0),
   [Budget(1, 2, 1) EXCEPT ![CHOOSE c \in V1 : TRUE] = 0]}
=============================================================================
