---------------------------- MODULE Expressions ----------------------------
(***************************************************************************)
(* SQL values and expressions (engine/src/value.rs, expression.rs): three- *)
(* valued logic, comparison, checked arithmetic, and the type and          *)
(* nullability infer_type announces for an expression before any row is    *)
(* read.                                                                   *)
(*                                                                         *)
(* A value is a pair of its type and a number.  A float is known by the    *)
(* place of its bits in total_cmp order: the float n is 2n and -0.0 is -1, *)
(* just below 0.0, so equal numbers may be different values.  Floats are   *)
(* whole; a quotient is cut.  A text is known by its length.               *)
(***************************************************************************)
EXTENDS Integers, Sequences

CONSTANT MaxInt    \* i64::MAX, and the largest finite float

ASSUME MaxIntAssumption == MaxInt \in Nat \ {0}

Null == <<"null", 0>>
\* The Err of an evaluation; no row ever holds it.
Error == <<"error", 0>>
IntVal(n) == <<"int", n>>
Text(n) == <<"text", n>>
Bool(b) == <<"bool", IF b THEN 1 ELSE 0>>
Float(n) == <<"float", 2 * n>>
NegativeZero == <<"float", -1>>

IsNull(v) == v = Null
Number(v) == IF v[1] = "float" THEN (v[2] + 1) \div 2 ELSE v[2]
Negative(v) == v[2] < 0

\* Value: PartialEq, under which -0.0 is 0.0.
SameValue(v, w) == v[1] = w[1] /\ Number(v) = Number(w)

(***************************************************************************)
(* Operators on values.                                                    *)
(***************************************************************************)
Logic == {"and", "or"}
Comparisons == {"=", "<>", "<", "<=", ">", ">="}
Arithmetic == {"+", "-", "*", "/", "%"}

Fits(n) == n \in (- MaxInt - 1) .. MaxInt
\* A float beyond the largest finite one is infinite.
Finite(n) == n \in (- MaxInt) .. MaxInt

Magnitude(n) == IF n < 0 THEN - n ELSE n
\* Division that rounds towards zero.
Quotient(a, b) ==
  LET q == Magnitude(a) \div Magnitude(b)
  IN  IF (a < 0) = (b < 0) THEN q ELSE - q

Compute(operator, a, b) ==
  CASE operator = "+" -> a + b
    [] operator = "-" -> a - b
    [] operator = "*" -> a * b
    [] operator = "/" -> Quotient(a, b)
    [] operator = "%" -> a - b * Quotient(a, b)

\* Whether a zero result is -0.0.
ZeroIsNegative(operator, v, w) ==
  CASE operator = "+" -> Negative(v) /\ Negative(w) /\ Number(v) = 0
    [] operator = "-" -> Negative(v) /\ ~Negative(w) /\ Number(v) = 0
    [] operator = "%" -> Negative(v)
    [] OTHER -> Negative(v) # Negative(w)

Divides(operator) == operator \in {"/", "%"}

IntArithmetic(operator, a, b) ==
  IF \/ Divides(operator) /\ b = 0
     \/ Divides(operator) /\ ~Fits(Quotient(a, b))
     \/ ~Fits(Compute(operator, a, b))
  THEN Error ELSE IntVal(Compute(operator, a, b))

FloatResult(n, zero_is_negative) ==
  IF ~Finite(n) THEN Error
  ELSE IF n = 0 /\ zero_is_negative THEN NegativeZero ELSE Float(n)
FloatArithmetic(operator, v, w) ==
  IF Divides(operator) /\ Number(w) = 0 THEN Error
  ELSE FloatResult(Compute(operator, Number(v), Number(w)),
                   ZeroIsNegative(operator, v, w))

Numeric == {"int", "float"}

ArithmeticOf(operator, v, w) ==
  IF v[1] = "int" /\ w[1] = "int" THEN IntArithmetic(operator, v[2], w[2])
  ELSE IF {v[1], w[1]} \subseteq Numeric THEN FloatArithmetic(operator, v, w)
  ELSE Error

Compare(operator, v, w) ==
  IF v[1] # w[1] /\ ~({v[1], w[1]} \subseteq Numeric) THEN Error
  ELSE LET a == Number(v)
           b == Number(w)
       IN  Bool(CASE operator = "="  -> a = b
                  [] operator = "<>" -> a # b
                  [] operator = "<"  -> a < b
                  [] operator = "<=" -> a <= b
                  [] operator = ">"  -> a > b
                  [] operator = ">=" -> a >= b)

\* AND and OR of three truth values; FALSE decides AND, TRUE decides OR.
BooleanLogic(operator, v, w) ==
  LET decides == Bool(operator = "or")
  IN  IF ~({v[1], w[1]} \subseteq {"bool", "null"}) THEN Error
      ELSE IF decides \in {v, w} THEN decides
      ELSE IF Null \in {v, w} THEN Null
      ELSE Bool(operator = "and")

Unary(operator, v) ==
  IF v \in {Null, Error} THEN v
  ELSE CASE operator = "not" /\ v[1] = "bool" -> Bool(v[2] = 0)
         [] operator = "plus" /\ v[1] \in Numeric -> v
         [] operator = "minus" /\ v[1] = "int" ->
              IF Fits(- v[2]) THEN IntVal(- v[2]) ELSE Error
         [] operator = "minus" /\ v[1] = "float" ->
              IF Number(v) = 0 THEN <<"float", - 1 - v[2]>>
              ELSE <<"float", - v[2]>>
         [] OTHER -> Error

Binary(operator, v, w) ==
  IF Error \in {v, w} THEN Error
  ELSE IF operator \in Logic THEN BooleanLogic(operator, v, w)
  ELSE IF Null \in {v, w} THEN Null
  ELSE IF operator \in Comparisons THEN Compare(operator, v, w)
  ELSE ArithmeticOf(operator, v, w)

(***************************************************************************)
(* Expressions over the columns of a row, named by position.               *)
(***************************************************************************)
Column(p) == [op |-> "column", at |-> p]
Literal(v) == [op |-> "literal", value |-> v]
IsNullExpr(e, negated) == [op |-> "is null", arg |-> e, negated |-> negated]
UnaryExpr(o, e) == [op |-> "unary", of |-> o, arg |-> e]
BinaryExpr(e, o, f) == [op |-> "binary", of |-> o, left |-> e, right |-> f]

RECURSIVE Evaluate(_, _)
Evaluate(e, row) ==
  CASE e.op = "column" -> IF e.at \in DOMAIN row THEN row[e.at] ELSE Error
    [] e.op = "literal" -> e.value
    [] e.op = "is null" ->
         LET v == Evaluate(e.arg, row)
         IN  IF v = Error THEN Error ELSE Bool(IsNull(v) # e.negated)
    [] e.op = "unary" -> Unary(e.of, Evaluate(e.arg, row))
    [] e.op = "binary" ->
         Binary(e.of, Evaluate(e.left, row), Evaluate(e.right, row))

\* A WHERE clause selects a row, does not, or is an error: NULL does not.
Truth(v) ==
  CASE v[1] = "bool" -> v
    [] v = Null -> Bool(FALSE)
    [] OTHER -> Error
Predicate(e, row) == Truth(Evaluate(e, row))

\* The type and nullability of a result; columns are a table's.
NoType == [type |-> "error", nullable |-> FALSE]

\* Mutant: nullable only if both operands are.
BinaryTypeBothNullable(operator, l, r) ==
  [type |-> IF operator \notin Arithmetic THEN "bool"
            ELSE IF "float" \in {l.type, r.type} THEN "float" ELSE "int",
   nullable |-> l.nullable /\ r.nullable]

BinaryType(operator, l, r) ==
  IF NoType \in {l, r} THEN NoType
  ELSE [type |-> IF operator \notin Arithmetic THEN "bool"
                 ELSE IF "float" \in {l.type, r.type} THEN "float" ELSE "int",
        nullable |-> l.nullable \/ r.nullable]

RECURSIVE InferType(_, _)
InferType(e, columns) ==
  CASE e.op = "column" ->
         IF e.at \in DOMAIN columns
         THEN [type |-> columns[e.at].type, nullable |-> columns[e.at].nullable]
         ELSE NoType
    [] e.op = "literal" ->
         [type |-> IF IsNull(e.value) THEN "unknown" ELSE e.value[1],
          nullable |-> IsNull(e.value)]
    [] e.op = "is null" -> [type |-> "bool", nullable |-> FALSE]
    [] e.op = "unary" -> InferType(e.arg, columns)
    [] e.op = "binary" ->
         BinaryType(e.of, InferType(e.left, columns),
                    InferType(e.right, columns))

RECURSIVE IsConstant(_)
IsConstant(e) ==
  CASE e.op = "column" -> FALSE
    [] e.op = "literal" -> TRUE
    [] e.op \in {"is null", "unary"} -> IsConstant(e.arg)
    [] e.op = "binary" -> IsConstant(e.left) /\ IsConstant(e.right)
=============================================================================
