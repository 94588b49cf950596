------------------------------ MODULE Filters ------------------------------
(***************************************************************************)
(* Row filters (`[sync.x] where`): the restricted SQL predicate that the   *)
(* initial load hands to the database and that the engine evaluates again  *)
(* on every streamed row (crates/core/src/filter.rs).                      *)
(*                                                                         *)
(* A column value is a pair of its JSON kind and a number that orders it   *)
(* among the values of that kind: "numtext" is a JSON string that holds a  *)
(* number, which is how `numeric` and DECIMAL columns arrive, "text" any   *)
(* other string.  Tokens are pairs too; characters are left out.           *)
(*                                                                         *)
(* The module has RECURSIVE operators: only TLC's runs use it.             *)
(***************************************************************************)
EXTENDS Integers, Sequences

Null == <<"null", 0>>

IsString(v) == v[1] \in {"text", "numtext"}

\* Expr, built by the parser and taken apart by eval and render.
Cmp(column, op, literal)     == [kind |-> "cmp", column |-> column, op |-> op, literal |-> literal]
IsNull(column, negated)      == [kind |-> "isnull", column |-> column, negated |-> negated]
In(column, list, negated)    == [kind |-> "in", column |-> column, list |-> list, negated |-> negated]
And(a, b)                    == [kind |-> "and", a |-> a, b |-> b]
Or(a, b)                     == [kind |-> "or", a |-> a, b |-> b]
Not(a)                       == [kind |-> "not", a |-> a]

----------------------------------------------------------------------------
(* Evaluation.                                                             *)

\* The byte order of strings: digits before letters, and "10" before "9".
ByteRank(v) == CASE v[1] = "text"              -> 100 + v[2]
                 [] v[1] = "numtext" /\ v[2] > 9 -> v[2] - 10
                 [] OTHER                      -> 50 + v[2]

Sign(n) == CASE n < 0 -> "less" [] n = 0 -> "equal" [] OTHER -> "greater"

\* Mutant: a number held in a string is compared as the string it is.
CompareByBytes(value, literal) ==
  CASE value = Null                              -> "unknown"
    [] IsString(value) /\ IsString(literal)      -> Sign(ByteRank(value) - ByteRank(literal))
    [] value[1] = "numtext" /\ literal[1] = "num" -> Sign(ByteRank(value) - ByteRank(<<"numtext", literal[2]>>))
    [] value[1] = literal[1]                     -> Sign(value[2] - literal[2])
    [] OTHER                                     -> "unknown"

\* Orders a document value against a literal, or "unknown" where SQL says so.
Compare(value, literal) ==
  CASE value = Null                                             -> "unknown"
    [] IsString(value) /\ IsString(literal)                     -> Sign(ByteRank(value) - ByteRank(literal))
    [] value[1] \in {"numtext", "num"} /\ literal[1] = "num"    -> Sign(value[2] - literal[2])
    [] value[1] = "bool" /\ literal[1] = "bool"                 -> Sign(value[2] - literal[2])
    [] OTHER                                                    -> "unknown"

\* CmpOp::holds.
Holds(op, ordering) ==
  CASE op = "=" -> ordering = "equal"   [] op = "<>" -> ordering # "equal"
    [] op = "<" -> ordering = "less"    [] op = "<=" -> ordering # "greater"
    [] op = ">" -> ordering = "greater" [] op = ">=" -> ordering # "less"

Truth(b) == IF b THEN "true" ELSE "false"

\* What the document holds in a column: a column it lacks reads as NULL.
Field(doc, column) == IF column \in DOMAIN doc THEN doc[column] ELSE Null

EvalIn(value, list, negated) ==
  LET orders == {Compare(value, list[i]) : i \in DOMAIN list}
  IN  CASE "equal" \in orders   -> Truth(~negated)
        [] "unknown" \in orders -> "unknown"
        [] OTHER                -> Truth(negated)

RECURSIVE Eval(_, _)
Eval(expr, doc) ==
  CASE expr.kind = "cmp" ->
         LET o == Compare(Field(doc, expr.column), expr.literal)
         IN  IF o = "unknown" THEN "unknown" ELSE Truth(Holds(expr.op, o))
    [] expr.kind = "isnull" -> Truth((Field(doc, expr.column) = Null) # expr.negated)
    [] expr.kind = "in"     -> EvalIn(Field(doc, expr.column), expr.list, expr.negated)
    [] expr.kind = "and"    -> LET s == {Eval(expr.a, doc), Eval(expr.b, doc)}
                               IN  CASE "false" \in s   -> "false"
                                     [] "unknown" \in s -> "unknown"
                                     [] OTHER           -> "true"
    [] expr.kind = "or"     -> LET s == {Eval(expr.a, doc), Eval(expr.b, doc)}
                               IN  CASE "true" \in s    -> "true"
                                     [] "unknown" \in s -> "unknown"
                                     [] OTHER           -> "false"
    [] expr.kind = "not"    -> LET t == Eval(expr.a, doc)
                               IN  IF t = "unknown" THEN t ELSE Truth(t = "false")

\* Filter::matches: only TRUE matches.
Matches(expr, doc) == Eval(expr, doc) = "true"

----------------------------------------------------------------------------
(* Rendering, and the recursive descent that reads it back.                *)

Word(w)   == <<"word", w>>
Column(c) == <<"column", c>>
Lit(l)    == <<"literal", l>>

RECURSIVE ListTokens(_)
ListTokens(list) ==
  IF Len(list) = 1 THEN <<Lit(list[1]), Word(")")>>
  ELSE <<Lit(list[1]), Word(",")>> \o ListTokens(Tail(list))

Negation(negated) == IF negated THEN <<Word("NOT")>> ELSE <<>>

\* render: every connective is parenthesised.
RECURSIVE Render(_)
Render(expr) ==
  CASE expr.kind = "cmp"    -> <<Column(expr.column), <<"op", expr.op>>, Lit(expr.literal)>>
    [] expr.kind = "isnull" -> <<Column(expr.column), Word("IS")>> \o Negation(expr.negated) \o <<Word("NULL")>>
    [] expr.kind = "in"     -> <<Column(expr.column)>> \o Negation(expr.negated)
                                 \o <<Word("IN"), Word("(")>> \o ListTokens(expr.list)
    [] expr.kind = "and"    -> <<Word("(")>> \o Render(expr.a) \o <<Word("AND")>> \o Render(expr.b) \o <<Word(")")>>
    [] expr.kind = "or"     -> <<Word("(")>> \o Render(expr.a) \o <<Word("OR")>> \o Render(expr.b) \o <<Word(")")>>
    [] expr.kind = "not"    -> <<Word("("), Word("NOT")>> \o Render(expr.a) \o <<Word(")")>>

\* The outcome of a parser function: an expression and the tokens left, or a
\* refusal.
Parsed(expr, rest) == [ok |-> TRUE, expr |-> expr, rest |-> rest]
Refuse == [ok |-> FALSE]

\* accept_keyword, and the other tests of the next token.
Next1(ts, token) == ts # <<>> /\ Head(ts) = token
NextIs(ts, kind) == ts # <<>> /\ Head(ts)[1] = kind

\* in_list, from behind the opening parenthesis.
RECURSIVE ParseList(_, _)
ParseList(ts, list) ==
  IF ~NextIs(ts, "literal") THEN Refuse
  ELSE LET longer == Append(list, Head(ts)[2])
           rest   == Tail(ts)
       IN  CASE Next1(rest, Word(",")) -> ParseList(Tail(rest), longer)
             [] Next1(rest, Word(")")) -> Parsed(longer, Tail(rest))
             [] OTHER                  -> Refuse

ParseIn(column, ts, negated) ==
  IF ~Next1(ts, Word("(")) THEN Refuse
  ELSE LET l == ParseList(Tail(ts), <<>>)
       IN  IF l.ok THEN Parsed(In(column, l.expr, negated), l.rest) ELSE Refuse

\* comparison and comparison_rhs.  A comparison with NULL is refused.
ParseComparison(ts) ==
  IF Len(ts) < 2 \/ ~NextIs(ts, "column") THEN Refuse
  ELSE LET column == Head(ts)[2]
           op     == ts[2]
           rest   == Tail(Tail(ts))
       IN  CASE op[1] = "op" /\ NextIs(rest, "literal") ->
                  Parsed(Cmp(column, op[2], Head(rest)[2]), Tail(rest))
             [] op = Word("IS") /\ Next1(rest, Word("NULL")) ->
                  Parsed(IsNull(column, FALSE), Tail(rest))
             [] op = Word("IS") /\ Next1(rest, Word("NOT")) /\ Next1(Tail(rest), Word("NULL")) ->
                  Parsed(IsNull(column, TRUE), Tail(Tail(rest)))
             [] op = Word("IN") -> ParseIn(column, rest, FALSE)
             [] op = Word("NOT") /\ Next1(rest, Word("IN")) -> ParseIn(column, Tail(rest), TRUE)
             [] OTHER -> Refuse

RECURSIVE ParseOr(_), OrTail(_, _), ParseAnd(_), AndTail(_, _), ParseNot(_), ParsePrimary(_)

\* or_expr and and_expr: left associative, AND binding tighter.
ParseOr(ts) == LET l == ParseAnd(ts) IN IF l.ok THEN OrTail(l.expr, l.rest) ELSE Refuse
OrTail(left, ts) ==
  IF ~Next1(ts, Word("OR")) THEN Parsed(left, ts)
  ELSE LET r == ParseAnd(Tail(ts)) IN IF r.ok THEN OrTail(Or(left, r.expr), r.rest) ELSE Refuse
ParseAnd(ts) == LET l == ParseNot(ts) IN IF l.ok THEN AndTail(l.expr, l.rest) ELSE Refuse
AndTail(left, ts) ==
  IF ~Next1(ts, Word("AND")) THEN Parsed(left, ts)
  ELSE LET r == ParseNot(Tail(ts)) IN IF r.ok THEN AndTail(And(left, r.expr), r.rest) ELSE Refuse
ParseNot(ts) ==
  IF ~Next1(ts, Word("NOT")) THEN ParsePrimary(ts)
  ELSE LET e == ParseNot(Tail(ts)) IN IF e.ok THEN Parsed(Not(e.expr), e.rest) ELSE Refuse
ParsePrimary(ts) ==
  IF ~Next1(ts, Word("(")) THEN ParseComparison(ts)
  ELSE LET e == ParseOr(Tail(ts))
       IN  IF e.ok /\ Next1(e.rest, Word(")")) THEN Parsed(e.expr, Tail(e.rest)) ELSE Refuse

\* Filter::parse: nothing may be left over.
Parse(ts) ==
  IF ts = <<>> THEN Refuse
  ELSE LET e == ParseOr(ts) IN IF e.ok /\ e.rest = <<>> THEN e ELSE Refuse

----------------------------------------------------------------------------
(* What the database makes of the same predicate, as the SQL standard says *)
(* it: truth values 0 (false), 1 (unknown) and 2 (true), AND the smaller,  *)
(* OR the larger, NOT the complement, IN a disjunction of equalities.  A   *)
(* number is compared as a number whatever JSON made of it.                *)

Smaller(a, b) == IF a < b THEN a ELSE b
Larger(a, b)  == IF a > b THEN a ELSE b

SqlKey(v) == IF v[1] = "text" THEN 100 + v[2] ELSE v[2]
SqlCmp(value, op, literal) ==
  IF value = Null THEN 1
  ELSE LET d == SqlKey(value) - SqlKey(literal)
           b == CASE op = "=" -> d = 0 [] op = "<>" -> d # 0 [] op = "<" -> d < 0
                  [] op = "<=" -> d <= 0 [] op = ">" -> d > 0 [] op = ">=" -> d >= 0
       IN  IF b THEN 2 ELSE 0

RECURSIVE SqlAny(_, _)
SqlAny(value, list) ==
  IF list = <<>> THEN 0
  ELSE Larger(SqlCmp(value, "=", Head(list)), SqlAny(value, Tail(list)))

RECURSIVE SqlTruth(_, _)
SqlTruth(expr, row) ==
  CASE expr.kind = "cmp"    -> SqlCmp(row[expr.column], expr.op, expr.literal)
    [] expr.kind = "isnull" -> IF (row[expr.column] = Null) = expr.negated THEN 0 ELSE 2
    [] expr.kind = "in"     -> LET any == SqlAny(row[expr.column], expr.list)
                               IN  IF expr.negated THEN 2 - any ELSE any
    [] expr.kind = "and"    -> Smaller(SqlTruth(expr.a, row), SqlTruth(expr.b, row))
    [] expr.kind = "or"     -> Larger(SqlTruth(expr.a, row), SqlTruth(expr.b, row))
    [] expr.kind = "not"    -> 2 - SqlTruth(expr.a, row)

\* The rows a load reads: the predicate is part of its query.
Loaded(expr, row) == SqlTruth(expr, row) = 2
=============================================================================
