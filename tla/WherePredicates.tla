--------------------------- MODULE WherePredicates ---------------------------
(***************************************************************************)
(* WHERE clauses (sql/parser/predicates.py): the recursive-descent parser  *)
(* and the evaluation of the tree it builds, against the grammar of the    *)
(* file header read as a definition.                                       *)
(*                                                                         *)
(* A clause is a sequence of tokens.  The three tokens of a comparison     *)
(* (column, operator, literal) stand here as one, named by its column; a   *)
(* row says for each column whether the comparison is true or false, finds *)
(* a NULL (or no such column), or a value of another type than the         *)
(* literal's ("text").  A token no rule begins with, such as a literal, is *)
(* treated like a ")" out of place.                                        *)
(* A tree is the set of the rows it evaluates to True on.  The clause      *)
(* grows token by token, up to MaxTokens.                                  *)
(*                                                                         *)
(* The parser's methods, and the symbols of the grammar, call each other   *)
(* on what comes later in the clause: parse and means are the functions    *)
(* they do that through.                                                   *)
(***************************************************************************)
EXTENDS Integers, Sequences

CONSTANTS Columns, MaxTokens

Keywords == {"(", ")", "AND", "OR", "NOT"}
Tokens == Columns \cup Keywords

(* A keyword is no column name, and a clause does not contain its end. *)
ASSUME ColumnsAssumption == Columns \cap (Keywords \cup {"end"}) = {}

VARIABLE clause

Rows == [Columns -> {"true", "false", "text", "null"}]

-----------------------------------------------------------------------------
(* evaluate: a comparison with a NULL or across types is False, and Not negates
   that as well. *)

Compared(column) == {row \in Rows : row[column] = "true"}
Negated(rows) == Rows \ rows

-----------------------------------------------------------------------------
(* _Parser: a result is an error, or a tree and the position after it. *)

Error == [ok |-> FALSE, rows |-> {}, pos |-> 1]
Parsed(rows, pos) == [ok |-> TRUE, rows |-> rows, pos |-> pos]

(* peek, which is None at the end. *)
At(ts, p) == IF p <= Len(ts) THEN ts[p] ELSE "end"

(* comparison: raises unless a column name comes next. *)
Comparison(ts, p) ==
    IF At(ts, p) \in Columns THEN Parsed(Compared(ts[p]), p + 1) ELSE Error

Not(r) == IF r.ok THEN Parsed(Negated(r.rows), r.pos) ELSE Error

Closed(ts, r) == IF r.ok /\ At(ts, r.pos) = ")" THEN Parsed(r.rows, r.pos + 1) ELSE Error

(* The operand of NOT is a whole expr. *)
FaultyUnary(ts, parse, p) ==
    CASE At(ts, p) = "NOT" -> Not(parse[<<"expr", p + 1>>])
      [] At(ts, p) = "(" -> Closed(ts, parse[<<"expr", p + 1>>])
      [] OTHER -> Comparison(ts, p)

Unary(ts, parse, p) ==
    CASE At(ts, p) = "NOT" -> Not(parse[<<"unary", p + 1>>])
      [] At(ts, p) = "(" -> Closed(ts, parse[<<"expr", p + 1>>])
      [] OTHER -> Comparison(ts, p)

(* The operands that the loops of and_expr and expr collect are the first one
   and those of the and_expr (expr) behind the keyword. *)
AllOf(r, others) ==
    IF r.ok /\ others.ok THEN Parsed(r.rows \cap others.rows, others.pos) ELSE Error
AnyOf(r, others) ==
    IF r.ok /\ others.ok THEN Parsed(r.rows \cup others.rows, others.pos) ELSE Error

AndExpr(ts, parse, p) ==
    LET r == Unary(ts, parse, p) IN
    IF r.ok /\ At(ts, r.pos) = "AND" THEN AllOf(r, parse[<<"and_expr", r.pos + 1>>]) ELSE r

Expr(ts, parse, p) ==
    LET r == AndExpr(ts, parse, p) IN
    IF r.ok /\ At(ts, r.pos) = "OR" THEN AnyOf(r, parse[<<"expr", r.pos + 1>>]) ELSE r

Symbols == {"expr", "and_expr", "unary"}

Method(ts, parse, symbol, p) ==
    CASE symbol = "expr" -> Expr(ts, parse, p)
      [] symbol = "and_expr" -> AndExpr(ts, parse, p)
      [] OTHER -> Unary(ts, parse, p)

Parser(ts) ==
    LET parse[call \in Symbols \X (1 .. Len(ts) + 1)] == Method(ts, parse, call[1], call[2])
    IN parse

(* parse_predicate: an empty clause and trailing tokens are errors. *)
Parse(ts) ==
    LET r == Parser(ts)[<<"expr", 1>>] IN
    IF ts # <<>> /\ r.ok /\ At(ts, r.pos) = "end" THEN r ELSE Error

-----------------------------------------------------------------------------
(* Clauses *)

Init == clause = <<>>

Extend ==
    /\ Len(clause) < MaxTokens
    /\ \E token \in Tokens : clause' = Append(clause, token)

Spec == Init /\ [][Extend]_clause

-----------------------------------------------------------------------------
(* The grammar: the sets of rows that tokens i..j can mean as a unary, an
   and_expr and an expr; none if no derivation exists. *)

AsUnary(ts, means, i, j) ==
    IF i > j THEN {}
    ELSE (IF i = j /\ ts[i] \in Columns THEN {Compared(ts[i])} ELSE {})
         \cup (IF ts[i] = "NOT" THEN {Negated(x) : x \in means[<<"unary", i + 1, j>>]} ELSE {})
         \cup (IF ts[i] = "(" /\ ts[j] = ")" THEN means[<<"expr", i + 1, j - 1>>] ELSE {})

AsAndExpr(ts, means, i, j) ==
    AsUnary(ts, means, i, j) \cup
    UNION {{x \cap y : x \in means[<<"and_expr", i, k - 1>>], y \in means[<<"unary", k + 1, j>>]} :
           k \in {m \in i .. j : ts[m] = "AND"}}

AsExpr(ts, means, i, j) ==
    AsAndExpr(ts, means, i, j) \cup
    UNION {{x \cup y : x \in means[<<"expr", i, k - 1>>], y \in means[<<"and_expr", k + 1, j>>]} :
           k \in {m \in i .. j : ts[m] = "OR"}}

Rule(ts, means, symbol, i, j) ==
    CASE symbol = "expr" -> AsExpr(ts, means, i, j)
      [] symbol = "and_expr" -> AsAndExpr(ts, means, i, j)
      [] OTHER -> AsUnary(ts, means, i, j)

Grammar(ts) ==
    LET means[part \in Symbols \X (1 .. Len(ts) + 1) \X (0 .. Len(ts))] ==
            Rule(ts, means, part[1], part[2], part[3])
    IN means

Meanings(ts) == Grammar(ts)[<<"expr", 1, Len(ts)>>]

(* The parser accepts exactly the clauses of the grammar ("Unparseable input
   raises PredicateError ... never match everything"), each of which has one
   meaning, and selects exactly the rows that meaning selects, with NOT
   binding tighter than AND, and AND tighter than OR. *)
SelectsByGrammar ==
    Meanings(clause) = (IF Parse(clause).ok THEN {Parse(clause).rows} ELSE {})
=============================================================================
