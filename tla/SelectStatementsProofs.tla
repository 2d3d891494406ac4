----------------------- MODULE SelectStatementsProofs -----------------------
(***************************************************************************)
(* Proofs about WherePredicates and SelectStatements, for clauses and      *)
(* tables of any length: the recursive-descent parser selects by the       *)
(* grammar, and a SELECT answers exactly what its clauses mean.            *)
(***************************************************************************)
EXTENDS SelectStatements, FiniteSetTheorems, SequenceTheorems, NaturalsInduction,
        WellFoundedInduction, TLAPS

-----------------------------------------------------------------------------
(* Induction, over sets of numbers. *)

LEMMA StrongInduction ==
    ASSUME NEW S,
           \A n \in Nat : (\A m \in Nat : m < n => m \in S) => n \in S
    PROVE  \A n \in Nat : n \in S
<1> DEFINE Bad == Nat \ S
<1>1. SUFFICES ASSUME Bad # {} PROVE FALSE
    BY Zenon
<1>2. PICK x \in Bad : \A y \in Bad : ~(<<y, x>> \in OpToRel(<, Nat))
    BY <1>1, WFMin, NatLessThanWellFounded, Zenon
<1>3. \A m \in Nat : m < x => m \in S
    BY <1>2 DEF OpToRel
<1> QED BY <1>2, <1>3

LEMMA StepInduction ==
    ASSUME NEW S, 0 \in S, \A n \in Nat : n \in S => n + 1 \in S
    PROVE  \A n \in Nat : n \in S
<1>1. ASSUME NEW n \in Nat, \A m \in Nat : m < n => m \in S
      PROVE  n \in S
    <2>1. CASE n = 0 BY <2>1
    <2>2. CASE n # 0
        <3>1. n - 1 \in Nat /\ n - 1 < n /\ (n - 1) + 1 = n BY <2>2
        <3>2. n - 1 \in S BY <3>1, <1>1
        <3> QED BY <3>1, <3>2
    <2> QED BY <2>1, <2>2
<1> QED BY <1>1, StrongInduction, Zenon

-----------------------------------------------------------------------------
(* The parser is the function its methods describe: a method calls others only
   on later positions, and stops behind where it began. *)

Clauses == Seq(Tokens)
Places(ts) == 1 .. Len(ts) + 1
Outcomes(ts, p) ==
    {r \in [ok : BOOLEAN, rows : SUBSET Rows, pos : Places(ts)] :
        IF r.ok THEN r.pos > p ELSE r = Error}

LEMMA ClauseTypes ==
    ASSUME NEW ts \in Clauses
    PROVE  /\ Len(ts) \in Nat
           /\ \A p \in Places(ts) : /\ p \in Nat /\ p > 0 /\ p <= Len(ts) + 1
                                    /\ At(ts, p) \in Tokens \cup {"end"}
                                    /\ At(ts, p) = "end" <=> p = Len(ts) + 1
                                    /\ p <= Len(ts) => At(ts, p) = ts[p]
<1>1. Len(ts) \in Nat BY DEF Clauses
<1>2. "end" \notin Tokens BY ColumnsAssumption DEF Tokens, Keywords
<1>3. \A p \in 1..Len(ts) : ts[p] \in Tokens BY DEF Clauses
<1> QED BY <1>1, <1>2, <1>3 DEF Places, At

LEMMA OutcomeFields ==
    ASSUME NEW ts \in Clauses, NEW p \in Places(ts), NEW r \in Outcomes(ts, p)
    PROVE  /\ r.ok \in BOOLEAN /\ r.rows \in SUBSET Rows /\ r.pos \in Places(ts)
           /\ r.ok => r.pos > p /\ r = Parsed(r.rows, r.pos)
           /\ ~r.ok => r = Error
BY DEF Outcomes, Parsed

LEMMA ParsedIsOutcome ==
    ASSUME NEW ts \in Clauses, NEW p \in Places(ts),
           NEW rows \in SUBSET Rows, NEW q \in Places(ts), q > p
    PROVE  Parsed(rows, q) \in Outcomes(ts, p)
BY DEF Outcomes, Parsed

LEMMA ErrorIsOutcome ==
    ASSUME NEW ts \in Clauses, NEW p \in Places(ts)
    PROVE  Error \in Outcomes(ts, p)
BY ClauseTypes DEF Outcomes, Error, Places

(* Two functions that agree behind p, where they give results. *)
AgreeBehind(ts, f, h, p) ==
    \A s \in Symbols, q \in Places(ts) :
        q > p => f[<<s, q>>] = h[<<s, q>>] /\ f[<<s, q>>] \in Outcomes(ts, q)

LEMMA UnaryAgrees ==
    ASSUME NEW ts \in Clauses, NEW p \in Places(ts), NEW f, NEW h, AgreeBehind(ts, f, h, p)
    PROVE  Unary(ts, f, p) = Unary(ts, h, p) /\ Unary(ts, f, p) \in Outcomes(ts, p)
<1> USE ClauseTypes, ColumnsAssumption
<1>0. p \in Nat /\ Len(ts) \in Nat /\ p > 0 /\ p <= Len(ts) + 1
    OBVIOUS
<1>1. CASE At(ts, p) \in {"NOT", "("}
    <2> DEFINE s == IF At(ts, p) = "NOT" THEN "unary" ELSE "expr"
               r == f[<<s, p + 1>>]
    <2>1. p + 1 \in Places(ts) /\ p + 1 > p
        BY <1>1, <1>0 DEF Places
    <2>2. s \in Symbols BY DEF Symbols
    <2>3. r = h[<<s, p + 1>>] /\ r \in Outcomes(ts, p + 1)
        BY <2>1, <2>2 DEF AgreeBehind
    <2> HIDE DEF r
    <2>4. /\ r.ok \in BOOLEAN /\ r.rows \in SUBSET Rows /\ r.pos \in Places(ts)
          /\ r.ok => r.pos > p + 1
        BY <2>1, <2>3, OutcomeFields
    <2>5. Not(r) \in Outcomes(ts, p)
        <3>1. r.ok => r.pos > p BY <2>4, <1>0 DEF Places
        <3> QED BY <3>1, <2>4, ParsedIsOutcome, ErrorIsOutcome DEF Not, Negated
    <2>6. Closed(ts, r) \in Outcomes(ts, p)
        <3>1. r.ok /\ At(ts, r.pos) = ")" => r.pos + 1 > p /\ r.pos + 1 \in Places(ts)
            BY <2>4, <1>0 DEF Places
        <3> QED BY <3>1, <2>4, ParsedIsOutcome, ErrorIsOutcome DEF Closed
    <2>7. CASE At(ts, p) = "NOT"
        <3>1. Unary(ts, f, p) = Not(r) /\ Unary(ts, h, p) = Not(r)
            BY <2>7, <2>3 DEF Unary, r
        <3> QED BY <3>1, <2>5
    <2>8. CASE At(ts, p) = "("
        <3>1. Unary(ts, f, p) = Closed(ts, r) /\ Unary(ts, h, p) = Closed(ts, r)
            BY <2>8, <2>3 DEF Unary, r
        <3> QED BY <3>1, <2>6
    <2> QED BY <1>1, <2>7, <2>8
<1>2. CASE At(ts, p) \notin {"NOT", "("}
    <2>1. Unary(ts, f, p) = Comparison(ts, p) /\ Unary(ts, h, p) = Comparison(ts, p)
        BY <1>2 DEF Unary
    <2>2. At(ts, p) \in Columns => p + 1 \in Places(ts) /\ p + 1 > p
        BY <1>0 DEF Places
    <2>3. Compared(ts[p]) \in SUBSET Rows BY DEF Compared
    <2>4. Comparison(ts, p) \in Outcomes(ts, p)
        BY <2>2, <2>3, ParsedIsOutcome, ErrorIsOutcome DEF Comparison
    <2> QED BY <2>1, <2>4
<1> QED BY <1>1, <1>2

LEMMA AndExprAgrees ==
    ASSUME NEW ts \in Clauses, NEW p \in Places(ts), NEW f, NEW h, AgreeBehind(ts, f, h, p)
    PROVE  AndExpr(ts, f, p) = AndExpr(ts, h, p) /\ AndExpr(ts, f, p) \in Outcomes(ts, p)
<1> DEFINE r == Unary(ts, f, p)
           o == f[<<"and_expr", r.pos + 1>>]
<1>1. r = Unary(ts, h, p) /\ r \in Outcomes(ts, p) BY UnaryAgrees
<1> HIDE DEF r
<1>2. CASE r.ok /\ At(ts, r.pos) = "AND"
    <2>1. /\ r.rows \in SUBSET Rows /\ r.pos \in Places(ts) /\ r.pos > p
        BY <1>1, <1>2, OutcomeFields
    <2>2. r.pos + 1 \in Places(ts) /\ r.pos + 1 > p
        BY <2>1, <1>2, ClauseTypes DEF Places
    <2>3. o = h[<<"and_expr", r.pos + 1>>] /\ o \in Outcomes(ts, r.pos + 1)
        BY <2>2 DEF AgreeBehind, Symbols
    <2>4. AndExpr(ts, f, p) = AllOf(r, o) /\ AndExpr(ts, h, p) = AllOf(r, o)
        BY <1>1, <1>2, <2>3 DEF AndExpr, r
    <2> HIDE DEF o
    <2>5. /\ o.ok \in BOOLEAN /\ o.rows \in SUBSET Rows /\ o.pos \in Places(ts)
          /\ o.ok => o.pos > r.pos + 1
        BY <2>2, <2>3, OutcomeFields
    <2>6. o.ok => o.pos > p BY <2>5, <2>1 DEF Places
    <2>7. AllOf(r, o) \in Outcomes(ts, p)
        BY <2>1, <2>5, <2>6, ParsedIsOutcome, ErrorIsOutcome DEF AllOf
    <2> QED BY <2>4, <2>7
<1>3. CASE ~(r.ok /\ At(ts, r.pos) = "AND")
    BY <1>1, <1>3 DEF AndExpr, r
<1> QED BY <1>2, <1>3

LEMMA ExprAgrees ==
    ASSUME NEW ts \in Clauses, NEW p \in Places(ts), NEW f, NEW h, AgreeBehind(ts, f, h, p)
    PROVE  Expr(ts, f, p) = Expr(ts, h, p) /\ Expr(ts, f, p) \in Outcomes(ts, p)
<1> DEFINE r == AndExpr(ts, f, p)
           o == f[<<"expr", r.pos + 1>>]
<1>1. r = AndExpr(ts, h, p) /\ r \in Outcomes(ts, p) BY AndExprAgrees
<1> HIDE DEF r
<1>2. CASE r.ok /\ At(ts, r.pos) = "OR"
    <2>1. /\ r.rows \in SUBSET Rows /\ r.pos \in Places(ts) /\ r.pos > p
        BY <1>1, <1>2, OutcomeFields
    <2>2. r.pos + 1 \in Places(ts) /\ r.pos + 1 > p
        BY <2>1, <1>2, ClauseTypes DEF Places
    <2>3. o = h[<<"expr", r.pos + 1>>] /\ o \in Outcomes(ts, r.pos + 1)
        BY <2>2 DEF AgreeBehind, Symbols
    <2>4. Expr(ts, f, p) = AnyOf(r, o) /\ Expr(ts, h, p) = AnyOf(r, o)
        BY <1>1, <1>2, <2>3 DEF Expr, r
    <2> HIDE DEF o
    <2>5. /\ o.ok \in BOOLEAN /\ o.rows \in SUBSET Rows /\ o.pos \in Places(ts)
          /\ o.ok => o.pos > r.pos + 1
        BY <2>2, <2>3, OutcomeFields
    <2>6. o.ok => o.pos > p BY <2>5, <2>1 DEF Places
    <2>7. AnyOf(r, o) \in Outcomes(ts, p)
        BY <2>1, <2>5, <2>6, ParsedIsOutcome, ErrorIsOutcome DEF AnyOf
    <2> QED BY <2>4, <2>7
<1>3. CASE ~(r.ok /\ At(ts, r.pos) = "OR")
    BY <1>1, <1>3 DEF Expr, r
<1> QED BY <1>2, <1>3

LEMMA MethodAgrees ==
    ASSUME NEW ts \in Clauses, NEW p \in Places(ts), NEW f, NEW h, AgreeBehind(ts, f, h, p),
           NEW s \in Symbols
    PROVE  Method(ts, f, s, p) = Method(ts, h, s, p) /\ Method(ts, f, s, p) \in Outcomes(ts, p)
BY UnaryAgrees, AndExprAgrees, ExprAgrees DEF Method, Symbols

(* f is the parser on the last n + 1 positions. *)
ParsesLast(ts, f, n) ==
    \A s \in Symbols, q \in Places(ts) :
        q > Len(ts) - n => f[<<s, q>>] = Method(ts, f, s, q) /\ f[<<s, q>>] \in Outcomes(ts, q)

LEMMA ParserExtends ==
    ASSUME NEW ts \in Clauses, NEW p \in Places(ts), NEW f,
           \A s \in Symbols, q \in Places(ts) :
                q > p => f[<<s, q>>] = Method(ts, f, s, q) /\ f[<<s, q>>] \in Outcomes(ts, q)
    PROVE  \E h : \A s \in Symbols, q \in Places(ts) :
                q >= p => h[<<s, q>>] = Method(ts, h, s, q) /\ h[<<s, q>>] \in Outcomes(ts, q)
<1> DEFINE h == [x \in Symbols \X Places(ts) |-> IF x[2] = p THEN Method(ts, f, x[1], p) ELSE f[x]]
<1>0. Places(ts) \subseteq Nat BY ClauseTypes
<1>1. ASSUME NEW s \in Symbols, NEW q \in Places(ts)
      PROVE  h[<<s, q>>] = IF q = p THEN Method(ts, f, s, p) ELSE f[<<s, q>>]
    <2>1. <<s, q>> \in Symbols \X Places(ts) /\ <<s, q>>[1] = s /\ <<s, q>>[2] = q
        OBVIOUS
    <2>2. h[<<s, q>>] = IF <<s, q>>[2] = p THEN Method(ts, f, <<s, q>>[1], p) ELSE f[<<s, q>>]
        BY <2>1, Zenon
    <2> QED BY <2>1, <2>2, Zenon
<1> HIDE DEF h
<1>2. ASSUME NEW q \in Places(ts), q >= p
      PROVE  AgreeBehind(ts, f, h, q)
    <2>1. SUFFICES ASSUME NEW s \in Symbols, NEW z \in Places(ts), z > q
                   PROVE  f[<<s, z>>] = h[<<s, z>>] /\ f[<<s, z>>] \in Outcomes(ts, z)
        BY Zenon DEF AgreeBehind
    <2>2. z > p /\ z # p BY <1>0, <1>2, <2>1
    <2> QED BY <1>1, <2>2, Zenon
<1>3. ASSUME NEW s \in Symbols, NEW q \in Places(ts), q >= p
      PROVE  h[<<s, q>>] = Method(ts, h, s, q) /\ h[<<s, q>>] \in Outcomes(ts, q)
    <2>1. Method(ts, f, s, q) = Method(ts, h, s, q) /\ Method(ts, f, s, q) \in Outcomes(ts, q)
        BY <1>2, <1>3, MethodAgrees
    <2>2. q # p => q > p BY <1>0, <1>3
    <2>3. h[<<s, q>>] = Method(ts, f, s, q) BY <1>1, <2>2, Zenon
    <2> QED BY <2>1, <2>3, Zenon
<1> QED BY <1>3, Zenon

LEMMA ParserExists ==
    ASSUME NEW ts \in Clauses
    PROVE  \E f : ParsesLast(ts, f, Len(ts))
<1> DEFINE S == {n \in Nat : n <= Len(ts) => \E f : ParsesLast(ts, f, n)}
<1>0. Len(ts) \in Nat /\ Places(ts) \subseteq Nat BY ClauseTypes
<1>a. ASSUME NEW n \in Int, n <= Len(ts), n >= 0,
             n > 0 => \E f : ParsesLast(ts, f, n - 1)
      PROVE  \E f : ParsesLast(ts, f, n)
    <2> DEFINE p == Len(ts) - n + 1
    <2>0. p \in Places(ts) BY <1>0, <1>a DEF Places
    <2>1. \E f : \A s \in Symbols, q \in Places(ts) :
                q > p => f[<<s, q>>] = Method(ts, f, s, q) /\ f[<<s, q>>] \in Outcomes(ts, q)
        <3>1. CASE n = 0
            <4>1. \A q \in Places(ts) : ~(q > p) BY <3>1, <1>0, <1>a DEF Places
            <4> QED BY <4>1, Zenon
        <3>2. CASE n > 0
            <4>1. Len(ts) - (n - 1) = p BY <1>0, <1>a
            <4> QED BY <4>1, <3>2, <1>a, Zenon DEF ParsesLast
        <3> QED BY <3>1, <3>2, <1>a
    <2>2. PICK h : \A s \in Symbols, q \in Places(ts) :
                q >= p => h[<<s, q>>] = Method(ts, h, s, q) /\ h[<<s, q>>] \in Outcomes(ts, q)
        <3> HIDE DEF p
        <3> QED BY <2>0, <2>1, ParserExtends
    <2>3. \A q \in Places(ts) : q > Len(ts) - n => q >= p BY <1>0, <1>a
    <2>4. ParsesLast(ts, h, n) BY <2>2, <2>3, Zenon DEF ParsesLast
    <2> QED BY <2>4, Zenon
<1>1. 0 \in S
    <2>1. \E f : ParsesLast(ts, f, 0) BY <1>0, <1>a
    <2> QED BY <2>1
<1>2. ASSUME NEW n \in Nat, n \in S PROVE n + 1 \in S
    <2>1. CASE n + 1 <= Len(ts)
        <3>1. n + 1 \in Int /\ n + 1 >= 0 /\ (n + 1) - 1 = n /\ n <= Len(ts) BY <1>0, <2>1
        <3>2. \E f : ParsesLast(ts, f, (n + 1) - 1) BY <1>2, <3>1
        <3>3. \E f : ParsesLast(ts, f, n + 1) BY <1>a, <2>1, <3>1, <3>2
        <3> QED BY <3>3, <1>2
    <2>2. CASE ~(n + 1 <= Len(ts)) BY <2>2, <1>2
    <2> QED BY <2>1, <2>2
<1>3. Len(ts) \in S
    <2> HIDE DEF S
    <2> QED BY <1>0, <1>1, <1>2, StepInduction
<1> QED BY <1>3, <1>0

(* What is known of the parser. *)
LEMMA ParserIs ==
    ASSUME NEW ts \in Clauses
    PROVE  \A s \in Symbols, p \in Places(ts) :
               /\ Parser(ts)[<<s, p>>] = Method(ts, Parser(ts), s, p)
               /\ Parser(ts)[<<s, p>>] \in Outcomes(ts, p)
<1> DEFINE D == Symbols \X Places(ts)
<1>0. Len(ts) \in Nat /\ Places(ts) \subseteq Nat /\ \A q \in Places(ts) : q > Len(ts) - Len(ts)
    BY ClauseTypes
<1>1. PICK f : \A s \in Symbols, q \in Places(ts) :
                  f[<<s, q>>] = Method(ts, f, s, q) /\ f[<<s, q>>] \in Outcomes(ts, q)
    BY <1>0, ParserExists, Zenon DEF ParsesLast
<1> DEFINE h == [x \in D |-> f[x]]
<1>2. \A s \in Symbols, q \in Places(ts) : h[<<s, q>>] = f[<<s, q>>]
    OBVIOUS
<1> HIDE DEF h
<1>3. \A s \in Symbols, q \in Places(ts) :
          /\ Method(ts, f, s, q) = Method(ts, h, s, q)
          /\ h[<<s, q>>] = Method(ts, h, s, q) /\ h[<<s, q>>] \in Outcomes(ts, q)
    <2>1. \A q \in Places(ts) : AgreeBehind(ts, f, h, q) BY <1>1, <1>2, Zenon DEF AgreeBehind
    <2> TAKE s \in Symbols, q \in Places(ts)
    <2>2. AgreeBehind(ts, f, h, q) BY <2>1
    <2>3. Method(ts, f, s, q) = Method(ts, h, s, q) BY <2>2, MethodAgrees
    <2> QED BY <2>3, <1>1, <1>2, Zenon
<1>4. h = [x \in D |-> Method(ts, h, x[1], x[2])]
    <2>1. \A x \in D : x = <<x[1], x[2]>> /\ x[1] \in Symbols /\ x[2] \in Places(ts)
        OBVIOUS
    <2>2. ASSUME NEW x \in D PROVE f[x] = Method(ts, h, x[1], x[2])
        <3> DEFINE s == x[1]
                   q == x[2]
        <3>1. s \in Symbols /\ q \in Places(ts) /\ x = <<s, q>> BY <2>1
        <3> HIDE DEF s, q
        <3>2. f[<<s, q>>] = Method(ts, h, s, q) BY <3>1, <1>1, <1>3, Zenon
        <3> QED BY <3>1, <3>2, Zenon DEF s, q
    <2>3. h = [x \in D |-> f[x]] BY DEF h
    <2> QED BY <2>2, <2>3, Zenon
<1> DEFINE P == Parser(ts)
<1>5. P = [x \in D |-> Method(ts, P, x[1], x[2])]
    BY <1>4, Zenon DEF Parser, Places
<1> HIDE DEF P
<1>6. \A s \in Symbols, p \in Places(ts) : P[<<s, p>>] = Method(ts, P, s, p)
    <2> TAKE s \in Symbols, p \in Places(ts)
    <2>1. <<s, p>> \in D /\ <<s, p>>[1] = s /\ <<s, p>>[2] = p OBVIOUS
    <2>2. P[<<s, p>>] = Method(ts, P, <<s, p>>[1], <<s, p>>[2]) BY <1>5, <2>1, Zenon
    <2> QED BY <2>1, <2>2, Zenon
<1> DEFINE T == {n \in Nat : \A s \in Symbols, p \in Places(ts) : p + n > Len(ts) => P[<<s, p>>] \in Outcomes(ts, p)}
<1>7. 0 \in T
    <2>1. SUFFICES ASSUME NEW s \in Symbols, NEW p \in Places(ts), p + 0 > Len(ts)
                   PROVE  P[<<s, p>>] \in Outcomes(ts, p)
        OBVIOUS
    <2>2. AgreeBehind(ts, P, P, p)
        <3>1. \A q \in Places(ts) : ~(q > p) BY <2>1, <1>0 DEF Places
        <3> QED BY <3>1, Zenon DEF AgreeBehind
    <2> QED BY <2>2, <1>6, MethodAgrees
<1>8. ASSUME NEW n \in Nat, n \in T PROVE n + 1 \in T
    <2>1. SUFFICES ASSUME NEW s \in Symbols, NEW p \in Places(ts), p + (n + 1) > Len(ts)
                   PROVE  P[<<s, p>>] \in Outcomes(ts, p)
        BY <1>8
    <2>2. AgreeBehind(ts, P, P, p)
        <3>1. \A q \in Places(ts) : q > p => q + n > Len(ts) BY <2>1, <1>0
        <3> QED BY <3>1, <1>8 DEF AgreeBehind
    <2> QED BY <2>2, <1>6, MethodAgrees
<1>9. Len(ts) \in T
    <2> HIDE DEF T
    <2> QED BY <1>0, <1>7, <1>8, StepInduction
<1>10. \A s \in Symbols, p \in Places(ts) : P[<<s, p>>] \in Outcomes(ts, p)
    <2>1. \A p \in Places(ts) : p + Len(ts) > Len(ts) BY <1>0
    <2> QED BY <1>9, <2>1
<1> QED BY <1>6, <1>10 DEF P
-----------------------------------------------------------------------------
(* The grammar is the function its rules describe: a rule looks only at shorter
   parts. *)

Ends(ts) == 0 .. Len(ts)
Parts(ts) == Symbols \X Places(ts) \X Ends(ts)

(* Two functions that agree on the parts shorter than i..j. *)
AgreeWithin(ts, f, h, i, j) ==
    \A s \in Symbols, x \in Places(ts), y \in Ends(ts) :
        y - x < j - i => f[<<s, x, y>>] = h[<<s, x, y>>]

LEMMA AsUnaryAgrees ==
    ASSUME NEW ts \in Clauses, NEW i \in Places(ts), NEW j \in Ends(ts), NEW f, NEW h,
           AgreeWithin(ts, f, h, i, j)
    PROVE  AsUnary(ts, f, i, j) = AsUnary(ts, h, i, j)
<1>1. CASE i > j BY <1>1 DEF AsUnary
<1>2. CASE ~(i > j)
    <2>1. /\ i + 1 \in Places(ts) /\ j - (i + 1) < j - i
          /\ j - 1 \in Ends(ts) /\ (j - 1) - (i + 1) < j - i
        BY <1>2, ClauseTypes DEF Places, Ends
    <2>2. f[<<"unary", i + 1, j>>] = h[<<"unary", i + 1, j>>]
        BY <2>1, Zenon DEF AgreeWithin, Symbols
    <2>3. f[<<"expr", i + 1, j - 1>>] = h[<<"expr", i + 1, j - 1>>]
        BY <2>1, Zenon DEF AgreeWithin, Symbols
    <2> QED BY <2>2, <2>3, Zenon DEF AsUnary
<1> QED BY <1>1, <1>2

(* Where a keyword cuts a part in two. *)
LEMMA CutParts ==
    ASSUME NEW ts \in Clauses, NEW i \in Places(ts), NEW j \in Ends(ts), NEW k \in i .. j
    PROVE  /\ k \in Places(ts) /\ k <= Len(ts) /\ k - 1 \in Ends(ts) /\ k + 1 \in Places(ts)
           /\ (k - 1) - i < j - i /\ j - (k + 1) < j - i
BY ClauseTypes DEF Places, Ends

IsUnary(ts, f, i, j, m) ==
    /\ i <= j
    /\ \/ i = j /\ ts[i] \in Columns /\ m = Compared(ts[i])
       \/ ts[i] = "NOT" /\ \E x \in f[<<"unary", i + 1, j>>] : m = Negated(x)
       \/ ts[i] = "(" /\ ts[j] = ")" /\ m \in f[<<"expr", i + 1, j - 1>>]

LEMMA InUnary ==
    ASSUME NEW ts, NEW i \in Int, NEW j \in Int, NEW f, NEW m
    PROVE  m \in AsUnary(ts, f, i, j) <=> IsUnary(ts, f, i, j, m)
<1>1. CASE i > j
    <2>1. ~(i <= j) BY <1>1
    <2> QED BY <1>1, <2>1, Zenon DEF AsUnary, IsUnary
<1>2. CASE i <= j
    <2> DEFINE N == {Negated(x) : x \in f[<<"unary", i + 1, j>>]}
    <2>1. m \in N <=> \E x \in f[<<"unary", i + 1, j>>] : m = Negated(x)
        BY Zenon
    <2>2. ~(i > j) BY <1>2
    <2>3. AsUnary(ts, f, i, j) =
             (IF i = j /\ ts[i] \in Columns THEN {Compared(ts[i])} ELSE {})
             \cup (IF ts[i] = "NOT" THEN N ELSE {})
             \cup (IF ts[i] = "(" /\ ts[j] = ")" THEN f[<<"expr", i + 1, j - 1>>] ELSE {})
        BY <2>2, Zenon DEF AsUnary
    <2> HIDE DEF N
    <2> QED BY <1>2, <2>1, <2>3, Zenon DEF IsUnary
<1> QED BY <1>1, <1>2

ViaAndExpr(ts, f, i, j, m) ==
    \E k \in i .. j : /\ ts[k] = "AND"
                     /\ \E x \in f[<<"and_expr", i, k - 1>>], y \in f[<<"unary", k + 1, j>>] :
                            m = x \cap y

LEMMA InAndExpr ==
    ASSUME NEW ts, NEW i, NEW j, NEW f, NEW m
    PROVE  m \in AsAndExpr(ts, f, i, j) <=> m \in AsUnary(ts, f, i, j) \/ ViaAndExpr(ts, f, i, j, m)
<1> DEFINE V(k) == {x \cap y : x \in f[<<"and_expr", i, k - 1>>], y \in f[<<"unary", k + 1, j>>]}
           K == {n \in i .. j : ts[n] = "AND"}
<1>1. \A k : m \in V(k) <=> \E x \in f[<<"and_expr", i, k - 1>>], y \in f[<<"unary", k + 1, j>>] : m = x \cap y
    BY SMT
<1> HIDE DEF V
<1>2. m \in UNION {V(k) : k \in K} <=> \E k \in K : m \in V(k)
    BY SMT
<1>3. AsAndExpr(ts, f, i, j) = AsUnary(ts, f, i, j) \cup UNION {V(k) : k \in K}
    BY DEF AsAndExpr, V
<1> QED BY <1>1, <1>2, <1>3, Zenon DEF ViaAndExpr

ViaExpr(ts, f, i, j, m) ==
    \E k \in i .. j : /\ ts[k] = "OR"
                     /\ \E x \in f[<<"expr", i, k - 1>>], y \in f[<<"and_expr", k + 1, j>>] :
                            m = x \cup y

LEMMA InExpr ==
    ASSUME NEW ts, NEW i, NEW j, NEW f, NEW m
    PROVE  m \in AsExpr(ts, f, i, j) <=> m \in AsAndExpr(ts, f, i, j) \/ ViaExpr(ts, f, i, j, m)
<1> DEFINE V(k) == {x \cup y : x \in f[<<"expr", i, k - 1>>], y \in f[<<"and_expr", k + 1, j>>]}
           K == {n \in i .. j : ts[n] = "OR"}
<1>1. \A k : m \in V(k) <=> \E x \in f[<<"expr", i, k - 1>>], y \in f[<<"and_expr", k + 1, j>>] : m = x \cup y
    BY SMT
<1> HIDE DEF V
<1>2. m \in UNION {V(k) : k \in K} <=> \E k \in K : m \in V(k)
    BY SMT
<1>3. AsExpr(ts, f, i, j) = AsAndExpr(ts, f, i, j) \cup UNION {V(k) : k \in K}
    BY DEF AsExpr, V
<1> QED BY <1>1, <1>2, <1>3, Zenon DEF ViaExpr

LEMMA AsAndExprAgrees ==
    ASSUME NEW ts \in Clauses, NEW i \in Places(ts), NEW j \in Ends(ts), NEW f, NEW h,
           AgreeWithin(ts, f, h, i, j)
    PROVE  AsAndExpr(ts, f, i, j) = AsAndExpr(ts, h, i, j)
<1>1. AsUnary(ts, f, i, j) = AsUnary(ts, h, i, j) BY AsUnaryAgrees
<1>2. ASSUME NEW k \in i .. j
      PROVE  /\ f[<<"and_expr", i, k - 1>>] = h[<<"and_expr", i, k - 1>>]
             /\ f[<<"unary", k + 1, j>>] = h[<<"unary", k + 1, j>>]
    BY CutParts, Zenon DEF AgreeWithin, Symbols
<1>3. \A m : ViaAndExpr(ts, f, i, j, m) <=> ViaAndExpr(ts, h, i, j, m)
    BY <1>2, Zenon DEF ViaAndExpr
<1>4. \A m : m \in AsAndExpr(ts, f, i, j) <=> m \in AsAndExpr(ts, h, i, j)
    BY <1>1, <1>3, InAndExpr, Zenon
<1> QED BY <1>4, Zenon

LEMMA AsExprAgrees ==
    ASSUME NEW ts \in Clauses, NEW i \in Places(ts), NEW j \in Ends(ts), NEW f, NEW h,
           AgreeWithin(ts, f, h, i, j)
    PROVE  AsExpr(ts, f, i, j) = AsExpr(ts, h, i, j)
<1>1. AsAndExpr(ts, f, i, j) = AsAndExpr(ts, h, i, j) BY AsAndExprAgrees
<1>2. ASSUME NEW k \in i .. j
      PROVE  /\ f[<<"expr", i, k - 1>>] = h[<<"expr", i, k - 1>>]
             /\ f[<<"and_expr", k + 1, j>>] = h[<<"and_expr", k + 1, j>>]
    BY CutParts, Zenon DEF AgreeWithin, Symbols
<1>3. \A m : ViaExpr(ts, f, i, j, m) <=> ViaExpr(ts, h, i, j, m)
    BY <1>2, Zenon DEF ViaExpr
<1>4. \A m : m \in AsExpr(ts, f, i, j) <=> m \in AsExpr(ts, h, i, j)
    BY <1>1, <1>3, InExpr, Zenon
<1> QED BY <1>4, Zenon

LEMMA RuleAgrees ==
    ASSUME NEW ts \in Clauses, NEW i \in Places(ts), NEW j \in Ends(ts), NEW f, NEW h,
           AgreeWithin(ts, f, h, i, j), NEW s \in Symbols
    PROVE  Rule(ts, f, s, i, j) = Rule(ts, h, s, i, j)
BY AsUnaryAgrees, AsAndExprAgrees, AsExprAgrees DEF Rule, Symbols

(* f is the grammar on the parts of up to n - Len(ts) - 1 tokens. *)
MeansUpTo(ts, f, n) ==
    \A s \in Symbols, i \in Places(ts), j \in Ends(ts) :
        j - i + Len(ts) + 1 < n => f[<<s, i, j>>] = Rule(ts, f, s, i, j)

LEMMA GrammarExtends ==
    ASSUME NEW ts \in Clauses, NEW n \in Nat, NEW f, MeansUpTo(ts, f, n)
    PROVE  \E h : MeansUpTo(ts, h, n + 1)
<1> DEFINE Size(x) == x[3] - x[2] + Len(ts) + 1
           h == [x \in Parts(ts) |-> IF Size(x) = n THEN Rule(ts, f, x[1], x[2], x[3]) ELSE f[x]]
<1>0. Len(ts) \in Nat /\ Places(ts) \subseteq Int /\ Ends(ts) \subseteq Int
    BY ClauseTypes DEF Ends
<1>1. ASSUME NEW s \in Symbols, NEW i \in Places(ts), NEW j \in Ends(ts)
      PROVE  h[<<s, i, j>>] = IF j - i + Len(ts) + 1 = n THEN Rule(ts, f, s, i, j) ELSE f[<<s, i, j>>]
    <2> DEFINE x == <<s, i, j>>
    <2>1. x \in Parts(ts) /\ x[1] = s /\ x[2] = i /\ x[3] = j BY DEF Parts
    <2>2. h[x] = IF Size(x) = n THEN Rule(ts, f, x[1], x[2], x[3]) ELSE f[x]
        <3> HIDE DEF x
        <3> QED BY <2>1, Zenon
    <2> QED BY <2>1, <2>2, Zenon
<1> HIDE DEF h
<1>2. ASSUME NEW i \in Places(ts), NEW j \in Ends(ts), j - i + Len(ts) + 1 <= n
      PROVE  AgreeWithin(ts, f, h, i, j)
    <2>1. SUFFICES ASSUME NEW s \in Symbols, NEW x \in Places(ts), NEW y \in Ends(ts), y - x < j - i
                   PROVE  f[<<s, x, y>>] = h[<<s, x, y>>]
        BY Zenon DEF AgreeWithin
    <2>2. y - x + Len(ts) + 1 # n BY <1>0, <1>2, <2>1
    <2> QED BY <1>1, <2>2, Zenon
<1>3. ASSUME NEW s \in Symbols, NEW i \in Places(ts), NEW j \in Ends(ts), j - i + Len(ts) + 1 < n + 1
      PROVE  h[<<s, i, j>>] = Rule(ts, h, s, i, j)
    <2>1. j - i + Len(ts) + 1 <= n BY <1>0, <1>3
    <2>2. Rule(ts, f, s, i, j) = Rule(ts, h, s, i, j) BY <1>2, <2>1, RuleAgrees
    <2>3. j - i + Len(ts) + 1 # n => j - i + Len(ts) + 1 < n BY <1>0, <2>1
    <2>4. j - i + Len(ts) + 1 # n => f[<<s, i, j>>] = Rule(ts, f, s, i, j)
        BY <2>3, Zenon DEF MeansUpTo
    <2> QED BY <1>1, <2>2, <2>4, Zenon
<1>4. MeansUpTo(ts, h, n + 1) BY <1>3, Zenon DEF MeansUpTo
<1> QED BY <1>4, Zenon

LEMMA GrammarIs ==
    ASSUME NEW ts \in Clauses
    PROVE  \A s \in Symbols, i \in Places(ts), j \in Ends(ts) :
               Grammar(ts)[<<s, i, j>>] = Rule(ts, Grammar(ts), s, i, j)
<1> DEFINE S == {n \in Nat : \E f : MeansUpTo(ts, f, n)}
           top == 2 * Len(ts) + 2
           D == Parts(ts)
<1>0. Len(ts) \in Nat /\ Places(ts) \subseteq Int /\ Ends(ts) \subseteq Int
    BY ClauseTypes DEF Ends
<1>1. 0 \in S
    <2>1. \A i \in Places(ts), j \in Ends(ts) : ~(j - i + Len(ts) + 1 < 0)
        BY <1>0 DEF Places, Ends
    <2>2. MeansUpTo(ts, <<>>, 0) BY <2>1, Zenon DEF MeansUpTo
    <2> QED BY <2>2
<1>2. \A n \in Nat : n \in S => n + 1 \in S BY GrammarExtends
<1>3. top \in S
    <2> HIDE DEF S
    <2>1. top \in Nat BY <1>0
    <2> HIDE DEF top
    <2> QED BY <1>1, <1>2, <2>1, StepInduction
<1>4. PICK f : \A s \in Symbols, i \in Places(ts), j \in Ends(ts) :
                  f[<<s, i, j>>] = Rule(ts, f, s, i, j)
    <2>1. \A i \in Places(ts), j \in Ends(ts) : j - i + Len(ts) + 1 < top
        BY <1>0 DEF Places, Ends
    <2>2. PICK f : MeansUpTo(ts, f, top) BY <1>3
    <2> HIDE DEF top
    <2>3. \A s \in Symbols, i \in Places(ts), j \in Ends(ts) : f[<<s, i, j>>] = Rule(ts, f, s, i, j)
        BY <2>1, <2>2, Zenon DEF MeansUpTo
    <2> QED BY <2>3, Zenon
<1> DEFINE h == [x \in D |-> f[x]]
<1>5. \A s \in Symbols, i \in Places(ts), j \in Ends(ts) : h[<<s, i, j>>] = f[<<s, i, j>>]
    BY DEF Parts
<1>6. h = [x \in D |-> Rule(ts, h, x[1], x[2], x[3])]
    <2>1. \A x \in D : x = <<x[1], x[2], x[3]>> /\ x[1] \in Symbols /\ x[2] \in Places(ts)
                       /\ x[3] \in Ends(ts)
        BY DEF Parts
    <2>2. ASSUME NEW x \in D PROVE f[x] = Rule(ts, h, x[1], x[2], x[3])
        <3> HIDE DEF h, D
        <3> DEFINE s == x[1]
                   i == x[2]
                   j == x[3]
        <3>1. s \in Symbols /\ i \in Places(ts) /\ j \in Ends(ts) /\ x = <<s, i, j>> BY <2>1
        <3> HIDE DEF s, i, j
        <3>2. AgreeWithin(ts, f, h, i, j) BY <1>5, Zenon DEF AgreeWithin
        <3>3. Rule(ts, f, s, i, j) = Rule(ts, h, s, i, j) BY <3>1, <3>2, RuleAgrees
        <3>4. f[<<s, i, j>>] = Rule(ts, h, s, i, j) BY <3>1, <3>3, <1>4, Zenon
        <3> QED BY <3>1, <3>4, Zenon DEF s, i, j
    <2>3. h = [x \in D |-> f[x]] BY DEF h
    <2> QED BY <2>2, <2>3, Zenon
<1> HIDE DEF h
<1> DEFINE G == Grammar(ts)
<1>7. G = [x \in D |-> Rule(ts, G, x[1], x[2], x[3])]
    BY <1>6, Zenon DEF Grammar, Parts, Places, Ends
<1> HIDE DEF G
<1>8. ASSUME NEW s \in Symbols, NEW i \in Places(ts), NEW j \in Ends(ts)
      PROVE  G[<<s, i, j>>] = Rule(ts, G, s, i, j)
    <2> DEFINE x == <<s, i, j>>
    <2>1. x \in D /\ x[1] = s /\ x[2] = i /\ x[3] = j BY DEF Parts
    <2>2. G[x] = Rule(ts, G, x[1], x[2], x[3])
        <3> HIDE DEF x, D
        <3> QED BY <1>7, <2>1, Zenon
    <2> QED BY <2>1, <2>2, Zenon
<1> QED BY <1>8 DEF G

-----------------------------------------------------------------------------
(* The equations of both, for a clause. *)

LEMMA ParserEquations ==
    ASSUME NEW ts \in Clauses, NEW p \in Places(ts)
    PROVE  LET P == Parser(ts) IN
           /\ P[<<"unary", p>>] = Unary(ts, P, p)
           /\ P[<<"and_expr", p>>] = LET r == P[<<"unary", p>>] IN
                IF r.ok /\ At(ts, r.pos) = "AND" THEN AllOf(r, P[<<"and_expr", r.pos + 1>>]) ELSE r
           /\ P[<<"expr", p>>] = LET r == P[<<"and_expr", p>>] IN
                IF r.ok /\ At(ts, r.pos) = "OR" THEN AnyOf(r, P[<<"expr", r.pos + 1>>]) ELSE r
<1> DEFINE P == Parser(ts)
<1>1. \A s \in Symbols : P[<<s, p>>] = Method(ts, P, s, p) BY ParserIs, Zenon
<1> HIDE DEF P
<1>2. /\ P[<<"unary", p>>] = Unary(ts, P, p)
      /\ P[<<"and_expr", p>>] = AndExpr(ts, P, p)
      /\ P[<<"expr", p>>] = Expr(ts, P, p)
    BY <1>1 DEF Method, Symbols
<1>3. P[<<"and_expr", p>>] = LET r == P[<<"unary", p>>] IN
                IF r.ok /\ At(ts, r.pos) = "AND" THEN AllOf(r, P[<<"and_expr", r.pos + 1>>]) ELSE r
    BY <1>2, Zenon DEF AndExpr
<1>4. P[<<"expr", p>>] = LET r == P[<<"and_expr", p>>] IN
                IF r.ok /\ At(ts, r.pos) = "OR" THEN AnyOf(r, P[<<"expr", r.pos + 1>>]) ELSE r
    BY <1>2, Zenon DEF Expr
<1> QED BY <1>2, <1>3, <1>4, Zenon DEF P

LEMMA GrammarEquations ==
    ASSUME NEW ts \in Clauses, NEW i \in Places(ts), NEW j \in Ends(ts)
    PROVE  LET G == Grammar(ts) IN
           /\ \A m : m \in G[<<"unary", i, j>>] <=> IsUnary(ts, G, i, j, m)
           /\ \A m : m \in G[<<"and_expr", i, j>>] <=>
                        m \in G[<<"unary", i, j>>] \/ ViaAndExpr(ts, G, i, j, m)
           /\ \A m : m \in G[<<"expr", i, j>>] <=>
                        m \in G[<<"and_expr", i, j>>] \/ ViaExpr(ts, G, i, j, m)
<1> DEFINE G == Grammar(ts)
<1>1. \A s \in Symbols : G[<<s, i, j>>] = Rule(ts, G, s, i, j) BY GrammarIs, Zenon
<1> HIDE DEF G
<1>2. /\ G[<<"unary", i, j>>] = AsUnary(ts, G, i, j)
      /\ G[<<"and_expr", i, j>>] = AsAndExpr(ts, G, i, j)
      /\ G[<<"expr", i, j>>] = AsExpr(ts, G, i, j)
    BY <1>1 DEF Rule, Symbols
<1>5. \A m : m \in G[<<"unary", i, j>>] <=> IsUnary(ts, G, i, j, m)
    <2>1. i \in Int /\ j \in Int BY ClauseTypes DEF Ends
    <2> QED BY <1>2, <2>1, InUnary
<1>3. \A m : m \in G[<<"and_expr", i, j>>] <=>
                m \in G[<<"unary", i, j>>] \/ ViaAndExpr(ts, G, i, j, m)
    BY <1>2, InAndExpr, Zenon
<1>4. \A m : m \in G[<<"expr", i, j>>] <=>
                m \in G[<<"and_expr", i, j>>] \/ ViaExpr(ts, G, i, j, m)
    BY <1>2, InExpr, Zenon
<1> QED BY <1>3, <1>4, <1>5, Zenon DEF G
-----------------------------------------------------------------------------
(* Soundness: what a method returns, the grammar derives.  The loops read an
   and_expr from the left, the grammar takes it apart from the right; so the
   induction is also about what stands before it. *)

LEMMA JoinAnd ==
    ASSUME NEW ts \in Clauses, NEW i \in Places(ts), NEW j \in Ends(ts), NEW k \in i .. j,
           ts[k] = "AND",
           NEW x \in Grammar(ts)[<<"and_expr", i, k - 1>>],
           NEW y \in Grammar(ts)[<<"unary", k + 1, j>>]
    PROVE  x \cap y \in Grammar(ts)[<<"and_expr", i, j>>]
<1>1. ViaAndExpr(ts, Grammar(ts), i, j, x \cap y) BY Zenon DEF ViaAndExpr
<1> QED BY <1>1, GrammarEquations, Zenon

LEMMA JoinOr ==
    ASSUME NEW ts \in Clauses, NEW i \in Places(ts), NEW j \in Ends(ts), NEW k \in i .. j,
           ts[k] = "OR",
           NEW x \in Grammar(ts)[<<"expr", i, k - 1>>],
           NEW y \in Grammar(ts)[<<"and_expr", k + 1, j>>]
    PROVE  x \cup y \in Grammar(ts)[<<"expr", i, j>>]
<1>1. ViaExpr(ts, Grammar(ts), i, j, x \cup y) BY Zenon DEF ViaExpr
<1> QED BY <1>1, GrammarEquations, Zenon

Derived(ts, s, p) ==
    LET r == Parser(ts)[<<s, p>>] IN r.ok => r.rows \in Grammar(ts)[<<s, p, r.pos - 1>>]

AndContinues(ts, p) ==
    LET r == Parser(ts)[<<"and_expr", p>>] IN
    r.ok => \A i \in Places(ts) : i < p /\ ts[p - 1] = "AND" =>
                \A x \in Grammar(ts)[<<"and_expr", i, p - 2>>] :
                    x \cap r.rows \in Grammar(ts)[<<"and_expr", i, r.pos - 1>>]

OrContinues(ts, p) ==
    LET r == Parser(ts)[<<"expr", p>>] IN
    r.ok => \A i \in Places(ts) : i < p /\ ts[p - 1] = "OR" =>
                \A x \in Grammar(ts)[<<"expr", i, p - 2>>] :
                    x \cup r.rows \in Grammar(ts)[<<"expr", i, r.pos - 1>>]

SoundAt(ts, p) ==
    /\ \A s \in Symbols : Derived(ts, s, p)
    /\ AndContinues(ts, p)
    /\ OrContinues(ts, p)

LEMMA UnarySound ==
    ASSUME NEW ts \in Clauses, NEW p \in Places(ts),
           \A q \in Places(ts) : q > p => SoundAt(ts, q)
    PROVE  Derived(ts, "unary", p)
<1> DEFINE P == Parser(ts)
           G == Grammar(ts)
           r == P[<<"unary", p>>]
           j == r.pos - 1
<1>0. SUFFICES ASSUME r.ok PROVE r.rows \in G[<<"unary", p, j>>]
    BY Zenon DEF Derived
<1>a. Len(ts) \in Nat /\ p \in Nat /\ p > 0 /\ p <= Len(ts) + 1 BY ClauseTypes
<1>1. r \in Outcomes(ts, p) BY ParserIs, Zenon DEF Symbols
<1>2. r.rows \in SUBSET Rows /\ r.pos \in Places(ts) /\ r.pos > p
    BY <1>0, <1>1, OutcomeFields
<1>3. j \in Ends(ts) /\ p <= j /\ p <= Len(ts)
    BY <1>2, <1>a DEF Places, Ends
<1>4. r = Unary(ts, P, p) BY ParserEquations, Zenon
<1>5. \A m : m \in G[<<"unary", p, j>>] <=> IsUnary(ts, G, p, j, m)
    BY <1>3, GrammarEquations, Zenon
<1>6. At(ts, p) = ts[p] BY <1>3, ClauseTypes
<1>7. Error.ok = FALSE BY DEF Error
<1>8. CASE At(ts, p) \in {"NOT", "("}
    <2> DEFINE s == IF At(ts, p) = "NOT" THEN "unary" ELSE "expr"
               o == P[<<s, p + 1>>]
    <2>1. p + 1 \in Places(ts) /\ p + 1 > p BY <1>a, <1>3 DEF Places
    <2>2. s \in Symbols BY DEF Symbols
    <2>3. o \in Outcomes(ts, p + 1) BY <2>1, <2>2, ParserIs, Zenon
    <2>4. o.ok => o.rows \in G[<<s, p + 1, o.pos - 1>>]
        <3>1. Derived(ts, s, p + 1) BY <2>1, <2>2, Zenon DEF SoundAt
        <3> QED BY <3>1 DEF Derived
    <2>5. CASE At(ts, p) = "NOT"
        <3>1. r = Not(o) /\ s = "unary" BY <1>4, <2>5 DEF Unary
        <3> HIDE DEF o, r
        <3>2. o.ok /\ r.rows = Negated(o.rows) /\ r.pos = o.pos
            BY <1>0, <1>7, <3>1 DEF Not, Parsed
        <3>3. o.rows \in G[<<"unary", p + 1, j>>] BY <2>4, <3>1, <3>2, Zenon
        <3> HIDE DEF j
        <3> QED BY <1>3, <1>5, <1>6, <2>5, <3>2, <3>3, Zenon DEF IsUnary
    <2>6. CASE At(ts, p) = "("
        <3>1. r = Closed(ts, o) /\ s = "expr" BY <1>4, <2>6 DEF Unary
        <3> HIDE DEF o, r
        <3>2. o.ok /\ r.rows = o.rows /\ r.pos = o.pos + 1 /\ At(ts, o.pos) = ")"
            BY <1>0, <1>7, <3>1 DEF Closed, Parsed
        <3>3. o.pos \in Places(ts) BY <2>1, <2>3, OutcomeFields
        <3>4. o.pos = j /\ o.pos - 1 = j - 1 BY <3>2, <3>3 DEF Places
        <3>5. r.rows \in G[<<"expr", p + 1, j - 1>>] BY <2>4, <3>1, <3>2, <3>4, Zenon
        <3>6. ts[j] = ")" BY <3>2, <3>3, <3>4, ClauseTypes
        <3> HIDE DEF j
        <3> QED BY <1>3, <1>5, <1>6, <2>6, <3>5, <3>6, Zenon DEF IsUnary
    <2> QED BY <1>8, <2>5, <2>6
<1>9. CASE At(ts, p) \notin {"NOT", "("}
    <2>1. r = Comparison(ts, p) BY <1>4, <1>9 DEF Unary
    <2> HIDE DEF r
    <2>2. ts[p] \in Columns /\ r.rows = Compared(ts[p]) /\ r.pos = p + 1
        BY <1>0, <1>6, <1>7, <2>1 DEF Comparison, Parsed
    <2>3. j = p BY <2>2, <1>a
    <2> HIDE DEF j
    <2> QED BY <1>3, <1>5, <2>2, <2>3, Zenon DEF IsUnary
<1> QED BY <1>8, <1>9

LEMMA AndExprSound ==
    ASSUME NEW ts \in Clauses, NEW p \in Places(ts),
           \A q \in Places(ts) : q > p => SoundAt(ts, q)
    PROVE  Derived(ts, "and_expr", p) /\ AndContinues(ts, p)
<1> DEFINE P == Parser(ts)
           G == Grammar(ts)
           u == P[<<"unary", p>>]
           r == P[<<"and_expr", p>>]
           o == P[<<"and_expr", u.pos + 1>>]
<1>0. SUFFICES ASSUME r.ok
               PROVE  /\ r.rows \in G[<<"and_expr", p, r.pos - 1>>]
                      /\ \A i \in Places(ts) : i < p /\ ts[p - 1] = "AND" =>
                             \A x \in G[<<"and_expr", i, p - 2>>] :
                                 x \cap r.rows \in G[<<"and_expr", i, r.pos - 1>>]
    BY Zenon DEF Derived, AndContinues
<1>a. Len(ts) \in Nat /\ p \in Nat /\ p > 0 /\ p <= Len(ts) + 1 BY ClauseTypes
<1>1. r = IF u.ok /\ At(ts, u.pos) = "AND" THEN AllOf(u, o) ELSE u
    BY ParserEquations, Zenon
<1>2. u \in Outcomes(ts, p) BY ParserIs, Zenon DEF Symbols
<1>3. u.ok => u.rows \in G[<<"unary", p, u.pos - 1>>]
    BY UnarySound, Zenon DEF Derived
<1> HIDE DEF u, r
<1>4. Error.ok = FALSE BY DEF Error
<1>5. u.ok
    <2>1. CASE u.ok /\ At(ts, u.pos) = "AND" BY <2>1
    <2>2. CASE ~(u.ok /\ At(ts, u.pos) = "AND") BY <1>0, <1>1, <2>2
    <2> QED BY <2>1, <2>2
<1>6. u.pos \in Places(ts) /\ u.pos > p /\ u.rows \in SUBSET Rows
    BY <1>2, <1>5, OutcomeFields
<1> DEFINE j == u.pos - 1
<1>7. j \in Ends(ts) /\ p <= j BY <1>6, <1>a DEF Places, Ends
<1>8. u.rows \in G[<<"and_expr", p, j>>] BY <1>3, <1>5, <1>7, GrammarEquations, Zenon
<1>9. ASSUME NEW i \in Places(ts), i < p, ts[p - 1] = "AND", NEW x \in G[<<"and_expr", i, p - 2>>]
      PROVE  x \cap u.rows \in G[<<"and_expr", i, j>>]
    <2>1. p - 1 \in i .. j /\ (p - 1) - 1 = p - 2 /\ (p - 1) + 1 = p
        BY <1>7, <1>9, <1>a DEF Places, Ends
    <2> HIDE DEF j
    <2> QED BY <1>3, <1>5, <1>7, <1>9, <2>1, JoinAnd DEF j
<1>10. CASE At(ts, u.pos) = "AND"
    <2> DEFINE n == u.pos + 1
    <2>1. n \in Places(ts) /\ n > p /\ n - 1 = u.pos /\ n - 2 = j /\ ts[u.pos] = "AND" /\ p < n
        BY <1>6, <1>10, <1>a, ClauseTypes DEF Places
    <2>2. r = AllOf(u, o) BY <1>1, <1>5, <1>10
    <2>3. AndContinues(ts, n) BY <2>1, Zenon DEF SoundAt
    <2>4. o.ok => \A i \in Places(ts) : i < n /\ ts[n - 1] = "AND" =>
                \A x \in G[<<"and_expr", i, n - 2>>] :
                    x \cap o.rows \in G[<<"and_expr", i, o.pos - 1>>]
        BY <2>3, Zenon DEF AndContinues
    <2> HIDE DEF o
    <2>5. o.ok /\ r.rows = u.rows \cap o.rows /\ r.pos = o.pos
        BY <1>0, <1>4, <2>2 DEF AllOf, Parsed
    <2>6. \A i \in Places(ts) : i < n =>
                \A x \in G[<<"and_expr", i, j>>] : x \cap o.rows \in G[<<"and_expr", i, r.pos - 1>>]
        <3> HIDE DEF n, j
        <3> QED BY <2>1, <2>4, <2>5, Zenon
    <2>7. r.rows \in G[<<"and_expr", p, r.pos - 1>>]
        <3> HIDE DEF j
        <3> QED BY <1>8, <2>1, <2>5, <2>6, Zenon
    <2>8. ASSUME NEW i \in Places(ts), i < p, ts[p - 1] = "AND", NEW x \in G[<<"and_expr", i, p - 2>>]
          PROVE  x \cap r.rows \in G[<<"and_expr", i, r.pos - 1>>]
        <3>1. (x \cap u.rows) \cap o.rows = x \cap r.rows BY <2>5
        <3>2. i < n BY <2>8, <2>1, <1>a DEF Places
        <3> HIDE DEF n, j
        <3>3. x \cap u.rows \in G[<<"and_expr", i, j>>] BY <1>9, <2>8
        <3>4. (x \cap u.rows) \cap o.rows \in G[<<"and_expr", i, r.pos - 1>>]
            BY <2>6, <3>2, <3>3, Zenon
        <3> QED BY <3>1, <3>4, Zenon
    <2> QED BY <2>7, <2>8, Zenon
<1>11. CASE At(ts, u.pos) # "AND"
    <2>1. r = u BY <1>1, <1>11
    <2> QED BY <1>8, <1>9, <2>1, Zenon
<1> QED BY <1>10, <1>11

LEMMA ExprSound ==
    ASSUME NEW ts \in Clauses, NEW p \in Places(ts),
           \A q \in Places(ts) : q > p => SoundAt(ts, q)
    PROVE  Derived(ts, "expr", p) /\ OrContinues(ts, p)
<1> DEFINE P == Parser(ts)
           G == Grammar(ts)
           u == P[<<"and_expr", p>>]
           r == P[<<"expr", p>>]
           o == P[<<"expr", u.pos + 1>>]
<1>0. SUFFICES ASSUME r.ok
               PROVE  /\ r.rows \in G[<<"expr", p, r.pos - 1>>]
                      /\ \A i \in Places(ts) : i < p /\ ts[p - 1] = "OR" =>
                             \A x \in G[<<"expr", i, p - 2>>] :
                                 x \cup r.rows \in G[<<"expr", i, r.pos - 1>>]
    BY Zenon DEF Derived, OrContinues
<1>a. Len(ts) \in Nat /\ p \in Nat /\ p > 0 /\ p <= Len(ts) + 1 BY ClauseTypes
<1>1. r = IF u.ok /\ At(ts, u.pos) = "OR" THEN AnyOf(u, o) ELSE u
    BY ParserEquations, Zenon
<1>2. u \in Outcomes(ts, p) BY ParserIs, Zenon DEF Symbols
<1>3. u.ok => u.rows \in G[<<"and_expr", p, u.pos - 1>>]
    BY AndExprSound, Zenon DEF Derived
<1> HIDE DEF u, r
<1>4. Error.ok = FALSE BY DEF Error
<1>5. u.ok
    <2>1. CASE u.ok /\ At(ts, u.pos) = "OR" BY <2>1
    <2>2. CASE ~(u.ok /\ At(ts, u.pos) = "OR") BY <1>0, <1>1, <2>2
    <2> QED BY <2>1, <2>2
<1>6. u.pos \in Places(ts) /\ u.pos > p /\ u.rows \in SUBSET Rows
    BY <1>2, <1>5, OutcomeFields
<1> DEFINE j == u.pos - 1
<1>7. j \in Ends(ts) /\ p <= j BY <1>6, <1>a DEF Places, Ends
<1>8. u.rows \in G[<<"expr", p, j>>] BY <1>3, <1>5, <1>7, GrammarEquations, Zenon
<1>9. ASSUME NEW i \in Places(ts), i < p, ts[p - 1] = "OR", NEW x \in G[<<"expr", i, p - 2>>]
      PROVE  x \cup u.rows \in G[<<"expr", i, j>>]
    <2>1. p - 1 \in i .. j /\ (p - 1) - 1 = p - 2 /\ (p - 1) + 1 = p
        BY <1>7, <1>9, <1>a DEF Places, Ends
    <2> HIDE DEF j
    <2> QED BY <1>3, <1>5, <1>7, <1>9, <2>1, JoinOr DEF j
<1>10. CASE At(ts, u.pos) = "OR"
    <2> DEFINE n == u.pos + 1
    <2>1. n \in Places(ts) /\ n > p /\ n - 1 = u.pos /\ n - 2 = j /\ ts[u.pos] = "OR" /\ p < n
        BY <1>6, <1>10, <1>a, ClauseTypes DEF Places
    <2>2. r = AnyOf(u, o) BY <1>1, <1>5, <1>10
    <2>3. OrContinues(ts, n) BY <2>1, Zenon DEF SoundAt
    <2>4. o.ok => \A i \in Places(ts) : i < n /\ ts[n - 1] = "OR" =>
                \A x \in G[<<"expr", i, n - 2>>] :
                    x \cup o.rows \in G[<<"expr", i, o.pos - 1>>]
        BY <2>3, Zenon DEF OrContinues
    <2> HIDE DEF o
    <2>5. o.ok /\ r.rows = u.rows \cup o.rows /\ r.pos = o.pos
        BY <1>0, <1>4, <2>2 DEF AnyOf, Parsed
    <2>6. \A i \in Places(ts) : i < n =>
                \A x \in G[<<"expr", i, j>>] : x \cup o.rows \in G[<<"expr", i, r.pos - 1>>]
        <3> HIDE DEF n, j
        <3> QED BY <2>1, <2>4, <2>5, Zenon
    <2>7. r.rows \in G[<<"expr", p, r.pos - 1>>]
        <3> HIDE DEF j
        <3> QED BY <1>8, <2>1, <2>5, <2>6, Zenon
    <2>8. ASSUME NEW i \in Places(ts), i < p, ts[p - 1] = "OR", NEW x \in G[<<"expr", i, p - 2>>]
          PROVE  x \cup r.rows \in G[<<"expr", i, r.pos - 1>>]
        <3>1. (x \cup u.rows) \cup o.rows = x \cup r.rows BY <2>5
        <3>2. i < n BY <2>8, <2>1, <1>a DEF Places
        <3> HIDE DEF n, j
        <3>3. x \cup u.rows \in G[<<"expr", i, j>>] BY <1>9, <2>8
        <3>4. (x \cup u.rows) \cup o.rows \in G[<<"expr", i, r.pos - 1>>]
            BY <2>6, <3>2, <3>3, Zenon
        <3> QED BY <3>1, <3>4, Zenon
    <2> QED BY <2>7, <2>8, Zenon
<1>11. CASE At(ts, u.pos) # "OR"
    <2>1. r = u BY <1>1, <1>11
    <2> QED BY <1>8, <1>9, <2>1, Zenon
<1> QED BY <1>10, <1>11

LEMMA ParserSound ==
    ASSUME NEW ts \in Clauses
    PROVE  \A p \in Places(ts) : SoundAt(ts, p)
<1> DEFINE S == {n \in Nat : \A p \in Places(ts) : p + n = Len(ts) + 1 => SoundAt(ts, p)}
<1>0. Len(ts) \in Nat /\ Places(ts) \subseteq Nat BY ClauseTypes
<1>1. ASSUME NEW n \in Nat, \A m \in Nat : m < n => m \in S
      PROVE  n \in S
    <2>1. SUFFICES ASSUME NEW p \in Places(ts), p + n = Len(ts) + 1
                   PROVE  SoundAt(ts, p)
        OBVIOUS
    <2>2. ASSUME NEW q \in Places(ts), q > p PROVE SoundAt(ts, q)
        <3> DEFINE m == Len(ts) + 1 - q
        <3>1. m \in Nat /\ m < n /\ q + m = Len(ts) + 1 BY <1>0, <2>1, <2>2 DEF Places
        <3>2. m \in S BY <1>1, <3>1
        <3> QED BY <3>1, <3>2
    <2>3. Derived(ts, "unary", p) BY <2>2, UnarySound
    <2>4. Derived(ts, "and_expr", p) /\ AndContinues(ts, p) BY <2>2, AndExprSound
    <2>5. Derived(ts, "expr", p) /\ OrContinues(ts, p) BY <2>2, ExprSound
    <2> QED BY <2>3, <2>4, <2>5 DEF SoundAt, Symbols
<1>2. \A n \in Nat : n \in S
    <2> HIDE DEF S
    <2> QED BY <1>1, StrongInduction
<1>3. ASSUME NEW p \in Places(ts) PROVE SoundAt(ts, p)
    <2>1. Len(ts) + 1 - p \in Nat /\ p + (Len(ts) + 1 - p) = Len(ts) + 1 BY <1>0 DEF Places
    <2>2. Len(ts) + 1 - p \in S BY <1>2, <2>1
    <2> QED BY <2>1, <2>2
<1> QED BY <1>3
-----------------------------------------------------------------------------
(* Completeness: what the grammar derives from i to j, the parser finds from i
   on, and goes on at j + 1: with a further operand if the keyword is there. *)

OnAnd(ts, m, q) ==
    IF At(ts, q) = "AND" THEN AllOf(Parsed(m, q), Parser(ts)[<<"and_expr", q + 1>>])
    ELSE Parsed(m, q)

OnOr(ts, m, q) ==
    IF At(ts, q) = "OR" THEN AnyOf(Parsed(m, q), Parser(ts)[<<"expr", q + 1>>])
    ELSE Parsed(m, q)

FoundUnary(ts, i, j) ==
    \A m \in Grammar(ts)[<<"unary", i, j>>] : Parser(ts)[<<"unary", i>>] = Parsed(m, j + 1)
FoundAnd(ts, i, j) ==
    \A m \in Grammar(ts)[<<"and_expr", i, j>>] :
        Parser(ts)[<<"and_expr", i>>] = OnAnd(ts, m, j + 1)
FoundExpr(ts, i, j) ==
    At(ts, j + 1) # "AND" =>
    \A m \in Grammar(ts)[<<"expr", i, j>>] : Parser(ts)[<<"expr", i>>] = OnOr(ts, m, j + 1)
CompleteAt(ts, i, j) == FoundUnary(ts, i, j) /\ FoundAnd(ts, i, j) /\ FoundExpr(ts, i, j)

CompleteWithin(ts, i, j) ==
    \A x \in Places(ts), y \in Ends(ts) : y - x < j - i => CompleteAt(ts, x, y)

LEMMA AllOfTwo ==
    ASSUME NEW x, NEW y, NEW q, NEW z
    PROVE  AllOf(Parsed(x, q), Parsed(y, z)) = Parsed(x \cap y, z)
BY DEF AllOf, Parsed

LEMMA AllOfParsed ==
    ASSUME NEW x, NEW y, NEW q, NEW z, NEW o
    PROVE  AllOf(Parsed(x, q), AllOf(Parsed(y, z), o)) = AllOf(Parsed(x \cap y, z), o)
<1>1. ASSUME NEW r, NEW w, NEW v PROVE AllOf(Parsed(w, v), r) = IF r.ok THEN Parsed(w \cap r.rows, r.pos) ELSE Error
    BY DEF AllOf, Parsed
<1>3. Error.ok = FALSE BY DEF Error
<1>5. CASE o.ok
    <2>1. AllOf(Parsed(y, z), o) = Parsed(y \cap o.rows, o.pos) BY <1>1, <1>5, Zenon
    <2>2. AllOf(Parsed(x, q), Parsed(y \cap o.rows, o.pos)) = Parsed(x \cap (y \cap o.rows), o.pos)
        BY DEF AllOf, Parsed
    <2>3. AllOf(Parsed(x \cap y, z), o) = Parsed((x \cap y) \cap o.rows, o.pos) BY <1>1, <1>5, Zenon
    <2>4. x \cap (y \cap o.rows) = (x \cap y) \cap o.rows OBVIOUS
    <2> QED BY <2>1, <2>2, <2>3, <2>4, Zenon
<1>6. CASE ~o.ok
    <2>1. AllOf(Parsed(y, z), o) = Error /\ AllOf(Parsed(x \cap y, z), o) = Error
        BY <1>1, <1>6, Zenon
    <2>2. AllOf(Parsed(x, q), Error) = Error BY <1>1, <1>3, Zenon
    <2> QED BY <2>1, <2>2, Zenon
<1> QED BY <1>5, <1>6, Zenon

LEMMA AnyOfTwo ==
    ASSUME NEW x, NEW y, NEW q, NEW z
    PROVE  AnyOf(Parsed(x, q), Parsed(y, z)) = Parsed(x \cup y, z)
BY DEF AnyOf, Parsed

LEMMA AnyOfParsed ==
    ASSUME NEW x, NEW y, NEW q, NEW z, NEW o
    PROVE  AnyOf(Parsed(x, q), AnyOf(Parsed(y, z), o)) = AnyOf(Parsed(x \cup y, z), o)
<1>1. ASSUME NEW r, NEW w, NEW v PROVE AnyOf(Parsed(w, v), r) = IF r.ok THEN Parsed(w \cup r.rows, r.pos) ELSE Error
    BY DEF AnyOf, Parsed
<1>3. Error.ok = FALSE BY DEF Error
<1>5. CASE o.ok
    <2>1. AnyOf(Parsed(y, z), o) = Parsed(y \cup o.rows, o.pos) BY <1>1, <1>5, Zenon
    <2>2. AnyOf(Parsed(x, q), Parsed(y \cup o.rows, o.pos)) = Parsed(x \cup (y \cup o.rows), o.pos)
        BY DEF AnyOf, Parsed
    <2>3. AnyOf(Parsed(x \cup y, z), o) = Parsed((x \cup y) \cup o.rows, o.pos) BY <1>1, <1>5, Zenon
    <2>4. x \cup (y \cup o.rows) = (x \cup y) \cup o.rows OBVIOUS
    <2> QED BY <2>1, <2>2, <2>3, <2>4, Zenon
<1>6. CASE ~o.ok
    <2>1. AnyOf(Parsed(y, z), o) = Error /\ AnyOf(Parsed(x \cup y, z), o) = Error
        BY <1>1, <1>6, Zenon
    <2>2. AnyOf(Parsed(x, q), Error) = Error BY <1>1, <1>3, Zenon
    <2> QED BY <2>1, <2>2, Zenon
<1> QED BY <1>5, <1>6, Zenon

LEMMA ParsedFields ==
    ASSUME NEW m, NEW q
    PROVE  Parsed(m, q).ok = TRUE /\ Parsed(m, q).rows = m /\ Parsed(m, q).pos = q
BY DEF Parsed

LEMMA UnaryComplete ==
    ASSUME NEW ts \in Clauses, NEW i \in Places(ts), NEW j \in Ends(ts), CompleteWithin(ts, i, j)
    PROVE  FoundUnary(ts, i, j)
<1> DEFINE P == Parser(ts)
           G == Grammar(ts)
<1>0. SUFFICES ASSUME NEW m \in G[<<"unary", i, j>>]
               PROVE  P[<<"unary", i>>] = Parsed(m, j + 1)
    BY Zenon DEF FoundUnary
<1>a. Len(ts) \in Nat /\ i \in Nat /\ i > 0 /\ i <= Len(ts) + 1 /\ j \in Nat /\ j <= Len(ts)
    BY ClauseTypes DEF Ends
<1>1. IsUnary(ts, G, i, j, m) BY <1>0, GrammarEquations, Zenon
<1>2. i <= j BY <1>1 DEF IsUnary
<1>3. At(ts, i) = ts[i] BY <1>a, <1>2, ClauseTypes
<1>4. P[<<"unary", i>>] = Unary(ts, P, i) BY ParserEquations, Zenon
<1>5. /\ i + 1 \in Places(ts) /\ j - (i + 1) < j - i
      /\ j - 1 \in Ends(ts) /\ (j - 1) - (i + 1) < j - i /\ (j - 1) + 1 = j
    BY <1>a, <1>2 DEF Places, Ends
<1> HIDE DEF P, G
<1>6. CASE i = j /\ ts[i] \in Columns /\ m = Compared(ts[i])
    <2>1. At(ts, i) \notin {"NOT", "("} BY <1>3, <1>6, ColumnsAssumption DEF Keywords
    <2>2. Unary(ts, P, i) = Comparison(ts, i) BY <2>1 DEF Unary
    <2>3. Comparison(ts, i) = Parsed(Compared(ts[i]), i + 1) BY <1>3, <1>6 DEF Comparison
    <2> QED BY <1>4, <1>6, <2>2, <2>3
<1>7. ASSUME ts[i] = "NOT", NEW x \in G[<<"unary", i + 1, j>>], m = Negated(x)
      PROVE  P[<<"unary", i>>] = Parsed(m, j + 1)
    <2>1. FoundUnary(ts, i + 1, j) BY <1>5, Zenon DEF CompleteWithin, CompleteAt
    <2>2. P[<<"unary", i + 1>>] = Parsed(x, j + 1) BY <2>1, <1>7, Zenon DEF FoundUnary, P, G
    <2>3. Unary(ts, P, i) = Not(Parsed(x, j + 1)) BY <1>3, <1>7, <2>2 DEF Unary
    <2>4. Parsed(x, j + 1).ok /\ Parsed(x, j + 1).rows = x /\ Parsed(x, j + 1).pos = j + 1
        BY ParsedFields
    <2> QED BY <1>4, <1>7, <2>3, <2>4 DEF Not
<1>8. ASSUME ts[i] = "(", ts[j] = ")", m \in G[<<"expr", i + 1, j - 1>>]
      PROVE  P[<<"unary", i>>] = Parsed(m, j + 1)
    <2>0. At(ts, j) = ")" BY <1>8, <1>a, <1>2 DEF At
    <2>1. FoundExpr(ts, i + 1, j - 1) BY <1>5, Zenon DEF CompleteWithin, CompleteAt
    <2>2. P[<<"expr", i + 1>>] = OnOr(ts, m, j)
        BY <2>0, <2>1, <1>5, <1>8 DEF FoundExpr, P, G
    <2>3. OnOr(ts, m, j) = Parsed(m, j) BY <2>0 DEF OnOr
    <2>4. Unary(ts, P, i) = Closed(ts, Parsed(m, j)) BY <1>3, <1>8, <2>2, <2>3 DEF Unary
    <2>5. Parsed(m, j).ok /\ Parsed(m, j).rows = m /\ Parsed(m, j).pos = j BY ParsedFields
    <2> QED BY <1>4, <2>0, <2>4, <2>5 DEF Closed
<1> QED BY <1>1, <1>6, <1>7, <1>8, Zenon DEF IsUnary

LEMMA AndComplete ==
    ASSUME NEW ts \in Clauses, NEW i \in Places(ts), NEW j \in Ends(ts), CompleteWithin(ts, i, j)
    PROVE  FoundAnd(ts, i, j)
<1> DEFINE P == Parser(ts)
           G == Grammar(ts)
<1>0. SUFFICES ASSUME NEW m \in G[<<"and_expr", i, j>>]
               PROVE  P[<<"and_expr", i>>] = OnAnd(ts, m, j + 1)
    BY Zenon DEF FoundAnd
<1>1. m \in G[<<"unary", i, j>>] \/ ViaAndExpr(ts, G, i, j, m)
    BY <1>0, GrammarEquations, Zenon
<1>2. ASSUME NEW p \in Places(ts), NEW q, NEW y, P[<<"unary", p>>] = Parsed(y, q)
      PROVE  P[<<"and_expr", p>>] = OnAnd(ts, y, q)
    <2>1. P[<<"and_expr", p>>] = LET r == P[<<"unary", p>>] IN
                IF r.ok /\ At(ts, r.pos) = "AND" THEN AllOf(r, P[<<"and_expr", r.pos + 1>>]) ELSE r
        BY ParserEquations, Zenon
    <2>2. Parsed(y, q).ok /\ Parsed(y, q).pos = q BY ParsedFields
    <2>3. CASE At(ts, q) = "AND"
        <3>1. P[<<"and_expr", p>>] = AllOf(Parsed(y, q), P[<<"and_expr", q + 1>>])
            BY <1>2, <2>1, <2>2, <2>3
        <3> QED BY <2>3, <3>1 DEF OnAnd
    <2>4. CASE At(ts, q) # "AND"
        <3>1. P[<<"and_expr", p>>] = Parsed(y, q) BY <1>2, <2>1, <2>2, <2>4
        <3> QED BY <2>4, <3>1 DEF OnAnd
    <2> QED BY <2>3, <2>4
<1>3. CASE m \in G[<<"unary", i, j>>]
    <2>1. P[<<"unary", i>>] = Parsed(m, j + 1) BY <1>3, UnaryComplete, Zenon DEF FoundUnary
    <2> QED BY <1>2, <2>1, Zenon
<1>4. ASSUME NEW k \in i .. j, ts[k] = "AND",
             NEW x \in G[<<"and_expr", i, k - 1>>], NEW y \in G[<<"unary", k + 1, j>>], m = x \cap y
      PROVE  P[<<"and_expr", i>>] = OnAnd(ts, m, j + 1)
    <2>1. /\ k \in Places(ts) /\ k <= Len(ts) /\ k - 1 \in Ends(ts) /\ k + 1 \in Places(ts)
          /\ (k - 1) - i < j - i /\ j - (k + 1) < j - i
        BY CutParts
    <2>2. At(ts, k) = "AND" /\ (k - 1) + 1 = k BY <1>4, <2>1, ClauseTypes
    <2>3. FoundAnd(ts, i, k - 1) /\ FoundUnary(ts, k + 1, j)
        BY <2>1, Zenon DEF CompleteWithin, CompleteAt
    <2>4. P[<<"and_expr", i>>] = OnAnd(ts, x, k) BY <1>4, <2>2, <2>3, Zenon DEF FoundAnd
    <2>5. P[<<"unary", k + 1>>] = Parsed(y, j + 1) BY <1>4, <2>3, Zenon DEF FoundUnary
    <2>6. P[<<"and_expr", k + 1>>] = OnAnd(ts, y, j + 1) BY <1>2, <2>1, <2>5, Zenon
    <2>7. OnAnd(ts, x, k) = AllOf(Parsed(x, k), OnAnd(ts, y, j + 1))
        BY <2>2, <2>6, Zenon DEF OnAnd
    <2>8. AllOf(Parsed(x, k), OnAnd(ts, y, j + 1)) = OnAnd(ts, x \cap y, j + 1)
        <3> DEFINE o == P[<<"and_expr", (j + 1) + 1>>]
        <3>1. CASE At(ts, j + 1) = "AND"
            <4>1. /\ OnAnd(ts, y, j + 1) = AllOf(Parsed(y, j + 1), o)
                  /\ OnAnd(ts, x \cap y, j + 1) = AllOf(Parsed(x \cap y, j + 1), o)
                BY <3>1 DEF OnAnd
            <4> HIDE DEF o
            <4>2. AllOf(Parsed(x, k), AllOf(Parsed(y, j + 1), o)) = AllOf(Parsed(x \cap y, j + 1), o)
                BY AllOfParsed
            <4> QED BY <4>1, <4>2
        <3>2. CASE At(ts, j + 1) # "AND"
            <4>1. OnAnd(ts, y, j + 1) = Parsed(y, j + 1) /\ OnAnd(ts, x \cap y, j + 1) = Parsed(x \cap y, j + 1)
                BY <3>2 DEF OnAnd
            <4>2. AllOf(Parsed(x, k), Parsed(y, j + 1)) = Parsed(x \cap y, j + 1)
                BY AllOfTwo
            <4> QED BY <4>1, <4>2
        <3> QED BY <3>1, <3>2
    <2> QED BY <1>4, <2>4, <2>7, <2>8, Zenon
<1> QED BY <1>1, <1>3, <1>4, Zenon DEF ViaAndExpr

LEMMA ExprComplete ==
    ASSUME NEW ts \in Clauses, NEW i \in Places(ts), NEW j \in Ends(ts), CompleteWithin(ts, i, j)
    PROVE  FoundExpr(ts, i, j)
<1> DEFINE P == Parser(ts)
           G == Grammar(ts)
<1>0. SUFFICES ASSUME At(ts, j + 1) # "AND", NEW m \in G[<<"expr", i, j>>]
               PROVE  P[<<"expr", i>>] = OnOr(ts, m, j + 1)
    BY Zenon DEF FoundExpr
<1>1. m \in G[<<"and_expr", i, j>>] \/ ViaExpr(ts, G, i, j, m)
    BY <1>0, GrammarEquations, Zenon
<1>2. ASSUME NEW p \in Places(ts), NEW q, NEW y, P[<<"and_expr", p>>] = Parsed(y, q)
      PROVE  P[<<"expr", p>>] = OnOr(ts, y, q)
    <2>1. P[<<"expr", p>>] = LET r == P[<<"and_expr", p>>] IN
                IF r.ok /\ At(ts, r.pos) = "OR" THEN AnyOf(r, P[<<"expr", r.pos + 1>>]) ELSE r
        BY ParserEquations, Zenon
    <2>2. Parsed(y, q).ok /\ Parsed(y, q).pos = q BY ParsedFields
    <2>3. CASE At(ts, q) = "OR"
        <3>1. P[<<"expr", p>>] = AnyOf(Parsed(y, q), P[<<"expr", q + 1>>])
            BY <1>2, <2>1, <2>2, <2>3
        <3> QED BY <2>3, <3>1 DEF OnOr
    <2>4. CASE At(ts, q) # "OR"
        <3>1. P[<<"expr", p>>] = Parsed(y, q) BY <1>2, <2>1, <2>2, <2>4
        <3> QED BY <2>4, <3>1 DEF OnOr
    <2> QED BY <2>3, <2>4
<1>3. CASE m \in G[<<"and_expr", i, j>>]
    <2>1. P[<<"and_expr", i>>] = OnAnd(ts, m, j + 1) BY <1>3, AndComplete, Zenon DEF FoundAnd
    <2>2. P[<<"and_expr", i>>] = Parsed(m, j + 1) BY <1>0, <2>1, Zenon DEF OnAnd
    <2> QED BY <1>2, <2>2, Zenon
<1>4. ASSUME NEW k \in i .. j, ts[k] = "OR",
             NEW x \in G[<<"expr", i, k - 1>>], NEW y \in G[<<"and_expr", k + 1, j>>], m = x \cup y
      PROVE  P[<<"expr", i>>] = OnOr(ts, m, j + 1)
    <2>1. /\ k \in Places(ts) /\ k <= Len(ts) /\ k - 1 \in Ends(ts) /\ k + 1 \in Places(ts)
          /\ (k - 1) - i < j - i /\ j - (k + 1) < j - i
        BY CutParts
    <2>2. At(ts, k) = "OR" /\ (k - 1) + 1 = k BY <1>4, <2>1, ClauseTypes
    <2>3. FoundExpr(ts, i, k - 1) /\ FoundAnd(ts, k + 1, j)
        BY <2>1, Zenon DEF CompleteWithin, CompleteAt
    <2>4. P[<<"expr", i>>] = OnOr(ts, x, k)
        <3>1. At(ts, (k - 1) + 1) # "AND" BY <2>2
        <3> QED BY <1>4, <2>2, <2>3, <3>1, Zenon DEF FoundExpr
    <2>5. P[<<"and_expr", k + 1>>] = OnAnd(ts, y, j + 1) BY <1>4, <2>3, Zenon DEF FoundAnd
    <2>6. P[<<"and_expr", k + 1>>] = Parsed(y, j + 1) BY <1>0, <2>5, Zenon DEF OnAnd
    <2>7. P[<<"expr", k + 1>>] = OnOr(ts, y, j + 1) BY <1>2, <2>1, <2>6, Zenon
    <2>8. OnOr(ts, x, k) = AnyOf(Parsed(x, k), OnOr(ts, y, j + 1))
        BY <2>2, <2>7, Zenon DEF OnOr
    <2>9. AnyOf(Parsed(x, k), OnOr(ts, y, j + 1)) = OnOr(ts, x \cup y, j + 1)
        <3> DEFINE o == P[<<"expr", (j + 1) + 1>>]
        <3>1. CASE At(ts, j + 1) = "OR"
            <4>1. /\ OnOr(ts, y, j + 1) = AnyOf(Parsed(y, j + 1), o)
                  /\ OnOr(ts, x \cup y, j + 1) = AnyOf(Parsed(x \cup y, j + 1), o)
                BY <3>1 DEF OnOr
            <4> HIDE DEF o
            <4>2. AnyOf(Parsed(x, k), AnyOf(Parsed(y, j + 1), o)) = AnyOf(Parsed(x \cup y, j + 1), o)
                BY AnyOfParsed
            <4> QED BY <4>1, <4>2
        <3>2. CASE At(ts, j + 1) # "OR"
            <4>1. OnOr(ts, y, j + 1) = Parsed(y, j + 1) /\ OnOr(ts, x \cup y, j + 1) = Parsed(x \cup y, j + 1)
                BY <3>2 DEF OnOr
            <4>2. AnyOf(Parsed(x, k), Parsed(y, j + 1)) = Parsed(x \cup y, j + 1)
                BY AnyOfTwo
            <4> QED BY <4>1, <4>2
        <3> QED BY <3>1, <3>2
    <2> QED BY <1>4, <2>4, <2>8, <2>9, Zenon
<1> QED BY <1>1, <1>3, <1>4, Zenon DEF ViaExpr

LEMMA ParserComplete ==
    ASSUME NEW ts \in Clauses
    PROVE  \A i \in Places(ts), j \in Ends(ts) : CompleteAt(ts, i, j)
<1> DEFINE S == {n \in Nat : \A i \in Places(ts), j \in Ends(ts) :
                                j - i + Len(ts) + 1 = n => CompleteAt(ts, i, j)}
<1>0. Len(ts) \in Nat /\ Places(ts) \subseteq Int /\ Ends(ts) \subseteq Int
    BY ClauseTypes DEF Ends
<1>a. \A i \in Places(ts), j \in Ends(ts) : j - i + Len(ts) + 1 \in Nat
    BY <1>0 DEF Places, Ends
<1>1. ASSUME NEW n \in Nat, \A m \in Nat : m < n => m \in S
      PROVE  n \in S
    <2>1. SUFFICES ASSUME NEW i \in Places(ts), NEW j \in Ends(ts), j - i + Len(ts) + 1 = n
                   PROVE  CompleteAt(ts, i, j)
        OBVIOUS
    <2>2. ASSUME NEW x \in Places(ts), NEW y \in Ends(ts), y - x < j - i
          PROVE  CompleteAt(ts, x, y)
        <3> DEFINE m == y - x + Len(ts) + 1
        <3>1. m \in Nat BY <1>a
        <3>2. m < n BY <1>0, <2>1, <2>2
        <3>3. m \in S BY <1>1, <3>1, <3>2
        <3> QED BY <3>3
    <2>3. CompleteWithin(ts, i, j) BY <2>2, Zenon DEF CompleteWithin
    <2> QED BY <2>3, UnaryComplete, AndComplete, ExprComplete DEF CompleteAt
<1>2. \A n \in Nat : n \in S
    <2> HIDE DEF S
    <2> QED BY <1>1, StrongInduction
<1>3. ASSUME NEW i \in Places(ts), NEW j \in Ends(ts) PROVE CompleteAt(ts, i, j)
    <2>1. j - i + Len(ts) + 1 \in S BY <1>2, <1>a
    <2> QED BY <2>1
<1> QED BY <1>3

-----------------------------------------------------------------------------

(* For every clause, of any length over any columns: parse_predicate accepts it
   if and only if the grammar derives it, the grammar gives it one meaning, and
   the tree selects the rows of that meaning. *)
THEOREM ParserMeansGrammar ==
    ASSUME NEW ts \in Seq(Tokens)
    PROVE  Meanings(ts) = IF Parse(ts).ok THEN {Parse(ts).rows} ELSE {}
<1> DEFINE r == Parser(ts)[<<"expr", 1>>]
           n == Len(ts)
<1>0. /\ ts \in Clauses /\ n \in Nat /\ 1 \in Places(ts) /\ n \in Ends(ts)
      /\ At(ts, n + 1) = "end" /\ n + 1 \in Places(ts)
    <2>1. ts \in Clauses BY DEF Clauses
    <2> QED BY <2>1, ClauseTypes DEF Places, Ends
<1>1. ASSUME NEW m \in Meanings(ts) PROVE r = Parsed(m, n + 1)
    <2>1. FoundExpr(ts, 1, n) BY <1>0, ParserComplete, Zenon DEF CompleteAt
    <2>2. r = OnOr(ts, m, n + 1) BY <1>0, <1>1, <2>1 DEF FoundExpr, Meanings
    <2> QED BY <1>0, <2>2 DEF OnOr
<1>2. ASSUME ts = <<>> PROVE Meanings(ts) = {}
    <2>1. n = 0 BY <1>2
    <2>2. \A k \in 1 .. n : FALSE BY <2>1
    <2>3. \A m : ~IsUnary(ts, Grammar(ts), 1, n, m) BY <2>1 DEF IsUnary
    <2>4. \A m : ~ViaAndExpr(ts, Grammar(ts), 1, n, m) BY <2>2, Zenon DEF ViaAndExpr
    <2>5. \A m : ~ViaExpr(ts, Grammar(ts), 1, n, m) BY <2>2, Zenon DEF ViaExpr
    <2>6. \A m : m \notin Grammar(ts)[<<"expr", 1, n>>]
        BY <1>0, <2>3, <2>4, <2>5, GrammarEquations, Zenon
    <2> QED BY <2>6, Zenon DEF Meanings
<1>3. Parse(ts) = IF ts # <<>> /\ r.ok /\ At(ts, r.pos) = "end" THEN r ELSE Error
    BY Zenon DEF Parse
<1>4. Error.ok = FALSE BY DEF Error
<1>5. ASSUME Parse(ts).ok PROVE Parse(ts).rows \in Meanings(ts)
    <2>1. ts # <<>> /\ r.ok /\ At(ts, r.pos) = "end" /\ Parse(ts) = r
        BY <1>3, <1>4, <1>5, Zenon
    <2>2. r \in Outcomes(ts, 1) BY <1>0, ParserIs, Zenon DEF Symbols
    <2>3. r.pos \in Places(ts) BY <1>0, <2>2, OutcomeFields
    <2>4. r.pos - 1 = n BY <1>0, <2>1, <2>3, ClauseTypes
    <2>5. Derived(ts, "expr", 1) BY <1>0, ParserSound, Zenon DEF SoundAt, Symbols
    <2>6. r.rows \in Grammar(ts)[<<"expr", 1, r.pos - 1>>] BY <2>1, <2>5, Zenon DEF Derived
    <2> QED BY <2>1, <2>4, <2>6, Zenon DEF Meanings
<1>6. ASSUME NEW m \in Meanings(ts) PROVE Parse(ts).ok /\ Parse(ts).rows = m
    <2>1. r = Parsed(m, n + 1) BY <1>1, <1>6
    <2>2. ts # <<>> BY <1>2, <1>6, Zenon
    <2> HIDE DEF r, n
    <2>3. r.ok /\ r.rows = m /\ r.pos = n + 1 BY <2>1, ParsedFields
    <2> QED BY <1>0, <1>3, <2>2, <2>3
<1>7. CASE Parse(ts).ok
    <2>1. Meanings(ts) = {Parse(ts).rows} BY <1>5, <1>6, <1>7, Zenon
    <2> QED BY <1>7, <2>1
<1>8. CASE ~Parse(ts).ok
    <2>1. Meanings(ts) = {} BY <1>6, <1>8, Zenon
    <2> QED BY <1>8, <2>1
<1> QED BY <1>7, <1>8

-----------------------------------------------------------------------------
(* Ordering a finite set: the place of an element is the number of those
   before it, and every place has its element. *)

StrictOrder(F, R) ==
    /\ \A i \in F : <<i, i>> \notin R
    /\ \A i, j \in F : i # j => <<i, j>> \in R \/ <<j, i>> \in R
    /\ \A i, j, k \in F : <<i, j>> \in R /\ <<j, k>> \in R => <<i, k>> \in R
Earlier(F, R, i) == {j \in F : <<j, i>> \in R}
Place(F, R, i) == Cardinality(Earlier(F, R, i))

LEMMA PlaceType ==
    ASSUME NEW F, IsFiniteSet(F), NEW R, StrictOrder(F, R), NEW i \in F
    PROVE  /\ Cardinality(F) \in Nat
           /\ Place(F, R, i) \in 0 .. Cardinality(F) - 1
<1>1. Earlier(F, R, i) \in SUBSET F /\ i \notin Earlier(F, R, i)
    BY DEF Earlier, StrictOrder
<1>2. Earlier(F, R, i) \in SUBSET (F \ {i}) BY <1>1
<1>3. IsFiniteSet(F \ {i}) /\ Cardinality(F \ {i}) = Cardinality(F) - 1
    BY FS_RemoveElement
<1>4. IsFiniteSet(Earlier(F, R, i)) /\ Place(F, R, i) <= Cardinality(F) - 1
    BY <1>2, <1>3, FS_Subset DEF Place
<1>5. Place(F, R, i) \in Nat /\ Cardinality(F) \in Nat
    BY <1>4, FS_CardinalityType DEF Place
<1> QED BY <1>4, <1>5

LEMMA PlaceGrows ==
    ASSUME NEW F, IsFiniteSet(F), NEW R, StrictOrder(F, R),
           NEW i \in F, NEW j \in F, <<i, j>> \in R
    PROVE  Place(F, R, i) < Place(F, R, j)
<1>1. Earlier(F, R, i) \in SUBSET Earlier(F, R, j)
    BY DEF Earlier, StrictOrder
<1>2. i \in Earlier(F, R, j) /\ i \notin Earlier(F, R, i)
    BY DEF Earlier, StrictOrder
<1>3. IsFiniteSet(Earlier(F, R, j))
    BY FS_Subset DEF Earlier
<1>4. /\ Place(F, R, i) <= Place(F, R, j)
      /\ Place(F, R, i) # Place(F, R, j)
    BY <1>1, <1>2, <1>3, FS_Subset DEF Place
<1>5. Place(F, R, i) \in Int /\ Place(F, R, j) \in Int BY PlaceType
<1> QED BY <1>4, <1>5

LEMMA PlaceOrder ==
    ASSUME NEW F, IsFiniteSet(F), NEW R, StrictOrder(F, R)
    PROVE  \A i, j \in F : /\ <<i, j>> \in R <=> Place(F, R, i) < Place(F, R, j)
                           /\ Place(F, R, i) = Place(F, R, j) => i = j
<1> TAKE i, j \in F
<1>1. Place(F, R, i) \in Int /\ Place(F, R, j) \in Int BY PlaceType
<1>2. <<i, j>> \in R => Place(F, R, i) < Place(F, R, j) BY PlaceGrows
<1>3. <<j, i>> \in R => Place(F, R, j) < Place(F, R, i) BY PlaceGrows
<1>4. i # j => <<i, j>> \in R \/ <<j, i>> \in R BY DEF StrictOrder
<1>5. <<i, i>> \notin R BY DEF StrictOrder
<1> QED BY <1>1, <1>2, <1>3, <1>4, <1>5

LEMMA PlaceTaken ==
    ASSUME NEW F, IsFiniteSet(F), NEW R, StrictOrder(F, R), NEW k \in 0 .. Cardinality(F) - 1
    PROVE  \E i \in F : Place(F, R, i) = k
<1> DEFINE T == 0 .. Cardinality(F) - 1
           f == [i \in F |-> Place(F, R, i)]
<1>0. Cardinality(F) \in Nat BY FS_CardinalityType
<1>1. f \in Injection(F, T)
    <2>1. f \in [F -> T] BY PlaceType
    <2>2. \A i, j \in F : f[i] = f[j] => i = j BY PlaceOrder
    <2> HIDE DEF f
    <2> QED BY <2>1, <2>2 DEF Injection, IsInjective
<1>2. IsFiniteSet(T) /\ Cardinality(T) = Cardinality(F)
    <2> DEFINE n == Cardinality(F)
               m == n - 1
    <2>1. n \in Nat /\ m \in Int BY <1>0
    <2> HIDE DEF m
    <2>2. IsFiniteSet(0 .. m) /\ Cardinality(0 .. m) = IF 0 > m THEN 0 ELSE m - 0 + 1
        <3>1. 0 \in Int OBVIOUS
        <3> QED BY <2>1, <3>1, FS_Interval, Zenon
    <2> HIDE DEF n
    <2>3. Cardinality(0 .. m) = n BY <2>1, <2>2 DEF m
    <2> QED BY <2>2, <2>3 DEF m, n
<1>3. f \in Surjection(F, T)
    <2> HIDE DEF f, T
    <2> QED BY <1>1, <1>2, FS_Injection
<1> QED BY <1>3 DEF Surjection

(* The sequence of what a gives the elements of F, in the order R. *)
Arranged(a, F, R) == [k \in 1 .. Cardinality(F) |-> a[CHOOSE i \in F : Place(F, R, i) = k - 1]]

LEMMA ArrangedAt ==
    ASSUME NEW F, IsFiniteSet(F), NEW R, StrictOrder(F, R), NEW a, NEW i \in F
    PROVE  Arranged(a, F, R)[Place(F, R, i) + 1] = a[i]
<1> DEFINE k == Place(F, R, i) + 1
           c == CHOOSE x \in F : Place(F, R, x) = k - 1
<1>1. k \in 1 .. Cardinality(F) /\ k - 1 = Place(F, R, i) BY PlaceType
<1>2. Arranged(a, F, R)[k] = a[c] BY <1>1 DEF Arranged
<1>3. c \in F /\ Place(F, R, c) = Place(F, R, i) BY <1>1
<1>4. c = i
    <2> HIDE DEF c
    <2> QED BY <1>3, PlaceOrder
<1> QED BY <1>2, <1>4

LEMMA ArrangedIs ==
    ASSUME NEW F, IsFiniteSet(F), NEW R, StrictOrder(F, R), NEW a, NEW s,
           \A i \in F : s[Place(F, R, i) + 1] = a[i]
    PROVE  \A k \in 1 .. Cardinality(F) : s[k] = Arranged(a, F, R)[k]
<1> TAKE k \in 1 .. Cardinality(F)
<1>1. k - 1 \in 0 .. Cardinality(F) - 1
    BY FS_CardinalityType
<1>2. PICK i \in F : Place(F, R, i) = k - 1 BY <1>1, PlaceTaken
<1>3. Place(F, R, i) + 1 = k BY <1>2
<1> QED BY <1>3, ArrangedAt

-----------------------------------------------------------------------------
(* One pass of the sort refines an order. *)

Weight(x) == IF x = "false" THEN 0 ELSE IF x = "true" THEN 1 ELSE IF x = "text" THEN 2 ELSE 3
Weighs(key, row) ==
    LET w == Weight(Field(row, key[1])) IN IF key[2] = "ASC" THEN w ELSE 0 - w

Refined(a, F, R, key) ==
    {x \in F \X F : \/ Weighs(key, a[x[1]]) < Weighs(key, a[x[2]])
                    \/ Weighs(key, a[x[1]]) = Weighs(key, a[x[2]]) /\ x \in R}

LEMMA WeighsType ==
    ASSUME NEW key, NEW row
    PROVE  Weighs(key, row) \in Int
BY DEF Weighs, Weight

LEMMA RefinedIs ==
    ASSUME NEW F, NEW R, NEW a, NEW key, NEW i \in F, NEW j \in F
    PROVE  <<i, j>> \in Refined(a, F, R, key) <=>
               \/ Weighs(key, a[i]) < Weighs(key, a[j])
               \/ Weighs(key, a[i]) = Weighs(key, a[j]) /\ <<i, j>> \in R
BY DEF Refined

LEMMA RefinedOrder ==
    ASSUME NEW F, NEW R, StrictOrder(F, R), NEW a, NEW key
    PROVE  StrictOrder(F, Refined(a, F, R, key))
<1> DEFINE w(i) == Weighs(key, a[i])
           Q == Refined(a, F, R, key)
<1>1. \A i \in F : w(i) \in Int BY WeighsType
<1>2. \A i, j \in F : <<i, j>> \in Q <=> w(i) < w(j) \/ (w(i) = w(j) /\ <<i, j>> \in R)
    BY RefinedIs
<1> HIDE DEF w, Q
<1>3. ASSUME NEW i \in F PROVE <<i, i>> \notin Q
    BY <1>1, <1>2 DEF StrictOrder
<1>4. ASSUME NEW i \in F, NEW j \in F, i # j PROVE <<i, j>> \in Q \/ <<j, i>> \in Q
    <2>1. <<i, j>> \in R \/ <<j, i>> \in R BY <1>4 DEF StrictOrder
    <2> QED BY <1>1, <1>2, <2>1
<1>5. ASSUME NEW i \in F, NEW j \in F, NEW k \in F, <<i, j>> \in Q, <<j, k>> \in Q
      PROVE  <<i, k>> \in Q
    <2>1. <<i, j>> \in R /\ <<j, k>> \in R => <<i, k>> \in R BY DEF StrictOrder
    <2>2. w(i) \in Int /\ w(j) \in Int /\ w(k) \in Int BY <1>1
    <2> QED BY <1>2, <1>5, <2>1, <2>2
<1>6. StrictOrder(F, Q) BY <1>3, <1>4, <1>5, Zenon DEF StrictOrder
<1> QED BY <1>6 DEF Q

(* Goes, of SortBy. *)
GoesFirst(key, row, other) ==
    LET x == Field(row, key[1])  y == Field(other, key[1]) IN
    IF key[2] = "ASC" THEN Below(x, y) ELSE Below(y, x)

LEMMA GoesByWeight ==
    ASSUME NEW key, NEW row, NEW other,
           Field(row, key[1]) \in {"true", "false", "text", "null"},
           Field(other, key[1]) \in {"true", "false", "text", "null"}
    PROVE  GoesFirst(key, row, other) <=> Weighs(key, row) < Weighs(key, other)
<1>1. ASSUME NEW x \in {"true", "false", "text", "null"}, NEW y \in {"true", "false", "text", "null"}
      PROVE  Below(x, y) <=> Weight(x) < Weight(y)
    BY <1>1 DEF Below, Weight
<1>2. \A x : Weight(x) \in Int BY DEF Weight
<1> QED BY <1>1, <1>2 DEF GoesFirst, Weighs

LEMMA SortArranged ==
    ASSUME NEW F, IsFiniteSet(F), NEW R, StrictOrder(F, R), NEW a, NEW key,
           \A i \in F : Field(a[i], key[1]) \in {"true", "false", "text", "null"}
    PROVE  SortBy(key, Arranged(a, F, R)) = Arranged(a, F, Refined(a, F, R, key))
<1> DEFINE s == Arranged(a, F, R)
           Q == Refined(a, F, R, key)
           D == 1 .. Cardinality(F)
           at(i) == Place(F, R, i) + 1
           Ahead(p) == {q \in D : GoesFirst(key, s[q], s[p]) \/ (~GoesFirst(key, s[p], s[q]) /\ q < p)}
<1>1. SortBy(key, s) = [k \in D |-> s[CHOOSE p \in D : Cardinality(Ahead(p)) = k - 1]]
    <2>1. DOMAIN s = D BY DEF Arranged
    <2> HIDE DEF s, D
    <2> QED BY <2>1 DEF SortBy, GoesFirst
<1>0. StrictOrder(F, Q) BY RefinedOrder
<1>2. \A i \in F : s[at(i)] = a[i] /\ at(i) \in D /\ at(i) \in Int
    BY ArrangedAt, PlaceType
<1>3. \A p \in D : \E i \in F : at(i) = p
    <2> TAKE p \in D
    <2>1. p - 1 \in 0 .. Cardinality(F) - 1 BY FS_CardinalityType
    <2>2. PICK i \in F : Place(F, R, i) = p - 1 BY <2>1, PlaceTaken
    <2> QED BY <2>2
<1>4. \A i, j \in F : (<<i, j>> \in R <=> at(i) < at(j)) /\ (at(i) = at(j) => i = j)
    <2> TAKE i, j \in F
    <2>1. Place(F, R, i) \in Int /\ Place(F, R, j) \in Int BY PlaceType
    <2> QED BY <2>1, PlaceOrder
<1>5. ASSUME NEW i \in F, NEW j \in F
      PROVE  at(j) \in Ahead(at(i)) <=> j \in Earlier(F, Q, i)
    <2>1. /\ s[at(i)] = a[i] /\ s[at(j)] = a[j] /\ at(j) \in D
          /\ <<j, i>> \in R <=> at(j) < at(i)
        BY <1>2, <1>4
    <2> HIDE DEF s, D, at
    <2>2. /\ GoesFirst(key, a[j], a[i]) <=> Weighs(key, a[j]) < Weighs(key, a[i])
          /\ GoesFirst(key, a[i], a[j]) <=> Weighs(key, a[i]) < Weighs(key, a[j])
        BY GoesByWeight
    <2>3. Weighs(key, a[i]) \in Int /\ Weighs(key, a[j]) \in Int BY WeighsType
    <2>4. j \in Earlier(F, Q, i) <=> \/ Weighs(key, a[j]) < Weighs(key, a[i])
                                     \/ Weighs(key, a[j]) = Weighs(key, a[i]) /\ <<j, i>> \in R
        BY RefinedIs DEF Earlier
    <2>5. at(j) \in Ahead(at(i)) <=> GoesFirst(key, a[j], a[i]) \/ (~GoesFirst(key, a[i], a[j]) /\ at(j) < at(i))
        BY <2>1
    <2> HIDE DEF Ahead, Q
    <2> QED BY <2>1, <2>2, <2>3, <2>4, <2>5
<1>6. ASSUME NEW i \in F
      PROVE  Cardinality(Ahead(at(i))) = Place(F, Q, i)
    <2> DEFINE A == Ahead(at(i))
               B == Earlier(F, Q, i)
               f == [j \in B |-> at(j)]
    <2>1. A \subseteq D /\ B \subseteq F BY DEF Earlier
    <2>2. \A j \in F : at(j) \in A <=> j \in B BY <1>5
    <2> HIDE DEF A, B, at, D
    <2>3. f \in [B -> A] BY <2>1, <2>2
    <2>4. \A x, y \in B : f[x] = f[y] => x = y BY <1>4, <2>1
    <2>5. \A q \in A : \E j \in B : f[j] = q
        <3> TAKE q \in A
        <3>1. PICK j \in F : at(j) = q BY <1>3, <2>1
        <3>2. j \in B BY <2>2, <3>1
        <3> QED BY <3>1, <3>2
    <2> HIDE DEF f
    <2>6. f \in Bijection(B, A) BY <2>3, <2>4, <2>5 DEF Bijection, Injection, Surjection, IsInjective
    <2>7. IsFiniteSet(B) BY <2>1, FS_Subset
    <2>8. Cardinality(A) = Cardinality(B) BY <2>6, <2>7, FS_Bijection DEF ExistsBijection
    <2> QED BY <2>8 DEF A, B, Place
<1> HIDE DEF s, Q, D, at, Ahead
<1>7. ASSUME NEW i \in F
      PROVE  SortBy(key, s)[Place(F, Q, i) + 1] = a[i]
    <2> DEFINE k == Place(F, Q, i) + 1
               c == CHOOSE p \in D : Cardinality(Ahead(p)) = k - 1
    <2>1. k \in D /\ k - 1 = Place(F, Q, i) BY <1>0, PlaceType DEF D
    <2>2. at(i) \in D /\ Cardinality(Ahead(at(i))) = k - 1 BY <1>2, <1>6, <2>1
    <2>3. c \in D /\ Cardinality(Ahead(c)) = k - 1
        <3> HIDE DEF k
        <3> QED BY <2>2
    <2>4. SortBy(key, s)[k] = s[c]
        <3> HIDE DEF k
        <3> QED BY <1>1, <2>1
    <2> HIDE DEF c
    <2>5. PICK j \in F : at(j) = c BY <1>3, <2>3
    <2>6. Place(F, Q, j) = Place(F, Q, i) BY <1>6, <2>1, <2>3, <2>5
    <2>7. j = i BY <1>0, <2>6, PlaceOrder
    <2> QED BY <1>2, <2>4, <2>5, <2>7
<1>8. SortBy(key, s) = [k \in 1 .. Cardinality(F) |-> SortBy(key, s)[k]]
    BY <1>1 DEF D
<1>9. \A k \in 1 .. Cardinality(F) : SortBy(key, s)[k] = Arranged(a, F, Q)[k]
    BY <1>0, <1>7, ArrangedIs
<1>10. SortBy(key, s) = [k \in 1 .. Cardinality(F) |-> Arranged(a, F, Q)[k]]
    BY <1>8, <1>9, Zenon
<1>11. Arranged(a, F, Q) = [k \in 1 .. Cardinality(F) |-> Arranged(a, F, Q)[k]]
    BY DEF Arranged
<1> QED BY <1>10, <1>11, Zenon DEF s, Q
-----------------------------------------------------------------------------
(* The order of the elements by the keys from the mth to the last, and then by
   their number. *)

ByNumber(F) == {x \in F \X F : x[1] < x[2]}

SameOn(key, a, i, j) == Weighs(key, a[i]) = Weighs(key, a[j])
FirstDiffers(keys, a, m, i, j) ==
    \E k \in m .. Len(keys) : /\ Weighs(keys[k], a[i]) < Weighs(keys[k], a[j])
                              /\ \A l \in m .. k - 1 : SameOn(keys[l], a, i, j)
NoneDiffers(keys, a, m, i, j) == \A k \in m .. Len(keys) : SameOn(keys[k], a, i, j)
ByKeys(keys, a, F, m) ==
    {x \in F \X F : \/ FirstDiffers(keys, a, m, x[1], x[2])
                    \/ NoneDiffers(keys, a, m, x[1], x[2]) /\ x[1] < x[2]}

LEMMA ByNumberOrder ==
    ASSUME NEW F \in SUBSET Int
    PROVE  StrictOrder(F, ByNumber(F))
<1>1. \A i, j \in F : <<i, j>> \in ByNumber(F) <=> i < j
    BY DEF ByNumber
<1>2. F \subseteq Int OBVIOUS
<1> HIDE DEF ByNumber
<1> QED BY <1>1, <1>2 DEF StrictOrder

LEMMA ByKeysIs ==
    ASSUME NEW keys, NEW a, NEW F, NEW m, NEW i \in F, NEW j \in F
    PROVE  <<i, j>> \in ByKeys(keys, a, F, m) <=>
               FirstDiffers(keys, a, m, i, j) \/ (NoneDiffers(keys, a, m, i, j) /\ i < j)
BY DEF ByKeys

LEMMA PairsEqual ==
    ASSUME NEW F, NEW P \in SUBSET (F \X F), NEW Q \in SUBSET (F \X F),
           \A i, j \in F : <<i, j>> \in P <=> <<i, j>> \in Q
    PROVE  P = Q
<1>1. \A x \in F \X F : \E i, j \in F : x = <<i, j>> OBVIOUS
<1> QED BY <1>1

LEMMA ByNoKeys ==
    ASSUME NEW keys, Len(keys) \in Nat, NEW a, NEW F
    PROVE  ByKeys(keys, a, F, Len(keys) + 1) = ByNumber(F)
<1>1. \A k \in Len(keys) + 1 .. Len(keys) : FALSE OBVIOUS
<1>2. ASSUME NEW i \in F, NEW j \in F
      PROVE  <<i, j>> \in ByKeys(keys, a, F, Len(keys) + 1) <=> <<i, j>> \in ByNumber(F)
    <2>1. ~FirstDiffers(keys, a, Len(keys) + 1, i, j) /\ NoneDiffers(keys, a, Len(keys) + 1, i, j)
        BY <1>1, Zenon DEF FirstDiffers, NoneDiffers
    <2>2. <<i, j>> \in ByNumber(F) <=> i < j BY DEF ByNumber
    <2> QED BY <2>1, <2>2, ByKeysIs, Zenon
<1>3. ByKeys(keys, a, F, Len(keys) + 1) \in SUBSET (F \X F) /\ ByNumber(F) \in SUBSET (F \X F)
    BY DEF ByKeys, ByNumber
<1> QED
    <2> DEFINE P == ByKeys(keys, a, F, Len(keys) + 1)
               Q == ByNumber(F)
    <2> HIDE DEF P, Q
    <2>1. P \in SUBSET (F \X F) /\ Q \in SUBSET (F \X F) BY <1>3 DEF P, Q
    <2>2. \A i, j \in F : <<i, j>> \in P <=> <<i, j>> \in Q BY <1>2 DEF P, Q
    <2>3. P = Q BY <2>1, <2>2, PairsEqual
    <2> QED BY <2>3 DEF P, Q

LEMMA ByOneMoreKey ==
    ASSUME NEW keys, Len(keys) \in Nat, NEW a, NEW F, NEW m \in 1 .. Len(keys)
    PROVE  ByKeys(keys, a, F, m) = Refined(a, F, ByKeys(keys, a, F, m + 1), keys[m])
<1> DEFINE n == Len(keys)
<1>0. /\ m \in m .. n /\ m \in Int /\ n \in Int
      /\ \A k \in m .. n : k = m \/ k \in m + 1 .. n
      /\ \A k \in m + 1 .. n : k \in m .. n /\ m \in m .. k - 1
      /\ \A l \in m .. m - 1 : FALSE
      /\ \A k \in m + 1 .. n : \A l \in m .. k - 1 : l = m \/ l \in m + 1 .. k - 1
      /\ \A k \in m + 1 .. n : \A l \in m + 1 .. k - 1 : l \in m .. k - 1
    OBVIOUS
<1> HIDE DEF n
<1>2. ASSUME NEW i \in F, NEW j \in F
      PROVE  <<i, j>> \in ByKeys(keys, a, F, m) <=> <<i, j>> \in Refined(a, F, ByKeys(keys, a, F, m + 1), keys[m])
    <2> DEFINE same == SameOn(keys[m], a, i, j)
               less == Weighs(keys[m], a[i]) < Weighs(keys[m], a[j])
    <2>1. FirstDiffers(keys, a, m, i, j) <=> less \/ (same /\ FirstDiffers(keys, a, m + 1, i, j))
        <3> DEFINE below(k) == Weighs(keys[k], a[i]) < Weighs(keys[k], a[j])
                   eq(k) == SameOn(keys[k], a, i, j)
        <3>1. FirstDiffers(keys, a, m, i, j) <=> \E k \in m .. n : below(k) /\ \A l \in m .. k - 1 : eq(l)
            BY Zenon DEF FirstDiffers, n
        <3>2. FirstDiffers(keys, a, m + 1, i, j) <=> \E k \in m + 1 .. n : below(k) /\ \A l \in m + 1 .. k - 1 : eq(l)
            BY Zenon DEF FirstDiffers, n
        <3>3. less = below(m) /\ same = eq(m) OBVIOUS
        <3> HIDE DEF below, eq, less, same
        <3>4. FirstDiffers(keys, a, m, i, j) => less \/ (same /\ FirstDiffers(keys, a, m + 1, i, j))
            BY <1>0, <3>1, <3>2, <3>3
        <3>5. less => FirstDiffers(keys, a, m, i, j)
            BY <1>0, <3>1, <3>3
        <3>6. same /\ FirstDiffers(keys, a, m + 1, i, j) => FirstDiffers(keys, a, m, i, j)
            BY <1>0, <3>1, <3>2, <3>3
        <3> QED BY <3>4, <3>5, <3>6, Zenon
    <2>2. NoneDiffers(keys, a, m, i, j) <=> same /\ NoneDiffers(keys, a, m + 1, i, j)
        BY <1>0, Zenon DEF NoneDiffers, n
    <2>3. <<i, j>> \in Refined(a, F, ByKeys(keys, a, F, m + 1), keys[m]) <=>
             less \/ (same /\ <<i, j>> \in ByKeys(keys, a, F, m + 1))
        BY RefinedIs, Zenon DEF SameOn
    <2> HIDE DEF same, less
    <2> QED BY <2>1, <2>2, <2>3, ByKeysIs, Zenon
<1>3. /\ ByKeys(keys, a, F, m) \in SUBSET (F \X F)
      /\ Refined(a, F, ByKeys(keys, a, F, m + 1), keys[m]) \in SUBSET (F \X F)
    BY Zenon DEF ByKeys, Refined
<1> QED
    <2> DEFINE P == ByKeys(keys, a, F, m)
               Q == Refined(a, F, ByKeys(keys, a, F, m + 1), keys[m])
    <2> HIDE DEF P, Q
    <2>1. P \in SUBSET (F \X F) /\ Q \in SUBSET (F \X F) BY <1>3 DEF P, Q
    <2>2. \A i, j \in F : <<i, j>> \in P <=> <<i, j>> \in Q BY <1>2 DEF P, Q
    <2>3. P = Q BY <2>1, <2>2, PairsEqual
    <2> QED BY <2>3 DEF P, Q

LEMMA ByKeysOrder ==
    ASSUME NEW keys, Len(keys) \in Nat, NEW a, NEW F \in SUBSET Int
    PROVE  \A m \in 1 .. Len(keys) + 1 : StrictOrder(F, ByKeys(keys, a, F, m))
<1> DEFINE n == Len(keys)
           S == {d \in Nat : d <= n => StrictOrder(F, ByKeys(keys, a, F, n + 1 - d))}
<1>1. 0 \in S
    <2>1. n + 1 - 0 = n + 1 OBVIOUS
    <2> QED BY <2>1, ByNoKeys, ByNumberOrder
<1>2. ASSUME NEW d \in Nat, d \in S PROVE d + 1 \in S
    <2>1. CASE d + 1 <= n
        <3> DEFINE m == n + 1 - (d + 1)
        <3>1. m \in 1 .. n /\ m + 1 = n + 1 - d /\ d <= n BY <2>1
        <3>2. StrictOrder(F, ByKeys(keys, a, F, m + 1)) BY <1>2, <3>1
        <3> HIDE DEF m
        <3>3. StrictOrder(F, ByKeys(keys, a, F, m)) BY <3>1, <3>2, ByOneMoreKey, RefinedOrder
        <3> QED BY <3>3 DEF m
    <2>2. CASE ~(d + 1 <= n) BY <2>2
    <2> QED BY <2>1, <2>2
<1>3. \A d \in Nat : d \in S
    <2> HIDE DEF S
    <2> QED BY <1>1, <1>2, StepInduction
<1> TAKE m \in 1 .. n + 1
<1>4. n + 1 - m \in Nat /\ n + 1 - m <= n /\ n + 1 - (n + 1 - m) = m OBVIOUS
<1> QED BY <1>3, <1>4

LEMMA SortByOneMoreKey ==
    ASSUME NEW keys, Len(keys) \in Nat, NEW a, NEW F, IsFiniteSet(F),
           NEW m \in 1 .. Len(keys), StrictOrder(F, ByKeys(keys, a, F, m + 1)),
           \A i \in F : Field(a[i], keys[m][1]) \in {"true", "false", "text", "null"}
    PROVE  SortBy(keys[m], Arranged(a, F, ByKeys(keys, a, F, m + 1)))
               = Arranged(a, F, ByKeys(keys, a, F, m))
<1> DEFINE R == ByKeys(keys, a, F, m + 1)
           key == keys[m]
<1>2. StrictOrder(F, R) OBVIOUS
<1>3. ByKeys(keys, a, F, m) = Refined(a, F, R, key) BY ByOneMoreKey
<1>4. \A i \in F : Field(a[i], key[1]) \in {"true", "false", "text", "null"} OBVIOUS
<1> HIDE DEF R, key
<1>5. SortBy(key, Arranged(a, F, R)) = Arranged(a, F, Refined(a, F, R, key))
    BY <1>2, <1>4, SortArranged
<1>6. SortBy(key, Arranged(a, F, R)) = Arranged(a, F, ByKeys(keys, a, F, m))
    BY <1>3, <1>5, Zenon
<1> QED BY <1>6 DEF R, key

-----------------------------------------------------------------------------
(* The passes, from the last ORDER BY column to the first, arrange the rows
   that came in their own order by all the columns. *)

LEMMA SortedArranges ==
    ASSUME Len(select.orderBy) \in Nat, NEW F, IsFiniteSet(F), NEW a,
           \A m \in 1 .. Len(select.orderBy) + 1 : StrictOrder(F, ByKeys(select.orderBy, a, F, m)),
           \A i \in F : \A k \in 1 .. Len(select.orderBy) :
               Field(a[i], select.orderBy[k][1]) \in {"true", "false", "text", "null"}
    PROVE  Sorted(Arranged(a, F, ByNumber(F))) = Arranged(a, F, ByKeys(select.orderBy, a, F, 1))
<1> DEFINE keys == select.orderBy
           n == Len(keys)
           rows == Arranged(a, F, ByNumber(F))
           D == 1 .. n + 1
           W(m) == Arranged(a, F, ByKeys(keys, a, F, m))
           pass[i \in 1 .. Len(select.orderBy) + 1] ==
               IF i > Len(select.orderBy) THEN rows ELSE SortBy(select.orderBy[i], pass[i + 1])
<1>1. Sorted(rows) = pass[1] BY Zenon DEF Sorted
<1>2. W(n + 1) = rows BY ByNoKeys, Zenon
<1>3. \A m \in 1 .. n : W(m) = SortBy(keys[m], W(m + 1))
    <2> TAKE m \in 1 .. n
    <2>1. m + 1 \in 1 .. n + 1 OBVIOUS
    <2>2. StrictOrder(F, ByKeys(keys, a, F, m + 1)) BY <2>1
    <2> QED BY <2>2, SortByOneMoreKey
<1> DEFINE f == [m \in D |-> W(m)]
           step(g, i) == IF i > n THEN rows ELSE SortBy(keys[i], g[i + 1])
<1>4. f = [i \in D |-> step(f, i)]
    <2>1. ASSUME NEW i \in D PROVE W(i) = step(f, i)
        <3>1. CASE i > n
            <4>1. i = n + 1 BY <3>1
            <4> HIDE DEF W, rows
            <4> QED BY <1>2, <3>1, <4>1
        <3>2. CASE ~(i > n)
            <4>1. i \in 1 .. n /\ i + 1 \in D BY <3>2
            <4> HIDE DEF W, rows, keys, n, D
            <4>2. f[i + 1] = W(i + 1) BY <4>1
            <4> QED BY <1>3, <3>2, <4>1, <4>2
        <3> QED BY <3>1, <3>2
    <2> HIDE DEF step, W, D
    <2> QED BY <2>1
<1>5. pass = [i \in D |-> step(pass, i)]
    <2> HIDE DEF f, W
    <2> QED BY <1>4, Zenon
<1>6. \A i \in D : pass[i] = step(pass, i)
    <2> HIDE DEF pass, step, D
    <2> QED BY <1>5
<1> DEFINE S == {d \in Nat : d <= n => pass[n + 1 - d] = W(n + 1 - d)}
<1>a. n \in Nat OBVIOUS
<1> HIDE DEF pass, W, rows, f, keys, n
<1>7. 0 \in S
    <2>1. n + 1 - 0 = n + 1 /\ n + 1 \in D /\ n + 1 > n BY <1>a
    <2>2. pass[n + 1] = rows BY <1>6, <2>1
    <2> QED BY <1>2, <2>1, <2>2
<1>8. ASSUME NEW d \in Nat, d \in S PROVE d + 1 \in S
    <2>1. CASE d + 1 <= n
        <3> DEFINE m == n + 1 - (d + 1)
        <3>1. m \in 1 .. n /\ m \in D /\ m + 1 = n + 1 - d /\ d <= n /\ ~(m > n) BY <1>a, <2>1
        <3>2. pass[m + 1] = W(m + 1) BY <1>8, <3>1
        <3> HIDE DEF m, D
        <3>3. pass[m] = W(m) BY <1>3, <1>6, <3>1, <3>2
        <3> QED BY <3>3 DEF m
    <2>2. CASE ~(d + 1 <= n) BY <2>2
    <2> QED BY <2>1, <2>2
<1>9. n \in S
    <2> HIDE DEF S
    <2> QED BY <1>a, <1>7, <1>8, StepInduction
<1>10. pass[1] = W(1)
    <2>1. n + 1 - n = 1 /\ n <= n BY <1>a
    <2> QED BY <1>9, <2>1
<1> QED BY <1>1, <1>10 DEF W, rows, keys
-----------------------------------------------------------------------------
(* The scan arranges the rows it keeps by their number. *)

LEMMA ArrangedSeq ==
    ASSUME NEW F, IsFiniteSet(F), NEW R, StrictOrder(F, R), NEW a, NEW V,
           \A i \in F : a[i] \in V
    PROVE  Arranged(a, F, R) \in Seq(V) /\ Len(Arranged(a, F, R)) = Cardinality(F)
<1> DEFINE s == Arranged(a, F, R)
           n == Cardinality(F)
<1>1. n \in Nat BY FS_CardinalityType
<1>2. \A k \in 1 .. n : s[k] \in V
    <2> TAKE k \in 1 .. n
    <2>1. k - 1 \in 0 .. Cardinality(F) - 1 BY <1>1
    <2>2. PICK i \in F : Place(F, R, i) = k - 1 BY <2>1, PlaceTaken
    <2>3. k = Place(F, R, i) + 1 BY <2>2
    <2>4. s[k] = a[i] BY <2>3, ArrangedAt
    <2> QED BY <2>4
<1>3. s = [k \in 1 .. n |-> s[k]] BY DEF Arranged
<1> HIDE DEF s, n
<1>4. s \in Seq(V) /\ Len(s) = n BY <1>1, <1>2, <1>3
<1> QED BY <1>4 DEF s, n

LEMMA PlacesByNumber ==
    ASSUME NEW F, IsFiniteSet(F), NEW n, n \notin F, ~(n < n),
           \A i \in F : i < n /\ ~(n < i)
    PROVE  /\ Place(F \cup {n}, ByNumber(F \cup {n}), n) = Cardinality(F)
           /\ \A i \in F : Place(F \cup {n}, ByNumber(F \cup {n}), i) = Place(F, ByNumber(F), i)
<1> DEFINE G == F \cup {n}
<1>1. \A i, j \in G : <<i, j>> \in ByNumber(G) <=> i < j BY DEF ByNumber
<1>2. \A i, j \in F : <<i, j>> \in ByNumber(F) <=> i < j BY DEF ByNumber
<1>3. Earlier(G, ByNumber(G), n) = F
    BY <1>1 DEF Earlier
<1>4. ASSUME NEW i \in F
      PROVE  Earlier(G, ByNumber(G), i) = Earlier(F, ByNumber(F), i)
    BY <1>1, <1>2 DEF Earlier
<1> QED BY <1>3, <1>4, Zenon DEF Place

LEMMA ArrangedAppend ==
    ASSUME NEW F, IsFiniteSet(F), NEW n, NEW a, n \notin F, ~(n < n),
           \A i \in F : i < n /\ ~(n < i),
           StrictOrder(F, ByNumber(F)), StrictOrder(F \cup {n}, ByNumber(F \cup {n}))
    PROVE  Arranged(a, F \cup {n}, ByNumber(F \cup {n})) = Append(Arranged(a, F, ByNumber(F)), a[n])
<1> DEFINE G == F \cup {n}
           V == {a[i] : i \in G}
           s == Arranged(a, F, ByNumber(F))
           t == Arranged(a, G, ByNumber(G))
           u == Append(s, a[n])
           N == Cardinality(F)
<1>0. N \in Nat /\ IsFiniteSet(G) /\ Cardinality(G) = N + 1
    BY FS_CardinalityType, FS_AddElement
<1>1. a[n] \in V /\ \A i \in F : a[i] \in V OBVIOUS
<1> HIDE DEF V
<1>2. s \in Seq(V) /\ Len(s) = N BY <1>1, ArrangedSeq
<1>3. t \in Seq(V) /\ Len(t) = N + 1
    <2>1. \A i \in G : a[i] \in V BY <1>1
    <2>2. StrictOrder(G, ByNumber(G)) OBVIOUS
    <2> HIDE DEF G
    <2>3. t \in Seq(V) /\ Len(t) = Cardinality(G) BY <1>0, <2>1, <2>2, ArrangedSeq
    <2> QED BY <1>0, <2>3
<1>4. \A i \in F : s[Place(F, ByNumber(F), i) + 1] = a[i] /\ Place(F, ByNumber(F), i) + 1 \in 1 .. N
    BY ArrangedAt, PlaceType
<1>5. /\ Place(G, ByNumber(G), n) = N
      /\ \A i \in F : Place(G, ByNumber(G), i) = Place(F, ByNumber(F), i)
    BY PlacesByNumber
<1> HIDE DEF s, N
<1>6. u \in Seq(V) /\ Len(u) = N + 1 /\ u[N + 1] = a[n] /\ \A k \in 1 .. N : u[k] = s[k]
    BY <1>0, <1>1, <1>2, AppendProperties
<1> HIDE DEF u
<1>7. \A i \in G : u[Place(G, ByNumber(G), i) + 1] = a[i]
    BY <1>4, <1>5, <1>6
<1>8. \A k \in 1 .. N + 1 : u[k] = t[k]
    <2>1. StrictOrder(G, ByNumber(G)) OBVIOUS
    <2> HIDE DEF G
    <2>2. \A k \in 1 .. Cardinality(G) : u[k] = Arranged(a, G, ByNumber(G))[k]
        BY <1>0, <1>7, <2>1, ArrangedIs
    <2> QED BY <1>0, <2>2
<1> HIDE DEF t
<1>9. u = t BY <1>3, <1>6, <1>8, SeqEqual
<1> QED BY <1>9 DEF u, t, s

KeptTo(table, n) == {i \in 1 .. n : Matches(table[i])}
Kept(table) == KeptTo(table, Len(table))
Items(table) == [i \in 1 .. Len(table) |-> Project(table[i])]
ScanTo(table, n) == Arranged(Items(table), KeptTo(table, n), ByNumber(KeptTo(table, n)))

LEMMA KeptIs ==
    ASSUME NEW table, NEW n \in Nat
    PROVE  IsFiniteSet(KeptTo(table, n)) /\ StrictOrder(KeptTo(table, n), ByNumber(KeptTo(table, n)))
<1>1. IsFiniteSet(1 .. n)
    <2>1. 1 \in Int /\ n \in Int OBVIOUS
    <2> QED BY <2>1, FS_Interval, Zenon
<1>2. KeptTo(table, n) \in SUBSET (1 .. n) BY DEF KeptTo
<1>3. KeptTo(table, n) \in SUBSET Int BY <1>2
<1>4. IsFiniteSet(KeptTo(table, n)) BY <1>1, <1>2, FS_Subset
<1>5. StrictOrder(KeptTo(table, n), ByNumber(KeptTo(table, n)))
    <2> DEFINE F == KeptTo(table, n)
    <2>1. F \in SUBSET Int BY <1>3
    <2> HIDE DEF F
    <2>2. StrictOrder(F, ByNumber(F)) BY <2>1, ByNumberOrder
    <2> QED BY <2>2 DEF F
<1> QED BY <1>4, <1>5

LEMMA ScanStarts ==
    ASSUME NEW table
    PROVE  ScanTo(table, 0) = <<>>
<1> DEFINE F == KeptTo(table, 0)
<1>1. F = {} BY DEF KeptTo
<1>2. Cardinality(F) = 0 /\ IsFiniteSet(F) BY <1>1, FS_EmptySet
<1>3. ScanTo(table, 0) \in Seq({}) /\ Len(ScanTo(table, 0)) = 0
    <2>1. StrictOrder(F, ByNumber(F)) BY KeptIs
    <2>2. \A i \in F : Items(table)[i] \in {} BY <1>1
    <2> HIDE DEF F
    <2>3. Arranged(Items(table), F, ByNumber(F)) \in Seq({}) /\ Len(Arranged(Items(table), F, ByNumber(F))) = 0
        BY <1>2, <2>1, <2>2, ArrangedSeq
    <2> QED BY <2>3 DEF ScanTo, F
<1> HIDE DEF F
<1> QED BY <1>3, EmptySeq

LEMMA ScanGoesOn ==
    ASSUME NEW table, Len(table) \in Nat, NEW n \in 1 .. Len(table)
    PROVE  ScanTo(table, n) = IF Matches(table[n]) THEN Append(ScanTo(table, n - 1), Project(table[n]))
                              ELSE ScanTo(table, n - 1)
<1> DEFINE F == KeptTo(table, n - 1)
<1>0. /\ n - 1 \in Nat /\ n \in Nat /\ n \notin 1 .. n - 1 /\ ~(n < n)
      /\ \A i \in 1 .. n - 1 : i < n /\ ~(n < i)
      /\ 1 .. n = (1 .. n - 1) \cup {n}
    OBVIOUS
<1>1. CASE Matches(table[n])
    <2>1. KeptTo(table, n) = F \cup {n} BY <1>0, <1>1 DEF KeptTo
    <2>2. n \notin F /\ \A i \in F : i < n /\ ~(n < i) BY <1>0 DEF KeptTo
    <2>3. IsFiniteSet(F) /\ StrictOrder(F, ByNumber(F)) BY <1>0, KeptIs
    <2>4. StrictOrder(F \cup {n}, ByNumber(F \cup {n})) BY <1>0, <2>1, KeptIs
    <2>5. Items(table)[n] = Project(table[n]) BY DEF Items
    <2>6. ScanTo(table, n) = Arranged(Items(table), F \cup {n}, ByNumber(F \cup {n}))
        BY <2>1, Zenon DEF ScanTo
    <2>7. ScanTo(table, n - 1) = Arranged(Items(table), F, ByNumber(F)) BY Zenon DEF ScanTo
    <2> HIDE DEF F
    <2>8. Arranged(Items(table), F \cup {n}, ByNumber(F \cup {n}))
              = Append(Arranged(Items(table), F, ByNumber(F)), Items(table)[n])
        BY <1>0, <2>2, <2>3, <2>4, ArrangedAppend, Zenon
    <2> QED BY <1>1, <2>5, <2>6, <2>7, <2>8, Zenon
<1>2. CASE ~Matches(table[n])
    <2>1. KeptTo(table, n) = F BY <1>0, <1>2 DEF KeptTo
    <2> QED BY <1>2, <2>1, Zenon DEF ScanTo
<1> QED BY <1>1, <1>2

LEMMA FoundArranges ==
    ASSUME NEW table, Len(table) \in Nat
    PROVE  Found(table) = Arranged(Items(table), Kept(table), ByNumber(Kept(table)))
<1> DEFINE L == Len(table)
           D == 0 .. L
           step(g, n) == IF n = 0 THEN <<>>
                         ELSE IF Matches(table[n]) THEN Append(g[n - 1], Project(table[n]))
                         ELSE g[n - 1]
           found[n \in 0 .. Len(table)] ==
               IF n = 0 THEN <<>>
               ELSE IF Matches(table[n]) THEN Append(found[n - 1], Project(table[n]))
               ELSE found[n - 1]
           f == [n \in D |-> ScanTo(table, n)]
<1>1. Found(table) = found[L] BY Zenon DEF Found
<1>2. f = [n \in D |-> step(f, n)]
    <2>1. ASSUME NEW n \in D PROVE ScanTo(table, n) = step(f, n)
        <3>1. CASE n = 0 BY <3>1, ScanStarts, Zenon
        <3>2. CASE n # 0
            <4>1. n \in 1 .. Len(table) /\ n - 1 \in D BY <3>2
            <4> HIDE DEF D
            <4>2. f[n - 1] = ScanTo(table, n - 1) BY <4>1, Zenon
            <4> HIDE DEF f
            <4>3. ScanTo(table, n) = IF Matches(table[n]) THEN Append(ScanTo(table, n - 1), Project(table[n]))
                                     ELSE ScanTo(table, n - 1)
                BY <4>1, ScanGoesOn
            <4> QED BY <3>2, <4>2, <4>3, Zenon
        <3> QED BY <3>1, <3>2
    <2> HIDE DEF step, D
    <2> QED BY <2>1
<1>3. found = [n \in D |-> step(found, n)]
    <2> HIDE DEF f
    <2> QED BY <1>2, Zenon
<1>4. \A n \in D : found[n] = step(found, n)
    <2> HIDE DEF found, step, D
    <2> QED BY <1>3
<1> DEFINE S == {n \in Nat : n <= L => found[n] = ScanTo(table, n)}
<1>a. L \in Nat OBVIOUS
<1> HIDE DEF found, f, L
<1>5. 0 \in S
    <2>1. 0 \in D BY <1>a
    <2>2. found[0] = <<>> BY <1>4, <2>1
    <2> QED BY <2>2, ScanStarts
<1>6. ASSUME NEW n \in Nat, n \in S PROVE n + 1 \in S
    <2>1. CASE n + 1 <= L
        <3> DEFINE m == n + 1
        <3>1. m \in D /\ m \in 1 .. Len(table) /\ m - 1 = n /\ m # 0 /\ n <= L BY <1>a, <2>1 DEF L
        <3>2. found[n] = ScanTo(table, n) BY <1>6, <3>1
        <3> HIDE DEF m, D
        <3>3. found[m] = step(found, m) BY <1>4, <3>1
        <3>4. found[m] = IF Matches(table[m]) THEN Append(ScanTo(table, n), Project(table[m]))
                         ELSE ScanTo(table, n)
            BY <3>1, <3>2, <3>3, Zenon
        <3>5. ScanTo(table, m) = IF Matches(table[m]) THEN Append(ScanTo(table, m - 1), Project(table[m]))
                                 ELSE ScanTo(table, m - 1)
            BY <3>1, ScanGoesOn
        <3>6. found[m] = ScanTo(table, m) BY <3>1, <3>4, <3>5, Zenon
        <3> QED BY <3>6 DEF m
    <2>2. CASE ~(n + 1 <= L) BY <2>2
    <2> QED BY <2>1, <2>2
<1>7. L \in S
    <2> HIDE DEF S
    <2> QED BY <1>a, <1>5, <1>6, StepInduction
<1>8. found[L] = ScanTo(table, L) BY <1>a, <1>7
<1> QED BY <1>1, <1>8 DEF ScanTo, Kept, L
-----------------------------------------------------------------------------
(* The statement is well formed, and so are the rows it projects. *)

SelectTyped ==
    /\ clause \in Seq(Tokens)
    /\ select \in [columns : SUBSET Columns, orderBy : Seq(SortKeys),
                   offset : Nat, limit : Nat \cup {None}]

LEMMA SelectIsTyped == SelectSpec => []SelectTyped
<1>1. SelectInit => SelectTyped
    BY SelectBounds DEF SelectInit, Init, Plain, Star, SelectTyped
<1>2. SelectTyped /\ [SelectNext]_<<clause, select>> => SelectTyped'
    <2> SUFFICES ASSUME SelectTyped, [SelectNext]_<<clause, select>> PROVE SelectTyped'
        OBVIOUS
    <2>0. MaxCut \in Nat /\ 0 .. MaxCut \subseteq Nat BY SelectBounds
    <2>1. CASE Where
        BY <2>1, AppendProperties DEF Where, Extend, SelectTyped
    <2>2. CASE Clause
        <3>1. CASE \E c \in Columns \ select.columns : select' = [select EXCEPT !.columns = @ \cup {c}]
            BY <2>2, <3>1 DEF Clause, SelectTyped
        <3>2. CASE \E key \in SortKeys : select' = [select EXCEPT !.orderBy = Append(@, key)]
            <4>1. PICK key \in SortKeys : select' = [select EXCEPT !.orderBy = Append(@, key)] BY <3>2
            <4>2. Append(select.orderBy, key) \in Seq(SortKeys) BY AppendProperties DEF SelectTyped
            <4> QED BY <2>2, <4>1, <4>2 DEF Clause, SelectTyped
        <3>3. CASE select' = [select EXCEPT !.offset = @ + 1]
            <4>1. select.offset + 1 \in Nat BY DEF SelectTyped
            <4>2. clause' = clause BY <2>2 DEF Clause
            <4> QED BY <3>3, <4>1, <4>2 DEF SelectTyped
        <3>4. CASE \E n \in 0 .. MaxCut : select' = [select EXCEPT !.limit = n]
            BY <2>0, <2>2, <3>4 DEF Clause, SelectTyped
        <3> QED BY <2>2, <3>1, <3>2, <3>3, <3>4 DEF Clause
    <2>3. CASE UNCHANGED <<clause, select>> BY <2>3 DEF SelectTyped
    <2> QED BY <2>1, <2>2, <2>3 DEF SelectNext
<1> QED BY <1>1, <1>2, PTL DEF SelectSpec

LEMMA ProjectedField ==
    ASSUME SelectTyped, NEW row \in Rows, NEW c \in Columns
    PROVE  /\ Field(Project(row), c) = IF select.columns = Star \/ c \in select.columns THEN row[c] ELSE "null"
           /\ row[c] \in {"true", "false", "text", "null"}
           /\ Field(Project(row), c) \in {"true", "false", "text", "null"}
<1>1. DOMAIN row = Columns /\ row[c] \in {"true", "false", "text", "null"} BY DEF Rows
<1>2. CASE select.columns = Star
    BY <1>1, <1>2 DEF Project, Field
<1>3. CASE select.columns # Star
    <2>1. Project(row) = [d \in select.columns |-> row[d]] BY <1>3 DEF Project
    <2>2. DOMAIN Project(row) = select.columns BY <2>1
    <2>3. c \in select.columns => Project(row)[c] = row[c] BY <2>1
    <2> QED BY <1>1, <1>3, <2>2, <2>3 DEF Field
<1> QED BY <1>2, <1>3

-----------------------------------------------------------------------------
(* The order of the property is the order of all the passes. *)

InList(key) == select.columns = Star \/ key[1] \in select.columns
Before(key, row, other) ==
    IF key[2] = "ASC" THEN Below(row[key[1]], other[key[1]]) ELSE Below(other[key[1]], row[key[1]])

LEMMA ByOneKey ==
    ASSUME SelectTyped, NEW row \in Rows, NEW other \in Rows, NEW key \in SortKeys, InList(key)
    PROVE  /\ Weighs(key, Project(row)) < Weighs(key, Project(other)) <=> Before(key, row, other)
           /\ Weighs(key, Project(row)) = Weighs(key, Project(other)) <=> row[key[1]] = other[key[1]]
<1> DEFINE c == key[1]
           x == Field(Project(row), c)
           y == Field(Project(other), c)
<1>0. c \in Columns BY DEF SortKeys
<1>1. /\ x = row[c] /\ y = other[c]
      /\ x \in {"true", "false", "text", "null"} /\ y \in {"true", "false", "text", "null"}
    <2> HIDE DEF c
    <2>1. select.columns = Star \/ c \in select.columns BY DEF InList, c
    <2> QED BY <1>0, <2>1, ProjectedField
<1>2. /\ Weighs(key, Project(row)) < Weighs(key, Project(other)) <=>
             IF key[2] = "ASC" THEN Below(x, y) ELSE Below(y, x)
    BY <1>1, GoesByWeight DEF GoesFirst
<1>3. Weighs(key, Project(row)) = Weighs(key, Project(other)) <=> x = y
    <2>1. Weighs(key, Project(row)) = (IF key[2] = "ASC" THEN Weight(x) ELSE 0 - Weight(x))
        BY Zenon DEF Weighs
    <2>2. Weighs(key, Project(other)) = (IF key[2] = "ASC" THEN Weight(y) ELSE 0 - Weight(y))
        BY Zenon DEF Weighs
    <2> HIDE DEF x, y
    <2>3. Weight(x) \in Int /\ Weight(y) \in Int /\ (Weight(x) = Weight(y) <=> x = y)
        BY <1>1 DEF Weight
    <2> QED BY <2>1, <2>2, <2>3
<1> HIDE DEF x, y
<1> QED BY <1>1, <1>2, <1>3 DEF Before, c

LEMMA PrecedesByKeys ==
    ASSUME SelectTyped, OrderIsSelected,
           NEW table \in Seq(Rows), NEW i \in 1 .. Len(table), NEW j \in 1 .. Len(table)
    PROVE  Precedes(table[i], table[j]) <=> FirstDiffers(select.orderBy, Items(table), 1, i, j)
<1> DEFINE keys == select.orderBy
           n == Len(keys)
<1>0. /\ n \in Nat /\ DOMAIN keys = 1 .. n /\ \A k \in 1 .. n : keys[k] \in SortKeys
      /\ table[i] \in Rows /\ table[j] \in Rows
    BY DEF SelectTyped
<1>a. \A k \in 1 .. n : \A l \in 1 .. k - 1 : l \in 1 .. n BY <1>0
<1>b. \A k \in 1 .. n : InList(keys[k]) BY <1>0, Zenon DEF OrderIsSelected, InList
<1>1. Items(table)[i] = Project(table[i]) /\ Items(table)[j] = Project(table[j])
    BY DEF Items
<1>2. Precedes(table[i], table[j]) <=>
          \E k \in 1 .. n : /\ Before(keys[k], table[i], table[j])
                            /\ \A l \in 1 .. k - 1 : table[i][keys[l][1]] = table[j][keys[l][1]]
    BY <1>0, Zenon DEF Precedes, Before
<1>3. FirstDiffers(keys, Items(table), 1, i, j) <=>
          \E k \in 1 .. n : /\ Weighs(keys[k], Project(table[i])) < Weighs(keys[k], Project(table[j]))
                            /\ \A l \in 1 .. k - 1 :
                                  Weighs(keys[l], Project(table[i])) = Weighs(keys[l], Project(table[j]))
    BY <1>1, Zenon DEF FirstDiffers, SameOn
<1>4. \A k \in 1 .. n :
          /\ Weighs(keys[k], Project(table[i])) < Weighs(keys[k], Project(table[j])) <=>
                 Before(keys[k], table[i], table[j])
          /\ Weighs(keys[k], Project(table[i])) = Weighs(keys[k], Project(table[j])) <=>
                 table[i][keys[k][1]] = table[j][keys[k][1]]
    <2> HIDE DEF keys, n
    <2> QED BY <1>0, <1>b, ByOneKey
<1> HIDE DEF keys, n
<1>5. FirstDiffers(keys, Items(table), 1, i, j) <=>
          \E k \in 1 .. n : /\ Before(keys[k], table[i], table[j])
                            /\ \A l \in 1 .. k - 1 : table[i][keys[l][1]] = table[j][keys[l][1]]
    BY <1>3, <1>4, <1>a, Zenon
<1> QED BY <1>2, <1>5, Zenon DEF keys

(* The rows before a row, as the property counts them. *)
RankedBefore(table, i, found) ==
    {j \in found : Precedes(table[j], table[i]) \/ (~Precedes(table[i], table[j]) /\ j < i)}

OrderOf(table) == ByKeys(select.orderBy, Items(table), Kept(table), 1)

LEMMA OrderOfIs ==
    ASSUME SelectTyped, NEW table \in Seq(Rows)
    PROVE  /\ IsFiniteSet(Kept(table))
           /\ StrictOrder(Kept(table), OrderOf(table))
           /\ \A m \in 1 .. Len(select.orderBy) + 1 :
                 StrictOrder(Kept(table), ByKeys(select.orderBy, Items(table), Kept(table), m))
<1>0. Len(select.orderBy) \in Nat /\ Len(table) \in Nat BY DEF SelectTyped
<1>1. IsFiniteSet(Kept(table)) BY <1>0, KeptIs DEF Kept
<1>2. Kept(table) \in SUBSET Int BY <1>0 DEF Kept, KeptTo
<1>3. \A m \in 1 .. Len(select.orderBy) + 1 :
          StrictOrder(Kept(table), ByKeys(select.orderBy, Items(table), Kept(table), m))
    BY <1>0, <1>2, ByKeysOrder
<1>4. 1 \in 1 .. Len(select.orderBy) + 1 BY <1>0
<1> QED BY <1>1, <1>3, <1>4 DEF OrderOf

LEMMA RankedIsEarlier ==
    ASSUME SelectTyped, OrderIsSelected, NEW table \in Seq(Rows), NEW i \in Kept(table)
    PROVE  RankedBefore(table, i, Kept(table)) = Earlier(Kept(table), OrderOf(table), i)
<1> DEFINE F == Kept(table)
           R == OrderOf(table)
           before(x, y) == Precedes(table[x], table[y])
           none(x, y) == NoneDiffers(select.orderBy, Items(table), 1, x, y)
<1>0. F \subseteq 1 .. Len(table) /\ F \subseteq Int
    BY DEF Kept, KeptTo
<1>1. StrictOrder(F, R) BY OrderOfIs
<1>2. \A x, y \in F : <<x, y>> \in R <=> before(x, y) \/ (none(x, y) /\ x < y)
    <2> TAKE x, y \in F
    <2>1. before(x, y) <=> FirstDiffers(select.orderBy, Items(table), 1, x, y)
        BY <1>0, PrecedesByKeys
    <2> QED BY <2>1, ByKeysIs, Zenon DEF OrderOf
<1>3. \A x, y \in F : none(x, y) => ~before(x, y) /\ ~before(y, x)
    <2> TAKE x, y \in F
    <2>1. /\ before(x, y) <=> FirstDiffers(select.orderBy, Items(table), 1, x, y)
          /\ before(y, x) <=> FirstDiffers(select.orderBy, Items(table), 1, y, x)
        BY <1>0, PrecedesByKeys
    <2>2. \A k : Weighs(select.orderBy[k], Items(table)[x]) \in Int BY WeighsType
    <2> HIDE DEF before
    <2> QED BY <2>1, <2>2 DEF NoneDiffers, FirstDiffers, SameOn
<1> HIDE DEF F, R, before, none
<1>4. ASSUME NEW j \in F, NEW x \in F
      PROVE  <<j, x>> \in R <=> before(j, x) \/ (~before(x, j) /\ j < x)
    <2>1. j \in Int /\ x \in Int BY <1>0
    <2>2. before(j, x) => <<j, x>> \in R BY <1>2
    <2>3. none(j, x) /\ j < x => ~before(x, j) BY <1>3
    <2>4. ASSUME ~before(x, j), j < x PROVE <<j, x>> \in R
        <3>1. <<j, x>> \in R \/ <<x, j>> \in R BY <2>1, <2>4, <1>1 DEF StrictOrder
        <3>2. <<x, j>> \notin R BY <1>2, <2>1, <2>4
        <3> QED BY <3>1, <3>2
    <2> QED BY <1>2, <2>2, <2>3, <2>4
<1>5. i \in F BY DEF F
<1>6. {j \in F : before(j, i) \/ (~before(i, j) /\ j < i)} = {j \in F : <<j, i>> \in R}
    BY <1>4, <1>5
<1> QED BY <1>6, Zenon DEF RankedBefore, Earlier, F, R, before

-----------------------------------------------------------------------------
(* OFFSET and LIMIT cut the window out of the arranged rows. *)

LastOf(n) == IF select.limit = None THEN n ELSE select.offset + select.limit
Window(n) == {p \in 0 .. n - 1 : p \in select.offset .. LastOf(n) - 1}

LEMMA CutIsWindow ==
    ASSUME SelectTyped, NEW V, NEW rows \in Seq(V)
    PROVE  /\ Len(Cut(rows)) = Cardinality(Window(Len(rows)))
           /\ \A p \in Window(Len(rows)) : Cut(rows)[p - select.offset + 1] = rows[p + 1]
<1> DEFINE n == Len(rows)
           o == select.offset
           l == select.limit
           last == LastOf(n)
           end == IF last < n THEN last ELSE n
           after == SubSeq(rows, o + 1, n)
           cut == Cut(rows)
<1>0. n \in Nat /\ o \in Nat /\ l \in Nat \cup {None} /\ None \notin Nat
    BY SelectBounds DEF SelectTyped
<1>1. last = IF l = None THEN n ELSE o + l BY DEF LastOf
<1>2. \A k \in 1 .. n : rows[k] \in V OBVIOUS
<1>3. cut = IF l # None /\ l < Len(after) THEN SubSeq(after, 1, l) ELSE after
    BY Zenon DEF Cut
<1> HIDE DEF n, o, l, last, cut
<1>4. last \in Nat BY <1>0, <1>1
<1>5. /\ after \in Seq(V)
      /\ Len(after) = IF o + 1 <= n THEN n - o ELSE 0
      /\ \A k \in 1 .. n - o : after[k] = rows[o + k]
    <2>1. \A k \in o + 1 .. n : rows[k] \in V BY <1>0, <1>2
    <2>2. o + 1 \in Int /\ n \in Int BY <1>0
    <2>3. /\ after \in Seq(V)
          /\ Len(after) = IF o + 1 <= n THEN n - (o + 1) + 1 ELSE 0
          /\ \A k \in 1 .. n - (o + 1) + 1 : after[k] = rows[(o + 1) + k - 1]
        BY <2>1, <2>2, SubSeqProperties
    <2> HIDE DEF after
    <2> QED BY <1>0, <2>3
<1> HIDE DEF after
<1>6. Window(n) = o .. end - 1
    BY <1>0, <1>4 DEF Window, last, o
<1>7. end \in Nat BY <1>0, <1>4
<1> HIDE DEF end
<1>8. Cardinality(Window(n)) = IF o > end - 1 THEN 0 ELSE end - o
    <2>1. o \in Int /\ end - 1 \in Int BY <1>0, <1>7
    <2> DEFINE e == end - 1
    <2> HIDE DEF e
    <2>2. Cardinality(o .. e) = IF o > e THEN 0 ELSE e - o + 1 BY <2>1, FS_Interval DEF e
    <2>3. Cardinality(Window(n)) = Cardinality(o .. e) BY <1>6, Zenon DEF e
    <2> QED BY <2>2, <2>3, <1>0, <1>7 DEF e
<1>9. CASE l # None /\ l < Len(after)
    <2>1. l \in Nat /\ Len(after) \in Nat /\ cut = SubSeq(after, 1, l) BY <1>0, <1>3, <1>5, <1>9
    <2>2. \A k \in 1 .. l : after[k] \in V BY <1>5, <1>9, <2>1
    <2>3. Len(cut) = (IF 1 <= l THEN l - 1 + 1 ELSE 0) /\ \A k \in 1 .. l - 1 + 1 : cut[k] = after[1 + k - 1]
        BY <2>1, <2>2, SubSeqProperties
    <2>4. Len(cut) = l /\ \A k \in 1 .. l : cut[k] = after[k] BY <2>1, <2>3
    <2>5. l < n - o /\ o < n BY <1>0, <1>5, <1>9, <2>1
    <2>6. last = o + l /\ end = o + l BY <1>0, <1>1, <1>9, <2>1, <2>5 DEF end
    <2>7. Len(cut) = Cardinality(Window(n)) BY <1>0, <1>8, <2>1, <2>4, <2>6
    <2>8. ASSUME NEW p \in Window(n) PROVE cut[p - o + 1] = rows[p + 1]
        <3>1. p \in Int /\ o <= p /\ p < o + l BY <1>0, <1>6, <2>1, <2>6, <2>8
        <3>2. p - o + 1 \in 1 .. l /\ p - o + 1 \in 1 .. n - o /\ o + (p - o + 1) = p + 1
            BY <1>0, <2>1, <2>5, <3>1
        <3>3. cut[p - o + 1] = after[p - o + 1] BY <2>4, <3>2
        <3>4. after[p - o + 1] = rows[o + (p - o + 1)] BY <1>5, <3>2
        <3> QED BY <3>2, <3>3, <3>4
    <2> QED BY <2>7, <2>8 DEF cut, n, o
<1>10. CASE ~(l # None /\ l < Len(after))
    <2>1. cut = after BY <1>3, <1>10
    <2>2. CASE o >= n
        <3>1. Len(after) = 0 BY <1>0, <1>5, <2>2
        <3>2. end <= n BY <1>0, <1>4 DEF end
        <3>3. \A p \in o .. end - 1 : FALSE BY <1>0, <1>7, <2>2, <3>2
        <3>4. Cardinality(Window(n)) = 0 BY <1>0, <1>7, <1>8, <2>2, <3>2
        <3> QED BY <1>6, <2>1, <3>1, <3>3, <3>4 DEF cut, n, o
    <2>3. CASE o < n
        <3>1. Len(after) = n - o BY <1>0, <1>5, <2>3
        <3>2. end = n
            <4>1. CASE l = None BY <1>0, <1>1, <4>1 DEF end
            <4>2. CASE l # None
                <5>1. l \in Nat /\ ~(l < n - o) BY <1>0, <1>10, <3>1, <4>2
                <5> QED BY <1>0, <1>1, <4>2, <5>1 DEF end
            <4> QED BY <4>1, <4>2
        <3>3. Len(cut) = Cardinality(Window(n)) BY <1>0, <1>8, <2>1, <2>3, <3>1, <3>2
        <3>4. ASSUME NEW p \in Window(n) PROVE cut[p - o + 1] = rows[p + 1]
            <4>1. p \in Int /\ o <= p /\ p < n BY <1>0, <1>6, <3>2, <3>4
            <4>2. p - o + 1 \in 1 .. n - o /\ o + (p - o + 1) = p + 1 BY <1>0, <4>1
            <4>3. after[p - o + 1] = rows[o + (p - o + 1)] BY <1>5, <4>2
            <4> QED BY <2>1, <4>2, <4>3
        <3> QED BY <3>3, <3>4 DEF cut, n, o
    <2> QED BY <1>0, <2>2, <2>3
<1> QED BY <1>9, <1>10
-----------------------------------------------------------------------------
(* The two properties *)

(* In every state of every execution: the parser accepts exactly the clauses
   that the grammar derives, each of which has one meaning, and selects exactly
   the rows of that meaning. *)
THEOREM SelectsByGrammarHolds == SelectSpec => []SelectsByGrammar
<1>1. SelectTyped => SelectsByGrammar
    BY ParserMeansGrammar DEF SelectTyped, SelectsByGrammar
<1> QED BY <1>1, SelectIsTyped, PTL

LEMMA KeptIsMeant ==
    ASSUME SelectTyped, clause = <<>> \/ Parse(clause).ok, NEW table
    PROVE  {i \in DOMAIN table : clause = <<>> \/ \E meaning \in Meanings(clause) : table[i] \in meaning}
               = {i \in DOMAIN table : Matches(table[i])}
<1>1. CASE clause = <<>> BY <1>1 DEF Matches
<1>2. CASE clause # <<>>
    <2>1. Meanings(clause) = {Parse(clause).rows}
        BY <1>2, ParserMeansGrammar DEF SelectTyped
    <2> QED BY <1>2, <2>1 DEF Matches
<1> QED BY <1>1, <1>2

LEMMA ResultArranges ==
    ASSUME SelectTyped, NEW table \in Seq(Rows)
    PROVE  Result(table) = Cut(Arranged(Items(table), Kept(table), OrderOf(table)))
<1> DEFINE F == Kept(table)
           a == Items(table)
           keys == select.orderBy
<1>0. Len(table) \in Nat /\ Len(keys) \in Nat /\ \A k \in 1 .. Len(keys) : keys[k] \in SortKeys
    BY DEF SelectTyped
<1>1. Found(table) = Arranged(a, F, ByNumber(F)) BY <1>0, FoundArranges
<1>2. \A i \in F : \A k \in 1 .. Len(keys) : Field(a[i], keys[k][1]) \in {"true", "false", "text", "null"}
    <2> TAKE i \in F
    <2> TAKE k \in 1 .. Len(keys)
    <2>1. i \in 1 .. Len(table) /\ table[i] \in Rows BY DEF Kept, KeptTo
    <2>2. a[i] = Project(table[i]) BY <2>1 DEF Items
    <2>3. keys[k][1] \in Columns BY <1>0 DEF SortKeys
    <2> HIDE DEF a, keys
    <2> QED BY <2>1, <2>2, <2>3, ProjectedField
<1>3. /\ IsFiniteSet(F)
      /\ \A m \in 1 .. Len(keys) + 1 : StrictOrder(F, ByKeys(keys, a, F, m))
    BY OrderOfIs
<1>4. Sorted(Arranged(a, F, ByNumber(F))) = Arranged(a, F, ByKeys(keys, a, F, 1))
    <2> HIDE DEF F, a
    <2> QED BY <1>0, <1>2, <1>3, SortedArranges
<1> QED BY <1>1, <1>4, Zenon DEF Result, OrderOf

LEMMA AnswersTable ==
    ASSUME SelectTyped, NEW table \in Seq(Rows)
    PROVE  LET F == Kept(table)
               rank(i) == Place(F, OrderOf(table), i)
               shown == {i \in F : rank(i) \in select.offset .. LastOf(Cardinality(F)) - 1}
           IN  /\ Len(Result(table)) = Cardinality(shown)
               /\ \A i \in shown : Result(table)[rank(i) - select.offset + 1] = Project(table[i])
<1> DEFINE F == Kept(table)
           R == OrderOf(table)
           a == Items(table)
           n == Cardinality(F)
           rank(i) == Place(F, R, i)
           shown == {i \in F : rank(i) \in select.offset .. LastOf(n) - 1}
           rows == Arranged(a, F, R)
           V == {a[i] : i \in F}
<1>1. IsFiniteSet(F) /\ StrictOrder(F, R) BY OrderOfIs
<1>2. \A i \in F : a[i] = Project(table[i])
    BY DEF Kept, KeptTo, Items
<1>3. \A i \in F : a[i] \in V OBVIOUS
<1> HIDE DEF F, R, a, V
<1>4. rows \in Seq(V) /\ Len(rows) = n BY <1>1, <1>3, ArrangedSeq
<1>5. /\ \A i \in F : rows[rank(i) + 1] = a[i] /\ rank(i) \in 0 .. n - 1
      /\ \A p \in 0 .. n - 1 : \E i \in F : rank(i) = p
      /\ \A i, j \in F : rank(i) = rank(j) => i = j
    <2>1. \A i \in F : rows[rank(i) + 1] = a[i] BY <1>1, ArrangedAt
    <2>2. \A i \in F : rank(i) \in 0 .. n - 1 BY <1>1, PlaceType
    <2>3. \A p \in 0 .. n - 1 : \E i \in F : rank(i) = p BY <1>1, PlaceTaken
    <2>4. \A i, j \in F : rank(i) = rank(j) => i = j BY <1>1, PlaceOrder
    <2> QED BY <2>1, <2>2, <2>3, <2>4, Zenon
<1>6. Result(table) = Cut(rows) BY ResultArranges DEF F, R, a
<1> HIDE DEF rows, n, rank
<1>7. /\ Len(Cut(rows)) = Cardinality(Window(n))
      /\ \A p \in Window(n) : Cut(rows)[p - select.offset + 1] = rows[p + 1]
    BY <1>4, CutIsWindow
<1>8. \A i \in F : i \in shown <=> rank(i) \in Window(n)
    BY <1>5, Zenon DEF Window
<1>9. Cardinality(shown) = Cardinality(Window(n))
    <2> DEFINE W == Window(n)
               f == [i \in shown |-> rank(i)]
    <2>1. shown \subseteq F /\ W \subseteq 0 .. n - 1 BY DEF Window
    <2> HIDE DEF W, shown
    <2>2. f \in [shown -> W] BY <1>8, <2>1 DEF W
    <2>3. \A i, j \in shown : f[i] = f[j] => i = j BY <1>5, <2>1
    <2>4. \A p \in W : \E i \in shown : f[i] = p
        <3> TAKE p \in W
        <3>1. PICK i \in F : rank(i) = p BY <1>5, <2>1
        <3>2. i \in shown BY <1>8, <3>1 DEF W
        <3> QED BY <3>1, <3>2
    <2> HIDE DEF f
    <2>5. f \in Bijection(shown, W)
        BY <2>2, <2>3, <2>4 DEF Bijection, Injection, Surjection, IsInjective
    <2>6. IsFiniteSet(shown) BY <1>1, <2>1, FS_Subset
    <2>7. Cardinality(W) = Cardinality(shown) BY <2>5, <2>6, FS_Bijection DEF ExistsBijection
    <2> QED BY <2>7 DEF W
<1>10. ASSUME NEW i \in shown
       PROVE  Result(table)[rank(i) - select.offset + 1] = Project(table[i])
    <2>1. i \in F BY <1>10
    <2>2. rank(i) \in Window(n) BY <1>8, <1>10, <2>1
    <2> HIDE DEF shown
    <2> QED BY <1>2, <1>5, <1>6, <1>7, <2>1, <2>2
<1>11. Len(Result(table)) = Cardinality(shown) BY <1>6, <1>7, <1>9, Zenon
<1> QED BY <1>10, <1>11, Zenon DEF F, R, n, rank

(* In every state of every execution, whatever the tables, the columns and the
   statement: the result of a SELECT that is answered, and that orders
   by columns it selects, has exactly the rows that the meaning of
   its WHERE clause selects and that OFFSET and LIMIT leave, projected, each at
   the place that the ORDER BY columns from the first to the last, and then
   the scan order, give it. *)
THEOREM SelectAnswersExactHolds == SelectSpec => []SelectAnswersExact
<1>1. ASSUME SelectTyped PROVE SelectAnswersExact
    <2>1. SUFFICES ASSUME clause = <<>> \/ Parse(clause).ok, OrderIsSelected, NEW table \in Tables
                   PROVE
        LET result == Result(table)
            found == {i \in DOMAIN table :
                        clause = <<>> \/ \E meaning \in Meanings(clause) : table[i] \in meaning}
            Rank(i) == Cardinality({j \in found : Precedes(table[j], table[i])
                                        \/ (~Precedes(table[i], table[j]) /\ j < i)})
            last == IF select.limit = None THEN Cardinality(found) ELSE select.offset + select.limit
            shown == {i \in found : Rank(i) \in select.offset .. last - 1}
        IN /\ Len(result) = Cardinality(shown)
           /\ \A i \in shown : result[Rank(i) - select.offset + 1] = Project(table[i])
        BY Zenon DEF SelectAnswersExact, Accepted, Exact
    <2> DEFINE found == {i \in DOMAIN table :
                          clause = <<>> \/ \E meaning \in Meanings(clause) : table[i] \in meaning}
               Rank(i) == Cardinality({j \in found : Precedes(table[j], table[i])
                                        \/ (~Precedes(table[i], table[j]) /\ j < i)})
               F == Kept(table)
               rank(i) == Place(F, OrderOf(table), i)
    <2>2. table \in Seq(Rows) BY TablesAssumption
    <2>3. found = F
        <3>1. DOMAIN table = 1 .. Len(table) BY <2>2
        <3>2. found = {i \in DOMAIN table : Matches(table[i])} BY <1>1, <2>1, KeptIsMeant
        <3> HIDE DEF found
        <3> QED BY <3>1, <3>2 DEF Kept, KeptTo
    <2> HIDE DEF found
    <2>4. \A i \in F : Rank(i) = rank(i)
        <3> TAKE i \in F
        <3>1. RankedBefore(table, i, F) = Earlier(F, OrderOf(table), i)
            BY <1>1, <2>1, <2>2, RankedIsEarlier
        <3> HIDE DEF F
        <3>2. Rank(i) = Cardinality(RankedBefore(table, i, F)) BY <2>3, Zenon DEF RankedBefore
        <3> QED BY <3>1, <3>2, Zenon DEF Place
    <2> DEFINE last == IF select.limit = None THEN Cardinality(found) ELSE select.offset + select.limit
               shown == {i \in found : Rank(i) \in select.offset .. last - 1}
               shownF == {i \in F : rank(i) \in select.offset .. LastOf(Cardinality(F)) - 1}
    <2>5. last = LastOf(Cardinality(F)) BY <2>3, Zenon DEF LastOf
    <2>6. /\ Len(Result(table)) = Cardinality(shownF)
          /\ \A i \in shownF : Result(table)[rank(i) - select.offset + 1] = Project(table[i])
        BY <1>1, <2>2, AnswersTable, Zenon
    <2> HIDE DEF Rank, rank, F, last
    <2>7. shown = shownF BY <2>3, <2>4, <2>5
    <2>8. \A i \in shown : i \in F /\ Rank(i) = rank(i) BY <2>3, <2>4
    <2> HIDE DEF shown, shownF
    <2>9. /\ Len(Result(table)) = Cardinality(shown)
          /\ \A i \in shown : Result(table)[Rank(i) - select.offset + 1] = Project(table[i])
        BY <2>6, <2>7, <2>8, Zenon
    <2> QED BY <2>9, Zenon DEF shown, Rank, last, found
<1> QED BY <1>1, SelectIsTyped, PTL
=============================================================================
