-------------------------- MODULE SelectStatements --------------------------
(***************************************************************************)
(* SELECT (sql/executor/executor.py, _execute_select): the rows of a table *)
(* in scan order are filtered by WHERE (WherePredicates), projected,       *)
(* sorted by ORDER BY and cut by OFFSET and LIMIT, in that order.          *)
(*                                                                         *)
(* A comparison "column = 1" stands for its column, so that the value of a *)
(* column (0, 1, a string or NULL) and the outcome of its comparison       *)
(* ("false", "true", "text", "null") are one thing.  The statement grows   *)
(* piece by piece.                                                         *)
(***************************************************************************)
EXTENDS WherePredicates, FiniteSets

CONSTANTS
    Tables,      \* tables, as sequences of rows in scan order
    MaxOrder,    \* bound on the ORDER BY columns
    MaxCut,      \* bound on OFFSET and LIMIT
    MaxWhere,    \* bound on a WHERE clause that has other clauses beside it
    None

ASSUME SelectBounds == {MaxOrder, MaxCut, MaxWhere} \subseteq Nat /\ None \notin Nat
ASSUME TablesAssumption == Tables \subseteq Seq(Rows)

VARIABLE select

Star == {}     \* SELECT *
SortKeys == Columns \X {"ASC", "DESC"}
Plain == [columns |-> Star, orderBy |-> <<>>, offset |-> 0, limit |-> None]

-----------------------------------------------------------------------------
(* _execute_select *)

Matches(row) == clause = <<>> \/ row \in Parse(clause).rows

Project(row) ==
    IF select.columns = Star THEN row ELSE [c \in select.columns |-> row[c]]

(* The scan: what is found up to the nth row. *)
Found(table) ==
    LET found[n \in 0 .. Len(table)] ==
            IF n = 0 THEN <<>>
            ELSE IF Matches(table[n]) THEN Append(found[n - 1], Project(table[n]))
            ELSE found[n - 1]
    IN found[Len(table)]

(* row.get *)
Field(row, c) == IF c \in DOMAIN row THEN row[c] ELSE "null"

(* The order of the sort keys (value is None, value).  Of a number and a string
   it says something only for the sake of completeness: see Raises. *)
Below(x, y) ==
    \/ x # "null" /\ y = "null"
    \/ x = "false" /\ y \in {"true", "text"}
    \/ x = "true" /\ y = "text"

(* A pass that has to compare a number with a string raises TypeError. *)
Raises(rows) ==
    \E k \in DOMAIN select.orderBy : \E i, j \in DOMAIN rows :
        /\ Field(rows[i], select.orderBy[k][1]) = "text"
        /\ Field(rows[j], select.orderBy[k][1]) \in {"true", "false"}

(* One pass of the stable sort; reverse=True keeps equal rows in place. *)
SortBy(key, rows) ==
    LET Goes(i, j) ==
            LET x == Field(rows[i], key[1])  y == Field(rows[j], key[1]) IN
            IF key[2] = "ASC" THEN Below(x, y) ELSE Below(y, x)
        Ahead(i) == {j \in DOMAIN rows : Goes(j, i) \/ (~Goes(i, j) /\ j < i)}
    IN [k \in DOMAIN rows |-> rows[CHOOSE i \in DOMAIN rows : Cardinality(Ahead(i)) = k - 1]]

(* The passes run from the first ORDER BY column to the last. *)
FaultySorted(rows) ==
    LET pass[i \in 0 .. Len(select.orderBy)] ==
            IF i = 0 THEN rows ELSE SortBy(select.orderBy[i], pass[i - 1])
    IN pass[Len(select.orderBy)]

(* The passes run from the last ORDER BY column to the first. *)
Sorted(rows) ==
    LET pass[i \in 1 .. Len(select.orderBy) + 1] ==
            IF i > Len(select.orderBy) THEN rows ELSE SortBy(select.orderBy[i], pass[i + 1])
    IN pass[1]

Cut(rows) ==
    LET after == SubSeq(rows, select.offset + 1, Len(rows)) IN
    IF select.limit # None /\ select.limit < Len(after) THEN SubSeq(after, 1, select.limit)
    ELSE after

Result(table) == Cut(Sorted(Found(table)))

-----------------------------------------------------------------------------
SelectInit == Init /\ select = Plain

Where == (select = Plain \/ Len(clause) < MaxWhere) /\ Extend /\ UNCHANGED select

Clause ==
    /\ Len(clause) <= MaxWhere
    /\ \/ \E c \in Columns \ select.columns : select' = [select EXCEPT !.columns = @ \cup {c}]
       \/ /\ Len(select.orderBy) < MaxOrder
          /\ \E key \in SortKeys : select' = [select EXCEPT !.orderBy = Append(@, key)]
       \/ select.offset < MaxCut /\ select' = [select EXCEPT !.offset = @ + 1]
       \/ select.limit = None /\ \E n \in 0 .. MaxCut : select' = [select EXCEPT !.limit = n]
    /\ UNCHANGED clause

SelectNext == Where \/ Clause

SelectSpec == SelectInit /\ [][SelectNext]_<<clause, select>>

-----------------------------------------------------------------------------
(* A row comes before another if it does so by the first ORDER BY column that
   tells them apart. *)
Precedes(row, other) ==
    LET Left(i) == row[select.orderBy[i][1]]
        Right(i) == other[select.orderBy[i][1]]
    IN \E i \in DOMAIN select.orderBy :
          /\ IF select.orderBy[i][2] = "ASC" THEN Below(Left(i), Right(i)) ELSE Below(Right(i), Left(i))
          /\ \A j \in 1 .. i - 1 : Left(j) = Right(j)

(* Of the rows the WHERE clause means, those in the window of OFFSET and LIMIT,
   ordered by the ORDER BY columns from the first to the last and then by key. *)
Exact(result, table) ==
    LET found == {i \in DOMAIN table :
                    clause = <<>> \/ \E meaning \in Meanings(clause) : table[i] \in meaning}
        Rank(i) == Cardinality({j \in found : Precedes(table[j], table[i])
                                    \/ (~Precedes(table[i], table[j]) /\ j < i)})
        last == IF select.limit = None THEN Cardinality(found) ELSE select.offset + select.limit
        shown == {i \in found : Rank(i) \in select.offset .. last - 1}
    IN /\ Len(result) = Cardinality(shown)
       /\ \A i \in shown : result[Rank(i) - select.offset + 1] = Project(table[i])

Accepted == Len(clause) <= MaxWhere /\ (clause = <<>> \/ Parse(clause).ok)

OrderIsSelected ==
    select.columns = Star \/ \A k \in DOMAIN select.orderBy : select.orderBy[k][1] \in select.columns

(* A SELECT that is answered, and whose ORDER BY columns are in its select list,
   is answered exactly ("ordering is correct regardless of storage/scan order",
   executor.py): filter, projection, the passes of the sort, OFFSET and LIMIT
   agree with one order by all columns and a window of it. *)
SelectAnswersExact ==
    Accepted /\ OrderIsSelected =>
        \A table \in Tables : ~Raises(Found(table)) => Exact(Result(table), table)

(* The same as the comment in executor.py says it, of every SELECT.  It does not
   hold: the rows are projected before they are sorted, so a column that is not
   selected is NULL in every row and orders nothing. *)
OrderedRegardless ==
    Accepted => \A table \in Tables : ~Raises(Found(table)) => Exact(Result(table), table)
=============================================================================
