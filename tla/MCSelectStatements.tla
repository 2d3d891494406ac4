------------------------- MODULE MCSelectStatements -------------------------
(* SelectStatements for TLC: two columns suffice for an ORDER BY whose second
   column breaks the ties of the first, four rows in any scan order for ties,
   a NULL, and rows that are cut off at both ends; in two of the tables, rows
   with a string in the second column, which it may be impossible to sort. *)
EXTENDS SelectStatements

Row(x, y) == [c \in Columns |-> IF c = "a" THEN x ELSE y]
FourRows ==
    {table \in [1 .. 4 -> {Row("true", "false"), Row("true", "null"), Row("false", "true"), Row("null", "true")}] :
        \A i, j \in 1 .. 4 : table[i] = table[j] => i = j}
MixedRows ==
    {<<Row("true", "text"), Row("null", "true"), Row("true", "null")>>,
     <<Row("null", "text"), Row("true", "true"), Row("true", "text"), Row("false", "null")>>}
SomeTables == FourRows \cup MixedRows
=============================================================================
