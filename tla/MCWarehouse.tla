---------------------------- MODULE MCWarehouse ----------------------------
(* Warehouse for TLC: uploads of one and of two partitions with values that
   touch the zones of one another, a statement whose two conjuncts prune, a
   join, which is never pruned, and a self-join, which is. *)
EXTENDS Warehouse

Uploads == {<<{1, 2}, {Null, 3}>>, <<{3}>>}
Less == [op |-> "<", value |-> 3]
OneOf == [op |-> "IN", value |-> {1, 3}]
Differs == [op |-> "!=", value |-> 3]
One == [text |-> "one", tables |-> <<"t">>, prunes |-> {Less, OneOf},
        reads |-> <<[table |-> "t", where |-> {Less, OneOf}]>>]
Join == [text |-> "join", tables |-> <<"t", "u">>, prunes |-> {Differs},
         reads |-> <<[table |-> "t", where |-> {Differs}], [table |-> "u", where |-> {}]>>]
Self == [text |-> "self", tables |-> <<"t">>, prunes |-> {Less},
         reads |-> <<[table |-> "t", where |-> {Less}], [table |-> "t", where |-> {}]>>]
OldContent == {1, 2}
AllStatements == {One, Join, Self}
Symmetric == Permutations(Threads) \cup Permutations(QueryIds)
=============================================================================
