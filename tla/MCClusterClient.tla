---- MODULE MCClusterClient ----
(* Small client programs: a put read back, an UPDATE with a WHERE clause and an
   INSERT, a CREATE TABLE and a DELETE of all rows, and transactions that are
   committed twice, or committed and then aborted. *)
EXTENDS ClusterClient, TLC

Put(k) == [kind |-> "put", key |-> k]
Get(k) == [kind |-> "get", key |-> k]
Create == [kind |-> "create"]
Insert(k) == [kind |-> "insert", key |-> k]
Update(w) == [kind |-> "update", where |-> w]
Delete(w) == [kind |-> "delete", where |-> w]
Begin == [kind |-> "begin"]
TPut(k) == [kind |-> "tput", key |-> k]
Commit == [kind |-> "commit"]
Abort == [kind |-> "abort"]

MCPrograms ==
    {<<Put(1), Get(1)>>, <<Update("seed"), Insert(1)>>, <<Create, Delete("all")>>,
     <<Begin, TPut(1), Commit, Commit>>, <<Begin, TPut(2), Commit, Abort>>}
ThreadSymmetry == Permutations(Threads)
====
