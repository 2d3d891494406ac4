---------------------------- MODULE ClusterClient ----------------------------
(***************************************************************************)
(* A DistributedClient (client/client.py) shared by several threads, and   *)
(* the servers it talks to (spanserver/server.py): fail-over of autocommit *)
(* calls, transactions pinned to the node they began on, and statements    *)
(* without a transaction, of which UPDATE and DELETE scan a table and then *)
(* write it row by row (sql/executor/executor.py).  With N = 1 the client  *)
(* is SpyMonkClient, which has one node and never fails over.              *)
(*                                                                         *)
(* The nodes 0..N-1 share nothing.  A call goes through the steps          *)
(* "calling" (the target is not chosen yet), "waiting" and "answered" or   *)
(* "raised".  A broken connection raises UNAVAILABLE at the client; the    *)
(* request may have been lost, or its handler may be running, and then it  *)
(* goes on without its caller.  A transaction manager is modelled by what  *)
(* a caller sees of it (Transactions has its locks and timestamps), the    *)
(* store by the newest row of each key, which survives a restart           *)
(* (MVCCStore has the versions).                                           *)
(***************************************************************************)
EXTENDS Integers, Sequences, FiniteSets

CONSTANTS
    N,          \* the number of nodes
    Threads,    \* the threads that use the client object
    Keys,       \* the keys of one table, in scan order
    Programs,   \* the sequences of calls a thread may make
    MaxFaults,  \* bound on broken connections and restarts
    None

(* The calls: on a row, on the rows a WHERE clause selects, and the others. *)
Op == [kind : {"put", "get", "insert", "tput"}, key : Keys]
        \cup [kind : {"update", "delete"}, where : {"all", "seed"}]
        \cup [kind : {"create", "begin", "commit", "abort"}]

(* What a caller is told of an operation that reads no row. *)
Verdict == {"ok", "error", "not_found", "refused", "aborted"}

(* A request is named by its thread and a number. *)
Id == Threads \X Nat

ASSUME ClusterAssumption ==
    /\ N \in Nat \ {0} /\ MaxFaults \in Nat /\ Keys \subseteq Nat
    /\ Programs \subseteq Seq(Op)
    /\ None \notin Threads \cup Keys \cup Id \cup Verdict

VARIABLES
    primary,   \* DistributedClient._primary
    program,   \* the calls each thread has still to make
    call,      \* the call each thread is in
    serial,    \* requests sent by each thread, which names them
    handle,    \* the RemoteTransaction of each thread
    txn,       \* the transactions of all nodes, by the request that began them
    rows,      \* the newest row of each key on each node
    schemas,   \* the nodes whose SchemaRegistry, which is in memory, has the table
    running,   \* requests in the network and handlers in the servers
    faults,
    recent     \* the key of a thread's last answered put, while it must see it

clientVars == <<primary, program, call, serial, handle, recent>>
vars == <<clientVars, txn, rows, schemas, running, faults>>

Node == 0 .. N - 1
Missing == [v |-> None, w |-> None]   \* no row, or a tombstone
Seed == [v |-> "seed", w |-> "seed"]
Idle == [phase |-> "idle"]
NoHandle == [node |-> 0, id |-> None, told |-> None, ends |-> 0]

Sql == {"create", "insert", "update", "delete"}
AutoCommit == {"put", "get"} \cup Sql
FailsOver(op) == op.kind \in AutoCommit \cup {"begin"}
Ends(op) == op.kind \in {"commit", "abort"}

(* The client has created the table on the node that is its primary. *)
Init ==
    /\ primary = 0
    /\ schemas = {0}
    /\ program \in [Threads -> Programs]
    /\ call = [t \in Threads |-> Idle]
    /\ serial = [t \in Threads |-> 0]
    /\ handle = [t \in Threads |-> NoHandle]
    /\ txn = <<>>
    /\ rows = [n \in Node |-> [k \in Keys |-> Seed]]
    /\ running = {}
    /\ faults = 0
    /\ recent = [t \in Threads |-> None]

-----------------------------------------------------------------------------
(* The client *)

(* The primary's stub, also for a transaction. *)
FaultyTarget(t) == (primary + call[t].attempt) % N

(* The node the attempt goes to: _call reads the primary again each time, a
   transaction stays with the node it began on. *)
Target(t) ==
    IF FailsOver(call[t].op) THEN (primary + call[t].attempt) % N ELSE handle[t].node

(* The thread makes its next call.  One without its transaction is skipped. *)
Invoke(t) ==
    /\ call[t].phase = "idle" /\ program[t] # <<>>
    /\ LET op == Head(program[t]) IN
        /\ FailsOver(op) \/ handle[t].id # None
        /\ call' = [call EXCEPT ![t] = [phase |-> "calling", op |-> op, attempt |-> 0,
                        node |-> 0, id |-> None, answer |-> None,
                        asked |-> {}, moved |-> FALSE]]
        /\ handle' = IF Ends(op) THEN [handle EXCEPT ![t].ends = @ + 1] ELSE handle
    /\ program' = [program EXCEPT ![t] = Tail(@)]
    /\ UNCHANGED <<primary, serial, recent, txn, rows, schemas, running, faults>>

Send(t) ==
    /\ call[t].phase = "calling"
    /\ LET n == Target(t)
           id == <<t, serial[t] + 1>> IN
        /\ running' = running \cup
              {[by |-> t, id |-> id, node |-> n, op |-> call[t].op, step |-> "new",
                txn |-> handle[t].id, todo |-> <<>>, before |-> <<>>, clean |-> TRUE,
                result |-> None]}
        /\ call' = [call EXCEPT ![t] = [@ EXCEPT !.phase = "waiting", !.node = n,
                        !.id = id, !.asked = call[t].asked \cup {n}]]
    /\ serial' = [serial EXCEPT ![t] = @ + 1]
    /\ UNCHANGED <<primary, program, handle, recent, txn, rows, schemas, faults>>

(* Every other thread's call under way sees the primary move. *)
SawMove(t, n) ==
    [u \in Threads |->
        IF u # t /\ call[u].phase \in {"calling", "waiting", "answered"} /\ n # primary
        THEN [call[u] EXCEPT !.moved = TRUE] ELSE call[u]]

(* The answering node does not become the primary. *)
FaultyNewPrimary(t) == primary

(* Any other error status than UNAVAILABLE is raised at once. *)
Rejected(c) == c.op.kind \in Sql /\ c.answer = "error"

(* The node that answered becomes the primary; a pinned call leaves it, and
   so does an error. *)
NewPrimary(t) ==
    IF FailsOver(call[t].op) /\ ~Rejected(call[t]) THEN call[t].node ELSE primary

(* The answer is handed to the caller; an error status is raised to it. *)
Receive(t) ==
    /\ call[t].phase = "answered"
    /\ LET c == call[t]
           n == NewPrimary(t) IN
        /\ primary' = n
        /\ call' = [SawMove(t, n) EXCEPT ![t] = Idle]
        /\ handle' = [handle EXCEPT ![t] =
              CASE c.op.kind = "begin" -> [NoHandle EXCEPT !.node = c.node, !.id = c.id]
                [] c.op.kind = "commit" -> [@ EXCEPT !.told = c.answer]
                [] c.op.kind = "abort" -> [@ EXCEPT !.told = "aborted"]
                [] OTHER -> @]
        /\ recent' = [u \in Threads |->
              IF u = t /\ c.op.kind \in {"put", "insert"} /\ ~Rejected(c)
              THEN IF rows[c.node][c.op.key].v = t THEN c.op.key ELSE None
              ELSE IF n = primary THEN recent[u] ELSE None]
    /\ UNCHANGED <<program, serial, txn, rows, schemas, running, faults>>

(* Also makes the next node the primary, as well as counting the attempt. *)
FaultyAttemptFails(t) ==
    /\ call' = [call EXCEPT ![t] =
          IF FailsOver(@.op) /\ @.attempt + 1 < N
          THEN [@ EXCEPT !.phase = "calling", !.attempt = call[t].attempt + 1]
          ELSE [@ EXCEPT !.phase = "raised"]]
    /\ primary' = (primary + 1) % N

(* UNAVAILABLE: the next attempt, or the error once there is none left. *)
AttemptFails(t) ==
    /\ call' = [call EXCEPT ![t] =
          IF FailsOver(@.op) /\ @.attempt + 1 < N
          THEN [@ EXCEPT !.phase = "calling", !.attempt = call[t].attempt + 1]
          ELSE [@ EXCEPT !.phase = "raised"]]
    /\ UNCHANGED primary

(* The connection breaks: the request never arrived, or the answer is lost
   and whatever the handler has still to do is done without a caller.  After
   a restart of the node there is nothing left to wait for. *)
Lose(t) ==
    /\ call[t].phase \in {"waiting", "answered"}
    /\ LET mine == {h \in running : h.id = call[t].id} IN
        /\ \/ running' = running
           \/ /\ \E h \in mine : h.step = "new"
              /\ running' = running \ mine
        /\ IF call[t].phase = "waiting" /\ mine = {} THEN UNCHANGED faults
           ELSE faults < MaxFaults /\ faults' = faults + 1
    /\ AttemptFails(t)
    /\ UNCHANGED <<program, serial, handle, recent, txn, rows, schemas>>

(* The caller gets the exception; without a transaction there is no handle. *)
Raise(t) ==
    /\ call[t].phase = "raised"
    /\ call' = [call EXCEPT ![t] = Idle]
    /\ program' = IF call[t].op.kind = "begin" THEN [program EXCEPT ![t] = <<>>] ELSE program
    /\ UNCHANGED <<primary, serial, handle, recent, txn, rows, schemas, running, faults>>

-----------------------------------------------------------------------------
(* The servers *)

Others(h) == running \ {h}

(* The answer reaches the caller that still waits for this request. *)
Reply(h, a) ==
    /\ call' = IF call[h.by].phase = "waiting" /\ call[h.by].id = h.id
               THEN [call EXCEPT ![h.by] = [@ EXCEPT !.phase = "answered", !.answer = a]]
               ELSE call
    /\ UNCHANGED <<primary, program, serial, handle, faults>>

Answer(h, a) == Reply(h, a) /\ running' = Others(h)

(* A handler goes on to a later step. *)
Goes(h, g) ==
    /\ running' = Others(h) \cup {g}
    /\ UNCHANGED <<primary, program, call, serial, handle, faults>>

(* Rows are written on node n: an older put of another thread may be gone. *)
Write(n, new) ==
    /\ rows' = [rows EXCEPT ![n] =
          [k \in Keys |-> IF k \in DOMAIN new THEN new[k] ELSE rows[n][k]]]
    /\ recent' = [t \in Threads |->
          IF recent[t] \in DOMAIN new /\ new[recent[t]].v # t THEN None ELSE recent[t]]

(* Statements under way on a node another handler writes to are not alone. *)
Disturbed(n, handlers) ==
    {IF g.node = n THEN [g EXCEPT !.clean = FALSE] ELSE g : g \in handlers}

(* One store.put, which overwrites the row if there is one. *)
StorePut(h) ==
    /\ Write(h.node, [k \in {h.op.key} |-> [v |-> h.by, w |-> h.by]])
    /\ Reply(h, "ok")
    /\ running' = Disturbed(h.node, Others(h))
    /\ UNCHANGED <<txn, schemas>>

(* Put without a transaction *)
PutRow(h) == h.op.kind = "put" /\ StorePut(h)

(* get_table *)
HasTable(h) == h.node \in schemas

(* A statement on a table the registry of this node does not have *)
TableNotFound(h) ==
    /\ h.op.kind \in Sql \ {"create"} /\ h.step = "new" /\ ~HasTable(h)
    /\ Answer(h, "error")
    /\ UNCHANGED <<rows, schemas, txn, recent>>

(* CREATE TABLE, which is an error the second time *)
CreateTable(h) ==
    /\ h.op.kind = "create"
    /\ Answer(h, IF HasTable(h) THEN "error" ELSE "ok")
    /\ schemas' = schemas \cup {h.node}
    /\ UNCHANGED <<rows, txn, recent>>

(* INSERT of one row, which the schema may find invalid. *)
InsertRow(h) ==
    /\ h.op.kind = "insert" /\ HasTable(h)
    /\ \/ StorePut(h)
       \/ Answer(h, "error") /\ UNCHANGED <<rows, schemas, txn, recent>>

GetRow(h) ==
    /\ h.op.kind = "get"
    /\ Answer(h, rows[h.node][h.op.key].v)
    /\ UNCHANGED <<rows, schemas, txn, recent>>

(* where_clause.evaluate: none, or a predicate over the first column. *)
Matches(op, row) == row # Missing /\ (op.where = "all" \/ row.v = "seed")

(* The row is built from the SET clause alone. *)
FaultyImage(h, row) == [Missing EXCEPT !.v = h.by]

(* UPDATE sets the first column of the row that was scanned. *)
Image(h, row) == [row EXCEPT !.v = h.by]

(* The scan collects its records before the first row comes out of it. *)
Scan(h) ==
    /\ h.op.kind \in {"update", "delete"} /\ h.step = "new" /\ HasTable(h)
    /\ LET found == {k \in Keys : Matches(h.op, rows[h.node][k])} IN
        Goes(h, [h EXCEPT !.step = "writing", !.before = rows[h.node],
                     !.todo = [k \in found |-> rows[h.node][k]]])
    /\ UNCHANGED <<rows, schemas, txn, recent>>

(* The rows come in the order of their keys. *)
NextRow(h) == {k \in DOMAIN h.todo : \A j \in DOMAIN h.todo : k <= j}

(* The row with key k is written and the loop goes on to the next. *)
WriteRow(h, k, row) ==
    /\ Write(h.node, [j \in {k} |-> row])
    /\ running' = Disturbed(h.node, Others(h)) \cup
           {[h EXCEPT !.todo = [j \in DOMAIN h.todo \ {k} |-> h.todo[j]]]}
    /\ UNCHANGED <<primary, program, call, serial, handle, faults, txn, schemas>>

UpdateRow(h) ==
    /\ h.op.kind = "update" /\ h.step = "writing"
    /\ \E k \in NextRow(h) : WriteRow(h, k, Image(h, h.todo[k]))

(* store.delete writes a tombstone. *)
DeleteRow(h) ==
    /\ h.op.kind = "delete" /\ h.step = "writing"
    /\ \E k \in NextRow(h) : WriteRow(h, k, Missing)

StatementDone(h) ==
    /\ h.step = "writing" /\ DOMAIN h.todo = {}
    /\ Answer(h, "ok")
    /\ UNCHANGED <<rows, schemas, txn, recent>>

BeginTransaction(h) ==
    /\ h.op.kind = "begin"
    /\ txn' = [i \in DOMAIN txn \cup {h.id} |->
          IF i = h.id THEN [node |-> h.node, state |-> "active", live |-> TRUE,
                            writes |-> {}, applied |-> 0]
          ELSE txn[i]]
    /\ Answer(h, "ok")
    /\ UNCHANGED <<rows, schemas, recent>>

(* get_txn: the transaction is among the active ones of this node. *)
Found(h) == h.txn \in DOMAIN txn /\ txn[h.txn].live /\ txn[h.txn].node = h.node

(* The request arrived where its transaction is not: context.abort. *)
TxnNotFound(h) ==
    /\ h.op.kind \in {"tput", "commit"} /\ h.step = "new" /\ ~Found(h)
    /\ Answer(h, "not_found")
    /\ UNCHANGED <<rows, schemas, txn, recent>>

(* Put or Delete in a transaction buffers the write, unless a commit of the
   transaction has begun. *)
TxnPut(h) ==
    /\ h.op.kind = "tput" /\ Found(h)
    /\ IF txn[h.txn].state = "active"
       THEN /\ txn' = [txn EXCEPT ![h.txn].writes = @ \cup {h.op.key}]
            /\ Answer(h, "ok")
       ELSE Answer(h, "error") /\ UNCHANGED txn
    /\ UNCHANGED <<rows, schemas, recent>>

(* commit looks at the state, ... *)
CommitCheck(h) ==
    /\ h.op.kind = "commit" /\ h.step = "new" /\ Found(h)
    /\ IF txn[h.txn].state = "active" THEN Goes(h, [h EXCEPT !.step = "checked"])
       ELSE Answer(h, "refused")
    /\ UNCHANGED <<rows, schemas, txn, recent>>

(* ... and sets it in a later step, without a lock. *)
CommitPrepare(h) ==
    /\ h.step = "checked"
    /\ txn' = [txn EXCEPT ![h.txn].state = "preparing"]
    /\ Goes(h, [h EXCEPT !.step = "preparing"])
    /\ UNCHANGED <<rows, schemas, recent>>

CommitApply(h) ==
    /\ h.step = "preparing"
    /\ Write(h.node, [k \in txn[h.txn].writes |-> [v |-> h.by, w |-> h.by]])
    /\ txn' = [txn EXCEPT ![h.txn].state = "committed", ![h.txn].applied = @ + 1]
    /\ running' = (IF txn[h.txn].writes = {} THEN Others(h) ELSE Disturbed(h.node, Others(h)))
           \cup {[h EXCEPT !.step = "finalizing", !.result = "ok"]}
    /\ UNCHANGED <<primary, program, call, serial, handle, faults, schemas>>

(* The wound is only looked at once the writes are applied. *)
FaultyMayRefuse(h) == h.step = "preparing" \/ (h.step = "finalizing" /\ h.result = "ok")

(* Until it applies, a commit may be wounded or time out on a lock. *)
MayRefuse(h) == h.step = "preparing"

(* TransactionAborted is answered success=False, another error is raised. *)
CommitRefused(h) ==
    /\ MayRefuse(h)
    /\ txn' = [txn EXCEPT ![h.txn].state = "aborted"]
    /\ \E a \in {"refused", "error"} :
          Goes(h, [h EXCEPT !.step = "finalizing", !.result = a])
    /\ UNCHANGED <<rows, schemas, recent>>

CommitFinalize(h) ==
    /\ h.step = "finalizing"
    /\ txn' = [txn EXCEPT ![h.txn].live = FALSE]
    /\ Answer(h, h.result)
    /\ UNCHANGED <<rows, schemas, recent>>

(* abort asks for no state; without the transaction it succeeds all the same. *)
AbortTransaction(h) ==
    /\ h.op.kind = "abort"
    /\ txn' = IF Found(h) THEN [txn EXCEPT ![h.txn].state = "aborted", ![h.txn].live = FALSE]
              ELSE txn
    /\ Answer(h, "ok")
    /\ UNCHANGED <<rows, schemas, recent>>

(* A node restarts: its handlers, transactions and schemas are gone. *)
Restart(n) ==
    /\ faults < MaxFaults
    /\ faults' = faults + 1
    /\ running' = {h \in running : h.node # n \/ h.step = "new"}
    /\ txn' = [i \in DOMAIN txn |->
          IF txn[i].node = n /\ txn[i].live
          THEN [txn[i] EXCEPT !.live = FALSE,
                    !.state = IF txn[i].state = "committed" THEN "committed" ELSE "lost"]
          ELSE txn[i]]
    /\ schemas' = schemas \ {n}
    /\ UNCHANGED <<clientVars, rows>>

-----------------------------------------------------------------------------
ClientStep(t) == Invoke(t) \/ Send(t) \/ Receive(t) \/ Lose(t) \/ Raise(t)

ServerStep(h) ==
    \/ PutRow(h) \/ GetRow(h) \/ TableNotFound(h) \/ CreateTable(h) \/ InsertRow(h)
    \/ Scan(h) \/ UpdateRow(h) \/ DeleteRow(h) \/ StatementDone(h)
    \/ BeginTransaction(h) \/ TxnNotFound(h) \/ TxnPut(h)
    \/ CommitCheck(h) \/ CommitPrepare(h) \/ CommitApply(h) \/ CommitRefused(h)
    \/ CommitFinalize(h) \/ AbortTransaction(h)

Next ==
    \/ \E t \in Threads : ClientStep(t)
    \/ \E h \in running : ServerStep(h)
    \/ \E n \in Node : Restart(n)

Spec == Init /\ [][Next]_vars

-----------------------------------------------------------------------------
(* Properties *)

(* What commit tells its caller is true for good.  True: the writes are in
   the store of the pinned node.  False, and no other commit or abort of the
   transaction was ever sent: they are not and never will be; and a single
   commit call applies them at most once, whatever connections broke. *)
CommitTruthful ==
    \A t \in Threads : handle[t].id \in DOMAIN txn =>
        LET done == txn[handle[t].id].applied IN
        /\ handle[t].told = "ok" => done >= 1
        /\ handle[t].told \in {"refused", "aborted"} /\ handle[t].ends = 1 => done = 0
        /\ done <= handle[t].ends

(* "failing over to the next node" (_call): a call is raised to its caller
   only after every node was asked, unless another thread moved the primary
   of the shared client while the call was choosing its nodes. *)
EveryNodeAsked ==
    \A t \in Threads : call[t].phase = "raised" =>
        ~FailsOver(call[t].op) \/ call[t].moved \/ call[t].asked = Node

(* A transaction call is answered NOT_FOUND only when the transaction has
   ended or its node restarted: no call of a live transaction is ever routed
   to another node, wherever the primary has moved (RemoteTransaction). *)
NotFoundMeansEnded ==
    \A t \in Threads :
        call[t].phase = "answered" /\ ~FailsOver(call[t].op) /\ call[t].answer = "not_found" =>
        ~txn[handle[t].id].live

(* A thread that was told its put succeeded reads it back, as long as nobody
   overwrote the row or moved the primary and the get needed no fail-over:
   the client stays with the node that answered (_primary). *)
ReadsOwnPut ==
    \A t \in Threads :
        LET c == call[t] IN
        c.phase = "answered" /\ c.op.kind = "get" /\ c.attempt = 0
            /\ recent[t] = c.op.key => c.answer = t

(* An UPDATE or DELETE during which nobody else wrote to its node has changed
   exactly the rows that matched its WHERE clause, and those only where the
   statement says (_execute_update, _execute_delete). *)
AloneStatementExact ==
    \A h \in running : h.step = "writing" /\ DOMAIN h.todo = {} /\ h.clean =>
        \A k \in Keys :
            LET old == h.before[k]
                new == rows[h.node][k] IN
            IF ~Matches(h.op, old) THEN new = old
            ELSE IF h.op.kind = "delete" THEN new = Missing
            ELSE new.v = h.by /\ new.w = old.w
=============================================================================
