------------------------------ MODULE Warehouse ------------------------------
(***************************************************************************)
(* The warehouse backend: tables stored as partitions under a version      *)
(* (storage.py), queries over them with zone-map pruning (query_engine.py) *)
(* and a result cache keyed by versions (result_cache.py), as the handlers *)
(* of main.py run them.  Upload and delete are coroutines of one event     *)
(* loop that await nothing once they touch the store, so they run one at a *)
(* time; queries and the viewer run in threads and come between any two of *)
(* their store calls.  The process may crash; the store survives.          *)
(***************************************************************************)
EXTENDS Integers, Sequences, FiniteSets, Functions, SequencesExt, FiniteSetsExt

CONSTANTS Tables, Threads, QueryIds,
          Mutable,              \* the tables that are uploaded and deleted
          OldTables, OldRows,   \* tables from before partitions were introduced
          Contents,       \* what is uploaded: sequences of partitions, each a set of values
          Statements,     \* [text, reads, tables, prunes]: see StatementsAssumption
          MaxValue,       \* bounds the values of a column
          MaxQueries,
          MaxEvents,      \* bounds the uploads, deletes, failures and crashes together
          MaxEntries      \* ResultCache.max_entries

ASSUME OldTablesAssumption == OldTables \cup Mutable \subseteq Tables
(* normalize_sql joins what white space separates, in string literals as well;
   statements that differ there alone share their cache entries in the code. *)
ASSUME TextsTell == \A s1, s2 \in Statements : s1.text = s2.text => s1 = s2
ASSUME WarehouseBounds == {MaxValue, MaxQueries, MaxEvents, MaxEntries} \subseteq Nat

Null == -1      \* an SQL NULL
Column == (0..MaxValue) \cup {Null}
Orders == {"=", "!=", "<", "<=", ">", ">="}
IsConjunct(p) == IF p.op = "IN" THEN p.value \in SUBSET Nat
                 ELSE p.op \in Orders /\ p.value \in Nat
ASSUME RowsAssumption == OldRows \in SUBSET Column /\ Contents \subseteq Seq(SUBSET Column)
(* A statement reads a table under one or several aliases (self-join, subquery),
   each read with the conjuncts that are about it.  extract_tables names each
   table once; extract_predicates takes conjuncts of any alias, without the alias. *)
ASSUME StatementsAssumption ==
    \A s \in Statements :
        /\ s.tables \in Seq(Tables) /\ s.tables # <<>>
        /\ \A i, j \in DOMAIN s.tables : s.tables[i] = s.tables[j] => i = j
        /\ Range(s.tables) = {s.reads[n].table : n \in DOMAIN s.reads}
        /\ s.prunes \subseteq UNION {s.reads[n].where : n \in DOMAIN s.reads}
        /\ \A n \in DOMAIN s.reads : \A p \in s.reads[n].where : IsConjunct(p)

NoMeta == [version |-> -1, parts |-> 0, zones |-> <<>>]
Legacy == [version |-> 0, parts |-> 1, zones |-> <<>>]   \* rows without partitions
NoAnswer == {<<"none">>}
AtRest == [op |-> "none", at |-> "none", table |-> CHOOSE t \in Tables : TRUE,
           old |-> NoMeta, content |-> <<>>, left |-> {}]
Idle == [at |-> "idle", sql |-> CHOOSE s \in Statements : TRUE, id |-> CHOOSE i \in QueryIds : TRUE,
         views |-> FALSE, metas |-> [t \in {} |-> NoMeta], left |-> <<>>, keys |-> {},
         got |-> {}, answer |-> NoAnswer]

VARIABLES
    ver,        \* tablever:<table>
    meta,       \* table:<table>:meta
    blob,       \* part:<table>:<version>:<idx> and data:<table>:<i>
    hist,       \* queryhist:<table>: is there one
    cache,      \* ResultCache._entries, the least recently used first
    mutator,    \* the upload or delete in progress
    thread,     \* the query or view in progress in each thread
    active, cancelled,    \* active_queries, cancelled_queries
    interrupted, events, queries,    \* history and counters
    content     \* history: what was uploaded as <<table, version>>

stored == <<ver, meta, blob, content>>
running == <<active, cancelled>>
counts == <<interrupted, events, queries>>
vars == <<stored, hist, cache, mutator, thread, running, counts>>

-----------------------------------------------------------------------------
(* Zone maps and pruning (compute_zone_map, _may_match, select_partitions) *)

ZoneMap(part) ==
    LET known == part \ {Null} IN
    IF known = {} THEN [min |-> Null, max |-> Null]
    ELSE [min |-> Min(known), max |-> Max(known)]

Holds(x, p) ==     \* what SQLite makes of the conjunct for a row
    x # Null /\ CASE p.op = "=" -> x = p.value
                  [] p.op = "!=" -> x # p.value
                  [] p.op = "<" -> x < p.value
                  [] p.op = "<=" -> x <= p.value
                  [] p.op = ">" -> x > p.value
                  [] p.op = ">=" -> x >= p.value
                  [] p.op = "IN" -> x \in p.value

(* A mutant: the zone of a partition is taken for its only value. *)
FaultyMayMatch(z, p) == z.min = Null \/ Holds(z.max, p)

(* False only when no row of the partition can match *)
MayMatch(z, p) ==
    z.min = Null \/ CASE p.op = "=" -> z.min <= p.value /\ p.value <= z.max
                      [] p.op = "!=" -> ~(z.min = z.max /\ z.max = p.value)
                      [] p.op = "<" -> z.min < p.value
                      [] p.op = "<=" -> z.min <= p.value
                      [] p.op = ">" -> z.max > p.value
                      [] p.op = ">=" -> z.max >= p.value
                      [] p.op = "IN" -> \E v \in p.value : z.min <= v /\ v <= z.max

(* The keys of a table's partitions, and those a statement loads: it is pruned
   when extract_tables found one name, whatever it reads under that name, and the
   table has partitions. *)
Keys(t, m) == {<<t, m.version, i>> : i \in 1..m.parts}
Selected(sql, t, m, views) ==
    {k \in Keys(t, m) : \/ views \/ Len(sql.tables) > 1 \/ m.version = 0
                        \/ \A p \in sql.prunes : MayMatch(m.zones[k[3]], p)}
InTurn(keys) == {k \in keys : \A j \in keys : k[3] <= j[3]}
Put(f, k, x) == [j \in DOMAIN f \cup {k} |-> IF j = k THEN x ELSE f[j]]

(* What a partition contributes to each of the reads of its table. *)
Rows(sql, t, i, part) ==
    {row \in (DOMAIN sql.reads) \X {i} \X part :
        LET read == sql.reads[row[1]] IN
        read.table = t /\ \A p \in read.where : Holds(row[3], p)}

(* The answer to sql over the uploads these metas describe. *)
Exact(sql, metas) ==
    UNION {UNION {Rows(sql, t, i, content[<<t, metas[t].version>>][i]) : i \in 1..metas[t].parts}
           : t \in DOMAIN metas}

Intact(t) == Keys(t, meta[t]) \subseteq DOMAIN blob

-----------------------------------------------------------------------------
Init ==
    /\ ver = [t \in Tables |-> 0]
    /\ meta = [t \in Tables |-> IF t \in OldTables THEN Legacy ELSE NoMeta]
    /\ content = [k \in OldTables \X {0} |-> <<OldRows>>]
    /\ blob = [k \in OldTables \X {0} \X {1} |-> OldRows]
    /\ hist = [t \in Tables |-> FALSE]
    /\ cache = <<>>
    /\ mutator = AtRest
    /\ thread = [c \in Threads |-> Idle]
    /\ active = {} /\ cancelled = {}
    /\ interrupted = FALSE /\ events = 0 /\ queries = 0

-----------------------------------------------------------------------------
(* store_table and delete_table, one store call at a time *)

Working(op, at) == mutator.op = op /\ mutator.at = at
Then(at) == mutator' = [mutator EXCEPT !.at = at]
Others == UNCHANGED <<cache, thread, running, counts>>
MayMutate == mutator = AtRest /\ events < MaxEvents
Begins == events' = events + 1 /\ UNCHANGED <<cache, thread, running, interrupted, queries>>

(* A mutant: the version follows that of the meta record replaced. *)
FaultyBumped(t) == [ver EXCEPT ![t] = IF meta[t] = NoMeta THEN 1 ELSE meta[t].version + 1]
Bumped(t) == [ver EXCEPT ![t] = @ + 1]

(* store_table has read the old meta record and cut the rows in partitions. *)
Storing(t, version, parts) ==
    [op |-> "store", at |-> "parts", table |-> t, old |-> meta[t],
     content |-> parts, left |-> {<<t, version, i>> : i \in DOMAIN parts}]

(* A file that passes the checks of upload_file; another changes nothing. *)
Upload(t, parts) ==
    /\ MayMutate
    /\ ver' = Bumped(t)
    /\ content' = Put(content, <<t, ver'[t]>>, parts)
    /\ mutator' = Storing(t, ver'[t], parts)
    /\ UNCHANGED <<meta, blob, hist>> /\ Begins

Delete(t) ==
    /\ MayMutate /\ meta[t] # NoMeta
    /\ mutator' = [AtRest EXCEPT !.op = "delete", !.at = "erase", !.table = t,
                                 !.old = meta[t], !.left = Keys(t, meta[t])]
    /\ UNCHANGED <<stored, hist>> /\ Begins

PutPart ==
    /\ Working("store", "parts")
    /\ \E k \in InTurn(mutator.left) :
          /\ blob' = Put(blob, k, mutator.content[k[3]])
          /\ mutator' = [mutator EXCEPT !.left = @ \ {k}]
    /\ UNCHANGED <<ver, meta, content, hist>> /\ Others

(* A mutant: what an upload replaces stays. *)
FaultyErasing(keys) == IF mutator.op = "store" THEN AtRest
                       ELSE [mutator EXCEPT !.at = "erase", !.left = keys]
Erasing(keys) == IF keys = {} /\ mutator.op = "store" THEN AtRest
                 ELSE [mutator EXCEPT !.at = "erase", !.left = keys]

PutMeta ==
    LET t == mutator.table IN
    /\ Working("store", "parts") /\ mutator.left = {}
    /\ meta' = [meta EXCEPT ![t] = [version |-> ver[t], parts |-> Len(mutator.content),
                   zones |-> [i \in 1..Len(mutator.content) |-> ZoneMap(mutator.content[i])]]]
    /\ mutator' = Erasing(Keys(t, mutator.old))
    /\ UNCHANGED <<ver, blob, content, hist>> /\ Others

(* _delete_data of what the old meta record names *)
Erase ==
    /\ mutator.at = "erase"
    /\ \E k \in InTurn(mutator.left) :
          /\ blob' = Restrict(blob, DOMAIN blob \ {k})
          /\ mutator' = Erasing(mutator.left \ {k})
    /\ UNCHANGED <<ver, meta, content, hist>> /\ Others

DeleteMeta ==
    /\ Working("delete", "erase") /\ mutator.left = {}
    /\ meta' = [meta EXCEPT ![mutator.table] = NoMeta]
    /\ Then("bump")
    /\ UNCHANGED <<ver, blob, content, hist>> /\ Others

BumpForDelete ==
    /\ Working("delete", "bump")
    /\ ver' = Bumped(mutator.table)
    /\ Then("history")
    /\ UNCHANGED <<meta, blob, content, hist>> /\ Others

DeleteHistory ==
    /\ Working("delete", "history")
    /\ hist' = [hist EXCEPT ![mutator.table] = FALSE]
    /\ mutator' = AtRest
    /\ UNCHANGED stored /\ Others

(* A store call raises: the handler answers 500 and undoes nothing. *)
MutatorFails ==
    /\ mutator # AtRest /\ events < MaxEvents
    /\ mutator' = AtRest
    /\ interrupted' = TRUE /\ events' = events + 1
    /\ UNCHANGED <<stored, hist, cache, thread, running, queries>>

Crash ==
    /\ events < MaxEvents
    /\ events' = events + 1
    /\ interrupted' = (interrupted \/ mutator # AtRest)
    /\ mutator' = AtRest /\ cache' = <<>>
    /\ thread' = [c \in Threads |-> Idle]
    /\ active' = {} /\ cancelled' = {}
    /\ UNCHANGED <<stored, hist, queries>>

-----------------------------------------------------------------------------
(* execute_query, cancel_query and table_data *)

Unseen == UNCHANGED <<stored, mutator, counts>>
Step(c, f) == thread' = [thread EXCEPT ![c] = f]
At(c, at) == thread[c].at = at
Goes(c, at) == Step(c, [thread[c] EXCEPT !.at = at])

Register(id) == active' = active \cup {id} /\ cancelled' = cancelled \ {id}
Complete(id) == active' = active \ {id} /\ cancelled' = cancelled \ {id}
IsCancelled(q) == q.id \in cancelled /\ ~q.views

StartQuery(c, sql, id) ==
    /\ At(c, "idle") /\ queries < MaxQueries
    /\ queries' = queries + 1
    /\ Step(c, [Idle EXCEPT !.at = "metas", !.sql = sql, !.id = id, !.left = sql.tables])
    /\ Register(id)
    /\ UNCHANGED <<stored, hist, cache, mutator, interrupted, events>>

(* The viewer: no query id, no cache, no history, no WHERE. *)
StartView(c, t) ==
    /\ At(c, "idle") /\ queries < MaxQueries
    /\ queries' = queries + 1
    /\ Step(c, [Idle EXCEPT !.at = "metas", !.views = TRUE, !.left = <<t>>,
                            !.sql = [text |-> "", tables |-> <<t>>, prunes |-> {},
                                     reads |-> <<[table |-> t, where |-> {}]>>]])
    /\ UNCHANGED <<stored, hist, cache, mutator, running, interrupted, events>>

ReadMeta(c) ==
    LET q == thread[c]  t == Head(q.left) IN
    /\ At(c, "metas") /\ q.left # <<>>
    /\ IF meta[t] = NoMeta THEN Goes(c, "ending")
       ELSE Step(c, [q EXCEPT !.metas = Put(@, t, meta[t]), !.left = Tail(@)])
    /\ UNCHANGED <<hist, cache, running>> /\ Unseen

(* make_key: the normalized text and the version of every table *)
Key(q) == [text |-> q.sql.text, versions |-> [t \in DOMAIN q.metas |-> q.metas[t].version]]
Found(q) == {i \in DOMAIN cache : cache[i].key = Key(q)}

Hit(c) ==
    LET q == thread[c] IN
    /\ At(c, "metas") /\ q.left = <<>> /\ ~q.views
    /\ \E i \in Found(q) :
          /\ cache' = Append(RemoveAt(cache, i), cache[i])
          /\ Step(c, [q EXCEPT !.at = "record", !.answer = cache[i].answer, !.left = q.sql.tables])
    /\ UNCHANGED <<hist, running>> /\ Unseen

(* No entry, an entry whose time is over, or use_cache off *)
Miss(c) ==
    LET q == thread[c] IN
    /\ At(c, "metas") /\ q.left = <<>>
    /\ \/ UNCHANGED cache
       \/ ~q.views /\ \E i \in Found(q) : cache' = RemoveAt(cache, i)
    /\ Step(c, [q EXCEPT !.at = "check", !.left = q.sql.tables])
    /\ UNCHANGED <<hist, running>> /\ Unseen

(* raise_if_cancelled, before the first table and after each *)
Check(c) ==
    LET q == thread[c] IN
    /\ At(c, "check")
    /\ IF IsCancelled(q) THEN Goes(c, "ending")
       ELSE IF q.left = <<>> THEN Goes(c, "execute")
       ELSE LET t == Head(q.left)  keys == Selected(q.sql, t, q.metas[t], q.views) IN
            Step(c, [q EXCEPT !.at = IF keys = {} THEN "check" ELSE "load", !.left = Tail(@),
                              !.keys = keys])
    /\ UNCHANGED <<hist, cache, running>> /\ Unseen

(* load_partitions, load_legacy: what is not there is passed over *)
Load(c) ==
    LET q == thread[c] IN
    /\ At(c, "load")
    /\ \E k \in InTurn(q.keys) :
          Step(c, [q EXCEPT !.keys = @ \ {k}, !.at = IF q.keys = {k} THEN "check" ELSE @,
              !.got = IF k \in DOMAIN blob THEN @ \cup Rows(q.sql, k[1], k[3], blob[k]) ELSE @])
    /\ UNCHANGED <<hist, cache, running>> /\ Unseen

(* SQLite runs on what was loaded; the result goes to the cache. *)
Cached(q) ==
    LET others == IF Found(q) = {} THEN cache
                  ELSE RemoveAt(cache, CHOOSE i \in Found(q) : TRUE)
        all == Append(others, [key |-> Key(q), answer |-> q.got])
    IN IF Len(all) > MaxEntries THEN Tail(all) ELSE all

Execute(c) ==
    LET q == thread[c] IN
    /\ At(c, "execute") /\ ~q.views
    /\ cache' = Cached(q)
    /\ Step(c, [q EXCEPT !.at = "record", !.answer = q.got, !.got = {}, !.left = q.sql.tables])
    /\ UNCHANGED <<hist, running>> /\ Unseen

Show(c) ==
    LET q == thread[c] IN
    /\ At(c, "execute") /\ q.views
    /\ Step(c, [q EXCEPT !.at = "ending", !.answer = q.got, !.got = {}])
    /\ UNCHANGED <<hist, cache, running>> /\ Unseen

(* record_query_history, table by table *)
Record(c) ==
    LET q == thread[c] IN
    /\ At(c, "record")
    /\ hist' = [hist EXCEPT ![Head(q.left)] = TRUE]
    /\ Step(c, [q EXCEPT !.left = Tail(@), !.at = IF Len(q.left) = 1 THEN "ending" ELSE @])
    /\ UNCHANGED <<cache, running>> /\ Unseen

(* Refused by the checks, a store call or SQLite raised, or the progress
   handler saw the cancellation while SQLite ran. *)
QueryFails(c) ==
    /\ thread[c].at \in {"metas", "load", "execute"}
    /\ Goes(c, "ending")
    /\ UNCHANGED <<hist, cache, running>> /\ Unseen

(* complete_query, in the finally clause *)
EndQuery(c) ==
    LET q == thread[c] IN
    /\ At(c, "ending")
    /\ Step(c, Idle)
    /\ IF q.views THEN UNCHANGED running
       ELSE Complete(q.id)
    /\ UNCHANGED <<hist, cache>> /\ Unseen

CancelQuery(id) ==
    /\ id \in active \ cancelled
    /\ cancelled' = cancelled \cup {id}
    /\ UNCHANGED <<hist, cache, thread, active>> /\ Unseen

ThreadStep(c) ==
    \/ ReadMeta(c) \/ Hit(c) \/ Miss(c) \/ Check(c) \/ Load(c) \/ Execute(c)
    \/ Show(c) \/ Record(c) \/ QueryFails(c) \/ EndQuery(c)
MutatorStep ==
    \/ PutPart \/ PutMeta \/ Erase \/ DeleteMeta \/ BumpForDelete \/ DeleteHistory

Next ==
    \/ \E t \in Mutable : Delete(t) \/ \E parts \in Contents : Upload(t, parts)
    \/ MutatorStep \/ MutatorFails \/ Crash
    \/ \E c \in Threads :
          \/ \E sql \in Statements, id \in QueryIds : StartQuery(c, sql, id)
          \/ \E t \in Tables : StartView(c, t)
          \/ ThreadStep(c)
    \/ \E id \in QueryIds : CancelQuery(id)

Spec == Init /\ [][Next]_vars

-----------------------------------------------------------------------------
(* The version a result was computed from is listed now; it is current if none of
   its partitions is missing.  (A delete that fails after its first _delete_data
   leaves a listed version with missing partitions.) *)
IsListed(t, version) == meta[t].version = version /\ meta[t] # NoMeta
Current(t, version) == IsListed(t, version) /\ Intact(t)

(* The conjuncts a statement is pruned by are about everything it reads. *)
PrunesAll(sql) == Len(sql.tables) > 1 \/ \A n \in DOMAIN sql.reads : sql.prunes \subseteq sql.reads[n].where

(* Stale entries can never be served: an entry addressed by the versions listed
   now holds rows of these versions only, and if none of their partitions is
   missing it is the exact answer, unless it was pruned by a conjunct that is not
   about all it reads.  This although queries that lost a race with an upload or a
   delete put what they found into the same cache. *)
CurrentEntriesExact ==
    \A e \in Range(cache) : \A sql \in Statements :
        LET versions == e.key.versions
            exact == Exact(sql, [t \in DOMAIN versions |-> meta[t]])
        IN sql.text = e.key.text /\ (\A t \in DOMAIN versions : IsListed(t, versions[t])) =>
              /\ e.answer \subseteq exact
              /\ PrunesAll(sql) /\ (\A t \in DOMAIN versions : Intact(t)) => e.answer = exact

(* A query or a view that no upload or delete of its tables disturbed answers
   exactly, whether it computed or found the answer, unless it was pruned by a
   conjunct that is not about all it reads. *)
UndisturbedAnswersExact ==
    \A c \in Threads : LET q == thread[c] IN
        /\ q.answer # NoAnswer /\ PrunesAll(q.sql)
        /\ \A t \in DOMAIN q.metas : Current(t, q.metas[t].version)
        => q.answer = Exact(q.sql, q.metas)

(* The same of every statement: "a partition is skipped only when its zone map
   PROVES no row can match" (query_engine.py).  It does not hold: in FROM t a JOIN
   t b WHERE a.x = 5 the partitions that b needs are skipped too. *)
PrunedAnswersExact ==
    \A c \in Threads : LET q == thread[c] IN
        /\ q.answer # NoAnswer
        /\ \A t \in DOMAIN q.metas : Current(t, q.metas[t].version)
        => q.answer = Exact(q.sql, q.metas)

(* Between two operations, none of which was interrupted, the store holds the
   partitions of the tables it lists, and no others. *)
StorageExact ==
    mutator = AtRest /\ ~interrupted =>
        DOMAIN blob = UNION {Keys(t, meta[t]) : t \in Tables}
=============================================================================
