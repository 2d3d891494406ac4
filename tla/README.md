# Verification of the spyMonk query platform

TLA+ models, TLC configurations and TLAPS proofs for the database
(`spyMonk-DB/spymonk_enterprise`) and the warehouse in front of it
(`spyMonk-warehouse/backend`). Paths below are relative to the repository.
`DB` abbreviates `spyMonk-DB/spymonk_enterprise`, `WH` abbreviates
`spyMonk-warehouse/backend`.

## 1. Inventory

| Part | State it keeps | Operations | What is hard, and what makes it correct |
|---|---|---|---|
| Lock table, `DB/transaction/lock_table.py` | `_locks`, `_held`, `_wounded`, `_committing`, threads asleep on one condition variable | `acquire_read`, `acquire_write`, `is_wounded`, `enter_commit`, `release_all` | threads interleave at every wait; locks are taken away by wounds. Exclusion, no leaked lock, no lost wake-up, no deadlock, the commit fence |
| Transaction manager, `DB/transaction/transaction.py` | transaction states and buffers, `active_txns`, `last_commit_ts`, `_last_assigned` | `begin`, `get`, `put`, `delete`, `commit`, `abort`, `read_at` | a commit has many steps and runs beside other commits, wounds, aborts, clock changes. Serializability in commit timestamp order, commit-wait, order of versions, snapshots |
| TrueTime and the hybrid clock, `DB/time/` | NTP offset, uncertainty, last sync, last timestamp and counter | `now`, `after`, `commit_wait`, `update`, `sync_ntp` | the clock steps while somebody waits on it, drifts, and is synchronized. The interval contains absolute time; timestamps respect messages |
| Storage engine, `DB/storage/` | log segments, memtable, table files, open readers | `put`, `delete`, `get`, `scan`, `flush`, `compact`, recovery | crashes between any two file operations; gets run beside flush and compaction without a lock. Durability, currency, file handles |
| Paxos group, `DB/replication/paxos/` | role, term, lease end, last vote, log, committed slots | `request_leadership`, `has_lease`, `propose`, message handlers | lost and late messages, clocks that err. One lease at a time; one value per slot, for ever |
| Transport and replica manager, `DB/replication/` | handlers by replica id, channels | `send`, `register`, `create_group`, `replicate` | a call that times out may still be executed |
| gRPC server, `DB/spanserver/server.py` | none of its own | transaction calls, autocommit operations, SQL | a pool of threads: two calls of one transaction may run at once |
| Distributed client, `DB/client/client.py` | current node, transaction handles | calls with fail-over | the failed call may have been executed; threads share the current node |
| SQL, `DB/sql/` | none | parse, execute | precedence; order of sorting, projection and cutting; UPDATE and DELETE read before they write |
| Schema and directories, `DB/schema/` | key ranges, table definitions (in memory) | create, find, split | a restart forgets the tables |
| Warehouse query path, `WH/main.py`, `WH/query_engine.py`, `WH/result_cache.py` | query registry, result cache, history | query, view, cancel, upload, delete | a query reads metadata, then partitions that an upload may have replaced; pruning must not lose rows |
| Warehouse table storage, `WH/storage.py` | partitions, metadata and version of each table | `store_table`, `load_partitions`, `delete_table` | several writes that are not one transaction |
| Log shipping, `WH/loki_handler.py` | queue of records | `emit`, flushing thread, `close` | records in flight when the process ends |
| Everything else | metrics, admin tool, reader-writer lock that nothing uses, authentication, configuration, generated stubs, the web page | | no interacting state, or generated |

How the parts meet: a client call reaches the server, which looks the
transaction up in the manager; the manager calls the lock table (blocking), the
clock and the store. The server also calls the store directly for autocommitted
operations. A Paxos group calls its transport, whose other end calls the
handler of another group; its state machine callback writes to a store. The
warehouse reaches a database node through the embedded store or the client.

`PROJECT.json` lists each part with its sources and status, and under `hazards`
the places where this code can go wrong in ways a test would hardly reach.

## 2. Modules

```
LockTable <- Transactions <- TransactionsProofs
PaxosLease <- MCPaxosLease,  PaxosLease <- PaxosLeaseProofs
ReplicatedLog <~ PaxosGroup <- MCPaxosGroup,  PaxosGroup <- PaxosGroupProofs
HybridClock <- MCHybridClock,  HybridClock <- HybridClockProofs
MVCCStore <- MVCCStoreProofs
ClusterClient <- MCClusterClient,  ClusterClient <- ClusterClientProofs
WherePredicates <- SelectStatements <- MCSelectStatements,  SelectStatements <- SelectStatementsProofs
Warehouse <- MCWarehouse,  Warehouse <- WarehouseProofs
```

`<-` is EXTENDS; `<~` is INSTANCE: `PaxosGroup` instantiates `ReplicatedLog` as
the specification it implements. `Transactions` extends `LockTable` and takes its
steps together with steps of its own, so what is proved of the table's steps is
proved again of the manager's (`ExclusionUnderManager`, `NoDeadlockUnderManager`).

A definition whose name starts with `Faulty` is a plausible bug in the
definition after it. No action uses it; the mutants listed in `PROJECT.json`
put it in the place of the original, and the property must then fail.

### LockTable

One thread calls the table for each transaction. All calls run under one
condition variable, so a step is what a thread does from getting it to giving
it up. `CallAcquire` is entering `acquire_read`/`acquire_write`; `Take`,
`Block` and `RaiseWounded` are the three ways the loop body can end (the lock
is taken, in the same critical section as the wounds that free it; the thread
wounds what it may and sleeps or raises on its deadline; it finds itself
wounded). `DeadlinePasses` is the return of `cond.wait(remaining)`.
`EnterCommit` and `ReleaseAll` are the other two operations; `is_wounded` reads
only. A transaction is a number, the rank of its age, which is unique because
`txn_id` is part of it. A caller starts no acquire after `enter_commit`, which
the docstring of `enter_commit` demands and the manager respects.

### Transactions

Extends `LockTable` with the manager. `step[t]` is the program point of the
thread serving a transaction: a `Get` asks for the lock, is `Granted` or
`Refused`, then reads in a step of its own (`ReadLocked`), because a wound may
come between the two; a commit goes through `Commit`, `LockNextKey`,
`LocksComplete`, `Choose`, `CommitWaitOver`, `EnterApply`, one `Apply` for each
mutation, `AdvanceSafeTime`, `Finalize`, and other threads may act between any
two. `CommitFails` is each exception a commit may meet. `AbortRace` is an
AbortTransaction call handled while another call of the transaction runs: `abort`
checks nothing, so it may. Snapshots are read-only transactions (`BeginReadOnly`)
and snapshot reads (`BeginReadAt`).

TrueTime: `now` is absolute time, the clock shows `now + skew` and reports the
uncertainty `eps`; `ClockAdjust` changes both at any moment to any values with
`|skew| <= eps`, which is what TrueTime promises and all it promises
(`HybridClock` is about when it keeps the promise).

Abstractions: a version is named by its writer; writes of one transaction to one
key are one version; the HLC's logical counter is 0 when read, so that timestamps
of one physical time are told apart by `_choose_commit_timestamp` alone;
read-write transactions exist from the start, since `begin` only fixes their age;
autocommitted writes of the server are not here (they bypass locks and
commit-wait; `ClusterClient` has them).

### PaxosLease, MCPaxosLease

Leader election with timed votes. `RequestLeadership` starts an election;
`AskGranted`, `AskRefused` and `AskUnanswered` are one turn of its loop over the
replicas, the handler of the voter included, since the call is synchronous;
`AskUnanswered` leaves the request in `late`, from which the voter may handle it
at any later time or never (`LateGrant`, `LateRefuse`). `Win` and `Lose` count
the votes. `AcceptTerm` is what `_on_accept` does to a term. Each TrueTime
reading is chosen independently within `MaxErr` of absolute time, which covers
any clock TrueTime allows, also one that changes between two calls of a
handler: `MayGrant` and `MayRefuse` can both hold. `HasLease` uses the smallest value `latest`
can have, so that it is the most generous belief a replica can form.

Left out: `current_leader` (never read by the protocol), a handler that raises
`ClockUncertaintyError` (the sender sees an unanswered call), two concurrent
`request_leadership` calls on one replica, and restarts, which lose `last_vote`.

### PaxosGroup, ReplicatedLog

The log of a group. `job[c]` is where a thread is inside `request_leadership`
or `propose`: asking for votes (`AskVote`, `NoVote`, then `Win` or `Lose`),
syncing (`Sync`, `SyncDone`), re-driving (`Redrive`), taking a slot
(`TakeSlot`), sending one entry to one replica after another (`AskAccept`,
`NoAccept`, then `Chosen` or `NotChosen`), and notifying (`Notify`,
`NotifyLost`). Locks are held for one of these steps at a time, so the steps of
several threads interleave, at one replica too. The acceptor's handlers are
part of the step that calls them. A request that got no answer may have been
handled (`heard` is FALSE), or be handled later, or never: votes, accepts and
commits on their way are in `lateVotes`, `late` and `lateCommits`, and
`LateVote`, `LateAccept` and `LateCommit` handle them at any time after
(`MaxLate` and `MaxLateTerm` bound how many wait, and of which terms). Time is abstract here: a vote binds until `VoteEnds`, a lease lasts until
`LeaseEnds`, and the votes behind a lease end after it; that is what
`PaxosLeaseProofs` proves about the code.

`ReplicatedLog` is the abstract specification: a slot gets one value for ever,
and each replica's state machine is fed the values in order. `IsReplicatedLog`
is the refinement, with `chosen` and `applied` for the two variables.

The protocol is not safe as it is. `Conditions` names five conditions, none of
which the code enforces, under which it is. Steps that break them are steps like
all others; `kept` is a history variable, the conditions no step so far has broken:

- *own terms*: no two elections use one term number. A candidate takes
  `self.term + 1` and voters grant terms not below their own, so two can.
- *voters answer*: who granted a vote answers the sync of the winner. The sync
  skips whoever does not answer and does not count.
- *commits follow*: a commit notification is handled only by replicas that accepted
  the entry in the round that chose it, or a later one. `CommitNotify` names no
  value and no term, and `_on_commit` commits whatever the replica holds there.
- *term stands*: a replica's term is not raised while it counts votes or
  between the lease check of a propose and the accepts.
- *synced first*: no propose runs before the election has returned, although
  the role and the lease are set before the sync.

Each property says which of them it needs and is about all behaviours up to the
first step that breaks one: `TermSlotsUnique` *own terms*, *term stands* and *synced
first* (`UniqueConditions`), `LeaderComplete` also *voters answer*
(`CompleteConditions`), `IsReplicatedLog` all five. None can be left out: section 6
has a counterexample for each.

`MCPaxosGroup` has `CONSTRAINT StillToCheck`: a broken condition stays broken, so
behind a state in which one of `UniqueConditions` is broken every property of the
run is true for good, and TLC need not go on. Its `VIEW` leaves out requests on
their way that can change nothing any more.

Left out: entry timestamps, restarts (nothing is persisted), and values of
`ts` that `_on_accept` passes to the clock (`HybridClock` has that).

### HybridClock

Nodes with a system clock each. `Advance` moves true time by one tick of `Tick`
units and each system clock by `Tick` plus or minus at most `Drift`;
`RateAssumption` says that this is no more than what the code assumes ("1 ms
drift per second"). `SetClock` sets a system clock by hand. `Sync` is one
successful `_sync_with_ntp` with any round trip in `Delays`, `Now` is `now`,
`Send` puts a timestamp into an accept request and `Update` is `update` with
one. `steady` and `calm` record whether the clock was set since the last sync
and whether the corrected clock ever fell behind `last_physical`.

### MVCCStore

The holder of the store's lock is at `pc`: a write logs (`Log`) and inserts
(`Insert`); a flush is `WriteTable`, `InsertTable`, `ClearMemtable`, `Rotate`,
`DropSegment`...; a compaction is `Merge`, `SwapTables`, `UnlinkTable`... A get
takes no lock: it asks the memtable, lists the tables, and acquires, reads and
releases one table after the other, starting again when it meets a closed one.
`Crash` may strike between any two of these steps, between two unlinks too;
`CrashInAppend` inside an append, with a torn record left behind or not. `Restart`
is `MVCCStore.__init__`: it opens the last segment for appending behind whatever it
ends with, and replays only up to the first torn record.
A writer has read the clock before it takes the lock, so `Timestamps` come in any
order. `write_sstable` is one step because
it writes to a temporary name, syncs and renames. A new log segment is empty
until its first record is synced, so whether it survives a crash makes no
difference. A compaction's watermark is any time up to the present that is not
below the last one.

Three history variables mark where the code breaks what it promises, so that the
properties can be about everything else: `behind`, versions logged behind a torn
record and not yet flushed; `disordered`, keys with such a version or with a version
logged after one of a later timestamp; `exposed`, keys of which a crash between two
unlinks left old tables although the merged one has dropped them. `Durable` is
about the versions not `behind`, `GetAgreesWithScan` about the keys not
`disordered`, `NewestVisible` and `GetsAreCurrent` about the keys neither
`disordered` nor `exposed`; no step is cut. A value of no bytes (`Empties`) can do one
thing only: as a record it disables `Restart`, because `memtable.put` takes the
length of the None it is replayed as. It is FALSE in the run, which loses nothing: a
store that cannot start has no further steps.

### ClusterClient, MCClusterClient

One `DistributedClient` shared by threads, and the servers behind it. A thread
runs a program of calls; `call[t]` is the call it is in, from choosing the node
of an attempt (`_call` reads `_primary` again for each attempt) to the answer.
A request travels, and its handler runs in steps of its own: autocommitted puts
and gets, CREATE TABLE, INSERT, UPDATE and DELETE (a scan, then one write per
row), begin, buffered puts, and a commit from the state check through the apply
to its end, beside a second commit or an abort of the same transaction.
`Lose` is a broken connection: the request is lost, or its handler goes on
without its caller. `Restart` of a node loses its transactions and its schemas
and stops its handlers half-way; its rows stay. The manager and the store are
what a caller sees of them; `Transactions` and `MVCCStore` have the rest.
A row has two columns: `v`, which statements set and test, and `w`, which they
leave alone; each holds the thread that wrote it, or "seed" at first. `applied`
counts the commits that wrote a transaction's rows, `ends` the commits and
aborts its caller has asked for: neither is in the code, and no guard reads
them. Two simplifications: the newest put of a key is the one handled last, although
the code reads the clock before the lock (the order of one store's versions is
`MVCCStore`'s), and `CommitAppl` writes the rows of a commit in one step, although
the manager applies them in a loop (`Transactions` has the loop, and what happens
when it stops half-way). Nor do guards read `asked`, `moved`, `clean`, `before` and `recent`, which
remember what the properties are about.

### WherePredicates, SelectStatements

A clause is a sequence of tokens; a comparison, which is three tokens in the
code, is one here, named by its column, and a row says of each column whether
the comparison is true, false, or has a NULL in it. `Expr`, `AndExpr`, `Unary`
and `Comparison` are the parser's methods. They call each other on what comes
later in the clause, through `parse`, a function of a method and a position
(`Parser`). A tree stands for the set of the rows on which it evaluates to True:
`Compared`, `Negated`, `AllOf` and `AnyOf` are the four `evaluate` methods, read
as sets. Errors are results with `ok` FALSE; they reach the caller unchanged.
The reference is the grammar of the file's header: `Grammar` gives the set of
meanings a stretch of tokens can have as each of its symbols, over all ways to
cut it.

`SelectStatements` adds SELECT: the scan with filter and projection (`Found`),
ORDER BY as stable sorts from the last column to the first (`Sorted`, one pass
is `SortBy`), then OFFSET and LIMIT (`Cut`). A value is 0, 1, a string ("text") or
NULL, and tables may mix numbers and strings in a column: where a pass of the sort
would compare the two, the SELECT raises TypeError (`Raises`) and has no answer. The
reference is one order by all columns, counted by ranks, and a window of them
(`Exact`). `SelectAnswersExact` asks it of every SELECT that is answered and whose
ORDER BY columns are in its select list (`OrderIsSelected`); of the others the code
sorts nothing (section 6). Cutting the clauses out of the text by regular expressions is
not modelled.

### Warehouse, MCWarehouse

`thread` holds the queries and views, each a sequence of store calls (read the
metadata of its tables, look in the cache, load partition by partition, run,
store in the cache); `mutator` is the upload or delete in progress, since these
run in the event loop without awaiting. Between any two store calls of one, the
others may act; a store call may fail, the process may crash. A statement is its
`text`, which keys the cache; its `reads`, each a table under one alias with the
conjuncts that are about that alias; its `tables`, in which `extract_tables` names
each table once; and `prunes`, the conjuncts `extract_predicates` finds, without
their aliases. One table left means that all of `prunes` prunes all that is read of
it (`Selected`): in a self-join, or with a subquery on the same table, also what
another alias needs. `PrunesAll` is the condition that this does not happen, that
every read of the table has all the conjuncts it is pruned by. A value is a number
or NULL. The partitions a query or an upload has still to go through are a set, worked off
in the order of their index (`InTurn`). `ResultCache` is a sequence, least recently
used first, with eviction and expiry. `MCWarehouse` has a statement that is pruned by two
conjuncts, a join, which is never pruned, and a self-join, which is. `TextsTell` excludes statements that differ in the white space of a
string literal alone (section 6).

## 3. Runs

| Run | Question | Bounds, and why they are enough |
|---|---|---|
| `lock_table` | Are locks exclusive, accounted for, never leaked; are wake-ups never lost; is there never a deadlock; does the fence of `enter_commit` hold; does wound-wait alone let every acquire return? | 3 transactions: a waiter, a holder it wounds and one it may not wound; 2 keys, so that waits can form a cycle; both modes, so upgrades occur. Time-outs of one transaction, which nothing forces to pass; of all of them in `transactions_time`, `transactions_failures` and the proofs |
| `transactions_locks` | Are commits serializable in timestamp order, applied under their locks; does a snapshot contain every commit that returned before it? | 2 transactions over 2 keys give every read-write and write-write conflict, write skew and lock cycle; a read-only session that reads one key beside them, time-outs of the younger; an exact clock, which `transactions_time` varies |
| `transactions_time` | Do commit-wait, timestamp order, the order of versions and serializability survive a clock that steps and whose uncertainty goes up, down and over the ceiling; does a call that fails for it leave nothing behind? | 1 key; uncertainties 0, 1, 2 with ceiling 1; time goes on as long as a commit-wait needs |
| `transactions_failures` | Does every commit call end, with aborts in the middle of other calls, Gets answered after a wound and a failing store? | 2 transactions, 1 key, an exact clock, fair threads and time |
| `paxos_lease_safety` | Is there at most one lease at a time, backed by a quorum? | 3 replicas, 2 candidates, 2 terms each, one replica whose messages are lost or late, lease 1, clock error 2, time to 2: a lease can end and another begin |
| `paxos_group` | Until a condition is broken: one value per (term, slot), leaders that hold what was chosen, a replicated log? | 3 replicas, one unreliable, 2 candidates, 2 threads, 2 terms, 2 slots, 2 proposals, one request of term 1 that is handled late: a leader can lose its lease half-way through a slot, another take over and fill it, and the first go on |
| `paxos_group_shared_terms` | The disagreement of section 6: must be violated | 1 slot, 1 thread, all replicas unreliable |
| `store_safety` | Is a write that returned ever lost, a deleted key ever back, a get ever stale, a file closed under a reader or left open, outside of what the marks exclude? | 3 versions of a key in any order of timestamps, 4 table files, 2 restarts, a crash at every step, torn appends: a flush, a second flush, a compaction and a further flush fit |
| `hybrid_clock` | Does the interval contain true time, do timestamps respect messages? | 2 nodes, ticks of 10 units, drift 1, assumed 2, cap 2, time to 20, 3 calls a node, 1 sync, 1 setting by -10: the cap is reached, a message comes from ahead, a clock falls back |
| `cluster_client` | Is a caller told the truth, is every node asked, does no call of a transaction go astray, do a thread's reads see its puts, are undisturbed statements exact? | 2 nodes, 2 threads, 2 keys, 2 faults (each a broken connection or a restart), 5 programs |
| `select_statements` | Does the parser read the grammar, does SELECT answer as a sort and a window? | clauses of up to 7 tokens, which is NOT, AND, OR and parentheses nested once; 2 columns, 4 rows in every scan order, up to 2 ORDER BY columns, OFFSET and LIMIT up to 2; tables with a column of numbers, strings and NULLs among them |
| `warehouse_queries` | Are cached and fresh answers exact, is no partition lost or left behind? | a pruned statement, a join and a self-join over 2 tables, one of them from before partitions; column values 0 to 3 and null, 2 threads, 2 queries, 3 uploads, deletes, failures and crashes in all, 1 cache entry, so that every second answer evicts |

Bounds that are constants: the `Max...` of each module, named there, and
`Impatient`, the transactions whose lock waits may time out. Time in
`Transactions` runs beyond `MaxTime` as long as a commit-wait may need it, so
that no commit is stuck on the bound. `CHECK_DEADLOCK FALSE` appears where the
system may really stop: an election nobody repeats within the bounds, a store
or a client with nothing more to do, an aborted transaction whose other call
has ended. Symmetry is used for threads, callers, nodes and query names, which
no definition orders, and never with liveness.

`ServerAccess`, `ConcurrentAbort` and `StoreMayFail` are FALSE in the safety runs of
`Transactions`, which is a client embedded in its process that uses a transaction
from one thread, over a store that does not raise; section 6 says what TRUE shows.
All other runs have every step of the code that their module models, values of no
bytes excepted. What some
properties leave out is in their text and does not come up in section 4 again:
`LeaseBacked` does not look at the term of the winner; `EveryNodeAsked` and
`ReadsOwnPut` are about calls during which, and threads for which, no other thread
moved the primary; `AloneStatementExact` about statements no other write came
between; `CausalWhileCalm` about clocks that were not behind `last_physical`;
`IntervalContainsTime` about clocks synchronized lately and not set since; `StorageExact`
about operations that were not interrupted.

The `.cfg` files no run names are the counterexamples of section 6.

### Fairness

`CallersFinishSpec`: a thread inside the table is scheduled (weak fairness of
`Try`; Python threads are not starved by a condition variable whose
`notify_all` wakes everybody) and a caller that again and again gets the chance
to finish its transaction does so (strong fairness of `ReleaseAll`; the code
finalizes in a `finally`). `FairSpec`: threads inside `commit` proceed, the lock
table is scheduled, the deadline of `cond.wait` passes, absolute time advances.
Nothing is assumed of clients: a transaction nobody commits may stay open for
ever, and the locks it holds are why `wait_timeout` is needed for
`CommitReturns`. The other modules have no liveness properties: the repository
promises none of an election or a query, and a client call returns or raises
after at most one attempt per node.

## 4. Proofs

The lock table (at the head of `TransactionsProofs`), for any finite or infinite
sets of transactions and keys, with and without time-outs: `ExclusionHolds`, `WoundedIsPowerlessHolds`,
`HeldMatchesLocksHolds`, `SleepsBehindOlderHolds`, `DeadlockFreedom`,
`CommitFenceHolds`. They rest on the inductive invariant
`LockInv`: types, exclusion, that `held` names exactly the locks in the table,
that a wounded transaction holds nothing and does not commit, and that a sleeper
has an older or committing blocker. Exclusion is not inductive without the
second, because a wound releases what `held` names; the last needs `notify_all`
at each release. Deadlock freedom follows without cycles: the oldest sleeper
waits for a holder that is older or committing, hence not asleep.

The manager (rest of `TransactionsProofs`), for any transactions, keys,
snapshots and behaviour of the clock, and whatever the callers do: `ExclusionUnderManager`,
`NoDeadlockUnderManager`, `VisibleInThePastHolds`, `TimestampsNotEarlyHolds`.
Each step of the manager leaves the lock table alone, makes one of the table's
calls (`LockCall`), or is an abort beside another call; in all three `LockInv`
is kept. `TimeInv` says that the clock's interval contains absolute time, that
every timestamp is at most `lastAssigned`, and that it has passed once the
commit-wait is over. This is the first part.

The second part is serializability, by two-phase locking with wounds. `ControlInv` ties the
program point of a thread to what the table holds of it;
`FinalizedHoldsNothingHolds` follows from it. `LocksInv` says that a transaction
that is not wounded holds the exclusive lock of each key it has read, and of each
key it writes from the moment its locks are complete; only wounds and its own
release end that (`LocksStay`), and nobody is wounded while it is applied, which
is `ApplyUnderLocksHolds`. `SerializableHolds` is not inductive: `SerialInv` adds
that an answer a live transaction has got is still the newest value of the
others (`Current`). An apply cannot disturb that, since it holds the lock
(`ApplyExcludes`), and a timestamp chosen later is greater, so at the commit the
newest value is the value at the commit's timestamp (`SerialAt`).
`VersionsInOrderHolds` comes from the same invariant.

The third part: `NoLostUpdateHolds`, `SnapshotsAreRecentHolds`,
`UnstableOnlyByInFlightHolds`, for any number of read-only sessions. They need
that the newest version of a set exists and is one, hence `OrderlyStore`: a key
has finitely many versions, with different timestamps. `Session` splits the
commits at the safe time a session got: those that had returned are in the store
below it, those that choose later are above it, and only those in between can
still change an answer.

These two parts assume what the code needs and does not enforce:
`ConcurrentAbort = FALSE`, for `ApplyUnderLocksHolds` and later also
`ServerAccess = FALSE`, and from `SerializableHolds` on `Undisturbed`, which adds
`StoreMayFail = FALSE`. That is a client embedded in its process that uses a
transaction from one thread, over a store that does not raise. Section 6 says
what happens without the first two.

`PaxosLeaseProofs`, for any finite group, lease length, clock error and any
number of elections: `LeaseTypeCorrect`, `LeaseBackedHolds`,
`LeaseDisjointHolds`, `TermsGrowHolds`. That leases are disjoint is not
inductive, nor is that each is backed by a quorum: a request still on its way
could renew the vote of a voter with a shorter end (a clock that errs the other
way). `LeaseInv` therefore says that the voters behind a lease, and behind each
vote counted so far, are *settled*: they have moved to the candidate's term,
and every request of that candidate still under way to them has a smaller term,
so it will be refused. Two quorums intersect (`QuorumsIntersect`), a voter's
last vote is for one candidate, so two leases in force are one.

`PaxosGroupProofs`, for any number of replicas, callers, terms, slots and
proposals, any set of unreliable replicas and any number of delayed requests.
None assumes anything of the behaviour; what they say of one in which a condition was
broken is in the properties. `TypeCorrect`, `TermSlotsHaveOneValue`, `LeadersAreComplete`, and
`GroupIsReplicatedLog`, the refinement of `ReplicatedLog`, step by step
(`StepRefines`: `Chosen` is `Choose` the first time and a stutter after, `Notify`
and `LateCommit` are `Apply` or a stutter, everything else stutters).
The invariant `IInv` has four layers, each proved from those before it, and each
guarded by the conditions it needs: `BaseInv` by none, `ElectionInv` and `LogInv` by
`Unique`, `ValueInv` by `Complete`, `CommittedInv` by `Follow`. A step that breaks a
condition has nothing more to show of the layers that need it, and no condition is
kept again once broken (`KeptShrinks`, `ConditionsLast`), so in every other step the
layers can be used.

- `BaseInv`: types, and what the phase of a call says of the call.
- `ElectionInv`: a term that was won, and still shows in a log, a call, a request
  on its way or a leader, belongs to one replica and has reached a quorum
  (`TermInv`, `CountInv`, `OwnInv`); a vote request on its way is of a term that
  belongs to its candidate (`DelayInv`); leases and elections are backed by votes
  (`BackInv`); while a lease lasts no higher term is won (`LeaseInv`). This last
  one is where *term stands* is needed: two quorums share a voter, whose vote is
  for one of the two as long as it lasts.
- `LogInv`: an entry of a (term, slot) has one value wherever it is
  (`OneValueKnown`); it is not inductive without `LeaderKeeps`, that a leader
  holds, or is about to write, every entry of its own term, so that a propose
  takes a free slot and a re-drive an old value.
- `ValueInv`: what was chosen is `Decided`: a quorum holds it or a later entry of
  its slot, and it is `Safe`. An entry is safe when every entry of its slot with
  a term at least its own has its value, every later leader holds such an entry
  or is about to write it, and every sync under a later term has found one or
  has still to ask a voter that holds one. `SafeStable` is the heart: safety is
  kept by each step as long as a quorum holds the entry or can still accept it,
  because the voters of a later election meet that quorum and answer the sync.
  A commit on its way is of an entry decided in its round (`StrayInv`), and
  *commits follow* makes what a replica applies the decided value (`CommittedInv`).

`MVCCStoreProofs`, for any keys, bounds and number of crashes; the gets are any
finite set. `Stages` ties the point where the holder of the store's lock stands
to the tables that are linked, listed and still to be unlinked.

No theorem assumes anything of crashes or timestamps; the properties are about what
the marks of section 2 do not exclude.

- `StoreTypeCorrect` and `RefsExactHolds`. `RefInv` adds that a get only uses tables
  that were listed: `InsertTable` sets a count to 1, and a get that used that table
  already would be forgotten.
- `DurableHolds`. `DurableInv` adds what makes the next crash harmless: what the log
  holds, and what is `behind`, is also in the memtable or a linked table, so a
  checkpoint may drop it; and while old tables are unlinked, the merged one has
  whatever may not be dropped.
- `GetAgreesWithScanHolds`. By `OrderInv` the log, the memtable and every newer table
  are *closed* for the keys that are not `disordered`: with a version of such a key
  they have every later version that an older table has. Then the first hit is the
  newest.
- `NewestVisibleHolds`, for keys not `exposed` either. `VisibleInv` says that memtable
  and tables show what was acknowledged, and after a crash log and files do.
  `ShowsKept` is the compaction: a newest version is dropped only as a tombstone, and
  everything it hides goes with it, because the memtable is closed. `ShowsMore` is
  the replay: old records that come back hide nothing newer, because the log is
  closed.
- `GetsAreCurrentHolds`, for the same keys. A get holds no lock: it reads the
  memtable, then lists the tables, then reads one after the other while the
  store changes under it. `GetInv` says of each point on that way what makes the
  answer come out right: it has found nothing so far; the tables it has still to
  read show what it should answer (or it is `Overtaken`: a newer version was
  written and a compaction dropped the old one); and of those tables the newer is
  closed against the older, so that `FirstShows` makes the first hit the answer.
  `WriteGets`, `FlushGets` and `CompactGets` show that what runs beside a get
  keeps this, `KeptShowsOf` that a compaction does.

`HybridClockProofs`, for any nodes, drift rates with `RateAssumption`, round
trips, settings and bounds: `IntervalHolds`, `CausalityHolds`. The code rounds
the assumed drift down to whole units, and a rounded bound is not inductive:
each tick could lose a fraction. `ErrorBounded` keeps the error of a clock
scaled by `Tick`, which is; `QuotientBound` then gives the rounded interval back
(`BoundCovers`). `CounterLeads` says that `last_physical` and the counter are not
behind what was returned, which makes `StepCausal` hold in each step.

`ClusterClientProofs`, for any number of nodes, any threads, keys, client
programs and bound on faults: `CommitsAreTruthful`, `RaisedAfterAllNodes`,
`LiveTransactionsAreFound`, `OwnPutsAreRead`, `AloneStatementsAreExact`. A
request outlives the call that sent it, so the properties hold only because a
request left over can never be taken for a later one. `Served` says that: requests
are named apart, an answered one is gone (`RequestsNamed`); a handle, a call and a
request of one transaction agree on its node (`HandlesFit`); the request a call
waits for is the one it describes (`Awaited`). Each of the eighteen steps of a server
is shown once to be a `Step`, which moves one handler, answers at most one call
and takes no transaction back; the invariants are proved kept by every `Step`.
On top of it:

- `AskedInTurn`: while no other thread moves the primary, a call at attempt *n*
  has asked the *n* nodes from the primary on, and N of them are all
  (`AllNodes`).
- `RecentIsThere`: a put its thread must see is on the primary, and the first
  attempt of a get goes there.
- `StatementsFit`: what an undisturbed scan has still to write is as it was
  scanned, what it has written is exact.
- `EndsCount`, the argument behind commits: `applied` plus the number of requests
  that may still apply (`Unapplied`: sent and not yet applied, about to be sent)
  is at most `ends`; a caller that was told "not applied" counts for one more,
  since its own request was answered without applying. `CommitTruthful` alone is
  not inductive: it does not say that a request under way is one of those counted.

`WarehouseProofs`, for any tables, threads, statements, uploads, bounds, and any
failures and crashes: `StorageExactHolds`, `CurrentEntriesExactHolds`,
`UndisturbedAnswersExactHolds`. None of the three is inductive; `WarehouseInv`
strengthens them in four parts:

- `StoreInv`: a version is never used twice, so the content behind a table and a
  version never changes, and a meta record follows from them (`MetaOf`).
- `MutatorInv`: at each point of an upload or delete, which partitions are
  stored besides those listed (`Holding`).
- `ThreadsInv`: of the tables it is done with, a query has the rows of every
  partition that was not pruned, but those that are gone (`Gathered`).
- `CacheInv`: an entry is right, or a partition it was made from is gone
  (`EntryOk`), although the query that put it may have lost a race.

What holds them together is `Onward`: no step of an upload, delete or crash
changes content, writes a version again that was written before, or brings a
partition of one back. So "gone" is for ever: an entry made while partitions of a
version that is no longer listed went missing is never addressed again. A delete that
fails after its first erase is different: the version stays listed with partitions
missing, and entries made from what is left are addressed. They hold no row that is
not of the version listed, and that is what `CurrentEntriesExact` says of them; that
an entry is exact it says only when no partition is missing (`Intact`) and the
statement was pruned by what is about all it reads (`PrunesAll`). In the proof each step is shown once to go onward, and queries and entries
are shown to stay right under any such step (`QueryStays`, `EntryStays`).
`NotSelected` is where pruning comes in, under `PrunesAll`, by `PruningIsSound`, which holds for
any partition of values up to any bound, NULLs included, and any conjuncts. It
takes the least and the greatest value of a partition from the well-foundedness of
the naturals (`Least`, `Greatest`); nothing else about numbers is used but their
order. The assumptions on the constants say what an upload and a statement are
(`RowsAssumption`, `StatementsAssumption`, `TextsTell`).

`SelectStatementsProofs`, for clauses and tables of any length, any columns and
any ORDER BY list, OFFSET and LIMIT. `ParserMeansGrammar` says what the parser
computes, for every sequence of tokens; `SelectsByGrammarHolds` and
`SelectAnswersExactHolds` are the two properties of the run. Induction is over
sets of numbers (`StrongInduction`, `StepInduction`, from the well-foundedness
of the naturals).

- The parser and the grammar are recursive functions: that they satisfy their
  equations has to be shown first. A method looks only behind its own position
  (`MethodAgrees`), so a parser of a suffix extends by one position
  (`ParserExists`, `ParserIs`); the grammar is built by the length of a stretch in
  the same way.
- `ParserSound`: what a method accepts, between where it began and where it
  stopped, the grammar derives with that meaning. The methods collect operands
  from the left and recurse to the right, the grammar cuts at the last keyword;
  that these agree is associativity of the intersection and the union.
- `ParserComplete`: where the grammar derives a meaning, the method finds it and
  goes on behind it. It holds only with its continuation: an `and_expr` that is
  followed by AND does not stop there (`OnAnd`, `OnOr`), and of an `expr` it is
  said only where no AND follows. That there is one meaning is a consequence.
- A finite set in a strict order is put in line by counting what is before each
  element (`PlaceTaken`, `ArrangedAt`). `SortArranged`: one pass over rows
  arranged by an order arranges them by a key and then by that order, which is
  stability. `SortedArranges`: hence all passes arrange by the first key, then the
  second, and so on, and last by the scan (`ByKeys`), which `RankedIsEarlier`
  shows to be the order of the property when the ORDER BY columns are selected
  (`OrderIsSelected`). `CutIsWindow` is OFFSET and LIMIT.

Only model-checked: liveness (`AcquireReturns`, `CommitReturns`), which is out of
the prover's reach.

## 5. Not modelled

- The replica manager: a directory of groups that nothing in the server
  constructs; two groups created on one node would register under one replica id, and
  the second handler replace the first (`replica_manager.py:75`). Log shipping: an
  unbounded queue with one consumer, whose losses are plain from the code. Metrics, the admin tool, `RWLock` and the directories,
  which nothing depends on. Authentication, configuration, the web page,
  generated code, encodings and channels.
- Of modelled parts: `wait_until` and the start and stop of the synchronizing
  thread; segment rotation by size, log version 0 and corrupt tables; `scan` as
  steps of its own; the text level of SQL; statements inside a transaction,
  which the client library never sends (its `execute_sql` passes none); the AI
  assistant, middleware and rate limits of the warehouse. Restarts of a Paxos
  group: nothing of it is persisted, so there is no recovery to model.

## 6. Where code and documents disagree

Shown by a run (details in `PROJECT.json`, `findings`):

- Two candidates may share a term number, and then two values one (term, slot),
  which `_redrive_uncommitted` says cannot happen
  (`paxos_group_shared_terms`). Three `PaxosGroup` objects on an
  `InProcessNetwork`, with links taken down and up between calls, reproduce it.

Found by configurations of their own, which TLC ends with a counterexample
(`tlc -config X.cfg M`); the properties of the passing runs say what they exclude
of it:

- `PaxosGroup`, no condition can be left out (module `MCPaxosGroup`; each file keeps
  the other conditions). `PaxosGroup_raised_terms.cfg`, without *term stands*, and
  `PaxosGroup_early_proposals.cfg`, without *synced first*: two values in one
  (term, slot) (`UniqueWithRaisedTerms`, `UniqueWithEarlyProposals`).
  `PaxosGroup_unheard_voter.cfg`, without *voters answer*: a leader lacks a chosen
  value (`CompleteWithoutAnswers`). `PaxosGroup_stray_commit.cfg`, without *commits
  follow*: a replica holds an older value of a slot, misses the accept of the chosen
  one, gets the commit, and applies its own (`ReplicatesWithStrayCommits`).
- `Transactions_lost_update.cfg` violates `NoLostUpdate` ("two RW txns can never
  both read the same pre-image and both commit", `transaction.py:83`): a `Get` that
  loses its lock is answered "not found" and its transaction stays committable
  (`server.py:124`).
- `Transactions_racing_abort.cfg` violates `ApplyUnderLocks` ("from here until
  release, no older txn can strip our locks", `transaction.py:181`): `abort`
  during `commit` releases the locks under it, and the commit goes on.
- `Transactions_unstable_snapshot.cfg` violates `SnapshotStable` ("snapshot at
  s_read = LastTS()", `transaction.py:8`): LastTS() can pass a timestamp not yet
  applied. What does hold is `UnstableOnlyByInFlight`.
- `Transactions_half_applied.cfg` violates `AbortedInvisible` ("Atomic commit",
  `docs/README_ENTERPRISE.md:67`): a store that fails half-way leaves part of an
  aborted transaction visible.
- `MVCCStore_torn_log.cfg` violates `NothingLost` ("if the server crashes, we can
  replay the WAL to recover all committed writes", `wal.py:5-6`): after a crash
  inside an append the log is reopened for appending behind the torn record
  (`_open_wal`), and the next restart stops there, losing writes acknowledged since.
- `MVCCStore_unlinking.cfg` violates `DeletedStaysDeleted`: the merged table no
  longer has the tombstone, the newest old table, which has it, is unlinked first
  (`mvcc.py:189-194`), and after a crash the value below it is back.
- `MVCCStore_overtaken.cfg` violates `AlwaysAgree` ("Reads merge MemTable first, then
  SSTables newest-to-oldest", `mvcc.py:5`): two autocommitted puts that read the
  clock and take the lock in different orders, with a flush between, make `get`
  answer with the older value and `scan` with the newer. So does a
  crash in the checkpoint of a flush when the log has a torn record: what is logged
  behind it is in the new table and not replayed, while an older version that is
  replayed answers first.
- `MVCCStore_empty_value.cfg` violates `Restartable`: a value of no bytes comes back
  from the log as None (`wal.py:97-101`), `memtable.put` takes its length
  (`memtable.py:73`), and the store does not start.
- `Warehouse_self_join.cfg` (module `MCWarehouse`) violates `PrunedAnswersExact` ("a
  partition is skipped only when its zone map PROVES no row can match",
  `query_engine.py:3-5`): `SELECT .. FROM t a JOIN t b .. WHERE a.x < 3` is taken for a
  statement on one table, and partitions that `b` needs are skipped. The same
  happens to a subquery on the same table.
- `SelectStatements_unselected.cfg` (module `MCSelectStatements`) violates
  `OrderedRegardless` ("ordering is correct regardless of storage/scan order",
  `executor.py:134-135`): rows are projected before they are sorted, so ORDER BY a
  column that is not selected orders nothing, and LIMIT then cuts the wrong rows.

Seen while modelling, and reflected in the conditions of the properties:

- The entries a new leader re-drives get new timestamps
  (`_sync_from_followers`), although propose fixes one per entry.
- The drift is capped at 100 ms and TrueTime's ceiling is 250 ms, so a clock
  never synchronized again is never refused. An NTP sync that moves the clock
  back, or a message from ahead, makes `now()` return timestamps below earlier
  ones (`calm` excludes this). `stop()` followed by `start()`
  can leave two synchronizing threads.
- A commit repeated by its caller may be answered False while the first commit
  is still to succeed (`CommitTruthful` speaks of one call for that reason). A
  begin whose answer is lost leaves a transaction nobody can end. ExecuteSQL in
  an unknown transaction answers INTERNAL, not NOT_FOUND (`server.py:211`).
- Schemas are in memory and per node: a restart or a fail-over loses the table,
  not its rows. A multi-row INSERT stores its first row only
  (`sql_parser.py:148`), and an INSERT of an existing key overwrites it. ORDER BY
  a column with numbers and strings raises TypeError (`executor.py:138`).
- `normalize_sql` joins white space inside string literals, so statements that
  differ there share a cache entry (`result_cache.py:18`). Pruning also takes the
  first WHERE of a compound statement or a CTE for all of it
  (`query_engine.py:129`). Query ids chosen by clients may collide. The history
  of a table is recorded again by a query that ends after its deletion. Tables
  from before partitions are cut at 100 000 rows.
