---------------------------- MODULE Transactions ----------------------------
(***************************************************************************)
(* The transaction manager (transaction/transaction.py) on top of the lock *)
(* table: pessimistic reads, buffered writes, commit with timestamp        *)
(* choice, commit-wait, fenced apply and safe-time advance, read-only      *)
(* transactions and snapshot reads, over a multi-version store, with       *)
(* TrueTime read from a clock whose offset and uncertainty change.         *)
(*                                                                         *)
(* Txns are the read-write transactions, all begun in the initial state    *)
(* (begin only fixes their age).  A version is named by its writer; the    *)
(* value of a missing key is NoTxn.  step[t] is where the thread serving   *)
(* transaction t stands between two points at which another thread can     *)
(* intervene.                                                              *)
(***************************************************************************)
EXTENDS LockTable, Integers, FiniteSetsExt

CONSTANTS
    Snapshots,        \* read-only transactions and snapshot reads
    MaxReads,         \* bound on the keys that each of them reads
    EpsValues,        \* the uncertainties the clock may report
    Ceiling,          \* TrueTime.ceiling_ns
    MaxTime,          \* absolute time passes freely up to this bound
    ServerAccess,     \* TRUE: a failed Get is answered found=False (server.py)
    ConcurrentAbort,  \* TRUE: an abort may arrive while another call runs
    StoreMayFail      \* TRUE: store.put may raise while a commit is applied

ASSUME EpsAssumption == EpsValues \subseteq Nat /\ {Ceiling, MaxTime, MaxReads} \subseteq Nat
ASSUME AccessAssumption == {ServerAccess, ConcurrentAbort, StoreMayFail} \subseteq BOOLEAN

VARIABLES
    now,           \* absolute time
    eps,           \* uncertainty of the local clock, at least floor_ns
    skew,          \* local clock minus absolute time, within eps
    tstate,        \* Transaction.state
    active,        \* TransactionManager.active_txns
    step,          \* program point of the thread serving the transaction
    pending,       \* keys the commit has still to lock, then to apply
    writes,        \* keys in Transaction.mutations
    seen,          \* what Transaction.get returned for each key
    cts,           \* Transaction.commit_timestamp
    lastAssigned,  \* _last_assigned
    lastCommit,    \* last_commit_ts, which is also t_safe
    store,         \* versions [by, ts] of each key
    snap           \* the snapshot sessions

clockVars == <<now, eps, skew>>
txnVars == <<tstate, active, step, pending, writes, seen, cts>>
mgrVars == <<lastAssigned, lastCommit, store>>
vars == <<lockVars, clockVars, txnVars, mgrVars, snap>>

-----------------------------------------------------------------------------
(* Timestamps and TrueTime *)

(* Timestamp order: physical, then logical. *)
TsLess(a, b) == a[1] < b[1] \/ (a[1] = b[1] /\ a[2] < b[2])
TsLeq(a, b) == a = b \/ TsLess(a, b)
NoTs == <<-1, 0>>

Physical == now + skew
Latest == Physical + eps
Earliest == Physical - eps
ClockUsable == eps <= Ceiling       \* TrueTime.now does not raise
FaultyAfter(ts) == Latest > ts[1]   \* the wrong end of the interval
After(ts) == Earliest > ts[1]

(* MVCCStore.get: the newest version at or below ts. *)
VersionsAt(k, ts) == {v \in store[k] : TsLeq(v.ts, ts)}
Newest(vs) == CHOOSE v \in vs : \A u \in vs : TsLeq(u.ts, v.ts)
ReadAt(k, ts) == IF VersionsAt(k, ts) = {} THEN NoTxn ELSE Newest(VersionsAt(k, ts)).by

NotRead == -1
Steps == {"idle", "getting", "reading", "locking", "choosing", "waiting", "entering",
          "applying", "finalizing", "quitting", "over"}
NoSnap == [kind |-> "none", ts |-> NoTs, before |-> {}, inflight |-> {},
           saw |-> [k \in Keys |-> NotRead]]

Stamps == Int \X Int
Versions == [by : Txns, ts : Stamps]

(* seen is a table of answers by transaction and key. *)
TxnTypeOK ==
    /\ step \in [Txns -> Steps]
    /\ tstate \in [Txns -> {"active", "preparing", "committed", "aborted"}]
    /\ active \in SUBSET Txns
    /\ pending \in [Txns -> SUBSET Keys]
    /\ writes \in [Txns -> SUBSET Keys]
    /\ seen = [t \in Txns |-> [k \in Keys |-> seen[t][k]]]
    /\ cts \in [Txns -> Stamps]
    /\ lastAssigned \in Stamps /\ lastCommit \in Stamps
    /\ store \in [Keys -> SUBSET Versions]
    /\ now \in Int /\ eps \in Nat /\ skew \in Int

(* The manager has just started (LastTS() is None), or has committed before
   time 1. *)
Init ==
    /\ LockInit
    /\ now = 1
    /\ eps \in EpsValues
    /\ skew \in -eps..eps
    /\ tstate = [t \in Txns |-> "active"]
    /\ active = Txns
    /\ step = [t \in Txns |-> "idle"]
    /\ pending = [t \in Txns |-> {}]
    /\ writes = [t \in Txns |-> {}]
    /\ seen = [t \in Txns |-> [k \in Keys |-> NotRead]]
    /\ cts = [t \in Txns |-> NoTs]
    /\ lastCommit \in {NoTs, <<0, 0>>}
    /\ lastAssigned = lastCommit
    /\ store = [k \in Keys |-> {}]
    /\ snap = [r \in Snapshots |-> NoSnap]

-----------------------------------------------------------------------------
(* The clock *)

(* Time passes, beyond MaxTime only as long as a commit-wait may need it. *)
Tick ==
    /\ \/ now < MaxTime
       \/ \E t \in Txns : step[t] = "waiting" /\ now <= cts[t][1] + 2 * Max(EpsValues)
    /\ now' = now + 1
    /\ UNCHANGED <<lockVars, eps, skew, txnVars, mgrVars, snap>>

(* An NTP sync, its failure, or drift: the offset and the uncertainty change,
   and the interval still contains absolute time. *)
ClockAdjust ==
    /\ eps' \in EpsValues
    /\ skew' \in -eps'..eps'
    /\ <<eps', skew'>> # <<eps, skew>>
    /\ UNCHANGED <<lockVars, now, txnVars, mgrVars, snap>>

-----------------------------------------------------------------------------
(* Read-write transactions *)

Goto(t, s) == step' = [step EXCEPT ![t] = s]

(* A client call reaches the transaction: no other call of it is running. *)
Callable(t) == t \in active /\ tstate[t] = "active" /\ step[t] = "idle"

(* Transaction.get of a key not in the buffer: ask for the exclusive lock.
   A buffered key is answered from the buffer and changes nothing. *)
Get(t, k) ==
    /\ Callable(t)
    /\ k \notin writes[t]
    /\ CallAcquire(t, [key |-> k, mode |-> "write"])
    /\ Goto(t, "getting")
    /\ UNCHANGED <<clockVars, tstate, active, pending, writes, seen, cts, mgrVars, snap>>

(* The read timestamp is the clock's, which may be behind the last commit. *)
FaultyReadLocked(t, k) ==
    /\ step[t] = "reading"
    /\ pending[t] = {k}
    /\ seen' = [seen EXCEPT ![t][k] = IF @ = NotRead THEN ReadAt(k, <<Physical, 0>>) ELSE @]
    /\ pending' = [pending EXCEPT ![t] = {}]
    /\ Goto(t, "idle")
    /\ UNCHANGED <<lockVars, clockVars, tstate, active, writes, cts, mgrVars, snap>>

(* With the lock, read at max(clock.now(), last_commit_ts).  The first answer
   for a key is the one the client acts on. *)
ReadLocked(t, k) ==
    LET n == <<Physical, 0>>
        readTs == IF TsLess(n, lastCommit) THEN lastCommit ELSE n
    IN
    /\ step[t] = "reading"
    /\ pending[t] = {k}
    /\ seen' = [seen EXCEPT ![t][k] = IF @ = NotRead THEN ReadAt(k, readTs) ELSE @]
    /\ pending' = [pending EXCEPT ![t] = {}]
    /\ Goto(t, "idle")
    /\ UNCHANGED <<lockVars, clockVars, tstate, active, writes, cts, mgrVars, snap>>

(* Transaction.put and delete: buffered. *)
Put(t, k) ==
    /\ Callable(t)
    /\ writes' = [writes EXCEPT ![t] = @ \cup {k}]
    /\ UNCHANGED <<lockVars, clockVars, tstate, active, step, pending, seen, cts, mgrVars, snap>>

(* commit: the wounded check comes first; then the write locks are taken in
   key order. *)
Commit(t) ==
    /\ Callable(t)
    /\ tstate' = [tstate EXCEPT ![t] = IF t \in wounded THEN "aborted" ELSE "preparing"]
    /\ Goto(t, IF t \in wounded THEN "finalizing" ELSE "locking")
    /\ pending' = [pending EXCEPT ![t] = IF t \in wounded THEN {} ELSE writes[t]]
    /\ UNCHANGED <<lockVars, clockVars, active, writes, seen, cts, mgrVars, snap>>

LockNextKey(t) ==
    /\ step[t] = "locking"
    /\ phase[t] = "running"
    /\ pending[t] # {}
    /\ CallAcquire(t, [key |-> Min(pending[t]), mode |-> "write"])
    /\ UNCHANGED <<clockVars, txnVars, mgrVars, snap>>

(* The commit goes on after the first lock. *)
FaultyLocksComplete(t) ==
    /\ step[t] = "locking"
    /\ phase[t] = "running"
    /\ Goto(t, "choosing")
    /\ UNCHANGED <<lockVars, clockVars, tstate, active, pending, writes, seen, cts, mgrVars, snap>>

LocksComplete(t) ==
    /\ step[t] = "locking"
    /\ phase[t] = "running"
    /\ pending[t] = {}
    /\ Goto(t, "choosing")
    /\ UNCHANGED <<lockVars, clockVars, tstate, active, pending, writes, seen, cts, mgrVars, snap>>

(* The lock table answers the acquire of a Get or of a commit. *)
Granted(t) ==
    LET k == want[t].key IN
    /\ Take(t)
    /\ IF step[t] = "getting"
       THEN Goto(t, "reading") /\ pending' = [pending EXCEPT ![t] = {k}]
       ELSE step' = step /\ pending' = [pending EXCEPT ![t] = @ \ {k}]
    /\ UNCHANGED <<clockVars, tstate, active, writes, seen, cts, mgrVars, snap>>

(* It raises TransactionAborted: inside commit the transaction is aborted and
   finalized; a Get leaves the transaction as it is, and the server answers
   found=False while an embedded caller sees the exception and gives up. *)
Refused(t) ==
    LET k == want[t].key IN
    /\ RaiseWounded(t) \/ (Block(t) /\ expired[t])
    /\ IF step[t] = "getting"
       THEN /\ Goto(t, IF ServerAccess THEN "idle" ELSE "quitting")
            /\ seen' = [seen EXCEPT ![t][k] =
                          IF ServerAccess /\ @ = NotRead THEN NoTxn ELSE @]
            /\ UNCHANGED <<tstate, pending>>
       ELSE /\ Goto(t, "finalizing")
            /\ tstate' = [tstate EXCEPT ![t] = "aborted"]
            /\ pending' = [pending EXCEPT ![t] = {}]
            /\ UNCHANGED seen
    /\ UNCHANGED <<clockVars, active, writes, cts, mgrVars, snap>>

Sleep(t) == Block(t) /\ ~expired[t] /\ UNCHANGED <<clockVars, txnVars, mgrVars, snap>>
WaitTooLong(t) == DeadlinePasses(t) /\ UNCHANGED <<clockVars, txnVars, mgrVars, snap>>

(* No comparison with the previously assigned timestamp. *)
FaultyChoose(t) ==
    /\ step[t] = "choosing"
    /\ ClockUsable
    /\ cts' = [cts EXCEPT ![t] = <<Latest, 0>>]
    /\ lastAssigned' = <<Latest, 0>>
    /\ Goto(t, "waiting")
    /\ UNCHANGED <<lockVars, clockVars, tstate, active, pending, writes, seen, lastCommit,
                   store, snap>>

(* _choose_commit_timestamp, under the manager's lock. *)
Choose(t) ==
    LET fresh == <<Latest, 0>>
        s == IF TsLeq(fresh, lastAssigned)
             THEN <<lastAssigned[1], lastAssigned[2] + 1>> ELSE fresh
    IN
    /\ step[t] = "choosing"
    /\ ClockUsable
    /\ cts' = [cts EXCEPT ![t] = s]
    /\ lastAssigned' = s
    /\ Goto(t, "waiting")
    /\ UNCHANGED <<lockVars, clockVars, tstate, active, pending, writes, seen, lastCommit,
                   store, snap>>

(* commit_wait returns once TT.after(s). *)
CommitWaitOver(t) ==
    /\ step[t] = "waiting"
    /\ ClockUsable
    /\ After(cts[t])
    /\ Goto(t, "entering")
    /\ UNCHANGED <<lockVars, clockVars, tstate, active, pending, writes, seen, cts, mgrVars, snap>>

(* The commit fails: ClockUncertaintyError, found wounded at enter_commit, or
   the store raising between two mutations. *)
CommitFails(t) ==
    /\ \/ step[t] \in {"choosing", "waiting"} /\ ~ClockUsable
       \/ step[t] = "entering" /\ t \in wounded
       \/ step[t] = "applying" /\ StoreMayFail /\ pending[t] # {}
    /\ tstate' = [tstate EXCEPT ![t] = "aborted"]
    /\ Goto(t, "finalizing")
    /\ pending' = [pending EXCEPT ![t] = {}]
    /\ UNCHANGED <<lockVars, clockVars, active, writes, seen, cts, mgrVars, snap>>

EnterApply(t) ==
    /\ step[t] = "entering"
    /\ EnterCommit(t)
    /\ Goto(t, "applying")
    /\ pending' = [pending EXCEPT ![t] = writes[t]]
    /\ UNCHANGED <<clockVars, tstate, active, writes, seen, cts, mgrVars, snap>>

(* One mutation reaches the store, in the order the client wrote them. *)
Apply(t, k) ==
    /\ step[t] = "applying"
    /\ k \in pending[t]
    /\ store' = [store EXCEPT ![k] = @ \cup {[by |-> t, ts |-> cts[t]]}]
    /\ pending' = [pending EXCEPT ![t] = @ \ {k}]
    /\ UNCHANGED <<lockVars, clockVars, tstate, active, step, writes, seen, cts,
                   lastAssigned, lastCommit, snap>>

(* The safe time follows the last commit to finish. *)
FaultyAdvanceSafeTime(t) ==
    /\ step[t] = "applying"
    /\ pending[t] = {}
    /\ lastCommit' = cts[t]
    /\ tstate' = [tstate EXCEPT ![t] = "committed"]
    /\ Goto(t, "finalizing")
    /\ UNCHANGED <<lockVars, clockVars, active, pending, writes, seen, cts, lastAssigned,
                   store, snap>>

(* _advance_safe_time, then the state becomes COMMITTED. *)
AdvanceSafeTime(t) ==
    /\ step[t] = "applying"
    /\ pending[t] = {}
    /\ lastCommit' = IF TsLess(lastCommit, cts[t]) THEN cts[t] ELSE lastCommit
    /\ tstate' = [tstate EXCEPT ![t] = "committed"]
    /\ Goto(t, "finalizing")
    /\ UNCHANGED <<lockVars, clockVars, active, pending, writes, seen, cts, lastAssigned,
                   store, snap>>

(* _finalize at the end of commit, and abort by the thread that runs the
   transaction. *)
Finish(t) ==
    /\ ReleaseAll(t)
    /\ active' = active \ {t}
    /\ Goto(t, "over")
    /\ UNCHANGED <<clockVars, pending, writes, seen, cts, mgrVars, snap>>

Finalize(t) == step[t] = "finalizing" /\ Finish(t) /\ UNCHANGED tstate

Abort(t) ==
    /\ t \in active
    /\ step[t] \in {"idle", "quitting"}
    /\ tstate' = [tstate EXCEPT ![t] = "aborted"]
    /\ Finish(t)

(* abort while another thread is inside a call of the same transaction: no
   check of the state, and the call goes on. *)
AbortRace(t) ==
    /\ ConcurrentAbort
    /\ t \in active
    /\ step[t] \notin {"idle", "quitting", "over"}
    /\ tstate' = [tstate EXCEPT ![t] = "aborted"]
    /\ ReleaseTable(t)
    /\ phase' = Notified
    /\ active' = active \ {t}
    /\ UNCHANGED <<want, expired, clockVars, step, pending, writes, seen, cts, mgrVars, snap>>

-----------------------------------------------------------------------------
(* Read-only transactions and snapshot reads *)

InFlight == {t \in Txns : step[t] \in {"waiting", "entering", "applying"}}

OpenSnapshot(r, kind, ts) ==
    /\ snap[r].kind = "none"
    /\ snap' = [snap EXCEPT ![r] =
                  [NoSnap EXCEPT !.kind = kind, !.ts = ts, !.inflight = InFlight,
                                 !.before = {t \in Txns : tstate[t] = "committed"}]]
    /\ UNCHANGED <<lockVars, clockVars, txnVars, mgrVars>>

(* The snapshot is taken at the current time. *)
FaultyBeginReadOnly(r) == OpenSnapshot(r, "last", <<Latest, 0>>)

(* begin(read_only=True): LastTS(), or the clock when nothing has committed. *)
BeginReadOnly(r) ==
    IF lastCommit # NoTs THEN OpenSnapshot(r, "last", lastCommit)
                         ELSE OpenSnapshot(r, "now", <<Physical, 0>>)

(* read_at: a timestamp of the client's, served once t_safe has reached it. *)
BeginReadAt(r) == \E p \in 1..MaxTime : OpenSnapshot(r, "at", <<p, 0>>)

SnapshotRead(r, k) ==
    /\ snap[r].kind # "none"
    /\ snap[r].kind = "at" => TsLeq(snap[r].ts, lastCommit)
    /\ snap[r].saw[k] = NotRead /\ Cardinality({q \in Keys : snap[r].saw[q] # NotRead}) < MaxReads
    /\ snap' = [snap EXCEPT ![r].saw[k] = ReadAt(k, snap[r].ts)]
    /\ UNCHANGED <<lockVars, clockVars, txnVars, mgrVars>>

-----------------------------------------------------------------------------
Finished == (\A t \in Txns : step[t] = "over") /\ UNCHANGED vars

CommitStep(t) ==
    \/ Commit(t) \/ LockNextKey(t) \/ LocksComplete(t) \/ Choose(t) \/ CommitWaitOver(t)
    \/ CommitFails(t) \/ EnterApply(t) \/ (\E k \in Keys : Apply(t, k))
    \/ AdvanceSafeTime(t) \/ Finalize(t)

TxnStep(t) ==
    \/ \E k \in Keys : Get(t, k) \/ ReadLocked(t, k) \/ Put(t, k)
    \/ CommitStep(t)
    \/ Granted(t) \/ Refused(t) \/ Sleep(t) \/ WaitTooLong(t)
    \/ Abort(t) \/ AbortRace(t)

Next ==
    \/ Tick \/ ClockAdjust
    \/ \E t \in Txns : TxnStep(t)
    \/ \E r \in Snapshots :
          BeginReadOnly(r) \/ BeginReadAt(r) \/ \E k \in Keys : SnapshotRead(r, k)
    \/ Finished

Spec == Init /\ [][Next]_vars

(* The scheduler runs every thread, absolute time passes. *)
FairSpec ==
    /\ Spec
    /\ WF_vars(Tick)
    /\ \A t \in Txns :
          /\ WF_vars(CommitStep(t) /\ step[t] # "idle")
          /\ WF_vars(Granted(t) \/ Refused(t) \/ Sleep(t))
          /\ WF_vars(WaitTooLong(t))

-----------------------------------------------------------------------------
(* Properties *)

Committed == {t \in Txns : tstate[t] = "committed"}

(* Commit timestamp order is a serial order: what a committed transaction
   read is what it would have read at its commit timestamp (Transaction.get:
   a locked read "always observes the latest committed version, independent
   of clock configuration"). *)
Serializable ==
    \A t \in Committed, k \in Keys : seen[t][k] # NotRead =>
        LET earlier == {v \in store[k] : TsLess(v.ts, cts[t])} IN
        seen[t][k] = IF earlier = {} THEN NoTxn ELSE Newest(earlier).by

(* "Two RW txns can never both read the same pre-image and both commit -> no
   lost updates" (Transaction.get). *)
NoLostUpdate ==
    \A t, u \in Committed, k \in Keys :
        t # u /\ k \in writes[t] \cap writes[u] /\ seen[t][k] # NotRead
            => seen[t][k] # seen[u][k]

(* While a commit is applied, the transaction holds the exclusive lock of every
   key it read or writes and cannot be wounded (comment in commit: "from here
   until release, no older txn can strip our locks"). *)
ApplyUnderLocks ==
    \A t \in Txns : step[t] = "applying" =>
        /\ t \in committing
        /\ \A k \in Keys : k \in writes[t] \/ seen[t][k] # NotRead => writer[k] = t

(* Versions of one key reach the store in timestamp order, although commits of
   different transactions choose, wait and apply concurrently. *)
VersionsInOrder ==
    [][\A k \in Keys : \A v \in store'[k] \ store[k] :
          \A u \in store[k] : TsLess(u.ts, v.ts)]_vars

(* Commit-wait: data is visible only when its timestamp has passed in absolute
   time, however the clock's offset and uncertainty changed meanwhile. *)
VisibleInThePast == \A k \in Keys : \A v \in store[k] : v.ts[1] < now

(* A commit timestamp is not before the absolute time at which it is chosen,
   also when the clock has stepped back or its uncertainty shrunk, and no two
   are equal. *)
TimestampsNotEarly ==
    [][\A t \in Txns : cts'[t] # cts[t] =>
          cts'[t][1] >= now /\ \A u \in Txns \ {t} : TsLess(cts[u], cts'[t])]_vars

(* A finalized transaction leaves nothing in the lock table, whichever way it
   ended. *)
FinalizedHoldsNothing ==
    \A t \in Txns \ active : held[t] = {} /\ t \notin wounded \cup committing

(* A read-only transaction at LastTS() reads every commit that returned before
   it began. *)
SnapshotsAreRecent ==
    \A r \in Snapshots, k \in Keys : snap[r].kind = "last" /\ snap[r].saw[k] # NotRead =>
        \A t \in snap[r].before : k \in writes[t] =>
            snap[r].saw[k] # NoTxn /\ TsLeq(cts[t], cts[snap[r].saw[k]])

(* What a snapshot at LastTS() has read changes afterwards at most by commits
   that had their timestamp and were not applied when it was opened. *)
UnstableOnlyByInFlight ==
    \A r \in Snapshots, k \in Keys : snap[r].kind = "last" /\ snap[r].saw[k] # NotRead =>
        ReadAt(k, snap[r].ts) \in {snap[r].saw[k]} \cup snap[r].inflight

(* "RO transactions: predeclared, lock-free, snapshot at s_read = LastTS()"
   (module header): a snapshot does not change once it has been read from. *)
SnapshotStable ==
    \A r \in Snapshots, k \in Keys : snap[r].kind = "last" /\ snap[r].saw[k] # NotRead =>
        ReadAt(k, snap[r].ts) = snap[r].saw[k]

(* Commits are atomic: no write of a transaction that ended aborted is
   visible. *)
AbortedInvisible ==
    \A t \in Txns \ active : tstate[t] = "aborted" =>
        \A k \in Keys : \A v \in store[k] : v.by # t

(* A commit returns: locks are granted or refused in time, commit-wait ends,
   the transaction is finalized. *)
CommitReturns == \A t \in Txns : tstate[t] = "preparing" ~> step[t] = "over"
=============================================================================
