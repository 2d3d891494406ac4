----------------------------- MODULE LockTable -----------------------------
(***************************************************************************)
(* The lock table of the transaction layer (transaction/lock_table.py):    *)
(* shared and exclusive locks with wound-wait.  Each transaction has one   *)
(* thread that calls the table; all calls run under one condition          *)
(* variable, so a step of this module is what one thread does between      *)
(* taking the condition variable and giving it up (by returning, raising   *)
(* or waiting).                                                            *)
(*                                                                         *)
(* A transaction is named by the rank of its age (start physical, start    *)
(* logical, txn_id), which the code compares and which is unique: t is     *)
(* younger than u iff t > u.                                               *)
(***************************************************************************)
EXTENDS Naturals

CONSTANTS Txns,      \* transactions, each named by the rank of its age
          Keys,      \* lockable keys
          Impatient  \* those whose wait_timeout may expire while they wait

ASSUME TxnsAssumption == Txns \subseteq Nat \ {0}
ASSUME KeysAssumption == Keys \subseteq Nat \ {0}
ASSUME ImpatientAssumption == Impatient \subseteq Txns

NoTxn == 0
Modes == {"read", "write"}
Requests == [key : Keys, mode : Modes]
NoRequest == [key |-> 0, mode |-> "read"]

VARIABLES
    readers,      \* _locks[k].readers, as a set of transactions
    writer,       \* _locks[k].writer, or NoTxn
    held,         \* _held: the keys each transaction is recorded to hold
    wounded,      \* _wounded
    committing,   \* _committing
    phase,        \* where the thread of each transaction is
    want,         \* the request of the acquire call in progress
    expired       \* the deadline of the acquire call has passed

lockVars == <<readers, writer, held, wounded, committing, phase, want, expired>>
tableVars == <<readers, writer, held, wounded, committing>>

(* "running": outside the table; "trying": inside acquire, about to run the
   loop body; "asleep": in cond.wait; "done": released for good. *)
Phases == {"running", "trying", "asleep", "done"}

LockTypeOK ==
    /\ readers \in [Keys -> SUBSET Txns]
    /\ writer \in [Keys -> Txns \cup {NoTxn}]
    /\ held \in [Txns -> SUBSET Keys]
    /\ wounded \in SUBSET Txns
    /\ committing \in SUBSET Txns
    /\ phase \in [Txns -> Phases]
    /\ want \in [Txns -> Requests \cup {NoRequest}]
    /\ \A t \in Txns : phase[t] \in {"trying", "asleep"} => want[t] \in Requests
    /\ expired \in [Txns -> BOOLEAN]

LockInit ==
    /\ readers = [k \in Keys |-> {}]
    /\ writer = [k \in Keys |-> NoTxn]
    /\ held = [t \in Txns |-> {}]
    /\ wounded = {}
    /\ committing = {}
    /\ phase = [t \in Txns |-> "running"]
    /\ want = [t \in Txns |-> NoRequest]
    /\ expired = [t \in Txns |-> FALSE]

-----------------------------------------------------------------------------
(* Conflicts.  A definition whose name starts with Faulty is a plausible bug in
   the definition that follows it; no action uses it, and the mutants that
   test the properties put it in its place. *)

Older(t, u) == t < u

(* An exclusive request does not look at the shared locks. *)
FaultyBlockers(t) == {writer[want[t].key]} \ {NoTxn, t}

(* The transactions whose lock on the requested key excludes the request. *)
Blockers(t) ==
    LET k == want[t].key
        w == {writer[k]} \ {NoTxn, t}
    IN  IF want[t].mode = "read" THEN w ELSE (readers[k] \ {t}) \cup w

(* Committing transactions are wounded like any other; nobody is wounded. *)
FaultyVictims(t) == {h \in Blockers(t) : Older(t, h)}
FaultyVictimsNone(t) == {h \in Blockers(t) : FALSE}

(* The blockers wound-wait aborts: the younger ones that are not applying a
   commit. *)
Victims(t) == {h \in Blockers(t) : Older(t, h) /\ h \notin committing}

(* The locks left when the transactions in S lose every lock recorded in
   _held. *)
ReadersWithout(S) == [k \in Keys |-> {r \in readers[k] : ~(r \in S /\ k \in held[r])}]
FaultyWriterWithout(S) == writer   \* only the shared locks are released
WriterWithout(S) ==
    [k \in Keys |-> IF \E h \in S : writer[k] = h /\ k \in held[h]
                    THEN NoTxn ELSE writer[k]]
HeldWithout(S) == [t \in Txns |-> IF t \in S THEN {} ELSE held[t]]

(* The notify_all is missing. *)
FaultyNotified == phase

(* notify_all: every sleeping thread will run its loop body again. *)
Notified == [t \in Txns |-> IF phase[t] = "asleep" THEN "trying" ELSE phase[t]]

(* Phases after the wounds of one loop body: wounding notifies everyone. *)
NotifiedIfWounding(t) == IF Victims(t) # {} THEN Notified ELSE phase

-----------------------------------------------------------------------------
(* Operations *)

(* A thread enters acquire_read or acquire_write.  A committing transaction
   acquires nothing (the contract stated by enter_commit). *)
CallAcquire(t, r) ==
    /\ phase[t] = "running"
    /\ t \notin committing
    /\ phase' = [phase EXCEPT ![t] = "trying"]
    /\ want' = [want EXCEPT ![t] = r]
    /\ UNCHANGED <<tableVars, expired>>

(* The acquire call is over: its arguments and deadline are gone. *)
Return(t) ==
    /\ want' = [want EXCEPT ![t] = NoRequest]
    /\ expired' = [expired EXCEPT ![t] = FALSE]

(* The wounded thread goes round its loop instead of raising. *)
FaultyRaiseWounded(t) == phase[t] = "trying" /\ t \in wounded /\ UNCHANGED lockVars

(* The loop body finds the transaction wounded: TransactionAborted. *)
RaiseWounded(t) ==
    /\ phase[t] = "trying"
    /\ t \in wounded
    /\ phase' = [phase EXCEPT ![t] = "running"]
    /\ Return(t)
    /\ UNCHANGED tableVars

(* Every blocker is wounded (or there is none): the retry inside the same
   critical section takes the lock. *)
Take(t) ==
    LET k == want[t].key IN
    /\ phase[t] = "trying"
    /\ t \notin wounded
    /\ Victims(t) = Blockers(t)
    /\ wounded' = wounded \cup Victims(t)
    /\ IF want[t].mode = "read"
       THEN /\ readers' = [ReadersWithout(Victims(t)) EXCEPT ![k] = @ \cup {t}]
            /\ writer' = WriterWithout(Victims(t))
       ELSE /\ readers' = ReadersWithout(Victims(t))
            /\ writer' = [WriterWithout(Victims(t)) EXCEPT ![k] = t]
    /\ held' = [HeldWithout(Victims(t)) EXCEPT ![t] = @ \cup {k}]
    /\ phase' = [NotifiedIfWounding(t) EXCEPT ![t] = "running"]
    /\ Return(t)
    /\ UNCHANGED committing

(* Some blocker is older or committing: wound the others, then raise if the
   deadline has passed and sleep otherwise. *)
Block(t) ==
    /\ phase[t] = "trying"
    /\ t \notin wounded
    /\ Victims(t) # Blockers(t)
    /\ wounded' = wounded \cup Victims(t)
    /\ readers' = ReadersWithout(Victims(t))
    /\ writer' = WriterWithout(Victims(t))
    /\ held' = HeldWithout(Victims(t))
    /\ phase' = [NotifiedIfWounding(t) EXCEPT
                    ![t] = IF expired[t] THEN "running" ELSE "asleep"]
    /\ IF expired[t] THEN Return(t) ELSE UNCHANGED <<want, expired>>
    /\ UNCHANGED committing

Try(t) == RaiseWounded(t) \/ Take(t) \/ Block(t)

(* The deadline is only noticed when somebody else wakes the thread. *)
FaultyDeadlinePasses(t) ==
    /\ t \in Impatient
    /\ phase[t] \in {"trying", "asleep"}
    /\ ~expired[t]
    /\ expired' = [expired EXCEPT ![t] = TRUE]
    /\ UNCHANGED <<tableVars, want, phase>>

(* wait_timeout elapses; a sleeping thread returns from cond.wait. *)
DeadlinePasses(t) ==
    /\ t \in Impatient
    /\ phase[t] \in {"trying", "asleep"}
    /\ ~expired[t]
    /\ expired' = [expired EXCEPT ![t] = TRUE]
    /\ phase' = [phase EXCEPT ![t] = "trying"]
    /\ UNCHANGED <<tableVars, want>>

(* The wounded check is left out. *)
FaultyEnterCommit(t) ==
    /\ phase[t] = "running"
    /\ committing' = committing \cup {t}
    /\ UNCHANGED <<readers, writer, held, wounded, phase, want, expired>>

(* enter_commit succeeds.  When it raises instead it changes nothing. *)
EnterCommit(t) ==
    /\ phase[t] = "running"
    /\ t \notin wounded
    /\ committing' = committing \cup {t}
    /\ UNCHANGED <<readers, writer, held, wounded, phase, want, expired>>

(* The committing mark outlives the release. *)
FaultyReleaseTable(t) ==
    /\ readers' = ReadersWithout({t})
    /\ writer' = WriterWithout({t})
    /\ held' = HeldWithout({t})
    /\ wounded' = wounded \ {t}
    /\ UNCHANGED committing

(* What release_all does to the table, whichever thread calls it. *)
ReleaseTable(t) ==
    /\ readers' = ReadersWithout({t})
    /\ writer' = WriterWithout({t})
    /\ held' = HeldWithout({t})
    /\ wounded' = wounded \ {t}
    /\ committing' = committing \ {t}

(* release_all by the transaction's own thread; txn_ids are not reused. *)
ReleaseAll(t) ==
    /\ phase[t] = "running"
    /\ ReleaseTable(t)
    /\ phase' = [Notified EXCEPT ![t] = "done"]
    /\ UNCHANGED <<want, expired>>

AllDone == (\A t \in Txns : phase[t] = "done") /\ UNCHANGED lockVars

LockNext ==
    \/ \E t \in Txns :
          \/ \E r \in Requests : CallAcquire(t, r)
          \/ Try(t)
          \/ DeadlinePasses(t)
          \/ EnterCommit(t)
          \/ ReleaseAll(t)
    \/ AllDone

LockSpec == LockInit /\ [][LockNext]_lockVars

(* The threads inside the table are scheduled, and every caller that keeps
   getting the chance to finish its transaction does finish it. *)
CallersFinishSpec ==
    LockSpec /\ \A t \in Txns : WF_lockVars(Try(t)) /\ SF_lockVars(ReleaseAll(t))

-----------------------------------------------------------------------------
(* Properties *)

(* An exclusive lock excludes every other lock on the key, whatever was
   wounded, timed out or released in between (acquire_read, acquire_write). *)
Exclusion ==
    \A k \in Keys : writer[k] # NoTxn => readers[k] \subseteq {writer[k]}

(* _held, which release_all and the wounds go by, names exactly the locks in
   the table: none is leaked and none of another transaction is stripped. *)
HeldMatchesLocks ==
    \A t \in Txns : held[t] = {k \in Keys : t \in readers[k] \/ writer[k] = t}

(* A wounded transaction has lost every lock and regains none before it is
   released, and no transaction is wounded once it is committing. *)
WoundedIsPowerless ==
    \A t \in wounded : held[t] = {} /\ t \notin committing

(* Wound-wait: a sleeping thread waits for some older or committing holder,
   so no wake-up was lost and chains of waiting lead to ever older
   transactions. *)
SleepsBehindOlder ==
    \A t \in Txns : phase[t] = "asleep" =>
        \E h \in Blockers(t) : Older(h, t) \/ h \in committing

(* No deadlock (module header, "Guarantees no deadlock without a waits-for
   graph"): whenever some thread sleeps, some lock is held by a transaction
   whose thread does not. *)
NoDeadlock ==
    (\E t \in Txns : phase[t] = "asleep") =>
        \E h \in Txns : phase[h] # "asleep" /\ held[h] # {}

(* The fence of enter_commit: a committing transaction keeps its locks until
   its own release_all. *)
CommitFence ==
    [][\A t \in Txns : t \in committing /\ t \in committing' => held'[t] = held[t]]_lockVars

(* Every acquire call returns or raises: no thread stays in the table from
   some time on. *)
AcquireReturns ==
    \A t \in Txns : []<>(phase[t] \notin {"trying", "asleep"})
=============================================================================
